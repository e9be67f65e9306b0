----------------------------- MODULE MCIepTime -----------------------------
(* Instances of IepTime for TLC.                                           *)
EXTENDS IepTime

\* Host timestamps that are late, right and early.
Errors == {-1, 0, 2}
=============================================================================
