----------------------------- MODULE MCPruTime -----------------------------
(* Instances of PruTime for TLC.                                           *)
EXTENDS PruTime

\* Host timestamps that are late, right and early.
Errors == {-1, 0, 2}
=============================================================================
