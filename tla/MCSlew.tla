-------------------------------- MODULE MCSlew --------------------------------
(* Instances of Slew for TLC.                                              *)
EXTENDS Slew

\* By how much a host timestamp may be wrong.
Errors == {-4, 0, 5}
===============================================================================
