------------------------------ MODULE MCPruClock ------------------------------
(* Instances of PruClock for TLC: all bounds are in the .cfg files.        *)
EXTENDS PruClock
=============================================================================
