---------------------------- MODULE MCMeasureSync ----------------------------
(* Instances of MeasureSync for TLC: all bounds are in the .cfg files.     *)
EXTENDS MeasureSync
=============================================================================
