------------------------------ MODULE MCTimeSync ------------------------------
(***************************************************************************)
(* TimeSync for TLC: the bounds are in the .cfg files.                     *)
(***************************************************************************)
EXTENDS TimeSync
=============================================================================
