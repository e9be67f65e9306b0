------------------------------ MODULE MCIepTimer ------------------------------
(* Instances of IepTimer for TLC: the bounds are in the .cfg file.         *)
EXTENDS IepTimer
=============================================================================
