--------------------------------- MODULE MCAdc ---------------------------------
(* Instances of Adc for TLC: all bounds are in the .cfg files.             *)
EXTENDS Adc
===============================================================================
