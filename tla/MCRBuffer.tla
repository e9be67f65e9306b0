------------------------------ MODULE MCRBuffer ------------------------------
(* Instances of RBuffer for TLC. *)
EXTENDS RBuffer

MCWord == 0..2

\* Both widths on one buffer, every pair of two distinguishable words.
MixedArgs == {<<1>>, <<2>>, <<1, 2>>, <<2, 1>>}
=============================================================================
