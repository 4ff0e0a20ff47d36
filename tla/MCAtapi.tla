------------------------------ MODULE MCAtapi ------------------------------
(* Atapi for TLC: two sectors of two pieces, reads of up to two sectors.   *)
EXTENDS Atapi
==============================================================================
