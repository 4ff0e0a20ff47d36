------------------------------- MODULE MCPs2 -------------------------------
(* Ps2 for TLC. *)
EXTENDS Ps2
==============================================================================
