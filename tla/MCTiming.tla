------------------------------ MODULE MCTiming ------------------------------
(* Timing for TLC: a counter of eight values, seconds of three ticks. *)
EXTENDS Timing
==============================================================================
