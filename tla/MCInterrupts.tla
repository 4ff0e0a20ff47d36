---------------------------- MODULE MCInterrupts ----------------------------
(* Interrupts for TLC: the two lines that have handlers, one more of the   *)
(* master's and two of the slave's (the mouse and the disc).               *)
EXTENDS Interrupts
==============================================================================
