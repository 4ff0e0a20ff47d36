----------------------------- MODULE MCKeyboard -----------------------------
(* Keyboard for TLC: a narrow index, so that the behaviours include the    *)
(* wrap of key_buffer_read, of key_buffer_length and of their sum.         *)
EXTENDS Keyboard
==============================================================================
