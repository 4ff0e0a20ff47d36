------------------------------ MODULE MCUserMode ------------------------------
(* UserMode for TLC: bytes of sixteen values, the task segment at addresses *)
(* that differ in every byte, room for two programs on the stack.           *)
EXTENDS UserMode

MCTssPlaces == {1, 16, 256, 4096, 65535, 4660}
==============================================================================
