------------------------------ MODULE MCConsole ------------------------------
(* Console for TLC: a screen of three rows of five columns, three          *)
(* characters after the prompt filling a row; one command writes, one clears.*)
EXTENDS Console

MCOutputs == {<<>>, <<"r", "r", Break>>, <<Wipe>>}
==============================================================================
