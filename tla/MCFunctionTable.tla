---------------------------- MODULE MCFunctionTable ----------------------------
(* An instance of FunctionTable for TLC: two internal functions and a name the *)
(* process does not know.                                                      *)
EXTENDS FunctionTable, TLC

CONSTANTS f, h, g, b1

MCName == {f, h, g}
MCBoot == {f, h}
MCBody == {b1}
=============================================================================
