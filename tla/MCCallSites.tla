---------------------------- MODULE MCCallSites ----------------------------
(* An instance of CallSites for TLC: a method, the main script and the     *)
(* inner function of an alias, each with a call of one name.             *)
EXTENDS CallSites, TLC

CONSTANTS f1, f2, small, large, method, script, inner

TwoNames   == {f1, f2}
TwoBodies  == {small, large}
TwoGens    == 1..2
Sizes      == small :> 1 @@ large :> 2
Callers    == {method, script, inner}
Outside    == {method, script}
Targets    == [c \in Caller |-> f1]
HomeOf     == [c \in Caller |-> CASE c = method -> "table"
                                  [] c = script -> "script"
                                  [] c = inner  -> "inner"]
OneDies    == {[body |-> small, gen |-> 1]}
NoneDies   == {}
=============================================================================
