------------------------------ MODULE MCConstants ------------------------------
(* Instances of Constants for TLC.  The tree: an interface and three classes  *)
(* in a chain, the second of which implements it.                             *)
EXTENDS Constants, TLC

CONSTANTS iface, base, middle, leaf, k, s, r, g1, g2, LOW, low, FOO, foo

MCClass      == {iface, base, middle, leaf}
MCInterface  == {iface}
MCParent     == iface :> None @@ base :> None @@ middle :> base @@ leaf :> middle
MCSuper      == iface :> {} @@ base :> {} @@ middle :> {base} @@ leaf :> {base, middle}
MCImplements == [x \in MCClass |-> IF x = middle THEN {iface} ELSE {}]
MCConst      == {k}
MCDeclared(v, x) == [value |-> v, access |-> x]
MCOwn == [x \in MCClass |-> [y \in MCConst |->
            CASE x = iface -> {MCDeclared(r, "final"), MCDeclared(r, "public")}
              [] x = base -> {MCDeclared(r, "private"), MCDeclared(r, "public")}
              [] x = middle -> {MCDeclared(s, "public")}
              [] x = leaf -> {}]]
MCSite  == {leaf}
MCFlag  == {"public", "private"}
MCGen   == {g1, g2}
MCValue == {s, r}
MCBoxed == {r}

(* Global constants: LOW of the script, and low of a module.                 *)
MCGlobal   == {LOW, low}
MCFolded   == LOW :> low @@ low :> low
MCInternal == {low}

(* The case instance: a class, and two global constants of the script whose *)
(* names differ in case.                                                     *)
CaseClass      == {base}
CaseParent     == base :> None
CaseSuper      == base :> {}
CaseImplements == base :> {}
CaseOwn        == base :> (k :> {})
CaseGlobal     == {FOO, foo}
CaseFolded     == FOO :> foo @@ foo :> foo
================================================================================
