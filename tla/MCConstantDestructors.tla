------------------------ MODULE MCConstantDestructors -------------------------
(* A class with one below it, an enum, and two global constants whose names  *)
(* differ in case.                                                           *)
EXTENDS ConstantDestructors, TLC

CONSTANTS base, leaf, enum, k, s, r, g1, g2, FOO, foo

MCClass      == {base, leaf, enum}
MCParent     == base :> None @@ leaf :> base @@ enum :> None
MCSuper      == base :> {} @@ leaf :> {base} @@ enum :> {}
MCImplements == [x \in MCClass |-> {}]
MCConst      == {k}
MCOwn        == [x \in MCClass |-> [y \in MCConst |->
                   IF x = enum THEN {[value |-> r, access |-> "case"]} ELSE {}]]
MCSite       == {base}
MCFlag       == {"public"}
MCGen        == {g1, g2}
MCValue      == {s, r}
MCBoxed      == {r}
MCDying      == {r}
MCGlobal     == {FOO, foo}
MCFolded     == FOO :> foo @@ foo :> foo
MCReader     == {foo}
================================================================================
