----------------------------- MODULE MCMethods -----------------------------
(* Instances of Methods for TLC: chains of two and of four classes, and a  *)
(* tree with two branches.                                                 *)
EXTENDS Methods, TLC

CONSTANTS a1, b1, c1, d1, m1, m2, g1, g2

PairClass  == {a1, b1}
PairParent == a1 :> None @@ b1 :> a1
PairSuper  == a1 :> {} @@ b1 :> {a1}

DeepClass  == {a1, b1, c1, d1}
DeepParent == a1 :> None @@ b1 :> a1 @@ c1 :> b1 @@ d1 :> c1
DeepSuper  == a1 :> {} @@ b1 :> {a1} @@ c1 :> {a1, b1} @@ d1 :> {a1, b1, c1}

TreeClass  == {a1, b1, c1, d1}
TreeParent == a1 :> None @@ b1 :> a1 @@ c1 :> b1 @@ d1 :> a1
TreeSuper  == a1 :> {} @@ b1 :> {a1} @@ c1 :> {a1, b1} @@ d1 :> {a1}

OneMethod  == {m1}
NoMethod   == {}
TwoMethods == {m1, m2}
TwoGens    == {g1, g2}
GenSymmetry == Permutations(Gen)
=============================================================================
