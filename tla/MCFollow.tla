------------------------------ MODULE MCFollow ------------------------------
(* Instances of Follow for TLC. *)
EXTENDS Follow, TLC

CONSTANTS r1, r2, r3, a, a2, b

TwoRadios    == {r1, r2}
ThreeRadios  == {r1, r2, r3}
TwoProfiles  == {a, b}
SomeProfiles == {a, a2, b}
TwoNets      == [p \in Profiles |-> IF p = b THEN "B" ELSE "A"]
OneBound     == {b}
TwoTroubles  == {<<2, 2>>}
BothScenes   == TwoTroubles \union {<<3, 0>>}
Alike        == Permutations(Radios)
=============================================================================
