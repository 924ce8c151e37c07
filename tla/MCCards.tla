------------------------------- MODULE MCCards -------------------------------
(* Instances of Cards for TLC. *)
EXTENDS Cards, TLC

CONSTANTS c1, c2, c3, c4, m1, m2

Three == {c1, c2, c3}
Four == {c1, c2, c3, c4}
One == {m1}
Two == {m1, m2}
Symmetry3 == Permutations(Three)
Symmetry3x2 == Permutations(Three) \cup Permutations(Two)
Symmetry4 == Permutations(Four) \cup Permutations(Two)
=============================================================================
