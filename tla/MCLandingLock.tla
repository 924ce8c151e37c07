--------------------------- MODULE MCLandingLock ---------------------------
(***************************************************************************)
(* Instances of LandingLock for TLC: up to two cards of the board and up   *)
(* to three agents outside it, all after the same base branch.             *)
(***************************************************************************)
EXTENDS LandingLock, TLC

CONSTANTS c1, c2, a1, a2, a3

NoCard == {}
OneCard == {c1}
TwoCards == {c1, c2}
OneAgent == {a1}
TwoAgents == {a1, a2}
ThreeAgents == {a1, a2, a3}

ClientSymmetry == Permutations(Cards) \cup Permutations(Agents)
=============================================================================
