---------------------------- MODULE MCScheduler ----------------------------
(***************************************************************************)
(* Instances of Scheduler for TLC: up to three cards on one or two boards, *)
(* the leases of two of them clashing.                                     *)
(***************************************************************************)
EXTENDS Scheduler, TLC

CONSTANTS c1, c2, c3, b1, b2, t1, t2, t3, t4

OneCard == {c1}
TwoCards == {c1, c2}
ThreeCards == {c1, c2, c3}
OneBoard == {b1}
TwoBoards == {b1, b2}
TwoThreads == {t1, t2}
ThreeThreads == {t1, t2, t3}
FourThreads == {t1, t2, t3, t4}

OnOneBoard == [c \in Cards |-> b1]
\* c1 and c2 share a board, or each card has its own where there are two
OnTwoBoards == [c \in Cards |-> IF c = c1 THEN b1 ELSE b2]

\* a card with a lease clashes with itself; c1 and c2 may touch the same file
Alone == {<<c, c>> : c \in Cards}
Overlapping == Alone \cup {<<c1, c2>>, <<c2, c1>>}

NoDependencies == [c \in Cards |-> {}]
SecondOnFirst == [c \in Cards |-> IF c = c2 THEN {c1} ELSE {}]

NoCap == [b \in Boards |-> Cardinality(Cards)]
OneEach == [b \in Boards |-> 1]
TwoEach == [b \in Boards |-> 2]

SafetySymmetry == Permutations(Threads)
=============================================================================
