------------------------------ MODULE MCAttempt ------------------------------
(***************************************************************************)
(* Instances of Attempt for TLC: the threads of one card's runs.           *)
(***************************************************************************)
EXTENDS Attempt, TLC

CONSTANTS t1, t2

OneThread == {t1}
TwoThreads == {t1, t2}
ThreadSymmetry == Permutations(Threads)
=============================================================================
