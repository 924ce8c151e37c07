---------------------------- MODULE MCRebaseGuard ----------------------------
(* Instances of RebaseGuard for TLC. *)
EXTENDS RebaseGuard, TLC

CONSTANTS w1, w2, s1

TwoWorkers == {w1, w2}
OneWorker == {w1}
OneStranger == {s1}
Nobody == {}
WorkerSymmetry == Permutations(TwoWorkers)
=============================================================================
