CONSTANTS
  w1 = w1  w2 = w2  s1 = s1
  Workers <- TwoWorkers
  Strangers <- OneStranger
  Happens = {"stranger", "conflict", "skip", "unread", "sweep", "timeout", "crash", "reject"}
  MaxMoves = 1
  MaxRuns = 3
SPECIFICATION Spec
SYMMETRY WorkerSymmetry
INVARIANTS StrangersKept PullRequestFollows
PROPERTIES OwnWorkKept 
CHECK_DEADLOCK FALSE
