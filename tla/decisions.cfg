CONSTANTS
  c1 = c1
  c2 = c2
  c3 = c3
  b1 = b1
  b2 = b2
  t1 = t1
  t2 = t2
  t3 = t3
  t4 = t4
  Cards <- TwoCards
  Boards <- OneBoard
  Threads <- TwoThreads
  BoardOf <- OnOneBoard
  Clash <- Alone
  DependsOn <- SecondOnFirst
  Capped = {}
  MaxParallel = 1
  BoardCap <- NoCap
  ApiMaxRetries = 1
  RuntimeMaxRetries = 1
  Endings = {"opened", "landed", "MERGE_CONFLICT"}
  Acts = {"run", "answer", "accept", "reject"}
  MaxPresses = 4
  MaxLimits = 0
  MaxRestarts = 0
SPECIFICATION Spec
SYMMETRY SafetySymmetry
INVARIANTS
  RejectionReachesDependents
  OneRunPerCard
CHECK_DEADLOCK FALSE
