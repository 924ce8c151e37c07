CONSTANTS
  c1 = c1
  c2 = c2
  c3 = c3
  b1 = b1
  b2 = b2
  t1 = t1
  t2 = t2
  t3 = t3
  t4 = t4
  Cards <- ThreeCards
  Boards <- OneBoard
  Threads <- ThreeThreads
  BoardOf <- OnOneBoard
  Clash <- Overlapping
  DependsOn <- NoDependencies
  Capped = {c3}
  MaxParallel = 3
  BoardCap <- TwoEach
  ApiMaxRetries = 1
  RuntimeMaxRetries = 1
  Endings = {"opened", "refused", "API_UNREACHABLE", "USAGE_LIMIT"}
  Acts = {"start all", "stop"}
  MaxPresses = 2
  MaxLimits = 1
  MaxRestarts = 0
SPECIFICATION Spec
SYMMETRY SafetySymmetry
INVARIANTS
  BoardLeasesDisjoint
  StoppedStaysStopped
  QueueIsASet
CHECK_DEADLOCK FALSE
