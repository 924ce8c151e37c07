CONSTANTS
  c1 = c1
  c2 = c2
  c3 = c3
  b1 = b1
  b2 = b2
  t1 = t1
  t2 = t2
  t3 = t3
  t4 = t4
  Cards <- TwoCards
  Boards <- OneBoard
  Threads <- TwoThreads
  BoardOf <- OnOneBoard
  Clash <- Alone
  DependsOn <- NoDependencies
  Capped = {}
  MaxParallel = 1
  BoardCap <- NoCap
  ApiMaxRetries = 1
  RuntimeMaxRetries = 1
  Endings = {"landed", "OTHER", "USAGE_LIMIT", "runtime"}
  Acts = {"start all"}
  MaxPresses = 1
  MaxLimits = 1
  MaxRestarts = 1
SPECIFICATION FairSpec
INVARIANTS
  NoSilentDoing
  BoardWithinGlobalCap
PROPERTIES
  QueuedCardLeaves
CHECK_DEADLOCK FALSE
