CONSTANTS
  t1 = t1
  t2 = t2
  NoThread = NoThread
  Threads <- TwoThreads
  MaxFixRounds = 1
  Ends = {"refused", "broken"}
  Acts = {}
  Happens = {"handover", "sweep"}
  MaxAttempts = 2
  MaxActs = 0
  MaxCommits = 1
  MaxMoves = 1
  MaxCrashes = 1
SPECIFICATION FairSpec
PROPERTIES
  KeepsPromise
  RunEnds
CHECK_DEADLOCK FALSE
