CONSTANTS
  t1 = t1
  t2 = t2
  NoThread = NoThread
  Threads <- OneThread
  MaxFixRounds = 1
  Ends = {"failed", "capped"}
  Acts = {"stop", "note", "edit", "accept"}
  Happens = {}
  MaxAttempts = 3
  MaxActs = 1
  MaxCommits = 1
  MaxMoves = 1
  MaxCrashes = 0
SPECIFICATION Spec
INVARIANTS
  StoppedOpensNothing
  StopsOnRequest
  KilledIsNoCrash
PROPERTIES
  OpenedIsVetted
  SkipIsJustified
CHECK_DEADLOCK FALSE
