CONSTANTS
  c1 = c1  c2 = c2
  t1 = t1  t2 = t2
  home = home  away = away  work = work
  DefaultName = default
  DefaultLab = home
  NoName = NoName  NoCard = NoCard
  Labs <- TwoLabs
  Names <- TwoNames
  Cards <- OneCard
  Threads <- TwoThreads
  Fallbacks <- OtherLab
  Configured <- Set
  Requests = {"add", "remove", "activate", "route", "press", "turn"}
  Used <- HomeOnly
  Park = 1
  MaxTime = 2
  MaxWindow = 2
  MaxRefusals = 2
  MaxRequests = 1
SPECIFICATION FairSpec
INVARIANTS
  LimitsAreTheRefused
  PauseIsOfItsLab
  FallbackServesOneRun
PROPERTY LimitedRunsAgain
CHECK_DEADLOCK FALSE
