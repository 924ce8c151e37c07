CONSTANTS
  c1 = c1
  c2 = c2
  a1 = a1
  a2 = a2
  a3 = a3
  NoOne = NoOne
  Cards <- NoCard
  Agents <- ThreeAgents
  Attempts = 2
  Happens = {"watch", "sleep", "kill", "interrupt", "late beat"}
  MaxLapses = 1
  MaxPushes = 0
  MaxCrashes = 1
SPECIFICATION Spec
PROPERTIES
  FirstComeFirstServed
  LiveHolderKeepsIt
SYMMETRY ClientSymmetry
CHECK_DEADLOCK FALSE
