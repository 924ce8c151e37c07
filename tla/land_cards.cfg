CONSTANTS
  c1 = c1
  c2 = c2
  a1 = a1
  a2 = a2
  a3 = a3
  NoOne = NoOne
  Cards <- TwoCards
  Agents <- OneAgent
  Attempts = 2
  Happens = {"fetch", "slow"}
  MaxLapses = 1
  MaxPushes = 2
  MaxCrashes = 0
SPECIFICATION Spec
INVARIANT OnlyEvictedOverlap
PROPERTY LandsTested
SYMMETRY ClientSymmetry
CHECK_DEADLOCK FALSE
