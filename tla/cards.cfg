CONSTANTS
  c1 = c1  c2 = c2  c3 = c3  c4 = c4  m1 = m1  m2 = m2
  NoCard = NoCard
  Originals <- Three
  Fresh <- Two
  Happens = {"run", "patch", "delete", "restore", "fold", "turn", "crash"}
  MaxGroups = 1
  MaxHappened = 2
  MaxEdges = 1
SPECIFICATION Spec
SYMMETRY Symmetry3
INVARIANTS CyclesAreUnchecked OrderIsKept WorkIsNotLost
PROPERTIES StartsInOrder FoldSparesRuns
CHECK_DEADLOCK FALSE
