CONSTANTS
  x = x  y = y
  Cards <- TwoCards
  Paths <- Files
  Globs <- SomeGlobs
  Protected <- Fences
  Happens = {"patch", "mode", "approve", "forget", "die", "crash"}
  MaxWrites = 1
  MaxStarts = 3
  MaxChanges = 1
SPECIFICATION Spec
SYMMETRY CardSymmetry
INVARIANTS NoSharedEdits OpenedIsJudged ProtectedIsNamed
PROPERTY HeldIsSpared
CHECK_DEADLOCK FALSE
