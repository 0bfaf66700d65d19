\* a box cut off before another one
SPECIFICATION Spec
CONSTANTS
  Reports = {"box1", "box2"}
  Kind <- MCKind
  Rows <- MCRows
  Mixed = FALSE
  MaxCut = 1
INVARIANT CompleteReportsAreFound
