CONSTANTS
  Chars <- StructureChars
  Depth = 3
  TokenSize = 4
  MaxText = 3
SPECIFICATION Spec
INVARIANTS
  EmptyCellRejects
CHECK_DEADLOCK FALSE
