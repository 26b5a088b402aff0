CONSTANTS
  Chars <- TextChars
  MaxLength = 6
SPECIFICATION Spec
INVARIANTS
  CheckerKnowsJson
PROPERTIES
  EnginesAgree
  SameEvents
  SameText
  FinishedIsAccepted
CHECK_DEADLOCK FALSE
