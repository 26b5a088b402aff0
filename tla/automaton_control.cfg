CONSTANTS
  Chars <- Everything
  MaxDepth = 3
  MaxText = 1
  MaxToken = 2
  RetryAfterThrow = TRUE
SPECIFICATION Spec
INVARIANTS
  TypeOK
  ModesAgree
PROPERTIES
  EventStreamPromised
CHECK_DEADLOCK FALSE
