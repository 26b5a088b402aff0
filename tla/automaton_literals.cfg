CONSTANTS
  Chars <- LiteralChars
  MaxDepth = 2
  MaxText = 3
  MaxToken = 6
  RetryAfterThrow = FALSE
SPECIFICATION Spec
INVARIANTS
  TokenHoldsLiteral
  AssertionsHold
PROPERTIES
  LiteralIntact
  EventStreamPromised
CHECK_DEADLOCK FALSE
