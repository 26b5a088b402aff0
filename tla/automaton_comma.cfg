CONSTANTS
  Chars <- DocumentChars
  MaxDepth = 3
  MaxText = 1
  MaxToken = 2
  RetryAfterThrow = FALSE
SPECIFICATION Spec
PROPERTIES
  ValueOnlyAfterKey
CHECK_DEADLOCK FALSE
