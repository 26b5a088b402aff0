CONSTANTS
  Chars <- RetryChars
  MaxDepth = 4
  MaxText = 3
  MaxToken = 4
  RetryAfterThrow = TRUE
SPECIFICATION ThrowingSpec
VIEW ButGot
PROPERTIES
  StackFollowsEvents
  RecoverableOutsideLiteral
CHECK_DEADLOCK FALSE
