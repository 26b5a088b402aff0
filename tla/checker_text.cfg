CONSTANTS
  Chars <- TextChars
  Depth = 3
  TokenSize = 4
  MaxText = 3
SPECIFICATION Spec
INVARIANTS
  TypeOK
  CheckerModesAgree
  TokenHoldsText
PROPERTIES
  KeysAndValuesAlternate
  TextDelivered
CHECK_DEADLOCK FALSE
