CONSTANTS
  Builder <- TheBuilders
  Root = "Items"
  Kind <- TheKind
  Members <- TheMembers
  Visitor <- TheVisitor
  Chars = {"lsqrb", "rsqrb", "digit", "comma"}
  Depth = 3
  DoneDepth = 2
  TokenSize = 4
  MaxText = 1
  MaxItems = 2
  MaxIndex = 1
  MaxDocs = 2
  MaxUnfinished = 1
SPECIFICATION ParserSpec
INVARIANT WritesToTarget
CHECK_DEADLOCK FALSE
