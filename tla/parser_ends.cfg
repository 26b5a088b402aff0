CONSTANTS
  Builder <- TheBuilders
  Root = "Host"
  Kind <- TheKind
  Members <- TheMembers
  Visitor <- TheVisitor
  Chars = {"lsqrb", "rsqrb"}
  Depth = 3
  DoneDepth = 2
  TokenSize = 4
  MaxText = 1
  MaxItems = 1
  MaxIndex = 1
  MaxDocs = 1
  MaxUnfinished = 0
SPECIFICATION ParserSpec
INVARIANT EndsHaveStarts
CHECK_DEADLOCK FALSE
