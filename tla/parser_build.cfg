CONSTANTS
  Builder <- TheBuilders
  Root = "Host"
  Kind <- TheKind
  Members <- TheMembers
  Visitor <- TheVisitor
  Chars <- DocumentChars
  Depth = 4
  DoneDepth = 2
  TokenSize = 4
  MaxText = 1
  MaxItems = 2
  MaxIndex = 1
  MaxDocs = 2
  MaxUnfinished = 0
SPECIFICATION ParserSpec
INVARIANTS
  ParserTypeOK
  CursorsFollowModes
  KeyFollowsMode
  AbortsOnBrokenTextOnly
  MismatchIsTheCallers
  NoDanglingElement
  CompleteDocumentsKeepApart
PROPERTIES
  ObjectMapPromised
CHECK_DEADLOCK FALSE
