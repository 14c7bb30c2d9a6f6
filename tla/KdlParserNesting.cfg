SPECIFICATION Spec
CONSTANTS
  RecentCount = 5
  Input <- NestingInput
  Options <- NoOptions
  MaxNodes = 3
  MaxValues = 1
  MaxDepth = 5
  MaxComment = 0
INVARIANTS
  TypeOK
  StackShape
  NoInternalError
  ContinuationStaysInNode
  SuppressedBlocksCounted
  OpenNodesNest
PROPERTIES
  ImplementsNodeTree
  OnlyCurrentNodeChanges
  SuppressedBlocksLeaveNoTrace
CHECK_DEADLOCK FALSE
