SPECIFICATION Spec
CONSTANTS
  RecentCount = 5
  Input <- ValueInput
  Options <- SyntaxOptions
  MaxNodes = 1
  MaxValues = 1
  MaxDepth = 3
  MaxComment = 0
INVARIANTS
  StackShape
  HeldTokenHasAnOwner
PROPERTIES
  HeldValueAccountedFor
CHECK_DEADLOCK FALSE
