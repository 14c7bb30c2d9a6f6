SPECIFICATION Spec
CONSTANTS
  RecentCount = 5
  Input <- ValueInput
  Options <- NoOptions
  MaxNodes = 1
  MaxValues = 1
  MaxDepth = 4
  MaxComment = 0
INVARIANT
  EveryArgumentWasWritten
CHECK_DEADLOCK FALSE
