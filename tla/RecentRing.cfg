SPECIFICATION Spec
CONSTANTS
  RecentCount = 5
  Input <- MCInput
  MaxFed = 7
INVARIANTS
  GetIsTheLastTokens
  TrailingNewlinesAreBlankLines
CHECK_DEADLOCK FALSE
