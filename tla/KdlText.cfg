SPECIFICATION TextSpec
CONSTANTS
  RecentCount = 5
  Input = {}
  Options <- MCOptions
  MaxNodes = 9
  MaxValues = 9
  MaxDepth = 9
  MaxComment = 9
  MaxInt = 255
  MaxTens = 12
  Texts <- MCTexts
  Nodes <- MCNodes
  Cases <- MCCases
INVARIANTS
  ReaderTypeOK
  NothingUnread
  TruncationIsRefused
  SuffixesOnlyAdd
  LossIsReported
  TextReadsBack
  CommentsReadBack
PROPERTIES
  CommentsConserved
CHECK_DEADLOCK FALSE
