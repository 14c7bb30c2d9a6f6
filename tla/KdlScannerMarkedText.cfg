SPECIFICATION Spec
CONSTANTS
  UTFMax = 2
  BufferSize = 8
  Documents <- MCDocuments
  MaxLength = 17
  MaxMarks = 2
  MaxHeld = 1
INVARIANT
  CopyFromMarkIsTheMarkedText
CHECK_DEADLOCK FALSE
