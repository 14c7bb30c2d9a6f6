SPECIFICATION Spec
CONSTANTS
  UTFMax = 2
  BufferSize = 8
  Documents <- MCDocuments
  MaxLength = 17
  MaxMarks = 2
  MaxHeld = 1
INVARIANTS
  TypeOK
  PeekIsNextCharacter
  RefillKeepsMarkedText
  SmallDocumentsKeepTheirTokens
CHECK_DEADLOCK FALSE
