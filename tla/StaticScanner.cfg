SPECIFICATION FairSpec
CONSTANTS
  Callers = {p1, p2}
  Nobody = Nobody
  Texts <- MCTexts
  Chars <- MCChars
  End = End
  Recognise <- MCRecognise
INVARIANT
  TypeOK
PROPERTIES
  ImplementsPrivateScanner
