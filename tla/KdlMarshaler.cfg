CONSTANTS
  Lower <- MCLower
  Suites <- MCSuites
  Orders <- MCOrders
  Usual <- MCUsual
SPECIFICATION Spec
CHECK_DEADLOCK FALSE
INVARIANTS
  TypeOK
  NothingIsDropped
  PanicsOnlyHere
  RoundTrip
  CommentsComeBack
  LenienceChangesNothing
  OrderDoesNotMatter
