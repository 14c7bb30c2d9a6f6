SPECIFICATION Spec
CONSTANTS
  p1 = p1
  p2 = p2
  a = a
  b = b
  Procs = {p1, p2}
  Types = {a, b}
  NameOf <- MCNameOf
  Handlers = {h}
  NoHandler = NoHandler
  Programs <- MCPrograms
  MaxCalls = 3
SYMMETRY Symmetry
CHECK_DEADLOCK FALSE
INVARIANTS
  TypeOK
  HandlersFreeze
  ReadsRaceOnlyWithPending
  RegisteredHandlersAreCalled
  NilCallsOnlyHere
