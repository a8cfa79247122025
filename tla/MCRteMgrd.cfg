SPECIFICATION Spec
CONSTANTS
  Names = {n1, n2}
  Ctl = ctl
  Addrs = {a1, a2}
  CtlAddr = a0
  NULL = NULL
  MaxMsgs = 2
  MaxIds = 8
  AllocFails = TRUE
SYMMETRY Symmetry
CHECK_DEADLOCK FALSE
INVARIANTS
  InterfacesAreFound
  RoutesAreSound
  MemoryIsSafe
  MessagesAreKept
