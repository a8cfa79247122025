SPECIFICATION FairSpec
CONSTANTS
  Clients = {c1, c2}
  NULL = NULL
  MaxMsgs = 2
CHECK_DEADLOCK FALSE
INVARIANTS
  OneConnection
  NoClientGetsTwice
  FramesAreWhole
PROPERTY StoredDataArrives
