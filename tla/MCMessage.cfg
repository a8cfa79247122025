SPECIFICATION FairSpec
CONSTANTS
  Hdr = 2
  Mod = 5
  Lens = {0, 1, 2, 3}
  MaxFrames = 3
  AllocFails = TRUE
CHECK_DEADLOCK FALSE
INVARIANTS
  TypeOK
  DeliversInOrder
PROPERTIES
  EventuallyDelivered
  ImplementsFifo
