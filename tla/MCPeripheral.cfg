SPECIFICATION FairSpec
CONSTANTS
  WriteLens = {0, 2}
  MaxReqs = 2
  MaxInputs = 3
  MaxReads = 3
  AllocFails = TRUE
CHECK_DEADLOCK FALSE
INVARIANTS
  ResourcesAreOwned
  RepliesMatchRequests
  NoEmptyFrames
  InputInOrder
PROPERTY RequestsAreHandled
