SPECIFICATION FairSpec
CONSTANTS
  Width = 1
  MaxEntries = 1
  Values = {x1, x2}
  NULL = NULL
  MaxSets = 2
  Threads = {t1, t2}
  MaxMsgs = 2
  Uses = {"share", "reenter", "early"}
CHECK_DEADLOCK FALSE
PROPERTY LockIsReleased
