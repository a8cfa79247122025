SPECIFICATION Spec
CONSTANTS
  Width = 1
  MaxEntries = 2
  Values = {x1, x2}
  NULL = NULL
  MaxSets = 3
  Threads = {t1, t2}
  MaxMsgs = 1
  Uses = {"share", "invalid", "reenter", "early", "vain"}
SYMMETRY Symmetry
CHECK_DEADLOCK FALSE
INVARIANTS
  CallbacksExclusive
  ContextsAreOwned
  MemoryIsSafe
