SPECIFICATION Spec
CONSTANTS
  Width = 2
  MaxEntries = 2
  Values = {a1, a2, a3}
  NULL = NULL
  MaxSets = 5
  Types = {"ipc", "gpio"}
  Pairs = {q1, q2}
  AllocFails = TRUE
SYMMETRY Symmetry
CHECK_DEADLOCK FALSE
INVARIANTS
  BindingsAreMutual
  HandlesFindEndpoints
  FirstGenerationIsSafe
