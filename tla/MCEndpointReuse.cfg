SPECIFICATION Spec
CONSTANTS
  Width = 2
  MaxEntries = 2
  Values = {a1, a2, a3}
  NULL = NULL
  MaxSets = 6
  Types = {"ipc", "gpio"}
  Pairs = {q1}
  AllocFails = FALSE
SYMMETRY Symmetry
CHECK_DEADLOCK FALSE
INVARIANT UnbindAssertsHold
