SPECIFICATION UseSpec
CONSTANTS
  Width = 2
  MaxEntries = 2
  Values = {p1, p2, p3, p4, p5}
  NULL = NULL
  MaxSets = 5
  MallocFails = TRUE
SYMMETRY Symmetry
CHECK_DEADLOCK FALSE
INVARIANTS
  UseTypeOK
  IdsAreExclusive
  LookupFindsOwner
  RefusesOnlyWhenFull
  SearchIsFirstFree
