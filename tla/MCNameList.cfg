SPECIFICATION Spec
CONSTANTS
  Nodes = {n1, n2, n3}
  NULL = NULL
  Names = {a, b, c}
  Callbacks = {f}
  Owner = t1
  Senders = {t2}
  AllocFails = TRUE
SYMMETRY Symmetry
INVARIANTS WellLinked LookupsAreSound
PROPERTY ImplementsNameSeq
CHECK_DEADLOCK FALSE
