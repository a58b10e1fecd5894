CONSTANTS
  Backend = {a, b}
  Call = {1, 2, 3, 4}
  None = None
  MaxCallDepth = 2
  Disconnects = TRUE
SPECIFICATION Spec
INVARIANTS Supervised
PROPERTY EveryReturns
CHECK_DEADLOCK FALSE
