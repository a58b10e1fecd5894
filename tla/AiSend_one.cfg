CONSTANTS
  Backend = {a, b}
  Call = {1, 2, 3}
  None = None
  MaxCallDepth = 2
  Disconnects = FALSE
SPECIFICATION Spec
INVARIANT OneGeneration
CHECK_DEADLOCK FALSE
