SPECIFICATION MCSpec
CONSTANTS
  Term = {t1}
  GL = {g}
  NJobs = 2
  MaxChanges = 4
  MaxActs = 2
  None = None
  ZoomMin = 9400
  ZoomMax = 10800
  MinWidth = 180
  Spots = {0, 3, 90}
  Widths = {1000, 1200}
  StageBudgets <- MCStages
INVARIANTS Converged  BackendPaired StageTrue
CHECK_DEADLOCK FALSE
