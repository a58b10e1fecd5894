CONSTANTS
  Sch = {s1, s2}
  Caller = {c1}
  None = None
  MaxRuns = 2
  Restarts = 1
  StoreMoves = 1
SPECIFICATION Spec
 
PROPERTY DueFires
CHECK_DEADLOCK FALSE
