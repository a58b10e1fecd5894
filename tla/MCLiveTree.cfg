CONSTANTS
  Obj = {r, o1, o2, o3}
  Root = r
  Id = {i0, i1, i2, i3}
  RootId = i0
  Alias = {}
  Task = {t1, t2}
  None = None
  LockVals = {FALSE}
  ReuseIds = FALSE
SPECIFICATION Spec
INVARIANTS RegistryLinked OrphansAreLate DeletedMeansGone
PROPERTY ImplementsLiveTree
SYMMETRY Symmetry
CHECK_DEADLOCK FALSE
