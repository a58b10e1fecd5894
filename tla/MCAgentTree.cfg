CONSTANTS
  Obj = {r, o1, o2}
  Root = r
  Id = {i0, i1, i2}
  FewIds = {i0, i1}
  RootId = i0
  Alias = {x}
  Task = {t1, t2}
  None = None
  LockVals = {TRUE, FALSE}
  Lockable = {o1}
  ReuseIds = TRUE
SPECIFICATION NamesSpec
INVARIANTS NamesResolve
PROPERTY DeleteReturns
CHECK_DEADLOCK FALSE
