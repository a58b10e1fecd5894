CONSTANTS
  Id = {k, s, a, b}
  RootId = k
  None = None
  ReuseIds = FALSE
  Stores = {s, b}
  Val = {Open, Other}
  Open = Open
  StoreMeta = Open
  Updatable = {k}
  MaxCrashes = 1
  Weak = {a}
  Torn = Torn
SPECIFICATION Spec
INVARIANTS RoundTrip
PROPERTIES DiskKept QueueDrains
CHECK_DEADLOCK FALSE
