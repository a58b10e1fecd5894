CONSTANTS
  None = None
  Bundles = {"view"}
  Id = {"canvas", "a", "n", "m", "b", "ctl"}
  RootId = "canvas"
  RootBundle = "view"
  OwnReadme = {"n"}
  LoaderId = "web_loader"
  Before <- MCBefore
  Control = "ctl"
  Backends = {"b", "ctl"}
  View = {"a", "m", "n"}
  AiView = {"m"}
  Snapshots <- MCSnapshots
  Member = {m1, m2}
  Root = r
  Flush = {1, 2}
  MaxVersion = 2
  MaxFaults = 2
  Absent = Absent
SPECIFICATION MCSpec
INVARIANTS Served TreeWhole SyncedButLost
PROPERTIES WeakLoadExact NeverStale 
CHECK_DEADLOCK FALSE
