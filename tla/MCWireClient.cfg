SPECIFICATION MCSpec
CONSTANTS
  Endpoint = {ctl, ep}
  Control = ctl
  Call = {c1, c2}
  Handler = {h1, h2}
  NConns = 3
  MaxDrops = 2
  None = None
  PgCalls = {c1, c2}
  PgSubscribers = {h1, h2}
  PgSources = {ep}
  PgDrops = 1
  PgChanges = 1
  PgTraffic = 1
  PgQueue = 1
  Nothing = Nothing
  CrTask = {"e1", "e2"}
  CrFrames = {"main", "f1", "f2"}
  MaxContexts = 2
  MaxIds = 8
INVARIANTS CallsExact HostKnows   
PROPERTY Settled
CHECK_DEADLOCK FALSE
