SPECIFICATION Spec
CONSTANTS
  Loads <- MCLoads
  NOps = 2
  NForwards = 2
  NDials = 2
  Rule = "allow"
  None = None
INVARIANTS ForwardsServed
PROPERTY DropReleases
