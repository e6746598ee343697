SPECIFICATION FairSpec
CONSTANTS
  None = None
  Nodes = {"gpu"}
  DriverTypes = {"vf-passthrough", "pf-passthrough", "container"}
  MaxReboots = 2
  Disturbances = {"restart", "delete", "fault", "evict", "resync", "touch"}
  MaxDisturbances = 2
INVARIANT TypeOK
INVARIANT ReadyBacked
INVARIANT FinalizedClean
PROPERTY EventuallyBound
PROPERTY EventuallyFinalized
CHECK_DEADLOCK FALSE
