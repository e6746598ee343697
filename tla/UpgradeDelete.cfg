SPECIFICATION Spec
CONSTANTS
  d1 = d1
  d2 = d2
  None = None
  dcOf <- OneDC
  DCs = {d1}
  Nodes = {1}
  Versions = {v1, v2}
  MaxParallelUpgrades = 1
  UnavailablePercent = FALSE
  MaxUnavailableNodes = 1
  RebootRequired = TRUE
  Deletable = {d1}
  FreshNodes = {}
  MaxGoroutines = 2
  MaxEdits = 1
  MaxRestarts = 1
  MaxFaults = 1
  MaxRetries = 0
  MaxReboots = 1
  CanOverrun = FALSE
  CanGiveUp = TRUE
SYMMETRY VersionSymmetry
INVARIANT TypeOK
INVARIANT OneGoroutinePerNode
INVARIANT DeletedClean
INVARIANT UpgradeInv
CHECK_DEADLOCK FALSE
