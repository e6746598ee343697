SPECIFICATION FairSpec
CONSTANTS
  d1 = d1
  d2 = d2
  None = None
  dcOf <- OneDC
  DCs = {d1}
  Nodes = {1, 2}
  Versions = {v1, v2}
  MaxParallelUpgrades = 1
  UnavailablePercent = FALSE
  MaxUnavailableNodes = 1
  RebootRequired = TRUE
  Deletable = {}
  FreshNodes = {2}
  MaxGoroutines = 2
  MaxEdits = 1
  MaxRestarts = 0
  MaxFaults = 0
  MaxRetries = 0
  MaxReboots = 3
  CanOverrun = FALSE
  CanGiveUp = FALSE
INVARIANT RebootBeforeComplete
INVARIANT CordonInv
PROPERTY EventuallyUpgraded
