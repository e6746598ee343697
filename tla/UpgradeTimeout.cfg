SPECIFICATION ManagerFairSpec
CONSTANTS
  d1 = d1
  d2 = d2
  None = None
  dcOf <- OneDC
  DCs = {d1}
  Nodes = {1, 2}
  Versions = {v1, v2}
  MaxParallelUpgrades = 1
  UnavailablePercent = FALSE
  MaxUnavailableNodes = 1
  RebootRequired = FALSE
  Deletable = {}
  FreshNodes = {}
  MaxGoroutines = 2
  MaxEdits = 1
  MaxRestarts = 1
  MaxFaults = 0
  MaxRetries = 0
  MaxReboots = 1
  CanOverrun = TRUE
  CanGiveUp = TRUE
PROPERTY UpgradeEnds
