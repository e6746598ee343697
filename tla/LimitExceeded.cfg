SPECIFICATION Spec
CONSTANTS
  d1 = d1
  d2 = d2
  None = None
  dcOf <- TwoDCs
  DCs = {d1, d2}
  Nodes = {1, 2, 3}
  Versions = {v1, v2}
  MaxParallelUpgrades = 1
  UnavailablePercent = FALSE
  MaxUnavailableNodes = 1
  RebootRequired = TRUE
  Deletable = {}
  FreshNodes = {}
  MaxGoroutines = 3
  MaxEdits = 1
  MaxRestarts = 0
  MaxFaults = 0
  MaxRetries = 0
  MaxReboots = 1
  CanOverrun = FALSE
  CanGiveUp = FALSE
SYMMETRY VersionSymmetry
INVARIANT ParallelLimitAlways
