SPECIFICATION Spec
CONSTANTS
  d1 = d1
  d2 = d2
  None = None
  dcOf <- OneDC
  DCs = {d1}
  Nodes = {1, 2}
  Versions = {v1, v2}
  MaxParallelUpgrades = 1
  UnavailablePercent = FALSE
  MaxUnavailableNodes = 1
  RebootRequired = FALSE
  Deletable = {}
  FreshNodes = {}
  MaxGoroutines = 2
  MaxEdits = 2
  MaxRestarts = 1
  MaxFaults = 1
  MaxRetries = 1
  MaxReboots = 1
  CanOverrun = FALSE
  CanGiveUp = FALSE
SYMMETRY VersionSymmetry
INVARIANT CompleteUncordonedTracked
PROPERTY DriverSwappedCordonedTracked
INVARIANT ParallelLimit
