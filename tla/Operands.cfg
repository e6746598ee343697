SPECIFICATION FairSpec
CONSTANTS
  OSInfo <- MCOSInfo
  Specs <- MCSpecs
  InitialSpecs <- MCInitialSpecs
  NodeSet <- MCNodeSet
  Listed <- MCListed
  OSOf <- MCOSOf
  Kernels = {"k1", "k2"}
  InitialKernel = "k1"
  Refs = {"pull", "ServiceMonitorCRD"}
  Absent = Absent
  Edited = Edited
  Counted = {"exporter"}
  Touchable = {"plugin", "labeller", "exporter", "service", "monitor"}
  Disturbances = {"edit", "delete", "fault", "restart", "tamper", "kernel", "ref"}
  MaxDisturbances = 2
INVARIANT TypeOK
INVARIANT ReadyMatches
INVARIANT DriverFits
INVARIANT ScrapeReaches
INVARIANT ReadyValidated
INVARIANT NothingLeft
PROPERTY DriverUsersGoneFirst
PROPERTY EventuallyReconciled
PROPERTY CountersFollow
CHECK_DEADLOCK FALSE
