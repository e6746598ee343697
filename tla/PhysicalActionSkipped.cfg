SPECIFICATION Spec
CONSTANTS
  None = None
  unhealthy = unhealthy
  custom = custom
  Nodes = {"gpu"}
  Conditions = {"xgmi", "ecc"}
  Position <- EccFirst
  Physical = {"xgmi"}
  SkipReboot = {}
  BadWindow = {}
  MaxRuns = 3
  AutoStart = {TRUE}
  MaxParallelWorkflows = 1
  SharesPrefix = {}
  TaintKeys = {unhealthy}
  DefaultTaint = unhealthy
  Workloads = {"controller", "operator"}
  Disturbances = {"flap"}
  MaxDisturbances = 1
  MaxWorkflows = 1
PROPERTY PhysicalActionAwaited
