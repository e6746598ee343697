SPECIFICATION FairSpec
CONSTANTS
  None = None
  unhealthy = unhealthy
  custom = custom
  Nodes = {"gpu"}
  Conditions = {"xgmi"}
  Position <- EccFirst
  Physical = {}
  SkipReboot = {}
  BadWindow = {}
  MaxRuns = 2
  AutoStart = {TRUE, FALSE}
  MaxParallelWorkflows = 1
  SharesPrefix = {}
  TaintKeys = {unhealthy, custom}
  DefaultTaint = unhealthy
  Workloads = {"controller", "operator"}
  Disturbances = {"fault", "restart", "delete", "flap", "label", "edit", "time", "upgrade"}
  MaxDisturbances = 2
  MaxWorkflows = 3
INVARIANT TypeOK
INVARIANT RunsWithinPolicy
INVARIANT OneWorkflowUnlessConfused
INVARIANT DisruptionTainted
INVARIANT TaintTolerated
PROPERTY EventuallyTried
PROPERTY EventuallyResumed
