SPECIFICATION FairSpec
CONSTANTS
  DCs = {d1, d2}
  Nodes = {n1, n2}
  d1 = d1
  d2 = d2
  n1 = n1
  n2 = n2
  None = None
  Managed = {d1, d2}
  CanDelete = TRUE
  CanRelabel = FALSE
  CanRestart = FALSE
  CanFail = FALSE
INVARIANT TypeOK
INVARIANT OneModulePerNode
PROPERTY EventuallyReady
