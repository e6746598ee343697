SPECIFICATION Spec
CONSTANTS
  DCs = {d1, d2}
  Nodes = {n1, n2}
  d1 = d1
  d2 = d2
  n1 = n1
  n2 = n2
  None = None
  Managed = {d1}
  CanDelete = TRUE
  CanRelabel = TRUE
  CanRestart = TRUE
  CanFail = TRUE
SYMMETRY NodeSymmetry
INVARIANT ModuleHasOwner
INVARIANT ReadyDisjoint
INVARIANT ConflictMeansDeletion
PROPERTY LeaseRefined
