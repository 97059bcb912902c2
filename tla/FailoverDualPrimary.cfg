SPECIFICATION Spec
CONSTANTS
  Nodes = {n1, n2}
  Coords = {k1}
  None = None
  GrantsMove = FALSE
  FailbackMode = "manual"
  FailTimeout = 1
  StablePeriod = 1
  Threshold = 2
  Probing = FALSE
  MayFlap = FALSE
  MaxOps = 0
  MaxTime = 1
INVARIANTS SinglePrimary
