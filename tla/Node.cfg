SPECIFICATION MCSpec
CONSTANTS
  Nodes = {n1}
  Coords = {k1}
  None = None
  GrantsMove = TRUE
  FailbackMode = "manual"
  FailTimeout = 1
  StablePeriod = 1
  Threshold = 2
  Probing = FALSE
  MayFlap = FALSE
  MaxOps = 4
  MaxTime = 1
  Loop = 1
  Setters = {1}
  MaxRoleChanges = 3
  MaxAdapterFaults = 1
  MaxStreamFaults = 2
  p1 = p1
  p2 = p2
  Datagrams <- MCDatagrams
  Traffic <- MCTraffic
  Listeners = {l1, l2}
  Handlers = {w1}
  QueueDepth = 1
  MACRate = 1
  MaxReadErrors = 1
  Clients = {c1}
  PlanWorkers = {w1}
  PoolIds = {p1, p2}
  DefaultPool = p1
  Relays <- MCRelays
  Selection <- MCSelection
  Node = "n1"
  Ring <- MCRing
  Hash <- MCHash
  NoPool = NoPool
  Times = {1, 2}
  PoolTimesTTL = 2
  PoolCacheTTL = 1
  AffinityTTL = 1
  ReplayWindow = 1
  MaxClock = 3
  MaxEdits = 1
INVARIANTS YieldsApproved PlanFresh
PROPERTIES BlindStands PeerReturns RuntimeFollows ServerSettles
CHECK_DEADLOCK FALSE
