SPECIFICATION Spec
CONSTANTS
  JoinJobs = {j1}
  JoinCalls = {x1, x2}
  MaxTokens = 3
  MaxRestarts = 1
  MaxOffset = 1
  Syncs = {s1, s2}
  MaxEntries = 1
  ArchiveLimit = 1
  MaxStoreFaults = 1
  MaxTxRestarts = 1
  Plans = {p1}
  BackoffMax = 10
  AlertThreshold = 3
  MaxStreak = 30
INVARIANTS WarmEarned StoreSound UndoneInReverse
PROPERTIES ClusterSettles
CHECK_DEADLOCK FALSE
