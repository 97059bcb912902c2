SPECIFICATION Spec
CONSTANTS
  Keys = {k1, k2}
  Requests = {q1}
  Child = rc
  Parent = rp
  CacheTTL = 1
  MaxChanges = 2
  Strict = TRUE
  m1 = m1
  m2 = m2
  Macs = {m1, m2}
  Entries = {1, 2}
  EntryRows <- MCEntryRows
  NoEntry = NoEntry
  Checks = {1}
  Loaders = {1, 2}
  ListTTL = 0
  MaxListEdits = 2
  StaticBlack = {}
  StaticWhite = {m1}
  StaticGray = {m2}
  GrayAction = "monitor"
  EnforceWhite = TRUE
  BoundMacs = {m2}
  RenewExempt = FALSE
  MaxListFaults = 1
  RuleIds = {1, 2}
  Effects = {"allow", "deny"}
  GuardTenants = {"t1", "t2"}
  Editors = {1}
  RuleTTL = 0
  MaxRuleEdits = 2
  GuardClients = {m1}
  p1 = p1
  p2 = p2
  p3 = p3
  Ports = {p1, p2, p3}
  TrustedPorts = {p1, p2}
  Addresses = {i1}
  RatePerTick = 1
  Burst = 2
  Window = 2
  BlockDuration = 2
  DeclineSpike = 2
  DiscoverBurst = 3
  Drift = 1
  Tolerance = 2
  MaxEvents = 3
  Runs = {r1, r2, r3}
  Gated = {r1, r2}
  MaxConcurrent = 1
  HistorySize = 2
  Jobs = {j1, j2, j3, j4}
  QueueSize = 1
  HistoryLimit = 3
  Admins = {a1, a2}
  Fields = {"window", "ntp"}
  Values = {"v1", "v2"}
  MaxUpdates = 3
  None = None
INVARIANTS GuardHolds OpsSound
PROPERTIES WithdrawalTakes BlacklistTakes
CHECK_DEADLOCK FALSE
