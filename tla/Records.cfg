SPECIFICATION MCSpec
CONSTANTS
  c1 = c1
  c2 = c2
  e1 = e1
  Width = 4
  MaxTaken = 2
  ByteBits = 2
  NoAddr = NoAddr
  Setups <- MCSetups
  Workers = {v1, v2}
  V6Clients = {c1, c2}
  Lists <- MCLists
  Lens = {1}
  MaxLen = 1
  ScanLimit = 1
  ConfigPD <- MCNoPrefix
  PolicyPD <- MCPolicyPD
  BindingPD <- MCNoPrefix
  NoPrefix = NoPrefix
  MacClients = {c1}
  Wanted = {}
  Profiles <- MCProfiles
  NoProfile = NoProfile
  PoolTimes = {0}
  Overrides <- MCOverrides
  Hints <- MCHints
  V6Pool = V6Pool
  V4Pool = V4Pool
  NoPool = NoPool
  WordMax = 15
  MaxPrefixRows = 2
  Ids = {l1, l2}
  StoreAddrs = {a1, a2}
  Tags = {c1, c2, d1, d2}
  Clients = {c1, c2}
  StoreWorkers = {w1}
  LeaseTime = 2
  CooldownTime = 1
  HoldTime = 2
  Spare = 1
  ArchiveFails = TRUE
  MaxTime = 4
  None = None
  Rules = {r1, r2}
  Rows <- MCPolicyRows
  Tenants = {t1, t2}
  AdminTenant = t1
  RepoTTL = 2
  DefaultTTL = 1
  EngineTTL = 1
  MaxEdits = 2
  Publishers = {p1, p2}
  Drafts = {d1}
  MaxVersion = 2
  Day = 5
  NoRule = NoRule
  Checks = {"pool", "latency", "error", "rate", "rule", "server"}
  MaxReading = 2
  Base <- MCBase
  ThresholdRows <- MCThresholds
  NotifyRows <- MCNotify
  RouteTables <- MCRouteTables
  FileRoutes = {}
  RuleRows <- MCAlertRules
  TemplateRows <- MCTemplates
  ReceiverRows <- MCReceivers
  Shifts <- MCShifts
  Notifiers = {e1}
  SilenceWindow = 2
  DedupeWindow = 3
  EscalationWindow = 2
  RuleTTL = 2
  FeedLimit = 1
  MaxSettings = 1
  Nothing = Nothing
INVARIANTS SelectionSound V6Sound StoresSound PolicySound AlertsSound
CHECK_DEADLOCK FALSE
