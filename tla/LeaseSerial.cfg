SPECIFICATION Spec
CONSTANTS
  Requests = {r1, r2, r3, r4}
  MaxAttempts = 1
  Clients = {c1, c2}
  Addrs = {a1, a2}
  NoLease = NoLease
  LeaseTime = 1
  CoolTime = 1
  HoldTime = 1
  GlobalNode = TRUE
  Kinds = {"discover", "request", "renew", "release", "adminDecline", "adminRelease", "clearCooldown"}
  Bindings <- OneBinding
  Redis = TRUE
  Kafka = FALSE
  StrictAck = FALSE
  ConflictEnabled = FALSE
  SessionMeta = FALSE
  LockMayExpire = FALSE
  DBMayFail = FALSE
  CacheMayDrop = FALSE
  RoleMayChange = FALSE
  UseReclaimer = TRUE
  Grace = 0
  BatchSize = 1
  MaxInFlight = 2
  Serial = TRUE
  MaxTime = 1
  c1 = c1
  a1 = a1
SYMMETRY SymmRequests
INVARIANTS CacheAgrees BindingRespected
PROPERTIES ReleasedStays
