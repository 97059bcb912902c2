SPECIFICATION FairSpec
CONSTANTS
  Requests = {r1, r2}
  MaxAttempts = 1
  Clients = {c1, c2}
  Addrs = {a1, a2}
  NoLease = NoLease
  LeaseTime = 1
  CoolTime = 1
  HoldTime = 1
  GlobalNode = FALSE
  Kinds = {"boot"}
  Bindings = {}
  Redis = FALSE
  Kafka = FALSE
  StrictAck = FALSE
  ConflictEnabled = FALSE
  SessionMeta = FALSE
  LockMayExpire = FALSE
  DBMayFail = FALSE
  CacheMayDrop = FALSE
  RoleMayChange = FALSE
  UseReclaimer = TRUE
  Grace = 0
  BatchSize = 2
  MaxInFlight = 2
  Serial = FALSE
  MaxTime = 2
  c1 = c1
  a1 = a1
PROPERTIES ExpiredReleased
