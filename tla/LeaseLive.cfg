SPECIFICATION FairSpec
CONSTANTS
  Requests = {r1, r2}
  MaxAttempts = 2
  Clients = {c1, c2}
  Addrs = {a1}
  NoLease = NoLease
  LeaseTime = 1
  CoolTime = 1
  HoldTime = 1
  GlobalNode = FALSE
  Kinds = {"boot"}
  Bindings = {}
  Redis = TRUE
  Kafka = TRUE
  StrictAck = FALSE
  ConflictEnabled = TRUE
  SessionMeta = FALSE
  LockMayExpire = TRUE
  DBMayFail = FALSE
  CacheMayDrop = FALSE
  RoleMayChange = TRUE
  UseReclaimer = FALSE
  Grace = 0
  BatchSize = 1
  MaxInFlight = 2
  Serial = FALSE
  MaxTime = 0
  c1 = c1
  a1 = a1
PROPERTIES HandlersReturn
