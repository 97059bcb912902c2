SPECIFICATION Spec
CONSTANTS
  Requests = {r1, r2, r3}
  MaxAttempts = 2
  Clients = {c1, c2}
  Addrs = {a1}
  NoLease = NoLease
  LeaseTime = 1
  CoolTime = 1
  HoldTime = 1
  GlobalNode = FALSE
  Kinds = {"boot", "release", "adminDecline"}
  Bindings = {}
  Redis = TRUE
  Kafka = TRUE
  StrictAck = FALSE
  ConflictEnabled = TRUE
  SessionMeta = FALSE
  LockMayExpire = FALSE
  DBMayFail = FALSE
  CacheMayDrop = TRUE
  RoleMayChange = TRUE
  UseReclaimer = FALSE
  Grace = 0
  BatchSize = 1
  MaxInFlight = 2
  Serial = FALSE
  MaxTime = 1
  c1 = c1
  a1 = a1
SYMMETRY Symm
INVARIANTS NoSharedAddress HeldNotLeased GrantRecorded
PROPERTIES LedgerSpec
