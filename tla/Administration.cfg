SPECIFICATION MCSpec
CONSTANTS
  Attempts = {t1, t2}
  Captchas = {c1, c2}
  CaptchaThreshold = 3
  LockThreshold = 5
  Changers = {u1, u2}
  Passwords = {pw0, pw1, pw2}
  Default = pw0
  Completers = {v1, v2}
  MaxWriteFaults = 1
  Operators = {"o1", "o2"}
  DirectoryRoles = {"r1", "r2"}
  ProviderIds = {"i1"}
  Nobody = Nobody
  Requests = {q1, q2}
  RawTenants = {""}
  Ids = {"i1"}
  MaxAuditFaults = 1
  p1 = p1
  p2 = p2
  Admins = {a1}
  PoolIds = {p1, p2}
  Bindings = {b1}
  Addresses = {9, 11}
  NoPool = NoPool
  MaxPoolOps = 4
  PoolRequests <- MCPoolRequests
  Files <- MCFiles
  ImportKeys = {f1}
  Deltas <- MCDeltas
  Options = {o1, o2}
  Templates = {t1}
  Scopes = {s1}
  Defaults = {o1}
  OptionRequests = {x1}
  NoTemplate = NoTemplate
  MaxOptionRestarts = 1
  CNodes = {n1, n2}
  MaxIssued = 1
  MaxCtlTrouble = 1
  n1 = n1
  n2 = n2
  k3 = k3
  Nodes = {n1, n2}
  Coords = {k1, k2, k3}
  None = None
  GrantsMove = FALSE
  NotifyAdmins = {"a1", "a2"}
  Channels = {"c1"}
  MaxSaves = 2
  MaxFileFaults = 1
  MaxStarts = 1
  Peers <- MCPeers
  UserOf <- MCUserOf
  MaxSubscribers = 2
  Callers = {"c1", "c2"}
  Devices = {"d1"}
  Profiles = {"p1", "p2"}
  Uuids = {"u1", "u2"}
  MaxSeen = 1
INVARIANTS CredentialsSound DirectorySound SecuritySound SettingsSound  QuorumUnique PanicOnlyAfterExpiry
PROPERTIES NothingLost
CHECK_DEADLOCK FALSE
