------------------------------- MODULE Access -------------------------------
(***************************************************************************)
(* Who may call the API (internal/auth/service.go, internal/server/auth.go,*)
(* internal/rbac, and the user, session, key, role and assignment handlers *)
(* of internal/server/http_server.go).                                     *)
(*                                                                         *)
(* A request is authenticated by its key, its principal's capabilities are *)
(* resolved, and a middleware asks for the one its route needs.  Keys and  *)
(* roles are rows of the database; the server reads them through two       *)
(* caches, each filled some time after the row it holds was read.          *)
(*                                                                         *)
(* One principal, one capability.  The principal has an assignment of role *)
(* Child, which may inherit from role Parent.                              *)
(***************************************************************************)
EXTENDS Integers, FiniteSets

CONSTANTS
  Keys,        \* tokens: sessions and service keys of the principal
  Requests,    \* requests the server works on at once
  Child, Parent,
  CacheTTL,    \* dynamicTTL and cacheTTL, in ticks of the clock
  MaxChanges,  \* bound: writes of administrators and of the session routes
  Strict       \* EnforceCapabilities without ShadowMode

Roles == {Child, Parent}

ASSUME AccessAssumption ==
  /\ CacheTTL \in Nat /\ MaxChanges \in Nat /\ Strict \in BOOLEAN /\ Child # Parent

VARIABLES
  user,       \* row of auth_users: "none", "active" or "disabled"
  keys,       \* rows of auth_api_keys
  roles,      \* rows of rbac_roles
  assigned,   \* a row of rbac_assignments gives the principal role Child
  authCache,  \* Authenticator.dynamicCache: age of the entry, Absent without
  roleCache,  \* Resolver.roleCache: role as it was read, and its age
  request,    \* per request: where it is, its key and what it has read
  refresh,    \* RefreshSession in progress: the old key, NoKey without
  changes

accessVars == <<user, keys, roles, assigned, authCache, roleCache, request, refresh, changes>>

NoKey  == "nokey"
Absent == CacheTTL + 1     \* no entry, or one too old to be used
NoRole == [row |-> FALSE, cap |-> FALSE, inherits |-> FALSE]
Idle   == [pc |-> "idle", key |-> NoKey, read |-> NoRole, cap |-> FALSE]

AccessInit ==
  /\ user = "active"
  /\ keys = [k \in Keys |-> [kind |-> "none", revoked |-> FALSE, expired |-> FALSE]]
  /\ roles = [r \in Roles |-> [row |-> TRUE, cap |-> r = Parent, inherits |-> r = Child]]
  /\ assigned = TRUE
  /\ authCache = [k \in Keys |-> Absent]
  /\ roleCache = [r \in Roles |-> [role |-> NoRole, age |-> Absent]]
  /\ request = [q \in Requests |-> Idle]
  /\ refresh = NoKey
  /\ changes = 0

\* APIKey.Valid.
Valid(k) == keys[k].kind # "none" /\ ~keys[k].revoked /\ ~keys[k].expired

-----------------------------------------------------------------------------
(* Users.                                                                  *)

OnlyUser     == UNCHANGED <<keys, roles, assigned, authCache, roleCache, request, refresh>>
OnlyKeys     == UNCHANGED <<user, roles, assigned, authCache, roleCache, request>>
OnlyRoles    == UNCHANGED <<user, keys, assigned, authCache, roleCache, request, refresh>>
OnlyAssigned == UNCHANGED <<user, keys, roles, authCache, roleCache, request, refresh>>

\* normalizeUserStatus.
Statuses == {"active", "disabled"}

CreateUser == user = "none" /\ user' \in Statuses

\* UPDATE auth_users by id: a row that is not there is an error.
UpdateUserRow(status) == user # "none" /\ user' = status

\* What matters here of an update is the status, which the request may leave out.
UpdateUser == \E status \in Statuses \cup {user} : UpdateUserRow(status)

DeleteUser == user # "none" /\ user' = "none"

handleCreateUser == CreateUser /\ OnlyUser
handleUpdateUser == UpdateUser /\ OnlyUser
handleDeleteUser == DeleteUser /\ OnlyUser

-----------------------------------------------------------------------------
(* Keys and sessions.                                                      *)

Unused == {k \in Keys : keys[k].kind = "none"}

Row(kind) == [kind |-> kind, revoked |-> FALSE, expired |-> FALSE]

IssueSession(rows, k) == [rows EXCEPT ![k] = Row("session")]

CreateAPIKey(rows, k) == [rows EXCEPT ![k] = Row("service")]

\* UPDATE auth_api_keys by id, of the columns the request names.
UpdateKeyRow(k, revoked, later) ==
  /\ keys[k].kind # "none"
  /\ keys' = [keys EXCEPT ![k].revoked = revoked, ![k].expired = @ /\ ~later]

\* Enable or disable, and leave the expiry or move it ahead.
UpdateAPIKey(k) == \E revoked, later \in BOOLEAN : UpdateKeyRow(k, revoked, later)

\* Only the row changes.
RevokeAPIKey(rows, k) == [rows EXCEPT ![k].revoked = TRUE]

\* localProvider.Authenticate: only an active user.
Authenticate == user = "active"

handleSessionCreate ==
  /\ Authenticate
  /\ \E k \in Unused : keys' = IssueSession(keys, k)
  /\ UNCHANGED refresh /\ OnlyKeys

handleCreateAPIKey ==
  /\ \E k \in Unused : keys' = CreateAPIKey(keys, k)
  /\ UNCHANGED refresh /\ OnlyKeys

handleUpdateAPIKey(k) == UpdateAPIKey(k) /\ UNCHANGED refresh /\ OnlyKeys

\* RevokeToken, also for a key that is revoked already.
handleLogout(k) ==
  /\ k \notin Unused
  /\ keys' = RevokeAPIKey(keys, k)
  /\ UNCHANGED refresh /\ OnlyKeys

handleDeleteSession(k) ==
  /\ keys[k].kind = "session"
  /\ keys' = RevokeAPIKey(keys, k)
  /\ UNCHANGED refresh /\ OnlyKeys

handleDeleteAPIKey(k) ==
  /\ keys[k].kind = "service"
  /\ keys' = RevokeAPIKey(keys, k)
  /\ UNCHANGED refresh /\ OnlyKeys

KeyExpires(k) ==
  /\ keys[k].kind # "none" /\ ~keys[k].expired
  /\ keys' = [keys EXCEPT ![k].expired = TRUE]
  /\ UNCHANGED refresh /\ OnlyKeys

\* RefreshSession reads the key and its owner, ...
RefreshSession(k) == Valid(k) /\ keys[k].kind = "session" /\ user # "none"

handleSessionRefresh ==
  /\ refresh = NoKey
  /\ \E k \in Keys : RefreshSession(k) /\ refresh' = k
  /\ UNCHANGED keys /\ OnlyKeys

\* ... issues a session, and revokes the old key; failing to is only logged.
RefreshWrite ==
  /\ refresh # NoKey
  /\ \E k \in Unused :
       LET issued == IssueSession(keys, k) IN keys' \in {issued, RevokeAPIKey(issued, refresh)}
  /\ refresh' = NoKey
  /\ OnlyKeys

RefreshFails ==
  /\ refresh # NoKey
  /\ refresh' = NoKey
  /\ UNCHANGED keys /\ OnlyKeys

-----------------------------------------------------------------------------
(* Roles and assignments.                                                  *)

\* The rows are written without a parent.
NewRoles == {[row |-> TRUE, cap |-> cap, inherits |-> FALSE] : cap \in BOOLEAN}

CreateRole(r) == \E role \in NewRoles : roles' = [roles EXCEPT ![r] = role]

UpdateRole(r) == roles[r].row /\ \E role \in NewRoles : roles' = [roles EXCEPT ![r] = role]

DeleteRole(r) == roles[r].row /\ roles' = [roles EXCEPT ![r] = NoRole]

\* GetRole must find none first.
handleCreateRole(r) == ~roles[r].row /\ CreateRole(r) /\ OnlyRoles
handleUpdateRole(r) == UpdateRole(r) /\ OnlyRoles
handleDeleteRole(r) == DeleteRole(r) /\ OnlyRoles

handleCreateAssignment == ~assigned /\ assigned' = TRUE /\ OnlyAssigned
handleDeleteAssignment == assigned /\ assigned' = FALSE /\ OnlyAssigned

-----------------------------------------------------------------------------
(* A request.                                                              *)

Goto(q, pc) == request' = [request EXCEPT ![q].pc = pc]

Arrive(q) ==
  /\ request[q].pc = "idle"
  /\ \E k \in Keys : request' = [request EXCEPT ![q] = [Idle EXCEPT !.pc = "arrived", !.key = k]]
  /\ UNCHANGED <<user, keys, roles, assigned, authCache, roleCache, refresh>>

\* A hit makes the entry new again.
lookupDynamicCache_Sliding(q) ==
  LET k == request[q].key IN
  /\ authCache[k] <= CacheTTL
  /\ authCache' = [authCache EXCEPT ![k] = 0]
  /\ Goto(q, "known")

\* authenticateAPIKey: an entry that is not too old answers, ...
lookupDynamicCache(q) ==
  /\ authCache[request[q].key] <= CacheTTL
  /\ Goto(q, "known")
  /\ UNCHANGED authCache

CacheHit(q) ==
  /\ request[q].pc = "arrived"
  /\ lookupDynamicCache(q)
  /\ UNCHANGED <<user, keys, roles, assigned, roleCache, refresh>>

\* ... otherwise the row is read, ...
LookupToken(q) ==
  /\ request[q].pc = "arrived"
  /\ authCache[request[q].key] = Absent
  /\ IF Valid(request[q].key) THEN Goto(q, "looked") ELSE request' = [request EXCEPT ![q] = Idle]
  /\ UNCHANGED <<user, keys, roles, assigned, authCache, roleCache, refresh>>

\* ... and cached afterwards, as of now.
storeDynamicCache(q) ==
  /\ request[q].pc = "looked"
  /\ authCache' = [authCache EXCEPT ![request[q].key] = 0]
  /\ Goto(q, "known")
  /\ UNCHANGED <<user, keys, roles, assigned, roleCache, refresh>>

\* Resolver.Resolve reads the assignments.
ListAssignments(q) ==
  /\ request[q].pc = "known"
  /\ Goto(q, IF assigned THEN "child" ELSE "resolved")
  /\ UNCHANGED <<user, keys, roles, assigned, authCache, roleCache, refresh>>

\* The role the request is about to load.
Loading(q) == IF request[q].pc \in {"child", "childRead"} THEN Child ELSE Parent

\* collectCapabilities: the role's own, then its parent's.
collectCapabilities(q, role) ==
  request' = [request EXCEPT
    ![q].pc  = IF Loading(q) = Child /\ role.inherits THEN "parent" ELSE "resolved",
    ![q].cap = @ \/ role.cap,
    ![q].read = NoRole]

\* loadRole answers from the cache, ...
RoleCacheHit(q) ==
  /\ request[q].pc \in {"child", "parent"}
  /\ roleCache[Loading(q)].age < CacheTTL
  /\ collectCapabilities(q, roleCache[Loading(q)].role)
  /\ UNCHANGED <<user, keys, roles, assigned, authCache, roleCache, refresh>>

\* ... or reads the row.  Without one for Child the resolution fails and the
\* request is refused if Strict; without one for Parent nothing is added.
GetRole(q) ==
  /\ request[q].pc \in {"child", "parent"}
  /\ roleCache[Loading(q)].age >= CacheTTL
  /\ IF roles[Loading(q)].row
     THEN request' = [request EXCEPT ![q].pc = IF @ = "child" THEN "childRead" ELSE "parentRead",
                                     ![q].read = roles[Loading(q)]]
     ELSE Goto(q, "resolved")
  /\ UNCHANGED <<user, keys, roles, assigned, authCache, roleCache, refresh>>

RoleStore(q) ==
  /\ request[q].pc \in {"childRead", "parentRead"}
  /\ roleCache' = [roleCache EXCEPT ![Loading(q)] = [role |-> request[q].read, age |-> 0]]
  /\ collectCapabilities(q, request[q].read)
  /\ UNCHANGED <<user, keys, roles, assigned, authCache, refresh>>

\* The exchange of a key for its metadata, and every other request, first find
\* out what the key stands for.
resolveAPIKeyMetadata(q) == CacheHit(q) \/ LookupToken(q) \/ storeDynamicCache(q)

\* The exchange ends there: no capability is asked for.
handleAPIKeyExchange(q) ==
  /\ request[q].pc = "known"
  /\ request' = [request EXCEPT ![q] = Idle]
  /\ UNCHANGED <<user, keys, roles, assigned, authCache, roleCache, refresh>>

resolveCapabilitiesMiddleware(q) ==
  ListAssignments(q) \/ RoleCacheHit(q) \/ GetRole(q) \/ RoleStore(q)

\* RequireCapabilities; then the handler runs, and the request is over.
RequireCapabilities(q) ==
  /\ request[q].pc = "resolved"
  /\ IF request[q].cap \/ ~Strict THEN Goto(q, "admitted") ELSE request' = [request EXCEPT ![q] = Idle]
  /\ UNCHANGED <<user, keys, roles, assigned, authCache, roleCache, refresh>>

ServedRequest(q) ==
  /\ request[q].pc = "admitted"
  /\ request' = [request EXCEPT ![q] = Idle]
  /\ UNCHANGED <<user, keys, roles, assigned, authCache, roleCache, refresh>>

\* Entries grow older.
AccessTick ==
  LET Older(a) == IF a = Absent THEN a ELSE a + 1 IN
  /\ authCache' = [k \in Keys |-> Older(authCache[k])]
  /\ roleCache' = [r \in Roles |-> [roleCache[r] EXCEPT !.age = Older(@)]]
  /\ UNCHANGED <<user, keys, roles, assigned, request, refresh>>

Administer ==
  \/ handleCreateUser \/ handleUpdateUser \/ handleDeleteUser
  \/ handleSessionCreate \/ handleCreateAPIKey
  \/ \E k \in Keys : \/ handleUpdateAPIKey(k) \/ handleDeleteAPIKey(k)
                      \/ handleLogout(k) \/ handleDeleteSession(k) \/ KeyExpires(k)
  \/ handleSessionRefresh \/ RefreshWrite \/ RefreshFails
  \/ \E r \in Roles : handleCreateRole(r) \/ handleUpdateRole(r) \/ handleDeleteRole(r)
  \/ handleCreateAssignment \/ handleDeleteAssignment

Step(q) ==
  \/ resolveAPIKeyMetadata(q) \/ handleAPIKeyExchange(q)
  \/ resolveCapabilitiesMiddleware(q) \/ RequireCapabilities(q) \/ ServedRequest(q)

Change ==
  /\ changes < MaxChanges
  /\ changes' = changes + 1
  /\ Administer

AccessNext ==
  \/ Change
  \/ UNCHANGED changes /\ (AccessTick \/  \E q \in Requests : Arrive(q) \/ Step(q))

\* The clock goes on and a request that has arrived is worked on.
AccessFairness ==
  /\ WF_accessVars(AccessTick /\ UNCHANGED changes)
  /\ \A q \in Requests : WF_accessVars(Step(q) /\ UNCHANGED changes)

-----------------------------------------------------------------------------
(* Properties.                                                             *)

InWith(k) == \E q \in Requests : request[q].pc = "admitted" /\ request[q].key = k

\* What has been withdrawn for good (by the key, by the assignment, or by the
\* capability of every role) is in the end refused: neither cache keeps an answer alive by
\* using it, and neither does a row read before the withdrawal and stored after.
WithdrawalTakes ==
  \A k \in Keys :
    <>[](\/ ~Valid(k)
         \/ Strict /\ (~assigned \/ \A r \in Roles : ~roles[r].cap))
    => <>[]~InWith(k)
=============================================================================
