---------------------------- MODULE LeaseService ----------------------------
(***************************************************************************)
(* The DHCPv4 lease life cycle of one server process: the packet handlers  *)
(* of internal/dhcpv4/handler.go and the administrative calls of the HTTP  *)
(* API, run by concurrent goroutines over internal/lease/service.go, the   *)
(* lease table, its two caches, the pool lock in Redis, the background     *)
(* persistence goroutines and the reclaimer.                               *)
(*                                                                         *)
(* One step is one access to shared state: one SQL statement, one cache    *)
(* call, one lock call.  What a goroutine computes between two of them is  *)
(* part of the later step.  The two queries of pickIPAddress are one step. *)
(***************************************************************************)
EXTENDS LeaseStore

CONSTANTS
  Kinds,           \* which handlers are exercised, a subset of AllKinds
  Bindings,        \* static bindings of the pool: pairs <<client, address>>
  Redis,           \* redisClient # nil: pool lock and bitmap are in use
  Kafka,           \* a replication journal is configured
  StrictAck,       \* the sync-ack gate is on, with policy "strict"
  ConflictEnabled, \* conflict prevention (ICMP probe) is on
  SessionMeta,     \* packets may carry mobility session metadata
  LockMayExpire,   \* the 5 s lock TTL may run out before Unlock
  DBMayFail,       \* an INSERT or UPDATE may fail for any reason
  CacheMayDrop,    \* a cache key may be evicted before its TTL
  RoleMayChange,   \* the failover role may change
  UseReclaimer,    \* AutoReclaim.Enabled
  Grace,           \* reclaimer GracePeriod
  BatchSize,       \* reclaimer BatchSize
  MaxInFlight,     \* bound: handlers running at the same time
  Serial,          \* bound: nothing starts, and no time passes, while a
                   \* handler or a reclaimer pass is under way
  MaxTime          \* bound: last value of the clock

AllocKinds == {"discover", "request", "renew", "rebind", "boot"}
AdminKinds == {"adminRelease", "adminDecline", "clearCooldown"}
AllKinds   == AllocKinds \cup AdminKinds \cup {"release"}

\* "markReleased" is the second service call of the RELEASE/DECLINE handler.
ByClientKinds == AllocKinds \cup {"release", "markReleased"}

ASSUME ServiceAssumption ==
  /\ Kinds \subseteq AllKinds
  /\ Bindings \subseteq Clients \X Addrs
  /\ {Redis, Kafka, StrictAck, ConflictEnabled, SessionMeta, LockMayExpire,
      DBMayFail, CacheMayDrop, RoleMayChange, UseReclaimer, Serial} \subseteq BOOLEAN
  /\ Grace \in Nat /\ BatchSize \in Nat /\ MaxTime \in Nat
  /\ MaxInFlight \in Nat

VARIABLES
  rows, active, byId,   \* the table and the two cache key families
  revived,  \* history: ids that left RELEASED or COOLDOWN for another state
            \* than RELEASED, i.e. were brought back by a later write
  lock,     \* holder token of the pool lock, or NoLease
  primary,  \* ensurePrimaryWrite succeeds
  now,      \* the clock
  pc, att, job, snap, ok,   \* per request: step, attempt, what it serves,
                            \* its copy of the lease, success so far
  bg,       \* per request attempt: its background persistence goroutine
  batch,    \* the reclaimer's unprocessed copies of expired rows
  rec       \* the copy the reclaimer has written and must sync to the cache

storeVars == <<rows, active, byId, revived>>
reqVars   == <<pc, att, job, snap, ok>>
vars      == <<storeVars, lock, primary, now, reqVars, bg, batch, rec>>

\* shouldAsyncPersistLease.
Async == Redis /\ ~Kafka

\* The FSM state each packet handler asks for afterwards.
TargetKinds == {"discover", "request", "renew", "rebind"}
Target == [discover |-> "Offered", request |-> "Bound",
           renew |-> "Renewing", rebind |-> "Rebinding"]

SyncLabels == {"renewSync", "createSync", "holdSync", "reclaimSync",
               "fsmSync", "releaseSync", "adminSync"}
Labels == {"idle", "get", "fill", "renew", "lock", "pick", "create",
           "reclaim", "probe", "unlock", "idGet", "idFill", "fsm",
           "release", "admin", "return", "done"} \cup SyncLabels

Jobs  == [kind : AllKinds \cup {"markReleased"}, who : Clients, id : LeaseIds]
Tasks == [op : {"create", "update", "sync"}, lease : Leases]

Init ==
  /\ rows = [i \in LeaseIds |-> NoLease]
  /\ active = [c \in Clients |-> NoLease]
  /\ byId = [k \in CacheKeys |-> NoLease]
  /\ revived = {}
  /\ lock = NoLease
  /\ primary = TRUE
  /\ now = 0
  /\ pc = [r \in Requests |-> "idle"]
  /\ att = [r \in Requests |-> 1]
  /\ job = [r \in Requests |-> NoLease]
  /\ snap = [r \in Requests |-> NoLease]
  /\ ok = [r \in Requests |-> TRUE]
  /\ bg = [i \in LeaseIds |-> NoLease]
  /\ batch = {}
  /\ rec = NoLease

-----------------------------------------------------------------------------
(* Helpers of the request steps.                                           *)

Goto(r, label) == pc' = [pc EXCEPT ![r] = label]
Take(r, l)     == snap' = [snap EXCEPT ![r] = l]

\* An error return of the service: the deferred Unlocks still run.
Fail(r) == Goto(r, "unlock") /\ ok' = [ok EXCEPT ![r] = FALSE]

\* The write of copy l finds a row that is no longer ACTIVE and does not
\* leave it RELEASED.
Revive(l) ==
  IF rows[l.id] # NoLease /\ rows[l.id].state # "ACTIVE"
                          /\ l.state # "RELEASED"
  THEN revived \cup {l.id} ELSE revived

\* repo.UpdateLease(copy l) in the request's goroutine: the UPDATE, then (in a
\* step of its own, `next') the cache calls.  A duplicate key or a lost
\* connection is an error return, after which only evictTenant runs.
UpdateLease(r, l, next) ==
  \/ /\ UpdateOK(rows, l)
     /\ rows' = Updated(rows, l)
     /\ revived' = Revive(l)
     /\ Take(r, l) /\ Goto(r, next)
     /\ UNCHANGED <<byId, ok>>
  \/ /\ ~UpdateOK(rows, l) \/ DBMayFail
     /\ byId' = EvictTenant(byId, l)
     /\ Take(r, l) /\ Fail(r)
     /\ UNCHANGED <<rows, revived>>

\* The used set is not consulted.
Available_IgnoresUsed(c) ==
  LET reserved == {a \in Addrs : \E d \in Clients \ {c} : <<d, a>> \in Bindings}
  IN Addrs \ (CooldownIPs(rows, now) \cup reserved)

\* Addresses bound to other clients are not added to the used set.
ReservedFrom_Nobody(c) == {}

\* Addresses pickIPAddress may return: a matched binding pins its address;
\* otherwise anything neither leased, nor cooling down, nor bound to another
\* client.  Which of them the scan, the bitmap or the preference selects is
\* left open.  (With WithBitmapFirstAllocation, which no caller turns on, the
\* used set is emptied; that mode is not modelled.)
BoundAddrs(c)   == {a \in Addrs : <<c, a>> \in Bindings}
ReservedFrom(c) == {a \in Addrs : \E d \in Clients \ {c} : <<d, a>> \in Bindings}
Available(c) ==
  (IF BoundAddrs(c) # {} THEN BoundAddrs(c) ELSE Addrs)
     \ (ActiveIPs(rows) \cup CooldownIPs(rows, now) \cup ReservedFrom(c))

\* The FSM value a reuse may leave in the copy.
SessionStates(l) == IF SessionMeta THEN {l.fsm, "none"} ELSE {l.fsm}

InFlight == {r \in Requests : pc[r] \notin {"idle", "done"}}

\* No goroutine is under way.
Quiet ==
  /\ InFlight = {}
  /\ \A i \in LeaseIds : bg[i] = NoLease
  /\ batch = {} /\ rec = NoLease

-----------------------------------------------------------------------------
(* Starting a handler.                                                     *)

\* A packet or an API call arrives: ensurePrimaryWrite of the first service
\* call, which refuses on a standby.  Administrative calls name a lease.
Begin(r) ==
  /\ pc[r] = "idle"
  /\ Cardinality(InFlight) < MaxInFlight
  /\ Serial => Quiet
  /\ \E k \in Kinds, c \in Clients, i \in LeaseIds :
       /\ IF k \in AdminKinds THEN rows[i] # NoLease ELSE i = <<r, 1>>
       /\ job' = [job EXCEPT ![r] = [kind |-> k, who |-> c, id |-> i]]
       /\ IF ~primary THEN Fail(r)
          ELSE /\ Goto(r, IF k \in AdminKinds THEN "idGet" ELSE "get")
               /\ UNCHANGED ok
  /\ UNCHANGED <<storeVars, lock, primary, now, att, snap, bg, batch, rec>>

-----------------------------------------------------------------------------
(* GetActiveLease, for AllocateOrReuseWithMetadata and the release calls.  *)

Found(r) == IF job[r].kind \in AllocKinds THEN "renew" ELSE "release"

\* Nothing to release is success: the handler goes on with its second call.
NextRelease(r) ==
  IF job[r].kind = "release"
  THEN /\ job' = [job EXCEPT ![r].kind = "markReleased"] /\ Goto(r, "get")
  ELSE UNCHANGED job /\ Goto(r, "return")

GetActiveHit(r) ==
  /\ pc[r] = "get" /\ active[job[r].who] # NoLease
  /\ job[r].kind = "markReleased" => primary
  /\ Take(r, active[job[r].who]) /\ Goto(r, Found(r))
  /\ UNCHANGED <<storeVars, lock, primary, now, att, job, ok, bg, batch, rec>>

GetActiveRow(r) ==
  /\ pc[r] = "get" /\ active[job[r].who] = NoLease
  /\ job[r].kind = "markReleased" => primary
  /\ \E i \in ActiveRowsOf(rows, job[r].who) : Take(r, rows[i])
  /\ Goto(r, "fill")
  /\ UNCHANGED <<storeVars, lock, primary, now, att, job, ok, bg, batch, rec>>

GetActiveNone(r) ==
  /\ pc[r] = "get" /\ active[job[r].who] = NoLease
  /\ job[r].kind = "markReleased" => primary
  /\ ActiveRowsOf(rows, job[r].who) = {}
  /\ IF job[r].kind \in AllocKinds
     THEN Goto(r, "lock") /\ UNCHANGED job
     ELSE NextRelease(r)
  /\ UNCHANGED <<storeVars, lock, primary, now, att, snap, ok, bg, batch, rec>>

\* The second call of the release handler meets a standby role.
RefuseMark(r) ==
  /\ pc[r] = "get" /\ job[r].kind = "markReleased" /\ ~primary
  /\ Fail(r)
  /\ UNCHANGED <<storeVars, lock, primary, now, att, job, snap, bg, batch, rec>>

\* The cache fill after the SELECT, whatever happened in between.
FillActive(r) ==
  /\ pc[r] = "fill"
  /\ active' = [active EXCEPT ![job[r].who] = snap[r]]
  /\ Goto(r, Found(r))
  /\ UNCHANGED <<rows, byId, revived, lock, primary, now, att, job, snap, ok,
                 bg, batch, rec>>

-----------------------------------------------------------------------------
(* AllocateOrReuseWithMetadata.                                            *)

\* persistLeaseUpdate of a reused lease.
Renew(r) ==
  /\ pc[r] = "renew"
  /\ \E f \in SessionStates(snap[r]) :
       LET l == Renewed(snap[r], f, now) IN
       IF Async
       THEN /\ bg' = [bg EXCEPT ![<<r, att[r]>>] = [op |-> "update", lease |-> l]]
            /\ Take(r, l) /\ Goto(r, "probe")
            /\ UNCHANGED <<rows, byId, revived, ok>>
       ELSE UpdateLease(r, l, "renewSync") /\ UNCHANGED bg
  /\ UNCHANGED <<active, lock, primary, now, att, job, batch, rec>>

\* Isolation of the client, a failed read, lease limits, quota, pool protection
\* or a cancelled context end the call; every one of them is checked before
\* the call changes anything.
Refuse(r) ==
  /\ pc[r] \in {"get", "renew", "lock", "pick"}
  /\ Fail(r)
  /\ UNCHANGED <<storeVars, lock, primary, now, att, job, snap, bg, batch, rec>>

\* SET instead of SETNX.
AcquireLock_Overwrites(r) ==
  /\ pc[r] = "lock"
  /\ lock' = IF Redis THEN <<r, att[r]>> ELSE lock
  /\ Goto(r, "pick")
  /\ UNCHANGED <<storeVars, primary, now, att, job, snap, ok, bg, batch, rec>>

\* acquirePoolLock: SETNX with a fresh token, polled until it succeeds.
AcquireLock(r) ==
  /\ pc[r] = "lock"
  /\ Redis => lock = NoLease
  /\ lock' = IF Redis THEN <<r, att[r]>> ELSE lock
  /\ Goto(r, "pick")
  /\ UNCHANGED <<storeVars, primary, now, att, job, snap, ok, bg, batch, rec>>

\* pickIPAddress returns an address; the new record is built from it.
Pick(r) ==
  /\ pc[r] = "pick"
  /\ \E a \in Available(job[r].who) :
       Take(r, NewLease(<<r, att[r]>>, a, job[r].who, now))
  /\ Goto(r, "create")
  /\ UNCHANGED <<storeVars, lock, primary, now, att, job, ok, bg, batch, rec>>

\* pickIPAddress returns ErrNoAvailableIP: the pool is exhausted, or address
\* conflict detection rejected every candidate.  A cooldown row may be taken
\* over instead.
PickNone(r) ==
  /\ pc[r] = "pick"
  /\ Available(job[r].who) = {} \/ ConflictEnabled
  /\ \/ /\ ConflictEnabled
        /\ \E i \in ReclaimableRows(rows) : Take(r, rows[i])
        /\ Goto(r, "reclaim") /\ UNCHANGED ok
     \/ /\ ConflictEnabled => ReclaimableRows(rows) = {}
        /\ Fail(r) /\ UNCHANGED snap
  /\ UNCHANGED <<storeVars, lock, primary, now, att, job, bg, batch, rec>>

\* persistLeaseCreate.
Create(r) ==
  /\ pc[r] = "create"
  /\ \/ /\ Async
        /\ bg' = [bg EXCEPT ![<<r, att[r]>>] = [op |-> "create", lease |-> snap[r]]]
        /\ Goto(r, "probe") /\ UNCHANGED <<rows, byId, ok>>
     \/ /\ ~Async /\ InsertOK(rows, snap[r])
        /\ rows' = Inserted(rows, snap[r])
        /\ Goto(r, "createSync") /\ UNCHANGED <<byId, ok, bg>>
     \/ /\ ~Async /\ (~InsertOK(rows, snap[r]) \/ DBMayFail)
        /\ byId' = EvictTenant(byId, snap[r])
        /\ Fail(r) /\ UNCHANGED <<rows, bg>>
  /\ UNCHANGED <<active, revived, lock, primary, now, att, job, snap, batch, rec>>

\* tryReclaimConflictLease writes the row back as the caller's.
Reclaim(r) ==
  /\ pc[r] = "reclaim"
  /\ \E f \in SessionStates(snap[r]) :
       UpdateLease(r, Reclaimed(snap[r], job[r].who, f, now), "reclaimSync")
  /\ UNCHANGED <<active, lock, primary, now, att, job, bg, batch, rec>>

\* enforceConflictPrevention: off, failed or unanswered probe.
ProbeQuiet(r) ==
  /\ pc[r] = "probe"
  /\ Goto(r, "unlock")
  /\ UNCHANGED <<storeVars, lock, primary, now, att, job, snap, ok, bg, batch, rec>>

\* enforceConflictPrevention: the address answers, the lease is held back.
ProbeAlive(r) ==
  /\ pc[r] = "probe" /\ ConflictEnabled
  /\ UpdateLease(r, Held(snap[r], now), "holdSync")
  /\ UNCHANGED <<active, lock, primary, now, att, job, bg, batch, rec>>

\* Unlock deletes the key without comparing its token.
Unlock_AnyToken(r) ==
  /\ pc[r] = "unlock"
  /\ lock' = NoLease
  /\ Goto(r, IF ok[r] /\ job[r].kind \in TargetKinds THEN "idGet" ELSE "return")
  /\ UNCHANGED <<storeVars, primary, now, att, job, snap, ok, bg, batch, rec>>

\* The deferred Unlocks: each deletes the key only if it holds its own token.
\* A successful packet handler goes on to the FSM update.
Unlock(r) ==
  /\ pc[r] = "unlock"
  /\ lock' = IF lock \in {<<r, n>> : n \in 1..MaxAttempts} THEN NoLease ELSE lock
  /\ Goto(r, IF ok[r] /\ job[r].kind \in TargetKinds THEN "idGet" ELSE "return")
  /\ UNCHANGED <<storeVars, primary, now, att, job, snap, ok, bg, batch, rec>>

\* The handler returns to its caller; its local variables are gone.
Return(r) ==
  /\ pc[r] = "return"
  /\ Goto(r, "done") /\ Take(r, NoLease)
  /\ att' = [att EXCEPT ![r] = 1]
  /\ job' = [job EXCEPT ![r] = NoLease]
  /\ ok' = [ok EXCEPT ![r] = TRUE]
  /\ UNCHANGED <<storeVars, lock, primary, now, bg, batch, rec>>

-----------------------------------------------------------------------------
(* GetLeaseByID and the writes that start from it.                         *)

\* The lease a call is about, and the cache key it reads it from.
TargetId(r) == IF job[r].kind \in AdminKinds THEN job[r].id ELSE snap[r].id
KeyById(r, i) == <<IF job[r].kind \in AdminKinds THEN "global" ELSE NodeTenant, i>>

ByIdNext(r) == IF job[r].kind \in AdminKinds THEN "admin" ELSE "fsm"

GetByIdHit(r) ==
  /\ pc[r] = "idGet" /\ byId[KeyById(r, TargetId(r))] # NoLease
  /\ job[r].kind \in AllocKinds => primary
  /\ Take(r, byId[KeyById(r, TargetId(r))]) /\ Goto(r, ByIdNext(r))
  /\ UNCHANGED <<storeVars, lock, primary, now, att, job, ok, bg, batch, rec>>

GetByIdRow(r) ==
  /\ pc[r] = "idGet" /\ byId[KeyById(r, TargetId(r))] = NoLease
  /\ job[r].kind \in AllocKinds => primary
  /\ rows[TargetId(r)] # NoLease
  /\ Take(r, rows[TargetId(r)]) /\ Goto(r, "idFill")
  /\ UNCHANGED <<storeVars, lock, primary, now, att, job, ok, bg, batch, rec>>

\* No such row (yet), or a packet handler that has become a standby.
GetByIdFails(r) ==
  /\ pc[r] = "idGet"
  /\ \/ job[r].kind \in AllocKinds /\ ~primary
     \/ byId[KeyById(r, TargetId(r))] = NoLease /\ rows[TargetId(r)] = NoLease
  /\ Fail(r)
  /\ UNCHANGED <<storeVars, lock, primary, now, att, job, snap, bg, batch, rec>>

FillById(r) ==
  /\ pc[r] = "idFill"
  /\ byId' = [byId EXCEPT ![KeyById(r, snap[r].id)] = snap[r]]
  /\ Goto(r, ByIdNext(r))
  /\ UNCHANGED <<rows, active, revived, lock, primary, now, att, job, snap, ok,
                 bg, batch, rec>>

\* UpdateDHCPv4LeaseFSMByLeaseID: transition, then UpdateLease.
UpdateFSM(r) ==
  /\ pc[r] = "fsm"
  /\ LET target == Target[job[r].kind] IN
     \/ /\ ~TransitionAllowed(snap[r], target, now)
        /\ Fail(r) /\ UNCHANGED <<rows, byId, revived, snap>>
     \/ /\ TransitionAllowed(snap[r], target, now)
        /\ ~TransitionUpdates(snap[r], target, now)
        /\ Goto(r, "return") /\ UNCHANGED <<rows, byId, revived, snap, ok>>
     \/ /\ TransitionAllowed(snap[r], target, now)
        /\ TransitionUpdates(snap[r], target, now)
        /\ UpdateLease(r, TransitionLease(snap[r], target, now), "fsmSync")
  /\ UNCHANGED <<active, lock, primary, now, att, job, bg, batch, rec>>

\* ReleaseByIdentifier and UpdateDHCPv4LeaseFSMByIdentifier(Released).
ReleaseActive(r) ==
  /\ pc[r] = "release"
  /\ \/ /\ ~TransitionAllowed(snap[r], "Released", now)
        /\ Fail(r) /\ UNCHANGED <<rows, byId, revived, job, snap>>
     \/ /\ TransitionAllowed(snap[r], "Released", now)
        /\ ~TransitionUpdates(snap[r], "Released", now)
        /\ NextRelease(r) /\ UNCHANGED <<rows, byId, revived, snap, ok>>
     \/ /\ TransitionAllowed(snap[r], "Released", now)
        /\ TransitionUpdates(snap[r], "Released", now)
        /\ UpdateLease(r, TransitionLease(snap[r], "Released", now), "releaseSync")
        /\ UNCHANGED job
  /\ UNCHANGED <<active, lock, primary, now, att, bg, batch, rec>>

\* ReleaseLease, DeclineLease and ClearCooldown: does the call change anything,
\* and what does it write.
AdminChanges(k, l) ==
  CASE k = "adminRelease"  -> l.state # "RELEASED"
    [] k = "adminDecline"  -> TRUE
    [] k = "clearCooldown" -> l.state = "COOLDOWN" \/ l.cool # 0
AdminWrites(k, l, t) == IF k = "adminDecline" THEN Declined(l, t) ELSE Released(l, t)

AdminUpdate(r) ==
  /\ pc[r] = "admin"
  /\ \/ /\ ~AdminChanges(job[r].kind, snap[r])
        /\ Goto(r, "return") /\ UNCHANGED <<rows, byId, revived, snap, ok>>
     \/ /\ AdminChanges(job[r].kind, snap[r])
        /\ UpdateLease(r, AdminWrites(job[r].kind, snap[r], now), "adminSync")
  /\ UNCHANGED <<active, lock, primary, now, att, job, bg, batch, rec>>

-----------------------------------------------------------------------------
(* The cache calls of UpdateLease and CreateLease, and what follows them:  *)
(* confirmReplication and confirmSyncAck (which may fail although the row  *)
(* is written), then the caller goes on.                                   *)

SyncCaches(r) ==
  /\ active' = SyncActive(active, snap[r])
  /\ byId' = EvictTenant(byId, snap[r])
  /\ UNCHANGED <<rows, revived, lock, primary, now, snap, bg, batch, rec>>

ConfirmMayFail(r) ==
  \/ Kafka /\ pc[r] \in {"renewSync", "createSync", "holdSync", "reclaimSync"}
  \/ StrictAck /\ pc[r] \in {"renewSync", "createSync"}

ConfirmFails(r) ==
  /\ pc[r] \in SyncLabels /\ ConfirmMayFail(r)
  /\ SyncCaches(r) /\ Fail(r)
  /\ UNCHANGED <<att, job>>

\* The attempt loop runs once too often.
NextAttempt_OneMore(r) ==
  IF att[r] <= MaxAttempts
  THEN att' = [att EXCEPT ![r] = att[r] + 1] /\ Goto(r, "get") /\ UNCHANGED ok
  ELSE UNCHANGED att /\ Fail(r)

\* A held lease sends the loop into its next attempt.
NextAttempt(r) ==
  IF att[r] < MaxAttempts
  THEN att' = [att EXCEPT ![r] = att[r] + 1] /\ Goto(r, "get") /\ UNCHANGED ok
  ELSE UNCHANGED att /\ Fail(r)

SyncDone(r) ==
  /\ pc[r] \in SyncLabels
  /\ SyncCaches(r)
  /\ \/ /\ pc[r] \in {"renewSync", "createSync"}
        /\ Goto(r, "probe") /\ UNCHANGED <<att, job, ok>>
     \/ /\ pc[r] = "holdSync"
        /\ NextAttempt(r) /\ UNCHANGED job
     \/ /\ pc[r] = "reclaimSync"
        /\ Goto(r, "unlock") /\ UNCHANGED <<att, job, ok>>
     \/ /\ pc[r] \in {"fsmSync", "adminSync"}
        /\ Goto(r, "return") /\ UNCHANGED <<att, job, ok>>
     \/ /\ pc[r] = "releaseSync"
        /\ NextRelease(r) /\ UNCHANGED <<att, ok>>

-----------------------------------------------------------------------------
(* Background persistence goroutines.                                      *)

AsyncWrite(i) ==
  /\ bg[i] # NoLease /\ bg[i].op # "sync"
  /\ LET l == bg[i].lease
         fits == IF bg[i].op = "create" THEN InsertOK(rows, l) ELSE UpdateOK(rows, l)
     IN \/ /\ fits
           /\ rows' = IF bg[i].op = "create" THEN Inserted(rows, l) ELSE Updated(rows, l)
           /\ revived' = IF bg[i].op = "create" THEN revived ELSE Revive(l)
           /\ bg' = [bg EXCEPT ![i] = [op |-> "sync", lease |-> l]]
           /\ UNCHANGED byId
        \/ /\ ~fits \/ DBMayFail
           /\ byId' = EvictTenant(byId, l)
           /\ bg' = [bg EXCEPT ![i] = NoLease]
           /\ UNCHANGED <<rows, revived>>
  /\ UNCHANGED <<active, lock, primary, now, reqVars, batch, rec>>

AsyncSync(i) ==
  /\ bg[i] # NoLease /\ bg[i].op = "sync"
  /\ active' = SyncActive(active, bg[i].lease)
  /\ byId' = EvictTenant(byId, bg[i].lease)
  /\ bg' = [bg EXCEPT ![i] = NoLease]
  /\ UNCHANGED <<rows, revived, lock, primary, now, reqVars, batch, rec>>

-----------------------------------------------------------------------------
(* The reclaimer.  It asks nobody for the role.                            *)

\* The cutoff is a tick too early.
ReclaimList_LateByOne ==
  /\ UseReclaimer /\ batch = {} /\ rec = NoLease
  /\ Serial => Quiet
  /\ \E s \in ExpiredBatches(rows, now - Grace - 1, BatchSize) \ {{}} :
       batch' = {rows[i] : i \in s}
  /\ UNCHANGED <<storeVars, lock, primary, now, reqVars, bg, rec>>

ReclaimList ==
  /\ UseReclaimer /\ batch = {} /\ rec = NoLease
  /\ Serial => Quiet
  /\ \E s \in ExpiredBatches(rows, now - Grace, BatchSize) \ {{}} :
       batch' = {rows[i] : i \in s}
  /\ UNCHANGED <<storeVars, lock, primary, now, reqVars, bg, rec>>

ReclaimWrite ==
  /\ rec = NoLease
  /\ \E l \in batch :
       /\ batch' = batch \ {l}
       /\ LET w == Released(l, now) IN
          \/ /\ UpdateOK(rows, w)
             /\ rows' = Updated(rows, w)
             /\ rec' = w
          \/ /\ ~UpdateOK(rows, w) \/ DBMayFail
             /\ UNCHANGED <<rows, rec>>
  /\ UNCHANGED <<active, byId, revived, lock, primary, now, reqVars, bg>>

ReclaimSync ==
  /\ rec # NoLease
  /\ active' = SyncActive(active, rec)
  /\ rec' = NoLease
  /\ UNCHANGED <<rows, byId, revived, lock, primary, now, reqVars, bg, batch>>

-----------------------------------------------------------------------------
(* The environment.                                                        *)

\* The lock key is set without a TTL.
LockExpire_Never == FALSE /\ UNCHANGED vars

\* Redis removes the lock key 5 seconds after SETNX.
LockExpire ==
  /\ LockMayExpire /\ lock # NoLease
  /\ lock' = NoLease
  /\ UNCHANGED <<storeVars, primary, now, reqVars, bg, batch, rec>>

CacheDrop(c) ==
  /\ CacheMayDrop /\ active[c] # NoLease
  /\ active' = [active EXCEPT ![c] = NoLease]
  /\ UNCHANGED <<rows, byId, revived, lock, primary, now, reqVars, bg, batch, rec>>

RoleChange ==
  /\ RoleMayChange
  /\ primary' = ~primary
  /\ UNCHANGED <<storeVars, lock, now, reqVars, bg, batch, rec>>

Tick ==
  /\ now < MaxTime
  /\ Serial => Quiet
  /\ now' = now + 1
  /\ active' = ActiveAt(active, now + 1)
  /\ byId' = [k \in CacheKeys |-> NoLease]
  /\ UNCHANGED <<rows, revived, lock, primary, reqVars, bg, batch, rec>>

\* Every request has been served and the clock is at its bound.
Terminated ==
  /\ Quiet /\ \A r \in Requests : pc[r] = "done"
  /\ now = MaxTime
  /\ UNCHANGED vars

-----------------------------------------------------------------------------
\* The steps a goroutine takes without needing anything but the processor.
Progress(r) ==
  \/ GetActiveHit(r) \/ GetActiveRow(r) \/ GetActiveNone(r) \/ RefuseMark(r)
  \/ FillActive(r) \/ Renew(r) \/ AcquireLock(r) \/ Pick(r) \/ PickNone(r)
  \/ Create(r) \/ Reclaim(r) \/ ProbeQuiet(r) \/ ProbeAlive(r) \/ Unlock(r)
  \/ GetByIdHit(r) \/ GetByIdRow(r) \/ GetByIdFails(r) \/ FillById(r)
  \/ UpdateFSM(r) \/ ReleaseActive(r) \/ AdminUpdate(r)
  \/ ConfirmFails(r) \/ SyncDone(r) \/ Return(r)

Next ==
  \/ \E r \in Requests : Begin(r) \/ Refuse(r) \/ Progress(r)
  \/ \E i \in LeaseIds : AsyncWrite(i) \/ AsyncSync(i)
  \/ ReclaimList \/ ReclaimWrite \/ ReclaimSync
  \/ \E c \in Clients : CacheDrop(c)
  \/ LockExpire \/ RoleChange \/ Tick \/ Terminated

Spec == Init /\ [][Next]_vars

\* Goroutines are scheduled, the lock TTL runs out, the reclaimer's ticker
\* fires and the clock moves.  Nothing forces a packet to arrive, a call to be
\* refused, a role to change or a cache key to be evicted.
Fairness ==
  /\ \A r \in Requests : WF_vars(Progress(r))
  /\ \A i \in LeaseIds : WF_vars(AsyncWrite(i) \/ AsyncSync(i))
  /\ WF_vars(ReclaimList \/ ReclaimWrite \/ ReclaimSync)
  /\ WF_vars(LockExpire)
  /\ WF_vars(Tick)

FairSpec == Spec /\ Fairness

-----------------------------------------------------------------------------
(* Safety.                                                                 *)

\* Type correctness of the table, the caches and every copy in flight
\* (internal/lease: models.Lease values held by goroutines and cache keys).
TypeOK ==
  /\ rows \in [LeaseIds -> Leases \cup {NoLease}]
  /\ active \in [Clients -> Leases \cup {NoLease}]
  /\ byId \in [CacheKeys -> Leases \cup {NoLease}]
  /\ revived \subseteq LeaseIds
  /\ lock \in LeaseIds \cup {NoLease}
  /\ primary \in BOOLEAN
  /\ now \in Nat
  /\ pc \in [Requests -> Labels]
  /\ att \in [Requests -> 1..MaxAttempts]
  /\ job \in [Requests -> Jobs \cup {NoLease}]
  /\ snap \in [Requests -> Leases \cup {NoLease}]
  /\ ok \in [Requests -> BOOLEAN]
  /\ bg \in [LeaseIds -> Tasks \cup {NoLease}]
  /\ batch \subseteq Leases
  /\ rec \in Leases \cup {NoLease}

\* The section acquirePoolLock protects, from the choice of an address to the
\* row that records it.
Section == {"pick", "create", "createSync", "reclaim", "reclaimSync"}

\* With the lock in Redis and no TTL running out, one request at a time is
\* between acquirePoolLock and the write of its row, although requests retry
\* while they hold the lock and every exit path unlocks.
MutualExclusion ==
  \A r, s \in Requests : (pc[r] \in Section /\ pc[s] \in Section) => r = s

\* Two ACTIVE rows share an address only if one of them was brought back from
\* RELEASED or COOLDOWN by a later write: pickIPAddress and CreateLease never
\* hand out an address twice while the pool lock holds.
NoSharedAddress ==
  \A i, j \in Present(rows) :
    (i # j /\ rows[i].state = "ACTIVE" /\ rows[j].state = "ACTIVE"
           /\ rows[i].ip = rows[j].ip)
      => i \in revived \/ j \in revived

\* An address enforceConflictPrevention holds back after an answered probe is
\* not leased before the hold is over, unless one of the two rows was brought
\* back.
HeldNotLeased ==
  \A i, j \in Present(rows) :
    (rows[i].state = "ACTIVE" /\ rows[j].state = "COOLDOWN"
       /\ rows[j].cool > now /\ rows[i].ip = rows[j].ip)
      => i \in revived \/ j \in revived

\* A packet handler that allocates and returns without error returns a lease
\* the table has, at the address it returns, and the row is the client's
\* unless the row was brought back (tryReclaimConflictLease changes the owner
\* in memory only).
GrantRecorded ==
  \A r \in Requests :
    (pc[r] = "return" /\ ok[r] /\ job[r].kind \in AllocKinds) =>
      LET i == snap[r].id IN
      /\ rows[i] # NoLease
      /\ rows[i].ip = snap[r].ip
      /\ rows[i].hw = job[r].who \/ i \in revived

\* An address bound to one client is never the ACTIVE address of a row of
\* another, although rows are renewed, declined, taken over by
\* tryReclaimConflictLease and written back from stale copies.
BindingRespected ==
  \A i \in Present(rows), b \in Bindings :
    (rows[i].state = "ACTIVE" /\ rows[i].ip = b[2]) => rows[i].hw = b[1]

\* Handlers one at a time: whenever nothing is running, the lease cached for a
\* client by syncActiveLeaseCache or GetActiveLease is ACTIVE in the table.
CacheAgrees ==
  Quiet => \A c \in Clients : active[c] # NoLease =>
             /\ rows[active[c].id] # NoLease
             /\ rows[active[c].id].state = "ACTIVE"

\* Handlers one at a time: no sequence of packets, administrative calls and
\* reclaimer passes makes a RELEASED row ACTIVE again, whatever stale copies
\* the two caches still hold.
ReleasedStays ==
  [][\A i \in Present(rows) :
       rows[i].state = "RELEASED" => rows'[i].state # "ACTIVE"]_vars

\* The lease service implements AddressLedger: the holders of an address are
\* the ACTIVE rows on it.
Ledger == INSTANCE AddressLedger WITH
  holders <- [a \in Addrs |->
               {i \in Present(rows) : rows[i].state = "ACTIVE" /\ rows[i].ip = a}],
  back <- revived
LedgerSpec == Ledger!Spec

-----------------------------------------------------------------------------
(* Liveness.                                                               *)

\* Every handler returns, also one that waits for the pool lock it still holds
\* from its previous attempt.
HandlersReturn == \A r \in Requests : pc[r] # "idle" ~> pc[r] = "done"

Expired(i) == rows[i] # NoLease /\ i \in ExpiredRows(rows, now - Grace)
Blocked(i) == rows[i] # NoLease /\ ~KeyFree(rows, i, rows[i].hw, "RELEASED")

\* The reclaimer gets to every expired row that it can release: one whose
\* client does not already have a RELEASED row.
ExpiredReleased ==
  \A i \in LeaseIds : Expired(i) ~> (~Expired(i) \/ Blocked(i))

=============================================================================
