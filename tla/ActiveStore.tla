---------------------------- MODULE ActiveStore ----------------------------
(***************************************************************************)
(* The lease repository of internal/lease/repository.go built with         *)
(* WithRedisActiveStore: active leases are JSON objects in Redis that      *)
(* expire with the lease, found through sorted sets (the addresses of a    *)
(* pool; the leases of an identifier, a user or a device type; the expiry  *)
(* queue) and through an entry that remembers where a lease was indexed.   *)
(* A lease that ends moves to the table lease_history_v4.  The binary      *)
(* builds the repository without this option (LeaseStore models that); the *)
(* option and its indexes are modelled here.                               *)
(*                                                                         *)
(* A worker is one call of the lease service: it loads a copy, changes it  *)
(* and writes it back in the steps the repository takes: GET of the index  *)
(* entry, the MULTI/EXEC pipeline, the INSERT into the history.            *)
(***************************************************************************)
EXTENDS Integers, FiniteSets, FiniteSetsExt

CONSTANTS
  Ids,          \* lease ids
  StoreAddrs,   \* addresses of the pool
  Tags,         \* identifiers, users and device types leases are indexed by
  Clients,      \* those of the Tags that identify a client
  StoreWorkers,
  LeaseTime,    \* lease duration
  CooldownTime, \* cooldownDuration: what is left of a lease declined or in conflict
  HoldTime,     \* conflictHoldDuration: how long an address in conflict is kept back
  Spare,        \* lifetime of an object written after its lease's end (15 s)
  ArchiveFails, \* the INSERT into lease_history_v4 may fail
  MaxTime,      \* bound: last value of the clock
  None

VARIABLES
  obj,      \* lease-active-obj: per id [lease, until] or None
  idx,      \* lease-active-idx: per id [addr, tags] or None
  pool,     \* lease-active-pool: score of each address, 0 when absent
  tag,      \* lease-active-ident, -user and -device: score per tag and id
  expiry,   \* lease-active-expiry: score per id
  history,  \* lease_history_v4: per id a row or None
  clock,
  call,     \* per worker [pc, id, lease, prev]
  ended     \* history: copies whose end the repository acknowledged

storeState == <<obj, idx, pool, tag, expiry, history>>
activeVars == <<obj, idx, pool, tag, expiry, history, clock, call, ended>>

LeaseStates == {"ACTIVE", "RELEASED", "COOLDOWN"}

Leases == [addr : StoreAddrs, tags : SUBSET Tags, exp : Nat, state : LeaseStates,
           cooldown : Nat]

StoredObjects == [lease : Leases, until : Nat]
IndexEntries  == [addr : StoreAddrs, tags : SUBSET Tags]
HistoryRows   == [addr : StoreAddrs, state : LeaseStates, cooldown : Nat]

ASSUME ActiveStoreAssumption ==
  /\ Clients \subseteq Tags /\ IsFiniteSet(Ids)
  /\ LeaseTime \in Nat \ {0} /\ CooldownTime \in Nat \ {0}
  /\ HoldTime \in Nat \ {0} /\ Spare \in Nat \ {0}
  /\ MaxTime \in Nat /\ ArchiveFails \in BOOLEAN
  /\ None \notin Ids /\ None \notin LeaseStates
  /\ None \notin StoredObjects /\ None \notin IndexEntries /\ None \notin HistoryRows

Ready == [pc |-> "idle", id |-> None, lease |-> None, prev |-> None]

ActiveInit ==
  /\ obj = [i \in Ids |-> None] /\ idx = [i \in Ids |-> None]
  /\ pool = [a \in StoreAddrs |-> 0]
  /\ tag = [t \in Tags |-> [i \in Ids |-> 0]]
  /\ expiry = [i \in Ids |-> 0]
  /\ history = [i \in Ids |-> None]
  /\ clock = 1
  /\ call = [w \in StoreWorkers |-> Ready]
  /\ ended = {}

-----------------------------------------------------------------------------
(* Reads.  A sorted set is purged of what has expired before it is read.   *)

ZRemRangeByScore(set) == [m \in DOMAIN set |-> IF set[m] <= clock THEN 0 ELSE set[m]]
ZMembers(set) == {m \in DOMAIN set : set[m] > clock}
ZCard(set)    == Cardinality(ZMembers(set))

Objects == {i \in Ids : obj[i] # None}

ListActiveIPs                    == ZMembers(pool)
CountActiveLeasesByPool          == ZCard(pool)
CountActiveLeasesByIdentifier(t) == ZCard(tag[t])
CountActiveLeasesByDeviceType    == [t \in Tags |-> ZCard(tag[t])]
redisCountActiveLeases           == ZCard(pool)

redisListActiveLeases(states) == {i \in Objects : obj[i].lease.state \in states}

\* The rows of the history that match a state, or any.
SearchLeaseHistory(state) ==
  {i \in Ids : history[i] # None /\ (state = None \/ history[i].state = state)}

ListLeasesByState(state) ==
  IF state = "ACTIVE" THEN redisListActiveLeases({"ACTIVE"})
  ELSE SearchLeaseHistory(state)

\* Without a state: the active ones and the whole history.
ListLeases(state) ==
  IF state # None THEN ListLeasesByState(state)
  ELSE ListLeasesByState("ACTIVE") \cup SearchLeaseHistory(None)

\* Counted by the states no DHCPv4 lease is ever given: a decline leaves COOLDOWN.
CountConflictLeasesSince ==
  Cardinality({i \in SearchLeaseHistory(None) :
                 history[i].state \in {"DECLINED", "CONFLICT"}})

\* Active objects and history rows alike.
CountLeasesCreatedSince ==
  Cardinality(ListLeasesByState("ACTIVE")) + Cardinality(SearchLeaseHistory(None))

ListCooldownIPs ==
  {history[i].addr : i \in {i \in SearchLeaseHistory(None) :
                              history[i].cooldown > clock}}

\* The first lease of the identifier by score, if its object is still there.
FirstOf(t) ==
  LET ids == ZMembers(tag[t])
  IN IF ids = {} THEN None
     ELSE CHOOSE i \in ids : \A j \in ids : tag[t][i] <= tag[t][j]

GetActiveLease(t) ==
  IF FirstOf(t) = None THEN None
  ELSE IF obj[FirstOf(t)] = None THEN None ELSE FirstOf(t)

\* What GetActiveLease leaves of the identifier's set.
Cleaned(t) ==
  LET set == ZRemRangeByScore(tag[t])
  IN IF FirstOf(t) # None /\ GetActiveLease(t) = None
     THEN [set EXCEPT ![FirstOf(t)] = 0] ELSE set

-----------------------------------------------------------------------------
(* Writes.                                                                 *)

\* The memberships of the previous entry stay.
Unindexed_Kept(i, prev) == <<pool, tag>>

\* The pool set and the tag sets without the memberships of entry prev.
Unindexed(i, prev) ==
  IF prev = None THEN <<pool, tag>>
  ELSE <<[pool EXCEPT ![prev.addr] = 0],
         [t \in Tags |-> IF t \in prev.tags THEN [tag[t] EXCEPT ![i] = 0]
                         ELSE tag[t]]>>

\* The lifetime SET gives the object.
Until(l) == IF l.exp > clock THEN l.exp ELSE clock + Spare

\* syncRedisActiveLeaseIndex after its GET: one MULTI/EXEC.
syncRedisActiveLeaseIndex(i, l, prev) ==
  LET rest == Unindexed(i, prev)
  IN IF l.state # "ACTIVE"
     THEN /\ pool' = rest[1] /\ tag' = rest[2]
          /\ expiry' = [expiry EXCEPT ![i] = 0]
          /\ idx' = [idx EXCEPT ![i] = None]
          /\ obj' = [obj EXCEPT ![i] = None]
     ELSE /\ pool' = [rest[1] EXCEPT ![l.addr] = l.exp]
          /\ tag' = [t \in Tags |-> IF t \in l.tags
                                    THEN [rest[2][t] EXCEPT ![i] = l.exp]
                                    ELSE rest[2][t]]
          /\ expiry' = [expiry EXCEPT ![i] = l.exp]
          /\ idx' = [idx EXCEPT ![i] = [addr |-> l.addr, tags |-> l.tags]]
          /\ obj' = [obj EXCEPT ![i] = [lease |-> l, until |-> Until(l)]]

Row(l) == [addr |-> l.addr, state |-> l.state, cooldown |-> l.cooldown]

\* The cooldown column is not among those inserted.
ArchiveLeases_NoCooldown(i, l) ==
  [history EXCEPT ![i] = [Row(l) EXCEPT !.cooldown = 0]]

\* INSERT ... ON DUPLICATE KEY UPDATE, which leaves the cooldown as it was.
ArchiveLeases(i, l) ==
  [history EXCEPT ![i] = IF @ = None THEN Row(l) ELSE [@ EXCEPT !.state = l.state]]

-----------------------------------------------------------------------------
(* Calls.                                                                  *)

Still == \A w \in StoreWorkers : call[w].pc = "idle"

Step(w, c) == call' = [call EXCEPT ![w] = c]

WriteLease(w, i, l) == Step(w, [pc |-> "get", id |-> i, lease |-> l, prev |-> None])

\* AllocateOrReuse for a client known by t with device type d: renew its lease,
\* or create one at a free address.
Allocate(w, t, d) ==
  /\ call[w].pc = "idle"
  /\ tag' = [tag EXCEPT ![t] = Cleaned(t)]
  /\ LET i == GetActiveLease(t)
     IN IF i # None
        THEN /\ WriteLease(w, i, [obj[i].lease EXCEPT !.exp = clock + LeaseTime,
                                                !.tags = {t, d}])
             /\ UNCHANGED pool
        ELSE /\ pool' = ZRemRangeByScore(pool)
             /\ \E j \in Ids, a \in StoreAddrs \ (ListActiveIPs \cup ListCooldownIPs) :
                  /\ \A k \in {obj, history, idx} : k[j] = None
                  /\ \A v \in StoreWorkers : call[v].id # j
                  /\ WriteLease(w, j, [addr |-> a, tags |-> {t, d}, state |-> "ACTIVE",
                                  exp |-> clock + LeaseTime, cooldown |-> 0])
  /\ UNCHANGED <<obj, idx, expiry, history, clock, ended>>

\* applyCooldownState: it moves the lease's end and sets no cooldown.
applyCooldownState(l) ==
  [l EXCEPT !.state = "COOLDOWN", !.exp = clock + CooldownTime]

\* A release or a decline by the client known by t.
End(w, t, state) ==
  /\ call[w].pc = "idle" /\ GetActiveLease(t) # None
  /\ tag' = [tag EXCEPT ![t] = Cleaned(t)]
  /\ LET i == GetActiveLease(t)
         l == obj[i].lease
     IN WriteLease(w, i, IF state = "COOLDOWN" THEN applyCooldownState(l)
                         ELSE [l EXCEPT !.state = state, !.exp = clock])
  /\ UNCHANGED <<obj, idx, pool, expiry, history, clock, ended>>

\* GET of the index entry.
ReadIndex(w) ==
  /\ call[w].pc = "get"
  /\ Step(w, [call[w] EXCEPT !.pc = "exec", !.prev = idx[call[w].id]])
  /\ UNCHANGED <<storeState, clock, ended>>

\* CreateLease or UpdateLease, up to the end of syncActiveLeaseCache.
Exec(w) ==
  /\ call[w].pc = "exec"
  /\ syncRedisActiveLeaseIndex(call[w].id, call[w].lease, call[w].prev)
  /\ Step(w, [call[w] EXCEPT !.pc = IF call[w].lease.state = "ACTIVE" THEN "probe"
                                     ELSE "archive"])
  /\ UNCHANGED <<history, clock, ended>>

\* The end of AllocateOrReuse: either nobody answers the probe of the address (or
\* none is sent), or the lease just written is written again, kept back.
enforceConflictPrevention(w) ==
  /\ call[w].pc = "probe"
  /\ \/ Step(w, Ready)
     \/ WriteLease(w, call[w].id, [applyCooldownState(call[w].lease)
                                    EXCEPT !.cooldown = clock + HoldTime])
  /\ UNCHANGED <<storeState, clock, ended>>

\* The rest of UpdateLease for a lease that ended.
Archive(w) ==
  /\ call[w].pc = "archive"
  /\ Step(w, Ready)
  /\ \/ /\ history' = ArchiveLeases(call[w].id, call[w].lease)
        /\ ended' = ended \cup {[id |-> call[w].id, lease |-> call[w].lease]}
     \/ /\ ArchiveFails
        /\ UNCHANGED <<history, ended>>
  /\ UNCHANGED <<obj, idx, pool, tag, expiry, clock>>

\* What the expiry queue names and is due.
Due == {i \in Ids : expiry[i] # 0 /\ expiry[i] <= clock}

\* redisRebuildActiveIndexesFromObjects: every object is indexed again.
redisRebuildActiveIndexesFromObjects(queue) ==
  LET at(a) == {obj[i].lease.exp : i \in {j \in Objects : obj[j].lease.addr = a}}
  IN /\ pool' = [a \in StoreAddrs |-> IF at(a) = {} THEN pool[a] ELSE Max(at(a))]
     /\ tag' = [t \in Tags |-> [i \in Ids |->
          IF i \in Objects THEN IF t \in obj[i].lease.tags THEN obj[i].lease.exp ELSE 0
          ELSE tag[t][i]]]
     /\ expiry' = [i \in Ids |-> IF i \in Objects THEN obj[i].lease.exp ELSE queue[i]]

\* One pass of ListExpiredLeases.  An object lives no longer than its lease, so
\* what is due has none: its entry is dropped, nothing is returned, and the
\* indexes are rebuilt.  (The reclaimer therefore finds nothing to release.)
ListExpiredLeases ==
  /\ Still /\ Due # {} /\ Due \cap Objects = {}
  /\ redisRebuildActiveIndexesFromObjects(
        [i \in Ids |-> IF i \in Due THEN 0 ELSE expiry[i]])
  /\ UNCHANGED <<obj, idx, history, clock, call, ended>>

\* Time passes and Redis expires objects.  A call does not outlast the lease it
\* writes: one that did would store an object of an ended lease.
ActiveTick ==
  /\ clock < MaxTime
  /\ \A w \in StoreWorkers : call[w].pc \in {"get", "exec"}
       => call[w].lease.state # "ACTIVE" \/ call[w].lease.exp > clock + 1
  /\ clock' = clock + 1
  /\ obj' = [i \in Ids |-> IF obj[i] = None THEN None
                           ELSE IF obj[i].until <= clock' THEN None ELSE obj[i]]
  /\ UNCHANGED <<idx, pool, tag, expiry, history, call, ended>>

ActiveNext ==
  \/ \E w \in StoreWorkers :
       \/ \E t \in Clients, d \in Tags \ Clients : Allocate(w, t, d)
       \/ \E t \in Clients, s \in {"RELEASED", "COOLDOWN"} : End(w, t, s)
       \/ ReadIndex(w) \/ Exec(w) \/ enforceConflictPrevention(w) \/ Archive(w)
  \/ ListExpiredLeases \/ ActiveTick

ActiveSpec == ActiveInit /\ [][ActiveNext]_activeVars

-----------------------------------------------------------------------------
(* Properties.                                                             *)

Live(i) == obj[i] # None /\ obj[i].lease.exp > clock

\* Between calls, and however far the clock has run since, what the sorted sets
\* of syncRedisActiveLeaseIndex answer is what the lease objects say: no address
\* of a live lease is offered again, none of an ended one is held back, and the
\* counts by pool and by device type are those of the live leases.
IndexAgrees ==
  Still =>
    /\ ListActiveIPs = {obj[i].lease.addr : i \in {i \in Ids : Live(i)}}
    /\ {CountActiveLeasesByPool, redisCountActiveLeases}
         = {Cardinality({i \in Ids : Live(i)})}
    /\ \A t \in Clients : CountActiveLeasesByIdentifier(t)
         = Cardinality({i \in Objects : t \in obj[i].lease.tags})
    /\ CountLeasesCreatedSince = Cardinality(ListLeases(None))
    /\ \A t \in Tags : CountActiveLeasesByDeviceType[t]
         = Cardinality({i \in Ids : Live(i) /\ t \in obj[i].lease.tags})

\* Once UpdateLease has returned from a release, a decline or a conflict, the lease
\* is found by SearchLeaseHistory and no longer among the active ones, and an
\* address whose probe was answered is kept back until the hold is over, although
\* the two stores are written one after the other and the second write may fail.
\* (A declined address is not kept back: applyCooldownState sets no cooldown_until.)
EndRecorded ==
  \A e \in ended :
    /\ e.id \in SearchLeaseHistory(e.lease.state)
    /\ e.id \notin ListLeases("ACTIVE")
    /\ e.lease.cooldown > clock => e.lease.addr \in ListCooldownIPs

\* What the two stores answer between calls.
StoresSound == IndexAgrees /\ EndRecorded
=============================================================================
