----------------------------- MODULE LeaseStore -----------------------------
(***************************************************************************)
(* The lease repository (internal/lease/repository.go) and the record      *)
(* mutations of internal/lease/service.go: what a lease is, what one SQL   *)
(* statement does to the table leases_v4, and what one cache call does to  *)
(* the two cache key families the repository keeps.                        *)
(*                                                                         *)
(*  rows   leases_v4: a function from lease ids to records, NoLease where  *)
(*         there is no row;                                                *)
(*  active the keys lease-active:<tenant>:<identifier> the packet handlers *)
(*         read;                                                           *)
(*  byId   the keys lease:<tenant>:id:<lease id>.                          *)
(*                                                                         *)
(* A lease id is minted by one attempt of one request (uuid.NewString), so *)
(* it is modelled by that pair; so is the random token of the pool lock.   *)
(*                                                                         *)
(* Cache keys hold a tenant.  The packet handlers run under the node's own *)
(* tenant (Service.NodeID, or "default"), the HTTP API under "global".     *)
(* Field tn tells whether a copy carries the node's tenant id: a record    *)
(* built by the service does, one read from the table does not (there is   *)
(* no tenant_id column), and a cached copy keeps whichever it had.  A copy *)
(* without one updates the keys of "global" and evicts no key at all.      *)
(*                                                                         *)
(* These are the SQL branches of the repository, the ones cmd/dhcpd runs:  *)
(* nothing there gives it a Redis store of active leases.  The branches    *)
(* that such a store opens are module ActiveStore.                         *)
(***************************************************************************)
EXTENDS LeaseFSM, FiniteSets

CONSTANTS
  Requests,     \* handler invocations: packets and API calls, each used once
  MaxAttempts,  \* conflictAttemptBudget()
  Clients,      \* client identifiers (hardware_addr = client_id)
  Addrs,        \* usable addresses of the one pool
  NoLease,      \* "no such row / no such key"
  LeaseTime,    \* profile.DefaultDuration
  CoolTime,     \* cooldownDuration()
  HoldTime,     \* conflictHoldDuration()
  GlobalNode    \* Service.NodeID is "global": one tenant for everybody

LeaseIds    == Requests \X (1..MaxAttempts)
LeaseStates == {"ACTIVE", "RELEASED", "COOLDOWN"}

\* The tenants of the cache keys.
Tenants    == {"node", "global"}
NodeTenant == IF GlobalNode THEN "global" ELSE "node"
CacheKeys  == Tenants \X LeaseIds

Leases ==
  [id : LeaseIds, ip : Addrs, hw : Clients, state : LeaseStates,
   exp : Nat, cool : Nat, fsm : FSMStates \cup {"none"},
   probed : BOOLEAN,       \* conflict_history holds an ICMP probe entry
   tn : BOOLEAN]

ASSUME StoreAssumption ==
  /\ MaxAttempts \in Nat \ {0}
  /\ LeaseTime \in Nat /\ CoolTime \in Nat /\ HoldTime \in Nat
  /\ NoLease \notin Leases \cup LeaseIds
  /\ GlobalNode \in BOOLEAN

-----------------------------------------------------------------------------
(* SQL statements.                                                         *)

Present(rows) == {i \in LeaseIds : rows[i] # NoLease}

\* Mutants of the definitions below them are named <definition>_<defect>.

\* The lookup without its hardware_addr condition.
ActiveRowsOf_AnyClient(rows, c) ==
  {i \in Present(rows) : rows[i].state = "ACTIVE"}

\* The lookup of GetActiveLease: rows of the client in state ACTIVE, whatever
\* their expiry.
ActiveRowsOf(rows, c) ==
  {i \in Present(rows) : rows[i].hw = c /\ rows[i].state = "ACTIVE"}

\* UNIQUE KEY uniq_lease_active (hardware_addr, state): no other row of the
\* client is in the state.
KeyFree(rows, i, c, s) ==
  ~ \E j \in Present(rows) : j # i /\ rows[j].hw = c /\ rows[j].state = s

\* The INSERT of CreateLease.
InsertOK(rows, l) == rows[l.id] = NoLease /\ KeyFree(rows, l.id, l.hw, l.state)
Inserted(rows, l) == [rows EXCEPT ![l.id] = [l EXCEPT !.tn = FALSE]]

\* The UPDATE of UpdateLease: blind, by id; hardware_addr is not in the SET
\* list; an id without a row matches nothing and is no error.
UpdateOK(rows, l) ==
  rows[l.id] # NoLease => KeyFree(rows, l.id, rows[l.id].hw, l.state)
Updated(rows, l) ==
  IF rows[l.id] = NoLease THEN rows
  ELSE [rows EXCEPT ![l.id] = [l EXCEPT !.hw = rows[l.id].hw, !.tn = FALSE]]

\* The cooldown query with its comparison the wrong way round.
CooldownIPs_Reversed(rows, t) ==
  {rows[i].ip : i \in {j \in Present(rows) : rows[j].cool < t}}

\* ListActiveIPs and ListCooldownIPs.
ActiveIPs(rows) ==
  {rows[i].ip : i \in {j \in Present(rows) : rows[j].state = "ACTIVE"}}
CooldownIPs(rows, t) ==
  {rows[i].ip : i \in {j \in Present(rows) : rows[j].cool > t}}

\* ListExpiredLeases without its LIMIT: rows the reclaimer may take.
ExpiredRows(rows, before) ==
  {i \in Present(rows) : rows[i].exp <= before /\ rows[i].state # "RELEASED"}

\* ... and with it: a batch of the oldest ones.
ExpiredBatches(rows, before, limit) ==
  LET all  == ExpiredRows(rows, before)
      size == IF Cardinality(all) < limit THEN Cardinality(all) ELSE limit
  IN {s \in SUBSET all :
        /\ Cardinality(s) = size
        /\ \A i \in s, j \in all \ s : rows[i].exp <= rows[j].exp}

\* The rows tryReclaimConflictLease accepts: cooling down for another reason
\* than an answered probe.
ReclaimableRows(rows) ==
  {i \in Present(rows) : rows[i].state = "COOLDOWN" /\ ~rows[i].probed}

-----------------------------------------------------------------------------
(* Cache calls.                                                            *)

\* The cache key is refreshed whatever the state of the lease.
SyncActive_KeepsReleased(active, l) ==
  IF l.tn \/ GlobalNode THEN [active EXCEPT ![l.hw] = l] ELSE active

\* syncActiveLeaseCache: the key of the copy's own tenant and identifier is set
\* to the copy when it is ACTIVE and deleted otherwise.
SyncActive(active, l) ==
  IF l.tn \/ GlobalNode
  THEN [active EXCEPT ![l.hw] = IF l.state = "ACTIVE" THEN l ELSE NoLease]
  ELSE active

\* evictTenant(TenantID): DeletePrefix "lease:<TenantID>:".
EvictTenant(byId, l) ==
  [k \in CacheKeys |-> IF l.tn /\ k[1] = NodeTenant THEN NoLease ELSE byId[k]]

\* Time passes: a key of byId lives 15 seconds, far less than a tick; a key of
\* active lives until the expiry its copy had, or 15 seconds if that is over.
ActiveAt(active, t) ==
  [c \in Clients |-> IF active[c] # NoLease /\ active[c].exp > t
                     THEN active[c] ELSE NoLease]

-----------------------------------------------------------------------------
(* What the service does to its copy before it writes it back.             *)

\* The record of a new allocation.
NewLease(i, a, c, t) ==
  [id |-> i, ip |-> a, hw |-> c, state |-> "ACTIVE", exp |-> t + LeaseTime,
   cool |-> 0, fsm |-> "none", probed |-> FALSE, tn |-> TRUE]

\* Reuse: applyMobilityMetadata may replace the whole session_continuity
\* document (and the FSM state in it), applyLeaseTiming restarts the lease.
Renewed(l, f, t) == [l EXCEPT !.exp = t + LeaseTime, !.fsm = f]

\* enforceConflictPrevention after an answered probe.
Held(l, t) ==
  [l EXCEPT !.state = "COOLDOWN", !.exp = t + CoolTime,
            !.cool = t + HoldTime, !.probed = TRUE]

\* DeclineLease: applyCooldownState alone, cooldown_until is not touched.
Declined(l, t) == [l EXCEPT !.state = "COOLDOWN", !.exp = t + CoolTime]

\* ReleaseLease, ClearCooldown and the reclaimer.
Released(l, t) ==
  [l EXCEPT !.state = "RELEASED", !.exp = t, !.cool = 0]

\* tryReclaimConflictLease: the copy is the caller's, the lease expires now.
Reclaimed(l, c, f, t) ==
  [l EXCEPT !.hw = c, !.state = "ACTIVE", !.exp = t, !.fsm = f,
            !.probed = FALSE]
=============================================================================
