------------------------- MODULE LeaseServiceProofs -------------------------
(***************************************************************************)
(* Proofs about LeaseService, for any number of requests, clients and      *)
(* addresses: types first, then, with the pool lock in Redis, that no two  *)
(* leases hold the same address, and that the service implements the       *)
(* ledger of addresses; then that grants are recorded and, with handlers   *)
(* one at a time, that the caches agree with the table and what is         *)
(* released stays released.                                                *)
(***************************************************************************)
EXTENDS LeaseService, TLAPS

-----------------------------------------------------------------------------
(* Record mutations keep records well typed.                               *)

LEMMA TransformTypes ==
  ASSUME NEW l \in Leases, NEW t \in Nat, NEW c \in Clients,
         NEW f \in FSMStates \cup {"none"}
  PROVE  /\ Renewed(l, f, t) \in Leases
         /\ Held(l, t) \in Leases
         /\ Declined(l, t) \in Leases
         /\ Released(l, t) \in Leases
         /\ Reclaimed(l, c, f, t) \in Leases
<1>1. t + LeaseTime \in Nat /\ t + CoolTime \in Nat /\ t + HoldTime \in Nat
  <2>1. LeaseTime \in Nat /\ CoolTime \in Nat /\ HoldTime \in Nat
    BY StoreAssumption DEF StoreAssumption
  <2> QED
    BY <2>1
<1>2. Renewed(l, f, t) \in Leases
  BY <1>1 DEF Leases, Renewed
<1>3. Held(l, t) \in Leases
  BY <1>1 DEF Leases, Held, LeaseStates
<1>4. Declined(l, t) \in Leases
  BY <1>1 DEF Leases, Declined, LeaseStates
<1>5. Released(l, t) \in Leases
  BY DEF Leases, Released, LeaseStates
<1>6. Reclaimed(l, c, f, t) \in Leases
  BY DEF Leases, Reclaimed, LeaseStates
<1> QED
  BY <1>2, <1>3, <1>4, <1>5, <1>6

LEMMA NewLeaseType ==
  ASSUME NEW i \in LeaseIds, NEW a \in Addrs, NEW c \in Clients, NEW t \in Nat
  PROVE  NewLease(i, a, c, t) \in Leases
BY StoreAssumption DEF StoreAssumption, Leases, NewLease, LeaseStates

LEMMA TransitionType ==
  ASSUME NEW l \in Leases, NEW t \in Nat, NEW g \in FSMStates
  PROVE  TransitionLease(l, g, t) \in Leases
BY DEF Leases, TransitionLease, LeaseStates

LEMMA AdminType ==
  ASSUME NEW l \in Leases, NEW t \in Nat, NEW k, NEW c \in Clients
  PROVE  AdminWrites(k, l, t) \in Leases
BY TransformTypes DEF AdminWrites

(* SQL statements and cache calls keep the table and the caches well typed. *)

Table == [LeaseIds -> Leases \cup {NoLease}]
Keys  == [Clients -> Leases \cup {NoLease}]
IdKeys == [CacheKeys -> Leases \cup {NoLease}]

LEMMA WriteTypes ==
  ASSUME NEW T \in Table, NEW l \in Leases
  PROVE  Updated(T, l) \in Table /\ Inserted(T, l) \in Table
<1>1. l.id \in LeaseIds
  BY DEF Leases
<1>2. T[l.id] # NoLease => [l EXCEPT !.hw = T[l.id].hw, !.tn = FALSE] \in Leases
  BY <1>1 DEF Leases, Table, IdKeys
<1>3. [l EXCEPT !.tn = FALSE] \in Leases
  BY DEF Leases
<1> QED
  BY <1>1, <1>2, <1>3 DEF Updated, Inserted, Table, IdKeys

LEMMA CacheTypes ==
  ASSUME NEW A \in Keys, NEW B \in IdKeys, NEW l \in Leases, NEW t
  PROVE  /\ SyncActive(A, l) \in Keys
         /\ EvictTenant(B, l) \in IdKeys
         /\ ActiveAt(A, t) \in Keys
<1>1. l.hw \in Clients
  BY DEF Leases
<1> QED
  BY <1>1 DEF SyncActive, EvictTenant, ActiveAt, Keys, Table, IdKeys

-----------------------------------------------------------------------------
(* Type correctness.  TypeOK alone is not inductive: what a step writes is  *)
(* well typed because the request serves the right kind of call and holds a *)
(* copy of a lease at that step.                                            *)

AllocLabels == {"renew", "renewSync", "lock", "pick", "create", "createSync",
                "reclaim", "reclaimSync", "probe", "holdSync"}
CopyLabels  == {"fill", "renew", "create", "reclaim", "probe", "idFill",
                "fsm", "release", "admin"} \cup SyncLabels

ReqOK(r) ==
  /\ pc[r] \notin {"idle", "done"} => job[r] \in Jobs
  /\ pc[r] \in {"get", "fill"} => job[r].kind \in ByClientKinds
  /\ pc[r] \in AllocLabels => job[r].kind \in AllocKinds
  /\ pc[r] \in {"release", "releaseSync"}
       => job[r].kind \in {"release", "markReleased"}
  /\ pc[r] \in {"idGet", "idFill"} => job[r].kind \in AdminKinds \cup TargetKinds
  /\ pc[r] \in {"fsm", "fsmSync"} => job[r].kind \in TargetKinds
  /\ pc[r] \in {"admin", "adminSync"} => job[r].kind \in AdminKinds
  /\ pc[r] \in CopyLabels => snap[r] \in Leases
  /\ pc[r] = "unlock" /\ ok[r]
       => snap[r] \in Leases /\ job[r].kind \in AllocKinds
  /\ pc[r] = "idGet" /\ job[r].kind \notin AdminKinds => snap[r] \in Leases

TypeInv == TypeOK /\ \A r \in Requests : ReqOK(r)

Frame(r) ==
  \A s \in Requests : s # r =>
    pc'[s] = pc[s] /\ job'[s] = job[s] /\ snap'[s] = snap[s] /\ ok'[s] = ok[s]

LEMMA FrameInv ==
  ASSUME TypeInv, NEW r \in Requests, TypeOK', ReqOK(r)', Frame(r)
  PROVE  TypeInv'
<1>1. ASSUME NEW s \in Requests, s # r PROVE ReqOK(s)'
  <2>1. ReqOK(s) /\ pc'[s] = pc[s] /\ job'[s] = job[s] /\ snap'[s] = snap[s]
                 /\ ok'[s] = ok[s]
    BY <1>1 DEF TypeInv, Frame
  <2> QED
    BY <2>1 DEF ReqOK
<1> QED
  BY <1>1 DEF TypeInv

LEMMA TypeBegin ==
  ASSUME TypeInv, NEW r \in Requests, Begin(r)
  PROVE  TypeInv'
<1>0. PICK k \in Kinds, c \in Clients, i \in LeaseIds :
         /\ job' = [job EXCEPT ![r] = [kind |-> k, who |-> c, id |-> i]]
         /\ IF ~primary THEN Fail(r)
            ELSE /\ Goto(r, IF k \in AdminKinds THEN "idGet" ELSE "get")
                 /\ UNCHANGED ok
  BY DEF Begin
<1>a. k \in AllKinds
  BY ServiceAssumption DEF ServiceAssumption
<1>b. [kind |-> k, who |-> c, id |-> i] \in Jobs
  BY <1>a DEF Jobs
<1>1. TypeOK'
  BY <1>0, <1>b DEF TypeInv, TypeOK, Begin, Goto, Fail, storeVars, Labels
<1>2. ReqOK(r)'
  BY <1>0, <1>a, <1>b DEF TypeInv, TypeOK, ReqOK, Begin, Take, Goto, Fail, storeVars,
         AllocLabels, CopyLabels, SyncLabels, Jobs, ByClientKinds, AllocKinds, AdminKinds, TargetKinds, AllKinds
<1>3. Frame(r)
  BY DEF TypeInv, TypeOK, Frame, Begin, Take, Goto, Fail, storeVars, AllKinds
<1> QED
  BY <1>1, <1>2, <1>3, FrameInv

LEMMA TypeGetActiveHit ==
  ASSUME TypeInv, NEW r \in Requests, GetActiveHit(r)
  PROVE  TypeInv'
<1>1. TypeOK'
  BY DEF TypeInv, TypeOK, ReqOK, GetActiveHit, Take, Goto, Fail, storeVars,
         Labels, AllocLabels, CopyLabels, SyncLabels, Jobs, ByClientKinds, AllocKinds, AdminKinds, TargetKinds, Found
<1>2. ReqOK(r)'
  BY DEF TypeInv, TypeOK, ReqOK, GetActiveHit, Take, Goto, Fail, storeVars,
         AllocLabels, CopyLabels, SyncLabels, Jobs, ByClientKinds, AllocKinds, AdminKinds, TargetKinds, Found
<1>3. Frame(r)
  BY DEF TypeInv, TypeOK, Frame, GetActiveHit, Take, Goto, Fail, storeVars, Found
<1> QED
  BY <1>1, <1>2, <1>3, FrameInv

LEMMA TypeGetActiveRow ==
  ASSUME TypeInv, NEW r \in Requests, GetActiveRow(r)
  PROVE  TypeInv'
<1>1. TypeOK'
  BY DEF TypeInv, TypeOK, ReqOK, GetActiveRow, Take, Goto, Fail, storeVars,
         Labels, AllocLabels, CopyLabels, SyncLabels, Jobs, ByClientKinds, AllocKinds, AdminKinds, TargetKinds, Found, ActiveRowsOf, Present
<1>2. ReqOK(r)'
  BY DEF TypeInv, TypeOK, ReqOK, GetActiveRow, Take, Goto, Fail, storeVars,
         AllocLabels, CopyLabels, SyncLabels, Jobs, ByClientKinds, AllocKinds, AdminKinds, TargetKinds, Found, ActiveRowsOf, Present
<1>3. Frame(r)
  BY DEF TypeInv, TypeOK, Frame, GetActiveRow, Take, Goto, Fail, storeVars, Found, ActiveRowsOf, Present
<1> QED
  BY <1>1, <1>2, <1>3, FrameInv

LEMMA TypeGetActiveNone ==
  ASSUME TypeInv, NEW r \in Requests, GetActiveNone(r)
  PROVE  TypeInv'
<1>1. TypeOK'
  BY DEF TypeInv, TypeOK, ReqOK, GetActiveNone, Take, Goto, Fail, storeVars,
         Labels, AllocLabels, CopyLabels, SyncLabels, Jobs, ByClientKinds, AllocKinds, AdminKinds, TargetKinds, NextRelease
<1>2. ReqOK(r)'
  BY DEF TypeInv, TypeOK, ReqOK, GetActiveNone, Take, Goto, Fail, storeVars,
         AllocLabels, CopyLabels, SyncLabels, Jobs, ByClientKinds, AllocKinds, AdminKinds, TargetKinds, NextRelease
<1>3. Frame(r)
  BY DEF TypeInv, TypeOK, Frame, GetActiveNone, Take, Goto, Fail, storeVars, NextRelease
<1> QED
  BY <1>1, <1>2, <1>3, FrameInv

LEMMA TypeRefuseMark ==
  ASSUME TypeInv, NEW r \in Requests, RefuseMark(r)
  PROVE  TypeInv'
<1>1. TypeOK'
  BY DEF TypeInv, TypeOK, ReqOK, RefuseMark, Take, Goto, Fail, storeVars,
         Labels, AllocLabels, CopyLabels, SyncLabels, Jobs, ByClientKinds, AllocKinds, AdminKinds, TargetKinds
<1>2. ReqOK(r)'
  BY DEF TypeInv, TypeOK, ReqOK, RefuseMark, Take, Goto, Fail, storeVars,
         AllocLabels, CopyLabels, SyncLabels, Jobs, ByClientKinds, AllocKinds, AdminKinds, TargetKinds
<1>3. Frame(r)
  BY DEF TypeInv, TypeOK, Frame, RefuseMark, Take, Goto, Fail, storeVars
<1> QED
  BY <1>1, <1>2, <1>3, FrameInv

LEMMA TypeFillActive ==
  ASSUME TypeInv, NEW r \in Requests, FillActive(r)
  PROVE  TypeInv'
<1>1. TypeOK'
  BY DEF TypeInv, TypeOK, ReqOK, FillActive, Take, Goto, Fail, storeVars,
         Labels, AllocLabels, CopyLabels, SyncLabels, Jobs, ByClientKinds, AllocKinds, AdminKinds, TargetKinds, Found
<1>2. ReqOK(r)'
  BY DEF TypeInv, TypeOK, ReqOK, FillActive, Take, Goto, Fail, storeVars,
         AllocLabels, CopyLabels, SyncLabels, Jobs, ByClientKinds, AllocKinds, AdminKinds, TargetKinds, Found
<1>3. Frame(r)
  BY DEF TypeInv, TypeOK, Frame, FillActive, Take, Goto, Fail, storeVars, Found
<1> QED
  BY <1>1, <1>2, <1>3, FrameInv

LEMMA TypeRefuse ==
  ASSUME TypeInv, NEW r \in Requests, Refuse(r)
  PROVE  TypeInv'
<1>1. TypeOK'
  BY DEF TypeInv, TypeOK, ReqOK, Refuse, Take, Goto, Fail, storeVars,
         Labels, AllocLabels, CopyLabels, SyncLabels, Jobs, ByClientKinds, AllocKinds, AdminKinds, TargetKinds
<1>2. ReqOK(r)'
  BY DEF TypeInv, TypeOK, ReqOK, Refuse, Take, Goto, Fail, storeVars,
         AllocLabels, CopyLabels, SyncLabels, Jobs, ByClientKinds, AllocKinds, AdminKinds, TargetKinds
<1>3. Frame(r)
  BY DEF TypeInv, TypeOK, Frame, Refuse, Take, Goto, Fail, storeVars
<1> QED
  BY <1>1, <1>2, <1>3, FrameInv

LEMMA TypeAcquireLock ==
  ASSUME TypeInv, NEW r \in Requests, AcquireLock(r)
  PROVE  TypeInv'
<1>1. TypeOK'
  BY DEF TypeInv, TypeOK, ReqOK, AcquireLock, Take, Goto, Fail, storeVars,
         Labels, AllocLabels, CopyLabels, SyncLabels, Jobs, ByClientKinds, AllocKinds, AdminKinds, TargetKinds, LeaseIds
<1>2. ReqOK(r)'
  BY DEF TypeInv, TypeOK, ReqOK, AcquireLock, Take, Goto, Fail, storeVars,
         AllocLabels, CopyLabels, SyncLabels, Jobs, ByClientKinds, AllocKinds, AdminKinds, TargetKinds
<1>3. Frame(r)
  BY DEF TypeInv, TypeOK, Frame, AcquireLock, Take, Goto, Fail, storeVars
<1> QED
  BY <1>1, <1>2, <1>3, FrameInv

LEMMA TypePick ==
  ASSUME TypeInv, NEW r \in Requests, Pick(r)
  PROVE  TypeInv'
<1>0. PICK a \in Available(job[r].who) :
         Take(r, NewLease(<<r, att[r]>>, a, job[r].who, now))
  BY DEF Pick
<1>a. <<r, att[r]>> \in LeaseIds /\ a \in Addrs /\ job[r].who \in Clients /\ now \in Nat
  BY <1>0 DEF TypeInv, TypeOK, ReqOK, Pick, LeaseIds, Available, BoundAddrs, Jobs
<1>b. NewLease(<<r, att[r]>>, a, job[r].who, now) \in Leases
  BY <1>a, NewLeaseType
<1>1. TypeOK'
  BY <1>0, <1>b DEF TypeInv, TypeOK, Pick, Take, Goto, storeVars, Labels
<1>2. ReqOK(r)'
  BY <1>0, <1>b DEF TypeInv, TypeOK, ReqOK, Pick, Take, Goto, Fail, storeVars,
         AllocLabels, CopyLabels, SyncLabels, Jobs, ByClientKinds, AllocKinds, AdminKinds, TargetKinds
<1>3. Frame(r)
  BY DEF TypeInv, TypeOK, Frame, Pick, Take, Goto, Fail, storeVars
<1> QED
  BY <1>1, <1>2, <1>3, FrameInv

LEMMA TypePickNone ==
  ASSUME TypeInv, NEW r \in Requests, PickNone(r)
  PROVE  TypeInv'
<1>1. TypeOK'
  BY DEF TypeInv, TypeOK, ReqOK, PickNone, Take, Goto, Fail, storeVars,
         Labels, AllocLabels, CopyLabels, SyncLabels, Jobs, ByClientKinds, AllocKinds, AdminKinds, TargetKinds, ReclaimableRows, Present
<1>2. ReqOK(r)'
  BY DEF TypeInv, TypeOK, ReqOK, PickNone, Take, Goto, Fail, storeVars,
         AllocLabels, CopyLabels, SyncLabels, Jobs, ByClientKinds, AllocKinds, AdminKinds, TargetKinds, ReclaimableRows, Present
<1>3. Frame(r)
  BY DEF TypeInv, TypeOK, Frame, PickNone, Take, Goto, Fail, storeVars, ReclaimableRows, Present
<1> QED
  BY <1>1, <1>2, <1>3, FrameInv

LEMMA TypeCreate ==
  ASSUME TypeInv, NEW r \in Requests, Create(r)
  PROVE  TypeInv'
<1>a. snap[r] \in Leases /\ <<r, att[r]>> \in LeaseIds
  BY DEF TypeInv, TypeOK, ReqOK, Create, CopyLabels, LeaseIds
<1>b. rows \in Table /\ byId \in IdKeys /\ active \in Keys
  BY DEF TypeInv, TypeOK, Table, IdKeys, Keys
<1>c. /\ Inserted(rows, snap[r]) \in Table
      /\ EvictTenant(byId, snap[r]) \in IdKeys
  BY <1>a, <1>b, WriteTypes, CacheTypes
<1>d. [op |-> "create", lease |-> snap[r]] \in Tasks
  BY <1>a DEF Tasks
<1>1. TypeOK'
  BY <1>a, <1>b, <1>c, <1>d DEF TypeInv, TypeOK, Create, Goto, Fail, Labels,
         SyncLabels, Table, IdKeys
<1>2. ReqOK(r)'
  BY DEF TypeInv, TypeOK, ReqOK, Create, Take, Goto, Fail, storeVars,
         AllocLabels, CopyLabels, SyncLabels, Jobs, ByClientKinds, AllocKinds, AdminKinds, TargetKinds
<1>3. Frame(r)
  BY DEF TypeInv, TypeOK, Frame, Create, Take, Goto, Fail, storeVars
<1> QED
  BY <1>1, <1>2, <1>3, FrameInv

LEMMA TypeProbeQuiet ==
  ASSUME TypeInv, NEW r \in Requests, ProbeQuiet(r)
  PROVE  TypeInv'
<1>1. TypeOK'
  BY DEF TypeInv, TypeOK, ReqOK, ProbeQuiet, Take, Goto, Fail, storeVars,
         Labels, AllocLabels, CopyLabels, SyncLabels, Jobs, ByClientKinds, AllocKinds, AdminKinds, TargetKinds
<1>2. ReqOK(r)'
  BY DEF TypeInv, TypeOK, ReqOK, ProbeQuiet, Take, Goto, Fail, storeVars,
         AllocLabels, CopyLabels, SyncLabels, Jobs, ByClientKinds, AllocKinds, AdminKinds, TargetKinds
<1>3. Frame(r)
  BY DEF TypeInv, TypeOK, Frame, ProbeQuiet, Take, Goto, Fail, storeVars
<1> QED
  BY <1>1, <1>2, <1>3, FrameInv

LEMMA TypeUnlock ==
  ASSUME TypeInv, NEW r \in Requests, Unlock(r)
  PROVE  TypeInv'
<1>1. TypeOK'
  BY DEF TypeInv, TypeOK, ReqOK, Unlock, Take, Goto, Fail, storeVars,
         Labels, AllocLabels, CopyLabels, SyncLabels, Jobs, ByClientKinds, AllocKinds, AdminKinds, TargetKinds
<1>2. ReqOK(r)'
  BY DEF TypeInv, TypeOK, ReqOK, Unlock, Take, Goto, Fail, storeVars,
         AllocLabels, CopyLabels, SyncLabels, Jobs, ByClientKinds, AllocKinds, AdminKinds, TargetKinds
<1>3. Frame(r)
  BY DEF TypeInv, TypeOK, Frame, Unlock, Take, Goto, Fail, storeVars
<1> QED
  BY <1>1, <1>2, <1>3, FrameInv

LEMMA TypeReturn ==
  ASSUME TypeInv, NEW r \in Requests, Return(r)
  PROVE  TypeInv'
<1>1. TypeOK'
  BY StoreAssumption DEF TypeInv, TypeOK, ReqOK, Return, Take, Goto, Fail, storeVars,
         Labels, AllocLabels, CopyLabels, SyncLabels, Jobs, ByClientKinds, AllocKinds, AdminKinds, TargetKinds, StoreAssumption
<1>2. ReqOK(r)'
  BY StoreAssumption DEF TypeInv, TypeOK, ReqOK, Return, Take, Goto, Fail, storeVars,
         AllocLabels, CopyLabels, SyncLabels, Jobs, ByClientKinds, AllocKinds, AdminKinds, TargetKinds
<1>3. Frame(r)
  BY DEF TypeInv, TypeOK, Frame, Return, Take, Goto, Fail, storeVars
<1> QED
  BY <1>1, <1>2, <1>3, FrameInv

LEMMA TypeGetByIdHit ==
  ASSUME TypeInv, NEW r \in Requests, GetByIdHit(r)
  PROVE  TypeInv'
<1>a. TargetId(r) \in LeaseIds
  BY DEF TypeInv, ReqOK, GetByIdHit, TargetId, Jobs, Leases
<1>b. byId[KeyById(r, TargetId(r))] \in Leases
  <2>1. KeyById(r, TargetId(r)) \in CacheKeys
    BY <1>a DEF KeyById, CacheKeys, Tenants, NodeTenant
  <2> QED
    BY <2>1 DEF TypeInv, TypeOK, GetByIdHit
<1>1. TypeOK'
  BY <1>b DEF TypeInv, TypeOK, GetByIdHit, ByIdNext, Take, Goto, storeVars, Labels
<1>2. ReqOK(r)'
  BY <1>b DEF TypeInv, TypeOK, ReqOK, GetByIdHit, Take, Goto, Fail, storeVars,
         AllocLabels, CopyLabels, SyncLabels, Jobs, ByClientKinds, AllocKinds, AdminKinds, TargetKinds, ByIdNext
<1>3. Frame(r)
  BY DEF TypeInv, TypeOK, Frame, GetByIdHit, Take, Goto, Fail, storeVars, ByIdNext
<1> QED
  BY <1>1, <1>2, <1>3, FrameInv

LEMMA TypeGetByIdRow ==
  ASSUME TypeInv, NEW r \in Requests, GetByIdRow(r)
  PROVE  TypeInv'
<1>a. TargetId(r) \in LeaseIds
  BY DEF TypeInv, ReqOK, GetByIdRow, TargetId, Jobs, Leases
<1>b. rows[TargetId(r)] \in Leases
  BY <1>a DEF TypeInv, TypeOK, GetByIdRow
<1>1. TypeOK'
  BY <1>b DEF TypeInv, TypeOK, GetByIdRow, Take, Goto, storeVars, Labels
<1>2. ReqOK(r)'
  BY <1>b DEF TypeInv, TypeOK, ReqOK, GetByIdRow, Take, Goto, Fail, storeVars,
         AllocLabels, CopyLabels, SyncLabels, Jobs, ByClientKinds, AllocKinds, AdminKinds, TargetKinds
<1>3. Frame(r)
  BY DEF TypeInv, TypeOK, Frame, GetByIdRow, Take, Goto, Fail, storeVars
<1> QED
  BY <1>1, <1>2, <1>3, FrameInv

LEMMA TypeGetByIdFails ==
  ASSUME TypeInv, NEW r \in Requests, GetByIdFails(r)
  PROVE  TypeInv'
<1>1. TypeOK'
  BY DEF TypeInv, TypeOK, ReqOK, GetByIdFails, Take, Goto, Fail, storeVars,
         Labels, AllocLabels, CopyLabels, SyncLabels, Jobs, ByClientKinds, AllocKinds, AdminKinds, TargetKinds, TargetId
<1>2. ReqOK(r)'
  BY DEF TypeInv, TypeOK, ReqOK, GetByIdFails, Take, Goto, Fail, storeVars,
         AllocLabels, CopyLabels, SyncLabels, Jobs, ByClientKinds, AllocKinds, AdminKinds, TargetKinds, TargetId
<1>3. Frame(r)
  BY DEF TypeInv, TypeOK, Frame, GetByIdFails, Take, Goto, Fail, storeVars, TargetId
<1> QED
  BY <1>1, <1>2, <1>3, FrameInv

LEMMA TypeFillById ==
  ASSUME TypeInv, NEW r \in Requests, FillById(r)
  PROVE  TypeInv'
<1>1. TypeOK'
  BY DEF TypeInv, TypeOK, ReqOK, FillById, Take, Goto, Fail, storeVars,
         Labels, AllocLabels, CopyLabels, SyncLabels, Jobs, ByClientKinds, AllocKinds, AdminKinds, TargetKinds, ByIdNext
<1>2. ReqOK(r)'
  BY DEF TypeInv, TypeOK, ReqOK, FillById, Take, Goto, Fail, storeVars,
         AllocLabels, CopyLabels, SyncLabels, Jobs, ByClientKinds, AllocKinds, AdminKinds, TargetKinds, ByIdNext
<1>3. Frame(r)
  BY DEF TypeInv, TypeOK, Frame, FillById, Take, Goto, Fail, storeVars, ByIdNext
<1> QED
  BY <1>1, <1>2, <1>3, FrameInv

LEMMA TypeConfirmFails ==
  ASSUME TypeInv, NEW r \in Requests, ConfirmFails(r)
  PROVE  TypeInv'
<1>a. snap[r] \in Leases
  BY DEF TypeInv, ReqOK, ConfirmFails, CopyLabels
<1>b. SyncActive(active, snap[r]) \in Keys /\ EvictTenant(byId, snap[r]) \in IdKeys
  BY <1>a, CacheTypes DEF TypeInv, TypeOK, Table, IdKeys, Keys
<1>1. TypeOK'
  BY <1>b DEF TypeInv, TypeOK, ConfirmFails, SyncCaches, Goto, Fail, Labels, Table, IdKeys, Keys
<1>2. ReqOK(r)'
  BY DEF TypeInv, TypeOK, ReqOK, ConfirmFails, Take, Goto, Fail, storeVars,
         AllocLabels, CopyLabels, SyncLabels, Jobs, ByClientKinds, AllocKinds, AdminKinds, TargetKinds, SyncCaches
<1>3. Frame(r)
  BY DEF TypeInv, TypeOK, Frame, ConfirmFails, Take, Goto, Fail, storeVars, SyncCaches
<1> QED
  BY <1>1, <1>2, <1>3, FrameInv

LEMMA TypeSyncDone ==
  ASSUME TypeInv, NEW r \in Requests, SyncDone(r)
  PROVE  TypeInv'
<1>a. snap[r] \in Leases
  BY DEF TypeInv, ReqOK, SyncDone, CopyLabels
<1>b. SyncActive(active, snap[r]) \in Keys /\ EvictTenant(byId, snap[r]) \in IdKeys
  BY <1>a, CacheTypes DEF TypeInv, TypeOK, Table, IdKeys, Keys
<1>c. att' \in [Requests -> 1..MaxAttempts]
  <2>1. att[r] \in 1..MaxAttempts /\ MaxAttempts \in Nat
    BY StoreAssumption DEF StoreAssumption, TypeInv, TypeOK
  <2>2. att[r] < MaxAttempts => att[r] + 1 \in 1..MaxAttempts
    BY <2>1
  <2>3. \/ att' = att
        \/ att[r] < MaxAttempts /\ att' = [att EXCEPT ![r] = att[r] + 1]
    BY DEF SyncDone, NextAttempt
  <2> QED
    BY <2>2, <2>3 DEF TypeInv, TypeOK
<1>d. job' \in [Requests -> Jobs \cup {NoLease}]
  BY DEF TypeInv, TypeOK, ReqOK, SyncDone, NextRelease, Jobs
<1>1. TypeOK'
  BY <1>b, <1>c, <1>d DEF TypeInv, TypeOK, SyncDone, SyncCaches, NextAttempt,
         NextRelease, Goto, Fail, Labels, Table, IdKeys, Keys
<1>2. ReqOK(r)'
  BY DEF TypeInv, TypeOK, ReqOK, SyncDone, Take, Goto, Fail, storeVars,
         AllocLabels, CopyLabels, SyncLabels, Jobs, ByClientKinds, AllocKinds, AdminKinds, TargetKinds, SyncCaches, NextAttempt, NextRelease
<1>3. Frame(r)
  BY DEF TypeInv, TypeOK, Frame, SyncDone, Take, Goto, Fail, storeVars, SyncCaches, NextAttempt, NextRelease
<1> QED
  BY <1>1, <1>2, <1>3, FrameInv

(* The steps that call UpdateLease. *)

LEMMA UpdateLeaseTypes ==
  ASSUME TypeInv, NEW r \in Requests, NEW l \in Leases, NEW x \in Labels,
         UpdateLease(r, l, x)
  PROVE  /\ rows' \in Table /\ byId' \in IdKeys /\ revived' \subseteq LeaseIds
         /\ pc' \in [Requests -> Labels]
         /\ snap' \in [Requests -> Leases \cup {NoLease}]
         /\ ok' \in [Requests -> BOOLEAN]
         /\ snap'[r] = l
         /\ \/ pc'[r] = x /\ ok'[r] = ok[r]
            \/ pc'[r] = "unlock" /\ ok'[r] = FALSE
         /\ \A s \in Requests : s # r =>
              pc'[s] = pc[s] /\ snap'[s] = snap[s] /\ ok'[s] = ok[s]
<1>1. rows \in Table /\ byId \in IdKeys /\ active \in Keys /\ l.id \in LeaseIds
  BY DEF TypeInv, TypeOK, Table, IdKeys, Keys, Leases
<1>2. Updated(rows, l) \in Table /\ EvictTenant(byId, l) \in IdKeys
  BY <1>1, WriteTypes, CacheTypes
<1>3. Revive(l) \subseteq LeaseIds
  BY <1>1 DEF Revive, TypeInv, TypeOK
<1>4. "unlock" \in Labels
  BY DEF Labels
<1> QED
  BY <1>1, <1>2, <1>3, <1>4 DEF UpdateLease, Take, Goto, Fail, TypeInv, TypeOK

LEMMA TypeRenew ==
  ASSUME TypeInv, NEW r \in Requests, Renew(r)
  PROVE  TypeInv'
<1>0. PICK f \in SessionStates(snap[r]) :
         LET l == Renewed(snap[r], f, now) IN
         IF Async
         THEN /\ bg' = [bg EXCEPT ![<<r, att[r]>>] = [op |-> "update", lease |-> l]]
              /\ Take(r, l) /\ Goto(r, "probe")
              /\ UNCHANGED <<rows, byId, revived, ok>>
         ELSE UpdateLease(r, l, "renewSync") /\ UNCHANGED bg
  BY DEF Renew
<1> DEFINE l == Renewed(snap[r], f, now)
<1>a. snap[r] \in Leases /\ now \in Nat /\ <<r, att[r]>> \in LeaseIds /\ job[r].who \in Clients
  BY DEF TypeInv, TypeOK, ReqOK, Renew, CopyLabels, LeaseIds, Jobs
<1>b. f \in FSMStates \cup {"none"}
  BY <1>0, <1>a DEF SessionStates, Leases
<1>c. l \in Leases
  BY <1>a, <1>b, TransformTypes
<1>d. job[r].kind \in AllocKinds /\ job[r] \in Jobs
  BY DEF TypeInv, ReqOK, Renew, AllocLabels
<1>e. UNCHANGED <<active, lock, primary, now, att, job, batch, rec>>
  BY DEF Renew
<1> HIDE DEF l
<1>1. CASE Async
  <2>1. /\ bg' = [bg EXCEPT ![<<r, att[r]>>] = [op |-> "update", lease |-> l]]
        /\ Take(r, l) /\ Goto(r, "probe") /\ UNCHANGED <<rows, byId, revived, ok>>
    BY <1>0, <1>1 DEF l
  <2>2. [op |-> "update", lease |-> l] \in Tasks
    BY <1>c DEF Tasks
  <2>3. TypeOK'
    BY <1>a, <1>c, <1>e, <2>1, <2>2 DEF TypeInv, TypeOK, Take, Goto, Labels
  <2>4. ReqOK(r)'
    BY <1>c, <1>d, <1>e, <2>1 DEF TypeInv, TypeOK, ReqOK, Take, Goto,
           AllocLabels, CopyLabels, SyncLabels
  <2>5. Frame(r)
    BY <1>e, <2>1 DEF TypeInv, TypeOK, Frame, Take, Goto
  <2> QED
    BY <2>3, <2>4, <2>5, FrameInv
<1>2. CASE ~Async
  <2>1. UpdateLease(r, l, "renewSync") /\ UNCHANGED bg
    BY <1>0, <1>2 DEF l
  <2>2. "renewSync" \in Labels
    BY DEF Labels, SyncLabels
  <2>3. TypeOK'
    BY <1>c, <1>e, <2>1, <2>2, UpdateLeaseTypes DEF TypeInv, TypeOK, Table, IdKeys
  <2>4. ReqOK(r)'
    <3>1. /\ snap'[r] = l /\ job'[r] = job[r]
          /\ \/ pc'[r] = "renewSync"
             \/ pc'[r] = "unlock" /\ ok'[r] = FALSE
      BY <1>c, <1>e, <2>1, <2>2, UpdateLeaseTypes
    <3>2. snap'[r] \in Leases /\ job'[r] \in Jobs
      BY <1>c, <1>d, <3>1
    <3> QED
      BY <1>d, <3>1, <3>2 DEF ReqOK, AllocLabels, CopyLabels, SyncLabels
  <2>5. Frame(r)
    BY <1>c, <1>e, <2>1, <2>2, UpdateLeaseTypes DEF Frame
  <2> QED
    BY <2>3, <2>4, <2>5, FrameInv
<1> QED
  BY <1>1, <1>2

LEMMA TypeReclaim ==
  ASSUME TypeInv, NEW r \in Requests, Reclaim(r)
  PROVE  TypeInv'
<1>0. PICK f \in SessionStates(snap[r]) :
         UpdateLease(r, Reclaimed(snap[r], job[r].who, f, now), "reclaimSync")
  BY DEF Reclaim
<1> DEFINE l == Reclaimed(snap[r], job[r].who, f, now)
<1>a. snap[r] \in Leases /\ now \in Nat /\ job[r].who \in Clients
  BY DEF TypeInv, TypeOK, ReqOK, Reclaim, CopyLabels, Jobs
<1>b. l \in Leases
  BY <1>0, <1>a, TransformTypes DEF SessionStates, Leases
<1>c. job[r].kind \in AllocKinds /\ job[r] \in Jobs
  BY DEF TypeInv, ReqOK, Reclaim, AllocLabels
<1>d. UNCHANGED <<active, lock, primary, now, att, job, bg, batch, rec>>
  BY DEF Reclaim
<1>1. UpdateLease(r, l, "reclaimSync")
  BY <1>0
<1>2. "reclaimSync" \in Labels
  BY DEF Labels, SyncLabels
<1> HIDE DEF l
<1>3. TypeOK'
  BY <1>b, <1>d, <1>1, <1>2, UpdateLeaseTypes DEF TypeInv, TypeOK, Table, IdKeys
<1>4. ReqOK(r)'
  <2>1. /\ snap'[r] = l /\ job'[r] = job[r]
        /\ \/ pc'[r] = "reclaimSync"
           \/ pc'[r] = "unlock" /\ ok'[r] = FALSE
    BY <1>b, <1>d, <1>1, <1>2, UpdateLeaseTypes
  <2>2. snap'[r] \in Leases /\ job'[r] \in Jobs
    BY <1>b, <1>c, <2>1
  <2> QED
    BY <1>c, <2>1, <2>2 DEF ReqOK, AllocLabels, CopyLabels, SyncLabels
<1>5. Frame(r)
  BY <1>b, <1>d, <1>1, <1>2, UpdateLeaseTypes DEF Frame
<1> QED
  BY <1>3, <1>4, <1>5, FrameInv

LEMMA TypeProbeAlive ==
  ASSUME TypeInv, NEW r \in Requests, ProbeAlive(r)
  PROVE  TypeInv'
<1> DEFINE l == Held(snap[r], now)
<1>a. snap[r] \in Leases /\ now \in Nat /\ job[r].who \in Clients
  BY DEF TypeInv, TypeOK, ReqOK, ProbeAlive, CopyLabels, Jobs
<1>b. l \in Leases
  BY <1>a, TransformTypes DEF FSMStates
<1>c. job[r].kind \in AllocKinds /\ job[r] \in Jobs
  BY DEF TypeInv, ReqOK, ProbeAlive, AllocLabels
<1>d. UNCHANGED <<active, lock, primary, now, att, job, bg, batch, rec>>
  BY DEF ProbeAlive
<1>1. UpdateLease(r, l, "holdSync")
  BY DEF ProbeAlive
<1>2. "holdSync" \in Labels
  BY DEF Labels, SyncLabels
<1> HIDE DEF l
<1>3. TypeOK'
  BY <1>b, <1>d, <1>1, <1>2, UpdateLeaseTypes DEF TypeInv, TypeOK, Table, IdKeys
<1>4. ReqOK(r)'
  <2>1. /\ snap'[r] = l /\ job'[r] = job[r]
        /\ \/ pc'[r] = "holdSync"
           \/ pc'[r] = "unlock" /\ ok'[r] = FALSE
    BY <1>b, <1>d, <1>1, <1>2, UpdateLeaseTypes
  <2>2. snap'[r] \in Leases /\ job'[r] \in Jobs
    BY <1>b, <1>c, <2>1
  <2> QED
    BY <1>c, <2>1, <2>2 DEF ReqOK, AllocLabels, CopyLabels, SyncLabels
<1>5. Frame(r)
  BY <1>b, <1>d, <1>1, <1>2, UpdateLeaseTypes DEF Frame
<1> QED
  BY <1>3, <1>4, <1>5, FrameInv

LEMMA TypeUpdateFSM ==
  ASSUME TypeInv, NEW r \in Requests, UpdateFSM(r)
  PROVE  TypeInv'
<1> DEFINE g == Target[job[r].kind]
<1> DEFINE l == TransitionLease(snap[r], g, now)
<1>a. snap[r] \in Leases /\ now \in Nat
  BY DEF TypeInv, TypeOK, ReqOK, UpdateFSM, CopyLabels
<1>c. job[r].kind \in TargetKinds /\ job[r] \in Jobs
  BY DEF TypeInv, ReqOK, UpdateFSM
<1>b. l \in Leases
  <2>1. g \in FSMStates
    BY <1>c DEF Target, TargetKinds, FSMStates
  <2> QED
    BY <1>a, <2>1, TransitionType
<1>d. UNCHANGED <<active, lock, primary, now, att, job, bg, batch, rec>>
  BY DEF UpdateFSM
<1>1. CASE UpdateLease(r, l, "fsmSync")
  <2>1. UpdateLease(r, l, "fsmSync")
    BY <1>1
  <2>2. "fsmSync" \in Labels
    BY DEF Labels, SyncLabels
  <2> HIDE DEF l
  <2>3. TypeOK'
    BY <1>b, <1>d, <2>1, <2>2, UpdateLeaseTypes DEF TypeInv, TypeOK, Table, IdKeys
  <2>4. ReqOK(r)'
    <3>1. /\ snap'[r] = l /\ job'[r] = job[r]
          /\ \/ pc'[r] = "fsmSync"
             \/ pc'[r] = "unlock" /\ ok'[r] = FALSE
      BY <1>b, <1>d, <2>1, <2>2, UpdateLeaseTypes
    <3>2. snap'[r] \in Leases /\ job'[r] \in Jobs
      BY <1>b, <1>c, <3>1
    <3> QED
      BY <1>c, <3>1, <3>2 DEF ReqOK, AllocLabels, CopyLabels, SyncLabels
  <2>5. Frame(r)
    BY <1>b, <1>d, <2>1, <2>2, UpdateLeaseTypes DEF Frame
  <2> QED
    BY <2>3, <2>4, <2>5, FrameInv
<1>2. CASE \/ Fail(r) /\ UNCHANGED <<rows, byId, revived, snap>>
           \/ Goto(r, "return") /\ UNCHANGED <<rows, byId, revived, snap, ok>>
  <2>1. TypeOK'
    BY <1>d, <1>2 DEF TypeInv, TypeOK, Fail, Goto, Labels
  <2>2. ReqOK(r)'
    BY <1>c, <1>d, <1>2 DEF TypeInv, TypeOK, ReqOK, Fail, Goto, AllocLabels,
           CopyLabels, SyncLabels
  <2>3. Frame(r)
    BY <1>d, <1>2 DEF TypeInv, TypeOK, Frame, Fail, Goto
  <2> QED
    BY <2>1, <2>2, <2>3, FrameInv
<1> QED
  BY <1>1, <1>2 DEF UpdateFSM

LEMMA TypeReleaseActive ==
  ASSUME TypeInv, NEW r \in Requests, ReleaseActive(r)
  PROVE  TypeInv'
<1> DEFINE l == TransitionLease(snap[r], "Released", now)
<1>a. snap[r] \in Leases /\ now \in Nat
  BY DEF TypeInv, TypeOK, ReqOK, ReleaseActive, CopyLabels
<1>c. job[r].kind \in {"release", "markReleased"} /\ job[r] \in Jobs
  BY DEF TypeInv, ReqOK, ReleaseActive
<1>b. l \in Leases
  BY <1>a, TransitionType DEF FSMStates
<1>d. UNCHANGED <<active, lock, primary, now, att, bg, batch, rec>>
  BY DEF ReleaseActive
<1>1. CASE UpdateLease(r, l, "releaseSync") /\ UNCHANGED job
  <2>1. UpdateLease(r, l, "releaseSync") /\ UNCHANGED job
    BY <1>1
  <2>2. "releaseSync" \in Labels
    BY DEF Labels, SyncLabels
  <2> HIDE DEF l
  <2>3. TypeOK'
    BY <1>b, <1>d, <2>1, <2>2, UpdateLeaseTypes DEF TypeInv, TypeOK, Table, IdKeys
  <2>4. ReqOK(r)'
    <3>1. /\ snap'[r] = l /\ job'[r] = job[r]
          /\ \/ pc'[r] = "releaseSync"
             \/ pc'[r] = "unlock" /\ ok'[r] = FALSE
      BY <1>b, <1>d, <2>1, <2>2, UpdateLeaseTypes
    <3>2. snap'[r] \in Leases /\ job'[r] \in Jobs
      BY <1>b, <1>c, <3>1
    <3> QED
      BY <1>c, <3>1, <3>2 DEF ReqOK, AllocLabels, CopyLabels, SyncLabels
  <2>5. Frame(r)
    BY <1>b, <1>d, <2>1, <2>2, UpdateLeaseTypes DEF Frame
  <2> QED
    BY <2>3, <2>4, <2>5, FrameInv
<1>2. CASE \/ Fail(r) /\ UNCHANGED <<rows, byId, revived, job, snap>>
           \/ NextRelease(r) /\ UNCHANGED <<rows, byId, revived, snap, ok>>
  <2>0. job' \in [Requests -> Jobs \cup {NoLease}]
    BY <1>c, <1>2 DEF TypeInv, TypeOK, NextRelease, Jobs
  <2>1. TypeOK'
    BY <1>d, <1>2, <2>0 DEF TypeInv, TypeOK, Fail, Goto, NextRelease, Labels
  <2>2. ReqOK(r)'
    BY <1>c, <1>d, <1>2 DEF TypeInv, TypeOK, ReqOK, Fail, Goto, NextRelease,
           AllocLabels, CopyLabels, SyncLabels, Jobs, ByClientKinds
  <2>3. Frame(r)
    BY <1>d, <1>2 DEF TypeInv, TypeOK, Frame, Fail, Goto, NextRelease
  <2> QED
    BY <2>1, <2>2, <2>3, FrameInv
<1> QED
  BY <1>1, <1>2 DEF ReleaseActive

LEMMA TypeAdminUpdate ==
  ASSUME TypeInv, NEW r \in Requests, AdminUpdate(r)
  PROVE  TypeInv'
<1> DEFINE l == AdminWrites(job[r].kind, snap[r], now)
<1>a. snap[r] \in Leases /\ now \in Nat
  BY DEF TypeInv, TypeOK, ReqOK, AdminUpdate, CopyLabels
<1>c. job[r].kind \in AdminKinds /\ job[r] \in Jobs /\ job[r].who \in Clients
  BY DEF TypeInv, ReqOK, AdminUpdate, Jobs
<1>b. l \in Leases
  BY <1>a, <1>c, AdminType
<1>d. UNCHANGED <<active, lock, primary, now, att, job, bg, batch, rec>>
  BY DEF AdminUpdate
<1>1. CASE UpdateLease(r, l, "adminSync")
  <2>1. UpdateLease(r, l, "adminSync")
    BY <1>1
  <2>2. "adminSync" \in Labels
    BY DEF Labels, SyncLabels
  <2> HIDE DEF l
  <2>3. TypeOK'
    BY <1>b, <1>d, <2>1, <2>2, UpdateLeaseTypes DEF TypeInv, TypeOK, Table, IdKeys
  <2>4. ReqOK(r)'
    <3>1. /\ snap'[r] = l /\ job'[r] = job[r]
          /\ \/ pc'[r] = "adminSync"
             \/ pc'[r] = "unlock" /\ ok'[r] = FALSE
      BY <1>b, <1>d, <2>1, <2>2, UpdateLeaseTypes
    <3>2. snap'[r] \in Leases /\ job'[r] \in Jobs
      BY <1>b, <1>c, <3>1
    <3> QED
      BY <1>c, <3>1, <3>2 DEF ReqOK, AllocLabels, CopyLabels, SyncLabels
  <2>5. Frame(r)
    BY <1>b, <1>d, <2>1, <2>2, UpdateLeaseTypes DEF Frame
  <2> QED
    BY <2>3, <2>4, <2>5, FrameInv
<1>2. CASE Goto(r, "return") /\ UNCHANGED <<rows, byId, revived, snap, ok>>
  <2>1. TypeOK'
    BY <1>d, <1>2 DEF TypeInv, TypeOK, Goto, Labels
  <2>2. ReqOK(r)'
    BY <1>c, <1>d, <1>2 DEF TypeInv, TypeOK, ReqOK, Goto, AllocLabels,
           CopyLabels, SyncLabels
  <2>3. Frame(r)
    BY <1>d, <1>2 DEF TypeInv, TypeOK, Frame, Goto
  <2> QED
    BY <2>1, <2>2, <2>3, FrameInv
<1> QED
  BY <1>1, <1>2 DEF AdminUpdate

(* Steps that leave the requests alone. *)

LEMMA Background ==
  ASSUME TypeInv, UNCHANGED reqVars, TypeOK'
  PROVE  TypeInv'
<1>1. ASSUME NEW s \in Requests PROVE ReqOK(s)'
  <2>1. ReqOK(s) /\ UNCHANGED <<pc, job, snap, ok>>
    BY DEF TypeInv, reqVars
  <2> QED
    BY <2>1 DEF ReqOK
<1> QED
  BY <1>1 DEF TypeInv

LEMMA TypeAsyncWrite ==
  ASSUME TypeInv, NEW i \in LeaseIds, AsyncWrite(i)
  PROVE  TypeInv'
<1> DEFINE l == bg[i].lease
<1>1. l \in Leases /\ bg[i] \in Tasks
  BY DEF TypeInv, TypeOK, AsyncWrite, Tasks
<1>2. /\ Updated(rows, l) \in Table /\ Inserted(rows, l) \in Table
      /\ EvictTenant(byId, l) \in IdKeys
  BY <1>1, WriteTypes, CacheTypes DEF TypeInv, TypeOK, Table, IdKeys, Keys
<1>3. Revive(l) \subseteq LeaseIds
  BY <1>1 DEF Revive, TypeInv, TypeOK, Leases
<1>4. [op |-> "sync", lease |-> l] \in Tasks
  BY <1>1 DEF Tasks
<1>5. /\ rows' \in Table /\ byId' \in IdKeys /\ revived' \subseteq LeaseIds
      /\ bg' \in [LeaseIds -> Tasks \cup {NoLease}]
  BY <1>1, <1>2, <1>3, <1>4 DEF AsyncWrite, TypeInv, TypeOK, Table, IdKeys
<1>6. TypeOK'
  BY <1>5 DEF AsyncWrite, TypeInv, TypeOK, reqVars, Table, IdKeys
<1> QED
  BY <1>6, Background DEF AsyncWrite

LEMMA TypeAsyncSync ==
  ASSUME TypeInv, NEW i \in LeaseIds, AsyncSync(i)
  PROVE  TypeInv'
<1>1. bg[i].lease \in Leases
  BY DEF TypeInv, TypeOK, AsyncSync, Tasks
<1>2. active' \in Keys /\ byId' \in IdKeys
  BY <1>1, CacheTypes DEF AsyncSync, TypeInv, TypeOK, Table, IdKeys, Keys
<1>3. TypeOK'
  BY <1>2 DEF AsyncSync, TypeInv, TypeOK, reqVars, Table, IdKeys, Keys
<1> QED
  BY <1>3, Background DEF AsyncSync

LEMMA TypeReclaimer ==
  ASSUME TypeInv, ReclaimList \/ ReclaimWrite \/ ReclaimSync
  PROVE  TypeInv'
<1>1. CASE ReclaimList
  <2>1. PICK s \in ExpiredBatches(rows, now - Grace, BatchSize) : batch' = {rows[i] : i \in s}
    BY <1>1 DEF ReclaimList
  <2>2. s \subseteq Present(rows)
    BY <2>1 DEF ExpiredBatches, ExpiredRows
  <2>3. batch' \subseteq Leases
    BY <2>1, <2>2 DEF Present, TypeInv, TypeOK
  <2>4. TypeOK'
    BY <1>1, <2>3 DEF ReclaimList, TypeInv, TypeOK, storeVars, reqVars
  <2> QED
    BY <1>1, <2>4, Background DEF ReclaimList
<1>2. CASE ReclaimWrite
  <2>1. PICK l \in batch :
          /\ batch' = batch \ {l}
          /\ \/ rows' = Updated(rows, Released(l, now)) /\ rec' = Released(l, now)
             \/ UNCHANGED <<rows, rec>>
    BY <1>2 DEF ReclaimWrite
  <2>2. l \in Leases /\ now \in Nat /\ l.hw \in Clients
    BY <2>1 DEF TypeInv, TypeOK, Leases
  <2>3. Released(l, now) \in Leases
    BY <2>2, TransformTypes DEF FSMStates
  <2>4. Updated(rows, Released(l, now)) \in Table
    BY <2>3, WriteTypes DEF TypeInv, TypeOK, Table, IdKeys
  <2>5. TypeOK'
    BY <1>2, <2>1, <2>3, <2>4 DEF ReclaimWrite, TypeInv, TypeOK, reqVars, Table, IdKeys
  <2> QED
    BY <1>2, <2>5, Background DEF ReclaimWrite
<1>3. CASE ReclaimSync
  <2>1. active' \in Keys
    BY <1>3, CacheTypes DEF ReclaimSync, TypeInv, TypeOK, Table, IdKeys, Keys
  <2>2. TypeOK'
    BY <1>3, <2>1 DEF ReclaimSync, TypeInv, TypeOK, reqVars, Keys
  <2> QED
    BY <1>3, <2>2, Background DEF ReclaimSync
<1> QED
  BY <1>1, <1>2, <1>3

LEMMA TypeEnvironment ==
  ASSUME TypeInv,
         (\E c \in Clients : CacheDrop(c)) \/ LockExpire \/ RoleChange \/ Tick
           \/ Terminated \/ UNCHANGED vars
  PROVE  TypeInv'
<1>1. UNCHANGED reqVars
  BY DEF CacheDrop, LockExpire, RoleChange, Tick, Terminated, vars
<1>2. ASSUME NEW c \in Clients, CacheDrop(c) PROVE TypeOK'
  BY <1>2 DEF TypeInv, TypeOK, CacheDrop, reqVars
<1>3. ASSUME LockExpire \/ RoleChange PROVE TypeOK'
  BY <1>3 DEF TypeInv, TypeOK, LockExpire, RoleChange, storeVars, reqVars
<1>4. ASSUME Tick PROVE TypeOK'
  <2>1. active' \in Keys
    BY <1>4 DEF TypeInv, TypeOK, Tick, ActiveAt, Keys
  <2>2. now' \in Nat
    BY <1>4 DEF TypeInv, TypeOK, Tick
  <2> QED
    BY <1>4, <2>1, <2>2 DEF TypeInv, TypeOK, Tick, reqVars, Keys
<1>5. ASSUME Terminated \/ UNCHANGED vars PROVE TypeOK'
  BY <1>5 DEF TypeInv, TypeOK, Terminated, vars, storeVars, reqVars
<1>6. TypeOK'
  BY <1>2, <1>3, <1>4, <1>5
<1> QED
  BY <1>1, <1>6, Background

\* The inductive invariant behind TypeOK.
LEMMA TypeInvariant == Spec => []TypeInv
<1>1. Init => TypeInv
  BY StoreAssumption DEF StoreAssumption, Init, TypeInv, TypeOK, ReqOK, Labels,
         AllocLabels, CopyLabels, SyncLabels
<1>2. TypeInv /\ [Next]_vars => TypeInv'
  <2> SUFFICES ASSUME TypeInv, [Next]_vars PROVE TypeInv'
    OBVIOUS
  <2>1. ASSUME NEW r \in Requests, Begin(r) \/ Refuse(r) \/ Progress(r)
        PROVE  TypeInv'
    BY <2>1, TypeBegin, TypeRefuse, TypeGetActiveHit, TypeGetActiveRow,
       TypeGetActiveNone, TypeRefuseMark, TypeFillActive, TypeRenew,
       TypeAcquireLock, TypePick, TypePickNone, TypeCreate, TypeReclaim,
       TypeProbeQuiet, TypeProbeAlive, TypeUnlock, TypeGetByIdHit,
       TypeGetByIdRow, TypeGetByIdFails, TypeFillById, TypeUpdateFSM,
       TypeReleaseActive, TypeAdminUpdate, TypeConfirmFails, TypeSyncDone,
       TypeReturn DEF Progress
  <2>2. ASSUME NEW i \in LeaseIds, AsyncWrite(i) \/ AsyncSync(i)
        PROVE  TypeInv'
    BY <2>2, TypeAsyncWrite, TypeAsyncSync
  <2> QED
    BY <2>1, <2>2, TypeReclaimer, TypeEnvironment DEF Next
<1> QED
  BY <1>1, <1>2, PTL DEF Spec

\* TypeOK holds in every reachable state, for all values of the constants:
\* no interleaving makes the service write or cache anything but a lease.
THEOREM TypeCorrect == Spec => []TypeOK
<1>1. TypeInv => TypeOK
  BY DEF TypeInv
<1> QED
  BY <1>1, TypeInvariant, PTL


-----------------------------------------------------------------------------
(* The pool lock.                                                          *)

\* Whoever is between acquirePoolLock and the write of the row holds the key.
LockInv == \A r \in Requests : pc[r] \in Section => lock = <<r, att[r]>>

\* Only the request r moves.
Others(r) ==
  \A s \in Requests : s # r =>
    pc'[s] = pc[s] /\ att'[s] = att[s] /\ snap'[s] = snap[s]

\* A step that leaves the lock alone enters the section from inside only.
KeepsLock(r) ==
  /\ lock' = lock
  /\ pc'[r] \in Section => pc[r] \in Section /\ att'[r] = att[r]

\* Every step of a request but AcquireLock and Unlock.
LEMMA LockKept ==
  ASSUME TypeInv, NEW r \in Requests,
         \/ Begin(r) \/ Refuse(r) \/ GetActiveHit(r) \/ GetActiveRow(r)
         \/ GetActiveNone(r) \/ RefuseMark(r) \/ FillActive(r) \/ Renew(r)
         \/ Pick(r) \/ PickNone(r) \/ Create(r) \/ Reclaim(r) \/ ProbeQuiet(r)
         \/ ProbeAlive(r) \/ GetByIdHit(r) \/ GetByIdRow(r) \/ GetByIdFails(r)
         \/ FillById(r) \/ UpdateFSM(r) \/ ReleaseActive(r) \/ AdminUpdate(r)
         \/ ConfirmFails(r) \/ SyncDone(r) \/ Return(r)
  PROVE  KeepsLock(r) /\ Others(r)
<1> USE DEF KeepsLock, Others, Section
<1>t. /\ pc \in [Requests -> Labels] /\ att \in [Requests -> 1..MaxAttempts]
      /\ snap \in [Requests -> Leases \cup {NoLease}]
  BY DEF TypeInv, TypeOK
<1>1. CASE Begin(r)
  BY <1>t, <1>1 DEF Begin, Goto, Take, Fail
<1>2. CASE Refuse(r)
  BY <1>t, <1>2 DEF Refuse, Goto, Take, Fail
<1>3. CASE GetActiveHit(r)
  BY <1>t, <1>3 DEF GetActiveHit, Goto, Take, Fail, Found
<1>4. CASE GetActiveRow(r)
  BY <1>t, <1>4 DEF GetActiveRow, Goto, Take, Fail, Found
<1>5. CASE GetActiveNone(r)
  BY <1>t, <1>5 DEF GetActiveNone, Goto, Take, Fail, NextRelease
<1>6. CASE RefuseMark(r)
  BY <1>t, <1>6 DEF RefuseMark, Goto, Take, Fail
<1>7. CASE FillActive(r)
  BY <1>t, <1>7 DEF FillActive, Goto, Take, Fail, Found
<1>8. CASE Renew(r)
  BY <1>t, <1>8 DEF Renew, Goto, Take, Fail, UpdateLease
<1>9. CASE Pick(r)
  BY <1>t, <1>9 DEF Pick, Goto, Take, Fail
<1>10. CASE PickNone(r)
  BY <1>t, <1>10 DEF PickNone, Goto, Take, Fail
<1>11. CASE Create(r)
  BY <1>t, <1>11 DEF Create, Goto, Take, Fail
<1>12. CASE Reclaim(r)
  BY <1>t, <1>12 DEF Reclaim, Goto, Take, Fail, UpdateLease
<1>13. CASE ProbeQuiet(r)
  BY <1>t, <1>13 DEF ProbeQuiet, Goto, Take, Fail
<1>14. CASE ProbeAlive(r)
  BY <1>t, <1>14 DEF ProbeAlive, Goto, Take, Fail, UpdateLease
<1>15. CASE GetByIdHit(r)
  BY <1>t, <1>15 DEF GetByIdHit, Goto, Take, Fail, ByIdNext
<1>16. CASE GetByIdRow(r)
  BY <1>t, <1>16 DEF GetByIdRow, Goto, Take, Fail
<1>17. CASE GetByIdFails(r)
  BY <1>t, <1>17 DEF GetByIdFails, Goto, Take, Fail
<1>18. CASE FillById(r)
  BY <1>t, <1>18 DEF FillById, Goto, Take, Fail, ByIdNext
<1>19. CASE UpdateFSM(r)
  BY <1>t, <1>19 DEF UpdateFSM, Goto, Take, Fail, UpdateLease
<1>20. CASE ReleaseActive(r)
  BY <1>t, <1>20 DEF ReleaseActive, Goto, Take, Fail, UpdateLease, NextRelease
<1>21. CASE AdminUpdate(r)
  BY <1>t, <1>21 DEF AdminUpdate, Goto, Take, Fail, UpdateLease
<1>22. CASE ConfirmFails(r)
  BY <1>t, <1>22 DEF ConfirmFails, Goto, Take, Fail, SyncCaches, SyncLabels
<1>23. CASE SyncDone(r)
  BY <1>t, <1>23 DEF SyncDone, Goto, Take, Fail, SyncCaches, SyncLabels, NextAttempt, NextRelease
<1>24. CASE Return(r)
  BY <1>t, <1>24 DEF Return, Goto, Take, Fail
<1> QED
  BY <1>1, <1>2, <1>3, <1>4, <1>5, <1>6, <1>7, <1>8, <1>9, <1>10, <1>11, <1>12, <1>13, <1>14, <1>15, <1>16, <1>17, <1>18, <1>19, <1>20, <1>21, <1>22, <1>23, <1>24

\* Such a step keeps the lock invariant.
LEMMA LockHeld ==
  ASSUME TypeInv, LockInv, NEW r \in Requests, KeepsLock(r), Others(r)
  PROVE  LockInv'
BY DEF LockInv, KeepsLock, Others

\* SETNX succeeds only while nobody is in the section.
LEMMA LockTaken ==
  ASSUME TypeInv, LockInv, Redis, NEW r \in Requests, AcquireLock(r)
  PROVE  LockInv' /\ Others(r)
<1>1. lock = NoLease /\ lock' = <<r, att[r]>>
  BY DEF AcquireLock
<1>2. ASSUME NEW s \in Requests PROVE pc[s] \notin Section
  <2>1. <<s, att[s]>> \in LeaseIds
    BY DEF TypeInv, TypeOK, LeaseIds
  <2> QED
    BY <1>1, <2>1, StoreAssumption DEF LockInv, StoreAssumption
<1>3. att' = att /\ snap' = snap /\ pc' = [pc EXCEPT ![r] = "pick"]
  BY DEF AcquireLock, Goto
<1> QED
  BY <1>1, <1>2, <1>3 DEF LockInv, Others, TypeInv, TypeOK

\* The deferred Unlocks delete the request's own token only.
LEMMA LockGiven ==
  ASSUME TypeInv, LockInv, NEW r \in Requests, Unlock(r)
  PROVE  LockInv' /\ Others(r)
<1>1. att' = att /\ snap' = snap /\ Others(r) /\ pc'[r] \notin Section
  BY DEF Unlock, Goto, TypeInv, TypeOK, Others, Section
<1>2. ASSUME NEW s \in Requests, s # r, pc[s] \in Section PROVE lock' = lock
  BY <1>2 DEF Unlock, LockInv
<1> QED
  BY <1>1, <1>2 DEF LockInv, Others

\* Everything but a step of a request.
LEMMA LockBackground ==
  ASSUME LockInv, UNCHANGED <<lock, pc, att>>
  PROVE  LockInv'
BY DEF LockInv

\* The inductive invariant of mutual exclusion.
LEMMA LockInvariant == ASSUME Redis, ~LockMayExpire PROVE Spec => []LockInv
<1>1. Init => LockInv
  BY DEF Init, LockInv, Section
<1>2. TypeInv /\ LockInv /\ [Next]_vars => LockInv'
  <2> SUFFICES ASSUME TypeInv, LockInv, [Next]_vars PROVE LockInv'
    OBVIOUS
  <2>1. ASSUME NEW r \in Requests, Begin(r) \/ Refuse(r) \/ Progress(r)
        PROVE  LockInv'
    BY <2>1, LockKept, LockHeld, LockTaken, LockGiven DEF Progress
  <2>2. ASSUME NEW i \in LeaseIds, AsyncWrite(i) \/ AsyncSync(i)
        PROVE  LockInv'
    BY <2>2, LockBackground DEF AsyncWrite, AsyncSync, reqVars
  <2>3. ASSUME ReclaimList \/ ReclaimWrite \/ ReclaimSync PROVE LockInv'
    BY <2>3, LockBackground DEF ReclaimList, ReclaimWrite, ReclaimSync, reqVars
  <2>4. ASSUME NEW c \in Clients, CacheDrop(c) PROVE LockInv'
    BY <2>4, LockBackground DEF CacheDrop, reqVars
  <2>5. ASSUME RoleChange \/ Tick \/ Terminated \/ UNCHANGED vars PROVE LockInv'
    BY <2>5, LockBackground DEF RoleChange, Tick, Terminated, vars, reqVars
  <2>6. ~LockExpire
    BY DEF LockExpire
  <2> QED
    BY <2>1, <2>2, <2>3, <2>4, <2>5, <2>6 DEF Next
<1> QED
  BY <1>1, <1>2, TypeInvariant, PTL DEF Spec

\* With the pool lock in Redis and holders faster than its TTL, two handlers are
\* never both between acquirePoolLock and the write of their row, however many
\* handlers retry, fail and unlock concurrently.
THEOREM LockExcludes == ASSUME Redis, ~LockMayExpire PROVE Spec => []MutualExclusion
<1>1. TypeInv /\ LockInv => MutualExclusion
  BY DEF LockInv, MutualExclusion
<1> QED
  BY <1>1, TypeInvariant, LockInvariant, PTL

-----------------------------------------------------------------------------
(* Exclusive addresses, with synchronous persistence (a journal is          *)
(* configured).  Four facts carry the argument: a row knows its id; a copy  *)
(* of a lease has the address of its row; the address a request has picked  *)
(* is still free when it creates the row; and two rows that nobody brought  *)
(* back never hold the same address.                                        *)

Has(l)   == rows[l.id] # NoLease /\ rows[l.id].ip = l.ip
Holds(i) == /\ rows[i] # NoLease
            /\ \/ rows[i].state = "ACTIVE"
               \/ rows[i].state = "COOLDOWN" /\ rows[i].cool > now

\* Steps at which a request's copy is one of an existing row.
HasLabels == CopyLabels \ {"create"}

RowInv    == \A i \in LeaseIds : rows[i] # NoLease => rows[i].id = i
BgInv     == \A i \in LeaseIds : bg[i] = NoLease
CacheInv  == /\ \A c \in Clients : active[c] # NoLease => Has(active[c])
             /\ \A k \in CacheKeys : byId[k] # NoLease => Has(byId[k])
BatchInv  == (\A l \in batch : Has(l)) /\ (rec # NoLease => Has(rec))
CopyInv   == \A r \in Requests : pc[r] \in HasLabels => Has(snap[r])
PickInv   == \A r \in Requests : pc[r] = "create" =>
               \A j \in LeaseIds \ revived : Holds(j) => rows[j].ip # snap[r].ip
Exclusive == \A i, j \in LeaseIds \ revived :
               Holds(i) /\ Holds(j) /\ rows[i].ip = rows[j].ip => i = j

AddressInv == /\ RowInv /\ BgInv /\ CacheInv /\ BatchInv
              /\ CopyInv /\ PickInv /\ Exclusive

\* A step that moves no row to another address and lets no row hold one anew,
\* except by bringing it back.
Calm ==
  /\ \A i \in LeaseIds : rows[i] # NoLease =>
       rows'[i] # NoLease /\ rows'[i].ip = rows[i].ip
  /\ revived \subseteq revived'
  /\ \A i \in LeaseIds \ revived' : Holds(i)' => Holds(i) /\ rows'[i].ip = rows[i].ip

\* A step that writes no row is calm.
LEMMA CalmIdle ==
  ASSUME UNCHANGED <<rows, revived, now>>
  PROVE  Calm
BY DEF Calm, Holds

\* The passing of time ends holds and starts none.
LEMMA CalmTick ==
  ASSUME TypeInv, UNCHANGED <<rows, revived>>, now' \in Nat, now' >= now
  PROVE  Calm
<1>1. \A i \in LeaseIds : rows[i] # NoLease => rows[i].cool \in Nat
  BY DEF TypeInv, TypeOK, Leases
<1> QED
  BY <1>1 DEF Calm, Holds, TypeInv, TypeOK

\* UpdateLease writes a copy that has the address of its row, and an id that
\* leaves RELEASED or COOLDOWN that way is in revived.
LEMMA CalmUpdate ==
  ASSUME TypeInv, RowInv, NEW l \in Leases, Has(l),
         rows' = Updated(rows, l), now' = now,
         revived' = Revive(l) \/ (l.state = "RELEASED" /\ revived' = revived)
  PROVE  Calm /\ RowInv'
<1>1. l.id \in LeaseIds /\ rows[l.id] # NoLease /\ rows[l.id].ip = l.ip
  BY DEF Has, Leases
<1>2. rows' = [rows EXCEPT ![l.id] = [l EXCEPT !.hw = rows[l.id].hw, !.tn = FALSE]]
  BY <1>1 DEF Updated
<1>3. [l EXCEPT !.hw = rows[l.id].hw, !.tn = FALSE] \in Leases
  BY <1>1 DEF Leases, TypeInv, TypeOK
<1>4. rows'[l.id].ip = l.ip /\ rows'[l.id].state = l.state /\ rows'[l.id].id = l.id
      /\ rows'[l.id] # NoLease
  <2>1. rows'[l.id] = [l EXCEPT !.hw = rows[l.id].hw, !.tn = FALSE]
    BY <1>1, <1>2 DEF TypeInv, TypeOK
  <2>2. rows'[l.id] # NoLease
    BY <1>3, <2>1, StoreAssumption DEF StoreAssumption
  <2> QED
    BY <2>1, <2>2 DEF Leases
<1>5. \A i \in LeaseIds : i # l.id => rows'[i] = rows[i]
  BY <1>2 DEF TypeInv, TypeOK
<1>6. revived \subseteq revived'
  BY DEF Revive
<1>7. l.id \notin revived' => rows[l.id].state = "ACTIVE" \/ l.state = "RELEASED"
  BY <1>1 DEF Revive
<1>8. ASSUME NEW i \in LeaseIds \ revived', Holds(i)'
      PROVE  Holds(i) /\ rows'[i].ip = rows[i].ip
  <2>1. CASE i = l.id
    BY <1>1, <1>4, <1>7, <1>8, <2>1 DEF Holds
  <2>2. CASE i # l.id
    BY <1>5, <1>8, <2>2 DEF Holds
  <2> QED
    BY <2>1, <2>2
<1>9. RowInv'
  BY <1>4, <1>5 DEF RowInv
<1> QED
  BY <1>1, <1>4, <1>5, <1>6, <1>8, <1>9 DEF Calm

\* What a calm step preserves.
LEMMA CalmKeeps ==
  ASSUME AddressInv, Calm
  PROVE  /\ Exclusive'
         /\ \A l \in Leases : Has(l) => rows'[l.id] # NoLease /\ rows'[l.id].ip = l.ip
         /\ \A a \in Addrs :
              (\A j \in LeaseIds \ revived : Holds(j) => rows[j].ip # a) =>
              (\A j \in LeaseIds \ revived' : Holds(j)' => rows'[j].ip # a)
<1>1. Exclusive'
  BY DEF AddressInv, Exclusive, Calm
<1>2. ASSUME NEW l \in Leases, Has(l)
      PROVE  rows'[l.id] # NoLease /\ rows'[l.id].ip = l.ip
  BY <1>2 DEF Calm, Has, Leases
<1>3. ASSUME NEW a \in Addrs, \A j \in LeaseIds \ revived : Holds(j) => rows[j].ip # a
      PROVE  \A j \in LeaseIds \ revived' : Holds(j)' => rows'[j].ip # a
  BY <1>3 DEF Calm
<1> QED
  BY <1>1, <1>2, <1>3

\* Every copy there is after the step agrees with the rows before the step, and
\* so does every picked address.
PicksFree(l) == \A j \in LeaseIds \ revived : Holds(j) => rows[j].ip # l.ip
CachesFit == /\ \A c \in Clients : active'[c] # NoLease => Has(active'[c])
             /\ \A k \in CacheKeys : byId'[k] # NoLease => Has(byId'[k])
BatchFits == (\A l \in batch' : Has(l)) /\ (rec' # NoLease => Has(rec'))
CopyFits(r) == /\ pc'[r] \in HasLabels => Has(snap'[r])
               /\ pc'[r] = "create" => PicksFree(snap'[r])

\* A calm step after which every copy still fits keeps the invariant.
LEMMA CalmStep ==
  ASSUME TypeInv, TypeInv', AddressInv, Calm, RowInv', BgInv', CachesFit,
         BatchFits, \A r \in Requests : CopyFits(r)
  PROVE  AddressInv'
<1>1. Exclusive'
  BY CalmKeeps
<1>2. \A l \in Leases : Has(l) => rows'[l.id] # NoLease /\ rows'[l.id].ip = l.ip
  BY CalmKeeps
<1>3. CacheInv'
  BY <1>2 DEF CacheInv, CachesFit, Has, TypeInv, TypeOK
<1>4. BatchInv'
  BY <1>2 DEF BatchInv, BatchFits, Has, TypeInv, TypeOK
<1>5. CopyInv'
  <2> SUFFICES ASSUME NEW r \in Requests, pc'[r] \in HasLabels PROVE Has(snap[r])'
    BY DEF CopyInv
  <2>1. snap'[r] \in Leases
    BY DEF TypeInv, ReqOK, HasLabels
  <2> QED
    BY <1>2, <2>1 DEF CopyFits, Has
<1>6. PickInv'
  <2> SUFFICES ASSUME NEW r \in Requests, pc'[r] = "create"
               PROVE  \A j \in LeaseIds \ revived' : Holds(j)' => rows'[j].ip # snap'[r].ip
    BY DEF PickInv
  <2>1. snap'[r] \in Leases
    BY DEF TypeInv, ReqOK, CopyLabels
  <2>2. snap'[r].ip \in Addrs
    BY <2>1 DEF Leases
  <2> QED
    BY <2>2, CalmKeeps DEF CopyFits, PicksFree
<1> QED
  BY <1>1, <1>3, <1>4, <1>5, <1>6 DEF AddressInv

\* A step of one request leaves the copies of the others alone.
LEMMA RequestStep ==
  ASSUME TypeInv, TypeInv', AddressInv, NEW r \in Requests, Others(r),
         Calm, RowInv', CachesFit, CopyFits(r), UNCHANGED <<bg, batch, rec>>
  PROVE  AddressInv'
<1>1. ASSUME NEW s \in Requests PROVE CopyFits(s)
  <2>1. CASE s = r
    BY <2>1
  <2>2. CASE s # r
    BY <2>2 DEF Others, CopyFits, PicksFree, AddressInv, CopyInv, PickInv
  <2> QED
    BY <2>1, <2>2
<1>2. BgInv' /\ BatchFits
  BY DEF AddressInv, BgInv, BatchInv, BatchFits
<1> QED
  BY <1>1, <1>2, CalmStep

\* Steps that read and write no row.
LEMMA ReadStep ==
  ASSUME TypeInv, TypeInv', AddressInv, NEW r \in Requests, Others(r),
         CachesFit, CopyFits(r), UNCHANGED <<rows, revived, now, bg, batch, rec>>
  PROVE  AddressInv'
<1>1. Calm
  BY CalmIdle
<1>2. RowInv'
  BY DEF AddressInv, RowInv
<1> QED
  BY <1>1, <1>2, RequestStep

\* repo.UpdateLease of a copy that has the address of its row.
LEMMA UpdateStep ==
  ASSUME TypeInv, TypeInv', AddressInv, NEW r \in Requests, Others(r),
         NEW l \in Leases, Has(l), NEW next, next # "create",
         UpdateLease(r, l, next), UNCHANGED <<active, now, bg, batch, rec>>
  PROVE  AddressInv'
<1>1. CopyFits(r)
  BY DEF UpdateLease, Take, Goto, Fail, CopyFits, HasLabels, CopyLabels,
         SyncLabels, TypeInv, TypeOK
<1>2. CachesFit
  BY DEF UpdateLease, CachesFit, AddressInv, CacheInv, EvictTenant
<1>3. Calm /\ RowInv'
  <2>1. CASE rows' = Updated(rows, l) /\ revived' = Revive(l)
    BY <2>1, CalmUpdate DEF AddressInv
  <2>2. CASE UNCHANGED <<rows, revived>>
    BY <2>2, CalmIdle DEF AddressInv, RowInv
  <2> QED
    BY <2>1, <2>2 DEF UpdateLease
<1> QED
  BY <1>1, <1>2, <1>3, RequestStep

-----------------------------------------------------------------------------
(* The steps of a request, one by one.                                     *)

\* Steps that neither write a row nor a cache key.
LEMMA QuietSteps ==
  ASSUME TypeInv, TypeInv', AddressInv, NEW r \in Requests, Others(r),
         \/ Begin(r) \/ Refuse(r) \/ GetActiveHit(r) \/ GetActiveRow(r)
         \/ GetActiveNone(r) \/ RefuseMark(r) \/ AcquireLock(r) \/ Pick(r)
         \/ PickNone(r) \/ ProbeQuiet(r) \/ Unlock(r) \/ Return(r)
         \/ GetByIdHit(r) \/ GetByIdRow(r) \/ GetByIdFails(r)
  PROVE  AddressInv'
<1> USE DEF CopyFits, HasLabels, CopyLabels, SyncLabels, Goto, Take, Fail
<1>t. /\ pc \in [Requests -> Labels] /\ snap \in [Requests -> Leases \cup {NoLease}]
      /\ job \in [Requests -> Jobs \cup {NoLease}]
  BY DEF TypeInv, TypeOK
<1>k. pc[r] \in {"get", "pick", "idGet"} => job[r] \in Jobs
  BY DEF TypeInv, ReqOK
<1>w. job[r] \in Jobs => job[r].who \in Clients /\ job[r].id \in LeaseIds
  BY DEF Jobs
<1>i. pc[r] = "idGet" => TargetId(r) \in LeaseIds
  BY DEF TypeInv, ReqOK, TargetId, Jobs, Leases
<1>x. UNCHANGED <<rows, active, byId, revived, now, bg, batch, rec>>
  BY DEF Begin, Refuse, GetActiveHit, GetActiveRow, GetActiveNone, RefuseMark,
         AcquireLock, Pick, PickNone, ProbeQuiet, Unlock, Return, GetByIdHit,
         GetByIdRow, GetByIdFails, storeVars
<1>c. CachesFit
  BY <1>x DEF CachesFit, AddressInv, CacheInv
<1>h. \A i \in LeaseIds : rows[i] # NoLease => Has(rows[i])
  BY DEF AddressInv, RowInv, Has
<1>1. ASSUME Begin(r) PROVE CopyFits(r)
  BY <1>t, <1>1 DEF Begin
<1>2. ASSUME Refuse(r) PROVE CopyFits(r)
  BY <1>t, <1>2 DEF Refuse
<1>3. ASSUME GetActiveHit(r) PROVE CopyFits(r)
  BY <1>t, <1>k, <1>w, <1>3 DEF GetActiveHit, Found, AddressInv, CacheInv
<1>4. ASSUME GetActiveRow(r) PROVE CopyFits(r)
  <2>1. PICK i \in ActiveRowsOf(rows, job[r].who) : snap' = [snap EXCEPT ![r] = rows[i]]
    BY <1>4 DEF GetActiveRow
  <2>2. Has(rows[i])
    BY <1>h DEF ActiveRowsOf, Present
  <2> QED
    BY <1>t, <1>4, <2>1, <2>2 DEF GetActiveRow
<1>5. ASSUME GetActiveNone(r) PROVE CopyFits(r)
  BY <1>t, <1>5 DEF GetActiveNone, NextRelease
<1>6. ASSUME RefuseMark(r) PROVE CopyFits(r)
  BY <1>t, <1>6 DEF RefuseMark
<1>7. ASSUME AcquireLock(r) PROVE CopyFits(r)
  BY <1>t, <1>7 DEF AcquireLock
<1>8. ASSUME Pick(r) PROVE CopyFits(r)
  <2>1. PICK a \in Available(job[r].who) :
          snap' = [snap EXCEPT ![r] = NewLease(<<r, att[r]>>, a, job[r].who, now)]
    BY <1>8 DEF Pick
  <2>2. snap'[r].ip = a
    BY <1>t, <2>1 DEF NewLease
  <2>3. a \notin ActiveIPs(rows) /\ a \notin CooldownIPs(rows, now)
    BY DEF Available
  <2>4. PicksFree(snap'[r])
    BY <2>2, <2>3 DEF PicksFree, Holds, ActiveIPs, CooldownIPs, Present
  <2> QED
    BY <1>t, <1>8, <2>4 DEF Pick
<1>9. ASSUME PickNone(r) PROVE CopyFits(r)
  <2>1. ASSUME pc' = [pc EXCEPT ![r] = "unlock"] PROVE CopyFits(r)
    BY <1>t, <2>1
  <2>2. ASSUME NEW i \in ReclaimableRows(rows), snap' = [snap EXCEPT ![r] = rows[i]],
               pc' = [pc EXCEPT ![r] = "reclaim"]
        PROVE  CopyFits(r)
    BY <1>t, <1>h, <2>2 DEF ReclaimableRows, Present
  <2> QED
    BY <1>9, <2>1, <2>2 DEF PickNone
<1>10. ASSUME ProbeQuiet(r) PROVE CopyFits(r)
  BY <1>t, <1>10 DEF ProbeQuiet
<1>11. ASSUME Unlock(r) PROVE CopyFits(r)
  BY <1>t, <1>11 DEF Unlock
<1>12. ASSUME Return(r) PROVE CopyFits(r)
  BY <1>t, <1>12 DEF Return
<1>13. ASSUME GetByIdHit(r) PROVE CopyFits(r)
  <2>0. TargetId(r) \in LeaseIds
    BY <1>13, <1>i DEF GetByIdHit
  <2>1. KeyById(r, TargetId(r)) \in CacheKeys
    BY <2>0 DEF KeyById, CacheKeys, Tenants, NodeTenant
  <2> QED
    BY <1>t, <1>13, <2>1 DEF GetByIdHit, ByIdNext, AddressInv, CacheInv
<1>14. ASSUME GetByIdRow(r) PROVE CopyFits(r)
  BY <1>t, <1>h, <1>i, <1>14 DEF GetByIdRow
<1>15. ASSUME GetByIdFails(r) PROVE CopyFits(r)
  BY <1>t, <1>15 DEF GetByIdFails
<1> QED
  BY <1>x, <1>c, <1>1, <1>2, <1>3, <1>4, <1>5, <1>6, <1>7, <1>8, <1>9, <1>10,
     <1>11, <1>12, <1>13, <1>14, <1>15, ReadStep

\* Steps that write the caches only.
LEMMA CacheSteps ==
  ASSUME TypeInv, TypeInv', AddressInv, NEW r \in Requests, Others(r),
         FillActive(r) \/ FillById(r) \/ ConfirmFails(r) \/ SyncDone(r)
  PROVE  AddressInv'
<1>t. /\ pc \in [Requests -> Labels] /\ active \in Keys /\ byId \in IdKeys
      /\ snap[r] \in Leases /\ snap' = snap
  BY DEF TypeInv, TypeOK, ReqOK, CopyLabels, FillActive, FillById, ConfirmFails,
         SyncDone, SyncCaches, Keys, IdKeys
<1>h. Has(snap[r])
  BY DEF FillActive, FillById, ConfirmFails, SyncDone, AddressInv, CopyInv,
         HasLabels, CopyLabels, SyncLabels
<1>x. UNCHANGED <<rows, revived, now, bg, batch, rec>>
  BY DEF FillActive, FillById, ConfirmFails, SyncDone, SyncCaches
<1>1. CopyFits(r)
  <2>1. pc'[r] # "create"
    BY <1>t DEF FillActive, FillById, ConfirmFails, SyncDone, Goto, Fail, Found,
                ByIdNext, NextAttempt, NextRelease
  <2> QED
    BY <1>t, <1>h, <2>1 DEF CopyFits
<1>2. CachesFit
  <2>1. ASSUME FillActive(r) PROVE CachesFit
    BY <1>t, <1>h, <2>1 DEF FillActive, CachesFit, AddressInv, CacheInv, Keys
  <2>2. ASSUME FillById(r) PROVE CachesFit
    BY <1>t, <1>h, <2>2 DEF FillById, CachesFit, AddressInv, CacheInv, IdKeys
  <2>3. ASSUME ConfirmFails(r) \/ SyncDone(r) PROVE CachesFit
    <3>1. active' = SyncActive(active, snap[r]) /\ byId' = EvictTenant(byId, snap[r])
      BY <2>3 DEF ConfirmFails, SyncDone, SyncCaches
    <3> QED
      BY <1>t, <1>h, <3>1 DEF CachesFit, AddressInv, CacheInv, SyncActive,
                              EvictTenant, Keys
  <2> QED
    BY <2>1, <2>2, <2>3
<1> QED
  BY <1>1, <1>2, <1>x, ReadStep

\* The copies that are written back have the address of the copy they are made of.
LEMMA SameAddress ==
  ASSUME NEW l \in Leases, Has(l), NEW t, NEW c, NEW f, NEW k, NEW g
  PROVE  /\ Has(Renewed(l, f, t)) /\ Has(Held(l, t)) /\ Has(Reclaimed(l, c, f, t))
         /\ Has(TransitionLease(l, g, t)) /\ Has(AdminWrites(k, l, t))
         /\ Has(Released(l, t))
BY DEF Has, Leases, Renewed, Held, Reclaimed, TransitionLease, AdminWrites,
       Declined, Released

\* Steps that write a row back: they write a copy with the address of its row,
\* or nothing.
WritesBack(r) ==
  \/ \E l \in Leases, next \in SyncLabels : Has(l) /\ UpdateLease(r, l, next)
  \/ /\ UNCHANGED <<rows, byId, revived, snap>>
     /\ \E next \in {"unlock", "return", "get"} : pc' = [pc EXCEPT ![r] = next]

\* Which copies the six writing steps write.
LEMMA WriteForms ==
  ASSUME TypeInv, AddressInv, ~Async, NEW r \in Requests,
         \/ Renew(r) \/ Reclaim(r) \/ ProbeAlive(r) \/ UpdateFSM(r)
         \/ ReleaseActive(r) \/ AdminUpdate(r)
  PROVE  WritesBack(r) /\ UNCHANGED <<active, now, bg, batch, rec>>
<1>t. snap[r] \in Leases /\ now \in Nat /\ job[r] \in Jobs
  BY DEF TypeInv, TypeOK, ReqOK, CopyLabels, Renew, Reclaim, ProbeAlive,
         UpdateFSM, ReleaseActive, AdminUpdate
<1>c. job[r].who \in Clients
  BY <1>t DEF Jobs
<1>h. Has(snap[r])
  BY DEF Renew, Reclaim, ProbeAlive, UpdateFSM, ReleaseActive, AdminUpdate,
         AddressInv, CopyInv, HasLabels, CopyLabels
<1>x. UNCHANGED <<active, now, bg, batch, rec>>
  BY DEF Renew, Reclaim, ProbeAlive, UpdateFSM, ReleaseActive, AdminUpdate, UpdateLease
<1>f. \A f \in SessionStates(snap[r]) : f \in FSMStates \cup {"none"}
  BY <1>t DEF SessionStates, Leases
<1>u. ASSUME NEW l \in Leases, Has(l), NEW next \in SyncLabels, UpdateLease(r, l, next)
      PROVE  WritesBack(r)
  BY <1>u DEF WritesBack
<1>s. ASSUME UNCHANGED <<rows, byId, revived, snap>>,
             NEW next \in {"unlock", "return", "get"}, pc' = [pc EXCEPT ![r] = next]
      PROVE  WritesBack(r)
  BY <1>s DEF WritesBack
<1>1. ASSUME Renew(r) PROVE WritesBack(r)
  <2>1. PICK f \in SessionStates(snap[r]) :
          UpdateLease(r, Renewed(snap[r], f, now), "renewSync")
    BY <1>1 DEF Renew
  <2>2. Renewed(snap[r], f, now) \in Leases /\ Has(Renewed(snap[r], f, now))
    BY <1>t, <1>c, <1>h, <1>f, SameAddress, TransformTypes
  <2> QED
    BY <1>u, <2>1, <2>2 DEF SyncLabels
<1>2. ASSUME Reclaim(r) PROVE WritesBack(r)
  <2>1. PICK f \in SessionStates(snap[r]) :
          UpdateLease(r, Reclaimed(snap[r], job[r].who, f, now), "reclaimSync")
    BY <1>2 DEF Reclaim
  <2>2. /\ Reclaimed(snap[r], job[r].who, f, now) \in Leases
        /\ Has(Reclaimed(snap[r], job[r].who, f, now))
    BY <1>t, <1>c, <1>h, <1>f, SameAddress, TransformTypes
  <2> QED
    BY <1>u, <2>1, <2>2 DEF SyncLabels
<1>3. ASSUME ProbeAlive(r) PROVE WritesBack(r)
  <2>1. UpdateLease(r, Held(snap[r], now), "holdSync")
    BY <1>3 DEF ProbeAlive
  <2>2. Held(snap[r], now) \in Leases /\ Has(Held(snap[r], now))
    BY <1>t, <1>c, <1>h, SameAddress, TransformTypes
  <2> QED
    BY <1>u, <2>1, <2>2 DEF SyncLabels
<1>4. ASSUME UpdateFSM(r) PROVE WritesBack(r)
  <2> DEFINE l == TransitionLease(snap[r], Target[job[r].kind], now)
  <2>1. Target[job[r].kind] \in FSMStates
    BY <1>4 DEF UpdateFSM, TypeInv, ReqOK, Target, TargetKinds, FSMStates
  <2>2. l \in Leases /\ Has(l)
    BY <1>t, <1>h, <2>1, TransitionType, SameAddress
  <2>3. UpdateLease(r, l, "fsmSync") \/
        (UNCHANGED <<rows, byId, revived, snap>> /\
          (pc' = [pc EXCEPT ![r] = "unlock"] \/ pc' = [pc EXCEPT ![r] = "return"]))
    BY <1>4 DEF UpdateFSM, Goto, Fail
  <2> HIDE DEF l
  <2> QED
    BY <1>u, <1>s, <2>2, <2>3 DEF SyncLabels
<1>5. ASSUME ReleaseActive(r) PROVE WritesBack(r)
  <2> DEFINE l == TransitionLease(snap[r], "Released", now)
  <2>1. l \in Leases /\ Has(l)
    BY <1>t, <1>h, TransitionType, SameAddress DEF FSMStates
  <2>2. UpdateLease(r, l, "releaseSync") \/
        (UNCHANGED <<rows, byId, revived, snap>> /\
          (pc' = [pc EXCEPT ![r] = "unlock"] \/ pc' = [pc EXCEPT ![r] = "return"]
             \/ pc' = [pc EXCEPT ![r] = "get"]))
    BY <1>5, Zenon DEF ReleaseActive, Goto, Fail, NextRelease
  <2> HIDE DEF l
  <2> QED
    BY <1>u, <1>s, <2>1, <2>2 DEF SyncLabels
<1>6. ASSUME AdminUpdate(r) PROVE WritesBack(r)
  <2> DEFINE l == AdminWrites(job[r].kind, snap[r], now)
  <2>1. l \in Leases /\ Has(l)
    BY <1>t, <1>c, <1>h, AdminType, SameAddress
  <2>2. UpdateLease(r, l, "adminSync") \/
        (UNCHANGED <<rows, byId, revived, snap>> /\ pc' = [pc EXCEPT ![r] = "return"])
    BY <1>6 DEF AdminUpdate, Goto
  <2> HIDE DEF l
  <2> QED
    BY <1>u, <1>s, <2>1, <2>2 DEF SyncLabels
<1> QED
  BY <1>x, <1>1, <1>2, <1>3, <1>4, <1>5, <1>6

\* They keep the invariant.
LEMMA WriteSteps ==
  ASSUME TypeInv, TypeInv', AddressInv, NEW r \in Requests, Others(r),
         WritesBack(r), UNCHANGED <<active, now, bg, batch, rec>>
  PROVE  AddressInv'
<1>1. ASSUME NEW l \in Leases, NEW next \in SyncLabels, Has(l), UpdateLease(r, l, next)
      PROVE  AddressInv'
  BY <1>1, UpdateStep DEF SyncLabels
<1>2. ASSUME UNCHANGED <<rows, byId, revived, snap>>,
             NEW next \in {"unlock", "return", "get"}, pc' = [pc EXCEPT ![r] = next]
      PROVE  AddressInv'
  <2>1. CopyFits(r)
    BY <1>2 DEF CopyFits, HasLabels, CopyLabels, SyncLabels, TypeInv, TypeOK
  <2>2. CachesFit
    BY <1>2 DEF CachesFit, AddressInv, CacheInv
  <2> QED
    BY <1>2, <2>1, <2>2, ReadStep
<1> QED
  BY <1>1, <1>2 DEF WritesBack

\* The INSERT: the one step that lets a row hold an address.
LEMMA CreateStep ==
  ASSUME TypeInv, TypeInv', AddressInv, MutualExclusion, ~Async,
         NEW r \in Requests, Others(r), Create(r)
  PROVE  AddressInv'
<1> DEFINE l == snap[r]
<1>t. /\ pc \in [Requests -> Labels] /\ pc[r] = "create" /\ snap' = snap
      /\ l \in Leases /\ l.id \in LeaseIds /\ rows \in Table
  BY DEF TypeInv, TypeOK, ReqOK, CopyLabels, Create, Leases, Table
<1>x. UNCHANGED <<active, revived, now, bg, batch, rec>>
  BY DEF Create
<1>1. CASE rows' = rows /\ byId' = EvictTenant(byId, l) /\ pc' = [pc EXCEPT ![r] = "unlock"]
  <2>1. CopyFits(r)
    BY <1>t, <1>1 DEF CopyFits, HasLabels, CopyLabels, SyncLabels
  <2>2. CachesFit
    BY <1>x, <1>1 DEF CachesFit, AddressInv, CacheInv, EvictTenant
  <2> QED
    BY <1>x, <1>1, <2>1, <2>2, ReadStep
<1>2. CASE /\ rows' = Inserted(rows, l) /\ rows[l.id] = NoLease /\ byId' = byId
           /\ pc' = [pc EXCEPT ![r] = "createSync"]
  <2>1. rows'[l.id] = [l EXCEPT !.tn = FALSE]
    BY <1>t, <1>2 DEF Inserted, Table
  <2>2. [l EXCEPT !.tn = FALSE] \in Leases
    BY <1>t DEF Leases
  <2>3. rows'[l.id] # NoLease /\ rows'[l.id].id = l.id /\ rows'[l.id].ip = l.ip
    BY <1>t, <2>1, <2>2, StoreAssumption DEF Leases, StoreAssumption
  <2>4. \A i \in LeaseIds : i # l.id => rows'[i] = rows[i]
    BY <1>t, <1>2 DEF Inserted, Table
  <2>5. RowInv'
    BY <2>3, <2>4 DEF AddressInv, RowInv
  <2>6. ASSUME NEW m \in Leases, Has(m)
        PROVE  rows'[m.id] # NoLease /\ rows'[m.id].ip = m.ip
    BY <1>2, <2>4, <2>6 DEF Has, Leases
  <2>7. CacheInv' /\ BatchInv'
    BY <1>x, <1>2, <2>6 DEF AddressInv, CacheInv, BatchInv, Has, TypeInv, TypeOK
  <2>8. CopyInv'
    <3> SUFFICES ASSUME NEW s \in Requests, pc'[s] \in HasLabels PROVE Has(snap[s])'
      BY DEF CopyInv
    <3>1. CASE s = r
      BY <1>t, <2>3, <3>1 DEF Has
    <3>2. CASE s # r
      <4>1. pc[s] \in HasLabels
        BY <3>2 DEF Others
      <4>2. snap[s] \in Leases /\ Has(snap[s])
        BY <4>1 DEF AddressInv, CopyInv, TypeInv, ReqOK, HasLabels
      <4> QED
        BY <1>t, <2>6, <4>2 DEF Has
    <3> QED
      BY <3>1, <3>2
  <2>9. PickInv'
    <3>1. ASSUME NEW s \in Requests PROVE pc'[s] # "create"
      BY <1>t, <1>2 DEF MutualExclusion, Section
    <3> QED
      BY <3>1 DEF PickInv
  <2>10. ASSUME NEW j \in LeaseIds \ revived, j # l.id, Holds(j)'
         PROVE  Holds(j) /\ rows'[j].ip = rows[j].ip /\ rows[j].ip # l.ip
    BY <1>t, <1>x, <2>4, <2>10 DEF Holds, AddressInv, PickInv
  <2>11. Exclusive'
    <3> SUFFICES ASSUME NEW i \in LeaseIds \ revived, NEW j \in LeaseIds \ revived,
                        Holds(i)', Holds(j)', rows'[i].ip = rows'[j].ip
                 PROVE  i = j
      BY <1>x DEF Exclusive
    <3> QED
      BY <2>3, <2>10 DEF AddressInv, Exclusive
  <2>12. BgInv'
    BY <1>x DEF AddressInv, BgInv
  <2> QED
    BY <2>5, <2>7, <2>8, <2>9, <2>11, <2>12 DEF AddressInv
<1> QED
  BY <1>1, <1>2 DEF Create, Goto, Fail, InsertOK

-----------------------------------------------------------------------------
(* Background steps.                                                       *)

\* A step of no request that neither moves a row nor adds a copy.
LEMMA BackgroundStep ==
  ASSUME TypeInv, TypeInv', AddressInv, Calm, RowInv', CachesFit, BatchFits,
         UNCHANGED <<pc, snap, bg>>
  PROVE  AddressInv'
<1>1. BgInv' /\ \A r \in Requests : CopyFits(r)
  BY DEF AddressInv, BgInv, CopyInv, PickInv, CopyFits, PicksFree
<1> QED
  BY <1>1, CalmStep

\* The reclaimer writes RELEASED only, from copies of rows.
LEMMA ReclaimerSteps ==
  ASSUME TypeInv, TypeInv', AddressInv, ReclaimList \/ ReclaimWrite \/ ReclaimSync
  PROVE  AddressInv'
<1>1. CASE ReclaimList
  <2>1. UNCHANGED <<rows, active, byId, revived, now, pc, snap, bg, rec>>
    BY <1>1 DEF ReclaimList, storeVars, reqVars
  <2>2. PICK s \in SUBSET ExpiredRows(rows, now - Grace) : batch' = {rows[i] : i \in s}
    BY <1>1 DEF ReclaimList, ExpiredBatches
  <2>3. BatchFits
    BY <2>1, <2>2 DEF BatchFits, AddressInv, BatchInv, RowInv, Has, ExpiredRows, Present
  <2>4. RowInv' /\ CachesFit
    BY <2>1 DEF AddressInv, RowInv, CacheInv, CachesFit
  <2> QED
    BY <2>1, <2>3, <2>4, CalmIdle, BackgroundStep
<1>2. CASE ReclaimWrite
  <2>1. UNCHANGED <<active, byId, revived, now, pc, snap, bg>>
    BY <1>2 DEF ReclaimWrite, reqVars
  <2>2. PICK m \in batch : /\ batch' = batch \ {m}
                           /\ \/ rows' = Updated(rows, Released(m, now)) /\ rec' = Released(m, now)
                              \/ UNCHANGED <<rows, rec>>
    BY <1>2 DEF ReclaimWrite
  <2>3. m \in Leases /\ Has(m) /\ now \in Nat
    BY DEF TypeInv, TypeOK, AddressInv, BatchInv
  <2>4. Has(Released(m, now)) /\ Released(m, now).state = "RELEASED"
    BY <2>3, SameAddress DEF Released, Leases
  <2>5. Released(m, now) \in Leases
    BY <2>3 DEF Released, Leases, LeaseStates
  <2>6. Calm /\ RowInv'
    <3>1. CASE rows' = Updated(rows, Released(m, now))
      BY <2>1, <2>4, <2>5, <3>1, CalmUpdate DEF AddressInv
    <3>2. CASE rows' = rows
      BY <2>1, <3>2, CalmIdle DEF AddressInv, RowInv
    <3> QED
      BY <2>2, <3>1, <3>2
  <2>7. CachesFit /\ BatchFits
    BY <2>1, <2>2, <2>4 DEF AddressInv, CacheInv, CachesFit, BatchInv, BatchFits
  <2> QED
    BY <2>1, <2>6, <2>7, BackgroundStep
<1>3. CASE ReclaimSync
  <2>1. UNCHANGED <<rows, byId, revived, now, pc, snap, bg, batch>>
    BY <1>3 DEF ReclaimSync, reqVars
  <2>2. rec \in Leases /\ Has(rec) /\ active \in Keys
    BY <1>3 DEF ReclaimSync, TypeInv, TypeOK, AddressInv, BatchInv, Keys
  <2>3. CachesFit
    BY <1>3, <2>1, <2>2 DEF ReclaimSync, CachesFit, AddressInv, CacheInv, SyncActive, Keys
  <2>4. BatchFits /\ RowInv'
    BY <1>3, <2>1 DEF ReclaimSync, BatchFits, AddressInv, BatchInv, RowInv
  <2> QED
    BY <2>1, <2>3, <2>4, CalmIdle, BackgroundStep
<1> QED
  BY <1>1, <1>2, <1>3

\* Eviction, lock expiry, role changes and time.
LEMMA EnvironmentSteps ==
  ASSUME TypeInv, TypeInv', AddressInv,
         (\E c \in Clients : CacheDrop(c)) \/ LockExpire \/ RoleChange \/ Tick
           \/ Terminated \/ UNCHANGED vars
  PROVE  AddressInv'
<1>1. UNCHANGED <<rows, revived, pc, snap, bg, batch, rec>>
  BY DEF CacheDrop, LockExpire, RoleChange, Tick, Terminated, vars, storeVars, reqVars
<1>2. now' \in Nat /\ now' >= now
  BY DEF CacheDrop, LockExpire, RoleChange, Tick, Terminated, vars, TypeInv, TypeOK
<1>3. CachesFit
  <2>1. ASSUME NEW c \in Clients, CacheDrop(c) PROVE CachesFit
    BY <2>1 DEF CacheDrop, CachesFit, AddressInv, CacheInv, TypeInv, TypeOK
  <2>2. ASSUME Tick PROVE CachesFit
    BY <2>2 DEF Tick, CachesFit, AddressInv, CacheInv, ActiveAt
  <2>3. ASSUME LockExpire \/ RoleChange \/ Terminated \/ UNCHANGED vars PROVE CachesFit
    BY <2>3 DEF LockExpire, RoleChange, Terminated, vars, storeVars, CachesFit,
                AddressInv, CacheInv
  <2> QED
    BY <2>1, <2>2, <2>3
<1>4. BatchFits /\ RowInv'
  BY <1>1 DEF BatchFits, AddressInv, BatchInv, RowInv
<1> QED
  BY <1>1, <1>2, <1>3, <1>4, CalmTick, BackgroundStep

-----------------------------------------------------------------------------
(* The theorems.                                                           *)

\* Every step keeps the invariant.
LEMMA AddressInductive ==
  ASSUME TypeInv, TypeInv', AddressInv, MutualExclusion, Redis, ~Async, LockInv, [Next]_vars
  PROVE  AddressInv'
<1>1. ASSUME NEW r \in Requests, Begin(r) \/ Refuse(r) \/ Progress(r)
      PROVE  AddressInv'
  <2>1. Others(r)
    BY <1>1, LockKept, LockTaken, LockGiven DEF Progress
  <2> QED
    BY <1>1, <2>1, QuietSteps, CacheSteps, WriteForms, WriteSteps, CreateStep DEF Progress
<1>2. ASSUME NEW i \in LeaseIds PROVE ~(AsyncWrite(i) \/ AsyncSync(i))
  BY DEF AsyncWrite, AsyncSync, AddressInv, BgInv
<1> QED
  BY <1>1, <1>2, ReclaimerSteps, EnvironmentSteps DEF Next

\* The inductive invariant behind the next two theorems.
LEMMA AddressInvariant ==
  ASSUME Redis, Kafka, ~LockMayExpire
  PROVE  Spec => []AddressInv
<1>1. Init => AddressInv
  BY DEF Init, AddressInv, RowInv, BgInv, CacheInv, BatchInv, CopyInv, PickInv,
         Exclusive, HasLabels, CopyLabels, SyncLabels, Holds
<1>2. ~Async
  BY DEF Async
<1>3. TypeInv /\ TypeInv' /\ LockInv /\ MutualExclusion /\ AddressInv /\ [Next]_vars
        => AddressInv'
  BY <1>2, AddressInductive
<1> QED
  BY <1>1, <1>3, TypeInvariant, LockInvariant, LockExcludes, PTL DEF Spec

\* With the pool lock in Redis, a journal (rows are written before the reply)
\* and holders faster than the lock's TTL, pickIPAddress and CreateLease never
\* give an address to two leases, however many handlers, administrative calls
\* and reclaimer passes overlap: two ACTIVE rows on one address mean that a
\* write from a stale copy brought one of them back.
THEOREM AddressesNotShared ==
  ASSUME Redis, Kafka, ~LockMayExpire
  PROVE  Spec => []NoSharedAddress
<1>1. AddressInv => NoSharedAddress
  BY DEF AddressInv, Exclusive, Holds, NoSharedAddress, Present
<1> QED
  BY <1>1, AddressInvariant, PTL

\* Under the same conditions an address that answered a probe stays out of the
\* pool until its hold is over.
THEOREM HeldAddressesKept ==
  ASSUME Redis, Kafka, ~LockMayExpire
  PROVE  Spec => []HeldNotLeased
<1>1. AddressInv => HeldNotLeased
  BY DEF AddressInv, Exclusive, Holds, HeldNotLeased, Present
<1> QED
  BY <1>1, AddressInvariant, PTL

-----------------------------------------------------------------------------
(* The service implements AddressLedger.                                   *)

Active(i)  == rows[i] # NoLease /\ rows[i].state = "ACTIVE"
HoldersOf  == [a \in Addrs |->
                {i \in Present(rows) : rows[i].state = "ACTIVE" /\ rows[i].ip = a}]

\* Ledger steps, spelled out for the mapping.
LEMMA LedgerGrant ==
  ASSUME NEW a \in Addrs, NEW i \in LeaseIds,
         HoldersOf[a] \subseteq revived, \A b \in Addrs : i \notin HoldersOf[b],
         HoldersOf' = [HoldersOf EXCEPT ![a] = @ \cup {i}], revived' = revived
  PROVE  Ledger!Next
BY DEF Ledger!Next, Ledger!Grant, HoldersOf

LEMMA LedgerDrop ==
  ASSUME NEW a \in Addrs, NEW i \in LeaseIds, i \in HoldersOf[a],
         HoldersOf' = [HoldersOf EXCEPT ![a] = @ \ {i}], revived' = revived
  PROVE  Ledger!Next
BY DEF Ledger!Next, Ledger!Drop, HoldersOf

LEMMA LedgerBringBack ==
  ASSUME NEW a \in Addrs, NEW i \in LeaseIds, i \notin HoldersOf[a],
         HoldersOf' = [HoldersOf EXCEPT ![a] = @ \cup {i}] \/ HoldersOf' = HoldersOf,
         revived' = revived \cup {i}
  PROVE  Ledger!Next
BY DEF Ledger!Next, Ledger!BringBack, HoldersOf

LEMMA LedgerStutter ==
  ASSUME HoldersOf' = HoldersOf, revived' = revived
  PROVE  UNCHANGED Ledger!vars
BY DEF Ledger!vars, HoldersOf

\* A write to one row, seen by the ledger.
LEMMA HoldersWrite ==
  ASSUME TypeInv, TypeInv', NEW i \in LeaseIds, rows'[i] # NoLease,
         \A j \in LeaseIds : j # i => rows'[j] = rows[j],
         rows[i] # NoLease => rows'[i].ip = rows[i].ip
  PROVE  LET a == rows'[i].ip IN
         /\ a \in Addrs
         /\ i \in HoldersOf[a] <=> Active(i)
         /\ ~Active(i) => \A b \in Addrs : i \notin HoldersOf[b]
         /\ (Active(i) <=> Active(i)') => HoldersOf' = HoldersOf
         /\ Active(i) /\ ~Active(i)' => HoldersOf' = [HoldersOf EXCEPT ![a] = @ \ {i}]
         /\ ~Active(i) /\ Active(i)' => HoldersOf' = [HoldersOf EXCEPT ![a] = @ \cup {i}]
<1> DEFINE a == rows'[i].ip
<1>1. rows'[i] \in Leases
  BY DEF TypeInv, TypeOK
<1>2. a \in Addrs
  BY <1>1 DEF Leases
<1>3. ASSUME NEW b \in Addrs, NEW j \in LeaseIds
      PROVE  /\ j \in HoldersOf[b] <=> Active(j) /\ rows[j].ip = b
             /\ j \in HoldersOf'[b] <=> Active(j)' /\ rows'[j].ip = b
  BY DEF HoldersOf, Active, Present
<1>4. \A b \in Addrs : HoldersOf[b] \subseteq LeaseIds /\ HoldersOf'[b] \subseteq LeaseIds
  BY DEF HoldersOf, Present
<1>5. \A j \in LeaseIds : j # i => (Active(j)' <=> Active(j)) /\ rows'[j].ip = rows[j].ip
  BY DEF Active
<1>6. Active(i) => rows[i].ip = a
  BY DEF Active
<1>7. HoldersOf = [b \in Addrs |-> HoldersOf[b]] /\ HoldersOf' = [b \in Addrs |-> HoldersOf'[b]]
  BY DEF HoldersOf
<1>8. i \in HoldersOf[a] <=> Active(i)
  BY <1>2, <1>3, <1>6
<1>9. ~Active(i) => \A b \in Addrs : i \notin HoldersOf[b]
  BY <1>3
<1>10. ASSUME Active(i) <=> Active(i)' PROVE HoldersOf' = HoldersOf
  <2>1. ASSUME NEW b \in Addrs, NEW j \in LeaseIds PROVE j \in HoldersOf'[b] <=> j \in HoldersOf[b]
    <3>1. CASE j = i
      BY <1>3, <1>6, <1>10, <3>1
    <3>2. CASE j # i
      BY <1>3, <1>5, <3>2
    <3> QED
      BY <3>1, <3>2
  <2>2. ASSUME NEW b \in Addrs PROVE HoldersOf'[b] = HoldersOf[b]
    BY <1>4, <2>1
  <2> QED
    BY <1>7, <2>2
<1>11. ASSUME Active(i), ~Active(i)' PROVE HoldersOf' = [HoldersOf EXCEPT ![a] = @ \ {i}]
  <2>1. ASSUME NEW b \in Addrs, NEW j \in LeaseIds
        PROVE  j \in HoldersOf'[b] <=> j \in HoldersOf[b] /\ j # i
    <3>1. CASE j = i
      BY <1>3, <1>11, <3>1
    <3>2. CASE j # i
      BY <1>3, <1>5, <3>2
    <3> QED
      BY <3>1, <3>2
  <2>2. \A b \in Addrs : b # a => i \notin HoldersOf[b]
    BY <1>3, <1>6
  <2>3. ASSUME NEW b \in Addrs
        PROVE  HoldersOf'[b] = IF b = a THEN HoldersOf[a] \ {i} ELSE HoldersOf[b]
    BY <1>4, <2>1, <2>2
  <2> HIDE DEF a
  <2> QED
    BY <1>2, <1>7, <2>3
<1>12. ASSUME ~Active(i), Active(i)' PROVE HoldersOf' = [HoldersOf EXCEPT ![a] = @ \cup {i}]
  <2>1. ASSUME NEW b \in Addrs, NEW j \in LeaseIds
        PROVE  j \in HoldersOf'[b] <=> j \in HoldersOf[b] \/ (j = i /\ b = a)
    <3>1. CASE j = i
      BY <1>3, <1>12, <3>1
    <3>2. CASE j # i
      BY <1>3, <1>5, <3>2
    <3> QED
      BY <3>1, <3>2
  <2>3. ASSUME NEW b \in Addrs
        PROVE  HoldersOf'[b] = IF b = a THEN HoldersOf[a] \cup {i} ELSE HoldersOf[b]
    BY <1>4, <2>1
  <2> HIDE DEF a
  <2> QED
    BY <1>2, <1>7, <2>3
<1> HIDE DEF a
<1>13. /\ a \in Addrs
       /\ i \in HoldersOf[a] <=> Active(i)
       /\ ~Active(i) => \A b \in Addrs : i \notin HoldersOf[b]
       /\ (Active(i) <=> Active(i)') => HoldersOf' = HoldersOf
       /\ Active(i) /\ ~Active(i)' => HoldersOf' = [HoldersOf EXCEPT ![a] = @ \ {i}]
       /\ ~Active(i) /\ Active(i)' => HoldersOf' = [HoldersOf EXCEPT ![a] = @ \cup {i}]
  BY <1>2, <1>8, <1>9, <1>10, <1>11, <1>12
<1> QED
  BY <1>13 DEF a

\* Writing a copy back drops a holder, brings one back or changes no holder.
LEMMA LedgerUpdate ==
  ASSUME TypeInv, TypeInv', RowInv, NEW l \in Leases, Has(l),
         rows' = Updated(rows, l),
         revived' = Revive(l) \/ (l.state = "RELEASED" /\ revived' = revived)
  PROVE  Ledger!Next \/ UNCHANGED Ledger!vars
<1> DEFINE i == l.id
<1>1. i \in LeaseIds /\ rows[i] # NoLease /\ rows[i].ip = l.ip
  BY DEF Has, Leases
<1>2. rows' = [rows EXCEPT ![i] = [l EXCEPT !.hw = rows[i].hw, !.tn = FALSE]]
  BY <1>1 DEF Updated
<1>3. rows'[i] = [l EXCEPT !.hw = rows[i].hw, !.tn = FALSE]
  BY <1>1, <1>2 DEF TypeInv, TypeOK
<1>4. [l EXCEPT !.hw = rows[i].hw, !.tn = FALSE] \in Leases
  BY <1>1 DEF Leases, TypeInv, TypeOK
<1>5. rows'[i] # NoLease
  BY <1>3, <1>4, StoreAssumption DEF StoreAssumption
<1>6. rows'[i].ip = l.ip /\ rows'[i].state = l.state
  BY <1>3 DEF Leases
<1>7. \A j \in LeaseIds : j # i => rows'[j] = rows[j]
  BY <1>2 DEF TypeInv, TypeOK
<1>8. Active(i) => revived' = revived
  BY DEF Active, Revive
<1>9. ~Active(i) /\ l.state = "RELEASED" => revived' = revived
  BY DEF Revive
<1>10. ~Active(i) /\ l.state # "RELEASED" => revived' = revived \cup {i}
  BY <1>1 DEF Active, Revive
<1>11. Active(i)' <=> l.state = "ACTIVE"
  BY <1>5, <1>6 DEF Active
<1> HIDE DEF i
<1>12. CASE Active(i) /\ Active(i)'
  BY <1>1, <1>5, <1>6, <1>7, <1>8, <1>12, HoldersWrite, LedgerStutter
<1>13. CASE Active(i) /\ ~Active(i)'
  BY <1>1, <1>5, <1>6, <1>7, <1>8, <1>13, HoldersWrite, LedgerDrop
<1>14. CASE ~Active(i) /\ l.state = "RELEASED"
  BY <1>1, <1>5, <1>6, <1>7, <1>9, <1>11, <1>14, HoldersWrite, LedgerStutter
<1>15. CASE ~Active(i) /\ l.state # "RELEASED"
  BY <1>1, <1>5, <1>6, <1>7, <1>10, <1>15, HoldersWrite, LedgerBringBack
<1> QED
  BY <1>12, <1>13, <1>14, <1>15

\* Creating a row grants its address.
LEMMA LedgerCreate ==
  ASSUME TypeInv, TypeInv', AddressInv, ~Async, NEW r \in Requests, Create(r)
  PROVE  Ledger!Next \/ UNCHANGED Ledger!vars
<1>0. PICK l \in Leases : l = snap[r]
  BY DEF TypeInv, ReqOK, CopyLabels, Create
<1> DEFINE i == l.id
<1>1. pc[r] = "create" /\ i \in LeaseIds /\ revived' = revived
  BY <1>0 DEF Create, Leases
<1>2. CASE rows' = rows
  <2>1. HoldersOf' = HoldersOf
    BY <1>2 DEF HoldersOf, Present
  <2> QED
    BY <1>1, <2>1, LedgerStutter
<1>3. CASE rows' = Inserted(rows, l) /\ rows[i] = NoLease
  <2>1. rows'[i] = [l EXCEPT !.tn = FALSE] /\ \A j \in LeaseIds : j # i => rows'[j] = rows[j]
    BY <1>1, <1>3 DEF Inserted, TypeInv, TypeOK
  <2>2. [l EXCEPT !.tn = FALSE] \in Leases
    BY <1>1 DEF Leases
  <2>3. rows'[i] # NoLease
    BY <2>1, <2>2, StoreAssumption DEF StoreAssumption
  <2>4. rows'[i].ip = l.ip
    BY <1>1, <2>1 DEF Leases
  <2>5. ~Active(i)
    BY <1>3 DEF Active
  <2>6. l.ip \in Addrs
    BY <1>1 DEF Leases
  <2>7. HoldersOf[l.ip] \subseteq revived
    BY <1>0, <1>1, <2>6 DEF HoldersOf, Present, AddressInv, PickInv, Holds
  <2>0. (\A j \in LeaseIds : j # i => rows'[j] = rows[j]) /\ i \in LeaseIds
    BY <1>1, <2>1
  <2>a. rows[i] = NoLease
    BY <1>3
  <2>b. revived' = revived
    BY <1>1
  <2> HIDE DEF i
  <2>8. CASE Active(i)'
    <3>1. HoldersOf' = [HoldersOf EXCEPT ![l.ip] = @ \cup {i}]
      BY <2>0, <2>a, <2>3, <2>4, <2>5, <2>8, HoldersWrite
    <3>2. \A b \in Addrs : i \notin HoldersOf[b]
      BY <2>0, <2>a, <2>3, <2>5, HoldersWrite
    <3> QED
      BY <2>0, <2>b, <2>6, <2>7, <3>1, <3>2, LedgerGrant
  <2>9. CASE ~Active(i)'
    <3>1. HoldersOf' = HoldersOf
      BY <2>0, <2>a, <2>3, <2>5, <2>9, HoldersWrite
    <3> QED
      BY <2>b, <3>1, LedgerStutter
  <2> QED
    BY <2>8, <2>9
<1> QED
  BY <1>0, <1>2, <1>3 DEF Create, InsertOK

\* Steps that write no row.
LEMMA LedgerIdle ==
  ASSUME UNCHANGED <<rows, revived>>
  PROVE  UNCHANGED Ledger!vars
<1>1. HoldersOf' = HoldersOf
  BY DEF HoldersOf, Present
<1> QED
  BY <1>1, LedgerStutter

\* Every step is a step of the ledger or changes nothing in it.
LEMMA LedgerStep ==
  ASSUME TypeInv, TypeInv', AddressInv, ~Async, [Next]_vars
  PROVE  Ledger!Next \/ UNCHANGED Ledger!vars
<1> DEFINE Goal == Ledger!Next \/ UNCHANGED Ledger!vars
<1>1. ASSUME NEW r \in Requests,
             \/ Begin(r) \/ Refuse(r) \/ GetActiveHit(r) \/ GetActiveRow(r)
             \/ GetActiveNone(r) \/ RefuseMark(r) \/ AcquireLock(r) \/ Pick(r)
             \/ PickNone(r) \/ ProbeQuiet(r) \/ Unlock(r) \/ Return(r)
             \/ GetByIdHit(r) \/ GetByIdRow(r) \/ GetByIdFails(r)
             \/ FillActive(r) \/ FillById(r) \/ ConfirmFails(r) \/ SyncDone(r)
      PROVE  UNCHANGED <<rows, revived>>
  BY <1>1 DEF Begin, Refuse, GetActiveHit, GetActiveRow, GetActiveNone, RefuseMark,
         AcquireLock, Pick, PickNone, ProbeQuiet, Unlock, Return, GetByIdHit,
         GetByIdRow, GetByIdFails, FillActive, FillById, ConfirmFails, SyncDone,
         SyncCaches, storeVars
<1>2. ASSUME NEW r \in Requests, WritesBack(r) PROVE Goal
  <2>1. ASSUME NEW l \in Leases, NEW next \in SyncLabels, Has(l), UpdateLease(r, l, next)
        PROVE  Goal
    BY <2>1, LedgerUpdate, LedgerIdle DEF UpdateLease, AddressInv
  <2> QED
    BY <1>2, <2>1, LedgerIdle DEF WritesBack
<1>3. ASSUME NEW r \in Requests, Begin(r) \/ Refuse(r) \/ Progress(r) PROVE Goal
  BY <1>1, <1>2, <1>3, WriteForms, LedgerCreate, LedgerIdle DEF Progress
<1>4. ASSUME NEW i \in LeaseIds PROVE ~(AsyncWrite(i) \/ AsyncSync(i))
  BY DEF AsyncWrite, AsyncSync, AddressInv, BgInv
<1>5. ASSUME ReclaimWrite PROVE Goal
  <2>1. PICK m \in batch : rows' = Updated(rows, Released(m, now)) \/ rows' = rows
    BY <1>5 DEF ReclaimWrite
  <2>2. m \in Leases /\ Has(m) /\ revived' = revived
    BY <1>5 DEF ReclaimWrite, TypeInv, TypeOK, AddressInv, BatchInv
  <2>3. Has(Released(m, now)) /\ Released(m, now).state = "RELEASED"
    BY <2>2, SameAddress DEF Released, Leases
  <2>4. Released(m, now) \in Leases
    BY <2>2 DEF Released, Leases, LeaseStates, TypeInv, TypeOK
  <2> QED
    BY <2>1, <2>2, <2>3, <2>4, LedgerUpdate, LedgerIdle DEF AddressInv
<1>6. ASSUME \/ ReclaimList \/ ReclaimSync \/ (\E c \in Clients : CacheDrop(c))
             \/ LockExpire \/ RoleChange \/ Tick \/ Terminated \/ UNCHANGED vars
      PROVE  UNCHANGED <<rows, revived>>
  BY <1>6 DEF ReclaimList, ReclaimSync, CacheDrop, LockExpire, RoleChange, Tick,
              Terminated, vars, storeVars
<1> QED
  BY <1>3, <1>4, <1>5, <1>6, LedgerIdle DEF Next

\* Under the same conditions the lease service implements AddressLedger: every
\* step of every goroutine is a grant of an address nobody else was granted, a
\* drop, a bring-back or no step of the ledger at all.
THEOREM ImplementsLedger ==
  ASSUME Redis, Kafka, ~LockMayExpire
  PROVE  Spec => LedgerSpec
<1>1. Init => Ledger!Init
  BY DEF Init, Ledger!Init, Present
<1>2. ~Async
  BY DEF Async
<1>3. TypeInv /\ TypeInv' /\ AddressInv /\ [Next]_vars => [Ledger!Next]_Ledger!vars
  BY <1>2, LedgerStep
<1> QED
  BY <1>1, <1>3, TypeInvariant, AddressInvariant, PTL DEF Spec, LedgerSpec, Ledger!Spec

-----------------------------------------------------------------------------
(* Static bindings.                                                        *)

\* A row or a new record on a bound address is the bound client's, whatever
\* its state: neither address nor owner of a row ever changes.
Proper(l) == \A b \in Bindings : l.ip = b[2] => l.hw = b[1]
BindInv   == /\ \A i \in LeaseIds : rows[i] # NoLease => Proper(rows[i])
             /\ \A r \in Requests : pc[r] = "create" => Proper(snap[r])

\* An UPDATE keeps address and owner of its row.
LEMMA BindUpdate ==
  ASSUME TypeInv, BindInv, NEW l \in Leases, Has(l), rows' = Updated(rows, l)
  PROVE  \A i \in LeaseIds : rows'[i] # NoLease => Proper(rows'[i])
<1>1. l.id \in LeaseIds /\ rows[l.id] # NoLease /\ rows[l.id].ip = l.ip
  BY DEF Has, Leases
<1>2. rows'[l.id] = [l EXCEPT !.hw = rows[l.id].hw, !.tn = FALSE]
  BY <1>1 DEF Updated, TypeInv, TypeOK
<1>3. rows'[l.id].ip = rows[l.id].ip /\ rows'[l.id].hw = rows[l.id].hw
  BY <1>1, <1>2 DEF Leases
<1>4. \A i \in LeaseIds : i # l.id => rows'[i] = rows[i]
  BY <1>1 DEF Updated, TypeInv, TypeOK
<1> QED
  BY <1>1, <1>3, <1>4 DEF BindInv, Proper

\* pickIPAddress leaves addresses bound to other clients out.
LEMMA BindPick ==
  ASSUME TypeInv, NEW r \in Requests, Pick(r)
  PROVE  Proper(snap'[r])
<1>1. PICK a \in Available(job[r].who) :
        snap' = [snap EXCEPT ![r] = NewLease(<<r, att[r]>>, a, job[r].who, now)]
  BY DEF Pick, Take
<1>2. snap'[r].ip = a /\ snap'[r].hw = job[r].who
  BY <1>1 DEF NewLease, TypeInv, TypeOK
<1>3. a \in Addrs /\ a \notin ReservedFrom(job[r].who)
  BY DEF Available, BoundAddrs
<1>4. ASSUME NEW b \in Bindings, a = b[2] PROVE job[r].who = b[1]
  <2>1. b[1] \in Clients /\ b = <<b[1], b[2]>>
    BY ServiceAssumption DEF ServiceAssumption
  <2> QED
    BY <1>3, <1>4, <2>1 DEF ReservedFrom
<1> QED
  BY <1>2, <1>4 DEF Proper

\* Every step keeps the bindings.
LEMMA BindStep ==
  ASSUME TypeInv, TypeInv', AddressInv, LockInv, Redis, ~Async, BindInv, [Next]_vars
  PROVE  BindInv'
<1> DEFINE RowsProper == \A i \in LeaseIds : rows'[i] # NoLease => Proper(rows'[i])
           NewProper  == \A s \in Requests : pc'[s] = "create" => Proper(snap'[s])
<1>0. RowsProper /\ NewProper => BindInv'
  BY DEF BindInv, Proper
<1>i. rows' = rows => RowsProper
  BY DEF BindInv
<1>r. ASSUME NEW r \in Requests, Others(r), pc'[r] # "create" \/ Proper(snap'[r])
      PROVE  NewProper
  BY <1>r DEF BindInv, Others
<1>b. UNCHANGED <<pc, snap>> => NewProper
  BY DEF BindInv
<1>1. ASSUME NEW r \in Requests, Begin(r) \/ Refuse(r) \/ Progress(r) PROVE BindInv'
  <2>o. Others(r)
    BY <1>1, LockKept, LockTaken, LockGiven DEF Progress
  <2>t. pc \in [Requests -> Labels]
    BY DEF TypeInv, TypeOK
  <2>1. CASE Pick(r)
    <3>1. rows' = rows
      BY <2>1 DEF Pick, storeVars
    <3> QED
      BY <1>0, <1>i, <1>r, <2>o, <2>1, <3>1, BindPick
  <2>2. CASE Create(r)
    <3>1. pc'[r] # "create"
      BY <2>t, <2>2 DEF Create, Goto, Fail
    <3>2. PICK l \in Leases : l = snap[r]
      BY <2>2 DEF TypeInv, ReqOK, CopyLabels, Create
    <3>3. Proper(l) /\ l.id \in LeaseIds
      BY <2>2, <3>2 DEF BindInv, Create, Leases
    <3>4. rows' = rows \/ rows' = Inserted(rows, l)
      BY <2>2, <3>2 DEF Create
    <3>5. ASSUME rows' = Inserted(rows, l) PROVE RowsProper
      <4>1. rows'[l.id] = [l EXCEPT !.tn = FALSE] /\ \A i \in LeaseIds : i # l.id => rows'[i] = rows[i]
        BY <3>3, <3>5 DEF Inserted, TypeInv, TypeOK
      <4>2. rows'[l.id].ip = l.ip /\ rows'[l.id].hw = l.hw
        BY <4>1 DEF Leases
      <4>3. Proper(rows'[l.id])
        BY <3>3, <4>2 DEF Proper
      <4>4. ASSUME NEW i \in LeaseIds, rows'[i] # NoLease PROVE Proper(rows'[i])
        <5>1. CASE i = l.id
          BY <4>3, <5>1
        <5>2. CASE i # l.id
          <6>1. rows'[i] = rows[i]
            BY <4>1, <5>2
          <6>2. Proper(rows[i])
            BY <4>4, <6>1 DEF BindInv
          <6> QED
            BY <6>1, <6>2
        <5> QED
          BY <5>1, <5>2
      <4> QED
        BY <4>4
    <3> QED
      BY <1>0, <1>i, <1>r, <2>o, <3>1, <3>4, <3>5
  <2>3. CASE \/ Renew(r) \/ Reclaim(r) \/ ProbeAlive(r) \/ UpdateFSM(r)
             \/ ReleaseActive(r) \/ AdminUpdate(r)
    <3>1. WritesBack(r)
      BY <2>3, WriteForms
    <3>2. ASSUME NEW l \in Leases, NEW next \in SyncLabels, Has(l), UpdateLease(r, l, next)
          PROVE  RowsProper /\ pc'[r] # "create"
      <4>1. RowsProper
        BY <1>i, <3>2, BindUpdate DEF UpdateLease
      <4>2. pc'[r] # "create"
        BY <2>t, <3>2 DEF UpdateLease, Goto, Fail, SyncLabels
      <4> QED
        BY <4>1, <4>2
    <3>3. ASSUME UNCHANGED rows, NEW next \in {"unlock", "return", "get"},
                 pc' = [pc EXCEPT ![r] = next]
          PROVE  RowsProper /\ pc'[r] # "create"
      BY <1>i, <2>t, <3>3
    <3>4. RowsProper /\ pc'[r] # "create"
      BY <3>1, <3>2, <3>3 DEF WritesBack
    <3> QED
      BY <1>0, <1>r, <2>o, <3>4
  <2>4. CASE \/ Begin(r) \/ Refuse(r) \/ GetActiveHit(r) \/ GetActiveRow(r)
             \/ GetActiveNone(r) \/ RefuseMark(r) \/ AcquireLock(r) \/ PickNone(r)
             \/ ProbeQuiet(r) \/ Unlock(r) \/ Return(r) \/ GetByIdHit(r)
             \/ GetByIdRow(r) \/ GetByIdFails(r)
    <3>1. rows' = rows
      BY <2>4 DEF Begin, Refuse, GetActiveHit, GetActiveRow, GetActiveNone, RefuseMark,
         AcquireLock, PickNone, ProbeQuiet, Unlock, Return, GetByIdHit, GetByIdRow,
         GetByIdFails, storeVars
    <3>2. pc'[r] # "create"
      BY <2>t, <2>4 DEF Begin, Refuse, GetActiveHit, GetActiveRow, GetActiveNone,
         RefuseMark, AcquireLock, PickNone, ProbeQuiet, Unlock, Return, GetByIdHit,
         GetByIdRow, GetByIdFails, Goto, Fail, Found, NextRelease, ByIdNext
    <3> QED
      BY <1>0, <1>i, <1>r, <2>o, <3>1, <3>2
  <2>5. CASE FillActive(r) \/ FillById(r) \/ ConfirmFails(r) \/ SyncDone(r)
    <3>1. rows' = rows
      BY <2>5 DEF FillActive, FillById, ConfirmFails, SyncDone, SyncCaches
    <3>2. pc'[r] # "create"
      BY <2>t, <2>5 DEF FillActive, FillById, ConfirmFails, SyncDone, Goto, Fail, Found,
                        ByIdNext, NextAttempt, NextRelease
    <3> QED
      BY <1>0, <1>i, <1>r, <2>o, <3>1, <3>2
  <2> QED
    BY <1>1, <2>1, <2>2, <2>3, <2>4, <2>5 DEF Progress
<1>2. ASSUME NEW i \in LeaseIds PROVE ~(AsyncWrite(i) \/ AsyncSync(i))
  BY DEF AsyncWrite, AsyncSync, AddressInv, BgInv
<1>3. ASSUME ReclaimWrite PROVE BindInv'
  <2>1. PICK m \in batch : rows' = Updated(rows, Released(m, now)) \/ rows' = rows
    BY <1>3 DEF ReclaimWrite
  <2>2. m \in Leases /\ Has(m) /\ UNCHANGED <<pc, snap>>
    BY <1>3 DEF ReclaimWrite, TypeInv, TypeOK, AddressInv, BatchInv, reqVars
  <2>3. Has(Released(m, now))
    BY <2>2, SameAddress
  <2>4. Released(m, now) \in Leases
    BY <2>2 DEF Released, Leases, LeaseStates, TypeInv, TypeOK
  <2> QED
    BY <1>0, <1>i, <1>b, <2>1, <2>2, <2>3, <2>4, BindUpdate
<1>4. ASSUME \/ ReclaimList \/ ReclaimSync \/ (\E c \in Clients : CacheDrop(c))
             \/ LockExpire \/ RoleChange \/ Tick \/ Terminated \/ UNCHANGED vars
      PROVE  BindInv'
  <2>1. UNCHANGED <<rows, pc, snap>>
    BY <1>4 DEF ReclaimList, ReclaimSync, CacheDrop, LockExpire, RoleChange, Tick,
                Terminated, vars, storeVars, reqVars
  <2> QED
    BY <1>0, <1>i, <1>b, <2>1
<1> QED
  BY <1>1, <1>2, <1>3, <1>4 DEF Next

\* Under the same conditions an address bound to one client is never the
\* ACTIVE address of another client's row, through renewals, declines,
\* take-overs and writes from stale copies.
THEOREM BindingsRespected ==
  ASSUME Redis, Kafka, ~LockMayExpire
  PROVE  Spec => []BindingRespected
<1>1. Init => BindInv
  BY DEF Init, BindInv
<1>2. ~Async
  BY DEF Async
<1>3. TypeInv /\ TypeInv' /\ LockInv /\ AddressInv /\ BindInv /\ [Next]_vars => BindInv'
  BY <1>2, BindStep
<1>4. BindInv => BindingRespected
  BY DEF BindInv, BindingRespected, Proper, Present
<1> QED
  BY <1>1, <1>3, <1>4, TypeInvariant, LockInvariant, AddressInvariant, PTL DEF Spec

-----------------------------------------------------------------------------
(* Grants are recorded: with synchronous persistence a handler returns only  *)
(* leases the table has.  No property of the pool lock is used, so the       *)
(* argument is separate from that of the addresses: the invariant says that  *)
(* every copy of a lease, in a cache, with the reclaimer or in a request,    *)
(* belongs to its row.  Then handlers one at a time: the cache agrees with   *)
(* the table, and what is released stays released.                           *)

(* A copy of a lease belongs to its row: same address and, unless the row   *)
(* was brought back, same client.                                           *)

Belongs(l) == Has(l) /\ (rows[l.id].hw = l.hw \/ l.id \in revived)

\* Steps at which a request that serves a packet holds the lease it grants.
GrantLabels == (HasLabels \ {"reclaim"}) \cup {"unlock", "idGet", "return"}

GrantCaches ==
  /\ \A c \in Clients : active[c] # NoLease => Belongs(active[c]) /\ active[c].hw = c
  /\ \A k \in CacheKeys : byId[k] # NoLease => Belongs(byId[k]) /\ byId[k].id = k[2]
GrantBatch == (\A l \in batch : Belongs(l)) /\ (rec # NoLease => Belongs(rec))

\* What a request returns is the row of its client.
Granted(r) ==
  /\ snap[r] \in Leases /\ Has(snap[r])
  /\ rows[snap[r].id].hw = job[r].who \/ snap[r].id \in revived
GrantReq(r) ==
  /\ pc[r] \in HasLabels => Belongs(snap[r])
  /\ pc[r] \in GrantLabels /\ ok[r] /\ job[r].kind \in AllocKinds => Granted(r)
  /\ pc[r] \in {"create", "fill"} => snap[r].hw = job[r].who
  /\ pc[r] = "reclaim" => rows[snap[r].id].state # "ACTIVE" \/ snap[r].id \in revived

GrantInv == RowInv /\ BgInv /\ GrantCaches /\ GrantBatch /\ \A r \in Requests : GrantReq(r)

\* A step that keeps every row's address and client, and brings no row back to
\* ACTIVE without recording it.
Steady ==
  /\ \A i \in LeaseIds : rows[i] # NoLease =>
       /\ rows'[i] # NoLease
       /\ rows'[i].ip = rows[i].ip /\ rows'[i].hw = rows[i].hw
       /\ rows[i].state # "ACTIVE" => rows'[i].state # "ACTIVE" \/ i \in revived'
  /\ revived \subseteq revived'
  /\ RowInv'

\* A step that writes no row is steady.
LEMMA SteadyIdle ==
  ASSUME RowInv, UNCHANGED <<rows, revived>>
  PROVE  Steady
BY DEF Steady, RowInv

\* So is a write back of a copy that has the address of its row ...
LEMMA SteadyUpdate ==
  ASSUME TypeInv, RowInv, NEW l \in Leases, Has(l), rows' = Updated(rows, l),
         revived' = Revive(l) \/ (l.state = "RELEASED" /\ revived' = revived)
  PROVE  Steady
<1>1. l.id \in LeaseIds /\ rows[l.id] # NoLease /\ rows[l.id].ip = l.ip
  BY DEF Has, Leases
<1>2. rows[l.id] \in Leases
  BY <1>1 DEF TypeInv, TypeOK
<1> DEFINE m == [l EXCEPT !.hw = rows[l.id].hw, !.tn = FALSE]
<1>3. /\ m \in Leases /\ m.id = l.id /\ m.ip = l.ip /\ m.hw = rows[l.id].hw
      /\ m.state = l.state
  BY <1>2 DEF Leases
<1>4. m # NoLease
  BY <1>3, StoreAssumption DEF StoreAssumption
<1>5. rows' = [rows EXCEPT ![l.id] = m]
  BY <1>1 DEF Updated
<1>6. rows'[l.id] = m /\ \A i \in LeaseIds : i # l.id => rows'[i] = rows[i]
  BY <1>1, <1>5 DEF TypeInv, TypeOK
<1>7. revived \subseteq revived'
  BY DEF Revive
<1>8. rows[l.id].state # "ACTIVE" => l.state = "RELEASED" \/ l.id \in revived'
  BY <1>1 DEF Revive
<1> HIDE DEF m
<1>9. ASSUME NEW i \in LeaseIds, rows[i] # NoLease
      PROVE  /\ rows'[i] # NoLease
             /\ rows'[i].ip = rows[i].ip /\ rows'[i].hw = rows[i].hw
             /\ rows[i].state # "ACTIVE" => rows'[i].state # "ACTIVE" \/ i \in revived'
  BY <1>1, <1>3, <1>4, <1>6, <1>8, <1>9
<1>10. RowInv'
  BY <1>3, <1>6 DEF RowInv
<1> QED
  BY <1>7, <1>9, <1>10 DEF Steady

\* ... and the INSERT of a row, which then is the copy's.
LEMMA SteadyInsert ==
  ASSUME TypeInv, RowInv, NEW l \in Leases, rows[l.id] = NoLease,
         rows' = Inserted(rows, l), revived' = revived
  PROVE  /\ Steady
         /\ rows'[l.id] # NoLease /\ rows'[l.id].ip = l.ip /\ rows'[l.id].hw = l.hw
<1>1. l.id \in LeaseIds
  BY DEF Leases
<1> DEFINE m == [l EXCEPT !.tn = FALSE]
<1>2. m \in Leases /\ m.id = l.id /\ m.ip = l.ip /\ m.hw = l.hw
  BY DEF Leases
<1>3. m # NoLease
  BY <1>2, StoreAssumption DEF StoreAssumption
<1>4. rows'[l.id] = m /\ \A i \in LeaseIds : i # l.id => rows'[i] = rows[i]
  BY <1>1 DEF Inserted, TypeInv, TypeOK
<1> HIDE DEF m
<1>5. RowInv'
  BY <1>2, <1>4 DEF RowInv
<1> QED
  BY <1>2, <1>3, <1>4, <1>5 DEF Steady

\* A copy that belongs to its row still does after a steady step.
LEMMA SteadyKeeps ==
  ASSUME Steady, NEW l \in Leases
  PROVE  /\ Has(l) => rows'[l.id] # NoLease /\ rows'[l.id].ip = l.ip
         /\ Belongs(l) => /\ rows'[l.id] # NoLease /\ rows'[l.id].ip = l.ip
                          /\ rows'[l.id].hw = l.hw \/ l.id \in revived'
<1>1. l.id \in LeaseIds
  BY DEF Leases
<1> QED
  BY <1>1 DEF Steady, Belongs, Has

\* The requests a step does not move keep what they hold.
LEMMA SteadyOthers ==
  ASSUME TypeInv, GrantInv, Steady, NEW s \in Requests,
         pc'[s] = pc[s], job'[s] = job[s], snap'[s] = snap[s], ok'[s] = ok[s]
  PROVE  GrantReq(s)'
<1>1. GrantReq(s) /\ ReqOK(s)
  BY DEF GrantInv, TypeInv
<1>2. ASSUME pc[s] \in HasLabels PROVE Belongs(snap[s])'
  <2>1. snap[s] \in Leases /\ Belongs(snap[s])
    BY <1>1, <1>2 DEF ReqOK, GrantReq, HasLabels
  <2> QED
    BY <2>1, SteadyKeeps DEF Belongs, Has
<1>3. ASSUME pc[s] \in GrantLabels, ok[s], job[s].kind \in AllocKinds PROVE Granted(s)'
  <2>1. snap[s] \in Leases /\ snap[s].id \in LeaseIds /\ Granted(s)
    BY <1>1, <1>3 DEF GrantReq, Granted, Leases
  <2> QED
    BY <2>1, SteadyKeeps DEF Granted, Has, Steady
<1>4. ASSUME pc[s] = "reclaim"
      PROVE  rows'[snap[s].id].state # "ACTIVE" \/ snap[s].id \in revived'
  <2>1. snap[s] \in Leases /\ snap[s].id \in LeaseIds /\ Has(snap[s])
    BY <1>1, <1>4 DEF ReqOK, GrantReq, HasLabels, CopyLabels, Belongs, Leases
  <2> QED
    BY <1>1, <1>4, <2>1 DEF Steady, GrantReq, Has
<1> QED
  BY <1>1, <1>2, <1>3, <1>4 DEF GrantReq

\* The copies in the caches and with the reclaimer keep belonging, whichever of
\* them are dropped.
LEMMA SteadyCaches ==
  ASSUME TypeInv, GrantInv, Steady,
         \A c \in Clients : active'[c] \in {active[c], NoLease},
         \A k \in CacheKeys : byId'[k] \in {byId[k], NoLease}
  PROVE  GrantCaches'
<1>1. ASSUME NEW c \in Clients, active'[c] # NoLease
      PROVE  Belongs(active[c])' /\ active'[c].hw = c
  <2>1. active'[c] = active[c]
    BY <1>1
  <2>2. active[c] \in Leases /\ Belongs(active[c]) /\ active[c].hw = c
    BY <1>1, <2>1 DEF TypeInv, TypeOK, GrantInv, GrantCaches
  <2> QED
    BY <2>1, <2>2, SteadyKeeps DEF Belongs, Has
<1>2. ASSUME NEW k \in CacheKeys, byId'[k] # NoLease
      PROVE  Belongs(byId[k])' /\ byId'[k].id = k[2]
  <2>1. byId'[k] = byId[k]
    BY <1>2
  <2>2. byId[k] \in Leases /\ Belongs(byId[k]) /\ byId[k].id = k[2]
    BY <1>2, <2>1 DEF TypeInv, TypeOK, GrantInv, GrantCaches
  <2> QED
    BY <2>1, <2>2, SteadyKeeps DEF Belongs, Has
<1> QED
  BY <1>1, <1>2 DEF GrantCaches

LEMMA SteadyBatch ==
  ASSUME TypeInv, GrantInv, Steady, batch' \subseteq batch, rec' \in {rec, NoLease}
  PROVE  GrantBatch'
<1>1. ASSUME NEW l \in batch PROVE Belongs(l)'
  BY SteadyKeeps DEF Belongs, Has, TypeInv, TypeOK, GrantInv, GrantBatch
<1>2. rec # NoLease => Belongs(rec) /\ rec \in Leases
  BY DEF TypeInv, TypeOK, GrantInv, GrantBatch
<1>3. ASSUME rec' # NoLease PROVE Belongs(rec)'
  <2>1. rec' = rec /\ Belongs(rec) /\ rec \in Leases
    BY <1>2, <1>3
  <2> QED
    BY <2>1, SteadyKeeps DEF Belongs, Has
<1> QED
  BY <1>1, <1>3 DEF GrantBatch

\* A steady step of one request.
LEMMA SteadyStep ==
  ASSUME TypeInv, GrantInv, NEW r \in Requests, Frame(r), Steady,
         GrantReq(r)', GrantCaches', UNCHANGED <<bg, batch, rec>>
  PROVE  GrantInv'
<1>1. ASSUME NEW s \in Requests PROVE GrantReq(s)'
  <2>1. CASE s = r
    BY <2>1
  <2>2. CASE s # r
    BY <2>2, SteadyOthers DEF Frame
  <2> QED
    BY <2>1, <2>2
<1>2. GrantBatch'
  BY SteadyBatch
<1>3. BgInv' /\ RowInv'
  BY DEF GrantInv, BgInv, Steady
<1> QED
  BY <1>1, <1>2, <1>3 DEF GrantInv

(* The steps of a request.                                                 *)

\* A step of one request moves no other.
LEMMA Alone ==
  ASSUME TypeInv, NEW r \in Requests, Begin(r) \/ Refuse(r) \/ Progress(r)
  PROVE  Frame(r)
<1> USE DEF Frame, Goto, Take, Fail
<1>t. /\ pc \in [Requests -> Labels] /\ job \in [Requests -> Jobs \cup {NoLease}]
      /\ snap \in [Requests -> Leases \cup {NoLease}] /\ ok \in [Requests -> BOOLEAN]
  BY DEF TypeInv, TypeOK
<1>1. CASE Begin(r) \/ Refuse(r) \/ GetActiveHit(r) \/ GetActiveRow(r) \/ RefuseMark(r)
             \/ FillActive(r) \/ AcquireLock(r) \/ Pick(r) \/ Create(r) \/ ProbeQuiet(r)
             \/ Unlock(r) \/ GetByIdHit(r) \/ GetByIdRow(r) \/ GetByIdFails(r)
             \/ FillById(r) \/ Return(r)
  BY <1>t, <1>1 DEF Begin, Refuse, GetActiveHit, GetActiveRow, RefuseMark, FillActive,
       AcquireLock, Pick, Create, ProbeQuiet, Unlock, GetByIdHit, GetByIdRow,
       GetByIdFails, FillById, Return
<1>2. CASE GetActiveNone(r)
  BY <1>t, <1>2 DEF GetActiveNone, NextRelease
<1>3. CASE PickNone(r)
  BY <1>t, <1>3 DEF PickNone
<1>4. CASE Renew(r) \/ Reclaim(r) \/ ProbeAlive(r)
  BY <1>t, <1>4 DEF Renew, Reclaim, ProbeAlive, UpdateLease
<1>5. CASE UpdateFSM(r) \/ AdminUpdate(r)
  BY <1>t, <1>5 DEF UpdateFSM, AdminUpdate, UpdateLease
<1>6. CASE ReleaseActive(r)
  BY <1>t, <1>6 DEF ReleaseActive, UpdateLease, NextRelease
<1>7. CASE ConfirmFails(r)
  BY <1>t, <1>7 DEF ConfirmFails, SyncCaches
<1>8. CASE SyncDone(r)
  BY <1>t, <1>8 DEF SyncDone, SyncCaches, NextAttempt, NextRelease
<1> QED
  BY <1>1, <1>2, <1>3, <1>4, <1>5, <1>6, <1>7, <1>8 DEF Progress

\* Steps that neither write a row nor a cache key.
LEMMA GrantReads ==
  ASSUME TypeInv, GrantInv, NEW r \in Requests, Frame(r),
         \/ Begin(r) \/ Refuse(r) \/ GetActiveHit(r) \/ GetActiveRow(r)
         \/ GetActiveNone(r) \/ RefuseMark(r) \/ AcquireLock(r) \/ Pick(r)
         \/ PickNone(r) \/ ProbeQuiet(r) \/ Unlock(r) \/ Return(r)
         \/ GetByIdHit(r) \/ GetByIdRow(r) \/ GetByIdFails(r)
  PROVE  GrantInv'
<1> USE DEF GrantReq, Granted, Belongs, Has, HasLabels, GrantLabels, CopyLabels,
            SyncLabels, Goto, Take, Fail
<1>t. /\ pc \in [Requests -> Labels] /\ job \in [Requests -> Jobs \cup {NoLease}]
      /\ snap \in [Requests -> Leases \cup {NoLease}] /\ ok \in [Requests -> BOOLEAN]
  BY DEF TypeInv, TypeOK
<1>r. ReqOK(r) /\ GrantReq(r)
  BY DEF TypeInv, GrantInv
<1>k. pc[r] \in {"get", "pick", "idGet"} => job[r] \in Jobs
  BY <1>r DEF ReqOK
<1>w. job[r] \in Jobs => job[r].who \in Clients /\ job[r].id \in LeaseIds
  BY DEF Jobs
<1>i. pc[r] = "idGet" => TargetId(r) \in LeaseIds
  BY <1>r DEF ReqOK, TargetId, Jobs, Leases
<1>a. AllocKinds \cap AdminKinds = {}
  BY DEF AllocKinds, AdminKinds
<1>x. UNCHANGED <<rows, active, byId, revived, bg, batch, rec>>
  BY DEF Begin, Refuse, GetActiveHit, GetActiveRow, GetActiveNone, RefuseMark,
         AcquireLock, Pick, PickNone, ProbeQuiet, Unlock, Return, GetByIdHit,
         GetByIdRow, GetByIdFails, storeVars
<1>s. Steady
  BY <1>x, SteadyIdle DEF GrantInv
<1>h. \A i \in LeaseIds : rows[i] # NoLease => Belongs(rows[i]) /\ rows[i] \in Leases
  BY DEF GrantInv, RowInv, TypeInv, TypeOK
<1>1. ASSUME Begin(r) PROVE GrantReq(r)'
  <2>1. PICK k \in Kinds, c \in Clients, i \in LeaseIds :
          /\ job' = [job EXCEPT ![r] = [kind |-> k, who |-> c, id |-> i]]
          /\ \/ pc' = [pc EXCEPT ![r] = "unlock"] /\ ok' = [ok EXCEPT ![r] = FALSE]
             \/ pc' = [pc EXCEPT ![r] = IF k \in AdminKinds THEN "idGet" ELSE "get"]
    BY <1>1, Zenon DEF Begin
  <2>2. job'[r].kind = k
    BY <1>t, <2>1
  <2>3. \/ pc'[r] = "unlock" /\ ok'[r] = FALSE
        \/ pc'[r] = "idGet" /\ k \in AdminKinds
        \/ pc'[r] = "get"
    BY <1>t, <2>1
  <2> QED
    BY <1>a, <2>2, <2>3
<1>2. ASSUME Refuse(r) PROVE GrantReq(r)'
  BY <1>t, <1>2 DEF Refuse
<1>3. ASSUME GetActiveHit(r) PROVE GrantReq(r)'
  <2>1. /\ active[job[r].who] \in Leases /\ Belongs(active[job[r].who])
        /\ active[job[r].who].hw = job[r].who
    BY <1>k, <1>w, <1>3 DEF GetActiveHit, GrantInv, GrantCaches, TypeInv, TypeOK
  <2>2. pc'[r] \in {"renew", "release"} /\ snap'[r] = active[job[r].who]
        /\ UNCHANGED <<rows, revived, job, ok>>
    BY <1>t, <1>x, <1>3 DEF GetActiveHit, Found
  <2> QED
    BY <2>1, <2>2
<1>4. ASSUME GetActiveRow(r) PROVE GrantReq(r)'
  <2>1. PICK i \in ActiveRowsOf(rows, job[r].who) : snap' = [snap EXCEPT ![r] = rows[i]]
    BY <1>4 DEF GetActiveRow
  <2>2. rows[i] \in Leases /\ Belongs(rows[i]) /\ rows[i].hw = job[r].who
    BY <1>h DEF ActiveRowsOf, Present
  <2>3. pc'[r] = "fill" /\ snap'[r] = rows[i] /\ UNCHANGED <<rows, revived, job, ok>>
    BY <1>t, <1>x, <1>4, <2>1 DEF GetActiveRow
  <2> QED
    BY <2>2, <2>3
<1>5. ASSUME GetActiveNone(r) PROVE GrantReq(r)'
  <2>1. pc[r] = "get" /\ UNCHANGED <<rows, revived, snap, ok>>
    BY <1>x, <1>5 DEF GetActiveNone
  <2>2. \/ pc'[r] \in {"lock", "get"}
        \/ pc'[r] = "return" /\ job'[r] = job[r] /\ job[r].kind \notin AllocKinds
    BY <1>t, <1>5 DEF GetActiveNone, NextRelease
  <2> QED
    BY <2>1, <2>2
<1>6. ASSUME RefuseMark(r) PROVE GrantReq(r)'
  BY <1>t, <1>6 DEF RefuseMark
<1>7. ASSUME AcquireLock(r) PROVE GrantReq(r)'
  BY <1>t, <1>7 DEF AcquireLock
<1>8. ASSUME Pick(r) PROVE GrantReq(r)'
  BY <1>t, <1>8 DEF Pick, NewLease
<1>9. ASSUME PickNone(r) PROVE GrantReq(r)'
  <2>1. ASSUME pc' = [pc EXCEPT ![r] = "unlock"], ok' = [ok EXCEPT ![r] = FALSE]
        PROVE  GrantReq(r)'
    BY <1>t, <2>1
  <2>2. ASSUME NEW i \in ReclaimableRows(rows), snap' = [snap EXCEPT ![r] = rows[i]],
               pc' = [pc EXCEPT ![r] = "reclaim"], job' = job, ok' = ok
        PROVE  GrantReq(r)'
    <3>1. rows[i] \in Leases /\ Belongs(rows[i]) /\ rows[i].id = i
          /\ rows[i].state = "COOLDOWN"
      BY <1>h DEF ReclaimableRows, Present, GrantInv, RowInv
    <3> QED
      BY <1>t, <1>x, <2>2, <3>1
  <2> QED
    BY <1>9, <2>1, <2>2 DEF PickNone
<1>10. ASSUME ProbeQuiet(r) PROVE GrantReq(r)'
  BY <1>t, <1>r, <1>x, <1>10 DEF ProbeQuiet
<1>11. ASSUME Unlock(r) PROVE GrantReq(r)'
  BY <1>t, <1>r, <1>x, <1>11 DEF Unlock
<1>12. ASSUME Return(r) PROVE GrantReq(r)'
  BY <1>t, <1>12 DEF Return
<1>13. ASSUME GetByIdHit(r) PROVE GrantReq(r)'
  <2> DEFINE k == KeyById(r, TargetId(r))
  <2>1. k \in CacheKeys /\ k[2] = TargetId(r) /\ byId[k] # NoLease
    BY <1>i, <1>13 DEF GetByIdHit, KeyById, CacheKeys, Tenants, NodeTenant
  <2>2. byId[k] \in Leases /\ Belongs(byId[k]) /\ byId[k].id = TargetId(r)
    BY <2>1 DEF GrantInv, GrantCaches, TypeInv, TypeOK
  <2>3. /\ pc[r] = "idGet" /\ pc'[r] \in {"fsm", "admin"} /\ snap'[r] = byId[k]
        /\ UNCHANGED <<rows, revived, job, ok>>
    BY <1>t, <1>x, <1>13 DEF GetByIdHit, ByIdNext
  <2> HIDE DEF k
  <2> QED
    BY <1>a, <1>r, <2>2, <2>3 DEF TargetId
<1>14. ASSUME GetByIdRow(r) PROVE GrantReq(r)'
  <2>1. /\ pc[r] = "idGet" /\ pc'[r] = "idFill" /\ snap'[r] = rows[TargetId(r)]
        /\ rows[TargetId(r)] # NoLease /\ UNCHANGED <<rows, revived, job, ok>>
    BY <1>t, <1>x, <1>14 DEF GetByIdRow
  <2>2. Belongs(rows[TargetId(r)]) /\ rows[TargetId(r)] \in Leases
        /\ rows[TargetId(r)].id = TargetId(r)
    BY <1>h, <1>i, <2>1 DEF GrantInv, RowInv
  <2> QED
    BY <1>a, <1>r, <2>1, <2>2 DEF TargetId
<1>15. ASSUME GetByIdFails(r) PROVE GrantReq(r)'
  BY <1>t, <1>15 DEF GetByIdFails
<1>c. GrantCaches'
  BY <1>s, <1>x, SteadyCaches
<1> HIDE DEF GrantReq
<1> QED
  BY <1>x, <1>s, <1>c, <1>1, <1>2, <1>3, <1>4, <1>5, <1>6, <1>7, <1>8, <1>9, <1>10,
     <1>11, <1>12, <1>13, <1>14, <1>15, SteadyStep

\* The copy a request writes back: that of its row, at its address, and the
\* client's unless the write brings the row back.
Rewrites(r, l) ==
  /\ l \in Leases /\ Has(l) /\ l.id = snap[r].id
  /\ rows[l.id].hw = l.hw \/ l.id \in Revive(l)
  /\ ok[r] /\ job[r].kind \in AllocKinds
       => rows[l.id].hw = job[r].who \/ l.id \in Revive(l)

\* evictTenant and an error return change nothing else.
LEMMA GrantEvict ==
  ASSUME TypeInv, GrantInv, NEW r \in Requests, Frame(r), NEW l, Fail(r),
         byId' = EvictTenant(byId, l), UNCHANGED <<rows, revived, active, bg, batch, rec>>
  PROVE  GrantInv'
<1>1. Steady
  BY SteadyIdle DEF GrantInv
<1>2. GrantCaches'
  BY <1>1, SteadyCaches DEF EvictTenant
<1>3. GrantReq(r)'
  BY DEF GrantReq, Fail, Goto, HasLabels, GrantLabels, CopyLabels, SyncLabels, TypeInv, TypeOK
<1> QED
  BY <1>1, <1>2, <1>3, SteadyStep

\* The UPDATE of such a copy.
LEMMA GrantUpdate ==
  ASSUME TypeInv, GrantInv, NEW r \in Requests, Frame(r), NEW l, Rewrites(r, l),
         NEW next \in SyncLabels, UpdateLease(r, l, next),
         job'[r] = job[r], UNCHANGED <<active, bg, batch, rec>>
  PROVE  GrantInv'
<1>1. ASSUME byId' = EvictTenant(byId, l), Fail(r), UNCHANGED <<rows, revived>>
      PROVE  GrantInv'
  BY <1>1, GrantEvict
<1>2. ASSUME rows' = Updated(rows, l), revived' = Revive(l), Take(r, l), Goto(r, next),
             UNCHANGED <<byId, ok>>
      PROVE  GrantInv'
  <2>1. Steady
    BY <1>2, SteadyUpdate DEF Rewrites, GrantInv
  <2>2. GrantCaches'
    BY <1>2, <2>1, SteadyCaches
  <2>3. l \in Leases /\ l.id \in LeaseIds /\ rows[l.id] # NoLease /\ rows[l.id].ip = l.ip
    BY DEF Rewrites, Leases, Has
  <2>4. /\ rows'[l.id] # NoLease /\ rows'[l.id].ip = l.ip
        /\ rows'[l.id].hw = rows[l.id].hw
    BY <2>1, <2>3 DEF Steady
  <2>5. snap'[r] = l /\ pc'[r] = next /\ ok'[r] = ok[r]
    BY <1>2 DEF Take, Goto, TypeInv, TypeOK
  <2>6. Belongs(l)' /\ (ok[r] /\ job[r].kind \in AllocKinds => Granted(r)')
    BY <1>2, <2>3, <2>4, <2>5 DEF Belongs, Granted, Has, Rewrites
  <2>7. GrantReq(r)'
    BY <2>5, <2>6 DEF GrantReq, Belongs, Has, SyncLabels
  <2> QED
    BY <1>2, <2>1, <2>2, <2>7, SteadyStep
<1> QED
  BY <1>1, <1>2 DEF UpdateLease

\* The write of a copy with the row's id, address and client.
LEMMA SameClient ==
  ASSUME NEW l \in Leases, NEW t, NEW f, NEW k, NEW g
  PROVE  /\ Renewed(l, f, t).id = l.id /\ Renewed(l, f, t).hw = l.hw
         /\ Held(l, t).id = l.id /\ Held(l, t).hw = l.hw
         /\ TransitionLease(l, g, t).id = l.id /\ TransitionLease(l, g, t).hw = l.hw
         /\ AdminWrites(k, l, t).id = l.id /\ AdminWrites(k, l, t).hw = l.hw
         /\ Released(l, t).id = l.id /\ Released(l, t).hw = l.hw
BY DEF Leases, Renewed, Held, TransitionLease, AdminWrites, Declined, Released

LEMMA RewritesOwn ==
  ASSUME TypeInv, GrantInv, NEW r \in Requests, snap[r] \in Leases, Belongs(snap[r]),
         ok[r] /\ job[r].kind \in AllocKinds => Granted(r),
         NEW l \in Leases, Has(l), l.id = snap[r].id, l.hw = snap[r].hw
  PROVE  Rewrites(r, l)
<1>1. revived \subseteq Revive(l)
  BY DEF Revive
<1> QED
  BY <1>1 DEF Rewrites, Belongs, Granted

\* The six steps that write a row back.
LEMMA GrantWrites ==
  ASSUME TypeInv, GrantInv, ~Async, NEW r \in Requests, Frame(r),
         \/ Renew(r) \/ Reclaim(r) \/ ProbeAlive(r) \/ UpdateFSM(r)
         \/ ReleaseActive(r) \/ AdminUpdate(r)
  PROVE  GrantInv'
<1>t. /\ snap[r] \in Leases /\ now \in Nat /\ job[r] \in Jobs
      /\ pc \in [Requests -> Labels] /\ ok \in [Requests -> BOOLEAN]
      /\ job \in [Requests -> Jobs \cup {NoLease}]
  BY DEF TypeInv, TypeOK, ReqOK, CopyLabels, Renew, Reclaim, ProbeAlive,
         UpdateFSM, ReleaseActive, AdminUpdate
<1>c. job[r].who \in Clients
  BY <1>t DEF Jobs
<1>b. Belongs(snap[r]) /\ Has(snap[r])
  BY DEF Renew, Reclaim, ProbeAlive, UpdateFSM, ReleaseActive, AdminUpdate,
         GrantInv, GrantReq, HasLabels, CopyLabels, Belongs
<1>g. pc[r] # "reclaim" /\ ok[r] /\ job[r].kind \in AllocKinds => Granted(r)
  BY DEF Renew, ProbeAlive, UpdateFSM, ReleaseActive, AdminUpdate, Reclaim,
         GrantInv, GrantReq, GrantLabels, HasLabels, CopyLabels
<1>x. UNCHANGED <<active, bg, batch, rec>>
  BY DEF Renew, Reclaim, ProbeAlive, UpdateFSM, ReleaseActive, AdminUpdate, UpdateLease
<1>f. \A f \in SessionStates(snap[r]) : f \in FSMStates \cup {"none"}
  BY <1>t DEF SessionStates, Leases
<1>o. AllocKinds \cap {"release", "markReleased"} = {}
  BY DEF AllocKinds
\* A copy with the row's client is written ...
<1>u. ASSUME NEW l \in Leases, Has(l), l.id = snap[r].id, l.hw = snap[r].hw,
             pc[r] # "reclaim", job'[r] = job[r],
             NEW next \in SyncLabels, UpdateLease(r, l, next)
      PROVE  GrantInv'
  BY <1>u, <1>t, <1>b, <1>g, <1>x, RewritesOwn, GrantUpdate
\* ... or nothing is.
<1>s. ASSUME UNCHANGED <<rows, byId, revived, snap>>,
             \/ pc'[r] \in {"unlock", "return"} /\ ok'[r] = FALSE
             \/ pc'[r] = "return" /\ job'[r].kind \notin AllocKinds
             \/ pc'[r] = "return" /\ ok'[r] = ok[r] /\ job'[r] = job[r] /\ pc[r] = "fsm"
             \/ pc'[r] = "get"
      PROVE  GrantInv'
  <2>1. Steady
    BY <1>s, SteadyIdle DEF GrantInv
  <2>2. GrantCaches'
    BY <1>s, <1>x, <2>1, SteadyCaches
  <2>3. GrantReq(r)'
    BY <1>s, <1>g DEF GrantReq, HasLabels, GrantLabels, CopyLabels, SyncLabels, Granted, Has
  <2> QED
    BY <1>x, <2>1, <2>2, <2>3, SteadyStep
<1>1. ASSUME Renew(r) PROVE GrantInv'
  <2>1. PICK f \in SessionStates(snap[r]) :
          UpdateLease(r, Renewed(snap[r], f, now), "renewSync")
    BY <1>1 DEF Renew
  <2>2. Renewed(snap[r], f, now) \in Leases /\ Has(Renewed(snap[r], f, now))
    BY <1>t, <1>c, <1>b, <1>f, SameAddress, TransformTypes
  <2>3. pc[r] # "reclaim" /\ job'[r] = job[r]
    BY <1>1 DEF Renew
  <2> QED
    BY <1>u, <1>t, <2>1, <2>2, <2>3, SameClient DEF SyncLabels
<1>2. ASSUME Reclaim(r) PROVE GrantInv'
  <2>1. PICK f \in SessionStates(snap[r]) :
          UpdateLease(r, Reclaimed(snap[r], job[r].who, f, now), "reclaimSync")
    BY <1>2 DEF Reclaim
  <2> DEFINE l == Reclaimed(snap[r], job[r].who, f, now)
  <2>2. l \in Leases /\ Has(l)
    BY <1>t, <1>c, <1>b, <1>f, SameAddress, TransformTypes
  <2>3. l.id = snap[r].id /\ l.state = "ACTIVE"
    BY <1>t DEF Reclaimed, Leases
  <2>4. rows[snap[r].id].state # "ACTIVE" \/ snap[r].id \in revived
    BY <1>2 DEF Reclaim, GrantInv, GrantReq
  <2> HIDE DEF l
  <2>5. l.id \in Revive(l)
    BY <2>2, <2>3, <2>4 DEF Revive, Has
  <2>6. Rewrites(r, l)
    BY <2>2, <2>3, <2>5 DEF Rewrites
  <2>7. UpdateLease(r, l, "reclaimSync") /\ job'[r] = job[r]
    BY <1>2, <2>1 DEF l, Reclaim
  <2> QED
    BY <1>x, <2>6, <2>7, GrantUpdate DEF SyncLabels
<1>3. ASSUME ProbeAlive(r) PROVE GrantInv'
  <2>1. UpdateLease(r, Held(snap[r], now), "holdSync") /\ pc[r] # "reclaim"
        /\ job'[r] = job[r]
    BY <1>3 DEF ProbeAlive
  <2>2. Held(snap[r], now) \in Leases /\ Has(Held(snap[r], now))
    BY <1>t, <1>c, <1>b, SameAddress, TransformTypes
  <2> QED
    BY <1>u, <1>t, <2>1, <2>2, SameClient DEF SyncLabels
<1>4. ASSUME UpdateFSM(r) PROVE GrantInv'
  <2> DEFINE l == TransitionLease(snap[r], Target[job[r].kind], now)
  <2>1. Target[job[r].kind] \in FSMStates
    BY <1>4 DEF UpdateFSM, TypeInv, ReqOK, Target, TargetKinds, FSMStates
  <2>a. l \in Leases
    BY <1>t, <2>1, TransitionType
  <2>b. Has(l)
    BY <1>t, <1>b, SameAddress
  <2>c. l.id = snap[r].id /\ l.hw = snap[r].hw
    BY <1>t, SameClient
  <2>3. /\ pc[r] = "fsm" /\ job'[r] = job[r]
        /\ \/ UpdateLease(r, l, "fsmSync")
           \/ UNCHANGED <<rows, byId, revived, snap>> /\ Fail(r)
           \/ UNCHANGED <<rows, byId, revived, snap, ok>> /\ Goto(r, "return")
    BY <1>4 DEF UpdateFSM
  <2>4. Fail(r) => pc'[r] = "unlock" /\ ok'[r] = FALSE
    BY <1>t DEF Fail, Goto
  <2>5. Goto(r, "return") => pc'[r] = "return"
    BY <1>t DEF Goto
  <2> HIDE DEF l
  <2> QED
    BY <1>u, <1>s, <2>a, <2>b, <2>c, <2>3, <2>4, <2>5 DEF SyncLabels
<1>5. ASSUME ReleaseActive(r) PROVE GrantInv'
  <2> DEFINE l == TransitionLease(snap[r], "Released", now)
  <2>a. l \in Leases
    BY <1>t, TransitionType DEF FSMStates
  <2>b. Has(l)
    BY <1>t, <1>b, SameAddress
  <2>c. l.id = snap[r].id /\ l.hw = snap[r].hw
    BY <1>t, SameClient
  <2>2. /\ pc[r] = "release"
        /\ \/ UpdateLease(r, l, "releaseSync") /\ job' = job
           \/ UNCHANGED <<rows, byId, revived, snap>> /\ Fail(r)
           \/ UNCHANGED <<rows, byId, revived, snap, ok>> /\ NextRelease(r)
    BY <1>5, Zenon DEF ReleaseActive
  <2>3. Fail(r) => pc'[r] = "unlock" /\ ok'[r] = FALSE
    BY <1>t DEF Fail, Goto
  <2>4. job[r].kind \in {"release", "markReleased"}
    BY <2>2 DEF TypeInv, ReqOK
  <2>5. NextRelease(r) =>
          (pc'[r] = "get" \/ (pc'[r] = "return" /\ job'[r].kind \notin AllocKinds))
    <3>1. CASE job[r].kind = "release"
      BY <1>t, <3>1 DEF NextRelease, Goto
    <3>2. CASE job[r].kind = "markReleased"
      BY <1>t, <1>o, <3>2 DEF NextRelease, Goto
    <3> QED
      BY <2>4, <3>1, <3>2
  <2> HIDE DEF l
  <2> QED
    BY <1>u, <1>s, <2>a, <2>b, <2>c, <2>2, <2>3, <2>5 DEF SyncLabels
<1>6. ASSUME AdminUpdate(r) PROVE GrantInv'
  <2> DEFINE l == AdminWrites(job[r].kind, snap[r], now)
  <2>1. l \in Leases /\ Has(l) /\ l.id = snap[r].id /\ l.hw = snap[r].hw
    BY <1>t, <1>c, <1>b, AdminType, SameAddress, SameClient
  <2>2. /\ pc[r] = "admin" /\ job'[r] = job[r]
        /\ \/ UpdateLease(r, l, "adminSync")
           \/ UNCHANGED <<rows, byId, revived, snap, ok>> /\ Goto(r, "return")
    BY <1>6 DEF AdminUpdate
  <2>3. Goto(r, "return") => pc'[r] = "return"
    BY <1>t DEF Goto
  <2>4. job[r].kind \notin AllocKinds
    BY <2>2 DEF TypeInv, ReqOK, AllocKinds, AdminKinds
  <2> HIDE DEF l
  <2> QED
    BY <1>u, <1>s, <2>1, <2>2, <2>3, <2>4 DEF SyncLabels
<1> QED
  BY <1>1, <1>2, <1>3, <1>4, <1>5, <1>6

\* syncActiveLeaseCache and evictTenant of a copy that belongs to its row.
LEMMA GrantSync ==
  ASSUME TypeInv, GrantInv, Steady, UNCHANGED <<rows, revived>>,
         NEW l \in Leases, Belongs(l), active' = SyncActive(active, l),
         byId' = EvictTenant(byId, l) \/ byId' = byId
  PROVE  GrantCaches'
<1>t. active \in Keys /\ l.hw \in Clients
  BY DEF TypeInv, TypeOK, Keys, Leases
<1>1. ASSUME NEW c \in Clients, active'[c] # NoLease
      PROVE  Belongs(active[c])' /\ active'[c].hw = c
  <2>1. (active'[c] = l /\ c = l.hw) \/ active'[c] = active[c]
    BY <1>1, <1>t DEF SyncActive, Keys
  <2>2. active[c] # NoLease => Belongs(active[c]) /\ active[c].hw = c
    BY DEF GrantInv, GrantCaches
  <2> QED
    BY <1>1, <2>1, <2>2 DEF Belongs, Has
<1>2. ASSUME NEW k \in CacheKeys, byId'[k] # NoLease
      PROVE  Belongs(byId[k])' /\ byId'[k].id = k[2]
  <2>1. byId'[k] = byId[k]
    BY <1>2 DEF EvictTenant
  <2> QED
    BY <1>2, <2>1 DEF GrantInv, GrantCaches, Belongs, Has
<1> QED
  BY <1>1, <1>2 DEF GrantCaches

\* The INSERT: the row is the copy's.
LEMMA GrantCreate ==
  ASSUME TypeInv, GrantInv, ~Async, NEW r \in Requests, Frame(r), Create(r)
  PROVE  GrantInv'
<1> DEFINE l == snap[r]
<1>t. /\ l \in Leases /\ pc \in [Requests -> Labels] /\ l.hw = job[r].who
      /\ UNCHANGED <<active, job, snap, revived, batch, rec>>
  BY DEF Create, TypeInv, TypeOK, ReqOK, CopyLabels, GrantInv, GrantReq
<1>1. ASSUME byId' = EvictTenant(byId, l), Fail(r), UNCHANGED <<rows, bg>>
      PROVE  GrantInv'
  BY <1>1, <1>t, GrantEvict
<1>2. ASSUME InsertOK(rows, l), rows' = Inserted(rows, l), Goto(r, "createSync"),
             UNCHANGED <<byId, ok, bg>>
      PROVE  GrantInv'
  <2>1. /\ Steady /\ rows'[l.id] # NoLease /\ rows'[l.id].ip = l.ip
        /\ rows'[l.id].hw = l.hw
    BY <1>2, <1>t, SteadyInsert DEF InsertOK, GrantInv
  <2>2. GrantCaches'
    BY <1>2, <1>t, <2>1, SteadyCaches
  <2>3. pc'[r] = "createSync" /\ snap'[r] = l
    BY <1>2, <1>t DEF Goto
  <2>4. GrantReq(r)'
    BY <1>t, <2>1, <2>3 DEF GrantReq, Belongs, Granted, Has
  <2> QED
    BY <1>2, <1>t, <2>1, <2>2, <2>4, SteadyStep
<1> QED
  BY <1>1, <1>2 DEF Create

\* Steps that put a request's copy in a cache.
LEMMA GrantFills ==
  ASSUME TypeInv, GrantInv, NEW r \in Requests, Frame(r),
         FillActive(r) \/ FillById(r) \/ ConfirmFails(r) \/ SyncDone(r)
  PROVE  GrantInv'
<1>t. /\ pc \in [Requests -> Labels] /\ active \in Keys /\ byId \in IdKeys
      /\ job \in [Requests -> Jobs \cup {NoLease}] /\ ok \in [Requests -> BOOLEAN]
      /\ snap[r] \in Leases /\ job[r] \in Jobs
  BY DEF TypeInv, TypeOK, ReqOK, CopyLabels, FillActive, FillById, ConfirmFails,
         SyncDone, SyncLabels, Keys, IdKeys
<1>b. Belongs(snap[r])
  BY DEF FillActive, FillById, ConfirmFails, SyncDone, GrantInv, GrantReq,
         HasLabels, CopyLabels, SyncLabels
<1>g. ok[r] /\ job[r].kind \in AllocKinds => Granted(r)
  BY DEF FillActive, FillById, ConfirmFails, SyncDone, GrantInv, GrantReq, GrantLabels,
         HasLabels, CopyLabels, SyncLabels
<1>x. UNCHANGED <<rows, revived, bg, batch, rec, snap>>
  BY DEF FillActive, FillById, ConfirmFails, SyncDone, SyncCaches
<1>s. Steady
  BY <1>x, SteadyIdle DEF GrantInv
<1>p. ASSUME NEW l \in Leases, Belongs(l) PROVE Belongs(l)'
  BY <1>p, <1>x DEF Belongs, Has
<1>o. AllocKinds \cap {"release", "markReleased"} = {}
  BY DEF AllocKinds
<1>1. GrantReq(r)'
  <2>1. ASSUME pc'[r] \notin {"create", "reclaim", "fill"},
               \/ ok'[r] = FALSE \/ job'[r].kind \notin AllocKinds \/ pc'[r] = "get"
               \/ ok'[r] = ok[r] /\ job'[r] = job[r]
        PROVE  GrantReq(r)'
    BY <2>1, <1>x, <1>b, <1>g, <1>t DEF GrantReq, Belongs, Has, Granted, GrantLabels,
       HasLabels, CopyLabels, SyncLabels
  <2>2. ASSUME FillActive(r) PROVE GrantReq(r)'
    BY <1>t, <2>1, <2>2 DEF FillActive, Goto, Found
  <2>3. ASSUME FillById(r) PROVE GrantReq(r)'
    BY <1>t, <2>1, <2>3 DEF FillById, Goto, ByIdNext
  <2>4. ASSUME ConfirmFails(r) PROVE GrantReq(r)'
    BY <1>t, <2>1, <2>4 DEF ConfirmFails, Fail, Goto
  <2>5. ASSUME SyncDone(r) PROVE GrantReq(r)'
    <3>1. CASE pc[r] \in {"renewSync", "createSync", "reclaimSync", "fsmSync", "adminSync"}
      BY <1>t, <2>1, <2>5, <3>1 DEF SyncDone, Goto
    <3>2. CASE pc[r] = "holdSync"
      BY <1>t, <2>1, <2>5, <3>2 DEF SyncDone, NextAttempt, Fail, Goto
    <3>3. CASE pc[r] = "releaseSync" /\ job[r].kind = "release"
      BY <1>t, <2>1, <2>5, <3>3 DEF SyncDone, NextRelease, Goto
    <3>4. CASE pc[r] = "releaseSync" /\ job[r].kind = "markReleased"
      BY <1>t, <1>o, <2>1, <2>5, <3>4 DEF SyncDone, NextRelease, Goto
    <3>5. pc[r] = "releaseSync" => job[r].kind \in {"release", "markReleased"}
      BY DEF TypeInv, ReqOK
    <3> QED
      BY <2>5, <3>1, <3>2, <3>3, <3>4, <3>5 DEF SyncDone, SyncLabels
  <2> QED
    BY <2>2, <2>3, <2>4, <2>5
<1>2. GrantCaches'
  <2>1. ASSUME FillActive(r) PROVE GrantCaches'
    <3>1. snap[r].hw = job[r].who /\ active' = [active EXCEPT ![job[r].who] = snap[r]]
          /\ byId' = byId
      BY <2>1 DEF FillActive, GrantInv, GrantReq
    <3>2. ASSUME NEW c \in Clients, active'[c] # NoLease
          PROVE  Belongs(active[c])' /\ active'[c].hw = c
      <4>1. \/ active'[c] = snap[r] /\ c = job[r].who
            \/ active'[c] = active[c]
        BY <1>t, <3>1 DEF Keys
      <4>2. active[c] # NoLease => active[c] \in Leases /\ Belongs(active[c]) /\ active[c].hw = c
        BY <1>t DEF Keys, GrantInv, GrantCaches
      <4> QED
        BY <1>t, <1>b, <1>p, <3>1, <3>2, <4>1, <4>2 DEF Belongs, Has
    <3>3. \A k \in CacheKeys : byId[k] # NoLease => Belongs(byId[k])' /\ byId'[k].id = k[2]
      BY <1>x, <3>1 DEF GrantInv, GrantCaches, Belongs, Has
    <3> QED
      BY <3>1, <3>2, <3>3 DEF GrantCaches
  <2>2. ASSUME FillById(r) PROVE GrantCaches'
    <3> DEFINE k == KeyById(r, snap[r].id)
    <3>1. byId' = [byId EXCEPT ![k] = snap[r]] /\ active' = active /\ k[2] = snap[r].id
      BY <2>2 DEF FillById, KeyById
    <3> HIDE DEF k
    <3>2. ASSUME NEW j \in CacheKeys, byId'[j] # NoLease
          PROVE  Belongs(byId[j])' /\ byId'[j].id = j[2]
      <4>1. (byId'[j] = snap[r] /\ j = k) \/ byId'[j] = byId[j]
        BY <1>t, <3>1 DEF IdKeys
      <4>2. byId[j] # NoLease => byId[j] \in Leases /\ Belongs(byId[j]) /\ byId[j].id = j[2]
        BY <1>t DEF IdKeys, GrantInv, GrantCaches
      <4> QED
        BY <1>t, <1>b, <1>p, <3>1, <3>2, <4>1, <4>2 DEF Belongs, Has
    <3>3. \A c \in Clients : active[c] # NoLease => Belongs(active[c])' /\ active'[c].hw = c
      BY <1>x, <3>1 DEF GrantInv, GrantCaches, Belongs, Has
    <3> QED
      BY <3>1, <3>2, <3>3 DEF GrantCaches
  <2>3. ASSUME ConfirmFails(r) \/ SyncDone(r) PROVE GrantCaches'
    <3>1. active' = SyncActive(active, snap[r]) /\ byId' = EvictTenant(byId, snap[r])
      BY <2>3 DEF ConfirmFails, SyncDone, SyncCaches
    <3> QED
      BY <1>t, <1>b, <1>x, <1>s, <3>1, GrantSync
  <2> QED
    BY <2>1, <2>2, <2>3
<1> QED
  BY <1>1, <1>2, <1>s, <1>x, SteadyStep

-----------------------------------------------------------------------------
(* The reclaimer and the environment.                                      *)

\* A step that moves no request.
LEMMA GrantBackground ==
  ASSUME TypeInv, GrantInv, Steady, GrantCaches', GrantBatch',
         UNCHANGED <<pc, job, snap, ok, bg>>
  PROVE  GrantInv'
<1>1. \A r \in Requests : GrantReq(r)'
  BY SteadyOthers
<1> QED
  BY <1>1 DEF GrantInv, BgInv, Steady

LEMMA GrantReclaimer ==
  ASSUME TypeInv, GrantInv, ReclaimList \/ ReclaimWrite \/ ReclaimSync
  PROVE  GrantInv'
<1>1. CASE ReclaimList
  <2>1. UNCHANGED <<rows, active, byId, revived, pc, job, snap, ok, bg, rec>>
    BY <1>1 DEF ReclaimList, storeVars, reqVars
  <2>2. PICK s \in SUBSET ExpiredRows(rows, now - Grace) : batch' = {rows[i] : i \in s}
    BY <1>1 DEF ReclaimList, ExpiredBatches
  <2>3. Steady
    BY <2>1, SteadyIdle DEF GrantInv
  <2>4. GrantBatch'
    BY <2>1, <2>2 DEF GrantBatch, GrantInv, RowInv, Has, Belongs, ExpiredRows, Present
  <2>5. GrantCaches'
    BY <2>1, <2>3, SteadyCaches
  <2> QED
    BY <2>1, <2>3, <2>4, <2>5, GrantBackground
<1>2. CASE ReclaimWrite
  <2>1. UNCHANGED <<active, byId, revived, pc, job, snap, ok, bg>>
    BY <1>2 DEF ReclaimWrite, reqVars
  <2>2. PICK m \in batch : /\ batch' = batch \ {m}
                           /\ \/ rows' = Updated(rows, Released(m, now)) /\ rec' = Released(m, now)
                              \/ UNCHANGED <<rows, rec>>
    BY <1>2 DEF ReclaimWrite
  <2>w. PICK w : w = Released(m, now)
    OBVIOUS
  <2>3. m \in Leases /\ Has(m) /\ Belongs(m) /\ now \in Nat
    BY DEF TypeInv, TypeOK, GrantInv, GrantBatch, Belongs
  <2>4. w \in Leases /\ w.id = m.id /\ w.hw = m.hw /\ w.ip = m.ip /\ w.state = "RELEASED"
    BY <2>w, <2>3 DEF Released, Leases, LeaseStates
  <2>5. Has(w) /\ Belongs(w)
    BY <2>3, <2>4 DEF Has, Belongs
  <2>6. CASE rows' = Updated(rows, w) /\ rec' = w
    <3>1. Steady
      BY <2>1, <2>4, <2>5, <2>6, SteadyUpdate DEF GrantInv
    <3>2. \A l \in batch' : Belongs(l)'
      BY <2>2, <3>1, SteadyKeeps DEF Belongs, Has, TypeInv, TypeOK, GrantInv, GrantBatch
    <3>3. Belongs(w)'
      BY <2>1, <2>4, <2>5, <3>1, SteadyKeeps DEF Belongs, Has
    <3>4. GrantBatch'
      BY <2>6, <3>2, <3>3 DEF GrantBatch
    <3> QED
      BY <2>1, <3>1, <3>4, SteadyCaches, GrantBackground
  <2>7. CASE UNCHANGED <<rows, rec>>
    <3>1. Steady
      BY <2>1, <2>7, SteadyIdle DEF GrantInv
    <3> QED
      BY <2>1, <2>2, <2>7, <3>1, SteadyBatch, SteadyCaches, GrantBackground
  <2> QED
    BY <2>2, <2>w, <2>6, <2>7
<1>3. CASE ReclaimSync
  <2>1. UNCHANGED <<rows, byId, revived, pc, job, snap, ok, bg, batch>>
    BY <1>3 DEF ReclaimSync, reqVars
  <2>2. rec \in Leases /\ Belongs(rec) /\ rec' = NoLease /\ active' = SyncActive(active, rec)
    BY <1>3 DEF ReclaimSync, TypeInv, TypeOK, GrantInv, GrantBatch
  <2>3. Steady
    BY <2>1, SteadyIdle DEF GrantInv
  <2>4. GrantCaches'
    BY <2>1, <2>2, <2>3, GrantSync
  <2>5. GrantBatch'
    BY <2>1, <2>2, <2>3, SteadyBatch
  <2> QED
    BY <2>1, <2>3, <2>4, <2>5, GrantBackground
<1> QED
  BY <1>1, <1>2, <1>3

LEMMA GrantEnvironment ==
  ASSUME TypeInv, GrantInv,
         (\E c \in Clients : CacheDrop(c)) \/ LockExpire \/ RoleChange \/ Tick
           \/ Terminated \/ UNCHANGED vars
  PROVE  GrantInv'
<1>1. UNCHANGED <<rows, revived, pc, job, snap, ok, bg, batch, rec>>
  BY DEF CacheDrop, LockExpire, RoleChange, Tick, Terminated, vars, storeVars, reqVars
<1>2. Steady
  BY <1>1, SteadyIdle DEF GrantInv
<1>3. /\ \A c \in Clients : active'[c] \in {active[c], NoLease}
      /\ \A k \in CacheKeys : byId'[k] \in {byId[k], NoLease}
  <2>1. ASSUME NEW c \in Clients, CacheDrop(c)
        PROVE  active' = [active EXCEPT ![c] = NoLease] /\ byId' = byId
    BY <2>1 DEF CacheDrop
  <2>2. ASSUME Tick
        PROVE  /\ active' = ActiveAt(active, now + 1)
               /\ byId' = [k \in CacheKeys |-> NoLease]
    BY <2>2 DEF Tick
  <2>3. ASSUME LockExpire \/ RoleChange \/ Terminated \/ UNCHANGED vars
        PROVE  UNCHANGED <<active, byId>>
    BY <2>3 DEF LockExpire, RoleChange, Terminated, vars, storeVars
  <2>4. active \in Keys
    BY DEF TypeInv, TypeOK, Keys
  <2> QED
    BY <2>1, <2>2, <2>3, <2>4 DEF Keys, ActiveAt
<1>4. GrantBatch' /\ GrantCaches'
  BY <1>1, <1>2, <1>3, SteadyBatch, SteadyCaches
<1> QED
  BY <1>1, <1>2, <1>4, GrantBackground

-----------------------------------------------------------------------------
(* The theorem.                                                            *)

\* Every step keeps the invariant.
LEMMA GrantInductive ==
  ASSUME TypeInv, GrantInv, ~Async, [Next]_vars
  PROVE  GrantInv'
<1>1. ASSUME NEW r \in Requests, Begin(r) \/ Refuse(r) \/ Progress(r)
      PROVE  GrantInv'
  <2>1. Frame(r)
    BY <1>1, Alone
  <2> QED
    BY <1>1, <2>1, GrantReads, GrantFills, GrantWrites, GrantCreate DEF Progress
<1>2. ASSUME NEW i \in LeaseIds PROVE ~(AsyncWrite(i) \/ AsyncSync(i))
  BY DEF AsyncWrite, AsyncSync, GrantInv, BgInv
<1> QED
  BY <1>1, <1>2, GrantReclaimer, GrantEnvironment DEF Next

LEMMA GrantInvariant == ASSUME ~Async PROVE Spec => []GrantInv
<1>1. Init => GrantInv
  BY DEF Init, GrantInv, RowInv, BgInv, GrantCaches, GrantBatch, GrantReq, GrantLabels,
         HasLabels, CopyLabels, SyncLabels
<1>2. TypeInv /\ GrantInv /\ [Next]_vars => GrantInv'
  BY GrantInductive
<1> QED
  BY <1>1, <1>2, TypeInvariant, PTL DEF Spec

\* With synchronous persistence a handler that allocates and returns without an
\* error returns a lease the table has, at the address it returns, however
\* requests, cache fills, evictions and reclaimer passes interleave; neither the
\* pool lock nor its lifetime matters.
THEOREM GrantsRecorded == ASSUME ~Async PROVE Spec => []GrantRecorded
<1>1. GrantInv => GrantRecorded
  BY DEF GrantInv, GrantRecorded, GrantReq, Granted, GrantLabels, Has
<1> QED
  BY <1>1, GrantInvariant, PTL

-----------------------------------------------------------------------------
(* Handlers one at a time.  A request that runs is alone, with what it has *)
(* left to the background; every copy of a lease has the client of its     *)
(* row; a cached or renewed copy is ACTIVE as its row is, but for the row  *)
(* whose cache key the step under way is about to delete.                  *)

Busy(r) == pc[r] \notin {"idle", "done"}
Own(l)  == rows[l.id] # NoLease /\ rows[l.id].hw = l.hw
Live(l) == /\ l.state = "ACTIVE"
           /\ rows[l.id] # NoLease => rows[l.id].state = "ACTIVE" /\ rows[l.id].hw = l.hw

\* The key of lease i in the cache is deleted next.
Clearing(i) ==
  \/ rec # NoLease /\ rec.id = i
  \/ \E r \in Requests : pc[r] \in {"releaseSync", "adminSync"} /\ snap[r].id = i

Solo ==
  /\ \A r, s \in Requests : Busy(r) /\ Busy(s) => r = s
  /\ \A r \in Requests : Busy(r) =>
       /\ batch = {} /\ rec = NoLease
       /\ \A i \in LeaseIds : bg[i] # NoLease =>
            job[r].kind \in AllocKinds /\ bg[i].lease.hw = job[r].who
  /\ \A i \in LeaseIds : bg[i] # NoLease => batch = {} /\ rec = NoLease

SerialCaches ==
  /\ \A c \in Clients : active[c] # NoLease =>
       /\ active[c].hw = c /\ active[c].state = "ACTIVE" /\ Own(active[c])
       /\ rows[active[c].id].state = "ACTIVE" \/ Clearing(active[c].id)
  /\ \A k \in CacheKeys : byId[k] # NoLease =>
       /\ byId[k].id = k[2] /\ Own(byId[k])
       /\ rows[k[2]].state = "ACTIVE" => byId[k].state = "ACTIVE"

SerialBg ==
  \A i \in LeaseIds : bg[i] # NoLease =>
    /\ Live(bg[i].lease)
    /\ IF bg[i].op = "create" THEN bg[i].lease.id = i ELSE Own(bg[i].lease)

SerialBatch ==
  /\ \A l \in batch : Own(l)
  /\ rec # NoLease => Own(rec) /\ rec.state = "RELEASED" /\ rows[rec.id].state # "ACTIVE"

\* Steps of a request that serves a packet and holds the client's live lease,
\* those at which the lease has a row, those at which its row has just ceased to
\* be ACTIVE, and those before the request has created a row.
LiveLabels == {"fill", "renew", "create", "renewSync", "createSync", "probe", "fsm", "fsmSync"}
OwnLabels  == {"fill", "renew", "renewSync", "createSync", "idFill", "fsm", "fsmSync",
               "release", "releaseSync", "admin", "adminSync"}
FallLabels == {"releaseSync", "adminSync"}
PreLabels  == {"idle", "get", "fill", "renew", "lock", "pick", "create", "release", "releaseSync"}

FreshIds ==
  \A i \in LeaseIds : pc[i[1]] \in PreLabels => rows[i] = NoLease /\ bg[i] = NoLease

SerialReq(r) ==
  /\ pc[r] \notin {"reclaim", "reclaimSync", "holdSync"}
  /\ \/ pc[r] \in LiveLabels \/ (pc[r] = "unlock" /\ ok[r])
     \/ (pc[r] \in {"idGet", "idFill"} /\ job[r].kind \notin AdminKinds)
     => Live(snap[r]) /\ snap[r].hw = job[r].who
  /\ pc[r] \in OwnLabels => Own(snap[r])
  /\ pc[r] = "create" => snap[r].id = <<r, att[r]>>
  /\ pc[r] = "idFill" /\ rows[snap[r].id].state = "ACTIVE" => snap[r].state = "ACTIVE"
  /\ pc[r] \in FallLabels => snap[r].state # "ACTIVE" /\ rows[snap[r].id].state # "ACTIVE"

SerialInv ==
  /\ RowInv /\ Solo /\ SerialCaches /\ SerialBg /\ SerialBatch /\ FreshIds
  /\ \A r \in Requests : SerialReq(r)

\* No row becomes ACTIVE that was not, none is deleted or changes its client.
Sinks ==
  \A i \in LeaseIds : rows[i] # NoLease =>
    /\ rows'[i] # NoLease /\ rows'[i].hw = rows[i].hw
    /\ rows[i].state # "ACTIVE" => rows'[i].state # "ACTIVE"

\* The conditions a step has to meet again: those of the request itself, of the
\* caches and of the background; the others rest.
LEMMA SerialStep ==
  ASSUME SerialInv, NEW r \in Requests, Frame(r), Busy(r), UNCHANGED <<batch, rec>>,
         Busy(r)' => /\ job'[r].who = job[r].who
                     /\ job[r].kind \in AllocKinds => job'[r].kind \in AllocKinds,
         \A i \in LeaseIds : bg'[i] # NoLease =>
           (bg[i] # NoLease /\ bg'[i].lease = bg[i].lease)
             \/ (job[r].kind \in AllocKinds /\ bg'[i].lease.hw = job[r].who),
         pc'[r] \in PreLabels => pc[r] \in PreLabels,
         \A i \in LeaseIds : rows[i] = NoLease /\ bg[i] = NoLease =>
           (rows'[i] = NoLease /\ bg'[i] = NoLease) \/ (i[1] = r /\ pc'[r] \notin PreLabels),
         RowInv', SerialCaches', SerialBg', SerialReq(r)', Sinks
  PROVE  SerialInv' /\ Sinks
<1>1. \A s \in Requests : s # r => ~ Busy(s) /\ ~ Busy(s)'
  BY DEF SerialInv, Solo, Busy, Frame
<1>2. batch = {} /\ rec = NoLease
  BY DEF SerialInv, Solo
<1>3. Solo'
  <2>1. \A i \in LeaseIds : bg'[i] # NoLease => job[r].kind \in AllocKinds /\ bg'[i].lease.hw = job[r].who
    BY DEF SerialInv, Solo
  <2> QED
    BY <1>1, <1>2, <2>1 DEF Solo
<1>4. SerialBatch'
  BY <1>2 DEF SerialBatch
<1>5. \A s \in Requests : s # r => SerialReq(s)'
  BY <1>1 DEF SerialReq, Busy, LiveLabels, OwnLabels, FallLabels
<1>6. FreshIds'
  <2> SUFFICES ASSUME NEW i \in LeaseIds, pc'[i[1]] \in PreLabels
               PROVE  rows'[i] = NoLease /\ bg'[i] = NoLease
    BY DEF FreshIds
  <2>1. i[1] \in Requests
    BY DEF LeaseIds
  <2>2. pc[i[1]] \in PreLabels
    BY <2>1 DEF Frame
  <2> QED
    BY <2>2 DEF SerialInv, FreshIds
<1> QED
  BY <1>3, <1>4, <1>5, <1>6 DEF SerialInv

\* Rows that sink keep their owners.
LEMMA OwnKept ==
  ASSUME Sinks, NEW l \in Leases, Own(l)
  PROVE  rows'[l.id] # NoLease /\ rows'[l.id].hw = l.hw
<1>1. l.id \in LeaseIds
  BY DEF Leases
<1> QED
  BY <1>1 DEF Sinks, Own

\* The caches may lose keys; a row that ceases to be ACTIVE has its key deleted
\* next.
LEMMA CachesStay ==
  ASSUME TypeInv, SerialInv, Sinks,
         \A c \in Clients : active'[c] \in {active[c], NoLease},
         \A k \in CacheKeys : byId'[k] \in {byId[k], NoLease},
         \A i \in LeaseIds : rows[i] # NoLease =>
           (rows[i].state = "ACTIVE" => (rows'[i].state = "ACTIVE" \/ Clearing(i)')),
         \A i \in LeaseIds : Clearing(i) => Clearing(i)'
  PROVE  SerialCaches'
<1>1. ASSUME NEW c \in Clients, active'[c] # NoLease
      PROVE  /\ active'[c].hw = c /\ active'[c].state = "ACTIVE"
             /\ rows'[active'[c].id] # NoLease /\ rows'[active'[c].id].hw = active'[c].hw
             /\ rows'[active'[c].id].state = "ACTIVE" \/ Clearing(active[c].id)'
  <2>1. active'[c] = active[c] /\ active[c] \in Leases /\ active[c].id \in LeaseIds
    BY <1>1 DEF TypeInv, TypeOK, Leases
  <2>2. /\ active[c].hw = c /\ active[c].state = "ACTIVE" /\ Own(active[c])
        /\ rows[active[c].id].state = "ACTIVE" \/ Clearing(active[c].id)
    BY <1>1, <2>1 DEF SerialInv, SerialCaches
  <2>3. rows'[active[c].id] # NoLease /\ rows'[active[c].id].hw = active[c].hw
    BY <2>1, <2>2, OwnKept
  <2>i. PICK i \in LeaseIds : i = active[c].id
    BY <2>1
  <2>4. rows'[i].state = "ACTIVE" \/ Clearing(i)'
    BY <2>2, <2>i DEF Own
  <2>5. rows'[active'[c].id].state = "ACTIVE" \/ Clearing(active[c].id)'
    BY <2>1, <2>4, <2>i DEF Clearing
  <2> QED
    BY <2>1, <2>2, <2>3, <2>5
<1>2. ASSUME NEW k \in CacheKeys, byId'[k] # NoLease
      PROVE  /\ byId'[k].id = k[2]
             /\ rows'[byId'[k].id] # NoLease /\ rows'[byId'[k].id].hw = byId'[k].hw
             /\ rows'[k[2]].state = "ACTIVE" => byId'[k].state = "ACTIVE"
  <2>1. byId'[k] = byId[k] /\ byId[k] \in Leases /\ k[2] \in LeaseIds
    BY <1>2 DEF TypeInv, TypeOK, CacheKeys
  <2>2. /\ byId[k].id = k[2] /\ Own(byId[k])
        /\ rows[k[2]].state = "ACTIVE" => byId[k].state = "ACTIVE"
    BY <1>2, <2>1 DEF SerialInv, SerialCaches
  <2>3. rows'[byId[k].id] # NoLease /\ rows'[byId[k].id].hw = byId[k].hw
    BY <2>1, <2>2, OwnKept
  <2>4. rows'[k[2]].state = "ACTIVE" => rows[k[2]].state = "ACTIVE"
    BY <2>1, <2>2 DEF Sinks, Own
  <2> QED
    BY <2>1, <2>2, <2>3, <2>4
<1>3. \A c \in Clients : active'[c] # NoLease =>
        (Clearing(active[c].id)' => (Clearing(active[c].id)' /\ active'[c] = active[c]))
  OBVIOUS
<1> QED
  BY <1>1, <1>2 DEF SerialCaches, Own, Clearing

LEMMA StillSinks == ASSUME UNCHANGED rows PROVE Sinks
BY DEF Sinks

\* The steps of a request that change neither rows nor caches nor tasks.
LEMMA SerialReads ==
  ASSUME TypeInv, TypeInv', SerialInv, NEW r \in Requests, Frame(r), Busy(r),
         ~ ConflictEnabled,
         \/ Refuse(r) \/ GetActiveHit(r) \/ GetActiveRow(r)
         \/ GetActiveNone(r) \/ RefuseMark(r) \/ AcquireLock(r) \/ Pick(r)
         \/ PickNone(r) \/ ProbeQuiet(r) \/ Unlock(r) \/ Return(r)
         \/ GetByIdHit(r) \/ GetByIdRow(r) \/ GetByIdFails(r)
  PROVE  SerialInv' /\ Sinks
<1> USE DEF LiveLabels, OwnLabels, FallLabels, Goto, Take, Fail
<1>t. /\ pc \in [Requests -> Labels] /\ job \in [Requests -> Jobs \cup {NoLease}]
      /\ snap \in [Requests -> Leases \cup {NoLease}] /\ ok \in [Requests -> BOOLEAN]
  BY DEF TypeInv, TypeOK
<1>r. ReqOK(r) /\ SerialReq(r) /\ job[r] \in Jobs
  BY DEF TypeInv, SerialInv, ReqOK, Busy
<1>w. job[r].who \in Clients /\ job[r].id \in LeaseIds
  BY <1>r DEF Jobs
<1>i. pc[r] = "idGet" => TargetId(r) \in LeaseIds
  BY <1>r DEF ReqOK, TargetId, Jobs, Leases
<1>a. AllocKinds \cap AdminKinds = {} /\ TargetKinds \subseteq AllocKinds
  BY DEF AllocKinds, AdminKinds, TargetKinds
<1>x. UNCHANGED <<rows, active, byId, bg, batch, rec>>
  BY DEF Refuse, GetActiveHit, GetActiveRow, GetActiveNone, RefuseMark,
         AcquireLock, Pick, PickNone, ProbeQuiet, Unlock, Return, GetByIdHit,
         GetByIdRow, GetByIdFails, storeVars
<1>h. \A i \in LeaseIds : rows[i] # NoLease => rows[i] \in Leases /\ rows[i].id = i
  BY DEF SerialInv, RowInv, TypeInv, TypeOK
<1>2. ASSUME Refuse(r) PROVE SerialReq(r)'
  BY <1>t, <1>2 DEF Refuse, SerialReq
<1>3. ASSUME GetActiveHit(r) PROVE SerialReq(r)'
  <2>1. /\ active[job[r].who] \in Leases /\ Own(active[job[r].who])
        /\ active[job[r].who].hw = job[r].who /\ active[job[r].who].state = "ACTIVE"
    BY <1>w, <1>3 DEF GetActiveHit, SerialInv, SerialCaches, TypeInv, TypeOK
  <2>2. pc'[r] \in {"renew", "release"} /\ snap'[r] = active[job[r].who] /\ UNCHANGED <<rows, job, ok>>
    BY <1>t, <1>x, <1>3 DEF GetActiveHit, Found
  <2>3. ~ Clearing(active[job[r].who].id)
    BY <1>3 DEF GetActiveHit, Clearing, SerialInv, Solo, Busy
  <2>4. rows[active[job[r].who].id].state = "ACTIVE"
    BY <1>w, <1>3, <2>3 DEF GetActiveHit, SerialInv, SerialCaches
  <2> QED
    BY <2>1, <2>2, <2>4 DEF SerialReq, Own, Live
<1>4. ASSUME GetActiveRow(r) PROVE SerialReq(r)'
  <2>1. PICK i \in ActiveRowsOf(rows, job[r].who) : snap' = [snap EXCEPT ![r] = rows[i]]
    BY <1>4 DEF GetActiveRow
  <2>2. rows[i] \in Leases /\ rows[i].id = i /\ rows[i].hw = job[r].who /\ rows[i].state = "ACTIVE"
        /\ rows[i] # NoLease
    BY <1>h DEF ActiveRowsOf, Present
  <2>3. pc'[r] = "fill" /\ snap'[r] = rows[i] /\ UNCHANGED <<rows, job, ok>>
    BY <1>t, <1>x, <1>4, <2>1 DEF GetActiveRow
  <2> QED
    BY <2>2, <2>3 DEF SerialReq, Own, Live
<1>5. ASSUME GetActiveNone(r) PROVE SerialReq(r)'
  <2>1. pc'[r] \in {"lock", "get", "return"}
    BY <1>t, <1>5 DEF GetActiveNone, NextRelease
  <2> QED
    BY <2>1 DEF SerialReq
<1>6. ASSUME RefuseMark(r) PROVE SerialReq(r)'
  BY <1>t, <1>6 DEF RefuseMark, SerialReq
<1>7. ASSUME AcquireLock(r) PROVE SerialReq(r)'
  BY <1>t, <1>7 DEF AcquireLock, SerialReq
<1>8. ASSUME Pick(r) PROVE SerialReq(r)'
  <2>1. PICK a \in Available(job[r].who) :
          snap'[r] = NewLease(<<r, att[r]>>, a, job[r].who, now) /\ pc'[r] = "create"
    BY <1>t, <1>8 DEF Pick
  <2>2. /\ snap'[r].id = <<r, att[r]>> /\ snap'[r].hw = job[r].who /\ snap'[r].state = "ACTIVE"
        /\ UNCHANGED <<rows, att, job>>
    BY <1>8, <1>x, <2>1 DEF Pick, NewLease
  <2>a. <<r, att[r]>> \in LeaseIds /\ <<r, att[r]>>[1] = r /\ pc[r] = "pick"
    BY <1>8 DEF Pick, TypeInv, TypeOK, LeaseIds
  <2>3. rows[<<r, att[r]>>] = NoLease
    BY <2>a DEF SerialInv, FreshIds, PreLabels
  <2> QED
    BY <2>1, <2>2, <2>3 DEF SerialReq, Live
<1>9. ASSUME PickNone(r) PROVE SerialReq(r)'
  BY <1>t, <1>9 DEF PickNone, SerialReq
<1>10. ASSUME ProbeQuiet(r) PROVE SerialReq(r)'
  BY <1>t, <1>r, <1>x, <1>10 DEF ProbeQuiet, SerialReq, Live
<1>11. ASSUME Unlock(r) PROVE SerialReq(r)'
  BY <1>t, <1>r, <1>x, <1>11 DEF Unlock, SerialReq, Live
<1>12. ASSUME Return(r) PROVE SerialReq(r)'
  BY <1>t, <1>12 DEF Return, SerialReq
<1>13. ASSUME GetByIdHit(r) PROVE SerialReq(r)'
  <2> DEFINE k == KeyById(r, TargetId(r))
  <2>1. k \in CacheKeys /\ k[2] = TargetId(r) /\ byId[k] # NoLease
    BY <1>i, <1>13 DEF GetByIdHit, KeyById, CacheKeys, Tenants, NodeTenant
  <2>2. /\ byId[k] \in Leases /\ Own(byId[k]) /\ byId[k].id = TargetId(r)
        /\ rows[TargetId(r)].state = "ACTIVE" => byId[k].state = "ACTIVE"
    BY <2>1 DEF SerialInv, SerialCaches, TypeInv, TypeOK
  <2>3. /\ pc[r] = "idGet" /\ pc'[r] = (IF job[r].kind \in AdminKinds THEN "admin" ELSE "fsm")
        /\ snap'[r] = byId[k] /\ UNCHANGED <<rows, job, ok>>
    BY <1>t, <1>x, <1>13 DEF GetByIdHit, ByIdNext
  <2> HIDE DEF k
  <2>4. CASE job[r].kind \in AdminKinds
    BY <2>2, <2>3, <2>4 DEF SerialReq, Own
  <2>5. CASE job[r].kind \notin AdminKinds
    <3>1. Live(snap[r]) /\ snap[r].hw = job[r].who /\ TargetId(r) = snap[r].id
      BY <1>r, <2>3, <2>5 DEF SerialReq, TargetId
    <3>2. Live(byId[k]) /\ byId[k].hw = job[r].who
      BY <2>2, <3>1 DEF Live, Own
    <3> QED
      BY <2>2, <2>3, <2>5, <3>2 DEF SerialReq, Own, Live
  <2> QED
    BY <2>4, <2>5
<1>14. ASSUME GetByIdRow(r) PROVE SerialReq(r)'
  <2>1. /\ pc[r] = "idGet" /\ pc'[r] = "idFill" /\ snap'[r] = rows[TargetId(r)]
        /\ rows[TargetId(r)] # NoLease /\ UNCHANGED <<rows, job, ok>>
    BY <1>t, <1>x, <1>14 DEF GetByIdRow
  <2>2. rows[TargetId(r)] \in Leases /\ rows[TargetId(r)].id = TargetId(r)
    BY <1>h, <1>i, <2>1
  <2>3. job[r].kind \notin AdminKinds => Live(snap[r]) /\ snap[r].hw = job[r].who /\ TargetId(r) = snap[r].id
    BY <1>r, <2>1 DEF SerialReq, TargetId
  <2> QED
    BY <2>1, <2>2, <2>3 DEF SerialReq, Own, Live
<1>15. ASSUME GetByIdFails(r) PROVE SerialReq(r)'
  BY <1>t, <1>15 DEF GetByIdFails, SerialReq
<1>16. SerialReq(r)'
  BY <1>2, <1>3, <1>4, <1>5, <1>6, <1>7, <1>8, <1>9, <1>10, <1>11, <1>12, <1>13, <1>14, <1>15
<1>17. SerialCaches'
  <2>1. pc[r] \notin FallLabels
    BY DEF Refuse, GetActiveHit, GetActiveRow, GetActiveNone, RefuseMark,
         AcquireLock, Pick, PickNone, ProbeQuiet, Unlock, Return, GetByIdHit,
         GetByIdRow, GetByIdFails
  <2>2. \A i \in LeaseIds : Clearing(i) => Clearing(i)'
    BY <1>x, <2>1 DEF Clearing, Frame
  <2> QED
    BY <1>x, <2>2, CachesStay, StillSinks
<1>18. RowInv' /\ SerialBg'
  BY <1>x DEF SerialInv, RowInv, SerialBg, Live, Own
<1>19. Busy(r)' => job'[r].who = job[r].who /\ (job[r].kind \in AllocKinds => job'[r].kind \in AllocKinds)
  <2>1. ASSUME GetActiveNone(r)
        PROVE  job'[r].who = job[r].who /\ (job[r].kind \in AllocKinds => job'[r].kind \in AllocKinds)
    BY <1>t, <1>r, <2>1 DEF GetActiveNone, NextRelease, Jobs
  <2>2. ASSUME Return(r) PROVE ~ Busy(r)'
    BY <1>t, <2>2 DEF Return, Busy
  <2> QED
    BY <2>1, <2>2 DEF Refuse, GetActiveHit, GetActiveRow, RefuseMark,
         AcquireLock, Pick, PickNone, ProbeQuiet, Unlock, GetByIdHit,
         GetByIdRow, GetByIdFails
<1>20. pc'[r] \in PreLabels => pc[r] \in PreLabels
  <2>1. pc[r] \in PreLabels \/ pc'[r] \in {"unlock", "return", "done", "fsm", "admin", "idGet", "idFill"}
    BY <1>t DEF PreLabels, Refuse, GetActiveHit, GetActiveRow, GetActiveNone, RefuseMark,
         AcquireLock, Pick, PickNone, ProbeQuiet, Unlock, Return, GetByIdHit,
         GetByIdRow, GetByIdFails, ByIdNext
  <2> QED
    BY <2>1 DEF PreLabels
<1> HIDE DEF LiveLabels, OwnLabels, FallLabels, Goto, Take, Fail
<1> QED
  BY <1>x, <1>20, <1>16, <1>17, <1>18, <1>19, SerialStep, StillSinks

\* A handler starts alone.
LEMMA SerialBegin ==
  ASSUME TypeInv, SerialInv, Serial, NEW r \in Requests, Frame(r), Begin(r)
  PROVE  SerialInv' /\ Sinks
<1>t. pc \in [Requests -> Labels] /\ job \in [Requests -> Jobs \cup {NoLease}] /\ ok \in [Requests -> BOOLEAN]
  BY DEF TypeInv, TypeOK
<1>x. UNCHANGED <<rows, active, byId, bg, batch, rec>>
  BY DEF Begin, storeVars
<1>q. /\ \A s \in Requests : ~ Busy(s)
      /\ \A i \in LeaseIds : bg[i] = NoLease
      /\ batch = {} /\ rec = NoLease
  BY DEF Begin, Quiet, InFlight, Busy
<1>1. PICK k \in Kinds, c \in Clients, n \in LeaseIds :
        /\ job' = [job EXCEPT ![r] = [kind |-> k, who |-> c, id |-> n]]
        /\ \/ Fail(r)
           \/ Goto(r, IF k \in AdminKinds THEN "idGet" ELSE "get")
  BY DEF Begin
<1>2. /\ job'[r].kind = k
      /\ \/ pc'[r] = "unlock" /\ ok'[r] = FALSE
         \/ pc'[r] = "idGet" /\ k \in AdminKinds
         \/ pc'[r] = "get"
  BY <1>t, <1>1 DEF Fail, Goto
<1>3. SerialReq(r)'
  BY <1>2 DEF SerialReq, LiveLabels, OwnLabels, FallLabels
<1>4. \A s \in Requests : s # r => ~ Busy(s)' /\ SerialReq(s)'
  BY <1>q DEF Frame, Busy, SerialReq, LiveLabels, OwnLabels, FallLabels
<1>5. Solo' /\ SerialBatch' /\ SerialBg' /\ RowInv'
  BY <1>x, <1>q, <1>4 DEF Solo, SerialBatch, SerialBg, SerialInv, RowInv
<1>6. FreshIds'
  BY <1>x, <1>2 DEF SerialInv, FreshIds, Frame, LeaseIds, PreLabels, Begin
<1>7. \A i \in LeaseIds : ~ Clearing(i)
  BY <1>q DEF Clearing, Busy
<1>8. SerialCaches'
  BY <1>x, <1>7, CachesStay, StillSinks
<1> QED
  BY <1>3, <1>4, <1>5, <1>6, <1>8, <1>x, StillSinks DEF SerialInv

\* The two cache fills of a request.
LEMMA SerialFills ==
  ASSUME TypeInv, SerialInv, NEW r \in Requests, Frame(r), FillActive(r) \/ FillById(r)
  PROVE  SerialInv' /\ Sinks
<1>t. /\ pc \in [Requests -> Labels] /\ active \in Keys /\ byId \in IdKeys
      /\ snap[r] \in Leases /\ job[r] \in Jobs
  BY DEF TypeInv, TypeOK, ReqOK, CopyLabels, FillActive, FillById, Keys, IdKeys
<1>x. UNCHANGED <<rows, bg, batch, rec, snap, job, ok, att>>
  BY DEF FillActive, FillById
<1>r. SerialReq(r) /\ ReqOK(r) /\ pc[r] \in {"fill", "idFill"}
  BY DEF SerialInv, TypeInv, FillActive, FillById
<1>o. Own(snap[r])
  BY <1>r DEF SerialReq, OwnLabels
<1>c. \A i \in LeaseIds : Clearing(i) => Clearing(i)'
  BY <1>x, <1>r DEF Clearing, Frame
<1>p. pc'[r] \in PreLabels => pc[r] \in PreLabels
  BY <1>t DEF PreLabels, FillActive, FillById, Goto, Found, ByIdNext
<1>b. RowInv' /\ SerialBg'
  BY <1>x DEF SerialInv, RowInv, SerialBg, Live, Own
<1>1. ASSUME FillActive(r) PROVE SerialReq(r)' /\ SerialCaches'
  <2>1. /\ active' = [active EXCEPT ![job[r].who] = snap[r]] /\ UNCHANGED byId
        /\ pc[r] = "fill" /\ pc'[r] = Found(r)
    BY <1>t, <1>1 DEF FillActive, Goto
  <2>2. Live(snap[r]) /\ snap[r].hw = job[r].who
    BY <1>r, <2>1 DEF SerialReq, LiveLabels
  <2>3. SerialReq(r)'
    BY <1>o, <1>x, <2>1, <2>2 DEF SerialReq, Found, LiveLabels, OwnLabels, FallLabels, Own, Live
  <2>4. ASSUME NEW c \in Clients, active'[c] # NoLease
        PROVE  /\ active'[c].hw = c /\ active'[c].state = "ACTIVE" /\ Own(active'[c])
               /\ rows[active'[c].id].state = "ACTIVE" \/ Clearing(active'[c].id)
    BY <1>t, <1>o, <2>1, <2>2, <2>4 DEF SerialInv, SerialCaches, Keys, Own, Live
  <2>5. \A c \in Clients : active'[c] # NoLease => active'[c].id \in LeaseIds
    BY <1>t, <2>1 DEF Leases, Keys
  <2>6. \A c \in Clients : active'[c] # NoLease =>
          rows[active'[c].id].state = "ACTIVE" \/ Clearing(active[c].id)'
    BY <2>4, <2>5, <1>c, <1>x, <1>r DEF Clearing, Frame
  <2> QED
    BY <1>x, <2>1, <2>3, <2>4, <2>6 DEF SerialCaches, SerialInv, Own
<1>2. ASSUME FillById(r) PROVE SerialReq(r)' /\ SerialCaches'
  <2> DEFINE k == KeyById(r, snap[r].id)
  <2>1. /\ byId' = [byId EXCEPT ![k] = snap[r]] /\ UNCHANGED active /\ k[2] = snap[r].id
        /\ pc[r] = "idFill" /\ pc'[r] = ByIdNext(r)
    BY <1>t, <1>2 DEF FillById, KeyById, Goto
  <2> HIDE DEF k
  <2>2. rows[snap[r].id].state = "ACTIVE" => snap[r].state = "ACTIVE"
    BY <1>r, <2>1 DEF SerialReq
  <2>3. SerialReq(r)'
    BY <1>o, <1>x, <1>r, <2>1 DEF SerialReq, ByIdNext, LiveLabels, OwnLabels, FallLabels, Own, Live
  <2>4. \A j \in CacheKeys : byId'[j] # NoLease =>
          /\ byId'[j].id = j[2] /\ Own(byId'[j])
          /\ rows[j[2]].state = "ACTIVE" => byId'[j].state = "ACTIVE"
    BY <1>t, <1>o, <2>1, <2>2 DEF SerialInv, SerialCaches, IdKeys
  <2>5. \A c \in Clients : active[c] # NoLease => active[c].id \in LeaseIds
    BY <1>t DEF Keys, Leases
  <2>6. \A c \in Clients : active[c] # NoLease =>
          rows[active[c].id].state = "ACTIVE" \/ Clearing(active[c].id)'
    BY <2>1, <2>5, <1>c, <1>x, <1>r DEF Clearing, Frame, SerialInv, SerialCaches
  <2> QED
    BY <1>x, <2>1, <2>3, <2>4, <2>6 DEF SerialCaches, SerialInv, Own
<1> QED
  BY <1>1, <1>2, <1>x, <1>p, <1>b, <1>r, SerialStep, StillSinks DEF Busy

\* syncActiveLeaseCache and evictTenant.
LEMMA CachesSynced ==
  ASSUME TypeInv, SerialInv, GlobalNode, UNCHANGED rows, NEW l \in Leases, Own(l),
         l.state = "ACTIVE" => rows[l.id].state = "ACTIVE",
         active' = SyncActive(active, l), byId' = EvictTenant(byId, l) \/ byId' = byId,
         \A i \in LeaseIds : Clearing(i) => Clearing(i)' \/ (i = l.id /\ l.state # "ACTIVE")
  PROVE  SerialCaches'
<1>t. active \in Keys /\ l.hw \in Clients
  BY DEF TypeInv, TypeOK, Keys, Leases
<1>1. active' = [active EXCEPT ![l.hw] = IF l.state = "ACTIVE" THEN l ELSE NoLease]
  BY DEF SyncActive
<1>2. ASSUME NEW c \in Clients, active'[c] # NoLease
      PROVE  /\ active'[c].hw = c /\ active'[c].state = "ACTIVE" /\ Own(active'[c])
             /\ rows[active'[c].id].state = "ACTIVE" \/ Clearing(active[c].id)'
  <2>1. CASE c = l.hw
    BY <1>t, <1>1, <1>2, <2>1 DEF Keys
  <2>2. CASE c # l.hw
    <3>1. active'[c] = active[c] /\ active[c] \in Leases /\ active[c].id \in LeaseIds
      BY <1>t, <1>1, <1>2, <2>2 DEF Keys, Leases
    <3>2. /\ active[c].hw = c /\ active[c].state = "ACTIVE" /\ Own(active[c])
          /\ rows[active[c].id].state = "ACTIVE" \/ Clearing(active[c].id)
      BY <1>2, <3>1 DEF SerialInv, SerialCaches
    <3>3. active[c].id # l.id
      BY <2>2, <3>2 DEF Own
    <3>i. PICK i \in LeaseIds : i = active[c].id
      BY <3>1
    <3>4. rows[i].state = "ACTIVE" \/ Clearing(i)'
      BY <3>2, <3>3, <3>i
    <3>5. rows[active[c].id].state = "ACTIVE" \/ Clearing(active[c].id)'
      BY <3>1, <3>4, <3>i DEF Clearing
    <3> QED
      BY <3>1, <3>2, <3>5
  <2> QED
    BY <2>1, <2>2
<1>3. \A k \in CacheKeys : byId'[k] # NoLease => byId'[k] = byId[k]
  BY DEF EvictTenant
<1> QED
  BY <1>2, <1>3 DEF SerialCaches, SerialInv, Own

\* The cache calls after a write of the request.
LEMMA SerialSync ==
  ASSUME TypeInv, TypeInv', SerialInv, GlobalNode, NEW r \in Requests, Frame(r),
         ConfirmFails(r) \/ SyncDone(r)
  PROVE  SerialInv' /\ Sinks
<1>t. /\ pc \in [Requests -> Labels] /\ ok \in [Requests -> BOOLEAN]
      /\ job \in [Requests -> Jobs \cup {NoLease}] /\ snap[r] \in Leases /\ job[r] \in Jobs
  BY DEF TypeInv, TypeOK, ReqOK, CopyLabels, ConfirmFails, SyncDone, SyncLabels
<1>x. /\ UNCHANGED <<rows, bg, batch, rec, snap>>
      /\ active' = SyncActive(active, snap[r]) /\ byId' = EvictTenant(byId, snap[r])
  BY DEF ConfirmFails, SyncDone, SyncCaches
<1>r. /\ SerialReq(r) /\ ReqOK(r)
      /\ pc[r] \in {"renewSync", "createSync", "fsmSync", "releaseSync", "adminSync"}
  BY DEF SerialInv, SerialReq, TypeInv, ConfirmFails, SyncDone, SyncLabels
<1>o. Own(snap[r])
  BY <1>r DEF SerialReq, OwnLabels
<1>l. pc[r] \in {"renewSync", "createSync", "fsmSync"} => Live(snap[r]) /\ snap[r].hw = job[r].who
  BY <1>r DEF SerialReq, LiveLabels
<1>f. pc[r] \in FallLabels => snap[r].state # "ACTIVE"
  BY <1>r DEF SerialReq
<1>1. SerialCaches'
  <2>1. snap[r].state = "ACTIVE" => rows[snap[r].id].state = "ACTIVE"
    BY <1>r, <1>o, <1>l, <1>f DEF Live, Own, FallLabels
  <2>2. \A i \in LeaseIds : Clearing(i) => Clearing(i)' \/ (i = snap[r].id /\ snap[r].state # "ACTIVE")
    BY <1>x, <1>r, <1>f DEF Clearing, Frame, FallLabels
  <2> QED
    BY <1>t, <1>x, <1>o, <2>1, <2>2, CachesSynced
<1>2. \/ pc[r] \in {"renewSync", "createSync"} /\ pc'[r] = "probe" /\ job'[r] = job[r] /\ ok'[r] = ok[r]
      \/ pc'[r] = "unlock" /\ ok'[r] = FALSE /\ job'[r] = job[r]
      \/ pc'[r] = "return" /\ job'[r] = job[r]
      \/ /\ pc'[r] = "get" /\ pc[r] = "releaseSync"
         /\ job'[r].who = job[r].who
  <2>1. CASE ConfirmFails(r)
    BY <1>t, <2>1 DEF ConfirmFails, Fail, Goto
  <2>2. CASE SyncDone(r) /\ pc[r] \in {"renewSync", "createSync"}
    BY <1>t, <2>2 DEF SyncDone, Goto
  <2>3. CASE SyncDone(r) /\ pc[r] \in {"fsmSync", "adminSync"}
    BY <1>t, <2>3 DEF SyncDone, Goto
  <2>4. CASE SyncDone(r) /\ pc[r] = "releaseSync"
    <3>1. NextRelease(r)
      BY <2>4 DEF SyncDone
    <3>2. CASE job[r].kind = "release"
      BY <1>t, <2>4, <3>1, <3>2 DEF NextRelease, Goto, Jobs
    <3>3. CASE job[r].kind # "release"
      BY <1>t, <3>1, <3>3 DEF NextRelease, Goto
    <3> QED
      BY <3>2, <3>3
  <2> QED
    BY <1>r, <2>1, <2>2, <2>3, <2>4
<1>3. SerialReq(r)'
  BY <1>2, <1>l, <1>x DEF SerialReq, LiveLabels, OwnLabels, FallLabels, Live
<1>4. Busy(r)' => job'[r].who = job[r].who /\ (job[r].kind \in AllocKinds => job'[r].kind \in AllocKinds)
  <2>1. pc[r] = "releaseSync" => job[r].kind \notin AllocKinds
    BY <1>r DEF ReqOK, AllocKinds
  <2> QED
    BY <1>2, <2>1
<1>5. pc'[r] \in PreLabels => pc[r] \in PreLabels
  BY <1>2 DEF PreLabels
<1>6. RowInv' /\ SerialBg'
  BY <1>x DEF SerialInv, RowInv, SerialBg, Live, Own
<1>7. Busy(r)
  BY <1>r DEF Busy
<1> QED
  BY <1>1, <1>3, <1>4, <1>5, <1>6, <1>7, <1>x, SerialStep, StillSinks

-----------------------------------------------------------------------------
(* Writes.                                                                 *)

\* The row of a copy is written; no other is.
Writes(l) ==
  /\ rows'[l.id] # NoLease /\ rows'[l.id].hw = l.hw /\ rows'[l.id].state = l.state
  /\ \A i \in LeaseIds : i # l.id => rows'[i] = rows[i]

LEMMA RowWritten ==
  ASSUME TypeInv, RowInv, NEW l \in Leases,
         \/ Own(l) /\ rows' = Updated(rows, l) /\ (l.state = "ACTIVE" => rows[l.id].state = "ACTIVE")
         \/ rows[l.id] = NoLease /\ rows' = Inserted(rows, l)
  PROVE  Writes(l) /\ RowInv' /\ Sinks
<1>1. l.id \in LeaseIds
  BY DEF Leases
<1> DEFINE m == IF rows[l.id] = NoLease THEN [l EXCEPT !.tn = FALSE]
                ELSE [l EXCEPT !.hw = rows[l.id].hw, !.tn = FALSE]
<1>2. rows[l.id] # NoLease => rows[l.id] \in Leases
  BY <1>1 DEF TypeInv, TypeOK
<1>3. /\ m \in Leases /\ m.id = l.id /\ m.state = l.state /\ m.hw = l.hw
  BY <1>2 DEF Leases, Own
<1>4. m # NoLease
  BY <1>3, StoreAssumption DEF StoreAssumption
<1>5. rows' = [rows EXCEPT ![l.id] = m]
  BY DEF Updated, Inserted, Own
<1> HIDE DEF m
<1>6. rows'[l.id] = m /\ \A i \in LeaseIds : i # l.id => rows'[i] = rows[i]
  BY <1>1, <1>5 DEF TypeInv, TypeOK
<1>7. Writes(l)
  BY <1>3, <1>4, <1>6 DEF Writes
<1>8. RowInv'
  BY <1>3, <1>6 DEF RowInv
<1>9. Sinks
  <2> SUFFICES ASSUME NEW i \in LeaseIds, rows[i] # NoLease
               PROVE  /\ rows'[i] # NoLease /\ rows'[i].hw = rows[i].hw
                      /\ rows[i].state # "ACTIVE" => rows'[i].state # "ACTIVE"
    BY DEF Sinks
  <2>1. CASE i = l.id
    BY <2>1, <1>3, <1>4, <1>6 DEF Own
  <2>2. CASE i # l.id
    BY <2>2, <1>6
  <2> QED
    BY <2>1, <2>2
<1> QED
  BY <1>7, <1>8, <1>9

\* A live copy is live after the write of another live copy of the client.
LEMMA LiveKept ==
  ASSUME NEW l \in Leases, Writes(l), l.state = "ACTIVE",
         NEW m \in Leases, Live(m), m.id = l.id => m.hw = l.hw
  PROVE  rows'[m.id] # NoLease => rows'[m.id].state = "ACTIVE" /\ rows'[m.id].hw = m.hw
<1>1. m.id \in LeaseIds
  BY DEF Leases
<1> QED
  BY <1>1 DEF Writes, Live

\* The tasks in the background survive a write of a live lease.
LEMMA BgKept ==
  ASSUME TypeInv, SerialInv, NEW l \in Leases, Writes(l), Sinks, l.state = "ACTIVE",
         NEW i \in LeaseIds, bg[i] # NoLease, bg[i].lease.id = l.id => bg[i].lease.hw = l.hw,
         bg'[i] = bg[i]
  PROVE  /\ Live(bg[i].lease)'
         /\ IF bg'[i].op = "create" THEN bg'[i].lease.id = i ELSE Own(bg[i].lease)'
<1>1. bg[i].lease \in Leases
  BY DEF TypeInv, TypeOK, Tasks
<1>2. Live(bg[i].lease) /\ IF bg[i].op = "create" THEN bg[i].lease.id = i ELSE Own(bg[i].lease)
  BY DEF SerialInv, SerialBg
<1>m. PICK m \in Leases : m = bg[i].lease
  BY <1>1
<1>3. rows'[m.id] # NoLease => rows'[m.id].state = "ACTIVE" /\ rows'[m.id].hw = m.hw
  BY <1>2, <1>m, LiveKept
<1>4. Own(m) => rows'[m.id] # NoLease /\ rows'[m.id].hw = m.hw
  BY <1>m, OwnKept
<1> QED
  BY <1>2, <1>3, <1>4, <1>m DEF Live, Own

\* UpdateLease of a request: the copy is live, or the lease ends and nothing is
\* left in the background.
LEMMA SerialWrite ==
  ASSUME TypeInv, SerialInv, NEW r \in Requests, Frame(r), NEW l \in Leases, Own(l),
         NEW next, UpdateLease(r, l, next), UNCHANGED <<active, bg, batch, rec>>,
         job'[r] = job[r], pc[r] \in {"renew", "fsm", "release", "admin"},
         \/ Live(l) /\ l.hw = job[r].who /\ next \in {"renewSync", "fsmSync"}
         \/ /\ l.state # "ACTIVE" /\ \A i \in LeaseIds : bg[i] = NoLease
            /\ (next = "adminSync" \/ (next = "releaseSync" /\ pc[r] = "release"))
  PROVE  SerialInv' /\ Sinks
<1>t. /\ pc \in [Requests -> Labels] /\ ok \in [Requests -> BOOLEAN]
      /\ snap \in [Requests -> Leases \cup {NoLease}] /\ l.id \in LeaseIds
  BY DEF TypeInv, TypeOK, Leases
<1>b. Busy(r) /\ \A i \in LeaseIds : ~ Clearing(i)
  BY DEF Busy, Clearing, SerialInv, Solo
<1>1. ASSUME rows' = Updated(rows, l), Take(r, l), Goto(r, next), UNCHANGED <<byId, ok>>
      PROVE  SerialInv' /\ Sinks
  <2>1. Writes(l) /\ RowInv' /\ Sinks
    <3>1. l.state = "ACTIVE" => rows[l.id].state = "ACTIVE"
      BY DEF Live, Own
    <3> QED
      BY <1>1, <3>1, RowWritten DEF SerialInv
  <2>2. pc'[r] = next /\ snap'[r] = l
    BY <1>1, <1>t DEF Take, Goto
  <2>3. SerialReq(r)'
    BY <2>1, <2>2 DEF SerialReq, LiveLabels, OwnLabels, FallLabels, Writes, Live, Own
  <2>4. SerialCaches'
    <3>1. \A i \in LeaseIds : rows[i] # NoLease =>
            (rows[i].state = "ACTIVE" => (rows'[i].state = "ACTIVE" \/ Clearing(i)'))
      BY <2>1, <2>2 DEF Writes, Live, Clearing
    <3> QED
      BY <1>1, <1>b, <2>1, <3>1, CachesStay
  <2>5. SerialBg'
    <3> SUFFICES ASSUME NEW i \in LeaseIds, bg'[i] # NoLease
                 PROVE  /\ Live(bg[i].lease)'
                        /\ IF bg'[i].op = "create" THEN bg'[i].lease.id = i ELSE Own(bg[i].lease)'
      BY DEF SerialBg
    <3>1. bg[i] # NoLease /\ bg'[i] = bg[i] /\ Live(l)
      OBVIOUS
    <3>2. Live(bg[i].lease) /\ (bg[i].lease.id = l.id => bg[i].lease.hw = l.hw)
      BY <3>1 DEF SerialInv, SerialBg, Live, Own
    <3> QED
      BY <3>1, <3>2, <2>1, BgKept DEF Live
  <2>6. pc'[r] \in PreLabels => pc[r] \in PreLabels
    BY <2>2 DEF PreLabels
  <2>7. \A i \in LeaseIds : rows[i] = NoLease /\ bg[i] = NoLease => rows'[i] = NoLease /\ bg'[i] = NoLease
    BY <2>1 DEF Writes, Own
  <2> QED
    BY <1>b, <2>1, <2>3, <2>4, <2>5, <2>6, <2>7, SerialStep
<1>2. ASSUME byId' = EvictTenant(byId, l), Take(r, l), Fail(r), UNCHANGED rows
      PROVE  SerialInv' /\ Sinks
  <2>1. pc'[r] = "unlock" /\ ok'[r] = FALSE
    BY <1>2, <1>t DEF Fail, Goto
  <2>2. SerialReq(r)'
    BY <2>1 DEF SerialReq, LiveLabels, OwnLabels, FallLabels
  <2>3. SerialCaches'
    BY <1>2, <1>b, CachesStay, StillSinks DEF EvictTenant
  <2>4. RowInv' /\ SerialBg'
    BY <1>2 DEF SerialInv, RowInv, SerialBg, Live, Own
  <2>5. pc'[r] \notin PreLabels
    BY <2>1 DEF PreLabels
  <2> QED
    BY <1>2, <1>b, <2>2, <2>3, <2>4, <2>5, SerialStep, StillSinks
<1> QED
  BY <1>1, <1>2 DEF UpdateLease

\* A step of a request that neither writes rows or caches nor starts a task.
LEMMA SerialMoves ==
  ASSUME TypeInv, SerialInv, NEW r \in Requests, Frame(r), Busy(r), job'[r].who = job[r].who,
         job'[r].kind = job[r].kind \/ job[r].kind \notin AllocKinds,
         UNCHANGED <<rows, active, byId, bg, batch, rec>>,
         \/ pc'[r] = "unlock" /\ ok'[r] = FALSE
         \/ pc'[r] = "return"
         \/ pc'[r] = "get" /\ pc[r] = "release",
         pc[r] \notin FallLabels
  PROVE  SerialInv' /\ Sinks
<1>1. SerialReq(r)'
  BY DEF SerialReq, LiveLabels, OwnLabels, FallLabels
<1>2. \A i \in LeaseIds : Clearing(i) => Clearing(i)'
  BY DEF Clearing, Frame, FallLabels
<1>3. SerialCaches'
  BY <1>2, CachesStay, StillSinks
<1>4. RowInv' /\ SerialBg'
  BY DEF SerialInv, RowInv, SerialBg, Live, Own
<1>5. pc'[r] \in PreLabels => pc[r] \in PreLabels
  BY DEF PreLabels
<1> QED
  BY <1>1, <1>3, <1>4, <1>5, SerialStep, StillSinks

\* persistLeaseUpdate of a reused lease.
LEMMA SerialRenew ==
  ASSUME TypeInv, SerialInv, NEW r \in Requests, Frame(r), Renew(r)
  PROVE  SerialInv' /\ Sinks
<1>t. /\ pc \in [Requests -> Labels] /\ ok \in [Requests -> BOOLEAN] /\ now \in Nat
      /\ snap \in [Requests -> Leases \cup {NoLease}] /\ snap[r] \in Leases
      /\ job[r] \in Jobs /\ bg \in [LeaseIds -> Tasks \cup {NoLease}]
      /\ <<r, att[r]>> \in LeaseIds
  BY DEF TypeInv, TypeOK, ReqOK, CopyLabels, Renew, LeaseIds
<1>r. SerialReq(r) /\ pc[r] = "renew" /\ Busy(r) /\ job[r].kind \in AllocKinds
  BY DEF SerialInv, Renew, Busy, TypeInv, ReqOK, AllocLabels
<1>1. Live(snap[r]) /\ snap[r].hw = job[r].who /\ Own(snap[r])
  BY <1>r DEF SerialReq, LiveLabels, OwnLabels
<1>2. PICK f \in SessionStates(snap[r]) :
        LET l == Renewed(snap[r], f, now) IN
        IF Async
        THEN /\ bg' = [bg EXCEPT ![<<r, att[r]>>] = [op |-> "update", lease |-> l]]
             /\ Take(r, l) /\ Goto(r, "probe")
             /\ UNCHANGED <<rows, byId, revived, ok>>
        ELSE UpdateLease(r, l, "renewSync") /\ UNCHANGED bg
  BY DEF Renew
<1>l. PICK l : l = Renewed(snap[r], f, now)
  OBVIOUS
<1>3. l \in Leases /\ l.id = snap[r].id /\ l.hw = snap[r].hw /\ l.state = snap[r].state
  <2>1. f \in FSMStates \cup {"none"}
    BY <1>t, <1>2 DEF SessionStates, Leases
  <2>2. job[r].who \in Clients
    BY <1>t DEF Jobs
  <2>3. l \in Leases
    BY <1>t, <1>l, <2>1, <2>2, TransformTypes
  <2> QED
    BY <1>t, <1>l, <2>3 DEF Renewed, Leases
<1>4. Live(l) /\ Own(l) /\ l.hw = job[r].who
  BY <1>1, <1>3 DEF Live, Own
<1>x. UNCHANGED <<active, job, batch, rec>>
  BY DEF Renew
<1>5. CASE ~ Async
  <2>1. UpdateLease(r, l, "renewSync") /\ UNCHANGED bg
    BY <1>2, <1>5, <1>l
  <2> QED
    BY <1>r, <1>x, <1>3, <1>4, <2>1, SerialWrite
<1>6. CASE Async
  <2>1. /\ bg' = [bg EXCEPT ![<<r, att[r]>>] = [op |-> "update", lease |-> l]]
        /\ pc'[r] = "probe" /\ snap'[r] = l /\ UNCHANGED <<rows, byId, ok>>
    BY <1>2, <1>6, <1>l, <1>t DEF Take, Goto
  <2>i. PICK j \in LeaseIds : j = <<r, att[r]>> /\ j[1] = r
    BY <1>t
  <2>2. /\ bg'[j] = [op |-> "update", lease |-> l]
        /\ \A i \in LeaseIds : i # j => bg'[i] = bg[i]
    BY <1>t, <2>1, <2>i
  <2>3. bg'[j].op = "update" /\ bg'[j].lease = l
    BY <2>2
  <2>4. SerialReq(r)'
    BY <1>4, <1>x, <2>1 DEF SerialReq, LiveLabels, OwnLabels, FallLabels, Live
  <2>5. SerialBg'
    BY <1>4, <2>1, <2>2, <2>3 DEF SerialInv, SerialBg, Live, Own
  <2>6. \A i \in LeaseIds : Clearing(i) => Clearing(i)'
    BY <1>r, <1>x DEF Clearing, Frame
  <2>7. SerialCaches' /\ RowInv'
    BY <1>x, <2>1, <2>6, CachesStay, StillSinks DEF SerialInv, RowInv
  <2>8. pc'[r] \notin PreLabels
    BY <2>1 DEF PreLabels
  <2>9. \A i \in LeaseIds : bg'[i] # NoLease =>
          (bg[i] # NoLease /\ bg'[i].lease = bg[i].lease)
             \/ (job[r].kind \in AllocKinds /\ bg'[i].lease.hw = job[r].who)
    BY <1>r, <1>4, <2>2, <2>3
  <2> QED
    BY <1>r, <1>x, <2>1, <2>2, <2>i, <2>4, <2>5, <2>7, <2>8, <2>9, SerialStep, StillSinks
<1> QED
  BY <1>5, <1>6

\* persistLeaseCreate.
LEMMA SerialCreate ==
  ASSUME TypeInv, SerialInv, NEW r \in Requests, Frame(r), Create(r)
  PROVE  SerialInv' /\ Sinks
<1>t. /\ pc \in [Requests -> Labels] /\ ok \in [Requests -> BOOLEAN]
      /\ snap[r] \in Leases /\ bg \in [LeaseIds -> Tasks \cup {NoLease}]
      /\ <<r, att[r]>> \in LeaseIds
  BY DEF TypeInv, TypeOK, ReqOK, CopyLabels, Create, LeaseIds
<1>r. SerialReq(r) /\ pc[r] = "create" /\ Busy(r) /\ job[r].kind \in AllocKinds
  BY DEF SerialInv, Create, Busy, TypeInv, ReqOK, AllocLabels
<1>l. PICK l \in Leases : l = snap[r]
  BY <1>t
<1>j. PICK j \in LeaseIds : j = <<r, att[r]>> /\ j[1] = r
  BY <1>t
<1>1. Live(l) /\ l.hw = job[r].who /\ l.id = j
  BY <1>r, <1>l, <1>j DEF SerialReq, LiveLabels
<1>2. rows[j] = NoLease /\ bg[j] = NoLease
  BY <1>r, <1>j DEF SerialInv, FreshIds, PreLabels
<1>x. UNCHANGED <<active, job, snap, batch, rec>>
  BY DEF Create
<1>c. \A i \in LeaseIds : ~ Clearing(i)
  BY <1>r DEF Clearing, SerialInv, Solo, Busy
<1>3. CASE /\ bg' = [bg EXCEPT ![<<r, att[r]>>] = [op |-> "create", lease |-> snap[r]]]
           /\ Goto(r, "probe") /\ UNCHANGED <<rows, byId, ok>>
  <2>1. /\ bg'[j] = [op |-> "create", lease |-> l]
        /\ \A i \in LeaseIds : i # j => bg'[i] = bg[i]
    BY <1>t, <1>3, <1>j, <1>l
  <2>2. bg'[j].op = "create" /\ bg'[j].lease = l
    BY <2>1
  <2>3. pc'[r] = "probe" /\ snap'[r] = l
    BY <1>t, <1>3, <1>x, <1>l DEF Goto
  <2>4. SerialReq(r)'
    BY <1>1, <1>3, <1>x, <2>3 DEF SerialReq, LiveLabels, OwnLabels, FallLabels, Live
  <2>5. SerialBg'
    BY <1>1, <1>3, <2>1, <2>2 DEF SerialInv, SerialBg, Live, Own
  <2>6. SerialCaches' /\ RowInv'
    BY <1>x, <1>c, <1>3, CachesStay, StillSinks DEF SerialInv, RowInv
  <2>7. pc'[r] \notin PreLabels
    BY <2>3 DEF PreLabels
  <2>8. \A i \in LeaseIds : bg'[i] # NoLease =>
          (bg[i] # NoLease /\ bg'[i].lease = bg[i].lease)
             \/ (job[r].kind \in AllocKinds /\ bg'[i].lease.hw = job[r].who)
    BY <1>r, <1>1, <2>1, <2>2
  <2> QED
    BY <1>r, <1>x, <1>3, <1>j, <2>1, <2>4, <2>5, <2>6, <2>7, <2>8, SerialStep, StillSinks
<1>4. CASE rows' = Inserted(rows, snap[r]) /\ Goto(r, "createSync") /\ UNCHANGED <<byId, ok, bg>>
  <2>1. Writes(l) /\ RowInv' /\ Sinks
    BY <1>4, <1>l, <1>1, <1>2, RowWritten DEF SerialInv
  <2>2. pc'[r] = "createSync" /\ snap'[r] = l /\ l.state = "ACTIVE"
    BY <1>t, <1>1, <1>4, <1>x, <1>l DEF Goto, Live
  <2>3. SerialReq(r)'
    BY <1>1, <1>x, <2>1, <2>2 DEF SerialReq, LiveLabels, OwnLabels, FallLabels, Writes, Live, Own
  <2>4. SerialCaches'
    <3>1. \A i \in LeaseIds : rows[i] # NoLease => (rows[i].state = "ACTIVE" => rows'[i].state = "ACTIVE")
      BY <2>1, <2>2 DEF Writes
    <3> QED
      BY <1>4, <1>x, <1>c, <2>1, <3>1, CachesStay
  <2>5. SerialBg'
    <3> SUFFICES ASSUME NEW i \in LeaseIds, bg'[i] # NoLease
                 PROVE  /\ Live(bg[i].lease)'
                        /\ IF bg'[i].op = "create" THEN bg'[i].lease.id = i ELSE Own(bg[i].lease)'
      BY DEF SerialBg
    <3>1. bg[i] # NoLease /\ bg'[i] = bg[i]
      BY <1>4
    <3>2. bg[i].lease.id # l.id
      BY <3>1, <1>1, <1>2 DEF SerialInv, SerialBg, Own
    <3> QED
      BY <3>1, <3>2, <2>1, <2>2, BgKept
  <2>6. pc'[r] \notin PreLabels
    BY <2>2 DEF PreLabels
  <2>7. \A i \in LeaseIds : rows[i] = NoLease => rows'[i] = NoLease \/ i[1] = r
    BY <2>1, <1>1, <1>j DEF Writes
  <2> QED
    BY <1>r, <1>x, <1>4, <2>1, <2>3, <2>4, <2>5, <2>6, <2>7, SerialStep
<1>5. CASE byId' = EvictTenant(byId, snap[r]) /\ Fail(r) /\ UNCHANGED <<rows, bg>>
  <2>1. pc'[r] = "unlock" /\ ok'[r] = FALSE
    BY <1>5, <1>t DEF Fail, Goto
  <2>2. SerialReq(r)'
    BY <2>1 DEF SerialReq, LiveLabels, OwnLabels, FallLabels
  <2>3. SerialCaches'
    BY <1>5, <1>c, <1>x, CachesStay, StillSinks DEF EvictTenant
  <2>4. RowInv' /\ SerialBg'
    BY <1>5 DEF SerialInv, RowInv, SerialBg, Live, Own
  <2>5. pc'[r] \notin PreLabels
    BY <2>1 DEF PreLabels
  <2> QED
    BY <1>5, <1>r, <1>x, <2>2, <2>3, <2>4, <2>5, SerialStep, StillSinks
<1> QED
  BY <1>3, <1>4, <1>5 DEF Create

\* The FSM update, the release and the administrative writes.
LEMMA SerialEnds ==
  ASSUME TypeInv, SerialInv, NEW r \in Requests, Frame(r),
         UpdateFSM(r) \/ ReleaseActive(r) \/ AdminUpdate(r)
  PROVE  SerialInv' /\ Sinks
<1>t. /\ pc \in [Requests -> Labels] /\ ok \in [Requests -> BOOLEAN] /\ now \in Nat
      /\ job \in [Requests -> Jobs \cup {NoLease}] /\ job[r] \in Jobs /\ snap[r] \in Leases
  BY DEF TypeInv, TypeOK, ReqOK, CopyLabels, UpdateFSM, ReleaseActive, AdminUpdate
<1>c. job[r].who \in Clients
  BY <1>t DEF Jobs
<1>r. SerialReq(r) /\ ReqOK(r) /\ pc[r] \in {"fsm", "release", "admin"}
  BY DEF SerialInv, TypeInv, UpdateFSM, ReleaseActive, AdminUpdate
<1>o. Own(snap[r]) /\ Busy(r) /\ pc[r] \notin FallLabels
  BY <1>r DEF SerialReq, OwnLabels, FallLabels, Busy
<1>x. UNCHANGED <<active, bg, batch, rec>>
  BY DEF UpdateFSM, ReleaseActive, AdminUpdate
<1>b. job[r].kind \notin AllocKinds => \A i \in LeaseIds : bg[i] = NoLease
  BY <1>o DEF SerialInv, Solo
<1>1. ASSUME UpdateFSM(r) PROVE SerialInv' /\ Sinks
  <2>l. PICK l : l = TransitionLease(snap[r], Target[job[r].kind], now)
    OBVIOUS
  <2>g. PICK g \in FSMStates \ {"Released"} : g = Target[job[r].kind]
    BY <1>1, <1>r DEF UpdateFSM, ReqOK, Target, TargetKinds, FSMStates
  <2>1. l \in Leases /\ l.id = snap[r].id /\ l.hw = snap[r].hw
    <3>1. l \in Leases
      BY <1>t, <2>l, <2>g, TransitionType
    <3>2. l.id = snap[r].id /\ l.hw = snap[r].hw
      BY <1>t, <2>l DEF TransitionLease, Leases
    <3> QED
      BY <3>1, <3>2
  <2>2. pc[r] = "fsm" /\ job' = job
    BY <1>1 DEF UpdateFSM
  <2>3. Live(snap[r]) /\ snap[r].hw = job[r].who
    BY <1>r, <2>2 DEF SerialReq, LiveLabels
  <2>4. l.state = "ACTIVE"
    BY <1>t, <2>l, <2>g, <2>3 DEF TransitionLease, Leases, Live
  <2>5. Own(l) /\ Live(l) /\ l.hw = job[r].who
    BY <1>o, <2>1, <2>3, <2>4 DEF Own, Live
  <2>6. CASE UpdateLease(r, l, "fsmSync")
    BY <1>x, <1>r, <2>1, <2>2, <2>5, <2>6, SerialWrite
  <2>7. CASE Fail(r) /\ UNCHANGED <<rows, byId, revived, snap>>
    <3>1. pc'[r] = "unlock" /\ ok'[r] = FALSE
      BY <1>t, <2>7 DEF Fail, Goto
    <3> QED
      BY <1>x, <1>o, <2>2, <2>7, <3>1, SerialMoves
  <2>8. CASE Goto(r, "return") /\ UNCHANGED <<rows, byId, revived, snap, ok>>
    <3>1. pc'[r] = "return"
      BY <1>t, <2>8 DEF Goto
    <3> QED
      BY <1>x, <1>o, <2>2, <2>8, <3>1, SerialMoves
  <2> QED
    BY <1>1, <2>l, <2>6, <2>7, <2>8 DEF UpdateFSM
<1>2. ASSUME ReleaseActive(r) PROVE SerialInv' /\ Sinks
  <2>l. PICK l : l = TransitionLease(snap[r], "Released", now)
    OBVIOUS
  <2>1. l \in Leases /\ l.id = snap[r].id /\ l.hw = snap[r].hw
    <3>1. l \in Leases
      BY <1>t, <2>l, TransitionType DEF FSMStates
    <3>2. l.id = snap[r].id /\ l.hw = snap[r].hw
      BY <1>t, <2>l DEF TransitionLease, Leases
    <3> QED
      BY <3>1, <3>2
  <2>2. l.state = "RELEASED" /\ Own(l)
    BY <1>t, <1>o, <2>l, <2>1 DEF TransitionLease, Leases, Own
  <2>3. pc[r] = "release" /\ job[r].kind \in {"release", "markReleased"}
    BY <1>2, <1>r DEF ReleaseActive, ReqOK
  <2>4. \A i \in LeaseIds : bg[i] = NoLease
    BY <1>b, <2>3 DEF AllocKinds
  <2>5. CASE UpdateLease(r, l, "releaseSync") /\ UNCHANGED job
    BY <1>x, <1>r, <2>1, <2>2, <2>3, <2>4, <2>5, SerialWrite
  <2>6. CASE Fail(r) /\ UNCHANGED <<rows, byId, revived, job, snap>>
    <3>1. pc'[r] = "unlock" /\ ok'[r] = FALSE
      BY <1>t, <2>6 DEF Fail, Goto
    <3> QED
      BY <1>x, <1>o, <2>6, <3>1, SerialMoves
  <2>7. CASE NextRelease(r) /\ UNCHANGED <<rows, byId, revived, snap, ok>>
    <3>1. job'[r].who = job[r].who /\ pc'[r] \in {"get", "return"}
      BY <1>t, <2>7 DEF NextRelease, Goto, Jobs
    <3>2. job[r].kind \notin AllocKinds
      BY <2>3 DEF AllocKinds
    <3> QED
      BY <1>x, <1>o, <2>3, <2>7, <3>1, <3>2, SerialMoves
  <2> QED
    BY <1>2, <2>l, <2>5, <2>6, <2>7, Zenon DEF ReleaseActive
<1>3. ASSUME AdminUpdate(r) PROVE SerialInv' /\ Sinks
  <2>l. PICK l : l = AdminWrites(job[r].kind, snap[r], now)
    OBVIOUS
  <2>1. l \in Leases /\ l.id = snap[r].id /\ l.hw = snap[r].hw
    <3>1. l \in Leases
      BY <1>t, <1>c, <2>l, AdminType
    <3>2. l.id = snap[r].id /\ l.hw = snap[r].hw
      BY <1>t, <2>l DEF AdminWrites, Declined, Released, Leases
    <3> QED
      BY <3>1, <3>2
  <2>2. l.state # "ACTIVE" /\ Own(l)
    BY <1>t, <1>o, <2>l, <2>1 DEF AdminWrites, Declined, Released, Leases, Own
  <2>3. pc[r] = "admin" /\ job[r].kind \in AdminKinds /\ job' = job
    BY <1>3, <1>r DEF AdminUpdate, ReqOK
  <2>4. \A i \in LeaseIds : bg[i] = NoLease
    BY <1>b, <2>3 DEF AllocKinds, AdminKinds
  <2>5. CASE UpdateLease(r, l, "adminSync")
    BY <1>x, <1>r, <2>1, <2>2, <2>3, <2>4, <2>5, SerialWrite
  <2>6. CASE Goto(r, "return") /\ UNCHANGED <<rows, byId, revived, snap, ok>>
    <3>1. pc'[r] = "return"
      BY <1>t, <2>6 DEF Goto
    <3> QED
      BY <1>x, <1>o, <2>3, <2>6, <3>1, SerialMoves
  <2> QED
    BY <1>3, <2>l, <2>5, <2>6 DEF AdminUpdate
<1> QED
  BY <1>1, <1>2, <1>3

-----------------------------------------------------------------------------
(* The background, the reclaimer and the environment.                      *)

\* A step that moves no request.
LEMMA SerialRest ==
  ASSUME TypeInv, SerialInv, Sinks, UNCHANGED <<pc, job, snap, ok, att>>,
         RowInv', Solo', SerialCaches', SerialBg', SerialBatch', FreshIds',
         \A r \in Requests : Busy(r) => SerialReq(r)'
  PROVE  SerialInv'
<1>1. ASSUME NEW r \in Requests, ~ Busy(r) PROVE SerialReq(r)'
  BY <1>1 DEF Busy, SerialReq, LiveLabels, OwnLabels, FallLabels
<1> QED
  BY <1>1 DEF SerialInv

\* The row a background task writes.
LEMMA SerialAsyncWrite ==
  ASSUME TypeInv, SerialInv, NEW i \in LeaseIds, AsyncWrite(i)
  PROVE  SerialInv' /\ Sinks
<1>x. UNCHANGED <<active, batch, rec, pc, job, snap, ok, att>> /\ bg[i] # NoLease
  BY DEF AsyncWrite, reqVars
<1>t. bg[i].lease \in Leases /\ bg \in [LeaseIds -> Tasks \cup {NoLease}]
  BY <1>x DEF TypeInv, TypeOK, Tasks
<1>l. PICK l \in Leases : l = bg[i].lease
  BY <1>t
<1>1. Live(l) /\ IF bg[i].op = "create" THEN l.id = i ELSE Own(l)
  BY <1>x, <1>l DEF SerialInv, SerialBg
<1>q. \A r \in Requests : Busy(r) => job[r].kind \in AllocKinds /\ l.hw = job[r].who
  BY <1>x, <1>l DEF SerialInv, Solo
<1>f. \A r \in Requests : pc[r] \notin FallLabels
  BY <1>q DEF TypeInv, ReqOK, Busy, FallLabels, AllocKinds, AdminKinds
<1>c. \A j \in LeaseIds : ~ Clearing(j)
  BY <1>x, <1>f DEF Clearing, SerialInv, Solo, FallLabels
<1>2. ASSUME IF bg[i].op = "create" THEN InsertOK(rows, l) ELSE UpdateOK(rows, l),
             rows' = IF bg[i].op = "create" THEN Inserted(rows, l) ELSE Updated(rows, l),
             bg' = [bg EXCEPT ![i] = [op |-> "sync", lease |-> l]], UNCHANGED byId
      PROVE  SerialInv' /\ Sinks
  <2>1. l.state = "ACTIVE" => (Own(l) => rows[l.id].state = "ACTIVE")
    BY <1>1 DEF Live, Own
  <2>2. Writes(l) /\ RowInv' /\ Sinks
    BY <1>1, <1>2, <2>1, RowWritten DEF SerialInv, InsertOK
  <2>3. l.state = "ACTIVE"
    BY <1>1 DEF Live
  <2>4. /\ bg'[i] = [op |-> "sync", lease |-> l]
        /\ \A j \in LeaseIds : j # i => bg'[j] = bg[j]
    BY <1>t, <1>2
  <2>5. bg'[i].op = "sync" /\ bg'[i].lease = l
    BY <2>4
  <2>6. SerialBg'
    <3> SUFFICES ASSUME NEW j \in LeaseIds, bg'[j] # NoLease
                 PROVE  /\ Live(bg[j].lease)'
                        /\ IF bg'[j].op = "create" THEN bg'[j].lease.id = j ELSE Own(bg[j].lease)'
      BY DEF SerialBg
    <3>1. CASE j = i
      BY <3>1, <2>2, <2>3, <2>5 DEF Writes, Live, Own
    <3>2. CASE j # i
      <4>1. bg[j] # NoLease /\ bg'[j] = bg[j]
        BY <3>2, <2>4
      <4>2. bg[j].lease.id = l.id => bg[j].lease.hw = l.hw
        <5>1. CASE bg[i].op = "create"
          <6>1. rows[l.id] = NoLease /\ l.id = i
            BY <5>1, <1>1, <1>2 DEF InsertOK
          <6> QED
            BY <6>1, <4>1, <3>2 DEF SerialInv, SerialBg, Own
        <5>2. CASE bg[i].op # "create"
          BY <5>2, <4>1, <1>1 DEF SerialInv, SerialBg, Own, Live
        <5> QED
          BY <5>1, <5>2
      <4> QED
        BY <4>1, <4>2, <2>2, <2>3, BgKept
    <3> QED
      BY <3>1, <3>2
  <2>7. SerialCaches'
    <3>1. \A j \in LeaseIds : rows[j] # NoLease => (rows[j].state = "ACTIVE" => rows'[j].state = "ACTIVE")
      BY <2>2, <2>3 DEF Writes
    <3> QED
      BY <1>2, <1>x, <1>c, <2>2, <3>1, CachesStay
  <2>8. Solo' /\ SerialBatch'
    BY <1>x, <1>l, <2>4, <2>5 DEF SerialInv, Solo, SerialBatch, Busy
  <2>9. FreshIds'
    <3>1. \A j \in LeaseIds : pc[j[1]] \in PreLabels => j # i /\ (rows[j] = NoLease => j # l.id \/ bg[i].op # "create")
      BY <1>x, <1>1 DEF SerialInv, FreshIds
    <3>2. bg[i].op # "create" => rows[l.id] # NoLease
      BY <1>1 DEF Own
    <3> QED
      BY <1>x, <2>2, <2>4, <3>1, <3>2 DEF SerialInv, FreshIds, Writes
  <2>10. ASSUME NEW r \in Requests, Busy(r) PROVE SerialReq(r)'
    <3>1. SerialReq(r) /\ ReqOK(r) /\ l.hw = job[r].who
      BY <2>10, <1>q DEF SerialInv, TypeInv
    <3>2. ASSUME snap[r] \in Leases, Live(snap[r]), snap[r].hw = job[r].who PROVE Live(snap[r])'
      BY <3>1, <3>2, <1>x, <2>2, <2>3, LiveKept DEF Live
    <3>3. ASSUME snap[r] \in Leases, Own(snap[r]) PROVE Own(snap[r])'
      BY <3>3, <1>x, <2>2, OwnKept DEF Own
    <3>4. pc[r] = "idFill" /\ rows'[snap[r].id].state = "ACTIVE" => rows[snap[r].id].state = "ACTIVE"
      <4>1. pc[r] = "idFill" => Own(snap[r]) /\ snap[r] \in Leases /\ snap[r].id \in LeaseIds
        BY <3>1 DEF SerialReq, OwnLabels, ReqOK, CopyLabels, Leases
      <4> QED
        BY <4>1, <2>2 DEF Sinks, Own
    <3>5. pc[r] \in LiveLabels \cup OwnLabels \cup {"idGet", "idFill"} \/ (pc[r] = "unlock" /\ ok[r]) =>
            (pc[r] = "idGet" /\ job[r].kind \in AdminKinds) \/ snap[r] \in Leases
      BY <3>1 DEF ReqOK, LiveLabels, OwnLabels, CopyLabels, SyncLabels
    <3>6. \/ pc[r] \in LiveLabels \/ (pc[r] = "unlock" /\ ok[r])
          \/ (pc[r] \in {"idGet", "idFill"} /\ job[r].kind \notin AdminKinds)
          => Live(snap[r])' /\ snap[r].hw = job[r].who
      <4> SUFFICES ASSUME \/ pc[r] \in LiveLabels \/ (pc[r] = "unlock" /\ ok[r])
                          \/ (pc[r] \in {"idGet", "idFill"} /\ job[r].kind \notin AdminKinds)
                   PROVE  Live(snap[r])' /\ snap[r].hw = job[r].who
        OBVIOUS
      <4>1. Live(snap[r]) /\ snap[r].hw = job[r].who
        BY <3>1 DEF SerialReq
      <4>2. snap[r] \in Leases
        BY <3>5 DEF LiveLabels, OwnLabels
      <4> QED
        BY <4>1, <4>2, <3>2
    <3>7. pc[r] \in OwnLabels => Own(snap[r])'
      <4>1. pc[r] \in OwnLabels => snap[r] \in Leases
        BY <3>1 DEF ReqOK, OwnLabels, CopyLabels, SyncLabels
      <4> QED
        BY <3>1, <3>3, <4>1 DEF SerialReq
    <3> QED
      BY <1>x, <1>f, <3>1, <3>4, <3>6, <3>7 DEF SerialReq
  <2> QED
    BY <1>x, <2>2, <2>6, <2>7, <2>8, <2>9, <2>10, SerialRest
<1>3. ASSUME byId' = EvictTenant(byId, l), bg' = [bg EXCEPT ![i] = NoLease], UNCHANGED rows
      PROVE  SerialInv' /\ Sinks
  <2>1. \A j \in LeaseIds : bg'[j] \in {bg[j], NoLease}
    BY <1>t, <1>3
  <2>2. SerialCaches'
    BY <1>3, <1>x, <1>c, CachesStay, StillSinks DEF EvictTenant
  <2>3. Solo' /\ SerialBatch' /\ SerialBg' /\ FreshIds' /\ RowInv'
    BY <1>3, <1>x, <2>1 DEF SerialInv, Solo, SerialBatch, SerialBg, FreshIds, RowInv, Busy, Live, Own
  <2>4. \A r \in Requests : SerialReq(r)'
    BY <1>3, <1>x DEF SerialInv, SerialReq, Live, Own
  <2> QED
    BY <1>3, <1>x, <2>2, <2>3, <2>4, SerialRest, StillSinks
<1> QED
  BY <1>2, <1>3, <1>l DEF AsyncWrite

\* The cache call of a background task.
LEMMA SerialAsyncSync ==
  ASSUME TypeInv, SerialInv, GlobalNode, NEW i \in LeaseIds, AsyncSync(i)
  PROVE  SerialInv' /\ Sinks
<1>x. UNCHANGED <<rows, batch, rec, pc, job, snap, ok, att>> /\ bg[i] # NoLease /\ bg[i].op = "sync"
  BY DEF AsyncSync, reqVars
<1>t. bg[i].lease \in Leases /\ bg \in [LeaseIds -> Tasks \cup {NoLease}]
  BY <1>x DEF TypeInv, TypeOK, Tasks
<1>1. Live(bg[i].lease) /\ Own(bg[i].lease)
  BY <1>x DEF SerialInv, SerialBg
<1>c. \A j \in LeaseIds : Clearing(j) => Clearing(j)'
  BY <1>x DEF Clearing
<1>2. SerialCaches'
  BY <1>x, <1>t, <1>1, <1>c, CachesSynced DEF AsyncSync, Live, Own
<1>3. \A j \in LeaseIds : bg'[j] \in {bg[j], NoLease}
  BY <1>t DEF AsyncSync
<1>4. Solo' /\ SerialBatch' /\ SerialBg' /\ FreshIds' /\ RowInv'
  BY <1>x, <1>3 DEF SerialInv, Solo, SerialBatch, SerialBg, FreshIds, RowInv, Busy, Live, Own
<1>5. \A r \in Requests : SerialReq(r)'
  BY <1>x DEF SerialInv, SerialReq, Live, Own
<1> QED
  BY <1>x, <1>2, <1>4, <1>5, SerialRest, StillSinks

\* The reclaimer: the rows of its batch cease to be ACTIVE one by one, and the
\* key of each is deleted before the next is written.
LEMMA SerialReclaimer ==
  ASSUME TypeInv, SerialInv, Serial, GlobalNode, ReclaimList \/ ReclaimWrite \/ ReclaimSync
  PROVE  SerialInv' /\ Sinks
<1>x. UNCHANGED <<byId, bg, pc, job, snap, ok, att>>
  BY DEF ReclaimList, ReclaimWrite, ReclaimSync, storeVars, reqVars
<1>q. (\A r \in Requests : ~ Busy(r)) /\ (\A i \in LeaseIds : bg[i] = NoLease)
  BY DEF ReclaimList, ReclaimWrite, ReclaimSync, Quiet, InFlight, Busy, SerialInv, Solo
<1>s. Solo' /\ SerialBg'
  BY <1>x, <1>q DEF Solo, SerialBg, Busy
<1>1. CASE ReclaimList
  <2>1. UNCHANGED <<rows, active, rec>>
    BY <1>1 DEF ReclaimList, storeVars
  <2>2. PICK s \in SUBSET ExpiredRows(rows, now - Grace) : batch' = {rows[i] : i \in s}
    BY <1>1 DEF ReclaimList, ExpiredBatches
  <2>3. SerialBatch'
    BY <2>1, <2>2 DEF SerialBatch, SerialInv, RowInv, Own, ExpiredRows, Present
  <2>4. \A i \in LeaseIds : Clearing(i) => Clearing(i)'
    BY <1>x, <2>1 DEF Clearing
  <2>5. SerialCaches'
    BY <1>x, <2>1, <2>4, CachesStay, StillSinks
  <2>6. RowInv' /\ FreshIds'
    BY <1>x, <2>1 DEF SerialInv, RowInv, FreshIds
  <2> QED
    BY <1>x, <1>q, <1>s, <2>1, <2>3, <2>5, <2>6, SerialRest, StillSinks
<1>2. CASE ReclaimWrite
  <2>1. UNCHANGED active /\ rec = NoLease
    BY <1>2 DEF ReclaimWrite
  <2>2. PICK m \in batch : /\ batch' = batch \ {m}
                           /\ \/ rows' = Updated(rows, Released(m, now)) /\ rec' = Released(m, now)
                              \/ UNCHANGED <<rows, rec>>
    BY <1>2 DEF ReclaimWrite
  <2>w. PICK w : w = Released(m, now)
    OBVIOUS
  <2>3. m \in Leases /\ Own(m) /\ now \in Nat
    BY <2>2 DEF TypeInv, TypeOK, SerialInv, SerialBatch
  <2>4. w \in Leases /\ w.id = m.id /\ w.hw = m.hw /\ w.state = "RELEASED"
    BY <2>w, <2>3 DEF Released, Leases, LeaseStates
  <2>5. Own(w)
    BY <2>3, <2>4 DEF Own
  <2>c. \A i \in LeaseIds : ~ Clearing(i)
    BY <1>q, <2>1 DEF Clearing, Busy
  <2>6. CASE rows' = Updated(rows, w) /\ rec' = w
    <3>1. Writes(w) /\ RowInv' /\ Sinks
      BY <2>4, <2>5, <2>6, RowWritten DEF SerialInv
    <3>n. w # NoLease
      BY <2>4, StoreAssumption DEF StoreAssumption
    <3>2. \A l \in batch' : Own(l)'
      <4> SUFFICES ASSUME NEW l \in batch PROVE rows'[l.id] # NoLease /\ rows'[l.id].hw = l.hw
        BY <2>2 DEF Own
      <4>1. l \in Leases /\ Own(l)
        BY DEF TypeInv, TypeOK, SerialInv, SerialBatch
      <4> QED
        BY <4>1, <3>1, OwnKept
    <3>3. SerialBatch'
      BY <2>4, <2>6, <3>1, <3>2 DEF SerialBatch, Writes, Own
    <3>4. \A i \in LeaseIds : rows[i] # NoLease =>
            (rows[i].state = "ACTIVE" => (rows'[i].state = "ACTIVE" \/ Clearing(i)'))
      BY <2>6, <3>1, <3>n DEF Writes, Clearing
    <3>5. SerialCaches'
      BY <1>x, <2>1, <2>c, <3>1, <3>4, CachesStay
    <3>6. FreshIds'
      BY <1>x, <2>5, <3>1 DEF SerialInv, FreshIds, Writes, Own
    <3> QED
      BY <1>x, <1>q, <1>s, <3>1, <3>3, <3>5, <3>6, SerialRest
  <2>7. CASE UNCHANGED <<rows, rec>>
    <3>1. SerialBatch' /\ RowInv' /\ FreshIds'
      BY <1>x, <2>2, <2>7 DEF SerialInv, SerialBatch, RowInv, FreshIds, Own
    <3>2. SerialCaches'
      BY <1>x, <2>1, <2>c, <2>7, CachesStay, StillSinks
    <3> QED
      BY <1>x, <1>q, <1>s, <2>7, <3>1, <3>2, SerialRest, StillSinks
  <2> QED
    BY <2>2, <2>w, <2>6, <2>7
<1>3. CASE ReclaimSync
  <2>1. UNCHANGED <<rows, batch>> /\ rec # NoLease /\ rec' = NoLease /\ active' = SyncActive(active, rec)
    BY <1>3 DEF ReclaimSync
  <2>2. rec \in Leases /\ Own(rec) /\ rec.state = "RELEASED"
    BY <2>1 DEF TypeInv, TypeOK, SerialInv, SerialBatch
  <2>3. \A i \in LeaseIds : Clearing(i) => i = rec.id
    BY <1>q DEF Clearing, Busy
  <2>4. SerialCaches'
    BY <1>x, <2>1, <2>2, <2>3, CachesSynced
  <2>5. SerialBatch' /\ RowInv' /\ FreshIds'
    BY <1>x, <2>1 DEF SerialInv, SerialBatch, RowInv, FreshIds, Own
  <2> QED
    BY <1>x, <1>q, <1>s, <2>1, <2>4, <2>5, SerialRest, StillSinks
<1> QED
  BY <1>1, <1>2, <1>3

LEMMA SerialEnvironment ==
  ASSUME TypeInv, SerialInv,
         (\E c \in Clients : CacheDrop(c)) \/ LockExpire \/ RoleChange \/ Tick
           \/ Terminated \/ UNCHANGED vars
  PROVE  SerialInv' /\ Sinks
<1>x. UNCHANGED <<rows, pc, att, job, snap, ok, bg, batch, rec>>
  BY DEF CacheDrop, LockExpire, RoleChange, Tick, Terminated, vars, storeVars, reqVars
<1>1. /\ \A c \in Clients : active'[c] \in {active[c], NoLease}
      /\ \A k \in CacheKeys : byId'[k] \in {byId[k], NoLease}
  <2>1. ASSUME NEW c \in Clients, CacheDrop(c)
        PROVE  active' = [active EXCEPT ![c] = NoLease] /\ byId' = byId
    BY <2>1 DEF CacheDrop
  <2>2. ASSUME Tick
        PROVE  /\ active' = ActiveAt(active, now + 1)
               /\ byId' = [k \in CacheKeys |-> NoLease]
    BY <2>2 DEF Tick
  <2>3. ASSUME LockExpire \/ RoleChange \/ Terminated \/ UNCHANGED vars
        PROVE  UNCHANGED <<active, byId>>
    BY <2>3 DEF LockExpire, RoleChange, Terminated, vars, storeVars
  <2>4. active \in Keys
    BY DEF TypeInv, TypeOK, Keys
  <2> QED
    BY <2>1, <2>2, <2>3, <2>4 DEF Keys, ActiveAt
<1>2. \A i \in LeaseIds : Clearing(i) => Clearing(i)'
  BY <1>x DEF Clearing
<1>3. SerialCaches'
  BY <1>x, <1>1, <1>2, CachesStay, StillSinks
<1>4. Solo' /\ SerialBatch' /\ SerialBg' /\ FreshIds' /\ RowInv'
  BY <1>x DEF SerialInv, Solo, SerialBatch, SerialBg, FreshIds, RowInv, Busy, Live, Own
<1>5. \A r \in Requests : SerialReq(r)'
  BY <1>x DEF SerialInv, SerialReq, Live, Own
<1> QED
  BY <1>x, <1>3, <1>4, <1>5, SerialRest, StillSinks

-----------------------------------------------------------------------------
(* The theorems.                                                           *)

LEMMA SerialInductive ==
  ASSUME TypeInv, TypeInv', SerialInv, Serial, GlobalNode, ~ConflictEnabled, [Next]_vars
  PROVE  SerialInv' /\ Sinks
<1>1. ASSUME NEW r \in Requests, Begin(r) \/ Refuse(r) \/ Progress(r)
      PROVE  SerialInv' /\ Sinks
  <2>1. Frame(r)
    BY <1>1, Alone
  <2>2. ~ Reclaim(r) /\ ~ ProbeAlive(r)
    BY DEF Reclaim, ProbeAlive, SerialInv, SerialReq
  <2>3. CASE \/ Refuse(r) \/ GetActiveHit(r) \/ GetActiveRow(r)
             \/ GetActiveNone(r) \/ RefuseMark(r) \/ AcquireLock(r) \/ Pick(r)
             \/ PickNone(r) \/ ProbeQuiet(r) \/ Unlock(r) \/ Return(r)
             \/ GetByIdHit(r) \/ GetByIdRow(r) \/ GetByIdFails(r)
    <3>1. Busy(r)
      BY <2>3 DEF Busy, Refuse, GetActiveHit, GetActiveRow, GetActiveNone, RefuseMark,
           AcquireLock, Pick, PickNone, ProbeQuiet, Unlock, Return, GetByIdHit,
           GetByIdRow, GetByIdFails
    <3> QED
      BY <2>1, <2>3, <3>1, SerialReads
  <2> QED
    BY <1>1, <2>1, <2>2, <2>3, SerialBegin, SerialFills, SerialSync, SerialRenew,
       SerialCreate, SerialEnds DEF Progress
<1>2. ASSUME NEW i \in LeaseIds, AsyncWrite(i) \/ AsyncSync(i)
      PROVE  SerialInv' /\ Sinks
  BY <1>2, SerialAsyncWrite, SerialAsyncSync
<1> QED
  BY <1>1, <1>2, SerialReclaimer, SerialEnvironment DEF Next

LEMMA SerialInvariant ==
  ASSUME Serial, GlobalNode, ~ConflictEnabled
  PROVE  Spec => [](SerialInv) /\ [][Sinks]_vars
<1>1. Init => SerialInv
  BY DEF Init, SerialInv, RowInv, Solo, SerialCaches, SerialBg, SerialBatch, FreshIds,
         SerialReq, Busy, LiveLabels, OwnLabels, FallLabels
<1>2. TypeInv /\ TypeInv' /\ SerialInv /\ [Next]_vars => SerialInv' /\ [Sinks]_vars
  BY SerialInductive
<1> QED
  BY <1>1, <1>2, TypeInvariant, PTL DEF Spec

\* Handlers one at a time, on a node of the global tenant, without the conflict
\* probe: whenever nothing runs, the lease GetActiveLease would serve from the
\* cache is an ACTIVE row, whatever fills, evictions, failed writes, background
\* persistence and reclaimer passes have come before.
THEOREM CachesAgree ==
  ASSUME Serial, GlobalNode, ~ConflictEnabled
  PROVE  Spec => []CacheAgrees
<1>1. SerialInv => CacheAgrees
  BY DEF SerialInv, SerialCaches, CacheAgrees, Quiet, Clearing, InFlight, Own
<1> QED
  BY <1>1, SerialInvariant, PTL

\* Under the same conditions no packet, administrative call or reclaimer pass
\* makes a RELEASED row ACTIVE again.
THEOREM ReleasesStay ==
  ASSUME Serial, GlobalNode, ~ConflictEnabled
  PROVE  Spec => ReleasedStays
<1>1. Sinks => \A i \in Present(rows) : rows[i].state = "RELEASED" => rows'[i].state # "ACTIVE"
  BY DEF Sinks, Present
<1>2. [Sinks]_vars => [\A i \in Present(rows) : rows[i].state = "RELEASED" => rows'[i].state # "ACTIVE"]_vars
  BY <1>1
<1> QED
  BY <1>2, SerialInvariant, PTL DEF ReleasedStays

============================================================================
