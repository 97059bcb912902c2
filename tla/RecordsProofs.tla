--------------------------- MODULE RecordsProofs ---------------------------
(***************************************************************************)
(* Proofs about the components that decide something from a pool's or a    *)
(* client's state: DHCPv6 prefixes and lifetimes (DhcpV6), alerts          *)
(* (Alerts), policy rules (Policy), the Redis store of active leases       *)
(* (ActiveStore) and the selection of addresses (AddressScan).             *)
(***************************************************************************)
EXTENDS DhcpV6, Alerts, Policy, ActiveStore, AddressScan, SequenceTheorems,
        FiniteSetTheorems, WellFoundedInduction, TLAPS

-----------------------------------------------------------------------------
(* Lifetimes: arithmetic of the reply.                                       *)

LEMMA SmallMod ==
  ASSUME NEW x \in Nat, NEW n \in Nat, x < n
  PROVE  x % n = x
OBVIOUS

LEMMA SecondsType ==
  ASSUME NEW v \in Nat, NEW o \in Nat, NEW d \in Nat
  PROVE  /\ secondsValue(v, o, d) \in Nat /\ secondsValue(v, o, d) <= WordMax
         /\ (v = 0 /\ o = 0 /\ d <= WordMax) => secondsValue(v, o, d) = d
BY V6Assumption DEF secondsValue, clampSeconds

ProfileType == [def : Nat, max : Nat, t1 : Nat, t2 : Nat]
LifeType == [pref : Nat, valid : Nat]

LEMMA ResolvedTypes == ResolvedProfiles \subseteq ProfileType
<1> SUFFICES ASSUME NEW f \in Profiles, NEW own \in Profiles \cup {NoProfile},
                    NEW min \in PoolTimes, NEW max \in PoolTimes
             PROVE  resolvePoolLeaseProfile(f, own, min, max) \in ProfileType
  BY DEF ResolvedProfiles
<1>1. f \in ProfileType /\ min \in Nat /\ max \in Nat
  BY V6Assumption DEF ProfileType
<1>2. PICK d \in Nat : d = IF min > 0 THEN min ELSE f.def
  BY <1>1 DEF ProfileType
<1>3. PICK m \in Nat : m = IF max > 0 THEN max ELSE f.max
  BY <1>1 DEF ProfileType
<1>4. PICK e \in Nat : e = IF m > 0 /\ d > m THEN m ELSE d
  BY <1>2, <1>3
<1>5. [f EXCEPT !.max = m, !.def = e] \in ProfileType
  BY <1>1 DEF ProfileType
<1>6. CASE min > 0 \/ max > 0 \/ own = NoProfile
  <2>1. resolvePoolLeaseProfile(f, own, min, max) = [f EXCEPT !.max = m, !.def = e]
    BY <1>6, <1>2, <1>3, <1>4 DEF resolvePoolLeaseProfile
  <2> QED BY <2>1, <1>5
<1>7. CASE ~(min > 0 \/ max > 0 \/ own = NoProfile)
  <2>1. own \in ProfileType
    BY <1>7, V6Assumption DEF ProfileType
  <2>2. PICK d2 \in Nat : d2 = IF own.def > 0 THEN own.def ELSE f.def
    BY <1>1, <2>1 DEF ProfileType
  <2>3. PICK m2 \in Nat : m2 = IF own.max > 0 THEN own.max ELSE f.max
    BY <1>1, <2>1 DEF ProfileType
  <2>4. resolvePoolLeaseProfile(f, own, min, max) = [own EXCEPT !.def = d2, !.max = m2]
    BY <1>7, <2>2, <2>3 DEF resolvePoolLeaseProfile
  <2> QED BY <2>1, <2>4 DEF ProfileType
<1> QED BY <1>6, <1>7

\* What a reply may say: of its IA_NA, and of an IA_PD beside it.
Derived(f, a) == f.t1 = 0 /\ f.t2 = 0 /\ 3 * a.pref <= WordMax
Ordered(f, a) ==
  /\ a.pref <= a.valid
  /\ Derived(f, a) => a.t1 <= a.t2 /\ a.t2 <= a.pref
Beside(f, over, a, d) ==
  /\ d.life.pref <= d.life.valid
  /\ Derived(f, a) /\ d.hint.pref = 0 /\ over.pref = 0 => a.t2 <= d.life.pref
Told(r) ==
  /\ Ordered(r.of, r.ia)
  /\ \A d \in r.pds : Beside(r.of, r.over, r.ia, d)

LEMMA ReplyOrdered ==
  ASSUME NEW f \in ProfileType, NEW over \in LifeType, NEW m
  PROVE  /\ Ordered(f, buildResponse(f, over, m))
         /\ buildResponse(f, over, m).pref \in Nat /\ buildResponse(f, over, m).valid \in Nat
         /\ over.pref = 0 => \/ buildResponse(f, over, m).pref = 0
                             \/ buildResponse(f, over, m).pref
                                  = clampSeconds(IF f.def > 0 THEN f.def ELSE 2)
         /\ buildResponse(f, over, m).t2 \in Nat
<1> DEFINE zero == m = "CONFIRM" /\ f.def = 0 /\ f.max = 0
<1>0. /\ f.def \in Nat /\ f.max \in Nat /\ f.t1 \in Nat /\ f.t2 \in Nat
      /\ over.pref \in Nat /\ over.valid \in Nat
  BY DEF ProfileType, LifeType
<1>a. secondsValue(f.def, over.pref, 2) \in Nat /\ secondsValue(f.def, over.pref, 2) <= WordMax
  BY <1>0, SecondsType
<1>1. PICK pref \in Nat : pref = IF zero THEN 0 ELSE secondsValue(f.def, over.pref, 2)
  BY <1>a
<1>2. pref <= WordMax /\ WordMax \in Nat
  <2>1. WordMax \in Nat
    BY V6Assumption
  <2>2. CASE zero
    BY <1>1, <2>1, <2>2
  <2>3. CASE ~zero
    BY <1>a, <1>1, <2>1, <2>3
  <2> QED BY <2>1, <2>2, <2>3
<1>b. secondsValue(f.max, over.valid, 2 * pref) \in Nat
  <2>1. 2 * pref \in Nat
    OBVIOUS
  <2> QED BY <1>0, <2>1, SecondsType
<1>3. PICK v \in Nat : v = IF zero THEN 0 ELSE secondsValue(f.max, over.valid, 2 * pref)
  BY <1>b
<1>4. PICK t1 : t1 = secondsValue(f.t1, 0, pref \div 2)
  OBVIOUS
<1>c. secondsValue(f.t2, 0, ((pref * 3) % (WordMax + 1)) \div 4) \in Nat
  <2>1. ((pref * 3) % (WordMax + 1)) \in Nat
    BY <1>2
  <2>2. PICK x \in Nat : x = ((pref * 3) % (WordMax + 1)) \div 4
    BY <2>1
  <2>3. secondsValue(f.t2, 0, x) \in Nat
    BY <1>0, SecondsType
  <2> QED BY <2>2, <2>3
<1>5. PICK t2 \in Nat : t2 = secondsValue(f.t2, 0, ((pref * 3) % (WordMax + 1)) \div 4)
  BY <1>c
<1>6. buildResponse(f, over, m) = [pref |-> pref, valid |-> IF v < pref THEN pref ELSE v,
                                   t1 |-> t1, t2 |-> t2]
  BY <1>1, <1>3, <1>4, <1>5 DEF buildResponse
<1>7. ASSUME f.t1 = 0, f.t2 = 0, 3 * pref <= WordMax
      PROVE  t1 <= t2 /\ t2 <= pref
  <2>1. (pref * 3) % (WordMax + 1) = pref * 3
    <3>1. pref * 3 \in Nat /\ WordMax + 1 \in Nat /\ pref * 3 < WordMax + 1
      BY <1>2, <1>7
    <3> QED BY <3>1, SmallMod
  <2>2. PICK q \in Nat : q = pref * 3
    OBVIOUS
  <2>3. /\ pref \div 2 \in Nat /\ q \div 4 \in Nat
        /\ pref \div 2 <= q \div 4 /\ q \div 4 <= pref
    BY <2>2
  <2>4. t1 = pref \div 2
    BY <1>2, <1>4, <1>7, <2>3, SecondsType
  <2>5. t2 = q \div 4
    <3>1. t2 = secondsValue(0, 0, q \div 4)
      BY <1>5, <1>7, <2>1, <2>2
    <3>2. q \div 4 \in Nat /\ q \div 4 <= WordMax
      BY <1>2, <2>3
    <3> QED BY <3>1, <3>2, SecondsType
  <2> QED BY <2>3, <2>4, <2>5
<1>8. over.pref = 0 => pref = 0 \/ pref = clampSeconds(IF f.def > 0 THEN f.def ELSE 2)
  BY <1>1 DEF secondsValue
<1>9. Ordered(f, buildResponse(f, over, m))
  BY <1>6, <1>7 DEF Ordered, Derived
<1> QED BY <1>6, <1>8, <1>9

LEMMA DelegationOrdered ==
  ASSUME NEW f \in ProfileType, NEW over \in LifeType, NEW h \in LifeType, NEW a,
         Ordered(f, a), a.pref \in Nat, a.valid \in Nat, a.t2 \in Nat,
         over.pref = 0 => a.pref = 0 \/ a.pref = clampSeconds(IF f.def > 0 THEN f.def ELSE 2),
         NEW d, d = [hint |-> h, life |-> encodeIAPDOption(buildPrefixDelegation(f, h), a)]
  PROVE  Beside(f, over, a, d)
<1>0. /\ f.def \in Nat /\ f.max \in Nat /\ h.pref \in Nat /\ h.valid \in Nat
      /\ over.pref \in Nat /\ WordMax \in Nat
  BY V6Assumption DEF ProfileType, LifeType
<1>1. PICK dp \in Nat : dp = IF h.pref > 0 THEN h.pref ELSE IF f.def > 0 THEN f.def ELSE 2
  BY <1>0
<1>2. PICK dv \in Nat : dv = IF h.valid > 0 THEN h.valid ELSE f.max
  BY <1>0
<1>3. PICK dw \in Nat : dw = IF dv < dp THEN 2 * dp ELSE dv
  OBVIOUS
<1>4. buildPrefixDelegation(f, h) = [pref |-> dp, valid |-> dw]
  BY <1>1, <1>2, <1>3 DEF buildPrefixDelegation
<1>5. PICK p \in Nat : p = clampSeconds(dp)
  BY <1>0 DEF clampSeconds
<1>6. PICK v \in Nat : v = clampSeconds(dw)
  BY <1>0 DEF clampSeconds
<1>7. PICK pref \in Nat : pref = IF p = 0 THEN a.pref ELSE p
  OBVIOUS
<1>8. PICK valid \in Nat : valid = IF v = 0 THEN a.valid ELSE v
  OBVIOUS
<1>9. d.life = [pref |-> pref, valid |-> IF valid < pref THEN pref ELSE valid] /\ d.hint = h
  BY <1>4, <1>5, <1>6, <1>7, <1>8 DEF encodeIAPDOption
<1>10. ASSUME Derived(f, a), h.pref = 0, over.pref = 0 PROVE a.t2 <= pref
  <2>1. a.t2 <= a.pref
    BY <1>10 DEF Ordered
  <2>2. CASE a.pref = 0
    BY <2>1, <2>2
  <2>3. CASE a.pref # 0
    <3>1. a.pref = clampSeconds(IF f.def > 0 THEN f.def ELSE 2)
      BY <1>10, <2>3
    <3>2. dp = IF f.def > 0 THEN f.def ELSE 2
      BY <1>0, <1>1, <1>10
    <3>3. p = a.pref
      BY <1>5, <3>1, <3>2
    <3> QED BY <1>7, <2>1, <2>3, <3>3
  <2> QED BY <2>2, <2>3
<1> QED BY <1>9, <1>10 DEF Beside

LEMMA ReplyTold ==
  ASSUME NEW f \in ProfileType, NEW over \in LifeType, NEW m, NEW pds \in SUBSET LifeType
  PROVE  Reply(f, over, m, pds).pc = "reply" /\ Told(Reply(f, over, m, pds))
<1>1. PICK a : a = buildResponse(f, over, m)
  OBVIOUS
<1>2. /\ Ordered(f, a) /\ a.pref \in Nat /\ a.valid \in Nat /\ a.t2 \in Nat
      /\ over.pref = 0 => a.pref = 0 \/ a.pref = clampSeconds(IF f.def > 0 THEN f.def ELSE 2)
  BY <1>1, ReplyOrdered
<1>3. PICK D : D = {[hint |-> h, life |-> encodeIAPDOption(buildPrefixDelegation(f, h), a)] : h \in pds}
  OBVIOUS
<1>4. Reply(f, over, m, pds) = [pc |-> "reply", of |-> f, over |-> over, ia |-> a, pds |-> D]
  BY <1>1, <1>3 DEF Reply
<1>5. ASSUME NEW d \in D PROVE Beside(f, over, a, d)
  <2>1. PICK h \in pds : d = [hint |-> h, life |-> encodeIAPDOption(buildPrefixDelegation(f, h), a)]
    BY <1>3
  <2> QED BY <1>2, <2>1, DelegationOrdered
<1> QED BY <1>2, <1>4, <1>5 DEF Told

-----------------------------------------------------------------------------
(* Prefixes.  What a packet has read as in use covers the ACTIVE rows until  *)
(* it has written, unless another goroutine wrote meanwhile (lapped); and the *)
(* row it is about to write back shares its prefix only with a row of whose  *)
(* two one was written so.                                                    *)

Shaped(r) == {"id", "client", "iapd", "prefix", "state", "raced"} \subseteq DOMAIN r /\ r.raced \in BOOLEAN

Stages == {"idle", "eui", "lease", "list", "get", "write", "give", "close", "finish", "reply"}
Fields == {"pc", "c", "m", "ids", "used", "row", "got", "want", "len", "lapped"}

\* An ACTIVE row with the prefix of this one is this one, or one was raced.
Alone(r) == \A o \in Active : o.prefix = r.prefix => o.id = r.id \/ o.raced \/ r.raced

\* What the packet has read still covers the table.
Covered(p) == p.lapped \/ \A r \in Active : r.prefix \in p.used

PacketSound(w) ==
  /\ pkt[w].pc \in Stages
  /\ "pc" \in DOMAIN pkt[w]
  /\ pkt[w].pc \notin {"idle", "reply"} =>
       Fields \subseteq DOMAIN pkt[w] /\ pkt[w].lapped \in BOOLEAN
  /\ pkt[w].pc \in {"get", "write"} => Covered(pkt[w])
  /\ pkt[w].pc = "write" /\ pkt[w].row # <<>> =>
       Shaped(pkt[w].row[1]) /\ (pkt[w].lapped \/ Alone(pkt[w].row[1]))
  /\ pkt[w].pc = "close" => Shaped(pkt[w].row[1])
  /\ pkt[w].pc = "reply" => Told(pkt[w])

V6Inv ==
  /\ DOMAIN pkt = Workers
  /\ \A r \in prefixRows : Shaped(r)
  /\ admin # <<>> => Shaped(admin[1]) /\ admin[1].state # "ACTIVE"
  /\ PrefixUnshared
  /\ \A w \in Workers : PacketSound(w)

\* A packet stays sound while no row becomes ACTIVE.
LEMMA PacketStays ==
  ASSUME NEW w \in Workers, PacketSound(w), pkt'[w] = pkt[w], Active' \subseteq Active
  PROVE  PacketSound(w)'
<1>1. PICK p : p = pkt[w]
  OBVIOUS
<1>2. Covered(p) => Covered(p)'
  BY DEF Covered
<1>3. ASSUME NEW r, Alone(r) PROVE Alone(r)'
  BY <1>3 DEF Alone
<1>4. \A r : Shaped(r)' <=> Shaped(r)
  BY DEF Shaped
<1>5. Told(p)' <=> Told(p)
  BY DEF Told, Ordered, Derived, Beside
<1> HIDE DEF Covered, Alone, Shaped, Told
<1> QED BY <1>1, <1>2, <1>3, <1>4, <1>5 DEF PacketSound

\* A worker moves; no row becomes ACTIVE.
LEMMA WorkerMoves ==
  ASSUME V6Inv, NEW w \in Workers, DOMAIN pkt' = Workers, admin' = admin,
         Active' \subseteq Active, \A r \in prefixRows' : Shaped(r), PacketSound(w)',
         \A v \in Workers \ {w} : pkt'[v] = pkt[v]
  PROVE  V6Inv'
<1>1. ASSUME NEW v \in Workers PROVE PacketSound(v)'
  <2>1. CASE v = w
    BY <2>1
  <2>2. CASE v # w
    BY <2>2, PacketStays DEF V6Inv
  <2> QED BY <2>1, <2>2
<1>2. PrefixUnshared'
  BY DEF V6Inv, PrefixUnshared
<1> QED BY <1>1, <1>2 DEF V6Inv, Shaped

LEMMA SameTable ==
  ASSUME V6Inv, UNCHANGED prefixRows
  PROVE  Active' \subseteq Active /\ \A r \in prefixRows' : Shaped(r)
BY DEF Active, V6Inv

LEMMA DropMoves ==
  ASSUME V6Inv, NEW w \in Workers, Drop(w), UNCHANGED <<prefixRows, admin>>
  PROVE  V6Inv'
<1>1. pkt' = [pkt EXCEPT ![w] = [pc |-> "idle"]]
  BY DEF Drop, Resting
<1>2. pkt'[w] = [pc |-> "idle"] /\ DOMAIN pkt' = Workers
  BY <1>1 DEF V6Inv
<1>3. PacketSound(w)'
  BY <1>2 DEF PacketSound, Stages
<1> QED BY <1>1, <1>2, <1>3, WorkerMoves, SameTable

\* A worker is told what to answer.
LEMMA ReplyMoves ==
  ASSUME V6Inv, NEW w \in Workers, NEW f \in ProfileType, NEW over \in LifeType, NEW m,
         NEW pds \in SUBSET LifeType,
         pkt' = [pkt EXCEPT ![w] = Reply(f, over, m, pds)], UNCHANGED <<prefixRows, admin>>
  PROVE  V6Inv'
<1>1. PICK r : r = Reply(f, over, m, pds)
  OBVIOUS
<1>2. r.pc = "reply" /\ Told(r)
  BY <1>1, ReplyTold
<1>3. "pc" \in DOMAIN r
  BY <1>1 DEF Reply
<1>4. pkt'[w] = r /\ DOMAIN pkt' = Workers /\ \A v \in Workers \ {w} : pkt'[v] = pkt[v]
  BY <1>1 DEF V6Inv
<1>5. PacketSound(w)'
  <2>1. Told(r)'
    BY <1>2 DEF Told, Ordered, Derived, Beside
  <2> HIDE DEF Told
  <2> QED BY <1>2, <1>3, <1>4, <2>1 DEF PacketSound, Stages
<1> QED BY <1>4, <1>5, WorkerMoves, SameTable

\* A worker goes on to a stage at which nothing is asked of it.
LEMMA StageMoves ==
  ASSUME V6Inv, NEW w \in Workers, pkt[w].pc \notin {"idle", "reply"},
         NEW s \in {"lease", "list", "give", "finish"},
         pkt' = [pkt EXCEPT ![w].pc = s], UNCHANGED <<prefixRows, admin>>
  PROVE  V6Inv'
<1>1. pkt'[w] = [pkt[w] EXCEPT !.pc = s] /\ DOMAIN pkt' = Workers
  BY DEF V6Inv
<1>2. "pc" \in DOMAIN pkt[w] /\ PacketSound(w)
  BY DEF V6Inv, PacketSound
<1>3. Fields \subseteq DOMAIN pkt[w] /\ pkt[w].lapped \in BOOLEAN
  BY <1>2 DEF PacketSound
<1>4. pkt'[w].pc = s /\ DOMAIN pkt'[w] = DOMAIN pkt[w] /\ pkt'[w].lapped = pkt[w].lapped
  BY <1>1, <1>2, <1>3 DEF Fields
<1>5. PacketSound(w)'
  BY <1>2, <1>3, <1>4 DEF PacketSound, Stages
<1> QED BY <1>1, <1>5, WorkerMoves, SameTable

LEMMA ReceiveKept ==
  ASSUME V6Inv, NEW w \in Workers, NEW c, NEW m, NEW ids, NEW len, NEW want,
         processDatagram(w, c, m, ids, len, want)
  PROVE  V6Inv'
<1>0. PacketSound(w) /\ DOMAIN pkt = Workers
  BY DEF V6Inv
<1>1. CASE UNCHANGED <<prefixRows, admin, pkt>>
  <2>1. PacketSound(w)'
    BY <1>0, <1>1, PacketStays, SameTable
  <2> QED BY <1>0, <1>1, <2>1, WorkerMoves, SameTable
<1>2. CASE pkt' = [pkt EXCEPT ![w] =
              [pc |-> EntryPoint(m), c |-> c, m |-> m, ids |-> ids,
               len |-> len, want |-> want, used |-> {}, row |-> <<>>,
               lapped |-> FALSE, got |-> FALSE]]
  <2>0. PICK e : e = EntryPoint(m)
    OBVIOUS
  <2>1. e \in {"give", "finish", "eui"}
    BY <2>0 DEF EntryPoint
  <2>2. pkt'[w] = [pc |-> e, c |-> c, m |-> m, ids |-> ids,
               len |-> len, want |-> want, used |-> {}, row |-> <<>>,
               lapped |-> FALSE, got |-> FALSE]
    BY <1>2, <1>0, <2>0
  <2>3. PacketSound(w)'
    BY <2>1, <2>2 DEF PacketSound, Stages, Fields
  <2>4. UNCHANGED <<prefixRows, admin>>
    BY DEF processDatagram
  <2> QED BY <1>0, <1>2, <2>3, <2>4, WorkerMoves, SameTable
<1> QED BY <1>1, <1>2 DEF processDatagram

LEMMA BindingKept ==
  ASSUME V6Inv, NEW w \in Workers, resolveEUI64IPv6Binding(w)
  PROVE  V6Inv'
<1>1. /\ pkt[w].pc = "eui" /\ UNCHANGED <<prefixRows, admin>>
      /\ pkt' = [pkt EXCEPT ![w].pc = "lease"] \/ trySendNACK(w) \/ Drop(w)
  BY DEF resolveEUI64IPv6Binding
<1>2. CASE trySendNACK(w)
  <2>1. PICK over \in Overrides : pkt' = [pkt EXCEPT ![w] = Reply(ZeroProfile, over, pkt[w].m, {})]
    BY <1>2 DEF trySendNACK
  <2>2. over \in LifeType /\ ZeroProfile \in ProfileType /\ {} \in SUBSET LifeType
    BY V6Assumption DEF LifeType, ZeroProfile, ProfileType
  <2>3. PICK z \in ProfileType : z = ZeroProfile
    BY <2>2
  <2>4. PICK m : m = pkt[w].m
    OBVIOUS
  <2>5. pkt' = [pkt EXCEPT ![w] = Reply(z, over, m, {})]
    BY <2>1, <2>3, <2>4
  <2> QED BY <1>1, <2>2, <2>5, ReplyMoves
<1> QED BY <1>1, <1>2, StageMoves, DropMoves

LEMMA LeaseKept ==
  ASSUME V6Inv, NEW w \in Workers, HandleRequest(w)
  PROVE  V6Inv'
<1>0. PacketSound(w) /\ DOMAIN pkt = Workers
  BY DEF V6Inv
<1>1. /\ pkt[w].pc = "lease" /\ UNCHANGED <<prefixRows, admin>>
      /\ \/ Drop(w)
         \/ pkt' = [pkt EXCEPT ![w].pc = "finish"]
         \/ pkt' = [pkt EXCEPT ![w] = attachPrefixDelegation(pkt[w])]
  BY DEF HandleRequest
<1>2. CASE pkt' = [pkt EXCEPT ![w] = attachPrefixDelegation(pkt[w])]
  <2>1. PICK q : q = attachPrefixDelegation(pkt[w])
    OBVIOUS
  <2>2. PICK st : st = resolveStaticPrefixDelegation(pkt[w].c)
    OBVIOUS
  <2>3. q = [pkt[w] EXCEPT !.pc = "list"]
        \/ q = [pkt[w] EXCEPT !.pc = "list", !.want = st, !.len = st[1]]
    BY <2>1, <2>2 DEF attachPrefixDelegation
  <2>4. Fields \subseteq DOMAIN pkt[w] /\ pkt[w].lapped \in BOOLEAN
    BY <1>0, <1>1 DEF PacketSound
  <2>5. q.pc = "list" /\ DOMAIN q = DOMAIN pkt[w] /\ q.lapped = pkt[w].lapped
    BY <2>3, <2>4 DEF Fields
  <2>6. pkt'[w] = q
    BY <1>2, <2>1, <1>0
  <2>7. PacketSound(w)'
    BY <2>4, <2>5, <2>6 DEF PacketSound, Stages, Fields
  <2> QED BY <1>1, <1>2, <2>7, <1>0, WorkerMoves, SameTable
<1> QED BY <1>1, <1>2, StageMoves, DropMoves

LEMMA ListKept ==
  ASSUME V6Inv, NEW w \in Workers, AllocateOrReusePrefixes(w)
  PROVE  V6Inv'
<1>0. PacketSound(w) /\ DOMAIN pkt = Workers
  BY DEF V6Inv
<1>1. /\ pkt[w].pc = "list" /\ UNCHANGED <<prefixRows, admin>>
      /\ pkt' = [pkt EXCEPT ![w].pc = "get", ![w].used = ListActivePrefixes, ![w].lapped = FALSE]
  BY DEF AllocateOrReusePrefixes
<1>2. Fields \subseteq DOMAIN pkt[w]
  BY <1>0, <1>1 DEF PacketSound
<1>3. PICK U : U = ListActivePrefixes
  OBVIOUS
<1>4. pkt'[w] = [pkt[w] EXCEPT !.pc = "get", !.used = U, !.lapped = FALSE]
  BY <1>1, <1>0, <1>3
<1>5. /\ pkt'[w].pc = "get" /\ pkt'[w].used = U /\ pkt'[w].lapped = FALSE
      /\ DOMAIN pkt'[w] = DOMAIN pkt[w]
  BY <1>2, <1>4 DEF Fields
<1>6. \A r \in Active' : r.prefix \in U
  BY <1>1, <1>3 DEF Active, ListActivePrefixes
<1>7. PacketSound(w)'
  BY <1>2, <1>5, <1>6 DEF PacketSound, Stages, Covered, Fields
<1> QED BY <1>1, <1>7, <1>0, WorkerMoves, SameTable

LEMMA LookupKept ==
  ASSUME V6Inv, NEW w \in Workers, Lookup(w)
  PROVE  V6Inv'
<1> DEFINE p == pkt[w]
<1>0. PacketSound(w) /\ DOMAIN pkt = Workers
  BY DEF V6Inv
<1>1. Fields \subseteq DOMAIN p /\ p.lapped \in BOOLEAN
  BY <1>0 DEF Lookup, PacketSound
<1>2. UNCHANGED <<prefixRows, admin>> /\ Active' = Active
  BY DEF Lookup, Active
<1>3. PICK found : /\ found = <<>> \/ \E r \in Active : found = <<r>>
                   /\ p.pc \in {"get", "give"}
                   /\ IF p.pc = "give" /\ found = <<>>
                      THEN pkt' = [pkt EXCEPT ![w].ids = Tail(p.ids)]
                      ELSE pkt' = [pkt EXCEPT ![w].row = found,
                             ![w].pc = IF p.pc = "give" THEN "close" ELSE "write"]
  BY DEF Lookup, GetActivePrefixLease
<1>4. CASE p.pc = "give" /\ found = <<>>
  <2>1. pkt'[w] = [p EXCEPT !.ids = Tail(p.ids)] /\ DOMAIN pkt' = Workers
    BY <1>3, <1>4, <1>0
  <2>2. pkt'[w].pc = "give" /\ DOMAIN pkt'[w] = DOMAIN p /\ pkt'[w].lapped = p.lapped
    BY <2>1, <1>4, <1>1 DEF Fields
  <2>3. PacketSound(w)'
    BY <2>2, <1>1 DEF PacketSound, Stages, Fields
  <2> QED BY <1>2, <1>3, <1>4, <2>1, <2>3, WorkerMoves, SameTable
<1>5. CASE ~(p.pc = "give" /\ found = <<>>)
  <2>0. PICK st \in {"close", "write"} : st = IF p.pc = "give" THEN "close" ELSE "write"
    OBVIOUS
  <2>1. pkt'[w] = [p EXCEPT !.row = found, !.pc = st] /\ DOMAIN pkt' = Workers
    BY <1>3, <1>5, <1>0, <2>0
  <2>2. /\ pkt'[w].pc = st /\ pkt'[w].row = found /\ pkt'[w].used = p.used
        /\ pkt'[w].lapped = p.lapped /\ DOMAIN pkt'[w] = DOMAIN p
    BY <2>1, <1>1 DEF Fields
  <2>3. st = "write" => p.lapped \/ \A r \in Active : r.prefix \in p.used
    BY <2>0, <1>3, <1>0 DEF PacketSound, Covered
  <2>4. ASSUME NEW r \in Active, found = <<r>>
        PROVE  Shaped(found[1]) /\ Alone(found[1])
    <3>1. \A o \in Active : o.prefix = r.prefix => o = r \/ o.raced \/ r.raced
      BY DEF V6Inv, PrefixUnshared
    <3>2. r \in prefixRows /\ found[1] = r
      BY <2>4 DEF Active
    <3>3. Alone(r)
      BY <3>1 DEF Alone
    <3> QED BY <3>2, <3>3 DEF V6Inv
  <2>5. found # <<>> => Shaped(found[1]) /\ Alone(found[1])
    BY <2>4, <1>3
  <2>6. st = "close" => found # <<>>
    BY <2>0, <1>5
  <2>7. found # <<>> => Alone(found[1])'
    BY <1>2, <2>5 DEF Alone
  <2>8. PacketSound(w)'
    <3>1. found # <<>> => Shaped(found[1])' 
      BY <2>5 DEF Shaped
    <3>2. st = "write" => Covered(pkt[w])'
      BY <1>2, <2>2, <2>3 DEF Covered
    <3>3. Fields \subseteq DOMAIN pkt'[w] /\ pkt'[w].lapped \in BOOLEAN /\ "pc" \in DOMAIN pkt'[w]
      BY <1>1, <2>2 DEF Fields
    <3> HIDE DEF Shaped, Alone, Covered
    <3>5. found # <<>> => Shaped(pkt[w].row[1])' /\ Alone(pkt[w].row[1])'
      BY <2>2, <2>7, <3>1
    <3> QED BY <2>2, <2>6, <3>2, <3>3, <3>5 DEF PacketSound, Stages
  <2> QED BY <1>2, <1>3, <1>5, <2>1, <2>8, WorkerMoves, SameTable
<1> QED BY <1>4, <1>5

LEMMA AnswerKept ==
  ASSUME V6Inv, NEW w \in Workers, Succeed(w)
  PROVE  V6Inv'
<1>0. pkt[w].pc = "finish" /\ UNCHANGED <<prefixRows, admin>> /\ DOMAIN pkt = Workers
  BY DEF Succeed, V6Inv
<1>1. CASE Drop(w)
  BY <1>0, <1>1, DropMoves
<1>2. CASE ~Drop(w)
  <2>1. PICK f \in ResolvedProfiles, over \in Overrides, hint \in Hints, inside \in BOOLEAN :
          pkt' = [pkt EXCEPT ![w] = HandleConfirm(pkt[w], f, inside, over, hint)]
    BY <1>2 DEF Succeed
  <2>2. f \in ProfileType /\ over \in LifeType /\ hint \in LifeType
    BY ResolvedTypes, V6Assumption DEF LifeType
  <2>3. PICK z \in ProfileType : z = ZeroProfile
    BY DEF ZeroProfile, ProfileType
  <2>4. PICK m : m = pkt[w].m
    OBVIOUS
  <2>5. PICK pds \in SUBSET LifeType : pds = IF pkt[w].got THEN {hint} ELSE {}
    BY <2>2
  <2>6. \/ pkt' = [pkt EXCEPT ![w] = Reply(f, over, m, pds)]
        \/ pkt' = [pkt EXCEPT ![w] = Reply(z, over, m, {})]
    BY <2>1, <2>3, <2>4, <2>5 DEF HandleConfirm
  <2>7. {} \in SUBSET LifeType
    OBVIOUS
  <2>8. CASE pkt' = [pkt EXCEPT ![w] = Reply(f, over, m, pds)]
    BY <1>0, <2>2, <2>8, ReplyMoves
  <2>9. CASE pkt' = [pkt EXCEPT ![w] = Reply(z, over, m, {})]
    BY <1>0, <2>2, <2>7, <2>9, ReplyMoves
  <2> QED BY <2>6, <2>8, <2>9
<1> QED BY <1>1, <1>2

LEMMA WorkKept ==
  ASSUME V6Inv, NEW w \in Workers,
         \/ \E c \in V6Clients, m \in Messages, ids \in Lists, len \in Lens,
               want \in Wanted \cup {NoPrefix} : processDatagram(w, c, m, ids, len, want)
         \/ resolveEUI64IPv6Binding(w) \/ HandleRequest(w) \/ AllocateOrReusePrefixes(w)
         \/ Lookup(w) \/ HandleRelease(w) \/ Succeed(w) \/ sendResponse(w)
  PROVE  V6Inv'
<1>1. CASE HandleRelease(w)
  BY <1>1, StageMoves DEF HandleRelease
<1>2. CASE sendResponse(w)
  BY <1>2, DropMoves DEF sendResponse
<1> QED BY <1>1, <1>2, ReceiveKept, BindingKept, LeaseKept, ListKept, LookupKept, AnswerKept

\* A row is written under its id: an ACTIVE one that keeps apart from the others.
LEMMA WriteUnshared ==
  ASSUME V6Inv, NEW r, Shaped(r), r.state = "ACTIVE" => Alone(r), UpdatePrefixLease(r)
  PROVE  /\ PrefixUnshared' /\ \A o \in prefixRows' : Shaped(o)
         /\ Active' \subseteq Active \cup {r}
         /\ r.state # "ACTIVE" => Active' \subseteq Active
<1>1. prefixRows' = {o \in prefixRows : o.id # r.id} \cup {r}
  BY DEF UpdatePrefixLease
<1>2. \A o \in Active' : (o \in Active /\ o.id # r.id) \/ (o = r /\ r.state = "ACTIVE")
  BY <1>1 DEF Active
<1>3. PrefixUnshared'
  <2> SUFFICES ASSUME NEW o \in Active', NEW q \in Active', o.prefix = q.prefix
               PROVE  o = q \/ o.raced \/ q.raced
    BY DEF PrefixUnshared
  <2> QED BY <1>2 DEF V6Inv, PrefixUnshared, Alone
<1> QED BY <1>1, <1>2, <1>3 DEF V6Inv

\* A worker has stored a lease and goes on: what it has read covers the table
\* again, and whoever else was allocating is lapped.
LEMMA StoredMoves ==
  ASSUME V6Inv, NEW w \in Workers, pkt[w].pc = "write", NEW q, NextRequest(w, q), admin' = admin,
         \A r \in prefixRows' : Shaped(r), PrefixUnshared',
         pkt[w].lapped \/ \A o \in Active' : o.prefix \in pkt[w].used \cup {q}
  PROVE  V6Inv'
<1> DEFINE p == pkt[w]
<1>0. /\ PacketSound(w) /\ DOMAIN pkt = Workers
      /\ Fields \subseteq DOMAIN p /\ p.lapped \in BOOLEAN
  BY DEF V6Inv, PacketSound
<1>1. PICK st \in {"finish", "get"} : st = IF Len(p.ids) = 1 THEN "finish" ELSE "get"
  OBVIOUS
<1>2. PICK mine : mine = [p EXCEPT !.ids = Tail(p.ids), !.used = p.used \cup {q},
                            !.row = <<>>, !.got = TRUE, !.pc = st]
  OBVIOUS
<1>3. pkt' = [v \in Workers |->
                IF v = w THEN mine
                ELSE IF v \in Allocating THEN [pkt[v] EXCEPT !.lapped = TRUE]
                ELSE pkt[v]]
  BY <1>1, <1>2 DEF NextRequest
<1>4. DOMAIN pkt' = Workers /\ pkt'[w] = mine
  BY <1>3
<1>5. PacketSound(w)'
  <2>1. /\ mine.pc = st /\ mine.used = p.used \cup {q} /\ mine.lapped = p.lapped
        /\ DOMAIN mine = DOMAIN p
    BY <1>0, <1>2 DEF Fields
  <2> QED BY <1>0, <1>4, <2>1 DEF PacketSound, Stages, Covered, Fields
<1>6. ASSUME NEW v \in Workers, v # w PROVE PacketSound(v)'
  <2>0. PacketSound(v)
    BY DEF V6Inv
  <2>1. CASE v \in Allocating
    <3>1. pkt[v].pc \in {"get", "write"}
      BY <2>1 DEF Allocating
    <3>2. Fields \subseteq DOMAIN pkt[v]
      BY <2>0, <3>1 DEF PacketSound
    <3>3. pkt'[v] = [pkt[v] EXCEPT !.lapped = TRUE]
      BY <1>3, <1>6, <2>1
    <3>4. /\ pkt'[v].pc = pkt[v].pc /\ pkt'[v].row = pkt[v].row /\ pkt'[v].lapped = TRUE
          /\ DOMAIN pkt'[v] = DOMAIN pkt[v]
      BY <3>2, <3>3 DEF Fields
    <3>5. pkt[v].pc = "write" /\ pkt[v].row # <<>> => Shaped(pkt[v].row[1])
      BY <2>0 DEF PacketSound
    <3> QED BY <3>1, <3>2, <3>4, <3>5 DEF PacketSound, Stages, Covered, Fields, Shaped
  <2>2. CASE v \notin Allocating
    <3>1. pkt'[v] = pkt[v]
      BY <1>3, <1>6, <2>2
    <3>2. pkt[v].pc \notin {"get", "write"}
      BY <2>2 DEF Allocating
    <3>3. Told(pkt[v])' <=> Told(pkt[v])
      BY <3>1 DEF Told, Ordered, Derived, Beside
    <3> HIDE DEF Told
    <3> QED BY <2>0, <3>1, <3>2, <3>3 DEF PacketSound, Shaped
  <2> QED BY <2>1, <2>2
<1> QED BY <1>4, <1>5, <1>6 DEF V6Inv

LEMMA WriteKept ==
  ASSUME V6Inv, NEW w \in Workers, allocateOrReusePrefix(w)
  PROVE  V6Inv'
<1> DEFINE p == pkt[w]
<1>0. /\ PacketSound(w) /\ DOMAIN pkt = Workers /\ p.pc = "write" /\ admin' = admin
      /\ Fields \subseteq DOMAIN p /\ p.lapped \in BOOLEAN
      /\ p.lapped \/ \A r \in Active : r.prefix \in p.used
  BY DEF V6Inv, PacketSound, Covered, allocateOrReusePrefix
<1>1. CASE Drop(w) /\ UNCHANGED prefixRows
  BY <1>0, <1>1, DropMoves
<1>3. CASE /\ p.row # <<>> /\ UpdatePrefixLease([p.row[1] EXCEPT !.raced = @ \/ p.lapped])
           /\ NextRequest(w, p.row[1].prefix)
  <2>1. Shaped(p.row[1]) /\ (p.lapped \/ Alone(p.row[1]))
    BY <1>0, <1>3 DEF PacketSound
  <2>2. PICK o : o = p.row[1]
    OBVIOUS
  <2>3. PICK b \in BOOLEAN : b = (o.raced \/ p.lapped)
    OBVIOUS
  <2>4. PICK r : r = [o EXCEPT !.raced = b]
    OBVIOUS
  <2>5. UpdatePrefixLease(r)
    BY <1>3, <2>2, <2>3, <2>4
  <2>6. /\ Shaped(r) /\ r.prefix = o.prefix /\ r.raced = b /\ r.id = o.id
    BY <2>1, <2>2, <2>4 DEF Shaped
  <2>7. Alone(r)
    BY <2>1, <2>2, <2>3, <2>6 DEF Alone, Shaped
  <2>8. /\ PrefixUnshared' /\ \A x \in prefixRows' : Shaped(x)
        /\ Active' \subseteq Active \cup {r}
    BY <2>5, <2>6, <2>7, WriteUnshared
  <2>9. p.lapped \/ \A x \in Active' : x.prefix \in p.used \cup {o.prefix}
    BY <1>0, <2>6, <2>8
  <2>10. NextRequest(w, o.prefix)
    BY <1>3, <2>2
  <2> QED BY <1>0, <2>8, <2>9, <2>10, StoredMoves
<1>4. ASSUME p.row = <<>>, NEW q \in pickAvailablePrefix(p.want, determinePrefixLength(p.len), p.used),
             NEW i, NEW h,
             CreatePrefixLease([id |-> i, client |-> p.c, iapd |-> h, prefix |-> q,
                                state |-> "ACTIVE", raced |-> p.lapped]),
             NextRequest(w, q)
      PROVE  V6Inv'
  <2>1. q \notin p.used
    <3>1. PICK len : len = determinePrefixLength(p.len)
      OBVIOUS
    <3>2. \A x \in AllocateSpecificPrefix(p.want, len, p.used) : x \notin p.used
      BY DEF AllocateSpecificPrefix
    <3>3. \A x \in AllocateAvailablePrefix(len, p.used) : x \notin p.used
      BY DEF AllocateAvailablePrefix
    <3> QED BY <1>4, <3>1, <3>2, <3>3 DEF pickAvailablePrefix
  <2>2. PICK r : r = [id |-> i, client |-> p.c, iapd |-> h, prefix |-> q,
                      state |-> "ACTIVE", raced |-> p.lapped]
    OBVIOUS
  <2>3. /\ prefixRows' = prefixRows \cup {r} /\ Shaped(r) /\ r.prefix = q
        /\ r.state = "ACTIVE" /\ r.raced = p.lapped
    BY <1>0, <1>4, <2>2 DEF CreatePrefixLease, Shaped
  <2>4. Active' = Active \cup {r}
    BY <2>3 DEF Active
  <2>5. PrefixUnshared'
    BY <1>0, <2>1, <2>3, <2>4 DEF V6Inv, PrefixUnshared
  <2>6. p.lapped \/ \A o \in Active' : o.prefix \in p.used \cup {q}
    BY <1>0, <2>3, <2>4
  <2>7. \A o \in prefixRows' : Shaped(o)
    BY <2>3 DEF V6Inv
  <2> QED BY <1>0, <1>4, <2>5, <2>6, <2>7, StoredMoves
<1> QED BY <1>1, <1>3, <1>4 DEF allocateOrReusePrefix

LEMMA CloseKept ==
  ASSUME V6Inv, NEW w \in Workers, updatePrefixState(w)
  PROVE  V6Inv'
<1> DEFINE p == pkt[w]
<1>0. /\ PacketSound(w) /\ DOMAIN pkt = Workers /\ p.pc = "close" /\ admin' = admin
      /\ Fields \subseteq DOMAIN p /\ p.lapped \in BOOLEAN
      /\ Shaped(p.row[1])
  BY DEF V6Inv, PacketSound, updatePrefixState
<1>1. PICK st \in {"RELEASED", "DECLINED"} : st = IF p.m = "RELEASE" THEN "RELEASED" ELSE "DECLINED"
  OBVIOUS
<1>2. PICK r : r = [p.row[1] EXCEPT !.state = st]
  OBVIOUS
<1>3. Shaped(r) /\ r.state # "ACTIVE"
  BY <1>0, <1>1, <1>2 DEF Shaped
<1>4. \/ UpdatePrefixLease(r) /\ pkt' = [pkt EXCEPT ![w].pc = "give", ![w].ids = Tail(@)]
      \/ Drop(w) /\ UNCHANGED prefixRows
  BY <1>1, <1>2 DEF updatePrefixState
<1>5. CASE Drop(w) /\ UNCHANGED prefixRows
  BY <1>0, <1>5, DropMoves
<1>6. CASE UpdatePrefixLease(r) /\ pkt' = [pkt EXCEPT ![w].pc = "give", ![w].ids = Tail(@)]
  <2>1. Active' \subseteq Active /\ \A o \in prefixRows' : Shaped(o)
    BY <1>3, <1>6, WriteUnshared
  <2>2. pkt'[w] = [p EXCEPT !.pc = "give", !.ids = Tail(p.ids)] /\ DOMAIN pkt' = Workers
    BY <1>0, <1>6
  <2>3. pkt'[w].pc = "give" /\ DOMAIN pkt'[w] = DOMAIN p /\ pkt'[w].lapped = p.lapped
    BY <1>0, <2>2 DEF Fields
  <2>4. PacketSound(w)'
    BY <1>0, <2>3 DEF PacketSound, Stages, Fields
  <2> QED BY <1>0, <1>6, <2>1, <2>2, <2>4, WorkerMoves
<1> QED BY <1>4, <1>5, <1>6

\* An operator's copy is written back: it is never ACTIVE.
LEMMA OperatorKept ==
  ASSUME V6Inv,
         \/ \E r \in prefixRows, s \in {"RELEASED", "DECLINED"} : handlePrefixLeaseAction(r, s)
         \/ updatePrefixStateByID
  PROVE  V6Inv'
<1>1. ASSUME NEW r \in prefixRows, NEW s \in {"RELEASED", "DECLINED"}, handlePrefixLeaseAction(r, s)
      PROVE  V6Inv'
  <2>1. admin' = <<[r EXCEPT !.state = s]>> /\ UNCHANGED <<prefixRows, pkt>>
    BY <1>1 DEF handlePrefixLeaseAction
  <2>2. PICK q : q = [r EXCEPT !.state = s]
    OBVIOUS
  <2>3. Shaped(q) /\ q.state # "ACTIVE"
    BY <2>2 DEF V6Inv, Shaped
  <2>4. admin' = <<q>>
    BY <2>1, <2>2
  <2>5. Active' \subseteq Active /\ Active' = Active
    BY <2>1 DEF Active
  <2>6. ASSUME NEW w \in Workers PROVE PacketSound(w)'
    BY <2>1, <2>5, PacketStays DEF V6Inv
  <2> QED BY <2>1, <2>3, <2>4, <2>5, <2>6 DEF V6Inv, PrefixUnshared, Shaped
<1>2. CASE updatePrefixStateByID
  <2>1. admin # <<>> /\ admin' = <<>> /\ pkt' = pkt
        /\ (UpdatePrefixLease(admin[1]) \/ UNCHANGED prefixRows)
    BY <1>2 DEF updatePrefixStateByID
  <2>2. PICK r : r = admin[1]
    OBVIOUS
  <2>3. Shaped(r) /\ r.state # "ACTIVE"
    BY <2>1, <2>2 DEF V6Inv
  <2>4. PrefixUnshared' /\ (\A o \in prefixRows' : Shaped(o)) /\ Active' \subseteq Active
    <3>1. CASE UNCHANGED prefixRows
      BY <3>1 DEF V6Inv, PrefixUnshared, Active, Shaped
    <3>2. CASE UpdatePrefixLease(r)
      BY <3>2, <2>3, WriteUnshared
    <3> QED BY <3>1, <3>2, <2>1, <2>2
  <2>5. ASSUME NEW w \in Workers PROVE PacketSound(w)'
    BY <2>1, <2>4, PacketStays DEF V6Inv
  <2> QED BY <2>1, <2>4, <2>5 DEF V6Inv
<1> QED BY <1>1, <1>2

LEMMA V6Kept ==
  ASSUME V6Inv, [V6Next]_v6Vars
  PROVE  V6Inv'
<1>1. CASE UNCHANGED v6Vars
  <2>1. UNCHANGED <<prefixRows, pkt, admin>> /\ Active' = Active /\ Active' \subseteq Active
    BY <1>1 DEF v6Vars, Active
  <2>2. ASSUME NEW w \in Workers PROVE PacketSound(w)'
    BY <2>1, PacketStays DEF V6Inv
  <2> QED BY <2>1, <2>2 DEF V6Inv, PrefixUnshared, Shaped
<1>2. CASE V6Restart
  <2>1. ASSUME NEW w \in Workers PROVE PacketSound(w)'
    <3>1. pkt'[w] = [pc |-> "idle"]
      BY <1>2 DEF V6Restart, Resting
    <3> QED BY <3>1 DEF PacketSound, Stages
  <2> QED BY <1>2, <2>1 DEF V6Restart, V6Inv, PrefixUnshared, Active, Shaped
<1>3. CASE V6Next /\ ~V6Restart
  BY <1>3, WorkKept, WriteKept, CloseKept, OperatorKept DEF V6Next
<1> QED BY <1>1, <1>2, <1>3

(* For any number of goroutines, clients, prefix lengths, lists of IA_PDs and
   operators releasing or declining leases meanwhile: a prefix is delegated to two
   IA_PDs only when one goroutine stored its lease between another's read of the
   prefixes in use and its write; otherwise ListActivePrefixes covers the table
   until the write, and a row written back shares its prefix with no other
   (lease/prefix_allocator.go, lease/prefix.go).  And the lifetimes of every reply
   are in order, of its IA_NA and of its IA_PDs, whatever profile, options and
   hints hold (dhcpv6/server.go, buildResponse and encodeIAPDOption). *)
THEOREM PrefixesSound == V6Spec => []V6Sound
<1>1. V6Init => V6Inv
  <2> SUFFICES ASSUME V6Init PROVE V6Inv
    OBVIOUS
  <2>1. ASSUME NEW w \in Workers PROVE PacketSound(w)
    <3>1. pkt[w] = [pc |-> "idle"]
      BY DEF V6Init, Resting
    <3> QED BY <3>1 DEF PacketSound, Stages
  <2> QED BY <2>1 DEF V6Init, V6Inv, PrefixUnshared, Active
<1>2. V6Inv /\ [V6Next]_v6Vars => V6Inv'
  BY V6Kept
<1>3. V6Inv => V6Sound
  BY DEF V6Inv, V6Sound, LifetimesOrdered, PacketSound, Told, Ordered, Beside, Derived
<1> QED BY <1>1, <1>2, <1>3, PTL DEF V6Spec

-----------------------------------------------------------------------------
(* Alerts: types.                                                            *)

FeedEntries == [sev : Severities, life : {"acknowledged", "open", "suppressed", "escalated"}]

Phases == {"idle", "load", "pick", "notify", "deliver", "record", "skipped"}
WithEvent == {"notify", "deliver", "record", "skipped"}
OpSteps == {"none", "mute", "check", "list", "rules", "routes"}

\* The merged thresholds belong to the row that was read.
PolicyOK(p) ==
  p.row # Nothing =>
    /\ p.row \in ThresholdRows
    /\ p.pool = mergeRuntimePoolThresholds(Base, p.row)
    /\ p.latency = mergeRuntimeLatencyThresholds(Base, p.row)
    /\ p.error = mergeRuntimeErrorThresholds(Base, p.row)
    /\ p.rate = mergeRuntimeRateLimitThresholds(Base, p.row)

EvSound ==
  /\ ev.pc \in Phases
  /\ ev.pc = "pick" => PolicyOK(ev.policy)
  /\ ev.pc \in WithEvent =>
       {"pc", "policy", "event"} \subseteq DOMAIN ev /\ ev.event.sev \in Severities

\* No request of an operator ever sends: the mute it has just set stops it.
OpSound ==
  /\ op.pc \in OpSteps
  /\ op.pc \in {"mute", "check"} =>
       op \in [pc : {"mute", "check"}, sev : Severities, ttl : Nat, next : {"none", "check"}]
  /\ op.pc = "check" => mute[op.sev] > 0
  /\ op.pc = "rules" => op.rules \subseteq RuleRows

AlertTypes ==
  /\ reading \in Nat /\ quiet \in Nat /\ silence \in Nat /\ cooldown \in Nat
  /\ dedupe \in [Severities -> Nat] /\ age \in [Severities -> Nat]
  /\ mute \in [Severities -> Nat]
  /\ feed \in Seq(FeedEntries)
  /\ row \in ThresholdRows \cup {Nothing}
  /\ rules \subseteq RuleRows /\ live \subseteq RuleRows

\* How long silence may follow a delivery, and dedupe and silence together hold
\* back: each clock counts the interval it was set in.
Limit == DedupeWindow + SilenceWindow - 1
Bound == DedupeWindow - 1 + Less(SilenceWindow)

(* The clocks.  dedupe and age are two views of one clock.  While no delivery  *)
(* resets `quiet', it and every clock add up to at most what the clock could   *)
(* have started from, less one in the phases of an evaluation before its end.  *)
DedupeSound(s) ==
  /\ dedupe[s] + age[s] = DedupeWindow
  /\ dedupe[s] > 0 /\ ev.pc \in {"idle", "record"} => dedupe[s] + quiet <= DedupeWindow
  /\ dedupe[s] > 0 /\ ev.pc \notin {"idle", "record"} => dedupe[s] + quiet < DedupeWindow

SilenceSound ==
  /\ silence <= SilenceWindow
  /\ silence > 0 /\ ev.pc = "idle" => silence + quiet <= Limit
  /\ silence > 0 /\ ev.pc \in {"load", "pick"} => silence + quiet < Limit

CooldownSound ==
  /\ cooldown <= RuleTTL
  /\ cooldown > 0 /\ ev.pc = "idle" => cooldown + quiet <= Bound + RuleTTL
  /\ cooldown > 0 /\ ev.pc \in {"load", "pick"} => cooldown + quiet < Bound + RuleTTL
  /\ cooldown > 0 => check = "rule"

HeldBack ==
  /\ ev.pc = "record" => quiet = 0
  /\ ev.pc = "deliver" => dedupe[ev.event.sev] = 0
  /\ ev.pc = "skipped" => dedupe[ev.event.sev] > 0 \/ mute[ev.event.sev] > 0
  /\ quiet <= Bound + (IF check = "rule" THEN RuleTTL - 1 ELSE 0)

AlertInv ==
  /\ AlertTypes /\ EvSound /\ OpSound
  /\ \A s \in Severities : DedupeSound(s)
  /\ SilenceSound /\ CooldownSound /\ HeldBack

-----------------------------------------------------------------------------
(* A condition over a saved threshold has a severity, whatever the file says. *)

LEMMA PickedSeverity ==
  ASSUME NEW v, NEW t
  PROVE  pickSeverity(v, t) \in Severities \cup {Nothing}
BY DEF pickSeverity, Severities

LEMMA PoolPicked ==
  ASSUME AlertTypes, NEW p, PolicyOK(p), check = "pool", Owed(p)
  PROVE  pickSeverity(reading, p.pool) # Nothing
<1> USE AlertRowsAssumption
<1>1. PICK r \in ThresholdRows : r = p.row /\ p.pool = mergeRuntimePoolThresholds(Base, r)
                               /\ (Over(r.poolUsage) \/ Over(r.leaseUsage))
  <2>1. p.row # Nothing /\ (Over(p.row.poolUsage) \/ Over(p.row.leaseUsage))
    BY DEF Owed
  <2>2. p.row \in ThresholdRows /\ p.pool = mergeRuntimePoolThresholds(Base, p.row)
    BY <2>1 DEF PolicyOK
  <2> QED BY <2>1, <2>2
<1>2. r.poolUsage \in Nat /\ r.leaseUsage \in Nat /\ reading \in Nat
  BY DEF AlertTypes
<1>3. CASE Over(r.poolUsage)
  <2>1. p.pool.warning = r.poolUsage
    BY <1>1, <1>2, <1>3 DEF Over, mergeRuntimePoolThresholds
  <2> QED BY <2>1, <1>3 DEF Over, pickSeverity
<1>4. CASE Over(r.leaseUsage)
  <2>1. p.pool.major = r.leaseUsage
    BY <1>1, <1>2, <1>4 DEF Over, mergeRuntimePoolThresholds
  <2> QED BY <2>1, <1>4 DEF Over, pickSeverity
<1> QED BY <1>1, <1>3, <1>4

LEMMA LatencyPicked ==
  ASSUME AlertTypes, NEW p, PolicyOK(p), check = "latency", Owed(p)
  PROVE  pickLatencySeverity(reading, p.latency) # Nothing
<1> USE AlertRowsAssumption
<1>1. PICK r \in ThresholdRows : r = p.row /\ p.latency = mergeRuntimeLatencyThresholds(Base, r)
                               /\ Over(r.responseMs)
  <2>1. p.row # Nothing /\ Over(p.row.responseMs)
    BY DEF Owed
  <2>2. p.row \in ThresholdRows /\ p.latency = mergeRuntimeLatencyThresholds(Base, p.row)
    BY <2>1 DEF PolicyOK
  <2> QED BY <2>1, <2>2
<1>2. r.responseMs \in Nat /\ reading \in Nat
  BY DEF AlertTypes
<1>3. PICK t : t = [p.latency EXCEPT !.warning = 0]
  OBVIOUS
<1>4. t.major = r.responseMs
  BY <1>1, <1>2, <1>3 DEF Over, mergeRuntimeLatencyThresholds
<1> QED BY <1>1, <1>3, <1>4 DEF Over, pickSeverity, pickLatencySeverity

LEMMA ErrorPicked ==
  ASSUME AlertTypes, NEW p, PolicyOK(p), check = "error", Owed(p)
  PROVE  pickSeverity(reading, p.error) # Nothing
<1> USE AlertRowsAssumption
<1>1. PICK r \in ThresholdRows : r = p.row /\ p.error = mergeRuntimeErrorThresholds(Base, r)
                               /\ (Over(r.failedRatio) \/ Over(r.renewFail))
  <2>1. p.row # Nothing /\ (Over(p.row.failedRatio) \/ Over(p.row.renewFail))
    BY DEF Owed
  <2>2. p.row \in ThresholdRows /\ p.error = mergeRuntimeErrorThresholds(Base, p.row)
    BY <2>1 DEF PolicyOK
  <2> QED BY <2>1, <2>2
<1>2. r.failedRatio \in Nat /\ r.renewFail \in Nat /\ reading \in Nat
  BY DEF AlertTypes
<1>3. CASE Over(r.failedRatio)
  <2>1. p.error.warning = r.failedRatio
    BY <1>1, <1>2, <1>3 DEF Over, mergeRuntimeErrorThresholds
  <2> QED BY <2>1, <1>3 DEF Over, pickSeverity
<1>4. CASE Over(r.renewFail)
  <2>1. p.error.major = r.renewFail
    BY <1>1, <1>2, <1>4 DEF Over, mergeRuntimeErrorThresholds
  <2> QED BY <2>1, <1>4 DEF Over, pickSeverity
<1> QED BY <1>1, <1>3, <1>4

LEMMA RatePicked ==
  ASSUME AlertTypes, NEW p, PolicyOK(p), check = "rate", Owed(p)
  PROVE  reading # 0 /\ pickSeverity(reading, p.rate) # Nothing
<1> USE AlertRowsAssumption
<1>1. PICK r \in ThresholdRows : r = p.row /\ p.rate = mergeRuntimeRateLimitThresholds(Base, r)
                               /\ Over(r.qps)
  <2>1. p.row # Nothing /\ Over(p.row.qps)
    BY DEF Owed
  <2>2. p.row \in ThresholdRows /\ p.rate = mergeRuntimeRateLimitThresholds(Base, p.row)
    BY <2>1 DEF PolicyOK
  <2> QED BY <2>1, <2>2
<1>2. r.qps \in Nat /\ reading \in Nat
  BY DEF AlertTypes
<1>3. p.rate.warning = r.qps
  BY <1>1, <1>2 DEF Over, mergeRuntimeRateLimitThresholds
<1> QED BY <1>1, <1>2, <1>3 DEF Over, pickSeverity

-----------------------------------------------------------------------------
(* Alerts: every step keeps the invariant.                                   *)

LEMMA AlertTickKept ==
  ASSUME AlertInv, NEW v \in 0..MaxReading, AlertTick(v)
  PROVE  AlertInv'
<1> USE WindowsAssumption, AlertRowsAssumption
<1>0. /\ AlertTypes /\ ev.pc = "idle" /\ op = [pc |-> "none"]
      /\ reading' = v /\ silence' = Less(silence) /\ cooldown' = Less(cooldown)
      /\ dedupe' = [s \in Severities |-> Less(dedupe[s])]
      /\ mute' = [s \in Severities |-> Less(mute[s])]
      /\ age' = [s \in Severities |-> IF age[s] < DedupeWindow THEN age[s] + 1 ELSE age[s]]
      /\ ev' = [pc |-> "load"]
      /\ UNCHANGED <<check, row, rules, live, feed, op, quiet>>
  BY DEF AlertInv, AlertTick, NoRequest, NoOp, tables
<1>1. AlertTypes'
  <2>1. \A s \in Severities : dedupe[s] \in Nat /\ mute[s] \in Nat /\ age[s] \in Nat
    BY <1>0 DEF AlertTypes
  <2>2. dedupe' \in [Severities -> Nat] /\ mute' \in [Severities -> Nat] /\ age' \in [Severities -> Nat]
    BY <1>0, <2>1 DEF Less
  <2> QED BY <1>0, <2>2 DEF AlertTypes, Less
<1>2. EvSound'
  BY <1>0 DEF EvSound, Phases, WithEvent
<1>3. OpSound'
  BY <1>0 DEF OpSound, OpSteps
<1>4. ASSUME NEW s \in Severities PROVE DedupeSound(s)'
  <2>1. /\ dedupe[s] \in Nat /\ age[s] \in Nat /\ quiet \in Nat /\ DedupeSound(s)
        /\ dedupe'[s] = (IF dedupe[s] = 0 THEN 0 ELSE dedupe[s] - 1)
        /\ age'[s] = (IF age[s] < DedupeWindow THEN age[s] + 1 ELSE age[s])
        /\ quiet' = quiet /\ ev'.pc = "load"
    BY <1>0 DEF AlertInv, AlertTypes, Less
  <2> QED BY <1>0, <2>1 DEF DedupeSound
<1>5. SilenceSound' /\ CooldownSound'
  <2>1. /\ silence \in Nat /\ cooldown \in Nat /\ quiet \in Nat
        /\ SilenceSound /\ CooldownSound
        /\ silence' = (IF silence = 0 THEN 0 ELSE silence - 1)
        /\ cooldown' = (IF cooldown = 0 THEN 0 ELSE cooldown - 1)
        /\ quiet' = quiet /\ ev'.pc = "load" /\ check' = check
    BY <1>0 DEF AlertInv, AlertTypes, Less
  <2> QED BY <1>0, <2>1 DEF SilenceSound, CooldownSound, Limit, Bound, Less
<1>6. HeldBack'
  BY <1>0 DEF AlertInv, HeldBack, Limit, Bound, Less
<1> QED BY <1>1, <1>2, <1>3, <1>4, <1>5, <1>6 DEF AlertInv

\* The loop goes on and nothing else changes: what the new phase needs.
LEMMA PhaseMoves ==
  ASSUME AlertInv, EvSound',
         UNCHANGED <<check, reading, row, rules, live, silence, cooldown, dedupe, mute,
                     feed, op, age, quiet>>,
         \/ ev.pc = "load" /\ ev'.pc = "pick"
         \/ /\ ev.pc = "notify" /\ ev'.pc \in {"skipped", "deliver"}
            /\ ev'.pc = "deliver" => dedupe[ev'.event.sev] = 0
            /\ ev'.pc = "skipped" => dedupe[ev'.event.sev] > 0 \/ mute[ev'.event.sev] > 0
  PROVE  AlertInv'
<1>1. AlertTypes' /\ OpSound'
  BY DEF AlertInv, AlertTypes, OpSound
<1>2. \A s \in Severities : DedupeSound(s)'
  BY DEF AlertInv, DedupeSound
<1>3. SilenceSound' /\ CooldownSound'
  BY DEF AlertInv, SilenceSound, CooldownSound, Limit, Bound, Less
<1>4. HeldBack'
  BY DEF AlertInv, HeldBack, Limit, Bound, Less
<1> QED BY <1>1, <1>2, <1>3, <1>4 DEF AlertInv

LEMMA LoadKept ==
  ASSUME AlertInv, NEW o \in Reads, evaluate(o)
  PROVE  AlertInv'
<1>0. /\ ev.pc = "load"
      /\ ev' = [pc |-> "pick", policy |-> applyRuntimeConfig(o)]
      /\ UNCHANGED <<check, reading, row, rules, live, silence, cooldown, dedupe, mute,
                     feed, op, age, quiet>>
  BY DEF evaluate, tables, clocks
<1>1. PICK p : p = applyRuntimeConfig(o)
  OBVIOUS
<1>2. PICK x \in ThresholdRows \cup {Nothing} : x = GetThresholds(o.row)
  BY DEF GetThresholds, AlertInv, AlertTypes
<1>3. /\ p.row = x
      /\ x # Nothing => /\ p.pool = mergeRuntimePoolThresholds(Base, x)
                        /\ p.latency = mergeRuntimeLatencyThresholds(Base, x)
                        /\ p.error = mergeRuntimeErrorThresholds(Base, x)
                        /\ p.rate = mergeRuntimeRateLimitThresholds(Base, x)
  BY <1>1, <1>2 DEF applyRuntimeConfig
<1>4. PolicyOK(p)
  BY <1>2, <1>3 DEF PolicyOK
<1>5. ev' = [pc |-> "pick", policy |-> p]
  BY <1>0, <1>1
<1>6. ev'.pc = "pick" /\ ev'.policy = p
  BY <1>5
<1>7. EvSound'
  BY <1>4, <1>6 DEF EvSound, Phases, WithEvent, PolicyOK
<1> QED BY <1>0, <1>6, <1>7, PhaseMoves

LEMMA CheckedKept ==
  ASSUME AlertInv, NotifyCheck
  PROVE  AlertInv'
<1>0. /\ ev.pc = "notify"
      /\ ev' = [ev EXCEPT !.pc = IF shouldSkip(ev.event.sev) THEN "skipped" ELSE "deliver"]
      /\ UNCHANGED <<check, reading, row, rules, live, silence, cooldown, dedupe, mute,
                     feed, op, age, quiet>>
  BY DEF NotifyCheck, tables, clocks
<1>1. {"pc", "policy", "event"} \subseteq DOMAIN ev /\ ev.event.sev \in Severities
  BY <1>0 DEF AlertInv, EvSound, WithEvent
<1>2. PICK st \in {"skipped", "deliver"} : st = IF shouldSkip(ev.event.sev) THEN "skipped" ELSE "deliver"
  OBVIOUS
<1>3. /\ ev'.pc = st /\ ev'.event = ev.event
      /\ DOMAIN ev' = DOMAIN ev
  BY <1>0, <1>1, <1>2
<1>4. EvSound'
  BY <1>1, <1>3 DEF EvSound, Phases, WithEvent
<1>5. dedupe[ev.event.sev] \in Nat
  BY <1>1 DEF AlertInv, AlertTypes
<1> QED BY <1>0, <1>2, <1>3, <1>4, <1>5, PhaseMoves DEF shouldSkip

\* An evaluation ends at once: `quiet' grows only while a clock holds it back.
LEMMA EndKept ==
  ASSUME AlertInv, ev.pc = "pick", ev' = [pc |-> "idle"],
         UNCHANGED <<check, reading, row, rules, live, silence, dedupe, mute, feed, op, age>>,
         \/ quiet' = 0
         \/ quiet' = quiet + 1 /\ (silence > 0 \/ (check = "rule" /\ cooldown > 0)),
         \/ cooldown' = cooldown
         \/ check = "rule" /\ cooldown' = RuleTTL /\ (quiet' = 0 \/ silence > 0)
  PROVE  AlertInv'
<1> USE WindowsAssumption
<1>0. /\ quiet \in Nat /\ silence \in Nat /\ cooldown \in Nat /\ ev'.pc = "idle"
      /\ SilenceSound /\ CooldownSound /\ HeldBack /\ AlertTypes /\ OpSound
  BY DEF AlertInv, AlertTypes
<1>1. AlertTypes'
  BY <1>0 DEF AlertTypes
<1>2. EvSound' /\ OpSound'
  BY <1>0 DEF EvSound, OpSound, Phases, WithEvent
<1>3. ASSUME NEW s \in Severities PROVE DedupeSound(s)'
  <2>1. dedupe[s] \in Nat /\ age[s] \in Nat /\ DedupeSound(s)
    BY DEF AlertInv, AlertTypes
  <2> QED BY <1>0, <2>1 DEF DedupeSound
<1>4. SilenceSound'
  BY <1>0 DEF SilenceSound, Limit, Bound, Less
<1>5. CooldownSound'
  BY <1>0 DEF SilenceSound, CooldownSound, Limit, Bound, Less
<1>6. HeldBack'
  BY <1>0 DEF SilenceSound, CooldownSound, HeldBack, Limit, Bound, Less
<1> QED BY <1>1, <1>2, <1>3, <1>4, <1>5, <1>6 DEF AlertInv

\* An event goes to the manager: the silence key, and a rule's cooldown, are spent.
LEMMA NotifyKept ==
  ASSUME AlertInv, ev.pc = "pick", NEW p, NEW e, e.sev \in Severities,
         ev' = [pc |-> "notify", policy |-> p, event |-> e],
         UNCHANGED <<check, reading, row, rules, live, dedupe, mute, feed, op, age, quiet>>,
         silence' = SilenceWindow,
         cooldown' = cooldown \/ (check = "rule" /\ cooldown' = RuleTTL)
  PROVE  AlertInv'
<1> USE WindowsAssumption
<1>0. /\ quiet \in Nat /\ silence \in Nat /\ cooldown \in Nat
      /\ ev'.pc = "notify" /\ ev'.event = e /\ DOMAIN ev' = {"pc", "policy", "event"}
      /\ SilenceSound /\ CooldownSound /\ HeldBack /\ AlertTypes /\ OpSound
  BY DEF AlertInv, AlertTypes
<1>1. AlertTypes'
  BY <1>0 DEF AlertTypes
<1>2. EvSound' /\ OpSound'
  BY <1>0 DEF EvSound, OpSound, Phases, WithEvent
<1>3. ASSUME NEW s \in Severities PROVE DedupeSound(s)'
  <2>1. dedupe[s] \in Nat /\ age[s] \in Nat /\ DedupeSound(s)
    BY DEF AlertInv, AlertTypes
  <2> QED BY <1>0, <2>1 DEF DedupeSound
<1>4. SilenceSound' /\ CooldownSound'
  BY <1>0 DEF SilenceSound, CooldownSound, Limit, Bound, Less
<1>6. HeldBack'
  BY <1>0 DEF HeldBack, Limit, Bound, Less
<1> QED BY <1>1, <1>2, <1>3, <1>4, <1>6 DEF AlertInv

LEMMA DeliveredKept ==
  ASSUME AlertInv, NotifyDeliver
  PROVE  AlertInv'
<1> USE WindowsAssumption
<1>0. /\ ev.pc = "deliver" /\ Deliver(ev.event) /\ quiet' = 0
      /\ ev' = [ev EXCEPT !.pc = "record"]
      /\ UNCHANGED <<check, reading, row, rules, live, silence, cooldown, mute, feed, op>>
  BY DEF NotifyDeliver, tables
<1>1. {"pc", "policy", "event"} \subseteq DOMAIN ev /\ ev.event.sev \in Severities
  BY <1>0 DEF AlertInv, EvSound, WithEvent
<1>2. ev'.pc = "record" /\ ev'.event = ev.event /\ DOMAIN ev' = DOMAIN ev
  BY <1>0, <1>1
<1>3. PICK z \in Severities : z = ev.event.sev
  BY <1>1
<1>4. \/ UNCHANGED <<dedupe, age>>
      \/ dedupe' = [dedupe EXCEPT ![z] = DedupeWindow] /\ age' = [age EXCEPT ![z] = 0]
  BY <1>0, <1>3 DEF Deliver, markProcessed
<1>t. AlertTypes /\ OpSound
  BY DEF AlertInv
<1>5. AlertTypes'
  <2>1. dedupe' \in [Severities -> Nat] /\ age' \in [Severities -> Nat]
    <3>1. dedupe \in [Severities -> Nat] /\ age \in [Severities -> Nat]
      BY <1>t DEF AlertTypes
    <3>2. DedupeWindow \in Nat /\ 0 \in Nat
      OBVIOUS
    <3>3. CASE dedupe' = [dedupe EXCEPT ![z] = DedupeWindow] /\ age' = [age EXCEPT ![z] = 0]
      BY <3>1, <3>2, <3>3
    <3> QED BY <1>4, <3>1, <3>3
  <2> QED BY <1>0, <2>1, <1>t DEF AlertTypes
<1>6. EvSound' /\ OpSound'
  BY <1>0, <1>1, <1>2, <1>t DEF EvSound, OpSound, Phases, WithEvent
<1>7. ASSUME NEW s \in Severities PROVE DedupeSound(s)'
  <2>1. /\ dedupe[s] \in Nat /\ age[s] \in Nat /\ quiet \in Nat /\ DedupeSound(s)
    BY DEF AlertInv, AlertTypes
  <2>2. (dedupe'[s] = dedupe[s] /\ age'[s] = age[s]) \/ (dedupe'[s] = DedupeWindow /\ age'[s] = 0)
    BY <1>4, <1>t DEF AlertTypes
  <2> QED BY <1>0, <1>2, <2>1, <2>2 DEF DedupeSound
<1>8. SilenceSound' /\ CooldownSound'
  BY <1>0, <1>2 DEF AlertInv, SilenceSound, CooldownSound
<1>9. HeldBack'
  BY <1>0, <1>2 DEF HeldBack, Limit, Bound, Less
<1> QED BY <1>5, <1>6, <1>7, <1>8, <1>9 DEF AlertInv

\* The feed keeps its form.
LEMMA RecordType ==
  ASSUME feed \in Seq(FeedEntries), NEW e, e.sev \in Severities, Record(e)
  PROVE  feed' \in Seq(FeedEntries)
<1> USE AlertRowsAssumption
<1>1. PICK x : x = [sev |-> e.sev, life |-> deriveLifecycle(e.sev)]
  OBVIOUS
<1>2. x \in FeedEntries
  BY <1>1 DEF FeedEntries, deriveLifecycle
<1>3. <<x>> \in Seq(FeedEntries)
  BY <1>2
<1>4. PICK all \in Seq(FeedEntries) : all = <<x>> \o feed
  BY <1>3, ConcatProperties
<1>5. Len(all) \in Nat
  BY <1>4, LenProperties
<1>6. PICK n \in Nat : n = IF Len(all) > FeedLimit THEN FeedLimit ELSE Len(all)
  BY <1>5
<1>7. n <= Len(all)
  BY <1>5, <1>6
<1>8. \A i \in 1 .. n : all[i] \in FeedEntries
  BY <1>4, <1>5, <1>7, ElementOfSeq
<1>9. SubSeq(all, 1, n) \in Seq(FeedEntries)
  BY <1>6, <1>8, SubSeqProperties
<1> QED BY <1>1, <1>4, <1>6, <1>9 DEF Record

LEMMA ObservedKept ==
  ASSUME AlertInv, ev.pc \in {"record", "skipped"}, Record(ev.event), ev' = [pc |-> "idle"],
         UNCHANGED <<check, reading, row, rules, live, silence, cooldown, dedupe, mute, op, age>>,
         \/ ev.pc = "record" /\ quiet' = quiet
         \/ quiet' = 0
         \/ ev.pc = "skipped" /\ quiet' = quiet + 1 /\ mute[ev.event.sev] = 0
  PROVE  AlertInv'
<1> USE WindowsAssumption
<1>0. /\ quiet \in Nat /\ silence \in Nat /\ cooldown \in Nat /\ ev'.pc = "idle"
      /\ SilenceSound /\ CooldownSound /\ HeldBack /\ AlertTypes /\ OpSound
      /\ ev.event.sev \in Severities
  BY DEF AlertInv, AlertTypes, EvSound, WithEvent
<1>1. AlertTypes'
  <2>1. feed' \in Seq(FeedEntries)
    BY <1>0, RecordType DEF AlertTypes
  <2> QED BY <1>0, <2>1 DEF AlertTypes
<1>2. EvSound' /\ OpSound'
  BY <1>0 DEF EvSound, OpSound, Phases, WithEvent
<1>3. quiet' = quiet + 1 => quiet' < DedupeWindow
  <2> SUFFICES ASSUME quiet' = quiet + 1 PROVE quiet' < DedupeWindow
    OBVIOUS
  <2>1. ev.pc = "skipped" /\ mute[ev.event.sev] = 0
    BY <1>0
  <2>2. dedupe[ev.event.sev] > 0 /\ dedupe[ev.event.sev] \in Nat /\ mute[ev.event.sev] \in Nat
    BY <1>0, <2>1 DEF HeldBack, AlertTypes
  <2>3. DedupeSound(ev.event.sev)
    BY <1>0 DEF AlertInv
  <2> QED BY <1>0, <2>1, <2>2, <2>3 DEF DedupeSound
<1>4. quiet' \in Nat /\ quiet' < DedupeWindow
  BY <1>0, <1>3 DEF HeldBack
<1>5. ASSUME NEW s \in Severities PROVE DedupeSound(s)'
  <2>1. dedupe[s] \in Nat /\ age[s] \in Nat /\ DedupeSound(s)
    BY DEF AlertInv, AlertTypes
  <2> QED BY <1>0, <2>1 DEF DedupeSound, HeldBack
<1>6. SilenceSound' /\ CooldownSound'
  <2>1. silence <= SilenceWindow /\ cooldown <= RuleTTL /\ (cooldown > 0 => check = "rule")
    BY <1>0 DEF SilenceSound, CooldownSound
  <2>2. silence + quiet' <= Limit /\ cooldown + quiet' <= Bound + RuleTTL
    <3>1. PICK less \in Nat : less = Less(SilenceWindow)
      BY DEF Less
    <3>2. SilenceWindow \in Nat /\ DedupeWindow \in Nat /\ RuleTTL \in Nat
      OBVIOUS
    <3>3. PICK q \in Nat : q = quiet'
      BY <1>4
    <3>4. q <= DedupeWindow - 1
      BY <1>4, <3>2, <3>3
    <3>5. silence + q <= Limit
      BY <1>0, <2>1, <3>2, <3>4 DEF Limit
    <3>6. cooldown + q <= DedupeWindow - 1 + less + RuleTTL
      BY <1>0, <2>1, <3>1, <3>2, <3>4
    <3> QED BY <3>1, <3>3, <3>5, <3>6 DEF Bound
  <2> QED BY <1>0, <2>1, <2>2 DEF SilenceSound, CooldownSound
<1>7. HeldBack'
  BY <1>0, <1>4 DEF HeldBack, Limit, Bound, Less
<1> QED BY <1>1, <1>2, <1>5, <1>6, <1>7 DEF AlertInv

\* An evaluation ends without an event.
LEMMA QuietEnds ==
  ASSUME AlertInv, NEW p, NEW s, Quiet(p, s), s = Nothing => ~Owed(p)
  PROVE  quiet' = 0 \/ (quiet' = quiet + 1 /\ s # Nothing)
BY DEF Quiet

LEMMA EvaluatedKept ==
  ASSUME AlertInv, ev.pc = "pick", NEW s \in Severities \cup {Nothing},
         s = Nothing => ~Owed(ev.policy), EvaluateAlert(ev.policy, s)
  PROVE  AlertInv'
<1> USE AlertRowsAssumption
<1>0. UNCHANGED <<check, reading, row, rules, live, cooldown, dedupe, mute, feed, op, age>>
  BY DEF EvaluateAlert, tables
<1>1. CASE s = Nothing
  <2>1. ev' = [pc |-> "idle"] /\ UNCHANGED silence /\ quiet' = 0
    BY <1>1, QuietEnds DEF EvaluateAlert, NoRequest
  <2> QED BY <1>0, <2>1, EndKept
<1>2. CASE s # Nothing /\ silenceKeyBusy
  <2>1. ev' = [pc |-> "idle"] /\ UNCHANGED silence /\ Quiet(ev.policy, s)
    BY <1>2 DEF EvaluateAlert, NoRequest, emit
  <2>2. quiet' = 0 \/ quiet' = quiet + 1
    BY <2>1, QuietEnds
  <2>3. silence > 0
    BY <1>2 DEF silenceKeyBusy
  <2> QED BY <1>0, <2>1, <2>2, <2>3, EndKept
<1>3. CASE s # Nothing /\ ~silenceKeyBusy
  <2>1. PICK e : e = decorateEventWithRuntimeConfig(ev.policy, s, channelsForSeverity(ev.policy, s))
    OBVIOUS
  <2>2. e.sev = s /\ s \in Severities
    BY <2>1, <1>3 DEF decorateEventWithRuntimeConfig
  <2>3. /\ ev' = [pc |-> "notify", policy |-> ev.policy, event |-> e]
        /\ silence' = SilenceWindow /\ UNCHANGED quiet
    BY <1>3, <2>1 DEF EvaluateAlert, emit
  <2> QED BY <1>0, <2>2, <2>3, NotifyKept
<1> QED BY <1>1, <1>2, <1>3

LEMMA RulesKept ==
  ASSUME AlertInv, evaluateRules
  PROVE  AlertInv'
<1> USE AlertRowsAssumption
<1> DEFINE hit == {x \in live : reading >= x.at}
<1>1. PICK s : s = IF hit = {} THEN Nothing ELSE BestOf(hit).severity
  OBVIOUS
<1>2. /\ ev.pc = "pick" /\ check = "rule"
      /\ IF s = Nothing \/ ruleThrottled
         THEN ev' = [pc |-> "idle"] /\ Quiet(ev.policy, s) /\ UNCHANGED <<silence, cooldown>>
         ELSE emit(ev.policy, s) /\ cooldown' = RuleTTL
      /\ UNCHANGED <<check, reading, row, rules, live, dedupe, mute, feed, op, age>>
  BY <1>1 DEF evaluateRules, NoRequest, tables
<1>3. CASE hit = {}
  <2>1. s = Nothing /\ ~Owed(ev.policy)
    BY <1>1, <1>2, <1>3 DEF Owed
  <2>2. quiet' = 0
    BY <1>2, <2>1, QuietEnds
  <2> QED BY <1>2, <2>1, <2>2, EndKept
<1>4. CASE hit # {}
  <2>1. BestOf(hit) \in hit
    BY <1>4 DEF BestOf
  <2>2. s \in Severities /\ s # Nothing
    BY <1>1, <1>4, <2>1 DEF AlertInv, AlertTypes, Severities
  <2>3. CASE ruleThrottled
    <3>1. quiet' = 0 \/ quiet' = quiet + 1
      BY <1>2, <2>2, <2>3, QuietEnds
    <3>2. cooldown > 0
      BY <2>3 DEF ruleThrottled
    <3> QED BY <1>2, <2>2, <2>3, <3>1, <3>2, EndKept
  <2>4. CASE ~ruleThrottled /\ silenceKeyBusy
    <3>1. /\ ev' = [pc |-> "idle"] /\ UNCHANGED silence /\ Quiet(ev.policy, s)
          /\ cooldown' = RuleTTL
      BY <1>2, <2>2, <2>4 DEF emit, NoRequest
    <3>2. quiet' = 0 \/ quiet' = quiet + 1
      BY <2>2, <3>1, QuietEnds
    <3>3. silence > 0
      BY <2>4 DEF silenceKeyBusy
    <3> QED BY <1>2, <3>1, <3>2, <3>3, EndKept
  <2>5. CASE ~ruleThrottled /\ ~silenceKeyBusy
    <3>1. PICK e : e = decorateEventWithRuntimeConfig(ev.policy, s, channelsForSeverity(ev.policy, s))
      OBVIOUS
    <3>2. e.sev = s
      BY <3>1 DEF decorateEventWithRuntimeConfig
    <3>3. /\ ev' = [pc |-> "notify", policy |-> ev.policy, event |-> e]
          /\ silence' = SilenceWindow /\ UNCHANGED quiet /\ cooldown' = RuleTTL
      BY <1>2, <2>2, <2>5, <3>1 DEF emit
    <3> QED BY <1>2, <2>2, <3>2, <3>3, NotifyKept
  <2> QED BY <2>3, <2>4, <2>5
<1> QED BY <1>3, <1>4

\* The other categories.
LEMMA CategoriesKept ==
  ASSUME AlertInv,
         evaluatePools \/ evaluateRequests \/ evaluateRateLimits \/ evaluateOperationalThresholds
  PROVE  AlertInv'
<1> USE AlertRowsAssumption
<1>0. AlertTypes /\ (ev.pc = "pick" => PolicyOK(ev.policy))
  BY DEF AlertInv, EvSound
<1>1. CASE evaluatePools
  <2>1. PICK s : s = pickSeverity(reading, ev.policy.pool)
    OBVIOUS
  <2>2. s \in Severities \cup {Nothing} /\ (s = Nothing => ~Owed(ev.policy))
    BY <1>0, <1>1, <2>1, PickedSeverity, PoolPicked DEF evaluatePools
  <2> QED BY <1>1, <2>1, <2>2, EvaluatedKept DEF evaluatePools
<1>2. CASE evaluateRequests /\ check = "latency"
  <2>1. PICK s : s = pickLatencySeverity(reading, ev.policy.latency)
    OBVIOUS
  <2>2. s \in Severities \cup {Nothing}
    BY <2>1, PickedSeverity DEF pickLatencySeverity
  <2>3. s = Nothing => ~Owed(ev.policy)
    BY <1>0, <1>2, <2>1, LatencyPicked DEF evaluateRequests
  <2> QED BY <1>2, <2>1, <2>2, <2>3, EvaluatedKept DEF evaluateRequests
<1>3. CASE evaluateRequests /\ check = "error"
  <2>1. PICK s : s = pickSeverity(reading, ev.policy.error)
    OBVIOUS
  <2>2. s \in Severities \cup {Nothing} /\ (s = Nothing => ~Owed(ev.policy))
    BY <1>0, <1>3, <2>1, PickedSeverity, ErrorPicked DEF evaluateRequests
  <2> QED BY <1>3, <2>1, <2>2, EvaluatedKept DEF evaluateRequests
<1>4. CASE evaluateRateLimits
  <2>1. PICK s : s = IF reading = 0 THEN Nothing ELSE pickSeverity(reading, ev.policy.rate)
    OBVIOUS
  <2>2. s \in Severities \cup {Nothing}
    BY <2>1, PickedSeverity
  <2>3. s = Nothing => ~Owed(ev.policy)
    BY <1>0, <1>4, <2>1, RatePicked DEF evaluateRateLimits
  <2> QED BY <1>4, <2>1, <2>2, <2>3, EvaluatedKept DEF evaluateRateLimits
<1>5. CASE evaluateOperationalThresholds
  <2>1. PICK s : s = IF ev.policy.row # Nothing /\ Over(ev.policy.row.cpu) THEN "major" ELSE Nothing
    OBVIOUS
  <2>2. s \in Severities \cup {Nothing}
    BY <2>1 DEF Severities
  <2>3. s = Nothing => ~Owed(ev.policy)
    BY <1>5, <2>1 DEF evaluateOperationalThresholds, Owed
  <2> QED BY <1>5, <2>1, <2>2, <2>3, EvaluatedKept DEF evaluateOperationalThresholds
<1>6. evaluateRequests => check \in {"latency", "error"}
  BY DEF evaluateRequests
<1> QED BY <1>1, <1>2, <1>3, <1>4, <1>5, <1>6

LEMMA ObserveKept ==
  ASSUME AlertInv, Observe
  PROVE  AlertInv'
<1> USE AlertRowsAssumption
<1>0. /\ ev.pc \in {"record", "skipped"} /\ Record(ev.event) /\ ev' = [pc |-> "idle"]
      /\ UNCHANGED <<check, reading, row, rules, live, silence, cooldown, dedupe, mute, op, age>>
  BY DEF Observe, tables, clocks, NoRequest
<1>1. CASE ev.pc = "record"
  BY <1>0, <1>1, ObservedKept DEF Observe
<1>2. CASE ev.pc = "skipped"
  <2>1. ev.event.sev # Nothing
    BY <1>2 DEF AlertInv, EvSound, WithEvent, Severities
  <2>2. Quiet(ev.policy, ev.event.sev)
    BY <1>2 DEF Observe
  <2>3. quiet' = 0 \/ (quiet' = quiet + 1 /\ mute[ev.event.sev] = 0)
    BY <2>1, <2>2 DEF Quiet
  <2> QED BY <1>0, <1>2, <2>3, ObservedKept
<1> QED BY <1>0, <1>1, <1>2

\* An operator's request leaves the evaluation and its clocks alone, except
\* for a mute it may set.
LEMMA OperatorMoves ==
  ASSUME AlertInv, OpSound',
         UNCHANGED <<check, reading, silence, cooldown, dedupe, age, ev, quiet>>,
         mute' \in [Severities -> Nat], \A s \in Severities : mute[s] > 0 => mute'[s] > 0,
         feed' \in Seq(FeedEntries), row' \in ThresholdRows \cup {Nothing},
         rules' \subseteq RuleRows, live' \subseteq RuleRows
  PROVE  AlertInv'
<1>1. AlertTypes'
  BY DEF AlertInv, AlertTypes
<1>2. EvSound'
  BY DEF AlertInv, EvSound, PolicyOK
<1>3. \A s \in Severities : DedupeSound(s)'
  BY DEF AlertInv, DedupeSound
<1>4. SilenceSound' /\ CooldownSound'
  BY DEF AlertInv, SilenceSound, CooldownSound, Limit, Bound, Less
<1>5. HeldBack'
  <2>1. ev.pc = "skipped" => ev.event.sev \in Severities
    BY DEF AlertInv, EvSound, WithEvent
  <2> QED BY <2>1 DEF AlertInv, HeldBack, Limit, Bound, Less
<1> QED BY <1>1, <1>2, <1>3, <1>4, <1>5 DEF AlertInv

\* An entry of the feed gets another state, and its severity is kept for the mute.
LEMMA EntryMoves ==
  ASSUME AlertInv, NEW i, NEW life \in {"acknowledged", "suppressed", "escalated"},
         updateEntry(i, life)
  PROVE  feed[i].sev \in Severities /\ feed' \in Seq(FeedEntries)
<1>1. feed \in Seq(FeedEntries) /\ i \in DOMAIN feed
  BY DEF AlertInv, AlertTypes, updateEntry
<1>2. i \in 1..Len(feed)
  BY <1>1, LenProperties
<1>3. feed[i] \in FeedEntries
  BY <1>1, <1>2, ElementOfSeq
<1>4. PICK e : e = [feed[i] EXCEPT !.life = life]
  OBVIOUS
<1>5. e \in FeedEntries
  BY <1>3, <1>4 DEF FeedEntries
<1>6. feed' = [feed EXCEPT ![i] = e]
  BY <1>4 DEF updateEntry
<1>7. feed' \in Seq(FeedEntries)
  BY <1>1, <1>2, <1>5, <1>6, ExceptSeq
<1> QED BY <1>3, <1>7 DEF FeedEntries

LEMMA FeedActionsKept ==
  ASSUME AlertInv, NEW i, NEW ttl \in 0..1,
         \/ handleAlertAcknowledge(i, ttl) \/ handleAlertSuppress(i, ttl)
         \/ handleAlertEscalate(i)
  PROVE  AlertInv'
<1>1. PICK life \in {"acknowledged", "suppressed", "escalated"}, t \in {0, ttl},
           n \in {"none", "check"} :
        /\ updateEntry(i, life)
        /\ op' = [pc |-> "mute", sev |-> feed[i].sev, ttl |-> t, next |-> n]
        /\ Kept /\ UNCHANGED <<dedupe, mute, age>>
  <2>1. CASE handleAlertAcknowledge(i, ttl)
    BY <2>1 DEF handleAlertAcknowledge
  <2>2. CASE handleAlertSuppress(i, ttl)
    BY <2>2 DEF handleAlertSuppress
  <2>3. CASE handleAlertEscalate(i)
    BY <2>3 DEF handleAlertEscalate
  <2> QED BY <2>1, <2>2, <2>3
<1>2. feed[i].sev \in Severities /\ feed' \in Seq(FeedEntries)
  BY <1>1, EntryMoves
<1>3. t \in Nat
  OBVIOUS
<1>4. OpSound'
  BY <1>1, <1>2, <1>3 DEF OpSound, OpSteps
<1>5. UNCHANGED <<check, reading, silence, cooldown, dedupe, mute, age, ev, quiet, row, rules, live>>
  BY <1>1 DEF Kept, tables
<1> QED BY <1>2, <1>4, <1>5, OperatorMoves DEF AlertInv, AlertTypes

\* A mute is set, never lifted.
LEMMA MuteKept ==
  ASSUME AlertInv, applyAlertMute
  PROVE  AlertInv'
<1> USE WindowsAssumption
<1>0. /\ op.pc = "mute" /\ addMute(op.sev, op.ttl) /\ op' = AfterMute
      /\ UNCHANGED <<check, reading, silence, cooldown, dedupe, age, ev, quiet, row, rules, live, feed>>
      /\ mute \in [Severities -> Nat]
      /\ op \in [pc : {"mute", "check"}, sev : Severities, ttl : Nat, next : {"none", "check"}]
  BY DEF applyAlertMute, Kept, tables, AlertInv, OpSound, AlertTypes
<1>1. PICK d \in Nat : d = IF op.ttl = 0 THEN EscalationWindow ELSE op.ttl
  BY <1>0
<1>2. d > 0
  BY <1>0, <1>1
<1>3. mute' = [mute EXCEPT ![op.sev] = d]
  BY <1>0, <1>1 DEF addMute
<1>4. mute' \in [Severities -> Nat] /\ mute'[op.sev] > 0
  BY <1>0, <1>2, <1>3
<1>5. \A s \in Severities : mute[s] > 0 => mute'[s] > 0
  BY <1>0, <1>2, <1>3
<1>6. OpSound'
  <2>1. CASE op.next = "none"
    <3>1. op' = [pc |-> "none"]
      BY <1>0, <2>1 DEF AfterMute, NoOp
    <3> QED BY <3>1 DEF OpSound, OpSteps
  <2>2. CASE op.next = "check"
    <3>1. op' = [op EXCEPT !.pc = "check"]
      BY <1>0, <2>2 DEF AfterMute
    <3>2. /\ op'.pc = "check" /\ op'.sev = op.sev
          /\ op' \in [pc : {"mute", "check"}, sev : Severities, ttl : Nat, next : {"none", "check"}]
      BY <1>0, <3>1
    <3> QED BY <1>4, <3>2 DEF OpSound, OpSteps
  <2> QED BY <1>0, <2>1, <2>2
<1> QED BY <1>0, <1>4, <1>5, <1>6, OperatorMoves DEF AlertInv, AlertTypes

\* The escalation's own notification meets the mute just set: it is never sent.
LEMMA EscalateKept ==
  ASSUME AlertInv, EscalateNotify
  PROVE  AlertInv'
<1>1. op.pc = "check" /\ mute[op.sev] > 0
  BY DEF AlertInv, OpSound, OpSteps, EscalateNotify
<1>2. op' = [pc |-> "none"] /\ UNCHANGED <<dedupe, age, mute, feed>> /\ Kept
  BY <1>1 DEF EscalateNotify, shouldSkip, NoOp
<1>3. OpSound'
  BY <1>2 DEF OpSound, OpSteps
<1> QED BY <1>2, <1>3, OperatorMoves DEF AlertInv, AlertTypes, Kept, tables

\* A saved setting: a row of thresholds, a rule, or nothing the alerts look at.
LEMMA SaveMoves ==
  ASSUME AlertInv, Save, op' = op \/ op'.pc \in {"list", "routes"},
         row' \in ThresholdRows \cup {Nothing}, rules' \subseteq RuleRows
  PROVE  AlertInv'
<1>1. OpSound'
  <2>1. CASE op' = op
    <3>1. op = [pc |-> "none"]
      BY DEF Save, NoOp
    <3> QED BY <2>1, <3>1 DEF OpSound, OpSteps
  <2>2. CASE op'.pc \in {"list", "routes"}
    BY <2>2 DEF OpSound, OpSteps
  <2> QED BY <2>1, <2>2
<1>2. UNCHANGED <<check, reading, silence, cooldown, dedupe, mute, age, ev, quiet, live, feed>>
  BY DEF Save, clocks
<1> QED BY <1>1, <1>2, OperatorMoves DEF AlertInv, AlertTypes

LEMMA SettingsKept ==
  ASSUME AlertInv,
         \/ \E r \in ThresholdRows : handleAlertThresholdsSave(r)
         \/ \E n \in NotifyRows : handleAlertNotifySave(n)
         \/ \E t, u \in TemplateRows :
              \/ handleAlertTemplateCreate(t) \/ handleAlertTemplateUpdate(t, u)
              \/ handleAlertTemplateDelete(t)
         \/ \E r, u \in ReceiverRows :
              \/ handleAlertReceiverCreate(r) \/ handleAlertReceiverUpdate(r, u)
              \/ handleAlertReceiverDelete(r)
         \/ \E ss \in SUBSET Shifts : handleDutyRosterUpdate(ss)
         \/ \E x \in RuleRows : handleAlertRuleUpsert(x)
         \/ handleAlertRuleDelete
         \/ \E t \in RouteTables : handleAlertRoutesUpdate(t)
  PROVE  AlertInv'
<1>0. row \in ThresholdRows \cup {Nothing} /\ rules \subseteq RuleRows
  BY DEF AlertInv, AlertTypes
<1>1. ASSUME NEW r \in ThresholdRows, handleAlertThresholdsSave(r) PROVE AlertInv'
  BY <1>0, <1>1, SaveMoves DEF handleAlertThresholdsSave, SaveThresholds
<1>2. ASSUME NEW n, handleAlertNotifySave(n) PROVE AlertInv'
  BY <1>0, <1>2, SaveMoves DEF handleAlertNotifySave, SaveNotify
<1>3. ASSUME NEW t, NEW u, \/ handleAlertTemplateCreate(t) \/ handleAlertTemplateUpdate(t, u)
                           \/ handleAlertTemplateDelete(t)
      PROVE  AlertInv'
  <2>1. Save /\ UNCHANGED <<op, row, rules>>
    BY <1>3 DEF handleAlertTemplateCreate, handleAlertTemplateUpdate, handleAlertTemplateDelete,
                createAlertTemplate, updateAlertTemplate, deleteAlertTemplate, WriteTemplates
  <2> QED BY <1>0, <2>1, SaveMoves
<1>4. ASSUME NEW r, NEW u, \/ handleAlertReceiverCreate(r) \/ handleAlertReceiverUpdate(r, u)
                           \/ handleAlertReceiverDelete(r)
      PROVE  AlertInv'
  <2>1. Save /\ UNCHANGED <<op, row, rules>>
    BY <1>4 DEF handleAlertReceiverCreate, handleAlertReceiverUpdate, handleAlertReceiverDelete,
                createAlertReceiver, updateAlertReceiver, deleteAlertReceiver, WriteReceivers
  <2> QED BY <1>0, <2>1, SaveMoves
<1>5. ASSUME NEW ss, handleDutyRosterUpdate(ss) PROVE AlertInv'
  BY <1>0, <1>5, SaveMoves DEF handleDutyRosterUpdate, tables
<1>6. ASSUME NEW x \in RuleRows, handleAlertRuleUpsert(x) PROVE AlertInv'
  BY <1>0, <1>6, SaveMoves DEF handleAlertRuleUpsert, UpsertRule
<1>7. CASE handleAlertRuleDelete
  BY <1>0, <1>7, SaveMoves DEF handleAlertRuleDelete, DeleteAlertRule
<1>8. ASSUME NEW t, handleAlertRoutesUpdate(t) PROVE AlertInv'
  BY <1>0, <1>8, SaveMoves DEF handleAlertRoutesUpdate, ReplaceRoutes
<1> QED BY <1>1, <1>2, <1>3, <1>4, <1>5, <1>6, <1>7, <1>8

\* The second halves of the requests that write in several steps.
LEMMA InstallKept ==
  ASSUME AlertInv, (\E k \in BOOLEAN : reloadAlertControllerRules(k)) \/ SetRules \/ ConfigureRoutes
  PROVE  AlertInv'
<1>0. AlertTypes /\ OpSound
  BY DEF AlertInv
<1>1. ASSUME NEW k \in BOOLEAN, reloadAlertControllerRules(k) PROVE AlertInv'
  <2>1. op' = [pc |-> "rules", rules |-> rules] \/ op' = [pc |-> "none"]
    BY <1>1 DEF reloadAlertControllerRules, NoOp
  <2>2. OpSound'
    <3>1. CASE op' = [pc |-> "rules", rules |-> rules]
      <4>1. op'.pc = "rules" /\ op'.rules = rules
        BY <3>1
      <4> QED BY <1>0, <4>1 DEF OpSound, OpSteps, AlertTypes
    <3>2. CASE op' = [pc |-> "none"]
      BY <3>2 DEF OpSound, OpSteps
    <3> QED BY <2>1, <3>1, <3>2
  <2>3. UNCHANGED <<check, reading, silence, cooldown, dedupe, mute, age, ev, quiet, row, rules,
                    live, feed>>
    BY <1>1 DEF reloadAlertControllerRules, Kept, tables
  <2> QED BY <1>0, <2>2, <2>3, OperatorMoves DEF AlertTypes
<1>2. CASE SetRules
  <2>1. live' \subseteq RuleRows /\ op' = [pc |-> "none"]
    BY <1>0, <1>2 DEF SetRules, OpSound, NoOp
  <2>2. OpSound'
    BY <2>1 DEF OpSound, OpSteps
  <2>3. UNCHANGED <<check, reading, silence, cooldown, dedupe, mute, age, ev, quiet, row, rules, feed>>
    BY <1>2 DEF SetRules, tables, clocks
  <2> QED BY <1>0, <2>1, <2>2, <2>3, OperatorMoves DEF AlertTypes
<1>3. CASE ConfigureRoutes
  <2>1. op' = [pc |-> "none"]
    BY <1>3 DEF ConfigureRoutes, NoOp
  <2>2. OpSound'
    BY <2>1 DEF OpSound, OpSteps
  <2>3. UNCHANGED <<check, reading, silence, cooldown, dedupe, mute, age, ev, quiet, row, rules,
                    live, feed>>
    BY <1>3 DEF ConfigureRoutes, tables, clocks
  <2> QED BY <1>0, <2>2, <2>3, OperatorMoves DEF AlertTypes
<1> QED BY <1>1, <1>2, <1>3

\* With no memory at all the invariant asks only for types.
Empty ==
  /\ reading \in Nat /\ row \in ThresholdRows \cup {Nothing}
  /\ rules \subseteq RuleRows /\ live \subseteq RuleRows
  /\ silence = 0 /\ cooldown = 0 /\ quiet = 0 /\ feed = <<>>
  /\ dedupe = [s \in Severities |-> 0] /\ mute = [s \in Severities |-> 0]
  /\ age = [s \in Severities |-> DedupeWindow]
  /\ ev = [pc |-> "idle"] /\ op = [pc |-> "none"]

LEMMA EmptyMemory == Empty => AlertInv
<1> SUFFICES ASSUME Empty PROVE AlertInv
  OBVIOUS
<1> USE WindowsAssumption
<1>1. dedupe \in [Severities -> Nat] /\ mute \in [Severities -> Nat] /\ age \in [Severities -> Nat]
  BY DEF Empty
<1>2. feed \in Seq(FeedEntries)
  BY DEF Empty
<1>3. AlertTypes
  BY <1>1, <1>2 DEF Empty, AlertTypes
<1>4. EvSound /\ OpSound
  BY DEF Empty, EvSound, OpSound, Phases, WithEvent, OpSteps
<1>5. \A s \in Severities : DedupeSound(s)
  BY DEF Empty, DedupeSound
<1>6. SilenceSound /\ CooldownSound /\ HeldBack
  BY DEF Empty, SilenceSound, CooldownSound, HeldBack, Limit, Bound, Less
<1> QED BY <1>3, <1>4, <1>5, <1>6 DEF AlertInv

LEMMA RestartKept ==
  ASSUME AlertInv, NEW k \in BOOLEAN, Restart(k)
  PROVE  AlertInv'
<1>1. /\ reading' \in Nat /\ row' \in ThresholdRows \cup {Nothing}
      /\ rules' \subseteq RuleRows /\ live' \subseteq RuleRows
  BY DEF AlertInv, AlertTypes, Restart
<1>2. /\ silence' = 0 /\ cooldown' = 0 /\ quiet' = 0 /\ feed' = <<>>
      /\ dedupe' = [s \in Severities |-> 0] /\ mute' = [s \in Severities |-> 0]
      /\ age' = [s \in Severities |-> DedupeWindow]
      /\ ev' = [pc |-> "idle"] /\ op' = [pc |-> "none"]
  BY DEF Restart, NoRequest, NoOp
<1>3. Empty'
  BY <1>1, <1>2 DEF Empty
<1> QED BY <1>3, EmptyMemory, PTL

LEMMA AlertKept ==
  ASSUME AlertInv, [AlertNext]_alertVars
  PROVE  AlertInv'
<1>1. CASE UNCHANGED alertVars
  <2>1. UNCHANGED <<check, reading, silence, cooldown, dedupe, mute, age, ev, quiet, row, rules,
                    live, feed, op>>
    BY <1>1 DEF alertVars, tables, clocks
  <2>2. OpSound'
    BY <2>1 DEF AlertInv, OpSound
  <2> QED BY <2>1, <2>2, OperatorMoves DEF AlertInv, AlertTypes
<1>2. CASE AlertNext
  BY <1>2, AlertTickKept, LoadKept, CategoriesKept, RulesKept, CheckedKept, DeliveredKept,
     ObserveKept, FeedActionsKept, MuteKept, EscalateKept, SettingsKept, InstallKept, RestartKept
     DEF AlertNext
<1> QED BY <1>1, <1>2

(* No alert goes out twice within a dedupe window, whoever notifies, although
   the manager checks a fingerprint and marks it in two steps; and a condition
   over a threshold an operator saved, that could be delivered and is not muted,
   is never held back longer than the clocks together allow, whatever its
   severity, the settings and the operators do meanwhile (alerting/manager.go,
   monitoring/alert_controller.go). *)
THEOREM AlertsKept == AlertSpec => []AlertsSound
<1> USE WindowsAssumption, AlertRowsAssumption
<1>1. AlertInit => AlertInv
  <2> SUFFICES ASSUME AlertInit PROVE AlertInv
    OBVIOUS
  <2>1. rules \subseteq RuleRows /\ live = rules
    BY DEF AlertInit
  <2>2. Empty
    BY <2>1 DEF AlertInit, NoRequest, NoOp, Empty
  <2> QED BY <2>2, EmptyMemory
<1>2. AlertInv /\ [AlertNext]_alertVars => AlertInv'
  BY AlertKept
<1>3. AlertInv => AlertsSound
  <2> SUFFICES ASSUME AlertInv PROVE AlertsSound
    OBVIOUS
  <2>1. ev.pc = "deliver" => age[ev.event.sev] = DedupeWindow
    <3> SUFFICES ASSUME ev.pc = "deliver" PROVE age[ev.event.sev] = DedupeWindow
      OBVIOUS
    <3>1. PICK s \in Severities : s = ev.event.sev
      BY DEF AlertInv, EvSound, WithEvent
    <3>2. dedupe[s] = 0 /\ age[s] \in Nat /\ DedupeSound(s)
      BY <3>1 DEF AlertInv, HeldBack, AlertTypes
    <3> QED BY <3>1, <3>2 DEF DedupeSound
  <2>2. op.pc # "send"
    BY DEF AlertInv, OpSound, OpSteps
  <2>3. PersistentRepeated
    BY DEF AlertInv, AlertTypes, HeldBack, Limit, Bound, PersistentRepeated, Longest
  <2> QED BY <2>1, <2>2, <2>3 DEF AlertsSound, NoStorm
<1> QED BY <1>1, <1>2, <1>3, PTL DEF AlertSpec

-----------------------------------------------------------------------------
(* Policy: the caches of the rules.  A slot that holds a list keeps with it *)
(* what is left of its time, and the age of what it holds and that rest     *)
(* together never exceed the times of the caches it came through.           *)

StoredRows ==
  [prio : Nat, on : BOOLEAN, fact : {w.fact : w \in Rows}, from : 0..(Day - 1),
   to : 0..(Day - 1), act : {w.act : w \in Rows}]
Contents == [Rules -> StoredRows \cup {NoRule}]
Slots == [ed : Nat, left : Nat]

\* A slot is empty, or what it holds is as young as its rest allows.
Held(slot, s, most) ==
  \/ slot = NoEntry
  \/ /\ slot \in [ed : DOMAIN s, left : Nat \ {0}]
     /\ s[slot.ed] + slot.left <= most

EditionsInv ==
  /\ editions \in Seq(Contents) /\ editions # <<>>
  /\ since \in Seq(Nat) /\ Len(since) = Now /\ since[Now] = 0
SlotTypes ==
  /\ lists \in [Tenants -> Slots] /\ redis \in [Tenants -> Slots]
  /\ engine \in [Tenants -> Slots] /\ rowcache \in [Rules -> Slots]
SlotsInv == \A t \in Tenants :
  /\ Held(lists[t], since, RepoTTL + DefaultTTL)
  /\ Held(redis[t], since, RepoTTL)
  /\ Held(engine[t], since, Horizon)
RowsInv == \A r \in Rules : rowcache[r].left > 0 => rowcache[r].ed \in 1..Now
FetchInv == fetch # NoRule =>
  fetch \in [tenant : Tenants, ed : 1..Now] /\ since[fetch.ed] = 0
RuleInv == EditionsInv /\ SlotTypes /\ SlotsInv /\ RowsInv /\ FetchInv

LEMMA PolicyTimes ==
  /\ RepoTTL \in Nat \ {0} /\ DefaultTTL \in Nat \ {0} /\ EngineTTL \in Nat \ {0}
  /\ RepoTTL + DefaultTTL \in Nat /\ Horizon \in Nat /\ Horizon = RepoTTL + DefaultTTL + EngineTTL
  /\ AdminTenant \in Tenants /\ NoEntry \in Slots
BY PolicyAssumption DEF Horizon, NoEntry, Slots

LEMMA RowsTyped == Rows \subseteq StoredRows
<1> SUFFICES ASSUME NEW w \in Rows PROVE w \in StoredRows
  OBVIOUS
<1>1. /\ w = [prio |-> w.prio, on |-> w.on, fact |-> w.fact, from |-> w.from, to |-> w.to, act |-> w.act]
      /\ w.prio \in Nat /\ w.on \in BOOLEAN /\ w.from \in 0..(Day - 1) /\ w.to \in 0..(Day - 1)
  BY PolicyAssumption
<1>2. w.fact \in {x.fact : x \in Rows} /\ w.act \in {x.act : x \in Rows}
  OBVIOUS
<1>3. [prio |-> w.prio, on |-> w.on, fact |-> w.fact, from |-> w.from, to |-> w.to, act |-> w.act]
      \in StoredRows
  BY <1>1, <1>2 DEF StoredRows
<1> QED BY <1>1, <1>3

\* What a slot holds is a past content no older than its time allows.
LEMMA HeldLeft ==
  ASSUME NEW s \in Seq(Nat), NEW b \in Nat, NEW slot \in Slots, Held(slot, s, b), slot.left > 0
  PROVE  /\ slot.ed \in 1..Len(s) /\ s[slot.ed] \in Nat /\ slot.left \in Nat
         /\ s[slot.ed] + slot.left <= b /\ s[slot.ed] <= b
<1>1. slot # NoEntry
  BY DEF NoEntry
<1>2. slot.ed \in 1..Len(s) /\ slot.left \in Nat \ {0} /\ s[slot.ed] + slot.left <= b
  BY <1>1 DEF Held
<1>3. s[slot.ed] \in Nat
  BY <1>2
<1>4. \A x, y \in Nat : x + y <= b => x <= b
  OBVIOUS
<1> QED BY <1>2, <1>3, <1>4

LEMMA HeldAged ==
  ASSUME NEW s \in Seq(Nat), NEW z \in Seq(Nat), Len(z) = Len(s),
         \A e \in 1..Len(s) : z[e] <= s[e] + 1,
         NEW b \in Nat, NEW slot \in Slots, Held(slot, s, b)
  PROVE  Held(Aged(slot), z, b) /\ Aged(slot) \in Slots
<1>1. CASE slot.left <= 1
  BY <1>1, PolicyTimes DEF Held, Aged
<1>2. CASE ~(slot.left <= 1)
  <2>1. /\ slot.ed \in 1..Len(s) /\ s[slot.ed] \in Nat /\ slot.left \in Nat
        /\ s[slot.ed] + slot.left <= b /\ slot.left > 1
    <3>1. slot.left \in Nat
      BY DEF Slots
    <3>2. slot.left > 1
      BY <3>1, <1>2
    <3> QED BY SMTT(30), <3>1, <3>2, HeldLeft
  <2>2. Aged(slot) = [ed |-> slot.ed, left |-> slot.left - 1]
    BY <1>2 DEF Aged, Slots
  <2>3. z[slot.ed] \in Nat /\ z[slot.ed] <= s[slot.ed] + 1 /\ slot.ed \in DOMAIN z
    BY SMTT(30), <2>1
  <2>4. \A x, y, k \in Nat : y <= x + 1 /\ x + k <= b /\ k > 1 => y + (k - 1) <= b /\ k - 1 \in Nat \ {0}
    OBVIOUS
  <2>5. z[slot.ed] + (slot.left - 1) <= b /\ slot.left - 1 \in Nat \ {0}
    BY <2>1, <2>3, <2>4
  <2> QED BY <2>2, <2>3, <2>5 DEF Held, Slots
<1> QED BY <1>1, <1>2

LEMMA HeldAppend ==
  ASSUME NEW s \in Seq(Nat), NEW b \in Nat, NEW slot \in Slots, Held(slot, s, b)
  PROVE  Held(slot, Append(s, 0), b)
<1>1. Append(s, 0) \in Seq(Nat) /\ Len(Append(s, 0)) = Len(s) + 1
      /\ \A e \in 1..Len(s) : Append(s, 0)[e] = s[e]
  OBVIOUS
<1>2. CASE slot = NoEntry
  BY <1>2 DEF Held
<1>3. CASE slot # NoEntry
  <2>1. slot \in [ed : 1..Len(s), left : Nat \ {0}] /\ s[slot.ed] + slot.left <= b
    BY <1>3 DEF Held
  <2>2. slot \in [ed : DOMAIN Append(s, 0), left : Nat \ {0}]
    BY <2>1, <1>1
  <2>3. Append(s, 0)[slot.ed] = s[slot.ed]
    BY <2>1, <1>1
  <2> QED BY <2>1, <2>2, <2>3 DEF Held
<1> QED BY <1>2, <1>3

\* A copy made now of what is young enough for the copy's time.
LEMMA HeldFresh ==
  ASSUME NEW s \in Seq(Nat), NEW e \in 1..Len(s), NEW ttl \in Nat \ {0}, NEW b \in Nat,
         s[e] + ttl <= b
  PROVE  Held(Fresh(e, ttl), s, b) /\ Fresh(e, ttl) \in Slots
BY DEF Held, Fresh, Slots

LEMMA RuleInitial == RuleInit => RuleInv
<1> SUFFICES ASSUME RuleInit PROVE RuleInv
  OBVIOUS
<1>1. [r \in Rules |-> NoRule] \in Contents
  BY DEF Contents
<1>2. EditionsInv
  BY <1>1 DEF RuleInit, EditionsInv, Now
<1> QED BY <1>2, PolicyTimes DEF RuleInit, RuleInv, SlotTypes, SlotsInv, RowsInv, FetchInv, Held, NoEntry

LEMMA TickKeeps == RuleInv /\ PolicyTick => RuleInv'
<1> SUFFICES ASSUME RuleInv, PolicyTick PROVE RuleInv'
  OBVIOUS
<1> USE DEF RuleInv
<1>1. /\ editions' = editions /\ fetch' = fetch /\ fetch = NoRule /\ Now' = Now
      /\ since \in Seq(Nat) /\ Len(since) = Now /\ Now \in Nat \ {0} /\ since[Now] = 0
  BY DEF PolicyTick, EditionsInv, Now
<1>2. /\ since' \in Seq(Nat) /\ Len(since') = Len(since) /\ since'[Now] = 0
      /\ \A e \in 1..Len(since) : since'[e] <= since[e] + 1
  <2>1. since' = [e \in 1..Now |-> IF e = Now \/ since[e] > Horizon THEN since[e] ELSE since[e] + 1]
    BY <1>1 DEF PolicyTick
  <2>2. \A e \in 1..Now : since[e] \in Nat
    BY <1>1
  <2>3. since' \in [1..Now -> Nat]
    BY <2>1, <2>2
  <2>4. since' \in Seq(Nat) /\ Len(since') = Now
    BY <2>3, <1>1
  <2>5. \A e \in 1..Now : since'[e] <= since[e] + 1
    BY <2>1, <2>2
  <2> QED BY <2>1, <2>4, <2>5, <1>1
<1>3. EditionsInv'
  BY <1>1, <1>2 DEF EditionsInv
<1>4. \A t \in Tenants :
        /\ Held(lists'[t], since', RepoTTL + DefaultTTL) /\ lists'[t] \in Slots
        /\ Held(redis'[t], since', RepoTTL) /\ redis'[t] \in Slots
        /\ Held(engine'[t], since', Horizon) /\ engine'[t] \in Slots
  <2> TAKE t \in Tenants
  <2>1. lists'[t] = Aged(lists[t]) /\ redis'[t] = Aged(redis[t]) /\ engine'[t] = Aged(engine[t])
    BY DEF PolicyTick
  <2>2. lists[t] \in Slots /\ redis[t] \in Slots /\ engine[t] \in Slots
    BY DEF SlotTypes
  <2>3. Held(Aged(lists[t]), since', RepoTTL + DefaultTTL) /\ Aged(lists[t]) \in Slots
    BY <1>1, <1>2, <2>2, HeldAged, PolicyTimes DEF SlotsInv
  <2>4. Held(Aged(redis[t]), since', RepoTTL) /\ Aged(redis[t]) \in Slots
    BY <1>1, <1>2, <2>2, HeldAged, PolicyTimes DEF SlotsInv
  <2>5. Held(Aged(engine[t]), since', Horizon) /\ Aged(engine[t]) \in Slots
    BY <1>1, <1>2, <2>2, HeldAged, PolicyTimes DEF SlotsInv
  <2> QED BY <2>1, <2>3, <2>4, <2>5
<1>5. \A r \in Rules : /\ rowcache'[r] \in Slots
                       /\ rowcache'[r].left > 0 => rowcache[r].left > 0 /\ rowcache'[r].ed = rowcache[r].ed
  <2> TAKE r \in Rules
  <2>1. rowcache'[r] = Aged(rowcache[r]) /\ rowcache[r] \in Slots
    BY DEF PolicyTick, SlotTypes
  <2> QED BY <2>1, PolicyTimes DEF Aged, Slots, NoEntry
<1>6. SlotTypes' /\ SlotsInv'
  BY <1>4, <1>5 DEF PolicyTick, SlotTypes, SlotsInv, Horizon
<1>7. RowsInv'
  BY <1>5, <1>1 DEF RowsInv
<1>8. FetchInv'
  BY <1>1 DEF FetchInv
<1> QED BY <1>3, <1>6, <1>7, <1>8

LEMMA HitKeeps == ASSUME NEW t \in Tenants PROVE RuleInv /\ fetchHit(t) => RuleInv'
<1> SUFFICES ASSUME RuleInv, fetchHit(t) PROVE RuleInv'
  OBVIOUS
<1> USE DEF RuleInv
<1>1. /\ editions' = editions /\ since' = since /\ lists' = lists /\ redis' = redis
      /\ rowcache' = rowcache /\ fetch' = fetch /\ Now' = Now
      /\ engine' = [engine EXCEPT ![t] = Fresh(lists[t].ed, EngineTTL)] /\ lists[t].left > 0
  BY DEF fetchHit, Now
<1>2. since \in Seq(Nat) /\ lists[t] \in Slots /\ Held(lists[t], since, RepoTTL + DefaultTTL)
  BY DEF EditionsInv, SlotTypes, SlotsInv
<1>3. lists[t].ed \in 1..Len(since) /\ since[lists[t].ed] \in Nat
      /\ since[lists[t].ed] <= RepoTTL + DefaultTTL
  BY <1>1, <1>2, HeldLeft, PolicyTimes
<1>5. since[lists[t].ed] + EngineTTL <= Horizon
  BY <1>3, PolicyTimes
<1>6. Held(Fresh(lists[t].ed, EngineTTL), since, Horizon) /\ Fresh(lists[t].ed, EngineTTL) \in Slots
  BY <1>2, <1>3, <1>5, HeldFresh, PolicyTimes
<1>7. SlotTypes' /\ SlotsInv'
  BY <1>1, <1>6 DEF SlotTypes, SlotsInv, Horizon
<1> QED BY <1>1, <1>7 DEF EditionsInv, RowsInv, FetchInv

LEMMA GetKeeps == ASSUME NEW t \in Tenants PROVE RuleInv /\ Get(t) => RuleInv'
<1> SUFFICES ASSUME RuleInv, Get(t) PROVE RuleInv'
  OBVIOUS
<1> USE DEF RuleInv
<1>1. /\ editions' = editions /\ since' = since /\ redis' = redis
      /\ rowcache' = rowcache /\ fetch' = fetch /\ Now' = Now
      /\ lists' = [lists EXCEPT ![t] = Fresh(redis[t].ed, DefaultTTL)]
      /\ engine' = [engine EXCEPT ![t] = Fresh(redis[t].ed, EngineTTL)] /\ redis[t].left > 0
  BY DEF Get, Now
<1>2. since \in Seq(Nat) /\ redis[t] \in Slots /\ Held(redis[t], since, RepoTTL)
  BY DEF EditionsInv, SlotTypes, SlotsInv
<1>3. redis[t].ed \in 1..Len(since) /\ since[redis[t].ed] \in Nat
      /\ since[redis[t].ed] <= RepoTTL
  BY <1>1, <1>2, HeldLeft, PolicyTimes
<1>5. /\ since[redis[t].ed] + EngineTTL <= Horizon
      /\ since[redis[t].ed] + DefaultTTL <= RepoTTL + DefaultTTL
  <2>1. \A x \in Nat : x <= RepoTTL => /\ x + EngineTTL <= Horizon
                                        /\ x + DefaultTTL <= RepoTTL + DefaultTTL
    BY PolicyTimes
  <2> QED BY <1>3, <2>1
<1>6. Held(Fresh(redis[t].ed, EngineTTL), since, Horizon) /\ Fresh(redis[t].ed, EngineTTL) \in Slots
  BY <1>2, <1>3, <1>5, HeldFresh, PolicyTimes
<1>7. /\ Held(Fresh(redis[t].ed, DefaultTTL), since, RepoTTL + DefaultTTL)
      /\ Fresh(redis[t].ed, DefaultTTL) \in Slots
  BY <1>2, <1>3, <1>5, HeldFresh, PolicyTimes
<1>8. SlotTypes' /\ SlotsInv'
  BY <1>1, <1>6, <1>7 DEF SlotTypes, SlotsInv, Horizon
<1> QED BY <1>1, <1>8 DEF EditionsInv, RowsInv, FetchInv

LEMMA ReadKeeps == ASSUME NEW t \in Tenants PROVE RuleInv /\ ListRules(t) => RuleInv'
<1> SUFFICES ASSUME RuleInv, ListRules(t) PROVE RuleInv'
  OBVIOUS
<1> USE DEF RuleInv
<1>1. /\ editions' = editions /\ since' = since /\ redis' = redis /\ lists' = lists
      /\ engine' = engine /\ rowcache' = rowcache /\ Now' = Now
      /\ fetch' = [tenant |-> t, ed |-> Now]
  BY DEF ListRules, Now
<1>2. FetchInv'
  BY <1>1 DEF FetchInv, EditionsInv, Now
<1> QED BY <1>1, <1>2 DEF EditionsInv, SlotTypes, SlotsInv, RowsInv, Horizon

LEMMA SetKeeps == RuleInv /\ SetLists => RuleInv'
<1> SUFFICES ASSUME RuleInv, SetLists PROVE RuleInv'
  OBVIOUS
<1> USE DEF RuleInv
<1>1. /\ editions' = editions /\ since' = since /\ rowcache' = rowcache /\ Now' = Now
      /\ lists' = [lists EXCEPT ![fetch.tenant] = Fresh(fetch.ed, RepoTTL)]
      /\ redis' = [redis EXCEPT ![fetch.tenant] = Fresh(fetch.ed, RepoTTL)]
      /\ engine' = [engine EXCEPT ![fetch.tenant] = Fresh(fetch.ed, EngineTTL)]
      /\ fetch' = NoRule /\ fetch # NoRule
  BY DEF SetLists, Now
<1>2. since \in Seq(Nat) /\ fetch.tenant \in Tenants /\ fetch.ed \in 1..Len(since) /\ since[fetch.ed] = 0
  BY <1>1 DEF EditionsInv, FetchInv
<1>3. /\ since[fetch.ed] + RepoTTL <= RepoTTL + DefaultTTL
      /\ since[fetch.ed] + RepoTTL <= RepoTTL
      /\ since[fetch.ed] + EngineTTL <= Horizon
  BY <1>2, PolicyTimes
<1>4. /\ Held(Fresh(fetch.ed, RepoTTL), since, RepoTTL + DefaultTTL)
      /\ Held(Fresh(fetch.ed, RepoTTL), since, RepoTTL)
      /\ Held(Fresh(fetch.ed, EngineTTL), since, Horizon)
      /\ Fresh(fetch.ed, RepoTTL) \in Slots /\ Fresh(fetch.ed, EngineTTL) \in Slots
  BY <1>2, <1>3, HeldFresh, PolicyTimes
<1>5. SlotTypes' /\ SlotsInv'
  BY <1>1, <1>2, <1>4 DEF SlotTypes, SlotsInv, Horizon
<1> QED BY <1>1, <1>5 DEF EditionsInv, RowsInv, FetchInv

\* A new content of the table ages nothing that is cached.
LEMMA WriteKeeps ==
  ASSUME RuleInv, NEW tbl \in Contents, NEW evicts \in BOOLEAN, Write(tbl, evicts),
         rowcache' = rowcache \/ \E r \in Rules : rowcache' = [rowcache EXCEPT ![r] = Fresh(Now, RepoTTL)]
  PROVE  RuleInv'
<1> USE DEF RuleInv
<1>1. /\ editions' = Append(editions, tbl) /\ since' = Append(since, 0)
      /\ lists' = lists /\ redis' = redis /\ engine' = engine /\ fetch' = fetch
  BY DEF Write
<1>2. /\ editions \in Seq(Contents) /\ since \in Seq(Nat) /\ Len(since) = Now /\ Now = Len(editions)
      /\ Now \in Nat \ {0}
  BY DEF EditionsInv, Now
<1>3. /\ editions' \in Seq(Contents) /\ Len(editions') = Now + 1 /\ since' \in Seq(Nat)
      /\ Len(since') = Now + 1 /\ since'[Now + 1] = 0 /\ Now' = Now + 1
      /\ \A e \in 1..Now : since'[e] = since[e]
  BY <1>1, <1>2 DEF Now
<1>4. EditionsInv'
  BY <1>3 DEF EditionsInv
<1>5. SlotTypes'
  <2>1. Fresh(Now, RepoTTL) \in Slots
    BY <1>2, PolicyTimes DEF Fresh, Slots
  <2> QED BY <1>1, <2>1 DEF SlotTypes
<1>6. SlotsInv'
  <2> SUFFICES ASSUME NEW t \in Tenants
               PROVE  /\ Held(lists[t], Append(since, 0), RepoTTL + DefaultTTL)
                      /\ Held(redis[t], Append(since, 0), RepoTTL)
                      /\ Held(engine[t], Append(since, 0), Horizon)
    BY <1>1 DEF SlotsInv, Horizon
  <2>1. lists[t] \in Slots /\ redis[t] \in Slots /\ engine[t] \in Slots
    BY DEF SlotTypes
  <2>2. /\ Held(lists[t], since, RepoTTL + DefaultTTL)
        /\ Held(redis[t], since, RepoTTL) /\ Held(engine[t], since, Horizon)
    BY DEF SlotsInv
  <2> QED BY <2>1, <2>2, <1>2, HeldAppend, PolicyTimes
<1>7. RowsInv'
  <2> SUFFICES ASSUME NEW r \in Rules, rowcache'[r].left > 0 PROVE rowcache'[r].ed \in 1..(Now + 1)
    BY <1>3 DEF RowsInv
  <2>1. rowcache'[r] = rowcache[r] \/ rowcache'[r] = Fresh(Now, RepoTTL)
    BY DEF SlotTypes
  <2> QED BY <2>1, <1>2 DEF RowsInv, Fresh
<1>8. FetchInv'
  BY <1>1, <1>2, <1>3 DEF FetchInv
<1> QED BY <1>4, <1>5, <1>6, <1>7, <1>8

LEMMA FilledRow == ASSUME RuleInv, NEW r \in Rules, FillRow(r)
  PROVE rowcache' = rowcache \/ \E x \in Rules : rowcache' = [rowcache EXCEPT ![x] = Fresh(Now, RepoTTL)]
BY DEF FillRow

LEMMA TableTyped == RuleInv => Table \in Contents
BY DEF RuleInv, EditionsInv, Table, Now

LEMMA RuleRead == ASSUME RuleInv, NEW r \in Rules PROVE GetRule(r) \in StoredRows \cup {NoRule}
<1>1. CASE rowcache[r].left > 0
  <2>1. rowcache[r].ed \in 1..Len(editions) /\ editions \in Seq(Contents)
    BY <1>1 DEF RuleInv, RowsInv, EditionsInv, Now
  <2>2. editions[rowcache[r].ed] \in Contents
    BY <2>1
  <2> QED BY <1>1, <2>2 DEF GetRule, Contents
<1>2. CASE ~(rowcache[r].left > 0)
  BY <1>2, TableTyped DEF GetRule, Contents
<1> QED BY <1>1, <1>2

LEMMA EditKeeps ==
  ASSUME NEW r \in Rules, NEW w \in Rows, NEW keep \in BOOLEAN
  PROVE  RuleInv /\ (CreateRule(r, w) \/ UpdateRule(r, w, keep) \/ DeleteRule(r)
                     \/ ReplaceRules([x \in Rules |-> w])) => RuleInv'
<1> SUFFICES ASSUME RuleInv, CreateRule(r, w) \/ UpdateRule(r, w, keep) \/ DeleteRule(r)
                     \/ ReplaceRules([x \in Rules |-> w]) PROVE RuleInv'
  OBVIOUS
<1>0. Table \in Contents /\ w \in StoredRows
  BY TableTyped, RowsTyped
<1>1. CASE CreateRule(r, w)
  <2>1. [Table EXCEPT ![r] = w] \in Contents
    BY <1>0 DEF Contents
  <2> QED BY <1>1, <2>1, WriteKeeps DEF CreateRule
<1>2. CASE UpdateRule(r, w, keep)
  <2>1. GetRule(r) \in StoredRows
    BY <1>2, RuleRead DEF UpdateRule
  <2>2. [GetRule(r) EXCEPT !.prio = w.prio, !.on = w.on] \in StoredRows
    BY <2>1, <1>0 DEF StoredRows
  <2>3. PICK z \in StoredRows :
          z = IF keep THEN [GetRule(r) EXCEPT !.prio = w.prio, !.on = w.on] ELSE w
    BY <2>2, <1>0
  <2>4. Write([Table EXCEPT ![r] = z], FALSE) /\ FillRow(r)
    BY <1>2, <2>3 DEF UpdateRule
  <2>5. [Table EXCEPT ![r] = z] \in Contents
    BY <1>0, <2>3 DEF Contents
  <2> QED BY <2>4, <2>5, WriteKeeps, FilledRow
<1>3. CASE DeleteRule(r)
  <2>1. [Table EXCEPT ![r] = NoRule] \in Contents
    BY <1>0 DEF Contents
  <2> QED BY <1>3, <2>1, WriteKeeps, FilledRow DEF DeleteRule
<1>4. CASE ReplaceRules([x \in Rules |-> w])
  <2>1. [x \in Rules |-> w] \in Contents
    BY <1>0 DEF Contents
  <2> QED BY <1>4, <2>1, WriteKeeps DEF ReplaceRules
<1> QED BY <1>1, <1>2, <1>3, <1>4

LEMMA EvictKeeps == RuleInv /\ (evictTenant \/ Invalidate) => RuleInv'
<1> SUFFICES ASSUME RuleInv, evictTenant \/ Invalidate PROVE RuleInv'
  OBVIOUS
<1> USE DEF RuleInv
<1>1. /\ editions' = editions /\ since' = since /\ fetch' = fetch /\ Now' = Now
      /\ lists' \in {lists, [lists EXCEPT ![AdminTenant] = NoEntry]}
      /\ redis' \in {redis, [redis EXCEPT ![AdminTenant] = NoEntry]}
      /\ engine' \in {engine, [engine EXCEPT ![AdminTenant] = NoEntry]}
      /\ rowcache' \in {rowcache, [r \in Rules |-> NoEntry]}
  BY DEF evictTenant, Invalidate, Now
<1>2. SlotTypes'
  BY <1>1, PolicyTimes DEF SlotTypes
<1>3. SlotsInv'
  <2> SUFFICES ASSUME NEW t \in Tenants
               PROVE  /\ Held(lists'[t], since, RepoTTL + DefaultTTL)
                      /\ Held(redis'[t], since, RepoTTL) /\ Held(engine'[t], since, Horizon)
    BY <1>1 DEF SlotsInv, Horizon
  <2>1. /\ lists'[t] \in {lists[t], NoEntry} /\ redis'[t] \in {redis[t], NoEntry}
        /\ engine'[t] \in {engine[t], NoEntry}
    BY <1>1 DEF SlotTypes
  <2> QED BY <2>1 DEF SlotsInv, Held
<1>4. RowsInv'
  BY <1>1 DEF RowsInv, NoEntry
<1> QED BY <1>1, <1>2, <1>3, <1>4 DEF EditionsInv, FetchInv

LEMMA RuleStep == RuleInv /\ [RuleNext]_ruleVars => RuleInv'
<1> SUFFICES ASSUME RuleInv, [RuleNext]_ruleVars PROVE RuleInv'
  OBVIOUS
<1>1. CASE PolicyTick
  BY <1>1, TickKeeps
<1>2. ASSUME NEW t \in Tenants, fetchHit(t) \/ Get(t) \/ ListRules(t) PROVE RuleInv'
  BY <1>2, HitKeeps, GetKeeps, ReadKeeps
<1>3. CASE SetLists
  BY <1>3, SetKeeps
<1>4. ASSUME NEW r \in Rules, NEW w \in Rows, NEW keep \in BOOLEAN,
             handleCreatePolicy(r, w) \/ handleUpdatePolicy(r, w, keep)
      PROVE RuleInv'
  BY <1>4, EditKeeps DEF handleCreatePolicy, handleUpdatePolicy
<1>5. ASSUME NEW r \in Rules, handleDeletePolicy(r) PROVE RuleInv'
  <2>1. [Table EXCEPT ![r] = NoRule] \in Contents
    BY TableTyped DEF Contents
  <2> QED BY <1>5, <2>1, WriteKeeps, FilledRow DEF handleDeletePolicy, DeleteRule
<1>6. ASSUME NEW w \in Rows, ReplaceRules([r \in Rules |-> w]) PROVE RuleInv'
  <2>1. [x \in Rules |-> w] \in Contents
    BY RowsTyped DEF Contents
  <2> QED BY <1>6, <2>1, WriteKeeps DEF ReplaceRules
<1>7. CASE evictTenant \/ Invalidate
  BY <1>7, EvictKeeps
<1>8. CASE UNCHANGED ruleVars
  <2>1. /\ editions' = editions /\ since' = since /\ redis' = redis /\ lists' = lists
        /\ engine' = engine /\ rowcache' = rowcache /\ Now' = Now /\ fetch' = fetch
    BY <1>8 DEF ruleVars, Now
  <2> QED BY <2>1 DEF RuleInv, EditionsInv, SlotTypes, SlotsInv, RowsInv, FetchInv, Horizon
<1> QED BY <1>1, <1>2, <1>3, <1>4, <1>5, <1>6, <1>7, <1>8 DEF RuleNext

LEMMA YoungDecisions == RuleInv => StalenessBounded
<1> SUFFICES ASSUME RuleInv, NEW t \in Tenants, engine[t] # NoEntry
             PROVE  since[engine[t].ed] <= Horizon
  BY DEF StalenessBounded
<1>1. engine[t] \in Slots /\ Held(engine[t], since, Horizon) /\ since \in Seq(Nat)
  BY DEF RuleInv, SlotTypes, SlotsInv, EditionsInv
<1>2. engine[t].left > 0
  BY <1>1 DEF Held
<1>3. Horizon \in Nat
  BY PolicyTimes
<1> QED BY <1>1, <1>2, <1>3, HeldLeft

-----------------------------------------------------------------------------
(* Decisions: the sorted listing exists, and its first match decides.       *)

LEMMA Least ==
  ASSUME NEW T \in SUBSET Nat, T # {}
  PROVE  \E m \in T : \A q \in Nat : q < m => q \notin T
<1>1. PICK m \in T : \A q \in T : ~ (<<q, m>> \in OpToRel(<, Nat))
  BY WFMin, NatLessThanWellFounded
<1>2. ASSUME NEW q \in Nat, q < m PROVE q \notin T
  <2>1. <<q, m>> \in Nat \X Nat /\ <<q, m>>[1] = q /\ <<q, m>>[2] = m
    OBVIOUS
  <2>2. <<q, m>> \in OpToRel(<, Nat)
    BY <1>2, <2>1, Zenon DEF OpToRel
  <2> QED
    BY <1>1, <2>2, Zenon
<1> QED
  BY <1>2

Listings(tbl, ids) == {s \in Bijection(1..Cardinality(ids), ids) :
  \A i, j \in DOMAIN s : i < j => tbl[s[i]].prio <= tbl[s[j]].prio}
Ranked(tbl, ids) == \A r \in ids : tbl[r].prio \in Nat

\* With an element of the lowest number in front, the listing of the rest is one of all.
LEMMA ListingGrows ==
  ASSUME NEW tbl, NEW ids, IsFiniteSet(ids), Ranked(tbl, ids), NEW r \in ids,
         \A q \in ids : tbl[r].prio <= tbl[q].prio,
         NEW s \in Listings(tbl, ids \ {r})
  PROVE  Listings(tbl, ids) # {}
<1>1. PICK n \in Nat : n = Cardinality(ids \ {r}) /\ Cardinality(ids) = n + 1
  <2>1. IsFiniteSet(ids \ {r}) /\ Cardinality(ids \ {r}) = Cardinality(ids) - 1
    BY FS_RemoveElement
  <2> QED BY <2>1, FS_CardinalityType
<1>2. /\ s \in [1..n -> ids \ {r}]
      /\ \A i, j \in 1..n : s[i] = s[j] => i = j
      /\ \A q \in ids \ {r} : \E i \in 1..n : s[i] = q
  BY <1>1 DEF Listings, Bijection, Injection, Surjection, IsInjective
<1>3. \A i, j \in 1..n : i < j => tbl[s[i]].prio <= tbl[s[j]].prio
  BY <1>2 DEF Listings
<1> DEFINE z == [i \in 1..(n + 1) |-> IF i = 1 THEN r ELSE s[i - 1]]
<1>4. z[1] = r /\ \A i \in 2..(n + 1) : i - 1 \in 1..n /\ z[i] = s[i - 1] /\ z[i] \in ids \ {r}
  BY <1>2
<1>5. z \in [1..(n + 1) -> ids]
  BY SMTT(30), <1>4
<1>6. \A i, j \in 1..(n + 1) : z[i] = z[j] => i = j
  <2> SUFFICES ASSUME NEW i \in 1..(n + 1), NEW j \in 1..(n + 1), z[i] = z[j] PROVE i = j
    OBVIOUS
  <2> HIDE DEF z
  <2>1. CASE i = 1 \/ j = 1
    <3>1. \A k \in 2..(n + 1) : z[k] # r
      BY <1>4
    <3> QED BY <2>1, <3>1, <1>4
  <2>2. CASE i # 1 /\ j # 1
    <3>1. s[i - 1] = s[j - 1] /\ i - 1 \in 1..n /\ j - 1 \in 1..n
      BY <2>2, <1>4
    <3>2. i - 1 = j - 1
      BY <3>1, <1>2
    <3> QED BY <3>2
  <2> QED BY <2>1, <2>2
<1>7. \A q \in ids : \E i \in 1..(n + 1) : z[i] = q
  <2> SUFFICES ASSUME NEW q \in ids PROVE \E i \in 1..(n + 1) : z[i] = q
    OBVIOUS
  <2> HIDE DEF z
  <2>1. CASE q = r
    BY <2>1, <1>4
  <2>2. CASE q # r
    <3>1. PICK i \in 1..n : s[i] = q
      BY <2>2, <1>2
    <3>2. i + 1 \in 2..(n + 1) /\ (i + 1) - 1 = i
      OBVIOUS
    <3> QED BY <3>1, <3>2, <1>4
  <2> QED BY <2>1, <2>2
<1>8. \A i, j \in 1..(n + 1) : i < j => tbl[z[i]].prio <= tbl[z[j]].prio
  <2> SUFFICES ASSUME NEW i \in 1..(n + 1), NEW j \in 1..(n + 1), i < j
               PROVE  tbl[z[i]].prio <= tbl[z[j]].prio
    OBVIOUS
  <2> HIDE DEF z
  <2>1. CASE i = 1
    BY <2>1, <1>4, <1>5
  <2>2. CASE i # 1
    <3>1. i - 1 \in 1..n /\ j - 1 \in 1..n /\ i - 1 < j - 1 /\ z[i] = s[i - 1] /\ z[j] = s[j - 1]
      BY <2>2, <1>4
    <3> QED BY <3>1, <1>3
  <2> QED BY <2>1, <2>2
<1>9. z \in Bijection(1..Cardinality(ids), ids)
  <2> HIDE DEF z
  <2> QED BY <1>1, <1>5, <1>6, <1>7 DEF Bijection, Injection, Surjection, IsInjective
<1>10. z \in Listings(tbl, ids)
  <2> HIDE DEF z
  <2> QED BY <1>5, <1>8, <1>9 DEF Listings
<1> QED BY <1>10

LEMMA ListingExists ==
  ASSUME NEW tbl, NEW ids, IsFiniteSet(ids), Ranked(tbl, ids)
  PROVE  Listings(tbl, ids) # {}
<1> DEFINE Bad == {n \in Nat : \E S \in SUBSET ids : Cardinality(S) = n /\ Listings(tbl, S) = {}}
<1>0. \A S \in SUBSET ids : IsFiniteSet(S) /\ Cardinality(S) \in Nat /\ Ranked(tbl, S)
  BY FS_Subset, FS_CardinalityType DEF Ranked
<1>1. SUFFICES ASSUME Listings(tbl, ids) = {} PROVE FALSE
  OBVIOUS
<1>2. Cardinality(ids) \in Bad
  BY <1>0, <1>1
<1>3. PICK m \in Bad : \A q \in Nat : q < m => q \notin Bad
  BY <1>2, Least
<1>4. PICK S \in SUBSET ids : Cardinality(S) = m /\ Listings(tbl, S) = {}
  OBVIOUS
<1>5. CASE S = {}
  <2>1. Cardinality(S) = 0 /\ 1..0 = {}
    BY <1>5, FS_EmptySet
  <2>2. [i \in {} |-> i] \in Bijection({}, {})
    BY DEF Bijection, Injection, Surjection, IsInjective
  <2>3. [i \in {} |-> i] \in Listings(tbl, S)
    BY <1>5, <2>1, <2>2 DEF Listings
  <2> QED BY <2>3, <1>4
<1>6. CASE S # {}
  <2> DEFINE T == {tbl[x].prio : x \in S}
  <2>1. T \in SUBSET Nat /\ T # {}
    BY <1>6, <1>0 DEF Ranked
  <2>2. PICK p \in T : \A q \in Nat : q < p => q \notin T
    BY <2>1, Least
  <2>3. PICK r \in S : tbl[r].prio = p
    OBVIOUS
  <2>4. \A q \in S : tbl[r].prio <= tbl[q].prio
    <3> SUFFICES ASSUME NEW q \in S PROVE p <= tbl[q].prio
      BY <2>3
    <3>1. tbl[q].prio \in T /\ tbl[q].prio \in Nat /\ p \in Nat
      BY <2>1
    <3> QED BY <3>1, <2>2
  <2>5. Cardinality(S \ {r}) \in Nat /\ Cardinality(S \ {r}) < m
    BY <1>0, <1>4, FS_RemoveElement
  <2>6. Listings(tbl, S \ {r}) # {}
    BY <2>5, <1>3
  <2> HIDE DEF T
  <2> QED BY <2>4, <2>6, <1>0, <1>4, ListingGrows
<1> QED BY <1>5, <1>6

LEMMA SortedListing ==
  ASSUME NEW tbl, NEW ids, IsFiniteSet(ids), Ranked(tbl, ids)
  PROVE  sortRules(tbl, ids) \in Listings(tbl, ids)
<1>1. \E s \in Bijection(1..Cardinality(ids), ids) :
        \A i, j \in DOMAIN s : i < j => tbl[s[i]].prio <= tbl[s[j]].prio
  BY ListingExists DEF Listings
<1>2. /\ sortRules(tbl, ids) \in Bijection(1..Cardinality(ids), ids)
      /\ \A i, j \in DOMAIN sortRules(tbl, ids) : i < j =>
           tbl[sortRules(tbl, ids)[i]].prio <= tbl[sortRules(tbl, ids)[j]].prio
  BY <1>1, Zenon DEF sortRules
<1> QED BY <1>2 DEF Listings

LEMMA WrapMod ==
  ASSUME NEW x \in Nat, NEW n \in Nat, x < n
  PROVE  x % n = x /\ (x + n) % n = x
OBVIOUS

\* A range of the day, over midnight or not, is an arc of the clock.
LEMMA ArcOfTheDay ==
  ASSUME NEW t \in 0..(Day - 1), NEW a \in 0..(Day - 1), NEW b \in 0..(Day - 1)
  PROVE  withinTimeRange(t, a, b) <=> (t - a + Day) % Day < (b - a + Day) % Day
<1>0. Day \in Nat \ {0}
  BY PolicyAssumption
<1>1. \A x \in 0..(Day - 1) : (x - a + Day) % Day = IF x < a THEN x - a + Day ELSE x - a
  <2> TAKE x \in 0..(Day - 1)
  <2>1. CASE x < a
    <3>1. x - a + Day \in Nat /\ x - a + Day < Day
      BY <2>1, <1>0
    <3> QED BY <3>1, <2>1, <1>0, WrapMod
  <2>2. CASE ~(x < a)
    <3>1. x - a \in Nat /\ x - a < Day
      BY <2>2, <1>0
    <3> QED BY <3>1, <2>2, <1>0, WrapMod
  <2> QED BY <2>1, <2>2
<1> QED BY <1>0, <1>1 DEF withinTimeRange, Comparable

LEMMA Decided == RuleInv => DecisionSound
<1> SUFFICES ASSUME RuleInv PROVE DecisionSound
  OBVIOUS
<1> DEFINE InRange(t, from, to) == (t - from + Day) % Day < (to - from + Day) % Day
           Match(w, i) == (w.fact = "any" \/ w.fact \in i.facts) /\ InRange(i.time, w.from, w.to)
<1> SUFFICES ASSUME NEW fs \in {{}, {"phone"}}, NEW t \in 0..(Day - 1)
             PROVE  LET i == [facts |-> fs, time |-> t]
                        M == {r \in Enabled(Table) : Match(Table[r], i)}
                        d == Evaluate(Table, i)
                    IN IF M = {} THEN d = NoRule
                       ELSE \E r \in M : Table[r].act = d /\ \A q \in M : Table[r].prio <= Table[q].prio
  BY DEF DecisionSound
<1> DEFINE i == [facts |-> fs, time |-> t]
           ids == Enabled(Table)
           M == {r \in ids : Match(Table[r], i)}
           list == sortRules(Table, ids)
           hits == {k \in DOMAIN list : matchRule(Table[list[k]], i)}
           first == CHOOSE k \in hits : \A j \in hits : k <= j
<1> SUFFICES IF M = {} THEN Evaluate(Table, i) = NoRule
             ELSE \E r \in M : Table[r].act = Evaluate(Table, i)
                               /\ \A q \in M : Table[r].prio <= Table[q].prio
  BY Zenon
<1>1. ids \subseteq Rules /\ IsFiniteSet(ids) /\ \A r \in ids : Table[r] \in StoredRows
  BY TableTyped, PolicyAssumption, FS_Subset DEF Enabled, Contents
<1>2. list \in Listings(Table, ids)
  BY <1>1, SortedListing DEF Ranked, StoredRows
<1>3. PICK n \in Nat : n = Cardinality(ids)
  BY <1>1, FS_CardinalityType
<1>4. /\ list \in [1..n -> ids] /\ \A r \in ids : \E k \in 1..n : list[k] = r
      /\ \A k, j \in 1..n : k < j => Table[list[k]].prio <= Table[list[j]].prio
  <2> HIDE DEF list, ids
  <2> QED BY <1>2, <1>3 DEF Listings, Bijection, Injection, Surjection
<1>5. \A r \in ids : matchRule(Table[r], i) <=> Match(Table[r], i)
  <2> TAKE r \in ids
  <2>1. Table[r].from \in 0..(Day - 1) /\ Table[r].to \in 0..(Day - 1)
    BY <1>1 DEF StoredRows
  <2> HIDE DEF ids
  <2> QED BY <2>1, ArcOfTheDay DEF matchRule, matchCondition
<1>6. Evaluate(Table, i) = IF hits = {} THEN NoRule ELSE Table[list[first]].act
  BY DEF Evaluate
<1> HIDE DEF list, ids
<1>7. \A k \in 1..n : k \in hits <=> list[k] \in M
  BY <1>4, <1>5
<1>8. CASE M = {}
  <2>1. hits = {}
    BY <1>4, <1>7, <1>8
  <2> QED BY <2>1, <1>6, <1>8
<1>9. CASE M # {}
  <2>1. hits # {} /\ hits \in SUBSET (1..n)
    BY <1>4, <1>7, <1>9
  <2>2. hits \in SUBSET Nat
    BY <2>1
  <2> HIDE DEF hits, M
  <2>3. PICK k \in hits : \A q \in Nat : q < k => q \notin hits
    BY <2>1, <2>2, Least
  <2>4. \A j \in hits : k <= j
    BY <2>2, <2>3
  <2>5. first \in hits /\ \A j \in hits : first <= j
    BY <2>4
  <2> HIDE DEF first
  <2>6. first \in 1..n /\ list[first] \in M
    BY <2>1, <2>5, <1>7
  <2>7. \A q \in M : Table[list[first]].prio <= Table[q].prio
    <3> TAKE q \in M
    <3>1. q \in ids /\ list[first] \in ids
      BY <2>6 DEF M
    <3>2. PICK j \in 1..n : list[j] = q
      BY <1>4, <3>1
    <3>3. j \in hits /\ first <= j
      BY <3>2, <1>7, <2>5
    <3>4. first = j \/ first < j
      BY <3>3, <2>6
    <3>5. Table[q].prio \in Nat
      BY <3>1, <1>1 DEF StoredRows
    <3> QED BY <3>2, <3>4, <3>5, <2>6, <1>4
  <2> QED BY <2>1, <2>6, <2>7, <1>6, <1>9
<1> QED BY <1>8, <1>9

-----------------------------------------------------------------------------
(* Versions: from the step that installs a draft's rules, what a            *)
(* publication carries was live.                                            *)

Works ==
  [pc : {"replace", "number", "record", "close", "publish"}, d : Drafts, rules : Rows, n : Nat]
DraftRows == [status : {"draft", "published"}, rules : Rows, name : Drafts \cup Nat]

PublishInv ==
  /\ drafts \in [Drafts -> DraftRows \cup {NoRule}]
  /\ versions \in Seq(Rows) /\ VersionWasLive
  /\ work \in [Publishers -> Works \cup {NoRule}]
  /\ \A p \in Publishers :
       work[p] # NoRule /\ work[p].pc \in {"number", "record", "close"} => work[p].rules \in lived

\* One publication moves; what was live stays so.
LEMMA WorkMoves ==
  ASSUME PublishInv, NEW p \in Publishers, NEW w \in Works \cup {NoRule}, GoTo(p, w),
         drafts' \in [Drafts -> DraftRows \cup {NoRule}], versions' \in Seq(Rows),
         VersionWasLive', lived \subseteq lived',
         w # NoRule /\ w.pc \in {"number", "record", "close"} => w.rules \in lived'
  PROVE  PublishInv'
<1>1. work' = [work EXCEPT ![p] = w] /\ work \in [Publishers -> Works \cup {NoRule}]
  BY DEF GoTo, PublishInv
<1>2. work' \in [Publishers -> Works \cup {NoRule}]
  BY <1>1
<1>3. ASSUME NEW q \in Publishers, work'[q] # NoRule,
             work'[q].pc \in {"number", "record", "close"}
      PROVE  work'[q].rules \in lived'
  <2>1. CASE q = p
    BY <2>1, <1>1, <1>3
  <2>2. CASE q # p
    BY <2>2, <1>1, <1>3 DEF PublishInv
  <2> QED BY <2>1, <2>2
<1> QED BY <1>2, <1>3 DEF PublishInv

LEMMA DraftStep ==
  ASSUME PublishInv, UNCHANGED <<versions, lived, work>>,
         drafts' \in [Drafts -> DraftRows \cup {NoRule}]
  PROVE  PublishInv'
<1>1. versions' = versions /\ lived' = lived /\ work' = work
  OBVIOUS
<1> QED BY <1>1 DEF PublishInv, VersionWasLive

LEMMA Created ==
  ASSUME PublishInv, NEW d \in Drafts, NEW w \in Rows, NEW name \in Drafts \cup Nat,
         CreateDraft(d, w, name)
  PROVE  drafts' \in [Drafts -> DraftRows \cup {NoRule}]
<1>1. [status |-> "draft", rules |-> w, name |-> name] \in DraftRows
  BY DEF DraftRows
<1> QED BY <1>1 DEF CreateDraft, PublishInv

LEMMA PublishStarts ==
  ASSUME NEW p \in Publishers, NEW d \in Drafts
  PROVE  PublishInv /\ PublishDraft(p, d) => PublishInv'
<1> SUFFICES ASSUME PublishInv, PublishDraft(p, d) PROVE PublishInv'
  OBVIOUS
<1> DEFINE w == [pc |-> "replace", d |-> d, rules |-> drafts[d].rules, n |-> 0]
<1>1. GoTo(p, w) /\ drafts[d] # NoRule /\ drafts' = drafts /\ versions' = versions /\ lived' = lived
  BY DEF PublishDraft
<1>2. drafts[d] \in DraftRows
  BY <1>1 DEF PublishInv
<1>3. w \in Works /\ w.pc = "replace"
  BY <1>2 DEF Works, DraftRows
<1> HIDE DEF w
<1> QED BY <1>1, <1>3, WorkMoves DEF PublishInv, VersionWasLive

LEMMA WorkStep ==
  ASSUME NEW p \in Publishers
  PROVE  PublishInv /\ (PublishRollback(p) \/ Install(p) \/ LatestVersionNumber(p)
                        \/ InsertVersion(p) \/ CloseDraft(p) \/ Fail(p)) => PublishInv'
<1> SUFFICES ASSUME PublishInv, PublishRollback(p) \/ Install(p) \/ LatestVersionNumber(p)
                        \/ InsertVersion(p) \/ CloseDraft(p) \/ Fail(p) PROVE PublishInv'
  OBVIOUS
<1>0. work[p] # NoRule /\ work[p] \in Works
  BY DEF PublishInv, PublishRollback, Install, LatestVersionNumber, InsertVersion, CloseDraft, Fail
<1>1. CASE PublishRollback(p)
  <2>1. work[p].d \in Drafts
    BY <1>0 DEF Works
  <2> QED BY <1>1, <2>1, PublishStarts DEF PublishRollback
<1>2. CASE Install(p)
  <2>1. PICK w \in Works : w = [work[p] EXCEPT !.pc = "number"]
    BY <1>0 DEF Works
  <2>2. /\ GoTo(p, w) /\ lived' = lived \cup {work[p].rules} /\ w.rules = work[p].rules
        /\ drafts' = drafts /\ versions' = versions
    BY <1>2, <1>0, <2>1 DEF Install, Works
  <2> QED BY <2>2, WorkMoves DEF PublishInv, VersionWasLive
<1>3. CASE LatestVersionNumber(p)
  <2>1. PICK w \in Works : w = [work[p] EXCEPT !.pc = "record", !.n = Len(versions) + 1]
    <3>1. Len(versions) + 1 \in Nat
      BY DEF PublishInv
    <3>2. [work[p] EXCEPT !.pc = "record", !.n = Len(versions) + 1] \in Works
      BY <1>0, <3>1 DEF Works
    <3> QED BY <3>2
  <2>2. /\ GoTo(p, w) /\ w.rules = work[p].rules /\ work[p].pc = "number"
        /\ lived' = lived /\ drafts' = drafts /\ versions' = versions
    BY <1>3, <1>0, <2>1 DEF LatestVersionNumber, Works
  <2> QED BY <2>2, <1>0, WorkMoves DEF PublishInv, VersionWasLive
<1>4. CASE InsertVersion(p)
  <2>1. PICK w \in Works : w = [work[p] EXCEPT !.pc = "close"]
    BY <1>0 DEF Works
  <2>2. /\ GoTo(p, w) /\ w.rules = work[p].rules /\ work[p].pc = "record"
        /\ lived' = lived /\ drafts' = drafts /\ versions' = Append(versions, work[p].rules)
    BY <1>4, <1>0, <2>1 DEF InsertVersion, Works
  <2>3. work[p].rules \in lived /\ work[p].rules \in Rows
    BY <2>2, <1>0 DEF PublishInv, Works
  <2>4. versions' \in Seq(Rows) /\ VersionWasLive'
    BY <2>2, <2>3 DEF PublishInv, VersionWasLive
  <2> QED BY <2>2, <2>3, <2>4, WorkMoves DEF PublishInv
<1>5. CASE CloseDraft(p)
  <2>1. drafts' \in [Drafts -> DraftRows \cup {NoRule}]
    BY <1>5, <1>0 DEF CloseDraft, PublishInv, DraftRows, Works
  <2>2. GoTo(p, NoRule) /\ versions' = versions /\ lived' = lived
    BY <1>5 DEF CloseDraft
  <2> QED BY <2>1, <2>2, WorkMoves DEF PublishInv, VersionWasLive
<1>6. CASE Fail(p)
  <2>1. GoTo(p, NoRule) /\ versions' = versions /\ lived' = lived /\ drafts' = drafts
    BY <1>6 DEF Fail
  <2> QED BY <2>1, WorkMoves DEF PublishInv, VersionWasLive
<1> QED BY <1>1, <1>2, <1>3, <1>4, <1>5, <1>6

LEMMA RollbackStarts ==
  ASSUME NEW p \in Publishers, NEW n \in 1..MaxVersion, NEW d \in Drafts
  PROVE  PublishInv /\ RollbackVersion(p, n, d) => PublishInv'
<1> SUFFICES ASSUME PublishInv, RollbackVersion(p, n, d) PROVE PublishInv'
  OBVIOUS
<1> DEFINE w == [pc |-> "publish", d |-> d, rules |-> versions[n], n |-> n]
<1>1. /\ GoTo(p, w) /\ CreateDraft(d, versions[n], n) /\ n \in 1..Len(versions)
      /\ versions' = versions /\ lived' = lived
  BY DEF RollbackVersion
<1>2. versions[n] \in Rows /\ n \in Nat
  BY <1>1 DEF PublishInv
<1>3. w \in Works /\ w.pc = "publish"
  BY <1>2 DEF Works
<1>4. drafts' \in [Drafts -> DraftRows \cup {NoRule}]
  BY <1>1, <1>2, Created
<1> HIDE DEF w
<1> QED BY <1>1, <1>3, <1>4, WorkMoves DEF PublishInv, VersionWasLive

LEMMA PublishStep == PublishInv /\ [PublishNext]_publishVars => PublishInv'
<1> SUFFICES ASSUME PublishInv, [PublishNext]_publishVars PROVE PublishInv'
  OBVIOUS
<1>1. ASSUME NEW d \in Drafts, NEW w \in Rows, handleCreatePolicyDraft(d, w) PROVE PublishInv'
  <2>1. CreateDraft(d, w, d) /\ UNCHANGED <<versions, lived, work>>
    BY <1>1 DEF handleCreatePolicyDraft
  <2>2. drafts' \in [Drafts -> DraftRows \cup {NoRule}]
    BY <2>1, Created
  <2> QED BY <2>1, <2>2, DraftStep
<1>2. ASSUME NEW d \in Drafts, NEW w \in Rows, NEW st \in {"draft", "published"},
             handleUpdatePolicyDraft(d, w, st)
      PROVE PublishInv'
  <2>1. drafts' \in [Drafts -> DraftRows \cup {NoRule}]
    <3>1. drafts[d] \in DraftRows
      BY <1>2 DEF handleUpdatePolicyDraft, UpdateDraft, PublishInv
    <3>2. PICK z \in DraftRows : z = [drafts[d] EXCEPT !.rules = w, !.status = st]
      BY <3>1 DEF DraftRows
    <3>3. drafts' = [drafts EXCEPT ![d] = z]
      BY <1>2, <3>2 DEF handleUpdatePolicyDraft, UpdateDraft, PublishInv, DraftRows
    <3> QED BY <3>3 DEF PublishInv
  <2> QED BY <1>2, <2>1, DraftStep DEF handleUpdatePolicyDraft, UpdateDraft
<1>3. ASSUME NEW d \in Drafts, handleDeletePolicyDraft(d) PROVE PublishInv'
  BY <1>3, DraftStep DEF handleDeletePolicyDraft, DeleteDraft, PublishInv
<1>4. ASSUME NEW p \in Publishers, NEW d \in Drafts, handlePublishPolicyDraft(p, d) PROVE PublishInv'
  BY <1>4, PublishStarts DEF handlePublishPolicyDraft
<1>5. ASSUME NEW p \in Publishers, NEW n \in 1..MaxVersion, NEW d \in Drafts,
             handleRollbackPolicyVersion(p, n, d)
      PROVE PublishInv'
  BY <1>5, RollbackStarts DEF handleRollbackPolicyVersion
<1>6. ASSUME NEW p \in Publishers,
             PublishRollback(p) \/ Install(p) \/ LatestVersionNumber(p)
             \/ InsertVersion(p) \/ CloseDraft(p) \/ Fail(p)
      PROVE PublishInv'
  BY <1>6, WorkStep
<1>7. CASE UNCHANGED publishVars
  BY <1>7 DEF publishVars, PublishInv, VersionWasLive
<1> QED BY <1>1, <1>2, <1>3, <1>4, <1>5, <1>6, <1>7 DEF PublishNext

LEMMA PublishInitial == PublishInit => PublishInv
BY DEF PublishInit, PublishInv, VersionWasLive

(* The rules that decide: every packet is decided by a list the table held within
   the three cache times, by the matching rule of the lowest number, and every
   recorded version was live, for any rules, tenants, publishers, drafts, edits and
   cache times (policy/engine.go fetchRules, Evaluate; policy/repository.go;
   policy/service.go PublishDraft, RollbackVersion). *)
THEOREM PoliciesSound == PolicySpec => []PolicySound
<1>1. RuleInit /\ PublishInit => RuleInv /\ PublishInv
  BY RuleInitial, PublishInitial
<1>2. /\ RuleInv /\ PublishInv
      /\ [ \/ RuleNext /\ UNCHANGED publishVars
           \/ PublishNext /\ UNCHANGED ruleVars ]_PolicyVars
      => RuleInv' /\ PublishInv'
  <2> SUFFICES ASSUME RuleInv, PublishInv,
                      \/ RuleNext /\ UNCHANGED publishVars
                      \/ PublishNext /\ UNCHANGED ruleVars
                      \/ UNCHANGED <<ruleVars, publishVars>>
               PROVE  RuleInv' /\ PublishInv'
    BY DEF PolicyVars
  <2>1. [RuleNext]_ruleVars /\ [PublishNext]_publishVars
    OBVIOUS
  <2> QED BY <2>1, RuleStep, PublishStep
<1>3. RuleInv /\ PublishInv => PolicySound
  BY YoungDecisions, Decided DEF PolicySound, PublishInv
<1> QED BY <1>1, <1>2, <1>3, PTL DEF PolicySpec
-----------------------------------------------------------------------------
(* Active leases in Redis.  The invariant of one worker: the types, what    *)
(* every lease object has in the indexes, what the indexes name, what a     *)
(* call under way may rely on, and what an acknowledged end has left.       *)

PendingCalls == [pc : {"get", "exec", "probe", "archive"}, id : Ids, lease : Leases,
                 prev : IndexEntries \cup {None}]

ActiveTypes ==
  /\ obj \in [Ids -> StoredObjects \cup {None}]
  /\ idx \in [Ids -> IndexEntries \cup {None}]
  /\ pool \in [StoreAddrs -> Nat]
  /\ tag \in [Tags -> [Ids -> Nat]]
  /\ expiry \in [Ids -> Nat]
  /\ history \in [Ids -> HistoryRows \cup {None}]
  /\ clock \in Nat
  /\ call \in [StoreWorkers -> PendingCalls \cup {Ready}]
  /\ ended \subseteq [id : Ids, lease : Leases]

\* Object o of lease id i, its index entry, and its scores.
IndexedAs(i, l) ==
  /\ l.state = "ACTIVE" /\ l.exp > clock /\ history[i] = None
  /\ idx[i] = [addr |-> l.addr, tags |-> l.tags]
  /\ pool[l.addr] = l.exp
  /\ \A t \in Tags : IF t \in l.tags THEN tag[t][i] = l.exp ELSE tag[t][i] <= clock

ObjectsIndexed ==
  \A i \in Ids : obj[i] # None
    => obj[i].until = obj[i].lease.exp /\ IndexedAs(i, obj[i].lease)

Holds(i, a) == obj[i] # None /\ obj[i].lease.addr = a

OneHolder == \A i, j \in Ids, a \in StoreAddrs : Holds(i, a) /\ Holds(j, a) => i = j

IndexesBacked ==
  /\ \A a \in StoreAddrs : pool[a] > clock => \E i \in Ids : Holds(i, a)
  /\ \A t \in Tags, i \in Ids : tag[t][i] > clock => obj[i] # None

WriteSound(c) ==
  /\ \A j \in Ids : Holds(j, c.lease.addr) => j = c.id
  /\ idx[c.id] # None => idx[c.id].addr = c.lease.addr

CallSound(c) ==
  /\ c.pc # "idle" => history[c.id] = None
  /\ c.pc \in {"get", "exec"} /\ c.lease.state = "ACTIVE" => c.lease.exp > clock
  /\ c.pc \in {"get", "exec", "probe"} => WriteSound(c)
  /\ c.pc = "exec" => c.prev = idx[c.id]
  /\ c.pc = "archive" => c.lease.state # "ACTIVE" /\ obj[c.id] = None

CallsSound == \A w \in StoreWorkers : CallSound(call[w])

EndsSound ==
  \A e \in ended :
    e.lease.state # "ACTIVE" /\ obj[e.id] = None /\ history[e.id] = Row(e.lease)

ActiveInv == /\ ActiveTypes /\ ObjectsIndexed /\ OneHolder /\ IndexesBacked
             /\ CallsSound /\ EndsSound

OneWorker == \A v, w \in StoreWorkers : v = w

StoreSafe == ObjectsIndexed /\ OneHolder /\ IndexesBacked /\ EndsSound

StoreTypes ==
  /\ obj \in [Ids -> StoredObjects \cup {None}]
  /\ idx \in [Ids -> IndexEntries \cup {None}]
  /\ pool \in [StoreAddrs -> Nat]
  /\ tag \in [Tags -> [Ids -> Nat]]
  /\ expiry \in [Ids -> Nat]
  /\ history \in [Ids -> HistoryRows \cup {None}]
  /\ clock \in Nat
  /\ ended \subseteq [id : Ids, lease : Leases]

\* What is stored is typed, and what is not there is told from it.
LEMMA StoredShape ==
  ASSUME ActiveTypes, NEW i \in Ids
  PROVE  /\ i # None
         /\ obj[i] # None => /\ obj[i] \in StoredObjects /\ obj[i].lease \in Leases
                             /\ obj[i].lease.addr \in StoreAddrs
                             /\ obj[i].lease.exp \in Nat /\ obj[i].until \in Nat
                             /\ obj[i].lease.tags \subseteq Tags
                             /\ obj[i].lease.state \in LeaseStates
         /\ idx[i] # None => /\ idx[i] \in IndexEntries /\ idx[i].addr \in StoreAddrs
                             /\ idx[i].tags \subseteq Tags
<1>1. i # None
  BY ActiveStoreAssumption
<1>2. ASSUME obj[i] # None
      PROVE  /\ obj[i] \in StoredObjects /\ obj[i].lease \in Leases
             /\ obj[i].lease.addr \in StoreAddrs
             /\ obj[i].lease.exp \in Nat /\ obj[i].until \in Nat
             /\ obj[i].lease.tags \subseteq Tags
             /\ obj[i].lease.state \in LeaseStates
  <2>1. obj[i] \in StoredObjects
    BY <1>2 DEF ActiveTypes
  <2>2. obj[i].lease \in Leases /\ obj[i].until \in Nat
    BY <2>1 DEF StoredObjects
  <2> QED BY <2>1, <2>2 DEF Leases
<1>3. ASSUME idx[i] # None
      PROVE  idx[i] \in IndexEntries /\ idx[i].addr \in StoreAddrs /\ idx[i].tags \subseteq Tags
  <2>1. idx[i] \in IndexEntries
    BY <1>3 DEF ActiveTypes
  <2> QED BY <2>1 DEF IndexEntries
<1> QED BY <1>1, <1>2, <1>3

\* A lease read as active by one of its tags has its object.
LEMMA FirstLease ==
  ASSUME ActiveTypes, StoreSafe, NEW t \in Tags
  PROVE  /\ Cleaned(t) = ZRemRangeByScore(tag[t])
         /\ GetActiveLease(t) # None => /\ GetActiveLease(t) \in Ids
                                        /\ obj[GetActiveLease(t)] # None
<1> DEFINE ids == ZMembers(tag[t])
           low == {tag[t][i] : i \in ids}
<1>1. tag[t] \in [Ids -> Nat] /\ ids \subseteq Ids
  BY DEF ActiveTypes, ZMembers
<1>2. \A i \in ids : obj[i] # None /\ i # None
  BY <1>1, StoredShape DEF StoreSafe, IndexesBacked, ZMembers
<1>3. CASE ids = {}
  <2>1. FirstOf(t) = None
    BY <1>3 DEF FirstOf
  <2> QED BY <2>1 DEF Cleaned, GetActiveLease
<1>4. CASE ids # {}
  <2>1. low \in SUBSET Nat /\ low # {}
    BY <1>1, <1>4
  <2>2. PICK m \in low : \A q \in Nat : q < m => q \notin low
    BY <2>1, Least
  <2>3. PICK i \in ids : tag[t][i] = m
    OBVIOUS
  <2>4. \A j \in ids : tag[t][i] <= tag[t][j]
    <3> SUFFICES ASSUME NEW j \in ids PROVE m <= tag[t][j]
      BY <2>3
    <3>1. tag[t][j] \in low /\ tag[t][j] \in Nat /\ m \in Nat
      BY <2>1, <2>2
    <3> QED BY <3>1, <2>2
  <2>5. FirstOf(t) \in ids
    BY <2>4, <1>4 DEF FirstOf
  <2>6. FirstOf(t) # None /\ obj[FirstOf(t)] # None
    BY <2>5, <1>2
  <2>7. GetActiveLease(t) = FirstOf(t)
    BY <2>6 DEF GetActiveLease
  <2> QED BY <2>5, <2>6, <2>7, <1>1 DEF Cleaned
<1> QED BY <1>3, <1>4

\* Purging a sorted set of what has expired changes nothing that is relied on.
LEMMA PurgeKeeps ==
  ASSUME ActiveTypes, StoreSafe, NEW t \in Tags,
         tag' = [tag EXCEPT ![t] = ZRemRangeByScore(tag[t])],
         pool' = pool \/ pool' = ZRemRangeByScore(pool),
         UNCHANGED <<obj, idx, expiry, history, clock, ended>>
  PROVE  StoreTypes' /\ StoreSafe'
<1>1. /\ tag' \in [Tags -> [Ids -> Nat]]
      /\ \A u \in Tags, i \in Ids :
           tag'[u][i] = tag[u][i] \/ (tag'[u][i] = 0 /\ tag[u][i] <= clock)
  BY DEF ActiveTypes, ZRemRangeByScore
<1>2. /\ pool' \in [StoreAddrs -> Nat]
      /\ \A a \in StoreAddrs : pool'[a] = pool[a] \/ (pool'[a] = 0 /\ pool[a] <= clock)
  BY DEF ActiveTypes, ZRemRangeByScore
<1>3. StoreTypes'
  BY <1>1, <1>2 DEF ActiveTypes, StoreTypes
<1>4. ObjectsIndexed'
  <2> SUFFICES ASSUME NEW i \in Ids, obj[i] # None
               PROVE  obj[i].until = obj[i].lease.exp /\ IndexedAs(i, obj[i].lease)'
    BY DEF ObjectsIndexed, IndexedAs
  <2> DEFINE l == obj[i].lease
  <2>1. obj[i].until = l.exp /\ IndexedAs(i, l)
    BY DEF StoreSafe, ObjectsIndexed
  <2>2. l.addr \in StoreAddrs /\ l.exp \in Nat /\ clock \in Nat
    BY StoredShape DEF ActiveTypes
  <2>3. pool'[l.addr] = l.exp
    BY <2>1, <2>2, <1>2 DEF IndexedAs
  <2>4. \A u \in Tags : IF u \in l.tags THEN tag'[u][i] = l.exp ELSE tag'[u][i] <= clock
    BY <2>1, <2>2, <1>1 DEF IndexedAs
  <2> QED BY <2>1, <2>3, <2>4 DEF IndexedAs
<1>5. OneHolder'
  BY DEF StoreSafe, OneHolder, Holds
<1>6. IndexesBacked'
  <2>1. clock \in Nat
    BY DEF ActiveTypes
  <2>2. ASSUME NEW a \in StoreAddrs, pool'[a] > clock PROVE \E i \in Ids : Holds(i, a)
    BY <2>1, <2>2, <1>2 DEF StoreSafe, IndexesBacked
  <2>3. ASSUME NEW u \in Tags, NEW i \in Ids, tag'[u][i] > clock PROVE obj[i] # None
    BY <2>1, <2>3, <1>1 DEF StoreSafe, IndexesBacked
  <2> QED BY <2>2, <2>3 DEF IndexesBacked, Holds
<1>7. EndsSound'
  BY DEF StoreSafe, EndsSound, Row
<1> QED BY <1>3, <1>4, <1>5, <1>6, <1>7 DEF StoreSafe

\* With one worker, what holds of the call it makes holds of every call.
LEMMA OneCall ==
  ASSUME ActiveTypes, OneWorker, NEW w \in StoreWorkers,
         NEW c \in PendingCalls \cup {Ready}, Step(w, c),
         StoreTypes', StoreSafe',
         c.pc # "idle" =>
           /\ history'[c.id] = None
           /\ c.pc \in {"get", "exec"} /\ c.lease.state = "ACTIVE" => c.lease.exp > clock'
           /\ c.pc \in {"get", "exec", "probe"} =>
                /\ \A j \in Ids : obj'[j] # None /\ obj'[j].lease.addr = c.lease.addr
                     => j = c.id
                /\ idx'[c.id] # None => idx'[c.id].addr = c.lease.addr
           /\ c.pc = "exec" => c.prev = idx'[c.id]
           /\ c.pc = "archive" => c.lease.state # "ACTIVE" /\ obj'[c.id] = None
  PROVE  ActiveInv'
<1>1. call' \in [StoreWorkers -> PendingCalls \cup {Ready}] /\ \A v \in StoreWorkers : call'[v] = c
  BY DEF Step, OneWorker, ActiveTypes
<1>2. ActiveTypes'
  BY <1>1 DEF ActiveTypes, StoreTypes, PendingCalls, Ready
<1>3. CallsSound'
  BY <1>1 DEF CallsSound, CallSound, WriteSound, Holds
<1> QED BY <1>2, <1>3 DEF ActiveInv, StoreSafe

LEMMA InvParts ==
  ASSUME ActiveInv
  PROVE  ActiveTypes /\ StoreSafe /\ StoreTypes /\ CallsSound
BY DEF ActiveInv, ActiveTypes, StoreSafe, StoreTypes

LEMMA AllocateKeeps ==
  ASSUME ActiveInv, OneWorker, NEW w \in StoreWorkers, NEW t \in Clients,
         NEW d \in Tags \ Clients, Allocate(w, t, d)
  PROVE  ActiveInv'
<1> USE InvParts
<1>0. t \in Tags /\ d \in Tags /\ LeaseTime \in Nat /\ LeaseTime > 0 /\ clock \in Nat
  BY ActiveStoreAssumption DEF ActiveTypes
<1>1. /\ tag' = [tag EXCEPT ![t] = ZRemRangeByScore(tag[t])]
      /\ pool' = pool \/ pool' = ZRemRangeByScore(pool)
      /\ UNCHANGED <<obj, idx, expiry, history, clock, ended>>
  BY <1>0, FirstLease DEF Allocate
<1>2. StoreTypes' /\ StoreSafe'
  BY <1>0, <1>1, PurgeKeeps
<1>3. CASE GetActiveLease(t) # None
  <2> DEFINE i == GetActiveLease(t)
             l == [obj[i].lease EXCEPT !.exp = clock + LeaseTime, !.tags = {t, d}]
             c == [pc |-> "get", id |-> i, lease |-> l, prev |-> None]
  <2>1. i \in Ids /\ obj[i] # None
    BY <1>0, <1>3, FirstLease
  <2>2. /\ obj[i].lease \in Leases /\ obj[i].lease.addr \in StoreAddrs
        /\ IndexedAs(i, obj[i].lease)
    BY <2>1, StoredShape DEF StoreSafe, ObjectsIndexed
  <2>3. /\ l \in Leases /\ l.addr = obj[i].lease.addr /\ l.exp > clock
    <3>1. {t, d} \in SUBSET Tags /\ clock + LeaseTime \in Nat /\ clock + LeaseTime > clock
      BY <1>0
    <3>2. PICK o \in Leases, x \in Nat, T \in SUBSET Tags :
             o = obj[i].lease /\ x = clock + LeaseTime /\ T = {t, d}
      BY <2>2, <3>1
    <3>3. l = [o EXCEPT !.exp = x, !.tags = T]
      BY <3>2
    <3> HIDE DEF l
    <3> QED BY <3>1, <3>2, <3>3 DEF Leases
  <2>4. c \in PendingCalls /\ Step(w, c)
    BY <2>1, <2>3, <1>3 DEF PendingCalls, Allocate, WriteLease
  <2>5. history[i] = None /\ idx[i].addr = l.addr
    BY <2>2, <2>3 DEF IndexedAs
  <2>6. \A j \in Ids : obj[j] # None /\ obj[j].lease.addr = l.addr => j = i
    BY <2>1, <2>2, <2>3 DEF StoreSafe, OneHolder, Holds
  <2>7. c.pc = "get" /\ c.id = i /\ c.lease = l
    OBVIOUS
  <2> HIDE DEF i, l, c
  <2> QED BY <2>3, <2>4, <2>5, <2>6, <2>7, <1>1, <1>2, OneCall
<1>4. CASE GetActiveLease(t) = None
  <2>1. PICK j \in Ids, a \in StoreAddrs \ (ListActiveIPs \cup ListCooldownIPs) :
           /\ \A k \in {obj, history, idx} : k[j] = None
           /\ WriteLease(w, j, [addr |-> a, tags |-> {t, d}, state |-> "ACTIVE",
                                exp |-> clock + LeaseTime, cooldown |-> 0])
    BY <1>4 DEF Allocate
  <2> DEFINE l == [addr |-> a, tags |-> {t, d}, state |-> "ACTIVE",
                   exp |-> clock + LeaseTime, cooldown |-> 0]
             c == [pc |-> "get", id |-> j, lease |-> l, prev |-> None]
  <2>2. obj[j] = None /\ history[j] = None /\ idx[j] = None
    BY <2>1
  <2>3. l \in Leases /\ l.addr = a /\ l.exp > clock
    BY <1>0 DEF Leases, LeaseStates
  <2>4. c \in PendingCalls /\ Step(w, c)
    BY <2>1, <2>3 DEF PendingCalls, WriteLease
  <2>5. \A k \in Ids : obj[k] # None => obj[k].lease.addr # a
    <3> SUFFICES ASSUME NEW k \in Ids, obj[k] # None, obj[k].lease.addr = a PROVE FALSE
      OBVIOUS
    <3>1. pool[a] > clock
      BY DEF StoreSafe, ObjectsIndexed, IndexedAs
    <3>2. a \in ListActiveIPs
      BY <3>1, <2>1 DEF ListActiveIPs, ZMembers, ActiveTypes
    <3> QED BY <3>2, <2>1
  <2>6. c.pc = "get" /\ c.id = j /\ c.lease = l
    OBVIOUS
  <2> HIDE DEF l, c
  <2> QED BY <2>2, <2>3, <2>4, <2>5, <2>6, <1>1, <1>2, OneCall
<1> QED BY <1>3, <1>4

LEMMA EndKeeps ==
  ASSUME ActiveInv, OneWorker, NEW w \in StoreWorkers, NEW t \in Clients,
         NEW s \in {"RELEASED", "COOLDOWN"}, End(w, t, s)
  PROVE  ActiveInv'
<1> USE InvParts
<1> DEFINE i == GetActiveLease(t)
           o == obj[i].lease
           l == IF s = "COOLDOWN" THEN applyCooldownState(o)
                ELSE [o EXCEPT !.state = s, !.exp = clock]
           c == [pc |-> "get", id |-> i, lease |-> l, prev |-> None]
<1>0. t \in Tags /\ CooldownTime \in Nat /\ clock \in Nat
  BY ActiveStoreAssumption DEF ActiveTypes
<1>1. /\ tag' = [tag EXCEPT ![t] = ZRemRangeByScore(tag[t])]
      /\ UNCHANGED <<obj, idx, pool, expiry, history, clock, ended>>
      /\ i # None /\ Step(w, c)
  BY <1>0, FirstLease DEF End, WriteLease
<1>2. StoreTypes' /\ StoreSafe'
  BY <1>0, <1>1, PurgeKeeps
<1>3. i \in Ids /\ obj[i] # None
  BY <1>0, <1>1, FirstLease
<1>4. o \in Leases /\ o.addr \in StoreAddrs /\ IndexedAs(i, o)
  BY <1>3, StoredShape DEF StoreSafe, ObjectsIndexed
<1>5. l \in Leases /\ l.addr = o.addr /\ l.state # "ACTIVE"
  <2>1. CASE s = "COOLDOWN"
    <3>1. clock + CooldownTime \in Nat /\ s \in LeaseStates
      BY <1>0 DEF LeaseStates
    <3>2. PICK q \in Leases, x \in Nat : q = o /\ x = clock + CooldownTime
      BY <1>4, <3>1
    <3>3. l = [q EXCEPT !.state = s, !.exp = x] /\ s # "ACTIVE"
      BY <2>1, <3>2 DEF applyCooldownState
    <3> HIDE DEF l, o
    <3> QED BY <3>1, <3>2, <3>3 DEF Leases
  <2>2. CASE s # "COOLDOWN"
    <3>1. s \in LeaseStates
      BY DEF LeaseStates
    <3>2. PICK q \in Leases, x \in Nat : q = o /\ x = clock
      BY <1>4, <1>0
    <3>3. l = [q EXCEPT !.state = s, !.exp = x] /\ s # "ACTIVE"
      BY <2>2, <3>2
    <3> HIDE DEF l, o
    <3> QED BY <3>1, <3>2, <3>3 DEF Leases
  <2> QED BY <2>1, <2>2
<1>6. c \in PendingCalls
  BY <1>3, <1>5 DEF PendingCalls
<1>7. history[i] = None /\ idx[i].addr = l.addr
  BY <1>4, <1>5 DEF IndexedAs
<1>8. \A j \in Ids : obj[j] # None /\ obj[j].lease.addr = l.addr => j = i
  BY <1>3, <1>4, <1>5 DEF StoreSafe, OneHolder, Holds
<1>9. c.pc = "get" /\ c.id = i /\ c.lease = l
  OBVIOUS
<1> HIDE DEF i, l, c
<1> QED BY <1>1, <1>2, <1>5, <1>6, <1>7, <1>8, <1>9, OneCall

\* A worker that is not idle has a call under way, as CallSound says.
LEMMA CallUnderWay ==
  ASSUME ActiveInv, NEW w \in StoreWorkers, call[w].pc # "idle"
  PROVE  /\ call[w] \in PendingCalls /\ call[w].id \in Ids /\ call[w].lease \in Leases
         /\ CallSound(call[w])
BY InvParts DEF ActiveTypes, CallsSound, Ready, PendingCalls

LEMMA ReadIndexKeeps ==
  ASSUME ActiveInv, OneWorker, NEW w \in StoreWorkers, ReadIndex(w)
  PROVE  ActiveInv'
<1> DEFINE i == call[w].id
           c == [call[w] EXCEPT !.pc = "exec", !.prev = idx[i]]
<1>1. call[w] \in PendingCalls /\ i \in Ids /\ CallSound(call[w]) /\ call[w].pc = "get"
  BY CallUnderWay DEF ReadIndex
<1>2. Step(w, c) /\ UNCHANGED <<obj, idx, pool, tag, expiry, history, clock, ended>>
  BY DEF ReadIndex, storeState
<1>3. StoreTypes' /\ StoreSafe'
  BY <1>2, InvParts DEF StoreTypes, StoreSafe, ObjectsIndexed, IndexedAs, OneHolder,
     IndexesBacked, EndsSound, Holds, Row
<1>4. idx[i] \in IndexEntries \cup {None}
  BY <1>1, InvParts DEF ActiveTypes
<1>5. /\ c \in PendingCalls /\ c.pc = "exec" /\ c.id = i /\ c.lease = call[w].lease
      /\ c.prev = idx[i]
  BY <1>1, <1>4 DEF PendingCalls
<1>6. /\ history[i] = None /\ WriteSound(call[w])
      /\ call[w].lease.state = "ACTIVE" => call[w].lease.exp > clock
  BY <1>1 DEF CallSound
<1> HIDE DEF c
<1>7. /\ c.lease.state = "ACTIVE" => c.lease.exp > clock'
      /\ \A j \in Ids : obj'[j] # None /\ obj'[j].lease.addr = c.lease.addr => j = c.id
      /\ idx'[c.id] # None => idx'[c.id].addr = c.lease.addr
  BY <1>2, <1>5, <1>6 DEF WriteSound, Holds
<1> HIDE DEF i
<1> QED BY <1>2, <1>3, <1>5, <1>6, <1>7, OneCall, InvParts

LEMMA ArchiveKeeps ==
  ASSUME ActiveInv, OneWorker, NEW w \in StoreWorkers, Archive(w)
  PROVE  ActiveInv'
<1> DEFINE i == call[w].id
           l == call[w].lease
<1>1. /\ call[w] \in PendingCalls /\ i \in Ids /\ l \in Leases
      /\ history[i] = None /\ obj[i] = None /\ l.state # "ACTIVE"
  BY CallUnderWay DEF Archive, CallSound
<1>2. Step(w, Ready) /\ UNCHANGED <<obj, idx, pool, tag, expiry, clock>>
  BY DEF Archive
<1>3. Ready.pc = "idle"
  BY DEF Ready
<1>4. CASE UNCHANGED <<history, ended>>
  <2>1. StoreTypes' /\ StoreSafe'
    BY <1>2, <1>4, InvParts DEF StoreTypes, StoreSafe, ObjectsIndexed, IndexedAs, OneHolder,
       IndexesBacked, EndsSound, Holds, Row
  <2> QED BY <1>2, <1>3, <2>1, OneCall, InvParts
<1>5. CASE /\ history' = ArchiveLeases(i, l)
           /\ ended' = ended \cup {[id |-> i, lease |-> l]}
  <2>1. Row(l) \in HistoryRows
    BY <1>1 DEF Row, HistoryRows, Leases
  <2>2. history' = [history EXCEPT ![i] = Row(l)]
    BY <1>1, <1>5, InvParts DEF ArchiveLeases, ActiveTypes
  <2>3. history' \in [Ids -> HistoryRows \cup {None}]
    BY <1>1, <2>1, <2>2, InvParts DEF ActiveTypes
  <2>4. ended' \subseteq [id : Ids, lease : Leases]
    BY <1>1, <1>5, InvParts DEF ActiveTypes
  <2>5. StoreTypes'
    BY <1>2, <2>3, <2>4, InvParts DEF StoreTypes
  <2>6. \A j \in Ids : j # i => history'[j] = history[j]
    BY <2>2, <1>1, InvParts DEF ActiveTypes
  <2>7. ObjectsIndexed'
    BY <1>1, <1>2, <2>6, InvParts DEF StoreSafe, ObjectsIndexed, IndexedAs
  <2>8. OneHolder' /\ IndexesBacked'
    BY <1>2, InvParts DEF StoreSafe, OneHolder, IndexesBacked, Holds
  <2>9. EndsSound'
    <3> SUFFICES ASSUME NEW e \in ended'
                 PROVE  /\ e.lease.state # "ACTIVE" /\ obj'[e.id] = None
                        /\ history'[e.id] = Row(e.lease)
      BY DEF EndsSound, Row
    <3>1. CASE e \in ended
      <4>1. e.id \in Ids /\ e.lease \in Leases
        BY <3>1, InvParts DEF ActiveTypes
      <4>2. /\ e.lease.state # "ACTIVE" /\ obj[e.id] = None
            /\ history[e.id] = Row(e.lease)
        BY <3>1, InvParts DEF StoreSafe, EndsSound
      <4>3. Row(e.lease) \in HistoryRows
        BY <4>1 DEF Row, HistoryRows, Leases
      <4>4. e.id # i
        BY <1>1, <4>2, <4>3, ActiveStoreAssumption
      <4> QED BY <4>1, <4>2, <4>4, <2>6, <1>2
    <3>2. CASE e = [id |-> i, lease |-> l]
      <4>1. e.id = i /\ e.lease = l
        BY <3>2
      <4>2. history'[i] = Row(l)
        BY <1>1, <2>2, InvParts DEF ActiveTypes
      <4> QED BY <4>1, <4>2, <1>1, <1>2
    <3> QED BY <3>1, <3>2, <1>5
  <2>10. StoreSafe'
    BY <2>7, <2>8, <2>9 DEF StoreSafe
  <2> QED BY <1>2, <1>3, <2>5, <2>10, OneCall, InvParts
<1> QED BY <1>4, <1>5 DEF Archive

LEMMA ConflictKeeps ==
  ASSUME ActiveInv, OneWorker, NEW w \in StoreWorkers, enforceConflictPrevention(w)
  PROVE  ActiveInv'
<1> DEFINE i == call[w].id
           o == call[w].lease
           l == [applyCooldownState(o) EXCEPT !.cooldown = clock + HoldTime]
           c == [pc |-> "get", id |-> i, lease |-> l, prev |-> None]
<1>1. /\ i \in Ids /\ o \in Leases /\ history[i] = None /\ WriteSound(call[w])
  BY CallUnderWay DEF enforceConflictPrevention, CallSound, PendingCalls
<1>2. UNCHANGED <<obj, idx, pool, tag, expiry, history, clock, ended>>
  BY DEF enforceConflictPrevention, storeState
<1>3. StoreTypes' /\ StoreSafe'
  BY <1>2, InvParts DEF StoreTypes, StoreSafe, ObjectsIndexed, IndexedAs, OneHolder,
     IndexesBacked, EndsSound, Holds, Row
<1>4. CASE Step(w, Ready)
  <2>1. Ready.pc = "idle"
    BY DEF Ready
  <2> QED BY <1>3, <1>4, <2>1, OneCall, InvParts
<1>5. CASE Step(w, c)
  <2>1. PICK x \in Nat, y \in Nat : x = clock + CooldownTime /\ y = clock + HoldTime
    BY ActiveStoreAssumption, InvParts DEF ActiveTypes
  <2>2. l = [o EXCEPT !.state = "COOLDOWN", !.exp = x, !.cooldown = y]
    BY <2>1 DEF applyCooldownState
  <2>3. "COOLDOWN" \in LeaseStates
    BY DEF LeaseStates
  <2>4. l \in Leases /\ l.addr = o.addr /\ l.state # "ACTIVE"
    <3> HIDE DEF l, o
    <3> QED BY <1>1, <2>2, <2>3 DEF Leases
  <2>5. /\ \A j \in Ids : obj'[j] # None /\ obj'[j].lease.addr = l.addr => j = i
        /\ idx'[i] # None => idx'[i].addr = l.addr
    BY <1>1, <1>2, <2>4 DEF WriteSound, Holds
  <2>6. c \in PendingCalls /\ c.pc = "get" /\ c.id = i /\ c.lease = l
    BY <1>1, <2>4 DEF PendingCalls
  <2> HIDE DEF i, l, c
  <2> QED BY <1>1, <1>2, <1>3, <1>5, <2>4, <2>5, <2>6, OneCall, InvParts
<1> QED BY <1>4, <1>5 DEF enforceConflictPrevention, WriteLease

LEMMA ActiveTickKeeps ==
  ASSUME ActiveInv, ActiveTick
  PROVE  ActiveInv'
<1>1. /\ clock' = clock + 1 /\ clock \in Nat
      /\ \A i \in Ids : obj'[i] = IF obj[i] = None THEN None
                                  ELSE IF obj[i].until <= clock + 1 THEN None ELSE obj[i]
      /\ obj' \in [Ids -> StoredObjects \cup {None}]
      /\ UNCHANGED <<idx, pool, tag, expiry, history, call, ended>>
  BY InvParts DEF ActiveTick, ActiveTypes
<1>2. ActiveTypes'
  BY <1>1, InvParts DEF ActiveTypes
<1>3. \A i \in Ids : obj'[i] # None => obj'[i] = obj[i] /\ obj[i].until > clock + 1
  <2> SUFFICES ASSUME NEW i \in Ids, obj'[i] # None
               PROVE  obj'[i] = obj[i] /\ obj[i].until > clock + 1
    OBVIOUS
  <2>1. obj[i] # None /\ ~ (obj[i].until <= clock + 1) /\ obj'[i] = obj[i]
    BY <1>1
  <2>2. obj[i].until \in Nat
    BY <2>1, StoredShape, InvParts
  <2> QED BY <2>1, <2>2, <1>1
<1>4. ObjectsIndexed'
  <2> SUFFICES ASSUME NEW i \in Ids, obj'[i] # None
               PROVE  (obj[i].until = obj[i].lease.exp /\ IndexedAs(i, obj[i].lease))'
    BY DEF ObjectsIndexed
  <2>1. obj'[i] = obj[i] /\ obj[i] # None /\ obj[i].until > clock + 1
    BY <1>3
  <2> DEFINE l == obj[i].lease
  <2>2. obj[i].until = l.exp /\ IndexedAs(i, l) /\ l.exp \in Nat
    BY <2>1, InvParts, StoredShape DEF StoreSafe, ObjectsIndexed
  <2>3. tag \in [Tags -> [Ids -> Nat]]
    BY InvParts DEF ActiveTypes
  <2>4. \A t \in Tags : IF t \in l.tags THEN tag[t][i] = l.exp ELSE tag[t][i] <= clock + 1
    BY <2>2, <2>3, <1>1 DEF IndexedAs
  <2> QED BY <1>1, <2>1, <2>2, <2>4 DEF IndexedAs
<1>5. OneHolder'
  BY <1>3, InvParts DEF StoreSafe, OneHolder, Holds
<1>6. \A i \in Ids : obj[i] # None /\ obj[i].lease.exp > clock + 1 => obj'[i] = obj[i]
  BY <1>1, InvParts, StoredShape DEF StoreSafe, ObjectsIndexed
<1>7. IndexesBacked'
  <2>1. ASSUME NEW a \in StoreAddrs, pool[a] > clock + 1
        PROVE  \E i \in Ids : obj'[i] # None /\ obj'[i].lease.addr = a
    <3>1. pool[a] > clock
      BY <1>1, <2>1, InvParts DEF ActiveTypes
    <3>2. PICK i \in Ids : Holds(i, a)
      BY <3>1, InvParts DEF StoreSafe, IndexesBacked
    <3>3. obj[i] # None /\ obj[i].lease.addr = a /\ pool[a] = obj[i].lease.exp
      BY <3>2, InvParts DEF StoreSafe, ObjectsIndexed, IndexedAs, Holds
    <3> QED BY <3>3, <2>1, <1>6
  <2>2. ASSUME NEW t \in Tags, NEW i \in Ids, tag[t][i] > clock + 1
        PROVE  obj'[i] # None
    <3>1. tag[t][i] > clock /\ tag[t][i] \in Nat
      BY <1>1, <2>2, InvParts DEF ActiveTypes
    <3>2. obj[i] # None
      BY <3>1, InvParts DEF StoreSafe, IndexesBacked
    <3>3. tag[t][i] = obj[i].lease.exp \/ tag[t][i] <= clock
      BY <3>2, InvParts DEF StoreSafe, ObjectsIndexed, IndexedAs
    <3> QED BY <3>1, <3>2, <3>3, <2>2, <1>1, <1>6
  <2> QED BY <2>1, <2>2, <1>1 DEF IndexesBacked, Holds
<1>8. \A i \in Ids : obj[i] = None => obj'[i] = None
  BY <1>3
<1>9. EndsSound'
  BY <1>1, <1>8, InvParts DEF StoreSafe, EndsSound, Row, ActiveTypes
<1>10. CallsSound'
  <2> SUFFICES ASSUME NEW w \in StoreWorkers PROVE CallSound(call[w])'
    BY DEF CallsSound
  <2> DEFINE c == call[w]
  <2>1. CASE c.pc = "idle"
    BY <2>1, <1>1 DEF CallSound
  <2>2. CASE c.pc # "idle"
    <3>1. c \in PendingCalls /\ c.id \in Ids /\ c.lease \in Leases /\ CallSound(c)
      BY <2>2, CallUnderWay
    <3>2. \A j \in Ids : obj'[j] # None => obj'[j] = obj[j]
      BY <1>3
    <3>3. c.pc \in {"get", "exec"} => (c.lease.state = "ACTIVE" => c.lease.exp > clock + 1)
      BY DEF ActiveTick
    <3>4. c.pc \in {"get", "exec", "probe"} => WriteSound(c)'
      BY <3>1, <3>2, <1>1, <1>8 DEF CallSound, WriteSound, Holds
    <3>5. c.pc = "archive" => c.lease.state # "ACTIVE" /\ obj'[c.id] = None
      BY <3>1, <1>8 DEF CallSound
    <3> QED BY <3>1, <3>3, <3>4, <3>5, <1>1 DEF CallSound
  <2> QED BY <2>1, <2>2
<1> QED BY <1>2, <1>4, <1>5, <1>7, <1>9, <1>10 DEF ActiveInv

LEMMA MaxOfOne ==
  ASSUME NEW n \in Nat
  PROVE  Max({n}) = n
BY DEF Max

LEMMA RebuildKeeps ==
  ASSUME ActiveInv, ListExpiredLeases
  PROVE  ActiveInv'
<1> DEFINE at(a) == {obj[i].lease.exp : i \in {j \in Objects : obj[j].lease.addr = a}}
<1>1. /\ pool' = [a \in StoreAddrs |-> IF at(a) = {} THEN pool[a] ELSE Max(at(a))]
      /\ tag' = [t \in Tags |-> [i \in Ids |->
           IF i \in Objects THEN IF t \in obj[i].lease.tags THEN obj[i].lease.exp ELSE 0
           ELSE tag[t][i]]]
      /\ expiry' = [i \in Ids |-> IF i \in Objects THEN obj[i].lease.exp
                                  ELSE IF i \in Due THEN 0 ELSE expiry[i]]
      /\ UNCHANGED <<obj, idx, history, clock, call, ended>>
  BY DEF ListExpiredLeases, redisRebuildActiveIndexesFromObjects
<1>2. \A i \in Objects : /\ i \in Ids /\ obj[i] # None /\ obj[i].lease.exp \in Nat
                         /\ obj[i].lease.addr \in StoreAddrs
  BY InvParts, StoredShape DEF Objects
<1>3. \A i \in Objects : at(obj[i].lease.addr) = {obj[i].lease.exp}
  BY <1>2, InvParts DEF StoreSafe, OneHolder, Holds
<1>4. \A i \in Objects : pool'[obj[i].lease.addr] = obj[i].lease.exp
  <2> SUFFICES ASSUME NEW i \in Objects PROVE pool'[obj[i].lease.addr] = obj[i].lease.exp
    OBVIOUS
  <2>1. at(obj[i].lease.addr) = {obj[i].lease.exp} /\ obj[i].lease.addr \in StoreAddrs
    BY <1>2, <1>3
  <2> HIDE DEF at
  <2>2. pool'[obj[i].lease.addr] = Max({obj[i].lease.exp})
    BY <1>1, <2>1
  <2> QED BY <2>2, <1>2, MaxOfOne
<1>5. \A a \in StoreAddrs : (\A i \in Objects : obj[i].lease.addr # a) => pool'[a] = pool[a]
  <2> SUFFICES ASSUME NEW a \in StoreAddrs, \A i \in Objects : obj[i].lease.addr # a
               PROVE  pool'[a] = pool[a]
    OBVIOUS
  <2>1. at(a) = {}
    OBVIOUS
  <2> HIDE DEF at
  <2> QED BY <1>1, <2>1
<1>6. pool' \in [StoreAddrs -> Nat]
  <2>1. \A a \in StoreAddrs : pool'[a] \in Nat
    <3> SUFFICES ASSUME NEW a \in StoreAddrs PROVE pool'[a] \in Nat
      OBVIOUS
    <3>1. CASE \E i \in Objects : obj[i].lease.addr = a
      BY <3>1, <1>2, <1>4
    <3>2. CASE \A i \in Objects : obj[i].lease.addr # a
      BY <3>2, <1>5, InvParts DEF ActiveTypes
    <3> QED BY <3>1, <3>2
  <2>2. pool' = [a \in StoreAddrs |-> pool'[a]]
    <3> HIDE DEF at
    <3> QED BY <1>1
  <2> QED BY <2>1, <2>2
<1> HIDE DEF at
<1>7. /\ \A t \in Tags, i \in Ids : tag'[t][i] =
            IF i \in Objects THEN IF t \in obj[i].lease.tags THEN obj[i].lease.exp ELSE 0
            ELSE tag[t][i]
      /\ tag' \in [Tags -> [Ids -> Nat]] /\ expiry' \in [Ids -> Nat]
  BY <1>1, <1>2, InvParts DEF ActiveTypes
<1>8. ActiveTypes'
  BY <1>1, <1>6, <1>7, InvParts DEF ActiveTypes
<1>9. ObjectsIndexed'
  <2> SUFFICES ASSUME NEW i \in Ids, obj[i] # None
               PROVE  obj[i].until = obj[i].lease.exp /\ IndexedAs(i, obj[i].lease)'
    BY <1>1 DEF ObjectsIndexed, IndexedAs
  <2>1. i \in Objects /\ clock \in Nat
    BY InvParts DEF Objects, ActiveTypes
  <2>2. obj[i].until = obj[i].lease.exp /\ IndexedAs(i, obj[i].lease)
    BY InvParts DEF StoreSafe, ObjectsIndexed
  <2>3. \A t \in Tags : IF t \in obj[i].lease.tags THEN tag'[t][i] = obj[i].lease.exp
                       ELSE tag'[t][i] <= clock
    BY <1>7, <2>1
  <2>4. pool'[obj[i].lease.addr] = obj[i].lease.exp
    BY <1>4, <2>1
  <2>5. UNCHANGED <<clock, history, idx, obj>>
    BY <1>1
  <2> QED BY <2>2, <2>3, <2>4, <2>5 DEF IndexedAs
<1>10. OneHolder' /\ EndsSound'
  BY <1>1, InvParts DEF StoreSafe, OneHolder, EndsSound, Holds, Row
<1>11. IndexesBacked'
  <2>1. ASSUME NEW a \in StoreAddrs, pool'[a] > clock PROVE \E i \in Ids : Holds(i, a)
    <3>1. CASE \E i \in Objects : obj[i].lease.addr = a
      BY <3>1, <1>2 DEF Holds
    <3>2. CASE \A i \in Objects : obj[i].lease.addr # a
      BY <3>2, <1>5, <2>1, InvParts DEF StoreSafe, IndexesBacked
    <3> QED BY <3>1, <3>2
  <2>2. ASSUME NEW t \in Tags, NEW i \in Ids, tag'[t][i] > clock PROVE obj[i] # None
    BY <2>2, <1>2, <1>7, InvParts DEF StoreSafe, IndexesBacked
  <2> QED BY <2>1, <2>2, <1>1 DEF IndexesBacked, Holds
<1>12. CallsSound'
  BY <1>1, InvParts DEF CallsSound, CallSound, WriteSound, Holds
<1> QED BY <1>8, <1>9, <1>10, <1>11, <1>12 DEF ActiveInv

-----------------------------------------------------------------------------
(* The pipeline of syncRedisActiveLeaseIndex.                               *)

\* What the pipeline leaves: object i of lease l or no object i, the memberships of
\* the previous entry removed, every other score as it was.
LEMMA Synced ==
  ASSUME ActiveInv, NEW w \in StoreWorkers, Exec(w)
  PROVE  LET i == call[w].id  l == call[w].lease  active == call[w].lease.state = "ACTIVE"
         IN /\ i \in Ids /\ l \in Leases /\ l.addr \in StoreAddrs
            /\ active => l.exp > clock
            /\ history[i] = None
            /\ \A j \in Ids : Holds(j, l.addr) => j = i
            /\ idx[i] # None => idx[i].addr = l.addr
            /\ UNCHANGED <<history, clock, ended>>
            /\ obj' = [obj EXCEPT ![i] = IF active THEN [lease |-> l, until |-> l.exp] ELSE None]
            /\ idx' = [idx EXCEPT ![i] = IF active THEN [addr |-> l.addr, tags |-> l.tags]
                                         ELSE None]
            /\ pool' \in [StoreAddrs -> Nat] /\ tag' \in [Tags -> [Ids -> Nat]]
            /\ expiry' \in [Ids -> Nat]
            /\ \A a \in StoreAddrs : a # l.addr => pool'[a] = pool[a]
            /\ pool'[l.addr] = IF active THEN l.exp
                               ELSE IF idx[i] = None THEN pool[l.addr] ELSE 0
            /\ \A t \in Tags, j \in Ids : tag'[t][j] =
                 IF j # i THEN tag[t][j]
                 ELSE IF active /\ t \in l.tags THEN l.exp
                 ELSE IF idx[i] # None /\ t \in idx[i].tags THEN 0 ELSE tag[t][i]
<1> DEFINE i == call[w].id
           l == call[w].lease
           active == l.state = "ACTIVE"
           prev == idx[i]
           rest == Unindexed(i, prev)
<1>1. /\ call[w] \in PendingCalls /\ i \in Ids /\ l \in Leases /\ CallSound(call[w])
      /\ call[w].pc = "exec" /\ call[w].prev = prev /\ history[i] = None
      /\ WriteSound(call[w]) /\ (active => l.exp > clock)
  BY CallUnderWay DEF Exec, CallSound
<1>2. l.addr \in StoreAddrs /\ l.exp \in Nat /\ l.tags \subseteq Tags
  BY <1>1 DEF Leases
<1>3. /\ syncRedisActiveLeaseIndex(i, l, prev) /\ UNCHANGED <<history, clock, ended>>
  BY <1>1 DEF Exec
<1>4. prev # None => prev.addr = l.addr /\ prev.tags \subseteq Tags
  BY <1>1, InvParts, StoredShape DEF WriteSound
<1>5. /\ active => l.exp > clock
      /\ \A j \in Ids : Holds(j, l.addr) => j = i
  BY <1>1 DEF WriteSound
<1>6. pool \in [StoreAddrs -> Nat] /\ tag \in [Tags -> [Ids -> Nat]] /\ expiry \in [Ids -> Nat]
  BY InvParts DEF ActiveTypes
<1>7. /\ rest[1] \in [StoreAddrs -> Nat] /\ rest[2] \in [Tags -> [Ids -> Nat]]
      /\ \A a \in StoreAddrs : a # l.addr => rest[1][a] = pool[a]
      /\ rest[1][l.addr] = IF prev = None THEN pool[l.addr] ELSE 0
      /\ \A t \in Tags, j \in Ids : rest[2][t][j] =
           IF j = i /\ prev # None /\ t \in prev.tags THEN 0 ELSE tag[t][j]
  <2>1. CASE prev = None
    <3>1. rest[1] = pool /\ rest[2] = tag
      BY <2>1 DEF Unindexed
    <3> HIDE DEF rest, i, prev, l
    <3> QED BY <2>1, <3>1, <1>6
  <2>2. CASE prev # None
    <3>1. /\ rest[1] = [pool EXCEPT ![prev.addr] = 0]
          /\ rest[2] = [t \in Tags |-> IF t \in prev.tags THEN [tag[t] EXCEPT ![i] = 0]
                                       ELSE tag[t]]
      BY <2>2 DEF Unindexed
    <3> HIDE DEF rest, i, prev, l
    <3>2. /\ rest[1] \in [StoreAddrs -> Nat]
          /\ \A a \in StoreAddrs : a # l.addr => rest[1][a] = pool[a]
          /\ rest[1][l.addr] = 0
      BY <2>2, <3>1, <1>2, <1>4, <1>6
    <3>3. /\ rest[2] \in [Tags -> [Ids -> Nat]]
          /\ \A t \in Tags, j \in Ids : rest[2][t][j] =
               IF j = i /\ t \in prev.tags THEN 0 ELSE tag[t][j]
      BY <3>1, <1>1, <1>6
    <3> QED BY <2>2, <3>2, <3>3
  <2> QED BY <2>1, <2>2
<1>8. CASE active
  <2>1. /\ pool' = [rest[1] EXCEPT ![l.addr] = l.exp]
        /\ tag' = [t \in Tags |-> IF t \in l.tags THEN [rest[2][t] EXCEPT ![i] = l.exp]
                                  ELSE rest[2][t]]
        /\ expiry' = [expiry EXCEPT ![i] = l.exp]
        /\ idx' = [idx EXCEPT ![i] = [addr |-> l.addr, tags |-> l.tags]]
        /\ obj' = [obj EXCEPT ![i] = [lease |-> l, until |-> l.exp]]
    BY <1>3, <1>5, <1>8 DEF syncRedisActiveLeaseIndex, Until
  <2> HIDE DEF rest, i, l, prev
  <2>2. /\ pool' \in [StoreAddrs -> Nat] /\ expiry' \in [Ids -> Nat]
        /\ \A a \in StoreAddrs : a # l.addr => pool'[a] = pool[a]
        /\ pool'[l.addr] = l.exp
    BY <2>1, <1>1, <1>2, <1>6, <1>7
  <2>3. /\ tag' \in [Tags -> [Ids -> Nat]]
        /\ \A t \in Tags, j \in Ids : tag'[t][j] =
             IF j = i /\ t \in l.tags THEN l.exp ELSE rest[2][t][j]
    BY <2>1, <1>1, <1>2, <1>7
  <2> USE DEF i, l, prev
  <2> QED BY SMTT(40), <2>1, <2>2, <2>3, <1>1, <1>2, <1>3, <1>4, <1>5, <1>7, <1>8
<1>9. CASE ~ active
  <2>1. /\ pool' = rest[1] /\ tag' = rest[2]
        /\ expiry' = [expiry EXCEPT ![i] = 0]
        /\ idx' = [idx EXCEPT ![i] = None]
        /\ obj' = [obj EXCEPT ![i] = None]
    BY <1>3, <1>9 DEF syncRedisActiveLeaseIndex
  <2> HIDE DEF rest
  <2> QED BY <2>1, <1>1, <1>2, <1>3, <1>4, <1>5, <1>6, <1>7, <1>9
<1> QED BY <1>8, <1>9

LEMMA ExecKeeps ==
  ASSUME ActiveInv, OneWorker, NEW w \in StoreWorkers, Exec(w)
  PROVE  ActiveInv'
<1> DEFINE i == call[w].id
           l == call[w].lease
           active == l.state = "ACTIVE"
           o == IF active THEN [lease |-> l, until |-> l.exp] ELSE None
           x == IF active THEN [addr |-> l.addr, tags |-> l.tags] ELSE None
<1>1. /\ i \in Ids /\ l \in Leases /\ l.addr \in StoreAddrs /\ l.exp \in Nat
      /\ active => l.exp > clock
      /\ history[i] = None
      /\ \A j \in Ids : Holds(j, l.addr) => j = i
      /\ idx[i] # None => idx[i].addr = l.addr
      /\ UNCHANGED <<history, clock, ended>>
      /\ obj' = [obj EXCEPT ![i] = o] /\ idx' = [idx EXCEPT ![i] = x]
      /\ pool' \in [StoreAddrs -> Nat] /\ tag' \in [Tags -> [Ids -> Nat]]
      /\ expiry' \in [Ids -> Nat]
  BY Synced DEF Leases
<1>2. /\ \A a \in StoreAddrs : a # l.addr => pool'[a] = pool[a]
      /\ pool'[l.addr] = IF active THEN l.exp ELSE IF idx[i] = None THEN pool[l.addr] ELSE 0
  BY Synced
<1>3. \A t \in Tags, j \in Ids : tag'[t][j] =
        IF j # i THEN tag[t][j]
        ELSE IF active /\ t \in l.tags THEN l.exp
        ELSE IF idx[i] # None /\ t \in idx[i].tags THEN 0 ELSE tag[t][i]
  BY Synced
<1>4. active => /\ o = [lease |-> l, until |-> l.exp] /\ o.lease = l /\ o.until = l.exp
                /\ o # None /\ o \in StoredObjects
                /\ x = [addr |-> l.addr, tags |-> l.tags] /\ x \in IndexEntries
  BY <1>1, ActiveStoreAssumption DEF StoredObjects, IndexEntries, Leases
<1>5. ~ active => o = None /\ x = None
  OBVIOUS
<1>6. clock \in Nat /\ tag \in [Tags -> [Ids -> Nat]] /\ pool \in [StoreAddrs -> Nat]
  BY InvParts DEF ActiveTypes
<1> HIDE DEF o, x
<1>7. /\ obj' \in [Ids -> StoredObjects \cup {None}]
      /\ idx' \in [Ids -> IndexEntries \cup {None}]
      /\ obj'[i] = o /\ idx'[i] = x
      /\ \A j \in Ids : j # i => obj'[j] = obj[j] /\ idx'[j] = idx[j]
  BY <1>1, <1>4, <1>5, InvParts DEF ActiveTypes
<1>8. StoreTypes'
  BY <1>1, <1>7, InvParts DEF StoreTypes
<1> HIDE DEF i, l
\* An object other than i keeps its address, which is not that of l.
<1>9. \A j \in Ids : j # i /\ obj[j] # None =>
        obj[j].lease.addr \in StoreAddrs /\ obj[j].lease.addr # l.addr
  BY <1>1, InvParts, StoredShape DEF Holds
\* The scores of i are those of its object, and old ones without it.
<1>10. \A t \in Tags : (active /\ t \in l.tags) \/ tag'[t][i] <= clock
  <2> SUFFICES ASSUME NEW t \in Tags, ~ (active /\ t \in l.tags) PROVE tag'[t][i] <= clock
    OBVIOUS
  <2>1. CASE idx[i] # None /\ t \in idx[i].tags
    BY <2>1, <1>1, <1>3, <1>6
  <2>2. CASE ~ (idx[i] # None /\ t \in idx[i].tags)
    <3>1. tag'[t][i] = tag[t][i] /\ tag[t][i] \in Nat
      BY <2>2, <1>1, <1>3, <1>6
    <3>2. SUFFICES ASSUME tag[t][i] > clock PROVE FALSE
      BY <3>1, <1>6
    <3>3. obj[i] # None
      BY <3>2, <1>1, InvParts DEF StoreSafe, IndexesBacked
    <3>4. IndexedAs(i, obj[i].lease)
      BY <3>3, <1>1, InvParts DEF StoreSafe, ObjectsIndexed
    <3>5. idx[i] # None /\ idx[i].tags = obj[i].lease.tags
      <4>1. idx[i] \in IndexEntries \cup {None} /\ obj[i].lease \in Leases
        BY <1>1, <3>3, InvParts, StoredShape DEF ActiveTypes
      <4>2. idx[i] = [addr |-> obj[i].lease.addr, tags |-> obj[i].lease.tags]
        BY <3>4 DEF IndexedAs
      <4>3. [addr |-> obj[i].lease.addr, tags |-> obj[i].lease.tags] \in IndexEntries
        BY <4>1 DEF Leases, IndexEntries
      <4> QED BY <4>2, <4>3, ActiveStoreAssumption
    <3>6. tag[t][i] <= clock
      BY <3>4, <3>5, <2>2 DEF IndexedAs
    <3> QED BY <3>2, <3>6, <1>6, <3>1
  <2> QED BY <2>1, <2>2
<1>11. ObjectsIndexed'
  <2> SUFFICES ASSUME NEW j \in Ids, obj'[j] # None
               PROVE  (obj[j].until = obj[j].lease.exp /\ IndexedAs(j, obj[j].lease))'
    BY DEF ObjectsIndexed
  <2>1. CASE j # i
    <3>1. obj'[j] = obj[j] /\ idx'[j] = idx[j] /\ obj[j] # None
      BY <2>1, <1>7
    <3>2. obj[j].until = obj[j].lease.exp /\ IndexedAs(j, obj[j].lease)
      BY <3>1, InvParts DEF StoreSafe, ObjectsIndexed
    <3>3. pool'[obj[j].lease.addr] = pool[obj[j].lease.addr]
      BY <2>1, <3>1, <1>2, <1>9
    <3>4. \A t \in Tags : tag'[t][j] = tag[t][j]
      BY <2>1, <1>3
    <3> QED BY <3>1, <3>2, <3>3, <3>4, <1>1 DEF IndexedAs
  <2>2. CASE j = i
    <3>1. active /\ obj'[j] = o
      BY <2>2, <1>5, <1>7
    <3>2. obj'[j].lease = l /\ obj'[j].until = l.exp
      BY <3>1, <1>4
    <3>3. \A t \in Tags : IF t \in l.tags THEN tag'[t][i] = l.exp ELSE tag'[t][i] <= clock
      BY <3>1, <1>1, <1>3, <1>10
    <3>4. idx'[i] = [addr |-> l.addr, tags |-> l.tags]
      BY <3>1, <1>4, <1>7
    <3> QED BY <2>2, <3>1, <3>2, <3>3, <3>4, <1>1, <1>2 DEF IndexedAs
  <2> QED BY <2>1, <2>2
<1>12. OneHolder'
  <2> SUFFICES ASSUME NEW j \in Ids, NEW k \in Ids, obj'[j] # None, obj'[k] # None,
                      obj'[j].lease.addr = obj'[k].lease.addr
               PROVE  j = k
    BY DEF OneHolder, Holds
  <2>1. ASSUME NEW m \in Ids, m = i, obj'[m] # None PROVE obj'[m].lease.addr = l.addr
    BY <2>1, <1>4, <1>5, <1>7
  <2>2. CASE j # i /\ k # i
    <3>1. obj'[j] = obj[j] /\ obj'[k] = obj[k] /\ obj[j].lease.addr \in StoreAddrs
      BY <2>2, <1>7, <1>9
    <3> QED BY <3>1, InvParts DEF StoreSafe, OneHolder, Holds
  <2>3. CASE j = i /\ k # i
    BY <2>1, <2>3, <1>7, <1>9
  <2>4. CASE j # i /\ k = i
    BY <2>1, <2>4, <1>7, <1>9
  <2> QED BY <2>2, <2>3, <2>4
<1>13. IndexesBacked'
  <2>1. ASSUME NEW a \in StoreAddrs, pool'[a] > clock
        PROVE  \E j \in Ids : obj'[j] # None /\ obj'[j].lease.addr = a
    <3>1. CASE a # l.addr
      <4>1. pool[a] > clock
        BY <3>1, <2>1, <1>2
      <4>2. PICK j \in Ids : Holds(j, a)
        BY <4>1, InvParts DEF StoreSafe, IndexesBacked
      <4>3. j # i
        <5> SUFFICES ASSUME j = i PROVE FALSE
          OBVIOUS
        <5>1. obj[i] # None /\ obj[i].lease.addr = a
          BY <4>2 DEF Holds
        <5>2. /\ idx[i] = [addr |-> a, tags |-> obj[i].lease.tags]
              /\ obj[i].lease \in Leases
          BY <5>1, <1>1, InvParts, StoredShape DEF StoreSafe, ObjectsIndexed, IndexedAs
        <5>3. idx[i] \in IndexEntries /\ idx[i].addr = a
          BY <5>1, <5>2 DEF IndexEntries, Leases
        <5> QED BY <5>3, <1>1, <3>1, ActiveStoreAssumption
      <4> QED BY <4>2, <4>3, <1>7 DEF Holds
    <3>2. CASE a = l.addr /\ active
      BY <3>2, <1>1, <1>4, <1>7
    <3>3. CASE a = l.addr /\ ~ active
      <4>1. idx[i] = None /\ pool[a] > clock
        BY <3>3, <2>1, <1>2, <1>6
      <4>2. PICK j \in Ids : Holds(j, a)
        BY <4>1, InvParts DEF StoreSafe, IndexesBacked
      <4>3. j = i /\ obj[i] # None /\ obj[i].lease.addr = a
        BY <4>2, <3>3, <1>1 DEF Holds
      <4>4. /\ idx[i] = [addr |-> a, tags |-> obj[i].lease.tags]
            /\ obj[i].lease \in Leases
        BY <4>3, <1>1, InvParts, StoredShape DEF StoreSafe, ObjectsIndexed, IndexedAs
      <4>5. idx[i] \in IndexEntries
        BY <4>3, <4>4 DEF IndexEntries, Leases
      <4> QED BY <4>1, <4>5, ActiveStoreAssumption
    <3> QED BY <3>1, <3>2, <3>3
  <2>2. ASSUME NEW t \in Tags, NEW j \in Ids, tag'[t][j] > clock PROVE obj'[j] # None
    <3>1. CASE j # i
      BY <3>1, <2>2, <1>3, <1>7, InvParts DEF StoreSafe, IndexesBacked
    <3>2. CASE j = i
      <4>1. tag'[t][i] \in Nat
        BY <1>1
      <4>2. active
        BY <3>2, <4>1, <2>2, <1>6, <1>10
      <4> QED BY <3>2, <4>2, <1>4, <1>7
    <3> QED BY <3>1, <3>2
  <2> QED BY <2>1, <2>2, <1>1 DEF IndexesBacked, Holds
<1>14. EndsSound'
  <2> SUFFICES ASSUME NEW e \in ended
               PROVE  /\ e.lease.state # "ACTIVE" /\ obj'[e.id] = None
                      /\ history[e.id] = Row(e.lease)
    BY <1>1 DEF EndsSound, Row
  <2>1. e.id \in Ids /\ e.lease \in Leases
    BY InvParts DEF ActiveTypes
  <2>2. e.lease.state # "ACTIVE" /\ obj[e.id] = None /\ history[e.id] = Row(e.lease)
    BY InvParts DEF StoreSafe, EndsSound
  <2>3. Row(e.lease) \in HistoryRows
    BY <2>1 DEF Row, HistoryRows, Leases
  <2>4. e.id # i
    BY <1>1, <2>2, <2>3, ActiveStoreAssumption
  <2> QED BY <2>1, <2>2, <2>4, <1>7
<1>15. StoreSafe'
  BY <1>11, <1>12, <1>13, <1>14 DEF StoreSafe
<1>16. CASE active
  <2> DEFINE c == [call[w] EXCEPT !.pc = "probe"]
  <2>1. Step(w, c)
    BY <1>16 DEF Exec, l
  <2>2. call[w] \in PendingCalls
    BY CallUnderWay DEF Exec
  <2>3. c \in PendingCalls /\ c.pc = "probe" /\ c.id = i /\ c.lease = l
    BY <2>2 DEF PendingCalls, i, l
  <2>4. history'[i] = None /\ idx'[i].addr = l.addr
    <3>1. idx'[i] = [addr |-> l.addr, tags |-> l.tags]
      BY <1>4, <1>7, <1>16
    <3> QED BY <3>1, <1>1
  <2>5. \A j \in Ids : obj'[j] # None /\ obj'[j].lease.addr = l.addr => j = i
    BY <1>7, <1>9
  <2> HIDE DEF c
  <2> QED BY <2>1, <2>3, <2>4, <2>5, <1>8, <1>15, OneCall, InvParts
<1>17. CASE ~ active
  <2> DEFINE c == [call[w] EXCEPT !.pc = "archive"]
  <2>1. Step(w, c)
    BY <1>17 DEF Exec, l
  <2>2. call[w] \in PendingCalls
    BY CallUnderWay DEF Exec
  <2>3. c \in PendingCalls /\ c.pc = "archive" /\ c.id = i /\ c.lease = l
    BY <2>2 DEF PendingCalls, i, l
  <2>4. history'[i] = None /\ obj'[i] = None
    BY <1>1, <1>5, <1>7, <1>17
  <2> HIDE DEF c
  <2> QED BY <2>1, <2>3, <2>4, <1>8, <1>15, <1>17, OneCall, InvParts
<1> QED BY <1>16, <1>17

-----------------------------------------------------------------------------
(* What the stores answer.                                                  *)

\* The holders of distinct addresses are as many as their addresses.
LEMMA AsManyHolders ==
  ASSUME NEW S, IsFiniteSet(S), NEW f, \A i, j \in S : f[i] = f[j] => i = j
  PROVE  Cardinality({f[i] : i \in S}) = Cardinality(S)
<1> DEFINE T == {f[i] : i \in S}
           g == [i \in S |-> f[i]]
<1>1. g \in Bijection(S, T)
  BY DEF Bijection, Injection, Surjection, IsInjective
<1>2. ExistsBijection(S, T)
  BY <1>1 DEF ExistsBijection
<1> QED BY <1>2, FS_Bijection

LEMMA IndexesAgree ==
  ASSUME ActiveInv
  PROVE  IndexAgrees
<1> DEFINE living == {i \in Ids : Live(i)}
           f == [i \in Ids |-> obj[i].lease.addr]
<1>1. IsFiniteSet(Ids) /\ clock \in Nat
  BY ActiveStoreAssumption, InvParts DEF ActiveTypes
<1>2. living = Objects
  BY InvParts DEF StoreSafe, ObjectsIndexed, IndexedAs, Live, Objects
<1>3. ListActiveIPs = {obj[i].lease.addr : i \in living}
  <2>1. ASSUME NEW a \in ListActiveIPs PROVE \E i \in living : obj[i].lease.addr = a
    <3>1. a \in StoreAddrs /\ pool[a] > clock
      BY <2>1, InvParts DEF ListActiveIPs, ZMembers, ActiveTypes
    <3>2. PICK i \in Ids : Holds(i, a)
      BY <3>1, InvParts DEF StoreSafe, IndexesBacked
    <3>3. i \in Objects /\ obj[i].lease.addr = a
      BY <3>2 DEF Holds, Objects
    <3> QED BY <3>3, <1>2
  <2>2. ASSUME NEW i \in living PROVE obj[i].lease.addr \in ListActiveIPs
    <3>1. i \in Ids /\ obj[i] # None
      BY <2>2 DEF Live
    <3>2. IndexedAs(i, obj[i].lease) /\ obj[i].lease.addr \in StoreAddrs
      BY <3>1, InvParts, StoredShape DEF StoreSafe, ObjectsIndexed
    <3>3. pool[obj[i].lease.addr] > clock
      BY <3>2 DEF IndexedAs
    <3> QED BY <3>2, <3>3, InvParts DEF ListActiveIPs, ZMembers, ActiveTypes
  <2> QED BY <2>1, <2>2
<1>4. IsFiniteSet(living) /\ IsFiniteSet(SearchLeaseHistory(None)) /\ living \subseteq Ids
  BY <1>1, FS_Subset DEF SearchLeaseHistory
<1>5. Cardinality(ListActiveIPs) = Cardinality(living)
  <2>1. \A i, j \in living : f[i] = f[j] => i = j
    BY <1>2, InvParts, StoredShape DEF StoreSafe, OneHolder, Holds, Objects
  <2>2. {f[i] : i \in living} = {obj[i].lease.addr : i \in living}
    BY <1>4
  <2> HIDE DEF f, living
  <2>3. Cardinality({f[i] : i \in living}) = Cardinality(living)
    BY <1>4, <2>1, AsManyHolders
  <2> QED BY <2>2, <2>3, <1>3
<1>6. \A t \in Tags : ZMembers(tag[t]) = {i \in Objects : t \in obj[i].lease.tags}
  <2> SUFFICES ASSUME NEW t \in Tags
               PROVE  ZMembers(tag[t]) = {i \in Objects : t \in obj[i].lease.tags}
    OBVIOUS
  <2>1. ZMembers(tag[t]) = {i \in Ids : tag[t][i] > clock}
    BY InvParts DEF ActiveTypes, ZMembers
  <2>2. ASSUME NEW i \in Ids
        PROVE  tag[t][i] > clock <=> obj[i] # None /\ t \in obj[i].lease.tags
    <3>1. tag[t][i] > clock => obj[i] # None
      BY InvParts DEF StoreSafe, IndexesBacked
    <3>2. CASE obj[i] # None
      <4>1. IndexedAs(i, obj[i].lease) /\ obj[i].lease.exp \in Nat /\ tag[t][i] \in Nat
        BY <3>2, InvParts, StoredShape DEF StoreSafe, ObjectsIndexed, ActiveTypes
      <4>2. /\ obj[i].lease.exp > clock
            /\ IF t \in obj[i].lease.tags THEN tag[t][i] = obj[i].lease.exp
               ELSE tag[t][i] <= clock
        BY <4>1 DEF IndexedAs
      <4> QED BY <3>2, <4>1, <4>2, <1>1
    <3> QED BY <3>1, <3>2
  <2> QED BY <2>1, <2>2 DEF Objects
<1>7. \A t \in Tags : {i \in Objects : t \in obj[i].lease.tags}
                        = {i \in Ids : Live(i) /\ t \in obj[i].lease.tags}
  BY <1>2
<1>8. CountLeasesCreatedSince = Cardinality(ListLeases(None))
  <2>1. ListLeasesByState("ACTIVE") = living
    BY <1>2, InvParts DEF ListLeasesByState, redisListActiveLeases, StoreSafe,
       ObjectsIndexed, IndexedAs, Objects
  <2>2. ListLeases(None) = living \cup SearchLeaseHistory(None)
    BY <2>1 DEF ListLeases
  <2>3. living \cap SearchLeaseHistory(None) = {}
    BY <1>2, InvParts DEF SearchLeaseHistory, StoreSafe, ObjectsIndexed, IndexedAs, Objects
  <2> HIDE DEF living
  <2>4. Cardinality(living \cup SearchLeaseHistory(None))
          = Cardinality(living) + Cardinality(SearchLeaseHistory(None)) - Cardinality({})
    BY <1>4, <2>3, FS_Union
  <2>5. Cardinality({}) = 0 /\ Cardinality(living) \in Nat
        /\ Cardinality(SearchLeaseHistory(None)) \in Nat
    BY <1>4, FS_EmptySet, FS_CardinalityType
  <2> QED BY <2>1, <2>2, <2>4, <2>5 DEF CountLeasesCreatedSince
<1>9. {CountActiveLeasesByPool, redisCountActiveLeases} = {Cardinality(living)}
  BY <1>5 DEF CountActiveLeasesByPool, redisCountActiveLeases, ZCard, ListActiveIPs
<1>10. \A t \in Clients : CountActiveLeasesByIdentifier(t)
                            = Cardinality({i \in Objects : t \in obj[i].lease.tags})
  <2>1. \A t \in Clients : t \in Tags
    BY ActiveStoreAssumption
  <2> QED BY <2>1, <1>6 DEF CountActiveLeasesByIdentifier, ZCard
<1>11. \A t \in Tags : CountActiveLeasesByDeviceType[t]
                         = Cardinality({i \in Ids : Live(i) /\ t \in obj[i].lease.tags})
  BY <1>6, <1>7 DEF CountActiveLeasesByDeviceType, ZCard
<1> QED BY <1>3, <1>8, <1>9, <1>10, <1>11 DEF IndexAgrees

LEMMA EndsAreRecorded ==
  ASSUME ActiveInv
  PROVE  EndRecorded
<1> SUFFICES ASSUME NEW e \in ended
             PROVE  /\ e.id \in SearchLeaseHistory(e.lease.state)
                    /\ e.id \notin ListLeases("ACTIVE")
                    /\ e.lease.cooldown > clock => e.lease.addr \in ListCooldownIPs
  BY DEF EndRecorded
<1>1. e.id \in Ids /\ e.lease \in Leases
  BY InvParts DEF ActiveTypes
<1>2. obj[e.id] = None /\ history[e.id] = Row(e.lease)
  BY InvParts DEF StoreSafe, EndsSound
<1>3. /\ history[e.id] # None /\ history[e.id].state = e.lease.state
      /\ history[e.id].addr = e.lease.addr /\ history[e.id].cooldown = e.lease.cooldown
  <2>1. Row(e.lease) \in HistoryRows
    BY <1>1 DEF Row, HistoryRows, Leases
  <2> QED BY <1>2, <2>1, ActiveStoreAssumption DEF Row
<1>4. e.id \in SearchLeaseHistory(e.lease.state) /\ e.id \in SearchLeaseHistory(None)
  BY <1>1, <1>3 DEF SearchLeaseHistory
<1>5. "ACTIVE" # None
  BY ActiveStoreAssumption DEF LeaseStates
<1>6. e.id \notin ListLeases("ACTIVE")
  BY <1>2, <1>5 DEF ListLeases, ListLeasesByState, redisListActiveLeases, Objects
<1>7. e.lease.cooldown > clock => e.lease.addr \in ListCooldownIPs
  BY <1>1, <1>3, <1>4 DEF ListCooldownIPs
<1> QED BY <1>4, <1>6, <1>7

LEMMA ActiveStarts ==
  ASSUME ActiveInit
  PROVE  ActiveInv
<1>1. ActiveTypes
  BY ActiveStoreAssumption DEF ActiveInit, ActiveTypes
<1>2. StoreSafe
  BY DEF ActiveInit, StoreSafe, ObjectsIndexed, OneHolder, IndexesBacked, EndsSound, Holds
<1>3. CallsSound
  BY DEF ActiveInit, CallsSound, CallSound, Ready
<1> QED BY <1>1, <1>2, <1>3 DEF ActiveInv, StoreSafe

LEMMA ActiveKeeps ==
  ASSUME ActiveInv, OneWorker, [ActiveNext]_activeVars
  PROVE  ActiveInv'
<1>1. CASE \E w \in StoreWorkers, t \in Clients, d \in Tags \ Clients : Allocate(w, t, d)
  BY <1>1, AllocateKeeps
<1>2. CASE \E w \in StoreWorkers, t \in Clients, s \in {"RELEASED", "COOLDOWN"} : End(w, t, s)
  BY <1>2, EndKeeps
<1>3. CASE \E w \in StoreWorkers : ReadIndex(w)
  BY <1>3, ReadIndexKeeps
<1>4. CASE \E w \in StoreWorkers : Exec(w)
  BY <1>4, ExecKeeps
<1>5. CASE \E w \in StoreWorkers : Archive(w)
  BY <1>5, ArchiveKeeps
<1>6. CASE ListExpiredLeases
  BY <1>6, RebuildKeeps
<1>7. CASE ActiveTick
  BY <1>7, ActiveTickKeeps
<1>9. CASE \E w \in StoreWorkers : enforceConflictPrevention(w)
  BY <1>9, ConflictKeeps
<1>8. CASE UNCHANGED activeVars
  BY <1>8 DEF activeVars, ActiveInv, ActiveTypes, ObjectsIndexed, IndexedAs, OneHolder,
     IndexesBacked, CallsSound, CallSound, WriteSound, EndsSound, Holds, Row
<1> QED BY <1>1, <1>2, <1>3, <1>4, <1>5, <1>6, <1>7, <1>8, <1>9 DEF ActiveNext

\* With one call at a time, whatever the histories of leases, renewals, releases, failed
\* archivings and expiries, the sorted sets of syncRedisActiveLeaseIndex answer what the
\* lease objects say, and an end UpdateLease acknowledged is found in lease_history_v4
\* and nowhere among the active leases, an address whose probe was answered being kept
\* back until the hold is over (repository.go with WithRedisActiveStore, and
\* service.go:1915).
THEOREM StoresAnswerTruly ==
  ASSUME \A v, w \in StoreWorkers : v = w
  PROVE  ActiveSpec => []StoresSound
<1>1. ActiveInit => ActiveInv
  BY ActiveStarts
<1>2. ActiveInv /\ [ActiveNext]_activeVars => ActiveInv'
  BY ActiveKeeps DEF OneWorker
<1>3. ActiveInv => StoresSound
  BY IndexesAgree, EndsAreRecorded DEF StoresSound
<1> QED BY <1>1, <1>2, <1>3, PTL DEF ActiveSpec

-----------------------------------------------------------------------------
(* The selection of addresses.  First the window that setup determines.    *)

\* Induction over the natural numbers, for sets.
LEMMA Climb ==
  ASSUME NEW T, 0 \in T, \A k \in Nat : k \in T => k + 1 \in T
  PROVE  Nat \subseteq T
<1>1. SUFFICES ASSUME Nat \ T # {} PROVE FALSE
  OBVIOUS
<1>2. PICK m \in Nat \ T : \A q \in Nat : q < m => q \notin Nat \ T
  BY <1>1, Least
<1>3. m # 0 /\ m - 1 \in Nat /\ m - 1 < m /\ m - 1 + 1 = m
  BY <1>2
<1> QED
  BY <1>2, <1>3

LEMMA LeastOf ==
  ASSUME NEW S \in SUBSET Nat, S # {}
  PROVE  Min(S) \in S /\ \A y \in S : Min(S) <= y
<1>1. PICK m \in S : \A q \in Nat : q < m => q \notin S
  BY Least
<1>2. \A y \in S : m =< y
  BY <1>1
<1> QED
  BY <1>1, <1>2 DEF Min

LEMMA MostOf ==
  ASSUME NEW L \in Nat, NEW S \in SUBSET (1..L), S # {}
  PROVE  Max(S) \in S
<1>1. PICK T \in SUBSET Nat : T = {L - y : y \in S}
  <2>1. \A y \in S : L - y \in Nat
    OBVIOUS
  <2> QED
    BY <2>1
<1>2. T # {}
  BY <1>1
<1>3. PICK m \in T : \A q \in Nat : q < m => q \notin T
  BY <1>2, Least
<1>4. PICK x \in S : m = L - x
  BY <1>1
<1>5. \A y \in S : y <= x
  <2> SUFFICES ASSUME NEW y \in S PROVE y <= x
    OBVIOUS
  <2>1. L - y \in T /\ L - y \in Nat
    BY <1>1
  <2> QED
    BY <1>3, <1>4, <2>1
<1> QED
  BY <1>4, <1>5, Zenon DEF Max

LEMMA OfTwo ==
  ASSUME NEW x \in Int, NEW y \in Int
  PROVE  /\ Max({x, y}) = IF x >= y THEN x ELSE y
         /\ Min({x, y}) = IF x <= y THEN x ELSE y
<1>1. PICK m \in {x, y} : m = (IF x >= y THEN x ELSE y) /\ m >= x /\ m >= y
  OBVIOUS
<1>2. PICK l \in {x, y} : l = (IF x <= y THEN x ELSE y) /\ l <= x /\ l <= y
  OBVIOUS
<1>3. /\ \E z \in {x, y} : \A w \in {x, y} : z >= w
      /\ \E z \in {x, y} : \A w \in {x, y} : z =< w
  BY <1>1, <1>2
<1>4. /\ Max({x, y}) \in {x, y} /\ \A w \in {x, y} : Max({x, y}) >= w
      /\ Min({x, y}) \in {x, y} /\ \A w \in {x, y} : Min({x, y}) =< w
  BY <1>3 DEF Max, Min
<1> QED
  BY <1>4

\* What is left of a window of n addresses when at most half is kept in reserve.
LEMMA ReserveLeaves ==
  ASSUME NEW n \in Nat \ {0}, NEW r \in 0..50
  PROVE  n - (n * r) \div 100 \in 1..n
OBVIOUS

LEMMA SetupTypes ==
  ASSUME setup \in Setups
  PROVE  /\ setup.v4 \in BOOLEAN /\ setup.redis \in BOOLEAN /\ setup.mode \in Modes
         /\ setup.lo \in Addrs \cup {NoAddr} /\ setup.hi \in Addrs \cup {NoAddr}
         /\ setup.reserve \in 0..50 /\ setup.weight \in Nat
         /\ setup.exclusions \in SUBSET (Addrs \X Addrs) /\ setup.attempts \in Nat \ {0}
         /\ setup.first \in Nat /\ last \in Nat /\ Top \in Int /\ setup.first <= last /\ last <= Top
         /\ setup.hostBits > 1 => setup.first + 1 <= last - 1
<1>1. setup \in [v4 : BOOLEAN, first : Addrs, hostBits : 0..Width,
                 lo : Addrs \cup {NoAddr}, hi : Addrs \cup {NoAddr},
                 reserve : 0..50, mode : Modes, weight : Nat,
                 exclusions : SUBSET (Addrs \X Addrs), protect : Nat,
                 redis : BOOLEAN, probing : BOOLEAN, attempts : Nat \ {0}]
  BY ScanAssumption
<1>2. /\ setup.v4 \in BOOLEAN /\ setup.redis \in BOOLEAN /\ setup.mode \in Modes
      /\ setup.lo \in Addrs \cup {NoAddr} /\ setup.hi \in Addrs \cup {NoAddr}
      /\ setup.reserve \in 0..50 /\ setup.weight \in Nat
      /\ setup.exclusions \in SUBSET (Addrs \X Addrs) /\ setup.attempts \in Nat \ {0}
      /\ setup.first \in Addrs /\ setup.hostBits \in 0..Width
  BY <1>1
<1>3. PICK h, size : h \in 0..Width /\ h = setup.hostBits /\ size = 2^setup.hostBits /\ size = 2^h
  BY <1>2
<1>4. h \in Nat /\ Width \in Nat /\ size \in Int /\ size > h
  <2>1. h \in Nat /\ Width \in Nat
    BY <1>3, ScanAssumption
  <2>2. 2^h \in Int
    BY <2>1
  <2> QED
    BY <1>3, <2>1, <2>2, PowersGrow
<1>5. Top \in Int
  BY <1>4 DEF Top
<1>6. setup.first + size - 1 <= Top
  BY <1>3, ScanAssumption
<1>7. setup.first \in Nat
  BY <1>2, <1>5 DEF Addrs
<1>8. last = setup.first + size - 1
  BY <1>3 DEF last
<1> QED
  BY <1>2, <1>3, <1>4, <1>5, <1>6, <1>7, <1>8

WindowInv ==
  /\ setup \in Setups
  /\ start \in Nat /\ end \in Nat /\ allocEnd \in Nat
  /\ setup.first <= start /\ start <= allocEnd /\ allocEnd <= end /\ end <= last
  /\ allocEnd = start + (end - start + 1) - ((end - start + 1) * setup.reserve) \div 100 - 1

LEMMA BoundsHold ==
  ASSUME setup \in Setups
  PROVE  /\ resolvePoolBounds[1] \in Nat /\ resolvePoolBounds[2] \in Nat
         /\ setup.first <= resolvePoolBounds[1] /\ resolvePoolBounds[1] <= resolvePoolBounds[2]
         /\ resolvePoolBounds[2] <= last
<1>1. /\ setup.first \in Nat /\ last \in Nat /\ Top \in Int /\ setup.first <= last
      /\ setup.hostBits > 1 => setup.first + 1 <= last - 1
      /\ setup.lo \in Addrs \cup {NoAddr} /\ setup.hi \in Addrs \cup {NoAddr}
  BY SetupTypes
<1>2. PICK l, h : l = DefaultRange[1] /\ h = DefaultRange[2]
  OBVIOUS
<1>3. /\ l \in Nat /\ h \in Nat /\ setup.first <= l /\ l <= h /\ h <= last /\ DefaultRange = <<l, h>>
  BY <1>1, <1>2 DEF DefaultRange
<1>4. PICK lo, hi :
        /\ lo = IF setup.lo \in Addrs /\ Within(setup.lo) THEN setup.lo ELSE DefaultRange[1]
        /\ hi = IF setup.hi \in Addrs /\ Within(setup.hi) THEN setup.hi ELSE DefaultRange[2]
  OBVIOUS
<1>5. /\ lo \in Nat /\ hi \in Nat /\ setup.first <= lo /\ hi <= last
  BY <1>1, <1>2, <1>3, <1>4 DEF Within, Addrs
<1>6. resolvePoolBounds = IF lo > hi THEN <<l, h>> ELSE <<lo, hi>>
  BY <1>3, <1>4 DEF resolvePoolBounds
<1>7. CASE lo > hi
  BY <1>3, <1>6, <1>7
<1>8. CASE ~ (lo > hi)
  BY <1>5, <1>6, <1>8
<1> QED
  BY <1>7, <1>8

LEMMA WindowStarts == ScanInit => WindowInv
<1> SUFFICES ASSUME ScanInit PROVE WindowInv
  OBVIOUS
<1>1. PICK b1, b2 : b1 = resolvePoolBounds[1] /\ b2 = resolvePoolBounds[2]
  OBVIOUS
<1>2. /\ setup \in Setups /\ b1 \in Nat /\ b2 \in Nat
      /\ setup.first <= b1 /\ b1 <= b2 /\ b2 <= last
  BY <1>1, BoundsHold DEF ScanInit
<1>3. window = [start |-> b1, end |-> b2, allocEnd |-> applyReserveWindow(b1, b2)]
  BY <1>1 DEF ScanInit
<1>4. PICK n \in Nat \ {0}, r \in 0..50 : n = b2 - b1 + 1 /\ r = setup.reserve
  <2>1. b2 - b1 + 1 \in Nat \ {0} /\ setup.reserve \in 0..50
    BY <1>2, SetupTypes
  <2> QED
    BY <2>1
<1>5. PICK kept : kept = n - (n * r) \div 100
  OBVIOUS
<1>6. kept \in 1..n
  BY <1>5, ReserveLeaves
<1>7. applyReserveWindow(b1, b2) = b1 + kept - 1
  <2>1. applyReserveWindow(b1, b2) = IF r >= 100 \/ kept <= 0 THEN NoAddr ELSE b1 + kept - 1
    BY <1>4, <1>5 DEF applyReserveWindow
  <2> QED
    BY <1>6, <2>1
<1>8. start = b1 /\ end = b2 /\ allocEnd = b1 + kept - 1
  BY <1>3, <1>7 DEF start, end, allocEnd
<1>9. allocEnd = start + (end - start + 1) - ((end - start + 1) * setup.reserve) \div 100 - 1
  <2>1. end - start + 1 = n /\ setup.reserve = r
    BY <1>4, <1>8
  <2>2. (n * r) \div 100 \in Int
    OBVIOUS
  <2> QED
    BY <1>2, <1>4, <1>5, <1>8, <2>1, <2>2
<1> QED
  BY <1>2, <1>4, <1>6, <1>8, <1>9 DEF WindowInv

\* The part of the window that is not held in reserve.
LEMMA WindowEnds ==
  ASSUME WindowInv, NEW a \in Int
  PROVE  InWindow(a) <=> a \in start..allocEnd
<1>1. PICK n, c : n = end - start + 1 /\ c = (n * setup.reserve) \div 100
  OBVIOUS
<1>2. n \in Int /\ c \in Int /\ start \in Nat /\ end \in Nat /\ allocEnd \in Nat
  <2>1. n \in Int /\ setup.reserve \in Int
    BY <1>1, SetupTypes DEF WindowInv
  <2> QED
    BY <1>1, <2>1 DEF WindowInv
<1>3. allocEnd = start + n - c - 1 /\ allocEnd <= end
  BY <1>1 DEF WindowInv
<1>4. InWindow(a) <=> start <= a /\ a <= end /\ a - start + 1 <= n - c
  BY <1>1 DEF InWindow
<1> QED
  BY <1>2, <1>3, <1>4

LEMMA ExcludedIs ==
  ASSUME WindowInv, NEW a \in start..end
  PROVE  isExcluded(a) <=> \E e \in setup.exclusions :
           /\ Within(e[1]) /\ Within(e[2]) /\ e[1] <= a /\ a <= e[2]
<1>1. start \in Nat /\ end \in Nat /\ a \in Int /\ start <= a /\ a <= end
  BY DEF WindowInv
<1>2. \A e \in setup.exclusions : e[1] \in Int /\ e[2] \in Int
  <2>1. setup.exclusions \in SUBSET (Addrs \X Addrs) /\ Top \in Int
    BY SetupTypes DEF WindowInv
  <2> QED
    BY <2>1 DEF Addrs
<1>3. \A e \in setup.exclusions :
        /\ Clip(e)[1] = IF e[1] >= start THEN e[1] ELSE start
        /\ Clip(e)[2] = IF e[2] <= end THEN e[2] ELSE end
  <2> SUFFICES ASSUME NEW e \in setup.exclusions
               PROVE  /\ Clip(e)[1] = IF e[1] >= start THEN e[1] ELSE start
                      /\ Clip(e)[2] = IF e[2] <= end THEN e[2] ELSE end
    OBVIOUS
  <2>1. e[1] \in Int /\ e[2] \in Int /\ start \in Int /\ end \in Int
    BY <1>1, <1>2
  <2>2. Max({e[1], start}) = IF e[1] >= start THEN e[1] ELSE start
    BY <2>1, OfTwo
  <2>3. Min({e[2], end}) = IF e[2] <= end THEN e[2] ELSE end
    BY <2>1, OfTwo
  <2> QED
    BY <2>2, <2>3 DEF Clip
<1>4. ASSUME NEW e \in setup.exclusions
      PROVE  Clip(e)[1] <= a /\ a <= Clip(e)[2] <=> e[1] <= a /\ a <= e[2]
  BY <1>1, <1>2, <1>3
<1>5. \A e \in setup.exclusions : e[1] <= a /\ a <= e[2] => e[2] >= start /\ e[1] <= end
  BY <1>1, <1>2
<1>6. isExcluded(a) <=> \E e \in setup.exclusions :
        /\ Within(e[1]) /\ Within(e[2]) /\ e[2] >= start /\ e[1] <= end
        /\ Clip(e)[1] <= a /\ a <= Clip(e)[2]
  BY Zenon DEF isExcluded, buildExclusions
<1> QED
  BY <1>4, <1>5, <1>6

\* What the reference allows, in the terms of the scans.
LEMMA AllowedIs ==
  ASSUME WindowInv
  PROVE  /\ OpenAddrs = {a \in start..allocEnd : ~Skipped(a)}
         /\ AllowedAddrs = {a \in start..allocEnd : ~Skipped(a) /\ (setup.v4 => ~acdRefuses(a))}
<1>1. /\ start \in Nat /\ end \in Nat /\ allocEnd \in Nat /\ allocEnd <= end /\ end <= last /\ last <= Top
      /\ Top \in Int /\ last \in Nat
  BY SetupTypes DEF WindowInv
<1>2. \A a \in start..allocEnd : a \in Addrs /\ a \in start..end /\ a \in Int
  BY <1>1 DEF Addrs
<1>3. \A a \in Addrs : a \in Int
  BY <1>1 DEF Addrs
<1>4. \A a \in Int : InWindow(a) <=> a \in start..allocEnd
  BY WindowEnds
<1>5. ASSUME NEW a \in start..allocEnd
      PROVE  Skipped(a) <=> a \in used \/ a \in cool \/ \E e \in setup.exclusions :
               /\ Within(e[1]) /\ Within(e[2]) /\ e[1] <= a /\ a <= e[2]
  <2>1. a \in start..end
    BY <1>2
  <2> QED
    BY <2>1, ExcludedIs DEF Skipped
<1>6. ASSUME NEW a \in start..allocEnd
      PROVE  a \in OpenAddrs <=> ~Skipped(a)
  <2>1. a \in Addrs /\ InWindow(a)
    BY <1>2, <1>4
  <2> QED
    BY <1>5, <2>1 DEF OpenAddrs
<1>7. ASSUME NEW a \in OpenAddrs PROVE a \in start..allocEnd
  <2>1. a \in Addrs /\ InWindow(a)
    BY <1>7 DEF OpenAddrs
  <2> QED
    BY <1>3, <1>4, <2>1
<1>8. OpenAddrs = {a \in start..allocEnd : ~Skipped(a)}
  BY <1>6, <1>7
<1> QED
  BY <1>8 DEF AllowedAddrs

-----------------------------------------------------------------------------
(* The scans.                                                              *)

LEMMA RangeScanned ==
  ASSUME WindowInv, NEW from \in Nat, NEW to \in Nat, to <= allocEnd,
         NEW free \in SUBSET Nat, NEW result, result = scanIPv4Range(from, to, free)
  PROVE  /\ result = NoAddr => free \cap (from..to) = {}
         /\ BelowTop /\ result # NoAddr => result \in free \cap (from..to)
         /\ result # NoAddr => result \in Addrs
<1>1. NoAddr \notin Int /\ allocEnd \in Nat /\ Top \in Int /\ allocEnd <= Top
  BY SetupTypes, ScanAssumption DEF WindowInv
<1>2. \A a \in from..to : a \in Addrs
  BY <1>1 DEF Addrs
<1>3. CASE to < from
  BY <1>3 DEF scanIPv4Range
<1>4. CASE ~(to < from) /\ free \cap (from..to) # {}
  <2>1. Min(free \cap (from..to)) \in free \cap (from..to)
    BY <1>4, LeastOf
  <2>2. result = Min(free \cap (from..to))
    BY <1>4 DEF scanIPv4Range
  <2> QED
    BY <1>1, <1>2, <2>1, <2>2
<1>5. CASE ~(to < from) /\ free \cap (from..to) = {} /\ to # Top
  BY <1>5 DEF scanIPv4Range
<1>6. CASE ~(to < from) /\ free \cap (from..to) = {} /\ to = Top
  <2>1. ~BelowTop
    BY <1>1, <1>6 DEF BelowTop
  <2>2. PICK S \in SUBSET Addrs : S = {a \in Addrs : ~Skipped(a) /\ ~acdRefuses(a)}
    OBVIOUS
  <2>3. result = LowestOf(S)
    BY <1>6, <2>2 DEF scanIPv4Range
  <2>4. Addrs \in SUBSET Nat
    BY <1>1 DEF Addrs
  <2>5. S # {} => Min(S) \in S
    BY <2>4, LeastOf
  <2> QED
    BY <1>6, <2>1, <2>3, <2>5 DEF LowestOf
<1> QED
  BY <1>3, <1>4, <1>5, <1>6

\* What a scan must return, whatever its order.
Found(result) ==
  /\ result = NoAddr => Free \cap (start..allocEnd) = {}
  /\ BelowTop /\ result # NoAddr => result \in Free \cap (start..allocEnd)
  /\ result # NoAddr => result \in Addrs

LEMMA FreeNumbers == ASSUME WindowInv PROVE Free \in SUBSET Nat
<1>1. start \in Nat /\ end \in Nat
  BY DEF WindowInv
<1> QED
  BY <1>1 DEF Free

LEMMA SequentialFinds == ASSUME WindowInv PROVE Found(Sequential(Free))
<1>1. start \in Nat /\ allocEnd \in Nat /\ allocEnd <= allocEnd
  BY DEF WindowInv
<1>2. PICK result : result = scanIPv4Range(start, allocEnd, Free)
  OBVIOUS
<1>3. Found(result)
  BY <1>1, <1>2, FreeNumbers, RangeScanned DEF Found
<1> QED
  BY <1>2, <1>3 DEF Sequential

LEMMA WeightNormal == ASSUME WindowInv PROVE normalizePriorityWeight \in 1..100
<1>1. PICK w \in Nat : w = setup.weight
  BY SetupTypes DEF WindowInv
<1>2. PICK h \in Int : h = 100
  OBVIOUS
<1>3. Min({w, h}) = IF w <= h THEN w ELSE h
  BY OfTwo
<1>4. normalizePriorityWeight = IF w = 0 THEN 50 ELSE Min({w, h})
  BY <1>1, <1>2 DEF normalizePriorityWeight
<1> QED
  BY <1>2, <1>3, <1>4

LEMMA PriorityFinds == ASSUME WindowInv PROVE Found(Priority(Free))
<1>1. start \in Nat /\ allocEnd \in Nat /\ start <= allocEnd
  BY DEF WindowInv
<1>2. PICK w \in 1..100, n \in Nat : w = normalizePriorityWeight /\ n = allocEnd - start + 1
  <2>1. allocEnd - start + 1 \in Nat
    BY <1>1
  <2> QED
    BY <2>1, WeightNormal
<1>3. PICK share \in Nat \ {0} : share = Max({1, (n * w) \div 100})
  <2>1. (n * w) \div 100 \in Int /\ 1 \in Int
    OBVIOUS
  <2>2. Max({1, (n * w) \div 100}) = IF 1 >= (n * w) \div 100 THEN 1 ELSE (n * w) \div 100
    BY <2>1, OfTwo
  <2> QED
    BY <2>1, <2>2
<1>4. PICK split \in start..allocEnd :
        split = IF w < 100 THEN Min({start + share - 1, allocEnd}) ELSE allocEnd
  <2>1. start + share - 1 \in Int /\ start <= start + share - 1 /\ allocEnd \in Int
    BY <1>1
  <2>2. Min({start + share - 1, allocEnd}) =
          IF start + share - 1 <= allocEnd THEN start + share - 1 ELSE allocEnd
    BY <2>1, OfTwo
  <2> QED
    BY <1>1, <2>1, <2>2
<1>5. PICK near, far : near = scanIPv4Range(start, split, Free) /\ far = scanIPv4Range(split + 1, allocEnd, Free)
  OBVIOUS
<1>6. Priority(Free) = IF near # NoAddr \/ split >= allocEnd THEN near ELSE far
  BY <1>2, <1>3, <1>4, <1>5 DEF Priority
<1>7. /\ split \in Nat /\ split + 1 \in Nat /\ split <= allocEnd /\ allocEnd <= allocEnd
      /\ start..allocEnd = (start..split) \cup ((split + 1)..allocEnd)
      /\ split >= allocEnd => start..allocEnd = start..split
  BY <1>1
<1>8. /\ near = NoAddr => Free \cap (start..split) = {}
      /\ BelowTop /\ near # NoAddr => near \in Free \cap (start..split)
      /\ near # NoAddr => near \in Addrs
  BY <1>1, <1>5, <1>7, FreeNumbers, RangeScanned
<1>9. /\ far = NoAddr => Free \cap ((split + 1)..allocEnd) = {}
      /\ BelowTop /\ far # NoAddr => far \in Free \cap ((split + 1)..allocEnd)
      /\ far # NoAddr => far \in Addrs
  BY <1>1, <1>5, <1>7, FreeNumbers, RangeScanned
<1>10. Found(near) \/ ~(near # NoAddr \/ split >= allocEnd)
  BY <1>7, <1>8 DEF Found
<1>11. Found(far) \/ near # NoAddr
  BY <1>7, <1>8, <1>9 DEF Found
<1> QED
  BY <1>6, <1>10, <1>11

\* The n-th address of a round that starts behind cursor c.
Place(c, n) == IF c + n <= allocEnd THEN c + n ELSE c + n - (allocEnd - start + 1)

LEMMA CursorIn ==
  ASSUME WindowInv, cursor = NoAddr \/ cursor \in Int
  PROVE  roundRobinCursor \in start..allocEnd
BY DEF WindowInv, roundRobinCursor

LEMMA RoundIs ==
  ASSUME WindowInv, cursor = NoAddr \/ cursor \in Int
  PROVE  Round = [n \in 1..(allocEnd - start + 1) |-> Place(roundRobinCursor, n)]
<1>1. PICK c \in start..allocEnd : c = roundRobinCursor
  BY CursorIn
<1>2. start \in Nat /\ allocEnd \in Nat /\ start <= allocEnd /\ c \in Int
  BY DEF WindowInv
<1>3. PICK len \in Nat \ {0} : len = allocEnd - start + 1
  <2>1. allocEnd - start + 1 \in Nat \ {0}
    BY <1>2
  <2> QED
    BY <2>1
<1> DEFINE Turns(f) == f = [i \in 0..(allocEnd - start + 1) |->
                               IF i = 0 THEN roundRobinCursor ELSE incrementIPv4(f[i - 1])]
           turn == CHOOSE f : Turns(f)
           places == [i \in 0..len |-> Place(c, i)]
<1>4. \A i \in 1..len : i - 1 \in 0..len /\ Place(c, i) = incrementIPv4(Place(c, i - 1))
  BY <1>2, <1>3 DEF Place, incrementIPv4
<1>5. Place(c, 0) = c
  BY <1>2 DEF Place
<1>6. Turns(places)
  <2>1. \A i \in 0..len : places[i] = IF i = 0 THEN c ELSE incrementIPv4(places[i - 1])
    <3> SUFFICES ASSUME NEW i \in 0..len
                 PROVE  places[i] = IF i = 0 THEN c ELSE incrementIPv4(places[i - 1])
      OBVIOUS
    <3>1. CASE i = 0
      BY <1>5, <3>1
    <3>2. CASE i # 0
      <4>1. i \in 1..len
        BY <3>2
      <4> QED
        BY <1>4, <4>1
    <3> QED
      BY <3>1, <3>2
  <2>2. places = [i \in 0..len |-> places[i]]
    OBVIOUS
  <2> HIDE DEF places
  <2>3. places = [i \in 0..len |-> IF i = 0 THEN c ELSE incrementIPv4(places[i - 1])]
    BY <2>1, <2>2
  <2> QED
    BY <1>1, <1>3, <2>3
<1>7. Turns(turn)
  <2> HIDE DEF Turns, places
  <2> QED
    BY <1>6, Zenon
<1>8. Round = [n \in 1..(allocEnd - start + 1) |-> turn[n]]
  BY Zenon DEF Round
<1> HIDE DEF turn
<1>9. PICK t : t = turn
  OBVIOUS
<1>10. Turns(t)
  <2> HIDE DEF Turns
  <2> QED
    BY <1>7, <1>9
<1>11. \A i \in 0..len : t[i] = IF i = 0 THEN c ELSE incrementIPv4(t[i - 1])
  BY <1>1, <1>3, <1>10
<1> DEFINE T == {k \in Nat : k <= len => t[k] = Place(c, k)}
<1>12. 0 \in T
  BY <1>3, <1>5, <1>11
<1>13. ASSUME NEW k \in Nat, k \in T PROVE k + 1 \in T
  <2> SUFFICES ASSUME k + 1 <= len PROVE t[k + 1] = Place(c, k + 1)
    OBVIOUS
  <2>1. k <= len /\ k + 1 \in 0..len /\ k + 1 # 0 /\ k + 1 - 1 = k /\ k + 1 \in 1..len
    BY <1>3
  <2>2. t[k + 1] = incrementIPv4(t[k])
    BY <1>11, <2>1
  <2>3. Place(c, k + 1) = incrementIPv4(Place(c, k))
    BY <1>4, <2>1
  <2> QED
    BY <1>13, <2>1, <2>2, <2>3
<1>14. Nat \subseteq T
  BY <1>12, <1>13, Climb
<1>15. \A n \in 1..len : t[n] = Place(c, n)
  BY <1>3, <1>14
<1> QED
  BY <1>1, <1>3, <1>8, <1>9, <1>15

\* When address a of the window is due in a round that starts behind c.
Turn(c, a) == IF a > c THEN a - c ELSE a - c + (allocEnd - start + 1)

LEMMA RoundCovers ==
  ASSUME WindowInv, NEW c \in start..allocEnd
  PROVE  /\ \A n \in 1..(allocEnd - start + 1) : Place(c, n) \in start..allocEnd /\ Turn(c, Place(c, n)) = n
         /\ \A a \in start..allocEnd : /\ Turn(c, a) \in 1..(allocEnd - start + 1)
                                       /\ Place(c, Turn(c, a)) = a
<1>1. start \in Nat /\ allocEnd \in Nat /\ start <= allocEnd /\ c \in Int /\ start <= c /\ c <= allocEnd
  BY DEF WindowInv
<1>2. ASSUME NEW n \in 1..(allocEnd - start + 1)
      PROVE  Place(c, n) \in start..allocEnd /\ Turn(c, Place(c, n)) = n
  <2>1. CASE c + n <= allocEnd
    BY <1>1, <2>1 DEF Place, Turn
  <2>2. CASE ~(c + n <= allocEnd)
    BY <1>1, <2>2 DEF Place, Turn
  <2> QED
    BY <2>1, <2>2
<1>3. ASSUME NEW a \in start..allocEnd
      PROVE  Turn(c, a) \in 1..(allocEnd - start + 1) /\ Place(c, Turn(c, a)) = a
  <2>1. CASE a > c
    BY <1>1, <2>1 DEF Place, Turn
  <2>2. CASE ~(a > c)
    BY <1>1, <2>2 DEF Place, Turn
  <2> QED
    BY <2>1, <2>2
<1> QED
  BY <1>2, <1>3

\* After address r, what was due later is due so much sooner.
LEMMA TurnsAdvance ==
  ASSUME WindowInv, NEW c \in start..allocEnd, NEW r \in start..allocEnd, NEW a \in start..allocEnd,
         a # r, Turn(c, r) <= Turn(c, a)
  PROVE  Turn(r, a) = Turn(c, a) - Turn(c, r) /\ Turn(c, r) >= 1
<1>1. /\ start \in Nat /\ allocEnd \in Nat /\ start <= allocEnd
      /\ c \in Int /\ start <= c /\ c <= allocEnd
      /\ r \in Int /\ start <= r /\ r <= allocEnd /\ a \in Int /\ start <= a /\ a <= allocEnd
  BY DEF WindowInv
<1>2. CASE r > c
  BY <1>1, <1>2 DEF Turn
<1>3. CASE ~(r > c)
  BY <1>1, <1>3 DEF Turn
<1> QED
  BY <1>2, <1>3

LEMMA RoundRobinFinds ==
  ASSUME WindowInv, cursor = NoAddr \/ cursor \in Int, NEW r, r = RoundRobin(Free)
  PROVE  /\ r = NoAddr => Free \cap (start..allocEnd) = {}
         /\ r # NoAddr => /\ r \in Free \cap (start..allocEnd)
                          /\ \A a \in Free \cap (start..allocEnd) :
                               Turn(roundRobinCursor, r) <= Turn(roundRobinCursor, a)
<1>1. PICK c \in start..allocEnd : c = roundRobinCursor
  BY CursorIn
<1>2. PICK len \in Nat \ {0} : len = allocEnd - start + 1
  <2>1. allocEnd - start + 1 \in Nat \ {0}
    BY DEF WindowInv
  <2> QED
    BY <2>1
<1>3. PICK round, hits : round = Round /\ hits = {n \in DOMAIN round : round[n] \in Free}
  OBVIOUS
<1>4. DOMAIN round = 1..len /\ \A n \in 1..len : round[n] = Place(c, n)
  BY <1>1, <1>2, <1>3, RoundIs
<1>5. hits \in SUBSET Nat /\ \A n : n \in hits <=> n \in 1..len /\ Place(c, n) \in Free
  BY <1>3, <1>4
<1>6. /\ \A n \in 1..len : Place(c, n) \in start..allocEnd /\ Turn(c, Place(c, n)) = n
      /\ \A a \in start..allocEnd : Turn(c, a) \in 1..len /\ Place(c, Turn(c, a)) = a
  BY <1>2, RoundCovers
<1>7. \A a \in Free \cap (start..allocEnd) : Turn(c, a) \in hits
  BY <1>5, <1>6
<1>8. r = IF hits = {} THEN NoAddr ELSE round[Min(hits)]
  BY <1>3 DEF RoundRobin
<1>9. CASE hits = {}
  BY <1>7, <1>8, <1>9
<1>10. CASE hits # {}
  <2>1. PICK m \in hits : m = Min(hits) /\ \A n \in hits : m <= n
    BY <1>5, <1>10, LeastOf
  <2>2. m \in 1..len /\ r = Place(c, m) /\ Place(c, m) \in Free
    BY <1>4, <1>5, <1>8, <1>10, <2>1
  <2>3. r \in Free \cap (start..allocEnd) /\ Turn(c, r) = m
    BY <1>6, <2>2
  <2>4. r # NoAddr
    <3>1. r \in Int
      BY <2>3
    <3> QED
      BY <3>1, ScanAssumption
  <2> QED
    BY <1>1, <1>7, <2>1, <2>3, <2>4
<1> QED
  BY <1>9, <1>10

LEMMA WindowAddrs == ASSUME WindowInv PROVE start..allocEnd \subseteq Addrs /\ start..end \subseteq Addrs
<1>1. /\ start \in Nat /\ end \in Nat /\ allocEnd \in Nat /\ allocEnd <= end /\ end <= last /\ last <= Top
      /\ Top \in Int /\ last \in Nat
  BY SetupTypes DEF WindowInv
<1> QED
  BY <1>1 DEF Addrs

LEMMA NextFinds ==
  ASSUME WindowInv, cursor = NoAddr \/ cursor \in Int
  PROVE  Found(nextAvailableIPv4(Free))
<1>1. allocEnd # NoAddr
  BY ScanAssumption DEF WindowInv
<1>2. PICK r : r = RoundRobin(Free)
  OBVIOUS
<1>3. Found(r)
  BY <1>2, RoundRobinFinds, WindowAddrs DEF Found
<1>4. CASE setup.mode = "ROUND_ROBIN"
  BY <1>1, <1>2, <1>3, <1>4 DEF nextAvailableIPv4
<1>5. CASE setup.mode = "PRIORITY_WEIGHTED"
  BY <1>1, <1>5, PriorityFinds DEF nextAvailableIPv4
<1>6. CASE setup.mode \notin {"ROUND_ROBIN", "PRIORITY_WEIGHTED"}
  BY <1>1, <1>6, SequentialFinds DEF nextAvailableIPv4
<1> QED
  BY <1>4, <1>5, <1>6

-----------------------------------------------------------------------------
(* The bitmap.                                                             *)

\* One step of the search on bitmap b.
TurnStep(b, f, from) ==
  IF from > allocEnd - start \/ BitPos(b, from) = NoAddr THEN {}
  ELSE IF BitPos(b, from) > allocEnd - start THEN {}
  ELSE IF Skipped(start + BitPos(b, from)) THEN {BitPos(b, from)} \cup f[BitPos(b, from) + 1]
  ELSE {BitPos(b, from)}

LEMMA BitFound ==
  ASSUME NEW b \in SUBSET Nat, NEW from \in Nat, BitPos(b, from) # NoAddr
  PROVE  BitPos(b, from) \in b /\ from <= BitPos(b, from)
<1>1. PICK hits \in SUBSET Nat : hits = {p \in b : p >= ByteBits * from}
  OBVIOUS
<1>2. BitPos(b, from) = IF hits = {} THEN NoAddr ELSE Min(hits)
  BY <1>1 DEF BitPos
<1>3. BitPos(b, from) \in hits
  BY <1>2, LeastOf
<1>4. PICK B \in Nat \ {0}, x \in Nat : B = ByteBits /\ x = BitPos(b, from) /\ x >= B * from
  BY <1>1, <1>3, ScanAssumption
<1>5. B * from >= from /\ B * from \in Nat
  <2>1. PICK B1 \in Nat : B = B1 + 1
    <3>1. B - 1 \in Nat /\ B = B - 1 + 1
      OBVIOUS
    <3> QED
      BY <3>1
  <2>2. B * from = B1 * from + from /\ B1 * from \in Nat
    BY <2>1
  <2> QED
    BY <2>2
<1> QED
  BY <1>1, <1>3, <1>4, <1>5

LEMMA WidthIs ==
  ASSUME WindowInv
  PROVE  \E L \in Nat : L = 2^Width + 1 /\ L > allocEnd - start + 1 /\ allocEnd - start \in Nat
<1>1. 2^Width \in Int /\ Top = 2^Width - 1 /\ Top \in Int
  <2>1. Width \in Nat
    BY ScanAssumption
  <2>2. 2^Width \in Int
    BY <2>1
  <2> QED
    BY <2>2 DEF Top
<1>2. /\ start \in Nat /\ allocEnd \in Nat /\ allocEnd <= Top
  <2>1. start \in Nat /\ allocEnd \in Nat /\ allocEnd <= end /\ end <= last /\ last <= Top /\ end \in Nat /\ last \in Nat
    BY SetupTypes DEF WindowInv
  <2> QED
    BY <1>1, <2>1
<1>3. 2^Width + 1 \in Nat /\ 2^Width + 1 > allocEnd - start + 1 /\ allocEnd - start \in Nat
  BY <1>1, <1>2 DEF WindowInv
<1> QED
  BY <1>3

LEMMA VisitsExist ==
  ASSUME WindowInv, NEW b \in SUBSET Nat
  PROVE  \E f : f = [from \in 0..(2^Width + 1) |-> TurnStep(b, f, from)]
<1>1. PICK L \in Nat : L = 2^Width + 1 /\ L > allocEnd - start + 1 /\ allocEnd - start \in Nat
  BY WidthIs
<1> DEFINE Good(f, k) == \A from \in 0..L : from > L - k - 1 => f[from] = TurnStep(b, f, from)
           T == {k \in Nat : k <= L => \E f : DOMAIN f = 0..L /\ f = [from \in 0..L |-> f[from]] /\ Good(f, k)}
<1>2. \A f, g, from : from \in 0..L /\ (\A i \in 0..L : i > from => f[i] = g[i]) => TurnStep(b, f, from) = TurnStep(b, g, from)
  <2> SUFFICES ASSUME NEW f, NEW g, NEW from \in 0..L, \A i \in 0..L : i > from => f[i] = g[i]
               PROVE  TurnStep(b, f, from) = TurnStep(b, g, from)
    OBVIOUS
  <2>1. CASE BitPos(b, from) = NoAddr
    BY <2>1 DEF TurnStep
  <2>2. CASE BitPos(b, from) # NoAddr
    <3>1. BitPos(b, from) \in b /\ from <= BitPos(b, from)
      BY <2>2, BitFound
    <3>2. PICK p \in Nat : p = BitPos(b, from) /\ from <= p
      BY <3>1
    <3>3. CASE p > allocEnd - start
      BY <2>2, <3>2, <3>3 DEF TurnStep
    <3>4. CASE ~(p > allocEnd - start)
      <4>1. p + 1 \in 0..L /\ p + 1 > from
        BY <1>1, <3>2, <3>4
      <4>2. f[p + 1] = g[p + 1]
        BY <4>1
      <4> QED
        BY <2>2, <3>2, <4>2 DEF TurnStep
    <3> QED
      BY <3>3, <3>4
  <2> QED
    BY <2>1, <2>2
<1>3. 0 \in T
  <2> DEFINE f == [from \in 0..L |-> {}]
  <2>1. DOMAIN f = 0..L /\ f = [from \in 0..L |-> f[from]]
    OBVIOUS
  <2>2. Good(f, 0)
    <3> HIDE DEF f
    <3> SUFFICES ASSUME NEW from \in 0..L, from > L - 0 - 1 PROVE f[from] = TurnStep(b, f, from)
      OBVIOUS
    <3>1. from > allocEnd - start /\ f[from] = {}
      BY <1>1 DEF f
    <3> QED
      BY <3>1 DEF TurnStep
  <2> HIDE DEF f, Good
  <2> QED
    BY <2>1, <2>2
<1>4. ASSUME NEW k \in Nat, k \in T PROVE k + 1 \in T
  <2> SUFFICES ASSUME k + 1 <= L
               PROVE  \E f : DOMAIN f = 0..L /\ f = [from \in 0..L |-> f[from]] /\ Good(f, k + 1)
    <3> HIDE DEF Good
    <3> QED
      OBVIOUS
  <2>1. PICK f : DOMAIN f = 0..L /\ Good(f, k)
    <3> HIDE DEF Good
    <3> QED
      BY <1>1, <1>4
  <2>2. PICK x \in 0..L : x = L - k - 1
    BY <1>1
  <2> DEFINE g == [from \in 0..L |-> IF from = x THEN TurnStep(b, f, x) ELSE f[from]]
  <2>3. DOMAIN g = 0..L /\ g = [from \in 0..L |-> g[from]]
    OBVIOUS
  <2>4. g[x] = TurnStep(b, f, x) /\ \A i \in 0..L : i > x => g[i] = f[i]
    BY <2>2
  <2>5. \A i \in 0..L : i >= x => TurnStep(b, g, i) = TurnStep(b, f, i)
    <3> HIDE DEF g
    <3> SUFFICES ASSUME NEW i \in 0..L, i >= x PROVE TurnStep(b, g, i) = TurnStep(b, f, i)
      OBVIOUS
    <3>1. \A h \in 0..L : h > i => g[h] = f[h]
      BY <2>2, <2>4
    <3> QED
      BY <1>2, <3>1
  <2>6. Good(g, k + 1)
    <3> HIDE DEF g
    <3> SUFFICES ASSUME NEW i \in 0..L, i > L - (k + 1) - 1 PROVE g[i] = TurnStep(b, g, i)
      OBVIOUS
    <3>1. i >= x /\ (i = x \/ i > L - k - 1)
      BY <1>1, <2>2
    <3>2. CASE i = x
      BY <2>4, <2>5, <3>2
    <3>3. CASE i # x
      <4>1. i > x /\ i > L - k - 1
        BY <2>2, <3>1, <3>3
      <4>2. f[i] = TurnStep(b, f, i)
        BY <2>1, <4>1
      <4> QED
        BY <2>4, <2>5, <3>1, <4>1, <4>2
    <3> QED
      BY <3>2, <3>3
  <2> HIDE DEF g, Good
  <2> QED
    BY <2>3, <2>6
<1>5. L \in T
  <2> HIDE DEF T
  <2> QED
    BY <1>1, <1>3, <1>4, Climb
<1>6. PICK f : f = [from \in 0..L |-> f[from]] /\ Good(f, L)
  <2> HIDE DEF Good
  <2> QED
    BY <1>1, <1>5
<1>7. \A from \in 0..L : f[from] = TurnStep(b, f, from)
  BY <1>1, <1>6
<1>8. f = [from \in 0..L |-> TurnStep(b, f, from)]
  BY <1>6, <1>7
<1> QED
  BY <1>1, <1>8

\* The search visits no address beyond what may be allocated.
LEMMA VisitsEnd ==
  ASSUME WindowInv, NEW b \in SUBSET Nat, NEW f, f = [from \in 0..(2^Width + 1) |-> TurnStep(b, f, from)]
  PROVE  f[0] \subseteq 0..(allocEnd - start)
<1>1. PICK L \in Nat : L = 2^Width + 1 /\ L > allocEnd - start + 1 /\ allocEnd - start \in Nat
  BY WidthIs
<1>2. \A from \in 0..L : f[from] = TurnStep(b, f, from)
  BY <1>1
<1> DEFINE T == {k \in Nat : \A from \in 0..L : from >= L - k => f[from] \subseteq 0..(allocEnd - start)}
<1>3. 0 \in T
  <2> SUFFICES ASSUME NEW from \in 0..L, from >= L - 0 PROVE f[from] \subseteq 0..(allocEnd - start)
    OBVIOUS
  <2>1. from > allocEnd - start
    BY <1>1
  <2>2. f[from] = {}
    BY <1>2, <2>1 DEF TurnStep
  <2> QED
    BY <2>2
<1>4. ASSUME NEW k \in Nat, k \in T PROVE k + 1 \in T
  <2> SUFFICES ASSUME NEW from \in 0..L, from >= L - (k + 1) PROVE f[from] \subseteq 0..(allocEnd - start)
    OBVIOUS
  <2>1. CASE BitPos(b, from) = NoAddr
    BY <1>2, <2>1 DEF TurnStep
  <2>2. CASE BitPos(b, from) # NoAddr
    <3>1. BitPos(b, from) \in b /\ from <= BitPos(b, from)
      BY <2>2, BitFound
    <3>2. PICK p \in Nat : p = BitPos(b, from) /\ from <= p
      BY <3>1
    <3>3. f[from] = IF from > allocEnd - start THEN {}
                    ELSE IF p > allocEnd - start THEN {}
                    ELSE IF Skipped(start + p) THEN {p} \cup f[p + 1]
                    ELSE {p}
      BY <1>2, <2>2, <3>2 DEF TurnStep
    <3>4. CASE p > allocEnd - start
      BY <3>3, <3>4
    <3>5. CASE ~(p > allocEnd - start)
      <4>1. p + 1 \in 0..L /\ p + 1 >= L - k /\ p \in 0..(allocEnd - start)
        BY <1>1, <3>2, <3>5
      <4>2. f[p + 1] \subseteq 0..(allocEnd - start)
        BY <1>4, <4>1
      <4> QED
        BY <3>3, <4>1, <4>2
    <3> QED
      BY <3>4, <3>5
  <2> QED
    BY <2>1, <2>2
<1>5. L \in T
  <2> HIDE DEF T
  <2> QED
    BY <1>3, <1>4, Climb
<1>6. 0 \in 0..L /\ 0 >= L - L
  OBVIOUS
<1> QED
  BY <1>5, <1>6

LEMMA VisitedIn ==
  ASSUME WindowInv, NEW b, b = NoAddr \/ b \in SUBSET Nat
  PROVE  bitmapFindAvailableIPv4(b) \subseteq 0..(allocEnd - start)
<1>1. CASE b = NoAddr
  BY <1>1 DEF bitmapFindAvailableIPv4
<1>2. CASE b # NoAddr
  <2>1. b \in SUBSET Nat /\ allocEnd # NoAddr
    BY <1>2, ScanAssumption DEF WindowInv
  <2> DEFINE V(f) == f = [from \in 0..(2^Width + 1) |-> TurnStep(b, f, from)]
             visit == CHOOSE f : V(f)
  <2>2. \E f : V(f)
    BY <2>1, VisitsExist
  <2>3. V(visit)
    <3> HIDE DEF V
    <3> QED
      BY <2>2, Zenon
  <2>4. bitmapFindAvailableIPv4(b) = visit[0]
    BY <1>2, <2>1, Zenon DEF bitmapFindAvailableIPv4, TurnStep
  <2> HIDE DEF visit
  <2>5. PICK f : f = visit
    OBVIOUS
  <2>6. f = [from \in 0..(2^Width + 1) |-> TurnStep(b, f, from)]
    BY <2>3, <2>5
  <2>7. f[0] \subseteq 0..(allocEnd - start)
    BY <2>1, <2>6, VisitsEnd
  <2> QED
    BY <2>4, <2>5, <2>7
<1> QED
  BY <1>1, <1>2

\* A candidate of the bitmap is one that the reference allows, but for the probe.
LEMMA CandidateAllowed ==
  ASSUME WindowInv, NEW visited \in SUBSET (0..(allocEnd - start)), NEW x, x = Candidate(visited)
  PROVE  x = NoAddr \/ (x \in start..allocEnd /\ ~Skipped(x))
<1>0. \A p \in visited : p \in Nat
  BY DEF WindowInv
<1>1. PICK open \in SUBSET Nat : open = {p \in visited : ~Skipped(start + p)}
  BY <1>0
<1>2. x = IF open = {} THEN NoAddr ELSE start + Min(open)
  BY <1>1 DEF Candidate
<1>3. CASE open = {}
  BY <1>2, <1>3
<1>4. CASE open # {}
  <2>1. PICK p \in open : p = Min(open)
    BY <1>4, LeastOf
  <2>2. p \in 0..(allocEnd - start) /\ ~Skipped(start + p) /\ x = start + p
    BY <1>1, <1>2, <1>4, <2>1
  <2>3. start + p \in start..allocEnd
    BY <2>2 DEF WindowInv
  <2> QED
    BY <2>2, <2>3
<1> QED
  BY <1>3, <1>4

-----------------------------------------------------------------------------
(* The behaviours.  What the last pick may be is settled when it is made;  *)
(* an address that waits has waited no longer than the cursor has moved    *)
(* since it was last at that address.                                      *)

Turning == setup.v4 /\ setup.mode = "ROUND_ROBIN" /\ ~setup.redis

TurnsInv ==
  Turning => \A a \in Addrs :
    IF a \in start..allocEnd
    THEN waited[a] + Turn(roundRobinCursor, a) <= allocEnd - start + 1
    ELSE waited[a] = 0

PickInv == pick.result \in Addrs \cup {NoAddr} /\ PickSound /\ PickComplete

ScanInv ==
  /\ WindowInv
  /\ bits \in SUBSET AllBits /\ (sync = NoAddr \/ sync \in SUBSET AllBits)
  /\ cursor = NoAddr \/ cursor \in Int
  /\ waited \in [Addrs -> Nat]
  /\ PickInv /\ TurnsInv

LEMMA WindowStays ==
  ASSUME WindowInv, UNCHANGED <<setup, window>>
  PROVE  WindowInv' /\ AllBits' = AllBits /\ start' = start /\ end' = end /\ allocEnd' = allocEnd
<1>1. start' = start /\ end' = end /\ allocEnd' = allocEnd /\ last' = last
  BY DEF start, end, allocEnd, last
<1> QED
  BY <1>1 DEF WindowInv, AllBits

\* A bit set or cleared for an address is a bit of the window.
LEMMA BitMoves ==
  ASSUME ScanInv, NEW a \in Addrs, NEW available \in BOOLEAN
  PROVE  bitmapSetByIP(bits, a, available) \in SUBSET AllBits
<1>1. a \in Int /\ start \in Nat /\ end \in Nat /\ bits \in SUBSET AllBits
  BY SetupTypes DEF ScanInv, WindowInv, Addrs
<1>2. CASE ~(setup.redis /\ setup.v4) \/ a < start \/ a > end
  BY <1>1, <1>2 DEF bitmapSetByIP
<1>3. CASE ~(~(setup.redis /\ setup.v4) \/ a < start \/ a > end)
  <2>1. a - start \in AllBits
    BY <1>1, <1>3 DEF AllBits
  <2>2. bitmapSetByIP(bits, a, available) \in {bits \cup {a - start}, bits \ {a - start}}
    BY <1>3 DEF bitmapSetByIP
  <2> QED
    BY <1>1, <2>1, <2>2
<1> QED
  BY <1>2, <1>3

\* Steps that pick nothing.
LEMMA OthersKeep ==
  ASSUME ScanInv, UNCHANGED <<setup, window>>,
         bits' \in SUBSET AllBits, sync' = NoAddr \/ sync' \in SUBSET AllBits,
         pick' \in {pick, NoPick},
         \/ UNCHANGED <<cursor, waited>>
         \/ cursor' = NoAddr /\ waited' = [a \in Addrs |-> 0]
  PROVE  ScanInv'
<1>1. WindowInv' /\ AllBits' = AllBits /\ start' = start /\ end' = end /\ allocEnd' = allocEnd
  BY WindowStays DEF ScanInv
<1>2. cursor' = NoAddr \/ cursor' \in Int
  BY DEF ScanInv
<1>3. waited' \in [Addrs -> Nat]
  BY DEF ScanInv
<1>4. PickInv'
  <2>1. BelowTop' = BelowTop
    BY <1>1 DEF BelowTop
  <2>2. CASE pick' = pick
    BY <1>1, <2>1, <2>2 DEF ScanInv, PickInv, PickSound, PickComplete
  <2>3. CASE pick' = NoPick
    BY <2>3 DEF PickInv, PickSound, PickComplete, NoPick
  <2> QED
    BY <2>2, <2>3
<1>5. TurnsInv'
  <2>1. CASE UNCHANGED <<cursor, waited>>
    <3>1. roundRobinCursor' = roundRobinCursor /\ Turning' = Turning
      BY <1>1, <2>1 DEF roundRobinCursor, Turning
    <3> QED
      BY <1>1, <2>1, <3>1 DEF ScanInv, TurnsInv, Turn
  <2>2. CASE cursor' = NoAddr /\ waited' = [a \in Addrs |-> 0]
    <3>1. PICK c \in start..allocEnd : c = roundRobinCursor'
      <4>1. roundRobinCursor' = allocEnd
        BY <1>1, <2>2 DEF roundRobinCursor
      <4>2. allocEnd \in start..allocEnd
        BY DEF ScanInv, WindowInv
      <4> QED
        BY <4>1, <4>2
    <3>2. \A a \in start..allocEnd : Turn(c, a) \in 1..(allocEnd - start + 1)
      BY RoundCovers DEF ScanInv
    <3>3. \A a \in Addrs : IF a \in start'..allocEnd'
                           THEN waited'[a] + Turn(roundRobinCursor, a)' <= allocEnd' - start' + 1
                           ELSE waited'[a] = 0
      <4> SUFFICES ASSUME NEW a \in Addrs, a \in start..allocEnd
                   PROVE  waited'[a] + Turn(roundRobinCursor, a)' <= allocEnd' - start' + 1
        BY <1>1, <2>2
      <4>1. Turn(roundRobinCursor, a)' = Turn(c, a) /\ waited'[a] = 0
        BY <1>1, <2>2, <3>1 DEF Turn
      <4> QED
        BY <1>1, <3>2, <4>1
    <3> QED
      BY <3>3 DEF TurnsInv
  <2> QED
    BY <2>1, <2>2
<1> QED
  BY <1>1, <1>2, <1>3, <1>4, <1>5 DEF ScanInv

\* Steps that pick: what is returned is as it should be, and when the scan
\* follows the cursor, the cursor moves to what it returns.
LEMMA PicksKeep ==
  ASSUME ScanInv, UNCHANGED <<setup, window, sync>>, bits' \in SUBSET AllBits,
         NEW result \in Addrs \cup {NoAddr}, NEW how, Picked(result, how),
         result # NoAddr => \/ result \in AllowedAddrs
                            \/ how = "preferred" /\ result \in start..end
                            \/ ~BelowTop,
         how = "scan" /\ result = NoAddr =>
           AllowedAddrs = {} \/ Cardinality(OpenAddrs \ AllowedAddrs) >= setup.attempts,
         cursor' = cursor \/ cursor' \in Int,
         Turning /\ how # "scan" => cursor' = cursor,
         Turning /\ how = "scan" =>
           \A a \in AllowedAddrs \ {result} :
             /\ cursor' \in start..allocEnd /\ cursor' # a
             /\ Turn(roundRobinCursor, cursor') <= Turn(roundRobinCursor, a)
  PROVE  ScanInv'
<1>1. WindowInv' /\ AllBits' = AllBits /\ start' = start /\ end' = end /\ allocEnd' = allocEnd
  BY WindowStays DEF ScanInv
<1>2. /\ pick' = [result |-> result, allowed |-> AllowedAddrs,
                   refused |-> Cardinality(OpenAddrs \ AllowedAddrs), how |-> how]
      /\ waited' = [a \in Addrs |->
           IF a = result \/ a \notin AllowedAddrs \/ setup.redis \/ setup.mode # "ROUND_ROBIN"
           THEN 0 ELSE IF how # "scan" THEN waited[a] ELSE Min({waited[a] + 1, Top + 1})]
  BY DEF Picked
<1>3. Top \in Nat /\ waited \in [Addrs -> Nat]
  <2>1. Top \in Int /\ last \in Nat /\ last <= Top
    BY SetupTypes DEF ScanInv, WindowInv
  <2> QED
    BY <2>1 DEF ScanInv
<1>4. \A a \in Addrs : Min({waited[a] + 1, Top + 1}) \in Nat /\ Min({waited[a] + 1, Top + 1}) <= waited[a] + 1
  <2> SUFFICES ASSUME NEW a \in Addrs
               PROVE  Min({waited[a] + 1, Top + 1}) \in Nat /\ Min({waited[a] + 1, Top + 1}) <= waited[a] + 1
    OBVIOUS
  <2>1. PICK x \in Nat, y \in Nat : x = waited[a] + 1 /\ y = Top + 1
    BY <1>3
  <2>2. x \in Int /\ y \in Int
    OBVIOUS
  <2>3. Min({x, y}) = IF x <= y THEN x ELSE y
    BY Zenon, <2>2, OfTwo
  <2> QED
    BY <2>1, <2>3
<1>5. waited' \in [Addrs -> Nat]
  BY <1>2, <1>3, <1>4
<1>6. PickInv'
  <2>1. /\ pick'.result = result /\ pick'.allowed = AllowedAddrs /\ pick'.how = how
        /\ pick'.refused = Cardinality(OpenAddrs \ AllowedAddrs) /\ setup' = setup
    BY <1>2
  <2>2. BelowTop' = BelowTop /\ (start..end)' = start..end
    BY <1>1 DEF BelowTop
  <2> QED
    BY <1>1, <2>1, <2>2 DEF PickInv, PickSound, PickComplete
<1>7. TurnsInv'
  <2> SUFFICES ASSUME Turning, NEW a \in Addrs
               PROVE  IF a \in start..allocEnd
                      THEN waited'[a] + Turn(roundRobinCursor, a)' <= allocEnd - start + 1
                      ELSE waited'[a] = 0
    BY <1>1 DEF TurnsInv, Turning
  <2>1. PICK c \in start..allocEnd : c = roundRobinCursor
    BY CursorIn DEF ScanInv
  <2>2. PICK d \in start..allocEnd : d = roundRobinCursor' /\ (cursor' = cursor => d = c)
                                     /\ (cursor' \in start..allocEnd => d = cursor')
    <3>1. cursor' = NoAddr \/ cursor' \in Int
      BY DEF ScanInv
    <3>2. roundRobinCursor' \in start'..allocEnd'
      BY <1>1, <3>1 DEF roundRobinCursor, ScanInv, WindowInv
    <3>3. cursor' = cursor => roundRobinCursor' = c
      BY <1>1, <2>1 DEF roundRobinCursor
    <3>4. cursor' \in start..allocEnd => roundRobinCursor' = cursor'
      BY <1>1, ScanAssumption DEF roundRobinCursor, ScanInv, WindowInv
    <3> QED
      BY <1>1, <3>2, <3>3, <3>4
  <2>3. Turn(roundRobinCursor, a)' = Turn(d, a) /\ Turn(roundRobinCursor, a) = Turn(c, a)
    BY <1>1, <2>1, <2>2 DEF Turn
  <2>4. AllowedAddrs \subseteq start..allocEnd
    BY AllowedIs DEF ScanInv
  <2>5. CASE a \notin start..allocEnd
    BY <1>2, <2>4, <2>5
  <2>6. CASE a \in start..allocEnd /\ waited'[a] = 0
    <3>1. Turn(d, a) \in 1..(allocEnd - start + 1)
      BY <2>6, RoundCovers DEF ScanInv
    <3> QED
      BY <2>3, <2>6, <3>1
  <2>7. CASE a \in start..allocEnd /\ waited'[a] # 0
    <3>1. a # result /\ a \in AllowedAddrs
      BY <1>2, <2>7
    <3>2. waited[a] + Turn(c, a) <= allocEnd - start + 1
      BY <2>3, <2>7 DEF ScanInv, TurnsInv
    <3>3. CASE how # "scan"
      <4>1. waited'[a] = waited[a] /\ d = c
        BY <1>2, <2>2, <2>7, <3>1, <3>3 DEF Turning
      <4> QED
        BY <2>3, <2>7, <3>2, <4>1
    <3>4. CASE how = "scan"
      <4>1. PICK r \in start..allocEnd : r = cursor' /\ r # a /\ Turn(c, r) <= Turn(c, a)
        BY <2>1, <3>1, <3>4
      <4>2. d = r
        BY <2>2, <4>1
      <4>3. Turn(d, a) = Turn(c, a) - Turn(c, r) /\ Turn(c, r) >= 1
        BY <2>7, <4>1, <4>2, TurnsAdvance DEF ScanInv
      <4>4. waited'[a] = Min({waited[a] + 1, Top + 1})
        BY <1>2, <2>7, <3>1, <3>4 DEF Turning
      <4>5. waited'[a] <= waited[a] + 1
        BY <1>4, <4>4
      <4>6. /\ waited[a] \in Nat /\ waited'[a] \in Nat /\ Turn(c, a) \in Int /\ Turn(c, r) \in Int
            /\ allocEnd - start + 1 \in Int
        BY <1>3, <1>5, <2>7, <4>1, RoundCovers DEF ScanInv, WindowInv
      <4>7. waited'[a] + Turn(d, a) <= allocEnd - start + 1
        BY <3>2, <4>3, <4>5, <4>6
      <4> QED
        BY <2>3, <2>7, <4>7
    <3> QED
      BY <3>3, <3>4
  <2> QED
    BY <2>5, <2>6, <2>7
<1>8. cursor' = NoAddr \/ cursor' \in Int
  BY DEF ScanInv
<1> QED
  BY <1>1, <1>5, <1>6, <1>7, <1>8 DEF ScanInv

LEMMA AllowedV4 ==
  ASSUME WindowInv, setup.v4
  PROVE  /\ AllowedAddrs = Free \cap (start..allocEnd)
         /\ OpenAddrs \ AllowedAddrs = {a \in start..allocEnd : ~Skipped(a) /\ acdRefuses(a)}
<1>1. \A a \in start..allocEnd : a \in start..end
  BY DEF WindowInv
<1>2. /\ OpenAddrs = {a \in start..allocEnd : ~Skipped(a)}
      /\ AllowedAddrs = {a \in start..allocEnd : ~Skipped(a) /\ ~acdRefuses(a)}
  BY AllowedIs
<1>3. AllowedAddrs = Free \cap (start..allocEnd)
  BY <1>1, <1>2 DEF Free
<1>4. OpenAddrs \ AllowedAddrs = {a \in start..allocEnd : ~Skipped(a) /\ acdRefuses(a)}
  BY <1>2
<1> QED
  BY <1>3, <1>4

\* What the bitmap offers is allowed when no probe refuses it.
LEMMA OfferedKeeps ==
  ASSUME ScanInv, UNCHANGED <<setup, window, sync>>, bits' \in SUBSET AllBits,
         NEW x \in start..allocEnd, ~Skipped(x), setup.v4, setup.redis, TakeOffered(x)
  PROVE  ScanInv'
<1>1. x \notin Refused /\ Picked(x, "bitmap") /\ cursor' = cursor
  BY DEF TakeOffered
<1>2. x \in Addrs
  BY WindowAddrs DEF ScanInv
<1>3. x \in AllowedAddrs
  BY <1>1, <1>2, AllowedIs DEF ScanInv, Refused
<1> QED
  BY <1>1, <1>2, <1>3, PicksKeep

\* What the loop offers to the probe in vain, it offers before what it finds.
LEMMA OfferedIs ==
  ASSUME WindowInv, setup.v4, NEW found
  PROVE  /\ Offered(found) \subseteq OpenAddrs \ AllowedAddrs
         /\ found # NoAddr => \A a \in Offered(found) : Before(a, found)
<1>1. PICK refused : refused = {a \in start..allocEnd :
                       ~Skipped(a) /\ acdRefuses(a) /\ (found # NoAddr => Before(a, found))}
  OBVIOUS
<1>2. Offered(found) = {a \in refused : Cardinality({x \in refused : Before(x, a)}) < setup.attempts}
  BY <1>1, Zenon DEF Offered
<1>3. Offered(found) \subseteq refused
  BY <1>2
<1> QED
  BY <1>1, <1>3, AllowedV4

LEMMA RefusedFinite == ASSUME WindowInv PROVE IsFiniteSet(OpenAddrs \ AllowedAddrs)
<1>1. IsFiniteSet(start..allocEnd)
  BY FS_Interval DEF WindowInv
<1>2. OpenAddrs \ AllowedAddrs \subseteq start..allocEnd
  BY AllowedIs
<1> QED
  BY <1>1, <1>2, FS_Subset

\* Where a round leaves the cursor: at an address that every allowed one but the
\* result comes after.
LEMMA CursorStops ==
  ASSUME WindowInv, cursor = NoAddr \/ cursor \in Int, setup.v4, setup.mode = "ROUND_ROBIN",
         NEW found, found = RoundRobin(Free), NEW tried, tried = Offered(found),
         NEW result, result = IF Cardinality(tried) < setup.attempts THEN found ELSE NoAddr,
         NEW d, d = storeRoundRobinCursor(tried, result)
  PROVE  /\ d = cursor \/ d \in Int
         /\ \A a \in AllowedAddrs \ {result} :
              /\ d \in start..allocEnd /\ d # a
              /\ Turn(roundRobinCursor, d) <= Turn(roundRobinCursor, a)
<1>1. PICK c \in start..allocEnd : c = roundRobinCursor
  BY CursorIn
<1>2. PICK len \in Nat \ {0} : len = allocEnd - start + 1
  <2>1. allocEnd - start + 1 \in Nat \ {0}
    BY DEF WindowInv
  <2> QED
    BY <2>1
<1>3. PICK round, at : round = Round /\ at = {n \in DOMAIN round : round[n] \in tried}
  OBVIOUS
<1>4. DOMAIN round = 1..len /\ \A n \in 1..len : round[n] = Place(c, n)
  BY <1>1, <1>2, <1>3, RoundIs
<1>5. /\ \A n \in 1..len : Place(c, n) \in start..allocEnd /\ Turn(c, Place(c, n)) = n
      /\ \A a \in start..allocEnd : Turn(c, a) \in 1..len /\ Place(c, Turn(c, a)) = a
  BY <1>2, RoundCovers
<1>6. AllowedAddrs = Free \cap (start..allocEnd)
  BY AllowedV4
<1>7. /\ found = NoAddr => AllowedAddrs = {}
      /\ found # NoAddr => /\ found \in start..allocEnd
                           /\ \A a \in AllowedAddrs : Turn(c, found) <= Turn(c, a)
  BY <1>1, <1>6, RoundRobinFinds
<1>8. tried \subseteq OpenAddrs \ AllowedAddrs /\ (found # NoAddr => \A a \in tried : Before(a, found))
  BY OfferedIs
<1>9. \A a \in start..allocEnd : a \in Int
  OBVIOUS
<1>10. CASE result # NoAddr
  <2>1. d = result
    BY <1>10 DEF storeRoundRobinCursor
  <2>2. d = found
    BY <1>10, <2>1
  <2>3. d \in start..allocEnd /\ \A a \in AllowedAddrs : Turn(c, d) <= Turn(c, a)
    BY <1>7, <1>10, <2>1, <2>2
  <2> QED
    BY <1>1, <1>9, <2>1, <2>3
<1>11. CASE result = NoAddr
  <2>1. d = IF at = {} THEN cursor ELSE round[Max(at)]
    BY <1>3, <1>11 DEF storeRoundRobinCursor
  <2>2. CASE at = {}
    <3>1. d = cursor
      BY <2>1, <2>2
    <3>2. tried = {}
      <4> SUFFICES ASSUME NEW x \in tried PROVE FALSE
        OBVIOUS
      <4>1. x \in start..allocEnd
        BY <1>8, AllowedIs
      <4>2. Turn(c, x) \in 1..len /\ round[Turn(c, x)] = x
        BY <1>4, <1>5, <4>1
      <4> QED
        BY <1>3, <1>4, <2>2, <4>2
    <3>3. Cardinality(tried) = 0
      BY <3>2, FS_EmptySet
    <3>4. setup.attempts \in Nat \ {0}
      BY SetupTypes DEF WindowInv
    <3>5. result = found
      BY <3>3, <3>4
    <3> QED
      BY <1>7, <1>11, <3>1, <3>5
  <2>3. CASE at # {}
    <3>1. PICK m \in at : m = Max(at)
      <4>1. at \in SUBSET (1..len)
        BY <1>3, <1>4
      <4> QED
        BY <2>3, <4>1, MostOf
    <3>2. m \in 1..len /\ d = round[m] /\ d \in tried
      BY <1>3, <1>4, <2>1, <2>3, <3>1
    <3>3. d \in start..allocEnd /\ Turn(c, d) = m
      BY <1>4, <1>5, <3>2
    <3>4. d \notin AllowedAddrs
      BY <1>8, <3>2
    <3>5. ASSUME NEW a \in AllowedAddrs PROVE Turn(c, d) <= Turn(c, a)
      <4>1. found # NoAddr /\ Before(d, found)
        BY <1>7, <1>8, <3>2
      <4>2. PICK n \in 1..len, k \in 1..len : n < k /\ round[n] = d /\ round[k] = found
        BY <1>3, <1>4, <4>1 DEF Before
      <4>3. Turn(c, d) = n /\ Turn(c, found) = k
        BY <1>4, <1>5, <4>2
      <4>4. Turn(c, found) <= Turn(c, a) /\ Turn(c, a) \in Int
        <5>1. a \in start..allocEnd
          BY <1>6
        <5> QED
          BY <1>5, <1>7, <4>1, <5>1
      <4> QED
        BY <4>2, <4>3, <4>4
    <3> QED
      BY <1>1, <1>9, <3>3, <3>4, <3>5
  <2> QED
    BY <2>2, <2>3
<1> QED
  BY <1>10, <1>11

LEMMA FallBackKeeps ==
  ASSUME ScanInv, UNCHANGED <<setup, window, sync>>, bits' \in SUBSET AllBits,
         setup.v4, NEW x, FallBack(x)
  PROVE  ScanInv'
<1>0. WindowInv /\ (cursor = NoAddr \/ cursor \in Int) /\ NoAddr \notin Int
  BY ScanAssumption DEF ScanInv
<1>1. PICK found, tried, result, how :
        /\ found = nextAvailableIPv4(Free) /\ tried = Offered(found)
        /\ result = (IF Cardinality(tried) < setup.attempts THEN found ELSE NoAddr)
        /\ cursor' = storeRoundRobinCursor(tried, result)
        /\ how = "scan" /\ Picked(result, how)
  BY DEF FallBack
<1>2. AllowedAddrs = Free \cap (start..allocEnd)
  BY <1>0, AllowedV4
<1>3. /\ found = NoAddr => AllowedAddrs = {}
      /\ BelowTop /\ found # NoAddr => found \in AllowedAddrs
      /\ found \in Addrs \cup {NoAddr}
  BY <1>0, <1>1, <1>2, NextFinds DEF Found
<1>4. /\ result \in Addrs \cup {NoAddr}
      /\ result # NoAddr => result \in AllowedAddrs \/ ~BelowTop
  BY <1>1, <1>3
<1>5. result = NoAddr => AllowedAddrs = {} \/ Cardinality(OpenAddrs \ AllowedAddrs) >= setup.attempts
  <2> SUFFICES ASSUME result = NoAddr, AllowedAddrs # {}
               PROVE  Cardinality(OpenAddrs \ AllowedAddrs) >= setup.attempts
    OBVIOUS
  <2>1. ~(Cardinality(tried) < setup.attempts)
    BY <1>1, <1>3
  <2>2. tried \subseteq OpenAddrs \ AllowedAddrs
    BY <1>0, <1>1, OfferedIs
  <2>3. Cardinality(tried) <= Cardinality(OpenAddrs \ AllowedAddrs) /\ IsFiniteSet(tried)
    BY <1>0, <2>2, RefusedFinite, FS_Subset
  <2>4. Cardinality(tried) \in Nat /\ Cardinality(OpenAddrs \ AllowedAddrs) \in Nat
    BY <1>0, <2>3, RefusedFinite, FS_CardinalityType
  <2>5. setup.attempts \in Nat
    BY <1>0, SetupTypes DEF WindowInv
  <2> QED
    BY <2>1, <2>3, <2>4, <2>5
<1>6. CASE setup.mode = "ROUND_ROBIN"
  <2>1. found = RoundRobin(Free)
    <3>1. allocEnd # NoAddr
      BY <1>0 DEF WindowInv
    <3> QED
      BY <1>1, <1>6, <3>1 DEF nextAvailableIPv4
  <2>2. /\ cursor' = cursor \/ cursor' \in Int
        /\ \A a \in AllowedAddrs \ {result} :
             /\ cursor' \in start..allocEnd /\ cursor' # a
             /\ Turn(roundRobinCursor, cursor') <= Turn(roundRobinCursor, a)
    <3>1. PICK d : d = cursor'
      OBVIOUS
    <3> QED
      BY <1>0, <1>1, <1>6, <2>1, <3>1, CursorStops
  <2> QED
    BY <1>1, <1>4, <1>5, <2>2, PicksKeep
<1>7. CASE setup.mode # "ROUND_ROBIN"
  <2>1. cursor' = cursor /\ ~Turning
    BY <1>1, <1>7 DEF storeRoundRobinCursor, Turning
  <2> QED
    BY <1>1, <1>4, <1>5, <2>1, PicksKeep
<1> QED
  BY <1>6, <1>7

LEMMA PickIPv4Keeps == ASSUME ScanInv, PickIPv4 PROVE ScanInv'
<1>0. WindowInv /\ bits \in SUBSET AllBits /\ NoAddr \notin Int
  BY ScanAssumption DEF ScanInv
<1>1. PICK fails, b, visited :
        /\ b = (IF setup.redis /\ allocEnd # NoAddr THEN Initialized(fails) ELSE NoAddr)
        /\ visited = bitmapFindAvailableIPv4(b)
        /\ bits' = IF b = NoAddr THEN bits ELSE b \ visited
        /\ TakeOffered(Candidate(visited)) \/ FallBack(Candidate(visited))
  BY DEF PickIPv4
<1>2. UNCHANGED <<setup, window, sync>> /\ setup.v4
  BY Zenon DEF PickIPv4
<1>3. (b = NoAddr \/ b \in SUBSET AllBits) /\ (~setup.redis => b = NoAddr)
  BY <1>0, <1>1 DEF Initialized
<1>4. bits' \in SUBSET AllBits
  BY <1>0, <1>1, <1>3
<1>5. PICK x : x = Candidate(visited)
  OBVIOUS
<1>6. x = NoAddr \/ (x \in start..allocEnd /\ ~Skipped(x))
  <2>1. b = NoAddr \/ b \in SUBSET Nat
    BY <1>0, <1>3 DEF AllBits, WindowInv
  <2>2. visited \in SUBSET (0..(allocEnd - start))
    BY <1>0, <1>1, <2>1, VisitedIn
  <2> QED
    BY <1>0, <1>5, <2>2, CandidateAllowed
<1>7. ~setup.redis => x = NoAddr
  <2>1. SUFFICES ASSUME ~setup.redis PROVE x = NoAddr
    OBVIOUS
  <2>2. visited = {}
    BY <1>1, <1>3, <2>1 DEF bitmapFindAvailableIPv4
  <2> QED
    BY <1>5, <2>2 DEF Candidate
<1>8. CASE TakeOffered(x)
  <2>1. x # NoAddr
    BY <1>8 DEF TakeOffered
  <2> QED
    BY <1>2, <1>4, <1>6, <1>7, <1>8, <2>1, SetupTypes, OfferedKeeps DEF WindowInv
<1>9. CASE FallBack(x)
  BY <1>2, <1>4, <1>9, FallBackKeeps
<1> QED
  BY <1>1, <1>5, <1>8, <1>9

\* A draw at random takes what the sets do not hold.
LEMMA PickIPv6Keeps == ASSUME ScanInv, PickIPv6 PROVE ScanInv'
<1>0. WindowInv /\ bits \in SUBSET AllBits
  BY DEF ScanInv
<1>1. PICK a \in nextAvailableIPv6 : Picked(a, "random")
  BY DEF PickIPv6
<1>2. UNCHANGED <<setup, window, bits, sync, cursor>> /\ ~setup.v4
  BY DEF PickIPv6
<1>3. start + Usable6 - 1 = allocEnd
  <2>1. PICK n, c : n = end - start + 1 /\ c = (n * setup.reserve) \div 100
    OBVIOUS
  <2>2. setup.reserve < 100 /\ n \in Int /\ start \in Nat /\ setup.reserve \in Int
    BY <1>0, <2>1, SetupTypes DEF WindowInv
  <2>3. c \in Int
    BY <2>1, <2>2
  <2>4. Usable6 = n - c
    BY <2>1, <2>2 DEF Usable6
  <2>5. allocEnd = start + n - c - 1
    BY <1>0, <2>1 DEF WindowInv
  <2> QED
    BY <2>2, <2>3, <2>4, <2>5
<1>4. a = NoAddr \/ a \in AllowedAddrs
  <2>1. a = NoAddr \/ (a \in start..allocEnd /\ ~Skipped(a))
    BY <1>3 DEF nextAvailableIPv6
  <2> QED
    BY <1>0, <1>2, <2>1, AllowedIs
<1>5. a \in Addrs \cup {NoAddr}
  BY <1>0, <1>4 DEF AllowedAddrs, OpenAddrs
<1>6. ~Turning
  BY <1>2 DEF Turning
<1> QED
  BY <1>0, <1>1, <1>2, <1>4, <1>5, <1>6, PicksKeep

LEMMA PreferredKeeps == ASSUME ScanInv, NEW a \in Addrs, PickPreferred(a) PROVE ScanInv'
<1>1. /\ Picked(a, "preferred") /\ UNCHANGED <<setup, window, bits, sync, cursor>>
      /\ start <= a /\ a <= end
  BY DEF PickPreferred
<1>2. a \in start..end /\ bits \in SUBSET AllBits
  <2>1. a \in Int
    BY SetupTypes DEF ScanInv, WindowInv, Addrs
  <2> QED
    BY <1>1, <2>1 DEF ScanInv, WindowInv
<1>3. PICK how : how = "preferred" /\ how # "scan"
  OBVIOUS
<1> QED
  BY <1>1, <1>2, <1>3, PicksKeep

LEMMA ProtectedKeeps == ASSUME ScanInv, PickProtected PROVE ScanInv'
<1>1. Picked(NoAddr, "protected") /\ UNCHANGED <<setup, window, bits, sync, cursor>> /\ bits \in SUBSET AllBits
  BY DEF PickProtected, ScanInv
<1> QED
  BY <1>1, PicksKeep

LEMMA ScanKeeps == ASSUME ScanInv, [ScanNext]_scanVars PROVE ScanInv'
<1>0. bits \in SUBSET AllBits /\ (sync = NoAddr \/ sync \in SUBSET AllBits)
  BY DEF ScanInv
<1>1. CASE PickIPv4 \/ PickIPv6 \/ PickProtected \/ \E a \in Addrs : PickPreferred(a)
  BY <1>1, PickIPv4Keeps, PickIPv6Keeps, ProtectedKeeps, PreferredKeeps
<1>2. CASE Assign \/ AssignFails \/ \E a \in Addrs : Release(a)
  <2>1. ASSUME ~AtRest PROVE pick.result \in Addrs
    BY <2>1 DEF AtRest, ScanInv, PickInv
  <2>2. bits' \in SUBSET AllBits
    <3>1. CASE Assign
      BY <2>1, <3>1, BitMoves DEF Assign
    <3>2. CASE AssignFails
      <4>1. PICK async \in BOOLEAN : bits' = bitmapSetByIP(bits, pick.result, async /\ setup.redis)
        BY <3>2 DEF AssignFails
      <4>2. (async /\ setup.redis) \in BOOLEAN /\ pick.result \in Addrs
        BY <2>1, <3>2 DEF AssignFails
      <4> QED
        BY <4>1, <4>2, BitMoves
    <3>3. CASE \E a \in Addrs : Release(a)
      BY <3>3, BitMoves DEF Release
    <3> QED
      BY <1>2, <3>1, <3>2, <3>3
  <2>3. pick' \in {pick, NoPick} /\ UNCHANGED <<setup, window, sync, cursor, waited>>
    BY <1>2 DEF Assign, AssignFails, Release
  <2> QED
    BY <1>0, <2>2, <2>3, OthersKeep
<1>3. CASE startLeaseBitmapSync \/ MarkerExpires
  <2>1. bits' \in SUBSET AllBits /\ (sync' = NoAddr \/ sync' \in SUBSET AllBits)
    BY <1>0, <1>3 DEF startLeaseBitmapSync, SyncRead, SyncWrite, MarkerExpires
  <2>2. pick' = pick /\ UNCHANGED <<setup, window, cursor, waited>>
    BY <1>3 DEF startLeaseBitmapSync, SyncRead, SyncWrite, MarkerExpires
  <2> QED
    BY <2>1, <2>2, OthersKeep
<1>4. CASE ScanRestart
  BY <1>0, <1>4, OthersKeep DEF ScanRestart
<1>5. CASE \/ UNCHANGED scanVars
           \/ \E a \in Addrs : Decline(a) \/ CooldownEnds(a) \/ HostChanges(a) \/ LateVerdict(a) \/ VerdictExpires(a)
  <2>1. UNCHANGED <<setup, window, bits, sync, cursor, pick, waited>>
    BY <1>5 DEF Decline, CooldownEnds, HostChanges, LateVerdict, VerdictExpires, scanVars
  <2> QED
    BY <1>0, <2>1, OthersKeep
<1> QED
  BY <1>1, <1>2, <1>3, <1>4, <1>5 DEF ScanNext

LEMMA ScanStarts == ScanInit => ScanInv
<1> SUFFICES ASSUME ScanInit PROVE ScanInv
  OBVIOUS
<1>1. WindowInv
  BY WindowStarts
<1>2. /\ bits = {} /\ sync = NoAddr /\ cursor = NoAddr /\ waited = [a \in Addrs |-> 0] /\ pick = NoPick
  BY DEF ScanInit
<1>3. PickInv
  BY <1>2 DEF PickInv, PickSound, PickComplete, NoPick
<1>4. TurnsInv
  <2>1. PICK c \in start..allocEnd : c = roundRobinCursor
    BY <1>1, <1>2, CursorIn
  <2>2. \A a \in start..allocEnd : Turn(c, a) \in 1..(allocEnd - start + 1)
    BY <1>1, RoundCovers
  <2> SUFFICES ASSUME NEW a \in Addrs, a \in start..allocEnd
               PROVE  0 + Turn(c, a) <= allocEnd - start + 1
    BY <1>2, <2>1 DEF TurnsInv
  <2> QED
    BY <2>2
<1> QED
  BY <1>1, <1>2, <1>3, <1>4 DEF ScanInv

\* Whatever the bitmap, the probes' verdicts and the history of the pool are, an
\* address is picked only when the pool may hand it out, a pick fails only when the pool
\* has none or as many as a pick may try are in use by strangers, and in a round robin
\* each address has its turn within a round: for every pool, reserve, exclusion and
\* order of the scan (lease/service.go, lease/bitmap.go, lease/acd.go).
THEOREM SelectionsSound == ScanSpec => []SelectionSound
<1>1. ScanInit => ScanInv
  BY ScanStarts
<1>2. ScanInv /\ [ScanNext]_scanVars => ScanInv'
  BY ScanKeeps
<1>3. ScanInv => SelectionSound
  <2> SUFFICES ASSUME ScanInv PROVE SelectionSound
    OBVIOUS
  <2>1. PickSound /\ PickComplete
    BY DEF ScanInv, PickInv
  <2>2. RoundRobinTurns
    <3> SUFFICES ASSUME Turning, NEW a \in Addrs PROVE waited[a] <= allocEnd - start
      BY DEF RoundRobinTurns, Turning
    <3>1. /\ start \in Nat /\ allocEnd \in Nat /\ start <= allocEnd /\ waited[a] \in Nat
      BY DEF ScanInv, WindowInv
    <3>2. PICK c \in start..allocEnd : c = roundRobinCursor
      BY CursorIn DEF ScanInv
    <3>3. CASE a \in start..allocEnd
      <4>1. Turn(c, a) \in 1..(allocEnd - start + 1)
        BY <3>3, RoundCovers DEF ScanInv
      <4>2. waited[a] + Turn(c, a) <= allocEnd - start + 1
        BY <3>2, <3>3 DEF ScanInv, TurnsInv
      <4> QED
        BY <3>1, <4>1, <4>2
    <3>4. CASE a \notin start..allocEnd
      <4>1. waited[a] = 0
        BY <3>4 DEF ScanInv, TurnsInv
      <4> QED
        BY <3>1, <4>1
    <3> QED
      BY <3>3, <3>4
  <2> QED
    BY <2>1, <2>2 DEF SelectionSound
<1> QED
  BY <1>1, <1>2, <1>3, PTL DEF ScanSpec
=============================================================================
