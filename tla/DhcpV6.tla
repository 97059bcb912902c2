------------------------------ MODULE DhcpV6 ------------------------------
(***************************************************************************)
(* The DHCPv6 server: internal/dhcpv6/server.go (a goroutine per datagram, *)
(* the per-client state machine kept in memory), internal/dhcpv6/handler.go*)
(* (EUI-64 bindings, static and dynamic prefix delegation) and the prefix  *)
(* delegation of internal/lease (prefix_allocator.go, prefix.go) over the  *)
(* table prefix_leases_v6.                                                 *)
(*                                                                         *)
(* A prefix is <<length, index>> under the pool's own prefix <<0, 0>>; the *)
(* code's key "addr/len" is exactly this pair.  The address lease itself   *)
(* (AllocateOrReuseWithMetadata) is module LeaseService: here it succeeds  *)
(* or fails.  Each action ends at a database call, where another goroutine *)
(* may run.  The IA_PDs of one packet ask for the same prefix, length and   *)
(* lifetimes; those a client hints at, and those the server's options       *)
(* impose, are chosen where the code reads them.                            *)
(***************************************************************************)
EXTENDS LeaseFSM, FiniteSets, Sequences

CONSTANTS
  Workers,         \* goroutines that process a datagram
  V6Clients,       \* clients, one DUID and one MAC each
  Lists,           \* lists of IA_PD identifiers a packet may carry
  MacClients,      \* the clients whose packets carry a MAC
  Wanted,          \* prefixes a packet may ask for
  Lens,            \* prefix lengths a packet may ask for (0: none given)
  MaxLen,          \* longest prefix length (128 in the code)
  ScanLimit,       \* prefixes AllocateAvailablePrefix scans (4096)
  ConfigPD,        \* [V6Clients -> prefix]: static_pd_bindings, or NoPrefix
  PolicyPD,        \* [V6Clients -> prefix]: the policy's staticPrefix
  BindingPD,       \* [V6Clients -> prefix]: the binding's pdPrefix
  NoPrefix,
  V6Pool, V4Pool, NoPool,  \* the default pool, another one, none
  Profiles,        \* lease profiles [def, max, t1, t2] the policy may give
  NoProfile,
  PoolTimes,       \* minimum and maximum lease times of a pool (0: none)
  Overrides,       \* preferred and valid lifetimes of the options (0: none)
  Hints,           \* lifetimes an IA_PD of a packet may ask for (0: none)
  WordMax,         \* largest value of the uint32 lifetimes
  MaxPrefixRows    \* bound on rows created in prefix_leases_v6

ASSUME V6Assumption ==
  /\ Profiles \subseteq [def : Nat, max : Nat, t1 : Nat, t2 : Nat]
  /\ NoProfile \notin Profiles
  /\ PoolTimes \subseteq Nat /\ WordMax \in Nat
  /\ Overrides \cup Hints \subseteq [pref : Nat, valid : Nat]

VARIABLES
  v6fsm,        \* Server.leaseFSMs: state of every client
  prefixRows,   \* table prefix_leases_v6
  bound,        \* table ipv6_eui64_bindings: clients with a row
  euiCache,     \* Handler.eui64Cache
  pkt,          \* the datagram each goroutine is working on
  admin         \* the row an HTTP release or decline has read

v6Vars == <<v6fsm, prefixRows, bound, euiCache, pkt, admin>>

Messages == {"SOLICIT", "REQUEST", "CONFIRM", "RENEW", "REBIND",
             "INFORMATION", "RELEASE", "DECLINE"}
Resting == [pc |-> "idle"]

---------------------------------------------------------------------------
(* The client state machine of the server *)

\* transitionLeaseState does not return an error (under fsmMu).
transitionLeaseState(c, target) == ValidTransition(v6fsm[c], target)

\* applyFSMPreTransition: the state a message needs before it is handled.
applyFSMPreTransition(m) ==
  CASE m = "RENEW" -> {"Renewing"} [] m = "REBIND" -> {"Rebinding"}
    [] OTHER -> {}

\* applyFSMSuccessTransition: the state after the handler succeeded.
applyFSMSuccessTransition(m) ==
  CASE m = "SOLICIT" -> {"Offered"}
    [] m \in {"REQUEST", "CONFIRM", "RENEW", "REBIND"} -> {"Bound"}
    [] m = "DECLINE" -> {"Expired"} [] m = "RELEASE" -> {"Released"}
    [] OTHER -> {}

\* The states a client may have after the transitions asked for; empty when
\* one is refused.
After(c, targets) ==
  IF targets = {} THEN {v6fsm[c]}
  ELSE {t \in targets : transitionLeaseState(c, t)}

---------------------------------------------------------------------------
(* Receiving: relay checks, partition, middleware, pre-transition *)

\* A goroutine ends: its datagram is answered or dropped.
Drop(w) == pkt' = [pkt EXCEPT ![w] = Resting]

\* Where the handler of a message starts.
EntryPoint(m) ==
  CASE m \in {"RELEASE", "DECLINE"} -> "give"
    [] m = "INFORMATION" -> "finish"
    [] OTHER -> "eui"

\* processDatagram up to the handler.  A relay outside the whitelist, or one
\* another node serves, drops the packet before a token is taken.
processDatagram(w, c, m, ids, len, want) ==
  /\ pkt[w] = Resting
  /\ m = "INFORMATION" => ids = <<>>
  /\ ids = <<>> \/ m \in {"RELEASE", "DECLINE"} => want = NoPrefix
  /\ \/ \E s \in After(c, applyFSMPreTransition(m)) :
          /\ v6fsm' = [v6fsm EXCEPT ![c] = s]
          /\ pkt' = [pkt EXCEPT ![w] =
                [pc |-> EntryPoint(m), c |-> c, m |-> m, ids |-> ids,
                 len |-> len, want |-> want, used |-> {}, row |-> <<>>,
                 lapped |-> FALSE, got |-> FALSE]]
     \/ /\ After(c, applyFSMPreTransition(m)) = {}
        /\ UNCHANGED <<v6fsm, pkt>>
  /\ UNCHANGED <<prefixRows, bound, euiCache, admin>>

---------------------------------------------------------------------------
(* The lifetimes of a reply *)

clampSeconds(d) == IF d > WordMax THEN WordMax ELSE d

\* secondsValue: the first positive value, at most the word's largest.
secondsValue(value, override, fallback) ==
  clampSeconds(IF override > 0 THEN override
               ELSE IF value > 0 THEN value ELSE fallback)

\* resolvePoolLeaseProfile: lease times of the pool replace the policy's, the
\* default cut to the maximum; without any, the pool's own profile is taken as
\* it stands.
resolvePoolLeaseProfile(f, own, min, max) ==
  LET d == IF min > 0 THEN min ELSE f.def
      m == IF max > 0 THEN max ELSE f.max
      cut == [f EXCEPT !.max = m, !.def = IF m > 0 /\ d > m THEN m ELSE d]
  IN IF min > 0 \/ max > 0 \/ own = NoProfile THEN cut
     ELSE [own EXCEPT !.def = IF @ > 0 THEN @ ELSE f.def,
                      !.max = IF @ > 0 THEN @ ELSE f.max]

ResolvedProfiles ==
  {resolvePoolLeaseProfile(f, own, min, max) :
     f \in Profiles, own \in Profiles \cup {NoProfile},
     min \in PoolTimes, max \in PoolTimes}

\* The lifetimes of the IA_NA, without the correction of the valid one (mutant).
buildResponse_Uncorrected(profile, over, m) ==
  LET pref == secondsValue(profile.def, over.pref, 2)
  IN [pref |-> pref, valid |-> secondsValue(profile.max, over.valid, 2 * pref),
      t1 |-> secondsValue(profile.t1, 0, pref \div 2),
      t2 |-> secondsValue(profile.t2, 0, ((pref * 3) % (WordMax + 1)) \div 4)]

\* buildResponse: the lifetimes of the IA_NA.  pref * 3 is computed in the
\* word.  A CONFIRM answered with zero lifetimes keeps them.
buildResponse(profile, over, m) ==
  LET zero == m = "CONFIRM" /\ profile.def = 0 /\ profile.max = 0
      pref == IF zero THEN 0 ELSE secondsValue(profile.def, over.pref, 2)
      v == IF zero THEN 0 ELSE secondsValue(profile.max, over.valid, 2 * pref)
  IN [pref |-> pref, valid |-> IF v < pref THEN pref ELSE v,
      t1 |-> secondsValue(profile.t1, 0, pref \div 2),
      t2 |-> secondsValue(profile.t2, 0, ((pref * 3) % (WordMax + 1)) \div 4)]

\* buildPrefixDelegation: the hint, else the profile, else an hour (2).
buildPrefixDelegation(profile, hint) ==
  LET pref == IF hint.pref > 0 THEN hint.pref
              ELSE IF profile.def > 0 THEN profile.def ELSE 2
      v == IF hint.valid > 0 THEN hint.valid ELSE profile.max
  IN [pref |-> pref, valid |-> IF v < pref THEN 2 * pref ELSE v]

\* encodeIAPDOption: a lifetime of zero is replaced by the IA_NA's, whose T1
\* and T2 the option carries.
encodeIAPDOption(pd, ia) ==
  LET p == clampSeconds(pd.pref)
      v == clampSeconds(pd.valid)
      pref == IF p = 0 THEN ia.pref ELSE p
      valid == IF v = 0 THEN ia.valid ELSE v
  IN [pref |-> pref, valid |-> IF valid < pref THEN pref ELSE valid]

\* The reply to a message: its IA_NA, and the IA_PDs delegated.
Reply(f, over, m, pds) ==
  LET ia == buildResponse(f, over, m)
  IN [pc |-> "reply", of |-> f, over |-> over, ia |-> ia,
      pds |-> {[hint |-> h,
                life |-> encodeIAPDOption(buildPrefixDelegation(f, h), ia)] : h \in pds}]

\* The profile of a refusal (zeroLifetimeConfirmResult): no lifetime at all.
ZeroProfile == [def |-> 0, max |-> 0, t1 |-> 0, t2 |-> 0]

\* trySendNACK: only a CONFIRM keeps the zero lifetimes of the refusal; in any
\* other reply buildResponse puts its defaults.  No success transition follows.
trySendNACK(w) ==
  \E over \in Overrides :
    pkt' = [pkt EXCEPT ![w] = Reply(ZeroProfile, over, pkt[w].m, {})]

---------------------------------------------------------------------------
(* EUI-64 bindings *)

\* CreateIPv6EUI64Binding (repository): insert, or update of the same row.
CreateIPv6EUI64Binding(c) == bound' = bound \cup {c}

\* FindIPv6EUI64BindingByMAC.
FindIPv6EUI64BindingByMAC(c) == c \in bound

\* resolveEUI64IPv6Binding.  Without a stored binding the address is derived
\* and probed, and the binding is stored and cached; a packet without a MAC
\* binds nothing.  Another address asked for, another owner or a conflict on
\* the link is answered with a NACK; an error ends the packet.
resolveEUI64IPv6Binding(w) ==
  LET p == pkt[w] IN
  /\ p.pc = "eui"
  /\ \/ /\ p.c \in MacClients
        /\ p.c \in euiCache \/ FindIPv6EUI64BindingByMAC(p.c)
        /\ euiCache' = euiCache \cup {p.c}
        /\ pkt' = [pkt EXCEPT ![w].pc = "lease"]
        /\ UNCHANGED bound
     \/ /\ p.c \in MacClients
        /\ p.c \notin euiCache /\ ~FindIPv6EUI64BindingByMAC(p.c)
        /\ CreateIPv6EUI64Binding(p.c)
        /\ euiCache' = euiCache \cup {p.c}
        /\ pkt' = [pkt EXCEPT ![w].pc = "lease"]
     \/ /\ p.c \notin MacClients
        /\ pkt' = [pkt EXCEPT ![w].pc = "lease"]
        /\ UNCHANGED <<bound, euiCache>>
     \/ p.c \in MacClients /\ trySendNACK(w) /\ UNCHANGED <<bound, euiCache>>
     \/ Drop(w) /\ UNCHANGED <<bound, euiCache>>
  /\ UNCHANGED <<v6fsm, prefixRows, admin>>

---------------------------------------------------------------------------
(* Prefix delegation *)

\* resolveStaticPrefixDelegation: configuration, then policy, then binding.
resolveStaticPrefixDelegation(c) ==
  IF ConfigPD[c] # NoPrefix THEN ConfigPD[c]
  ELSE IF PolicyPD[c] # NoPrefix THEN PolicyPD[c] ELSE BindingPD[c]

Active == {r \in prefixRows : r.state = "ACTIVE"}

\* rejectStaticPrefixConflict: some other lease holds exactly this prefix.
rejectStaticPrefixConflict(c, id, p) ==
  \E r \in Active : r.prefix = p /\ ~(r.client = c /\ r.iapd = id)

\* resolvePoolSelector: a relay rule of the policy's metadata that matches
\* the packet, else the pool the selector finds.
resolvePoolSelector(rule, selected) == IF rule # NoPool THEN rule ELSE selected

\* The pool of a packet: named by the policy's decision, or by its selector,
\* or by the relay, or the default pool.
PoolOf(named, rule, selected, relay) ==
  LET chosen == <<named, resolvePoolSelector(rule, selected), relay, V6Pool>>
      given == {i \in 1 .. 4 : chosen[i] # NoPool}
  IN chosen[CHOOSE i \in given : \A j \in given : i <= j]

PoolChoices ==
  LET P == {V6Pool, V4Pool, NoPool}
  IN {PoolOf(n, r, s, l) : n \in P, r \in P, s \in P, l \in P}

\* attachPrefixDelegation: a static prefix replaces what the packet asks for
\* unless another lease holds it; some IA_PD is refused.
StaticConflict(p) ==
  LET static == resolveStaticPrefixDelegation(p.c) IN
  static # NoPrefix /\ \E i \in 1 .. Len(p.ids) :
                          rejectStaticPrefixConflict(p.c, p.ids[i], static)

attachPrefixDelegation(p) ==
  LET static == resolveStaticPrefixDelegation(p.c) IN
  IF static = NoPrefix THEN [p EXCEPT !.pc = "list"]
  ELSE [p EXCEPT !.pc = "list", !.want = static, !.len = static[1]]

\* HandleRequest after the binding: the address lease is granted or not, in
\* the pool chosen; prefixes only come from a pool with an IPv6 CIDR.
HandleRequest(w) ==
  LET p == pkt[w] IN
  /\ p.pc = "lease"
  /\ \/ Drop(w)
     \/ p.ids = <<>> /\ pkt' = [pkt EXCEPT ![w].pc = "finish"]
     \/ \E pool \in PoolChoices :
          /\ p.ids # <<>> /\ pool = V6Pool
          /\ ~StaticConflict(p)
          /\ pkt' = [pkt EXCEPT ![w] = attachPrefixDelegation(p)]
  /\ UNCHANGED <<v6fsm, prefixRows, bound, euiCache, admin>>

\* ListActivePrefixes.
ListActivePrefixes == {r.prefix : r \in Active}

\* AllocateOrReusePrefixes: the prefixes in use are read once, for all the
\* IA_PDs of the packet.
AllocateOrReusePrefixes(w) ==
  /\ pkt[w].pc = "list"
  /\ pkt' = [pkt EXCEPT ![w].pc = "get", ![w].used = ListActivePrefixes,
                        ![w].lapped = FALSE]
  /\ UNCHANGED <<v6fsm, prefixRows, bound, euiCache, admin>>

\* GetActivePrefixLease.
GetActivePrefixLease(c, id) ==
  {r \in Active : r.client = c /\ r.iapd = id}

\* The lookup of allocateOrReusePrefix (and of updatePrefixState, which has
\* nothing to do when there is no lease).
Lookup(w) ==
  LET p == pkt[w]
      mine == GetActivePrefixLease(p.c, Head(p.ids))
      Found == IF mine = {} THEN {<<>>} ELSE {<<r>> : r \in mine}
  IN
  /\ \/ p.pc = "get"
     \/ p.pc = "give" /\ p.ids # <<>>
  /\ \E found \in Found :
       IF p.pc = "give" /\ found = <<>>
       THEN pkt' = [pkt EXCEPT ![w].ids = Tail(@)]
       ELSE pkt' = [pkt EXCEPT ![w].row = found,
                      ![w].pc = IF @ = "give" THEN "close" ELSE "write"]
  /\ UNCHANGED <<v6fsm, prefixRows, bound, euiCache, admin>>

\* determinePrefixLength (a pool of length 0 here).
determinePrefixLength(len) == IF len > MaxLen THEN MaxLen ELSE len

\* AllocateSpecificPrefix: the wanted prefix, cut to the length, if free.
AllocateSpecificPrefix(want, len, used) ==
  IF want = NoPrefix THEN {}
  ELSE LET cut == <<len, IF want[1] >= len
                         THEN want[2] \div 2 ^ (want[1] - len)
                         ELSE want[2] * 2 ^ (len - want[1])>>
       IN {cut} \ used

\* AllocateAvailablePrefix: the first free prefix of the length, in order.
AllocateAvailablePrefix(len, used) ==
  LET total == IF 2 ^ len < ScanLimit THEN 2 ^ len ELSE ScanLimit
      free == {i \in 0 .. total - 1 : <<len, i>> \notin used}
  IN {<<len, i>> : i \in {j \in free : \A k \in free : j <= k}}

\* pickAvailablePrefix.
pickAvailablePrefix(want, len, used) ==
  LET own == AllocateSpecificPrefix(want, len, used)
  IN IF own # {} THEN own ELSE AllocateAvailablePrefix(len, used)

\* The unique key (client_id, iapd_id, state) admits the row.
UniqueKey(r) ==
  ~\E o \in prefixRows : /\ o.id # r.id /\ o.client = r.client
                         /\ o.iapd = r.iapd /\ o.state = r.state

\* UpdatePrefixLease: every column of the copy is written back by id.
UpdatePrefixLease(r) ==
  prefixRows' = {o \in prefixRows : o.id # r.id} \cup {r}

\* CreatePrefixLease.
CreatePrefixLease(r) == prefixRows' = prefixRows \cup {r}

\* Goroutines that have read the prefixes in use and have still to write.
Allocating == {w \in Workers : pkt[w].pc \in {"get", "write"}}

\* The next IA_PD of the packet, with the prefix just delegated in use.  What
\* the other goroutines read is out of date from here on (lapped).
NextRequest(w, p) ==
  LET mine == [pkt[w] EXCEPT !.ids = Tail(@), !.used = @ \cup {p},
                 !.row = <<>>, !.got = TRUE,
                 !.pc = IF Len(pkt[w].ids) = 1 THEN "finish" ELSE "get"]
  IN pkt' = [v \in Workers |->
               IF v = w THEN mine
               ELSE IF v \in Allocating THEN [pkt[v] EXCEPT !.lapped = TRUE]
               ELSE pkt[v]]

\* allocateOrReusePrefix after its lookup: the lease found is renewed, or a
\* free prefix is stored; a refused write or an exhausted pool ends the
\* packet with nothing undone.  raced (history): another goroutine had stored
\* a lease between this one's read of the prefixes in use and its write.
allocateOrReusePrefix(w) ==
  LET p == pkt[w]
      len == determinePrefixLength(p.len)
      picks == pickAvailablePrefix(p.want, len, p.used)
      Row(q) == [id |-> Cardinality(prefixRows) + 1, client |-> p.c,
                 iapd |-> Head(p.ids), prefix |-> q, state |-> "ACTIVE",
                 raced |-> p.lapped]
      Renewed == [p.row[1] EXCEPT !.raced = @ \/ p.lapped]
  IN
  /\ p.pc = "write"
  /\ \/ /\ p.row # <<>>
        /\ IF UniqueKey(p.row[1])
           THEN UpdatePrefixLease(Renewed) /\ NextRequest(w, p.row[1].prefix)
           ELSE Drop(w) /\ UNCHANGED prefixRows
     \/ /\ p.row = <<>>
        /\ Cardinality(prefixRows) < MaxPrefixRows
        /\ \E q \in picks : UniqueKey(Row(q)) /\ CreatePrefixLease(Row(q))
                            /\ NextRequest(w, q)
     \/ /\ p.row = <<>>
        /\ picks = {} \/ \E q \in picks : ~UniqueKey(Row(q))
        /\ Drop(w) /\ UNCHANGED prefixRows
  /\ UNCHANGED <<v6fsm, bound, euiCache, admin>>

\* HandleRelease and HandleDecline once every prefix is handed back.
HandleRelease(w) ==
  /\ pkt[w].pc = "give" /\ pkt[w].ids = <<>>
  /\ pkt' = [pkt EXCEPT ![w].pc = "finish"]
  /\ UNCHANGED <<v6fsm, prefixRows, bound, euiCache, admin>>

\* updatePrefixState: the copy is written with the new state; a standby
\* (ensurePrimaryWrite) or a refused write ends the packet.
updatePrefixState(w) ==
  LET p == pkt[w]
      r == [p.row[1] EXCEPT
              !.state = IF p.m = "RELEASE" THEN "RELEASED" ELSE "DECLINED"]
  IN
  /\ p.pc = "close"
  /\ \/ /\ UniqueKey(r) /\ UpdatePrefixLease(r)
        /\ pkt' = [pkt EXCEPT ![w].pc = "give", ![w].ids = Tail(@)]
     \/ Drop(w) /\ UNCHANGED prefixRows
  /\ UNCHANGED <<v6fsm, bound, euiCache, admin>>

\* GetPrefixLeaseByID and the check of updatePrefixStateByID, for
\* handlePrefixLeaseAction: nothing to do in the same state.
handlePrefixLeaseAction(r, state) ==
  /\ admin = <<>>
  /\ r.state # state
  /\ admin' = <<[r EXCEPT !.state = state]>>
  /\ UNCHANGED <<v6fsm, prefixRows, bound, euiCache, pkt>>

\* updatePrefixStateByID writes the copy; the unique key may refuse it.
updatePrefixStateByID ==
  /\ admin # <<>>
  /\ admin' = <<>>
  /\ IF UniqueKey(admin[1]) THEN UpdatePrefixLease(admin[1])
                            ELSE UNCHANGED prefixRows
  /\ UNCHANGED <<v6fsm, bound, euiCache, pkt>>

---------------------------------------------------------------------------
(* The end of a datagram *)

\* HandleConfirm: an address outside the pool is answered with no lifetime and
\* without the prefixes.
HandleConfirm(p, f, inside, over, hint) ==
  IF inside THEN Reply(f, over, p.m, IF p.got THEN {hint} ELSE {})
  ELSE Reply(ZeroProfile, over, p.m, {})

\* The end of processDatagram: the success transition, then the reply; a
\* refused transition drops it after the tables were changed.
Succeed(w) ==
  LET p == pkt[w]
      next == After(p.c, applyFSMSuccessTransition(p.m))
  IN
  /\ p.pc = "finish"
  /\ \/ /\ \E s \in next : v6fsm' = [v6fsm EXCEPT ![p.c] = s]
        /\ IF p.m \in {"RELEASE", "DECLINE", "INFORMATION"} THEN Drop(w)
           ELSE \E f \in ResolvedProfiles, over \in Overrides, hint \in Hints,
                    inside \in BOOLEAN :
                  /\ inside \/ p.m = "CONFIRM"
                  /\ pkt' = [pkt EXCEPT ![w] = HandleConfirm(p, f, inside, over, hint)]
     \/ next = {} /\ Drop(w) /\ UNCHANGED v6fsm
  /\ UNCHANGED <<prefixRows, bound, euiCache, admin>>

sendResponse(w) ==
  /\ pkt[w].pc = "reply"
  /\ Drop(w)
  /\ UNCHANGED <<v6fsm, prefixRows, bound, euiCache, admin>>

\* The process stops and starts: only the tables remain.
V6Restart ==
  /\ v6fsm' = [c \in V6Clients |-> "Init"]
  /\ euiCache' = {} /\ pkt' = [w \in Workers |-> Resting] /\ admin' = <<>>
  /\ UNCHANGED <<prefixRows, bound>>

---------------------------------------------------------------------------
V6Init ==
  /\ v6fsm = [c \in V6Clients |-> "Init"]
  /\ prefixRows = {} /\ bound = {} /\ euiCache = {}
  /\ pkt = [w \in Workers |-> Resting]
  /\ admin = <<>>

V6Next ==
  \/ \E w \in Workers, c \in V6Clients, m \in Messages, ids \in Lists,
        len \in Lens, want \in Wanted \cup {NoPrefix} :
       processDatagram(w, c, m, ids, len, want)
  \/ \E w \in Workers :
       \/ resolveEUI64IPv6Binding(w) \/ HandleRequest(w)
       \/ AllocateOrReusePrefixes(w) \/ Lookup(w) \/ allocateOrReusePrefix(w)
       \/ HandleRelease(w) \/ updatePrefixState(w) \/ Succeed(w)
       \/ sendResponse(w)
  \/ \E r \in prefixRows, s \in {"RELEASED", "DECLINED"} :
       handlePrefixLeaseAction(r, s)
  \/ updatePrefixStateByID
  \/ V6Restart

V6Spec == V6Init /\ [][V6Next]_v6Vars

---------------------------------------------------------------------------
(* Properties *)

\* A prefix is delegated to two IA_PDs only when two datagrams overlapped: one
\* stored its lease between the other's read of the prefixes in use and its
\* write (no lock is held and the table has no key on the prefix).  Nothing
\* else shares one: neither a prefix asked for, nor a static one, nor a copy
\* written back after an operator released the row (ListActivePrefixes,
\* rejectStaticPrefixConflict, AllocateSpecificPrefix, UpdatePrefixLease).
PrefixUnshared ==
  \A r, s \in Active : r.prefix = s.prefix => r = s \/ r.raced \/ s.raced

\* The lifetimes of every reply are ordered: preferred <= valid in the IA_NA
\* and in every IA_PD, whatever profile, options and hint hold; T1 <= T2 <=
\* the IA_NA's preferred when the profile leaves both to the server and three
\* times the preferred lifetime fits the word (beyond that T2 wraps below T1:
\* preferred*3 is a uint32 in buildResponse); and T2 <= the IA_PD's preferred
\* too, when neither the client's hint nor the options set one of the two.
LifetimesOrdered ==
  \A w \in Workers : pkt[w].pc = "reply" =>
    LET a == pkt[w].ia  f == pkt[w].of
        Derived == f.t1 = 0 /\ f.t2 = 0 /\ 3 * a.pref <= WordMax
    IN
    /\ a.pref <= a.valid
    /\ Derived => a.t1 <= a.t2 /\ a.t2 <= a.pref
    /\ \A d \in pkt[w].pds :
         /\ d.life.pref <= d.life.valid
         /\ Derived /\ d.hint.pref = 0 /\ pkt[w].over.pref = 0
              => a.t2 <= d.life.pref

\* What the server hands out: prefixes and lifetimes.
V6Sound == PrefixUnshared /\ LifetimesOrdered
============================================================================
