---------------------------- MODULE DhcpV4Server ----------------------------
(***************************************************************************)
(* The DHCPv4 front end of one node.                                       *)
(*                                                                         *)
(* The serving machine (internal/dhcpv4/server.go, cmd/dhcpd/main.go): the *)
(* listeners read datagrams from their sockets into a bounded queue, the   *)
(* workers take them from it, the checks in front of the handler drop or   *)
(* refuse them, and main stops everything on a signal.  The lease service  *)
(* behind the handler is LeaseService; here it grants or fails.            *)
(*                                                                         *)
(* The plan machine (internal/dhcpv4/handler.go, internal/mobility): the   *)
(* pool and the lease times a request is given, from the policy decision,  *)
(* the affinity cache, the relay selector and the two caches of the pool.  *)
(***************************************************************************)
EXTENDS Integers, Sequences, FiniteSets

CONSTANTS
  Datagrams,        \* the datagrams that reach the sockets of this node
  Traffic,          \* what they may carry: functions from some Datagrams to Features
  Listeners,        \* Options.ListenerFanout sockets and their goroutines
  Handlers,         \* Options.WorkerCount worker goroutines
  QueueDepth,       \* Options.QueueDepth
  Node, Ring, Hash, \* this node, buildServerRing's ring, the hash of each relay key
  MACRate,          \* Security.MACRateLimitPPS: the size of a MAC's bucket
  MaxReadErrors     \* bound on the fatal errors of the sockets

\* The features of a datagram: what parsing it gives, its message type, its
\* MAC, whether it went through a relay and whether that relay is in the
\* whitelist, what Option82 validation says, the key of its relay and whether the
\* relay's shared secret and identity are accepted.
Features ==
  [parses : BOOLEAN, type : {"discover", "request", "decline", "release", "bootp", "other"},
   mac : {"m1", "m2"}, relayed : BOOLEAN, listed : BOOLEAN, option82 : {"none", "ok", "bad"},
   relay : DOMAIN Hash, trusted : BOOLEAN, broadcast : BOOLEAN, ciaddr : BOOLEAN]

ASSUME TrafficAssumption == \A t \in Traffic : DOMAIN t \subseteq Datagrams /\ \A d \in DOMAIN t : t[d] \in Features

VARIABLES
  feature,    \* the member of Traffic that arrives
  wire,       \* datagrams that wait in the kernel
  sock,       \* per listener: "open" or "closed"
  reader,     \* per listener: "reading" or "ended"
  jobs,       \* the channel of datagrams
  jobsOpen,   \* close(jobs) has not been called
  worker,     \* per worker: [at, d]
  serve,      \* ListenAndServe: "select", "listeners", "workers" or "returned"
  readError,  \* an error is in errCh
  done,       \* runtimeCtx is cancelled
  main,       \* cmd/dhcpd main: "running", "api", "v4", "deferred" or "exited"
  tokens,     \* per MAC: what is left in its bucket
  taken,      \* datagrams a listener has put into the queue
  lost,       \* datagrams a listener dropped because the queue was full
  handled,    \* datagrams a worker has finished
  replies     \* <<datagram, message type, destination>> sent on the wire

serveVars == <<feature, wire, sock, reader, jobs, jobsOpen, worker, serve, readError, done,
               main, tokens, taken, lost, handled, replies>>

Resting == [at |-> "idle", d |-> CHOOSE d \in Datagrams : TRUE]

ServeInit ==
  /\ feature \in Traffic
  /\ wire = DOMAIN feature
  /\ sock = [l \in Listeners |-> "open"]
  /\ reader = [l \in Listeners |-> "reading"]
  /\ jobs = <<>> /\ jobsOpen = TRUE
  /\ worker = [w \in Handlers |-> Resting]
  /\ serve = "select" /\ readError = FALSE
  /\ done = FALSE /\ main = "running"
  /\ tokens = [m \in {"m1", "m2"} |-> MACRate]
  /\ taken = {} /\ lost = {} /\ handled = {} /\ replies = {}

---------------------------------------------------------------------------
\* Listeners

\* ReadFromUDP returns a datagram: it is queued, or dropped when the queue is
\* full.  When the context is done the select may also return.
Enqueue(l, d) ==
  \/ /\ done
     /\ reader' = [reader EXCEPT ![l] = "ended"]
     /\ UNCHANGED <<jobs, taken, lost>>
  \/ /\ Len(jobs) < QueueDepth
     /\ jobs' = Append(jobs, d)
     /\ taken' = taken \union {d}
     /\ UNCHANGED <<reader, lost>>
  \/ /\ Len(jobs) = QueueDepth /\ ~done
     /\ lost' = lost \union {d}
     /\ UNCHANGED <<reader, jobs, taken>>

Receive(l, d) ==
  /\ reader[l] = "reading" /\ sock[l] = "open" /\ d \in wire
  /\ wire' = wire \ {d}
  /\ Enqueue(l, d)
  /\ UNCHANGED <<feature, sock, jobsOpen, worker, serve, readError, done, main, tokens,
                 handled, replies>>

\* The read fails: the deadline passed or the socket was closed.  A listener
\* looks at the context first, goes on after a timeout and ends on a closed
\* socket without an error.
runListener(l) ==
  /\ reader[l] = "reading"
  /\ done \/ sock[l] = "closed"
  /\ reader' = [reader EXCEPT ![l] = "ended"]
  /\ UNCHANGED <<feature, wire, sock, jobs, jobsOpen, worker, serve, readError, done, main,
                 tokens, taken, lost, handled, replies>>

\* Any other error goes to errCh, which has room for one error per listener,
\* and ends the listener.
ReadFails(l) ==
  /\ reader[l] = "reading" /\ sock[l] = "open" /\ ~done
  /\ Cardinality({k \in Listeners : reader[k] = "ended"}) < MaxReadErrors
  /\ reader' = [reader EXCEPT ![l] = "ended"]
  /\ readError' = TRUE
  /\ UNCHANGED <<feature, wire, sock, jobs, jobsOpen, worker, serve, done, main, tokens,
                 taken, lost, handled, replies>>

---------------------------------------------------------------------------
\* ListenAndServe

SelectDone ==
  /\ serve = "select" /\ done
  /\ serve' = "listeners"
  /\ UNCHANGED <<feature, wire, sock, reader, jobs, jobsOpen, worker, readError, done, main,
                 tokens, taken, lost, handled, replies>>

SelectError_KeepsSockets ==
  /\ serve = "select" /\ readError
  /\ serve' = "listeners"
  /\ UNCHANGED <<feature, wire, sock, reader, jobs, jobsOpen, worker, readError, done, main,
                 tokens, taken, lost, handled, replies>>

\* The first error of a listener closes every socket, so that the others end.
SelectError ==
  /\ serve = "select" /\ readError
  /\ serve' = "listeners"
  /\ sock' = [l \in Listeners |-> "closed"]
  /\ UNCHANGED <<feature, wire, reader, jobs, jobsOpen, worker, readError, done, main, tokens,
                 taken, lost, handled, replies>>

\* <-watchers, then close(jobs).
CloseJobs ==
  /\ serve = "listeners" /\ \A l \in Listeners : reader[l] = "ended"
  /\ serve' = "workers" /\ jobsOpen' = FALSE
  /\ UNCHANGED <<feature, wire, sock, reader, jobs, worker, readError, done, main, tokens,
                 taken, lost, handled, replies>>

ServeReturn ==
  /\ serve = "workers" /\ \A w \in Handlers : worker[w].at = "ended"
  /\ serve' = "returned"
  /\ UNCHANGED <<feature, wire, sock, reader, jobs, jobsOpen, worker, readError, done, main,
                 tokens, taken, lost, handled, replies>>

---------------------------------------------------------------------------
\* Workers

\* As Exhausted, with a plausible slip.
Exhausted_Undrained == ~jobsOpen

\* The channel is drained before a receive reports that it is closed.
Exhausted == ~jobsOpen /\ jobs = <<>>

WorkerEnds(w) ==
  /\ worker[w].at = "idle" /\ (done \/ Exhausted)
  /\ worker' = [worker EXCEPT ![w].at = "ended"]
  /\ UNCHANGED <<feature, wire, sock, reader, jobs, jobsOpen, serve, readError, done, main,
                 tokens, taken, lost, handled, replies>>

runWorker(w) ==
  /\ worker[w].at = "idle" /\ jobs # <<>> /\ ~(Exhausted)
  /\ worker' = [worker EXCEPT ![w] = [at |-> "parse", d |-> Head(jobs)]]
  /\ jobs' = Tail(jobs)
  /\ UNCHANGED <<feature, wire, sock, reader, jobsOpen, serve, readError, done, main, tokens,
                 taken, lost, handled, replies>>

\* destinationFor: the relay, else broadcast, else the client's own address,
\* else the sender of the datagram.
destinationFor(d) ==
  CASE feature[d].relayed -> "relay"
    [] ~feature[d].relayed /\ feature[d].broadcast -> "broadcast"
    [] ~feature[d].relayed /\ ~feature[d].broadcast /\ feature[d].ciaddr -> "client"
    [] OTHER -> "sender"

\* sendResponse writes to the first socket only; a write to a closed socket
\* fails and the reply is gone.
FirstListener == CHOOSE l \in Listeners : TRUE

sendResponse(d, type) ==
  IF sock[FirstListener] = "open" THEN replies \union {<<d, type, destinationFor(d)>>} ELSE replies

sendNak(d) == sendResponse(d, "nak")

Finish(w, d, answered) ==
  /\ worker' = [worker EXCEPT ![w] = Resting]
  /\ handled' = handled \union {d}
  /\ replies' = answered

\* The type decides which handler runs; a packet without a type is BOOTP.
Served(d) == feature[d].type # "other"

\* dhcpv4AllowByMAC: a bucket of MACRate packets per MAC, refilled by time.
dhcpv4AllowByMAC(d) == tokens[feature[d].mac] > 0

Refill(m) ==
  /\ tokens[m] < MACRate
  /\ tokens' = [tokens EXCEPT ![m] = @ + 1]
  /\ UNCHANGED <<feature, wire, sock, reader, jobs, jobsOpen, worker, serve, readError,
                 done, main, taken, lost, handled, replies>>

processDatagram(w, d) ==
  /\ worker[w] = [at |-> "parse", d |-> d]
  /\ \/ /\ ~feature[d].parses
        /\ Finish(w, d, replies) /\ UNCHANGED tokens
     \/ /\ feature[d].parses /\ ~dhcpv4AllowByMAC(d)
        /\ Finish(w, d, replies) /\ UNCHANGED tokens
     \/ /\ feature[d].parses /\ dhcpv4AllowByMAC(d)
        /\ tokens' = [tokens EXCEPT ![feature[d].mac] = @ - 1]
        /\ IF Served(d)
             THEN worker' = [worker EXCEPT ![w].at = "check"] /\ UNCHANGED <<handled, replies>>
             ELSE Finish(w, d, replies)
  /\ UNCHANGED <<feature, wire, sock, reader, jobs, jobsOpen, serve, readError, done, main,
                 taken, lost>>

\* dhcpv4RelayValidateOrReject: with a whitelist, a relayed packet or one with
\* Option82 must come from a listed address.
dhcpv4RelayValidate(d) ==
  (feature[d].relayed \/ feature[d].option82 # "none") => feature[d].listed

\* dhcpv4Option82ValidateOrReject.
dhcpv4Option82Validate(d) == feature[d].option82 # "bad"

\* ShouldHandle: the relay's key is hashed onto the ring, in which a server
\* stands as often as its weight; an empty ring or key leaves it to everybody.
ShouldHandle(key) ==
  Ring = <<>> \/ Hash[key] < 0 \/ Ring[(Hash[key] % Len(Ring)) + 1] = Node

\* shouldHandleRelay: the node that owns the relay answers.
shouldHandleRelay(d) == ShouldHandle(feature[d].relay)

\* The three checks in front of the handler: the first two refuse with a NAK,
\* the third leaves the packet to its owner.
CheckPacket(w, d) ==
  /\ worker[w] = [at |-> "check", d |-> d]
  /\ IF ~dhcpv4RelayValidate(d) \/ ~dhcpv4Option82Validate(d)
       THEN Finish(w, d, sendNak(d))
       ELSE IF ~shouldHandleRelay(d)
         THEN Finish(w, d, replies)
         ELSE worker' = [worker EXCEPT ![w].at = "handle"] /\ UNCHANGED <<handled, replies>>
  /\ UNCHANGED <<feature, wire, sock, reader, jobs, jobsOpen, serve, readError, done, main,
                 tokens, taken, lost>>

\* What the handler may return: authorizeRelay refuses an unknown relay; the
\* guard, the lease service or the build of the answer may fail, and every
\* call fails once the context is cancelled.
Outcomes(d) ==
  IF ~feature[d].trusted \/ done THEN {"error"} ELSE {"ok", "error"}

handleDiscover(d, out) == IF out = "ok" THEN sendResponse(d, "offer") ELSE replies

handleRequest(d, out) == IF out = "ok" THEN sendResponse(d, "ack") ELSE sendNak(d)

handleBootRequest(d, out) == IF out = "ok" THEN sendResponse(d, "ack") ELSE replies

\* A decline or a release is never answered.
handleDecline(d, out) == replies

handleRelease(d, out) == replies

HandlePacket(w, d) ==
  /\ worker[w] = [at |-> "handle", d |-> d]
  /\ \E out \in Outcomes(d) :
       Finish(w, d, CASE feature[d].type = "discover" -> handleDiscover(d, out)
                      [] feature[d].type = "request" -> handleRequest(d, out)
                      [] feature[d].type = "bootp" -> handleBootRequest(d, out)
                      [] feature[d].type = "decline" -> handleDecline(d, out)
                      [] feature[d].type = "release" -> handleRelease(d, out))
  /\ UNCHANGED <<feature, wire, sock, reader, jobs, jobsOpen, serve, readError, done, main,
                 tokens, taken, lost>>

---------------------------------------------------------------------------
\* cmd/dhcpd main: a signal cancels the context, the API is shut down, then the
\* sockets are closed, then the deferred calls run.  main does not wait for
\* ListenAndServe.

Signal ==
  /\ main = "running"
  /\ main' = "api" /\ done' = TRUE
  /\ UNCHANGED <<feature, wire, sock, reader, jobs, jobsOpen, worker, serve, readError,
                 tokens, taken, lost, handled, replies>>

ApiStopped ==
  /\ main = "api"
  /\ main' = "v4"
  /\ UNCHANGED <<feature, wire, sock, reader, jobs, jobsOpen, worker, serve, readError, done,
                 tokens, taken, lost, handled, replies>>

Shutdown ==
  /\ main = "v4"
  /\ sock' = [l \in Listeners |-> "closed"]
  /\ main' = "deferred"
  /\ UNCHANGED <<feature, wire, reader, jobs, jobsOpen, worker, serve, readError, done, tokens,
                 taken, lost, handled, replies>>

ServeNext ==
  \/ \E l \in Listeners : \/ \E d \in wire : Receive(l, d)
                          \/ runListener(l) \/ ReadFails(l)
  \/ SelectDone \/ SelectError \/ CloseJobs \/ ServeReturn
  \/ \E w \in Handlers : \/ WorkerEnds(w) \/ runWorker(w)
                         \/ \E d \in Datagrams : \/ processDatagram(w, d)
                                                 \/ CheckPacket(w, d)
                                                 \/ HandlePacket(w, d)
  \/ \E m \in DOMAIN tokens : Refill(m)
  \/ Signal \/ ApiStopped \/ Shutdown

\* Goroutines that can run do; a select with several ready cases may go on
\* picking the same one, but only while that one is ready.  No signal and no
\* datagram is promised.
ServeFairness ==
  /\ \A l \in Listeners : WF_serveVars(runListener(l))
  /\ WF_serveVars(SelectDone \/ SelectError)
  /\ WF_serveVars(CloseJobs) /\ WF_serveVars(ServeReturn)
  /\ \A w \in Handlers :
       /\ WF_serveVars(runWorker(w) \/ WorkerEnds(w))
       /\ WF_serveVars(\E d \in Datagrams :
            processDatagram(w, d) \/ CheckPacket(w, d) \/ HandlePacket(w, d))

\* A cancelled context and a broken socket both end ListenAndServe: every
\* listener and every worker has returned and no goroutine is left behind
\* (server.go ListenAndServe, runListener, runWorker).
ServeReturns == (done \/ readError) ~> (serve = "returned")

\* A datagram that a listener has queued is handled unless the process is being
\* stopped: the error of one socket, which ends all the listeners, does not
\* discard what the queue holds (server.go ListenAndServe 190-192, runWorker).
\* Datagrams are finitely many and stay handled, so again and again all that were
\* queued are.
QueuedServed == []<>(taken \subseteq handled \/ done)

\* The server comes to rest: ListenAndServe returns and what was queued is served.
ServerSettles == ServeReturns /\ QueuedServed
---------------------------------------------------------------------------
\* The plan of a request

CONSTANTS
  Clients,          \* identities of clients
  PlanWorkers,      \* workers that serve them
  PoolIds,          \* pools of the tenant
  DefaultPool,      \* fallbackPool and the "default" of leasePlan
  Relays,           \* the metadata of relays: [giaddr, vrf, vpn, vlan, region, dc]
  Selection,        \* the selector's configuration, see Resolve
  NoPool,
  Times,            \* lease times a pool may be configured with
  PoolTimesTTL,     \* poolTimesCacheTTL, 30 seconds
  PoolCacheTTL,     \* pool.WithCache, 30 seconds
  AffinityTTL,      \* MobilityAffinityTTL
  ReplayWindow,     \* RelayAuthentication.ReplayWindow
  MaxClock,         \* bound of the clock
  MaxEdits          \* bound on the edits of pools and policies

VARIABLES
  clock,
  row,        \* per pool: the lease time in its row
  had,        \* per instant: the times each pool's row had then
  repoCache,  \* pool.Repository's cache: per pool [time, at] or Nothing
  timesCache, \* Handler.poolTimesCache: per pool [time, at] or Nothing
  affinity,   \* AffinityCache: per client [pool, at] or Nothing
  granted,    \* per client and pool: the last instant a lease was granted there
  seenPSK,    \* Authenticator.seenPSK: per relay the instant or Nothing
  decision,   \* what the policy engine decides: [kind, pool]
  edits,      \* edits so far
  call        \* per worker: the request in hand and its plan

planVars == <<clock, row, had, repoCache, timesCache, affinity, granted, seenPSK,
              decision, edits, call>>

Nothing == [none |-> TRUE]
Known(e) == e # Nothing
NoCall == [at |-> "idle"]

\* No pool, a pool, or a selector with what ResolvePool finds for it: NoPool when
\* nothing matches or the lookup fails.
Decisions == {[kind |-> k, pool |-> NoPool] : k \in {"none", "selector"}} \union
             {[kind |-> k, pool |-> p] : k \in {"pool", "selector"}, p \in PoolIds}

PlanInit ==
  /\ clock = 0
  /\ \E t \in Times : row = [p \in PoolIds |-> t]
  /\ had = [t \in 0..MaxClock |-> IF t = 0 THEN {<<p, row[p]>> : p \in PoolIds} ELSE {}]
  /\ repoCache = [p \in PoolIds |-> Nothing]
  /\ timesCache = [p \in PoolIds |-> Nothing]
  /\ affinity = [c \in Clients |-> Nothing]
  /\ granted = [x \in Clients \X PoolIds |-> Nothing]
  /\ seenPSK = [g \in Relays |-> Nothing]
  /\ decision = [kind |-> "none", pool |-> NoPool]
  /\ edits = 0
  /\ call = [w \in PlanWorkers |-> NoCall]

\* The relay gives its secret: verifySecret loads the instant the token was
\* last seen and refuses it inside the window, then stores now.
verifySecret(w, c, g) ==
  /\ call[w] = NoCall
  /\ IF Known(seenPSK[g]) /\ clock - seenPSK[g].at < ReplayWindow
       THEN UNCHANGED call
       ELSE call' = [call EXCEPT ![w] = [at |-> "store", client |-> c, relay |-> g]]
  /\ UNCHANGED <<clock, row, had, repoCache, timesCache, affinity, granted, seenPSK,
                 decision, edits>>

Authorize(w) ==
  /\ call[w].at = "store"
  /\ seenPSK' = [seenPSK EXCEPT ![call[w].relay] = [at |-> clock]]
  /\ call' = [call EXCEPT ![w].at = "plan"]
  /\ UNCHANGED <<clock, row, had, repoCache, timesCache, affinity, granted, decision, edits>>

\* As Lookup, with a plausible slip.
Lookup_Forever(c) == IF Known(affinity[c]) THEN affinity[c].pool ELSE NoPool

\* Lookup: an entry is good up to and including the instant it is TTL old.
Lookup(c) ==
  IF Known(affinity[c]) /\ clock <= affinity[c].at + AffinityTTL THEN affinity[c].pool ELSE NoPool

\* The pool the first of a list of rules that matches gives: a rule lists the
\* fields it constrains.
FirstMatch(rules, m) ==
  LET hits == {i \in DOMAIN rules : \A f \in DOMAIN rules[i].match : rules[i].match[f] = m[f]}
  IN IF hits = {} THEN NoPool ELSE rules[CHOOSE i \in hits : \A j \in hits : i <= j].pool

matchGiaddr(m) == IF m.giaddr = "" THEN NoPool ELSE FirstMatch(Selection.giaddrRules, m)

\* The VRF, then the VPN, then the VLAN of the relay.
matchCrossDomain(m) ==
  LET vrf == IF m.vrf = "" THEN NoPool ELSE FirstMatch(Selection.vrfRules, m)
      vpn == IF m.vpn = "" THEN NoPool ELSE FirstMatch(Selection.vpnRules, m)
      vlan == IF m.vlan = 0 THEN NoPool ELSE FirstMatch(Selection.vlanPools, m)
  IN IF vrf # NoPool THEN vrf ELSE IF vpn # NoPool THEN vpn ELSE vlan

matchRules(m) == FirstMatch(Selection.rules, m)

\* The region's first pool, else the data centre's.
regionFallback(m) ==
  LET at(key) == IF key \in DOMAIN Selection.regions THEN Selection.regions[key] ELSE NoPool
  IN IF at(m.region) # NoPool THEN at(m.region) ELSE at(m.dc)

Resolve(m) ==
  LET found == SelectSeq(<<matchGiaddr(m), matchCrossDomain(m), matchRules(m),
                           regionFallback(m), Selection.default>>, LAMBDA p : p # NoPool)
  IN IF Selection.enabled /\ found # <<>> THEN Head(found) ELSE NoPool

\* Both lifetimes are constants of the code, and the configuration names pools
\* of the tenant.
ASSUME PlanAssumption ==
  /\ PoolTimesTTL \in Nat \ {0} /\ PoolCacheTTL \in Nat \ {0} /\ AffinityTTL \in Nat
  /\ MaxClock \in Nat
  /\ DefaultPool \in PoolIds /\ NoPool \notin PoolIds
  /\ \A g \in Relays : Resolve(g) \in PoolIds \cup {NoPool}

\* leasePlan: the decision's pool, else the affinity of the client, else what
\* the selector resolves to, if anything, else the relay's pool, else the default.
leasePlan(c, g) ==
  LET from == IF decision.kind = "pool" THEN "policy"
              ELSE IF Lookup(c) # NoPool THEN "affinity"
              ELSE IF decision.pool # NoPool THEN "selector"
              ELSE IF Resolve(g) # NoPool THEN "relay" ELSE "default"
  IN [from |-> from,
      pool |-> CASE from \in {"policy", "selector"} -> decision.pool
                 [] from = "affinity" -> Lookup(c)
                 [] from = "relay" -> Resolve(g)
                 [] OTHER -> DefaultPool]

\* A lookup that finds an entry past its time deletes it.
Evicted(c) == [affinity EXCEPT ![c] = IF Lookup(c) = NoPool THEN Nothing ELSE @]

Live(e, ttl) == Known(e) /\ clock - e.at < ttl

\* GetPool through the repository's cache.
GetPool(p) == IF Live(repoCache[p], PoolCacheTTL) THEN repoCache[p].time ELSE row[p]

\* applyPoolLeaseTimes: the handler's own cache in front of GetPool.
applyPoolLeaseTimes(p) ==
  IF Live(timesCache[p], PoolTimesTTL) THEN timesCache[p].time ELSE GetPool(p)

TimesStored_Sliding(p) ==
  [timesCache EXCEPT ![p] = [time |-> applyPoolLeaseTimes(p), at |-> clock]]

TimesStored(p) ==
  IF Live(timesCache[p], PoolTimesTTL) THEN timesCache
  ELSE [timesCache EXCEPT ![p] = [time |-> GetPool(p), at |-> clock]]

PlanRequest(w) ==
  /\ call[w].at = "plan"
  /\ LET c == call[w].client
         plan == leasePlan(c, call[w].relay)
         p == plan.pool
     IN /\ affinity' = IF plan.from = "policy" THEN affinity ELSE Evicted(c)
        /\ repoCache' = IF Live(timesCache[p], PoolTimesTTL) \/ Live(repoCache[p], PoolCacheTTL)
                        THEN repoCache
                        ELSE [repoCache EXCEPT ![p] = [time |-> row[p], at |-> clock]]
        /\ timesCache' = TimesStored(p)
        /\ call' = [call EXCEPT ![w] = [at |-> "lease", client |-> c, pool |-> p,
             from |-> plan.from, time |-> applyPoolLeaseTimes(p), planned |-> clock]]
  /\ UNCHANGED <<clock, row, had, granted, seenPSK, decision, edits>>

\* The lease service grants a lease, in the pool asked for or, for a client it
\* knows, in the pool of its lease, or it fails; a grant is remembered.
rememberMobilityAffinity(w) ==
  /\ call[w].at = "lease"
  /\ LET c == call[w].client IN
     \/ \E p \in {call[w].pool} \union {q \in PoolIds : Known(granted[<<c, q>>])} :
          /\ affinity' = [affinity EXCEPT ![c] = [pool |-> p, at |-> clock]]
          /\ granted' = [granted EXCEPT ![<<c, p>>] = [at |-> clock]]
     \/ UNCHANGED <<affinity, granted>>
  /\ call' = [call EXCEPT ![w] = NoCall]
  /\ UNCHANGED <<clock, row, had, repoCache, timesCache, seenPSK, decision, edits>>

\* An edit of the pool on this node evicts the repository's copy, an edit on
\* another node does not; neither reaches the handler's cache.
UpdatePool(p, t, here) ==
  /\ t # row[p] /\ edits < MaxEdits /\ edits' = edits + 1
  /\ row' = [row EXCEPT ![p] = t]
  /\ had' = [had EXCEPT ![clock] = @ \union {<<p, t>>}]
  /\ repoCache' = IF here THEN [repoCache EXCEPT ![p] = Nothing] ELSE repoCache
  /\ UNCHANGED <<clock, timesCache, affinity, granted, seenPSK, decision, call>>

ChangePolicy ==
  /\ edits < MaxEdits /\ edits' = edits + 1
  /\ \E d \in Decisions : d # decision /\ decision' = d
  /\ UNCHANGED <<clock, row, had, repoCache, timesCache, affinity, granted, seenPSK,
                 call>>

PlanTick ==
  /\ clock < MaxClock
  /\ clock' = clock + 1
  /\ had' = [had EXCEPT ![clock + 1] = {<<p, row[p]>> : p \in PoolIds}]
  /\ UNCHANGED <<row, repoCache, timesCache, affinity, granted, seenPSK, decision, edits, call>>

PlanNext ==
  \/ \E w \in PlanWorkers : \/ \E c \in Clients, g \in Relays : verifySecret(w, c, g)
                            \/ Authorize(w) \/ PlanRequest(w) \/ rememberMobilityAffinity(w)
  \/ \E p \in PoolIds, t \in Times, here \in BOOLEAN : UpdatePool(p, t, here)
  \/ ChangePolicy \/ PlanTick

PlanSpec == PlanInit /\ [][PlanNext]_planVars

\* A plan is never older than its caches allow: the lease time it gives is one
\* the pool's row had within the two cache lifetimes together, and a client is
\* sent to a remembered pool only within the affinity lifetime of a lease it
\* was granted there (handler.go leasePlan, applyPoolLeaseTimes; affinity.go).
PlanFresh ==
  \A w \in {v \in PlanWorkers : call[v].at = "lease"} : LET plan == call[w] IN
    /\ \E t \in 0..plan.planned : /\ plan.planned - t < PoolTimesTTL + PoolCacheTTL
                                  /\ <<plan.pool, plan.time>> \in had[t]
    /\ plan.from = "affinity" =>
         /\ Known(granted[<<plan.client, plan.pool>>])
         /\ plan.planned - granted[<<plan.client, plan.pool>>].at <= AffinityTTL
=============================================================================
