----------------------------- MODULE HARuntime -----------------------------
(***************************************************************************)
(* What a failover manager drives besides its role (internal/failover/     *)
(* adapters.go, replicator_runtime.go and the rest of manager.go): the     *)
(* virtual address and its DNS entry, the discovery registry, the state    *)
(* broadcast and the replication reader.  The manager's decisions are in   *)
(* Failover; here its role is set by anyone, at any time.                  *)
(***************************************************************************)
EXTENDS Integers, FiniteSets

CONSTANTS
  Setters,         \* goroutines that set the role: the loop, API requests
  Loop,            \* the one of them that is the manager's loop
  MaxRoleChanges,  \* bound on role changes
  MaxAdapterFaults,\* bound on failing commands and requests
  MaxStreamFaults  \* bound on failures of the stream; beyond it it works

ASSUME RuntimeAssumption ==
  /\ Loop \in Setters
  /\ {MaxRoleChanges, MaxAdapterFaults, MaxStreamFaults} \subseteq Nat

VARIABLES
  running,    \* "no", "yes", "stopped": Manager.Start and Stop
  mrole,      \* Manager.role
  adv,        \* the advertisement of every setter, or Idle
  vip,        \* the virtual address is on this node's interface
  dns,        \* role the DNS entry was last told
  ingressOK,  \* keepalivedIngress.healthy
  aged,       \* the last Advertise is older than twice the grace
  discRole,   \* httpDiscoveryRegistry.lastRole
  trigger,    \* its channel holds a token
  push,       \* role a registration in flight carries, or "none"
  registry,   \* external: role the registry shows for this node
  spent       \* [role, fault]: what the bounds have used up

ingressVars == <<adv, vip, dns, ingressOK, aged>>
discVars    == <<discRole, trigger, push, registry>>
runtimeVars == <<running, mrole, ingressVars, discVars, spent>>

Idle == [pc |-> "idle"]

CanFail == spent.fault < MaxAdapterFaults
Fault(b) == spent' = [spent EXCEPT !.fault = IF b THEN @ + 1 ELSE @]

---------------------------------------------------------------------------
(* The virtual address *)

\* updateIngress reads the role after it was set.
updateIngress(s) == adv' = [adv EXCEPT ![s] = [pc |-> "read"]]

\* Advertise records the role and starts to apply it.
Advertise(s) ==
  /\ adv[s].pc = "read"
  /\ adv' = [adv EXCEPT ![s] = IF running = "yes"
       THEN [pc |-> "apply", role |-> mrole, todo |-> {"vip", "dns"}, bad |-> {}]
       ELSE Idle]
  /\ aged' = FALSE
  /\ UNCHANGED <<running, mrole, vip, dns, ingressOK, discVars, spent>>

\* ensureVIP and withdrawVIP: replacing an address is idempotent, deleting
\* one that is not there is an error, as is a command that fails.
VipCommand(s) ==
  /\ adv[s].pc = "apply" /\ "vip" \in adv[s].todo
  /\ \E fails \in BOOLEAN :
       LET bad == fails \/ (adv[s].role # "primary" /\ ~vip) IN
       /\ fails => CanFail
       /\ vip' = IF fails THEN vip ELSE adv[s].role = "primary"
       /\ adv' = [adv EXCEPT ![s].todo = @ \ {"vip"},
                             ![s].bad = IF bad THEN @ \cup {"vip"} ELSE @]
       /\ Fault(fails)
  /\ UNCHANGED <<running, mrole, dns, ingressOK, aged, discVars>>

\* updateDNS, postDNSUpdate: the entry is told the role.
updateDNS(s) ==
  /\ adv[s].pc = "apply" /\ "dns" \in adv[s].todo
  /\ \E fails \in BOOLEAN :
       /\ fails => CanFail
       /\ dns' = IF fails THEN dns ELSE adv[s].role
       /\ adv' = [adv EXCEPT ![s].todo = @ \ {"dns"},
                             ![s].bad = IF fails THEN @ \cup {"dns"} ELSE @]
       /\ Fault(fails)
  /\ UNCHANGED <<running, mrole, vip, ingressOK, aged, discVars>>

\* applyIngress that only looks at the DNS goroutine's error (mutant).
applyIngress_DnsOnly(a) == "dns" \notin a.bad

\* applyIngress: both goroutines have ended, and neither reported an error.
applyIngress(a) == a.bad = {}

AdvertiseDone(s) ==
  /\ adv[s].pc = "apply" /\ adv[s].todo = {}
  /\ ingressOK' = applyIngress(adv[s])
  /\ adv' = [adv EXCEPT ![s] = Idle]
  /\ UNCHANGED <<running, mrole, vip, dns, aged, discVars, spent>>

\* watchdog: a primary that has not advertised for twice the grace.
watchdog ==
  /\ running = "yes" /\ aged /\ mrole = "primary" /\ ingressOK
  /\ ingressOK' = FALSE
  /\ UNCHANGED <<running, mrole, adv, vip, dns, aged, discVars, spent>>

Grace ==
  /\ running = "yes" /\ ~aged
  /\ aged' = TRUE
  /\ UNCHANGED <<running, mrole, adv, vip, dns, ingressOK, discVars, spent>>

---------------------------------------------------------------------------
(* The role, its broadcast, the registry *)

\* setRole: a change is advertised.  The mutex covers the assignment only.
setRole(s, r) ==
  /\ running = "yes" /\ adv[s].pc = "idle" /\ mrole # r
  /\ spent.role < MaxRoleChanges
  /\ mrole' = r
  /\ spent' = [spent EXCEPT !.role = @ + 1]
  /\ updateIngress(s)
  /\ UNCHANGED <<running, vip, dns, ingressOK, aged, discVars>>

\* Refresh: the role is stored, and a token put into the channel unless one
\* is there.
Refresh(r) == discRole' = r /\ trigger' = TRUE

\* The loop's refreshDiscovery on every tick.
refreshDiscovery ==
  /\ running = "yes"
  /\ Refresh(mrole)
  /\ UNCHANGED <<running, mrole, ingressVars, push, registry, spent>>

\* pushRegistration with the role the registry was started with (mutant).
pushRegistration_Captured ==
  /\ running = "yes" /\ push = "none"
  /\ push' = "unknown" /\ trigger' = FALSE
  /\ UNCHANGED <<running, mrole, ingressVars, discRole, registry, spent>>

\* loop, pushRegistration: on the ticker or a token the role is read ...
pushRegistration ==
  /\ running = "yes" /\ push = "none"
  /\ push' = discRole /\ trigger' = FALSE
  /\ UNCHANGED <<running, mrole, ingressVars, discRole, registry, spent>>

\* ... and sent to the endpoints.
PushSent ==
  /\ push # "none"
  /\ \E fails \in BOOLEAN : /\ fails => CanFail
                            /\ registry' = IF fails THEN registry ELSE push
                            /\ Fault(fails)
  /\ push' = "none"
  /\ UNCHANGED <<running, mrole, ingressVars, discRole, trigger>>

---------------------------------------------------------------------------
(* Start and Stop *)

\* buildIngressController, buildDiscoveryRegistry; a virtual
\* address left by an earlier process may still be on the interface.
RuntimeInit ==
  /\ running = "no" /\ mrole = "unknown"
  /\ adv = [s \in Setters |-> Idle]
  /\ vip \in BOOLEAN /\ dns \in {"unknown", "primary"}
  /\ ingressOK = FALSE /\ aged = FALSE
  /\ discRole = "unknown" /\ trigger = FALSE /\ push = "none"
  /\ registry \in {"unknown", "primary"}
  /\ spent = [role |-> 0, fault |-> 0]

\* Manager.Start: components first, then the role is advertised.
Start ==
  /\ running = "no"
  /\ running' = "yes" /\ ingressOK' = TRUE /\ aged' = FALSE
  /\ updateIngress(Loop)
  /\ Refresh(mrole)
  /\ UNCHANGED <<mrole, vip, dns, push, registry, spent>>

\* Manager.Stop: waits for the loop, then cancels the components; the
\* virtual address is left where it is.  stopOnce: there is no second Start.
Stop ==
  /\ running = "yes" /\ adv[Loop].pc = "idle"
  /\ running' = "stopped"
  /\ UNCHANGED <<mrole, ingressVars, discVars, spent>>

RuntimeNext ==
  \/ Start \/ Stop \/ watchdog \/ Grace \/ refreshDiscovery \/ pushRegistration
  \/ PushSent
  \/ \E s \in Setters : \/ Advertise(s) \/ VipCommand(s) \/ updateDNS(s)
                        \/ AdvertiseDone(s)
                        \/ \E r \in {"primary", "standby"} : setRole(s, r)

\* Goroutines go on, tickers fire.
RuntimeFairness ==
  /\ WF_runtimeVars(refreshDiscovery) /\ WF_runtimeVars(pushRegistration)
  /\ WF_runtimeVars(PushSent)

---------------------------------------------------------------------------
(* The replicator *)

VARIABLES
  repl,       \* its goroutine
  streaming,  \* cdc or event-stream with brokers: else the TCP probe
  telemetry,  \* its telemetry: [healthy, state]
  observed,   \* Manager.replication
  stop,       \* "no", "asked": the context is cancelled, "returned"
  faults      \* failures of the stream so far

replVars == <<repl, streaming, telemetry, observed, stop, faults>>

storeTelemetry(ok, st) == telemetry' = [healthy |-> ok, state |-> st]
StreamFault == faults < MaxStreamFaults /\ faults' = faults + 1

\* consumeStream: openStreamReader does not reach for the brokers, so the
\* telemetry is healthy before anything was read.
consumeStream ==
  /\ repl = "open" /\ streaming
  /\ \/ /\ stop # "no" /\ repl' = "off" /\ UNCHANGED <<telemetry, faults>>
     \/ /\ stop = "no" /\ repl' = "read" /\ storeTelemetry(TRUE, "catching_up")
        /\ UNCHANGED faults
     \/ /\ stop = "no" /\ StreamFault
        /\ repl' = "wait" /\ storeTelemetry(FALSE, "error")
  /\ UNCHANGED <<streaming, observed, stop>>

\* A cancelled read is retried like any other failure (mutant).
ReadMessage_Insists ==
  /\ repl = "read"
  /\ \/ stop = "no" /\ storeTelemetry(TRUE, "applying") /\ UNCHANGED <<repl, faults>>
     \/ /\ stop = "no" /\ StreamFault
        /\ repl' = "wait" /\ storeTelemetry(FALSE, "error")
     \/ /\ stop # "no" /\ UNCHANGED faults
        /\ repl' = "read" /\ storeTelemetry(FALSE, "error")
  /\ UNCHANGED <<streaming, observed, stop>>

\* ReadMessage returns a message, of which only the telemetry is kept
\* (replicationTelemetryFromMessage), a failure, or the cancellation.
ReadMessage ==
  /\ repl = "read"
  /\ \/ stop = "no" /\ storeTelemetry(TRUE, "applying") /\ UNCHANGED <<repl, faults>>
     \/ /\ stop = "no" /\ StreamFault
        /\ repl' = "wait" /\ storeTelemetry(FALSE, "error")
     \/ stop # "no" /\ repl' = "off" /\ UNCHANGED <<telemetry, faults>>
  /\ UNCHANGED <<streaming, observed, stop>>

\* The pause before the reader is opened again.
ReopenPause ==
  /\ repl = "wait"
  /\ repl' = IF stop # "no" THEN "off" ELSE "open"
  /\ UNCHANGED <<streaming, telemetry, observed, stop, faults>>

\* probeOnce, for the other modes: a TCP connection to the partner.
probeOnce ==
  /\ repl = "open" /\ ~streaming
  /\ \/ stop # "no" /\ repl' = "off" /\ UNCHANGED <<telemetry, faults>>
     \/ /\ stop = "no" /\ storeTelemetry(TRUE, "connected")
        /\ UNCHANGED <<repl, faults>>
     \/ /\ stop = "no" /\ StreamFault
        /\ storeTelemetry(FALSE, "disconnected") /\ UNCHANGED repl
  /\ UNCHANGED <<streaming, observed, stop>>

\* observeReplication: the manager copies the telemetry on its tick, until
\* its loop has ended.
observeReplication ==
  /\ stop = "no" /\ observed # telemetry
  /\ observed' = telemetry
  /\ UNCHANGED <<repl, streaming, telemetry, stop, faults>>

\* buildReplicator and runtimeReplicator.Start.
ReplInit ==
  /\ repl = "open" /\ streaming \in BOOLEAN
  /\ telemetry = [healthy |-> TRUE, state |-> "starting"]
  /\ observed = [healthy |-> TRUE, state |-> "starting"]
  /\ stop = "no" /\ faults = 0

\* runtimeReplicator.Stop, of the manager or the cancelled parent context:
\* cancel, then wait until the goroutine has closed its channel.
StopCancel ==
  /\ stop = "no" /\ stop' = "asked"
  /\ UNCHANGED <<repl, streaming, telemetry, observed, faults>>
StopWait ==
  /\ stop = "asked" /\ repl = "off" /\ stop' = "returned"
  /\ UNCHANGED <<repl, streaming, telemetry, observed, faults>>

ReplStep == consumeStream \/ ReadMessage \/ ReopenPause \/ probeOnce
ReplNext == ReplStep \/ observeReplication \/ StopCancel \/ StopWait

\* The goroutines go on.
ReplFairness ==
  WF_replVars(ReplStep) /\ WF_replVars(observeReplication) /\ WF_replVars(StopWait)

---------------------------------------------------------------------------
(* Properties *)

Quiescent == \A s \in Setters : adv[s].pc = "idle"

\* While one goroutine sets the role, a running node whose ingress reports
\* itself healthy holds the virtual address exactly when it is primary, also
\* when an earlier process left the address behind (Start, setRole,
\* applyIngress; two goroutines may apply their commands in either order).
VipFollows ==
  (running = "yes" /\ Quiescent /\ ingressOK /\ Cardinality(Setters) = 1) =>
    /\ vip <=> (mrole = "primary")
    /\ dns = mrole

\* The registry shows the role a running node settles on, whatever failed
\* before (Refresh, pushRegistration).
RegistryFollows ==
  \A r \in {"primary", "standby"} :
    <>[](running = "yes" /\ mrole = r) => <>[](registry = r)

\* Stop of the replicator returns, in whatever state of the stream it finds
\* the goroutine it waits for (consumeStream, probeOnce).
ReplicatorEnds == (stop = "asked") ~> (stop = "returned")

\* Everything the manager's role drives follows it: the virtual address and the
\* zone at rest, the registry in the end, and the replicator when told to stop
\* (setRole, pushRegistration, runtimeReplicator.Stop).
RuntimeFollows == []VipFollows /\ RegistryFollows /\ ReplicatorEnds
============================================================================
