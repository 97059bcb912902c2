------------------------------- MODULE Alerts -------------------------------
(***************************************************************************)
(* Alerting: the controller that evaluates thresholds and rules once per   *)
(* interval (monitoring/alert_controller.go), the manager that routes an   *)
(* event to its channels once per window (alerting/manager.go), the feed   *)
(* on which operators acknowledge, suppress and escalate                   *)
(* (monitoring/alert_feed.go), and the handlers that change the settings   *)
(* the controller reads (server/http_server.go, alerting/config_store.go). *)
(*                                                                         *)
(* Every category of alert has its own silence, cooldown and dedupe keys,  *)
(* so a behaviour watches one condition, `check`.  A clock is kept as what *)
(* is left of it, in evaluation intervals.                                 *)
(***************************************************************************)
EXTENDS Naturals, Sequences, FiniteSets

CONSTANTS
  Checks,          \* the conditions: "pool", "latency", "error", "rate", "rule", "server"
  MaxReading,      \* readings and thresholds are 0..MaxReading
  Base,            \* thresholds of the configuration file, [warning, major, critical]
  ThresholdRows,   \* rows an operator may save in alert_thresholds
  NotifyRows,      \* rows of alert_notify_configs: [on, policy]
  RouteTables,     \* contents an operator may give alert_routes
  FileRoutes,      \* routes of the configuration file
  RuleRows,        \* rows of alert_rules: [at, severity]
  TemplateRows,    \* rows of alert_templates: [channel, zh]
  ReceiverRows,    \* rows of alert_receivers: a set of levels
  Shifts,          \* duty shifts an operator may send: [start, end]
  Notifiers,       \* registered channels
  SilenceWindow, DedupeWindow, EscalationWindow, RuleTTL, \* in intervals
  FeedLimit, MaxSettings, Nothing

ASSUME WindowsAssumption ==
  /\ SilenceWindow \in Nat /\ DedupeWindow \in Nat \ {0}
  /\ EscalationWindow \in Nat \ {0} /\ RuleTTL \in Nat \ {0}

ASSUME AlertRowsAssumption ==
  /\ Nothing \notin ThresholdRows /\ Nothing \notin {"warning", "major", "critical"}
  /\ ThresholdRows \subseteq [poolUsage : Nat, leaseUsage : Nat, responseMs : Nat, timeout : Nat,
                             failedRatio : Nat, renewFail : Nat, qps : Nat, cpu : Nat]
  /\ RuleRows \subseteq [at : Nat, severity : {"warning", "major", "critical"}]
  /\ FeedLimit \in Nat /\ MaxReading \in Nat

VARIABLES
  check, reading,                                   \* the watched condition
  row, notify, templates, receivers, rules, routes, \* the database
  live, managed, shown, roster,                     \* rules of the controller, routes of the
                                                    \* manager, routing store, duty roster
  silence, cooldown, dedupe, mute, feed,            \* memory
  ev,                                               \* the evaluation loop
  op,                                               \* the operator's request
  settings,                                         \* changes made so far
  age, quiet                                        \* what was really delivered, and when
tables == <<row, notify, templates, receivers, rules, routes>>
clocks == <<silence, cooldown, dedupe, mute>>
alertVars == <<check, reading, tables, live, managed, shown, roster, clocks, feed, ev, op,
               settings, age, quiet>>

Severities == {"warning", "major", "critical"}
Less(n) == IF n = 0 THEN 0 ELSE n - 1
BestOf(s) == IF s = {} THEN Nothing ELSE CHOOSE x \in s : TRUE

-----------------------------------------------------------------------------
(* The effective policy: the file's thresholds merged with the saved row.  *)
mergeRuntimePoolThresholds(b, r) ==
  LET w  == IF r.poolUsage > 0 THEN r.poolUsage ELSE b.warning
      m  == IF r.leaseUsage > 0 THEN r.leaseUsage ELSE b.major
      c0 == IF r.leaseUsage > 0 /\ b.critical < m THEN m ELSE b.critical
      c  == IF c0 = 0 THEN m ELSE c0
  IN [warning |-> w, critical |-> c, major |-> IF m = 0 THEN w ELSE m]

mergeRuntimeLatencyThresholds(b, r) ==
  LET m  == IF r.responseMs > 0 THEN r.responseMs ELSE b.major
      c0 == IF r.timeout > b.critical THEN r.timeout ELSE b.critical
  IN [warning |-> 0, major |-> m, critical |-> IF c0 = 0 THEN m ELSE c0]

mergeRuntimeErrorThresholds(b, r) ==
  LET w == IF r.failedRatio > 0 THEN r.failedRatio ELSE b.warning
      m == IF r.renewFail > 0 THEN r.renewFail ELSE b.major
  IN [warning |-> w, major |-> m,
      critical |-> IF m > 0 THEN m ELSE IF w > 0 THEN w ELSE b.critical]

mergeRuntimeRateLimitThresholds(b, r) ==
  IF r.qps = 0 THEN b ELSE [warning |-> r.qps, major |-> r.qps, critical |-> r.qps]

pickSeverity(v, t) ==
  IF t.critical > 0 /\ v >= t.critical THEN "critical"
  ELSE IF t.major > 0 /\ v >= t.major THEN "major"
  ELSE IF t.warning > 0 /\ v >= t.warning THEN "warning"
  ELSE Nothing

(* A latency has no warning level. *)
pickLatencySeverity(v, t) == pickSeverity(v, [t EXCEPT !.warning = 0])

(* The channels of each severity that the saved switches leave on. *)
buildNotifyChannelsBySeverity(n) ==
  [s \in Severities |-> n.policy[s] \cap n.on]

channelsForSeverity(p, s) == IF p.notify = Nothing THEN {} ELSE p.notify[s]

(* The people whose levels cover a severity: no level at all means every one. *)
resolveReceiverTargets(rs, s) == {r \in rs : r = {} \/ "all" \in r \/ s \in r}

(* The template of the event's channels, the zh-CN one first. *)
pickRuntimeTemplate(ts, channels) ==
  LET fit == {t \in ts : t.channel \in channels}
      zh  == {t \in fit : t.zh}
  IN IF zh # {} THEN BestOf(zh) ELSE BestOf(fit)

decorateEventWithRuntimeConfig(p, s, channels) ==
  LET on == IF channels = {} THEN channelsForSeverity(p, s) ELSE channels
  IN [sev |-> s, channels |-> on, to |-> resolveReceiverTargets(p.receivers, s),
      tpl |-> pickRuntimeTemplate(p.templates, on)]

(* Each of the four reads may fail: its part of the policy is then the file's. *)
GetThresholds(ok) == IF ok THEN row ELSE Nothing
GetNotify(ok)     == IF ok THEN notify ELSE Nothing
ListTemplates(ok) == IF ok THEN templates ELSE {}
ListReceivers(ok) == IF ok THEN receivers ELSE {}
applyRuntimeConfig(ok) ==
  LET r == GetThresholds(ok.row)
      n == GetNotify(ok.notify)
  IN [pool    |-> IF r = Nothing THEN Base ELSE mergeRuntimePoolThresholds(Base, r),
      latency |-> IF r = Nothing THEN [Base EXCEPT !.warning = 0]
                  ELSE mergeRuntimeLatencyThresholds(Base, r),
      error   |-> IF r = Nothing THEN Base ELSE mergeRuntimeErrorThresholds(Base, r),
      rate    |-> IF r = Nothing THEN Base ELSE mergeRuntimeRateLimitThresholds(Base, r),
      row     |-> r,
      notify  |-> IF n = Nothing THEN Nothing ELSE buildNotifyChannelsBySeverity(n),
      templates |-> ListTemplates(ok.lists), receivers |-> ListReceivers(ok.lists)]

-----------------------------------------------------------------------------
(* The manager. *)
Expand(sevs) == IF sevs = {} THEN Severities ELSE sevs
BuildRoutes(table) ==
  {[r EXCEPT !.sevs = Expand(r.sevs)] : r \in {x \in table : x.channels # {}}}
findRoutes(s) == UNION {r.channels : r \in {x \in managed : s \in x.sevs}}

shouldSkip(s) == mute[s] > 0 \/ dedupe[s] > 0

(* Where an event goes: its own channels, else the routes of its severity. *)
Targets(e) == IF e.channels = {} THEN findRoutes(e.sev) ELSE e.channels

markProcessed(s) == dedupe' = [dedupe EXCEPT ![s] = DedupeWindow]

(* A delivery is marked whether or not a notifier fails or is missing; with
   no channel at all the event is dropped unmarked. *)
Deliver(e) ==
  IF Targets(e) = {}
  THEN UNCHANGED <<dedupe, age>>
  ELSE markProcessed(e.sev) /\ age' = [age EXCEPT ![e.sev] = 0]

(* Acknowledge and Suppress: without a time to live, the escalation window. *)
addMute(s, ttl) ==
  mute' = [mute EXCEPT ![s] = IF ttl = 0 THEN EscalationWindow ELSE ttl]

-----------------------------------------------------------------------------
(* The feed: newest first, at most FeedLimit entries.  A warning is born     *)
(* acknowledged.                                                             *)
deriveLifecycle(s) == IF s = "warning" THEN "acknowledged" ELSE "open"
Record(e) ==
  LET all == <<[sev |-> e.sev, life |-> deriveLifecycle(e.sev)]>> \o feed
  IN feed' = SubSeq(all, 1, IF Len(all) > FeedLimit THEN FeedLimit ELSE Len(all))

(* Entries of a rule all carry the rule's id: an update finds the newest.    *)
updateEntry(i, life) ==
  /\ i \in DOMAIN feed
  /\ check = "rule" => i = 1
  /\ feed' = [feed EXCEPT ![i].life = life]

-----------------------------------------------------------------------------
(* The evaluation loop.  One interval passes, then the policy is loaded, the *)
(* watched category evaluated, and an event checked, delivered and recorded. *)
(* An operator's request is taken to end within the interval it began in.    *)
NoRequest == [pc |-> "idle"]
NoOp == [pc |-> "none"]
AlertTick(v) ==
  /\ ev = NoRequest /\ op = NoOp
  /\ reading' = v
  /\ silence' = Less(silence) /\ cooldown' = Less(cooldown)
  /\ dedupe' = [s \in Severities |-> Less(dedupe[s])]
  /\ mute' = [s \in Severities |-> Less(mute[s])]
  /\ age' = [s \in Severities |-> IF age[s] < DedupeWindow THEN age[s] + 1 ELSE age[s]]
  /\ ev' = [pc |-> "load"]
  /\ UNCHANGED <<check, tables, live, managed, shown, roster, feed, op, settings, quiet>>

evaluate(ok) ==
  /\ ev.pc = "load"
  /\ ev' = [pc |-> "pick", policy |-> applyRuntimeConfig(ok)]
  /\ UNCHANGED <<check, reading, tables, live, managed, shown, roster, clocks, feed, op, settings, age, quiet>>

(* The reading has reached a threshold an operator saved for this condition. *)
Over(limit) == limit > 0 /\ reading >= limit
Owed(p) ==
  LET r == p.row IN
  IF check = "rule" THEN \E x \in live : reading >= x.at
  ELSE /\ r # Nothing
       /\ CASE check = "pool"    -> Over(r.poolUsage) \/ Over(r.leaseUsage)
            [] check = "latency" -> Over(r.responseMs)
            [] check = "error"   -> Over(r.failedRatio) \/ Over(r.renewFail)
            [] check = "rate"    -> Over(r.qps)
            [] OTHER             -> Over(r.cpu)

(* The evaluation ends without a delivery: `quiet` counts the intervals in a
   row in which one was owed, could be delivered, and was not muted. *)
Quiet(p, s) ==
  LET reach == Targets([sev |-> s, channels |-> channelsForSeverity(p, s)]) IN
  quiet' = IF Owed(p) /\ (s = Nothing \/ (reach # {} /\ mute[s] = 0)) THEN quiet + 1 ELSE 0

silenceKeyBusy == SilenceWindow > 0 /\ silence > 0

(* emit: the silence key has no severity in it, and is taken before the      *)
(* manager is asked.                                                         *)
emit(p, s) ==
  IF silenceKeyBusy
  THEN ev' = NoRequest /\ Quiet(p, s) /\ UNCHANGED silence
  ELSE /\ ev' = [pc |-> "notify", policy |-> p,
                 event |-> decorateEventWithRuntimeConfig(p, s, channelsForSeverity(p, s))]
       /\ silence' = SilenceWindow
       /\ UNCHANGED quiet

EvaluateAlert(p, s) ==
  /\ IF s = Nothing
     THEN ev' = NoRequest /\ Quiet(p, s) /\ UNCHANGED silence
     ELSE emit(p, s)
  /\ UNCHANGED <<check, reading, tables, live, managed, shown, roster, cooldown, dedupe, mute,
                 feed, op, settings, age>>

evaluatePools == /\ ev.pc = "pick" /\ check = "pool"
                 /\ EvaluateAlert(ev.policy, pickSeverity(reading, ev.policy.pool))
evaluateRequests ==
  /\ ev.pc = "pick" /\ check \in {"latency", "error"}
  /\ EvaluateAlert(ev.policy, IF check = "latency"
                         THEN pickLatencySeverity(reading, ev.policy.latency)
                         ELSE pickSeverity(reading, ev.policy.error))
evaluateRateLimits ==
  /\ ev.pc = "pick" /\ check = "rate"
  /\ EvaluateAlert(ev.policy, IF reading = 0 THEN Nothing
                         ELSE pickSeverity(reading, ev.policy.rate))
evaluateOperationalThresholds ==
  /\ ev.pc = "pick" /\ check = "server"
  /\ EvaluateAlert(ev.policy, IF ev.policy.row # Nothing /\ Over(ev.policy.row.cpu)
                         THEN "major" ELSE Nothing)

(* A rule's cooldown is spent before emit, also when emit then keeps silent. *)
ruleThrottled == cooldown > 0
evaluateRules ==
  LET hit == {x \in live : reading >= x.at}
      s   == IF hit = {} THEN Nothing ELSE BestOf(hit).severity
  IN /\ ev.pc = "pick" /\ check = "rule"
     /\ IF s = Nothing \/ ruleThrottled
        THEN ev' = NoRequest /\ Quiet(ev.policy, s) /\ UNCHANGED <<silence, cooldown>>
        ELSE emit(ev.policy, s) /\ cooldown' = RuleTTL
     /\ UNCHANGED <<check, reading, tables, live, managed, shown, roster, dedupe, mute, feed, op,
                    settings, age>>

(* A plausible change: a skipped repeat starts the dedupe window anew. *)
NotifyCheck_Sliding ==
  /\ ev.pc = "notify"
  /\ ev' = [ev EXCEPT !.pc = IF shouldSkip(ev.event.sev) THEN "skipped" ELSE "deliver"]
  /\ IF dedupe[ev.event.sev] > 0 THEN markProcessed(ev.event.sev) ELSE UNCHANGED dedupe
  /\ UNCHANGED <<check, reading, tables, live, managed, shown, roster, silence, cooldown,
                 mute, feed, op, settings, age, quiet>>

(* Notify looks the fingerprint up, and marks it only after the delivery. *)
NotifyCheck ==
  /\ ev.pc = "notify"
  /\ ev' = [ev EXCEPT !.pc = IF shouldSkip(ev.event.sev) THEN "skipped" ELSE "deliver"]
  /\ UNCHANGED <<check, reading, tables, live, managed, shown, roster, clocks, feed, op, settings, age, quiet>>
NotifyDeliver ==
  /\ ev.pc = "deliver"
  /\ Deliver(ev.event)
  /\ quiet' = 0
  /\ ev' = [ev EXCEPT !.pc = "record"]
  /\ UNCHANGED <<check, reading, tables, live, managed, shown, roster, silence, cooldown, mute,
                 feed, op, settings>>
(* The observer records the event whether or not it was delivered. *)
Observe ==
  /\ ev.pc \in {"record", "skipped"}
  /\ Record(ev.event)
  /\ IF ev.pc = "record" THEN UNCHANGED quiet ELSE Quiet(ev.policy, ev.event.sev)
  /\ ev' = NoRequest
  /\ UNCHANGED <<check, reading, tables, live, managed, shown, roster, clocks, op, settings, age>>


-----------------------------------------------------------------------------
(* Operators on the feed.  The entry changes first, the mute follows.        *)
Kept == UNCHANGED <<check, reading, tables, live, managed, shown, roster, silence,
                    cooldown, ev, settings, quiet>>

handleAlertAcknowledge(i, ttl) ==
  /\ op = NoOp /\ updateEntry(i, "acknowledged")
  /\ op' = [pc |-> "mute", sev |-> feed[i].sev, ttl |-> ttl, next |-> "none"]
  /\ Kept /\ UNCHANGED <<dedupe, mute, age>>
handleAlertSuppress(i, ttl) ==
  /\ op = NoOp /\ updateEntry(i, "suppressed")
  /\ op' = [pc |-> "mute", sev |-> feed[i].sev, ttl |-> ttl, next |-> "none"]
  /\ Kept /\ UNCHANGED <<dedupe, mute, age>>
handleAlertEscalate(i) ==
  /\ op = NoOp /\ updateEntry(i, "escalated")
  /\ op' = [pc |-> "mute", sev |-> feed[i].sev, ttl |-> 0, next |-> "check"]
  /\ Kept /\ UNCHANGED <<dedupe, mute, age>>

AfterMute == IF op.next = "none" THEN NoOp ELSE [op EXCEPT !.pc = op.next]

(* A plausible change: an escalation, which names no time to live, mutes nothing. *)
applyAlertMute_NotEscalated ==
  /\ op.pc = "mute"
  /\ IF op.next = "check" THEN UNCHANGED mute ELSE addMute(op.sev, op.ttl)
  /\ op' = AfterMute
  /\ Kept /\ UNCHANGED <<dedupe, age, feed>>

(* updateAlertEntry ends every one of the three with a mute. *)
applyAlertMute ==
  /\ op.pc = "mute"
  /\ addMute(op.sev, op.ttl)
  /\ op' = AfterMute
  /\ Kept /\ UNCHANGED <<dedupe, age, feed>>

(* The escalation then asks the manager to notify, as the controller does: a
   look-up, then a delivery. *)
EscalateNotify ==
  /\ op.pc \in {"check", "send"}
  /\ op' = IF op.pc = "send" \/ shouldSkip(op.sev) THEN NoOp ELSE [op EXCEPT !.pc = "send"]
  /\ IF op.pc = "send" THEN Deliver([sev |-> op.sev, channels |-> {}])
                       ELSE UNCHANGED <<dedupe, age>>
  /\ Kept /\ UNCHANGED <<mute, feed>>

-----------------------------------------------------------------------------
(* Operators on the settings.  Each save is one statement; the controller    *)
(* sees it at its next load.                                                 *)
Save ==
  /\ op = NoOp /\ settings < MaxSettings
  /\ settings' = settings + 1
  /\ UNCHANGED <<check, reading, live, managed, clocks, feed, ev, age, quiet>>

SaveThresholds(r) == row' = r /\ UNCHANGED <<notify, templates, receivers, rules, routes>>
SaveNotify(n)     == notify' = n /\ UNCHANGED <<row, templates, receivers, rules, routes>>
WriteTemplates(ts) == templates' = ts /\ UNCHANGED <<row, notify, receivers, rules, routes>>
WriteReceivers(rs) == receivers' = rs /\ UNCHANGED <<row, notify, templates, rules, routes>>

handleAlertThresholdsSave(r) ==
  Save /\ SaveThresholds(r) /\ UNCHANGED <<op, shown, roster>>
handleAlertNotifySave(n) ==
  Save /\ SaveNotify(n) /\ UNCHANGED <<op, shown, roster>>

createAlertTemplate(t)    == WriteTemplates(templates \cup {t})
updateAlertTemplate(t, u) == t \in templates /\ WriteTemplates((templates \ {t}) \cup {u})
deleteAlertTemplate(t)    == t \in templates /\ WriteTemplates(templates \ {t})
createAlertReceiver(r)    == WriteReceivers(receivers \cup {r})
updateAlertReceiver(r, u) == r \in receivers /\ WriteReceivers((receivers \ {r}) \cup {u})
deleteAlertReceiver(r)    == r \in receivers /\ WriteReceivers(receivers \ {r})

handleAlertTemplateCreate(t) ==
  Save /\ createAlertTemplate(t) /\ UNCHANGED <<op, shown, roster>>
handleAlertTemplateUpdate(t, u) ==
  Save /\ updateAlertTemplate(t, u) /\ UNCHANGED <<op, shown, roster>>
handleAlertTemplateDelete(t) ==
  Save /\ deleteAlertTemplate(t) /\ UNCHANGED <<op, shown, roster>>
handleAlertReceiverCreate(r) ==
  Save /\ createAlertReceiver(r) /\ UNCHANGED <<op, shown, roster>>
handleAlertReceiverUpdate(r, u) ==
  Save /\ updateAlertReceiver(r, u) /\ UNCHANGED <<op, shown, roster>>
handleAlertReceiverDelete(r) ==
  Save /\ deleteAlertReceiver(r) /\ UNCHANGED <<op, shown, roster>>

(* A shift that does not end after it starts is dropped. *)
sanitizeShifts(ss) == {s \in ss : s.end > s.start}
handleDutyRosterUpdate(ss) ==
  /\ Save /\ roster' = sanitizeShifts(ss)
  /\ UNCHANGED <<op, shown, tables>>

(* A rule is written, the table is listed, the list replaces the controller's
   rules: three steps, and a failed list leaves the old rules in force.  A rule
   sent disabled is stored enabled, so presence is all that matters. *)
UpsertRule(x) == rules' = {x} /\ UNCHANGED <<row, notify, templates, receivers, routes>>
DeleteAlertRule == rules' = {} /\ UNCHANGED <<row, notify, templates, receivers, routes>>
handleAlertRuleUpsert(x) ==
  /\ Save /\ UpsertRule(x)
  /\ op' = [pc |-> "list"] /\ UNCHANGED <<shown, roster>>
handleAlertRuleDelete ==
  /\ rules # {}
  /\ Save /\ DeleteAlertRule
  /\ op' = [pc |-> "list"] /\ UNCHANGED <<shown, roster>>
reloadAlertControllerRules(ok) ==
  /\ op.pc = "list"
  /\ op' = IF ok THEN [pc |-> "rules", rules |-> rules] ELSE NoOp
  /\ Kept /\ UNCHANGED <<dedupe, mute, age, feed>>
SetRules ==
  /\ op.pc = "rules"
  /\ live' = op.rules
  /\ op' = NoOp
  /\ UNCHANGED <<check, reading, tables, managed, shown, roster, clocks, feed, ev,
                 settings, age, quiet>>

(* The routing table is replaced in one transaction, then the routing store,
   then the manager's routes. *)
ReplaceRoutes(t) == routes' = t /\ UNCHANGED <<row, notify, templates, receivers, rules>>
handleAlertRoutesUpdate(t) ==
  /\ Save /\ ReplaceRoutes(t) /\ shown' = t
  /\ op' = [pc |-> "routes", table |-> t] /\ UNCHANGED roster
ConfigureRoutes ==
  /\ op.pc = "routes"
  /\ managed' = BuildRoutes(op.table)
  /\ op' = NoOp
  /\ UNCHANGED <<check, reading, tables, live, shown, roster, clocks, feed, ev,
                 settings, age, quiet>>

-----------------------------------------------------------------------------
(* A start: routes come from the table, else the file, else one route to every
   notifier, which is then saved; rules from the table.  Memory is empty. *)
defaultRoutesFromChannels == IF Notifiers = {} THEN {} ELSE {[sevs |-> {}, channels |-> Notifiers]}
StartRoutes == IF routes # {} THEN routes
               ELSE IF FileRoutes # {} THEN FileRoutes ELSE defaultRoutesFromChannels
Restart(ok) ==
  /\ settings < MaxSettings
  /\ settings' = settings + 1
  /\ shown' = StartRoutes /\ managed' = BuildRoutes(StartRoutes)
  /\ routes' = IF FileRoutes = {} THEN StartRoutes ELSE routes
  /\ live' = IF ok THEN rules ELSE {}
  /\ roster' = {}
  /\ silence' = 0 /\ cooldown' = 0
  /\ dedupe' = [s \in Severities |-> 0] /\ mute' = [s \in Severities |-> 0]
  /\ feed' = <<>> /\ ev' = NoRequest /\ op' = NoOp
  /\ age' = [s \in Severities |-> DedupeWindow] /\ quiet' = 0
  /\ UNCHANGED <<check, reading, row, notify, templates, receivers, rules>>

AlertInit ==
  /\ check \in Checks /\ reading = 0
  /\ row \in ThresholdRows \cup {Nothing} /\ notify = Nothing
  /\ templates = TemplateRows /\ receivers = ReceiverRows
  /\ rules \in SUBSET RuleRows /\ Cardinality(rules) <= 1
  /\ check # "rule" => rules = {}
  /\ routes \in RouteTables
  /\ live = rules /\ shown = StartRoutes /\ managed = BuildRoutes(StartRoutes)
  /\ roster = {}
  /\ silence = 0 /\ cooldown = 0
  /\ dedupe = [s \in Severities |-> 0] /\ mute = [s \in Severities |-> 0]
  /\ feed = <<>> /\ ev = NoRequest /\ op = NoOp /\ settings = 0
  /\ age = [s \in Severities |-> DedupeWindow] /\ quiet = 0

Reads == [row : BOOLEAN, notify : BOOLEAN, lists : BOOLEAN]

AlertNext ==
  \/ \E v \in 0..MaxReading : AlertTick(v)
  \/ \E ok \in Reads : evaluate(ok)
  \/ evaluatePools \/ evaluateRequests \/ evaluateRateLimits \/ evaluateRules
  \/ evaluateOperationalThresholds
  \/ NotifyCheck \/ NotifyDeliver \/ Observe
  \/ \E i \in 1..FeedLimit, ttl \in 0..1 :
       handleAlertAcknowledge(i, ttl) \/ handleAlertSuppress(i, ttl)
  \/ \E i \in 1..FeedLimit : handleAlertEscalate(i)
  \/ applyAlertMute \/ EscalateNotify
  \/ \E r \in ThresholdRows : handleAlertThresholdsSave(r)
  \/ \E n \in NotifyRows : handleAlertNotifySave(n)
  \/ \E t, u \in TemplateRows :
       \/ handleAlertTemplateCreate(t) \/ handleAlertTemplateUpdate(t, u)
       \/ handleAlertTemplateDelete(t)
  \/ \E r, u \in ReceiverRows :
       \/ handleAlertReceiverCreate(r) \/ handleAlertReceiverUpdate(r, u)
       \/ handleAlertReceiverDelete(r)
  \/ \E ss \in SUBSET Shifts : handleDutyRosterUpdate(ss)
  \/ \E x \in RuleRows : handleAlertRuleUpsert(x)
  \/ handleAlertRuleDelete \/ SetRules \/ ConfigureRoutes
  \/ \E ok \in BOOLEAN : reloadAlertControllerRules(ok) \/ Restart(ok)
  \/ \E t \in RouteTables : handleAlertRoutesUpdate(t)

AlertSpec == AlertInit /\ [][AlertNext]_alertVars

-----------------------------------------------------------------------------
(* Notify holds no lock between its look-up of an alert and the delivery of it
   (alerting/manager.go), and both the controller and an operator who escalates
   call it.  Still no alert goes out twice in a window: when the controller
   delivers, the last delivery is a whole dedupe window old, and an escalation
   never gets as far as a delivery, for it mutes its alert before it asks. *)
NoStorm ==
  /\ ev.pc = "deliver" => age[ev.event.sev] = DedupeWindow
  /\ op.pc # "send"

(* A condition that stays over the threshold its operator saved is delivered
   again after at most the dedupe window, the silence window and, for a rule,
   a cooldown, whatever its severity does in between: the four clocks that can
   hold an alert back (silence, cooldown, dedupe, mute) never starve it.  Each
   counts the interval it was set in, so it is silent for one interval less. *)
Longest == DedupeWindow - 1 + Less(SilenceWindow)
             + (IF check = "rule" THEN RuleTTL - 1 ELSE 0)
PersistentRepeated == quiet <= Longest

(* Neither too many deliveries of one alert nor too few. *)
AlertsSound == NoStorm /\ PersistentRepeated
=============================================================================
