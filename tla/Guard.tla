------------------------------- MODULE Guard -------------------------------
(***************************************************************************)
(* The security guard in front of the DHCP handlers (internal/security):   *)
(* the MAC list with its Redis cache (maclist), the security policy rules  *)
(* with the evaluator's cache (policy), and the checks kept in memory, the *)
(* token buckets (ratelimit) and the behaviour detector (detector), which  *)
(* guard.Check runs in this order for every packet.                        *)
(*                                                                         *)
(* Three machines that share no state: list*, rule* and check*.  A time    *)
(* value is an age or a remaining time in ticks.                           *)
(***************************************************************************)
EXTENDS Integers, Sequences, FiniteSets

CONSTANTS
  Macs,            \* MAC addresses
  Entries,         \* ids of MAC list entries
  EntryRows,       \* contents of an entry: [mac, type, act, prio]
  NoEntry,
  Checks,          \* packets in guard.Check
  ListTTL,         \* Service.cacheTTL in ticks
  MaxListEdits,    \* bound on edits of the list
  StaticBlack,     \* macACL.blacklist of the configuration
  StaticWhite,     \* macACL.whitelist
  StaticGray,      \* macACL.graylist
  GrayAction,      \* macACL.grayAction
  EnforceWhite,    \* macACL.enforceWhitelist
  BoundMacs,       \* MACs with a static binding, which bindingExemptACL lets pass
  RenewExempt,     \* macACL.renewExemptBlocked
  MaxListFaults,   \* bound on failing queries of the list
  RuleIds,         \* ids of security policy rules, in priority order
  Effects,         \* effects of a rule; "none" when there is no such rule
  GuardTenants,    \* tenants
  Loaders,         \* packets that evaluate the rules
  Editors,         \* requests that change rules
  RuleTTL,         \* RuleEvaluator.ttl in ticks
  MaxRuleEdits,    \* bound on edits of the rules
  GuardClients,    \* MAC addresses the limiter and the detector see
  Ports,           \* switch ports
  TrustedPorts,    \* the ports snooping trusts
  Addresses,       \* IP addresses a packet may name
  RatePerTick,     \* PerMacPPS
  Burst,           \* Burst
  Window,          \* StarvationWindow in ticks
  BlockDuration,   \* BlockDuration in ticks
  DeclineSpike,    \* DeclineSpikeThreshold
  DiscoverBurst,   \* DiscoverBurstThreshold
  Drift,           \* MACDriftThreshold
  Tolerance,       \* Option82MismatchTolerance
  MaxEvents        \* bound on the packets one activity counts

ASSUME GuardAssumption ==
  /\ {ListTTL, RuleTTL, RatePerTick, Burst, Window, BlockDuration} \subseteq Nat
  /\ StaticBlack \subseteq Macs /\ TrustedPorts \subseteq Ports
  /\ 0 \notin Loaders

\* A threshold of 0 leaves its check out.
ASSUME ThresholdAssumption ==
  {DeclineSpike, DiscoverBurst, Drift, Tolerance} \subseteq Nat \ {0}

---------------------------------------------------------------------------
(* The MAC list *)

VARIABLES
  entries,    \* table security_mac_lists: [Entries -> row or NoEntry]
  redis,      \* the cached result of every MAC: [res, left] or <<>>
  lookups,    \* the evaluations under way
  listEdits,  \* edits done
  pendingDel, \* MACs whose cached result an edit has still to delete
  admitted,   \* MACs the last check let pass
  renewed,    \* MACs the last renewal was granted to
  listFaults  \* failing queries so far

listVars == <<entries, redis, lookups, listEdits, pendingDel, admitted,
              renewed, listFaults>>

\* FindByMAC: blacklist before whitelist before graylist, then priority.
Rank(r) ==
  LET byType == CASE r.type = "black" -> 0 [] r.type = "white" -> 1
                  [] OTHER -> 2
  IN 10 * byType + r.prio

FindByMAC(m) ==
  LET rows == {entries[e] : e \in {x \in Entries : entries[x] # NoEntry}}
      mine == {r \in rows : r.mac = m}
  IN IF mine = {} THEN NoEntry
     ELSE CHOOSE r \in mine : \A o \in mine : Rank(r) <= Rank(o)

\* The configured lists, for a MAC the database says nothing about.
StaticVerdict(m) ==
  IF m \in StaticBlack THEN "block"
  ELSE IF m \in StaticWhite THEN "allow"
  ELSE IF m \in StaticGray THEN GrayAction
  ELSE IF EnforceWhite THEN "block" ELSE "allow"

\* enforceMACACL: the entry's action, else the configured lists.
enforceMACACL(m, res) ==
  IF res # NoEntry THEN res.act ELSE StaticVerdict(m)

\* CheckRenewACL: only a blacklist entry, or the configured blacklist, refuses
\* a renewal, and with the exemption only a client without a valid lease.
CheckRenewACL(m, res, hasLease) ==
  LET black == (res # NoEntry /\ res.type = "black") \/ m \in StaticBlack
  IN ~black \/ (RenewExempt /\ hasLease)

Updated(S, m, in) == IF in THEN S \cup {m} ELSE S \ {m}

\* The caller of Evaluate goes on with the result.
Answer(m, phase, res) ==
  \/ /\ phase = "check"
     /\ admitted' = Updated(admitted, m, enforceMACACL(m, res) # "block")
     /\ UNCHANGED renewed
  \/ /\ phase = "renew"
     /\ \E hasLease \in BOOLEAN :
          renewed' = Updated(renewed, m, CheckRenewACL(m, res, hasLease))
     /\ UNCHANGED admitted

\* guard.Check begins with the static bindings: a bound client passes.
CheckBinding(m) ==
  /\ m \in BoundMacs
  /\ admitted' = admitted \cup {m}
  /\ UNCHANGED <<entries, redis, lookups, listEdits, pendingDel, renewed, listFaults>>

\* Service.Evaluate asks Redis first; when Redis fails it is as if the key
\* were missing.
Evaluate(k, m, phase) ==
  /\ lookups[k] = <<>>
  /\ phase = "check" => m \notin BoundMacs
  /\ \/ /\ redis[m] # <<>>
        /\ Answer(m, phase, redis[m][1].res)
        /\ UNCHANGED lookups
     \/ /\ redis[m] = <<>>
        /\ lookups' = [lookups EXCEPT ![k] = <<[mac |-> m, ph |-> phase, pc |-> "read"]>>]
        /\ UNCHANGED <<admitted, renewed>>
  /\ UNCHANGED <<entries, redis, listEdits, pendingDel, listFaults>>

\* The database is asked; when it fails the configured lists decide and
\* nothing is cached.
EvaluateRead(k) ==
  /\ lookups[k] # <<>> /\ lookups[k][1].pc = "read"
  /\ LET l == lookups[k][1] IN
     \/ /\ lookups' = [lookups EXCEPT ![k] =
             <<[mac |-> l.mac, ph |-> l.ph, pc |-> "put", res |-> FindByMAC(l.mac)]>>]
        /\ UNCHANGED <<admitted, renewed, listFaults>>
     \/ /\ listFaults < MaxListFaults
        /\ listFaults' = listFaults + 1
        /\ Answer(l.mac, l.ph, NoEntry)
        /\ lookups' = [lookups EXCEPT ![k] = <<>>]
  /\ UNCHANGED <<entries, redis, listEdits, pendingDel>>

\* writeCache that never expires (mutant).
writeCache_Forever(m, res) ==
  redis' = [redis EXCEPT ![m] = <<[res |-> res, left |-> ListTTL + 1]>>]

\* writeCache: Redis SET with the TTL; a SET that fails is only logged.
writeCache(m, res) ==
  \/ redis' = [redis EXCEPT ![m] = <<[res |-> res, left |-> ListTTL]>>]
  \/ UNCHANGED redis

\* The result, found or not, is cached whatever happened to the row since.
EvaluateWrite(k) ==
  /\ lookups[k] # <<>> /\ lookups[k][1].pc = "put"
  /\ writeCache(lookups[k][1].mac, lookups[k][1].res)
  /\ Answer(lookups[k][1].mac, lookups[k][1].ph, lookups[k][1].res)
  /\ lookups' = [lookups EXCEPT ![k] = <<>>]
  /\ UNCHANGED <<entries, listEdits, pendingDel, listFaults>>

\* sqlRepository.Create, Update and Delete: one statement on the row.
WriteEntry(e, row) ==
  /\ listEdits < MaxListEdits
  /\ entries[e] # row
  /\ listEdits' = listEdits + 1
  /\ entries' = [entries EXCEPT ![e] = row]
  /\ UNCHANGED <<redis, lookups, admitted, renewed, listFaults>>

MacOf(row) == IF row = NoEntry THEN {} ELSE {row.mac}

\* Service.Create: the row is written, then its MAC's key is to be deleted.
CreateEntry(e, row) ==
  WriteEntry(e, row) /\ pendingDel' = pendingDel \cup MacOf(row)
\* Service.Update: the keys of the MAC before and of the MAC after.
UpdateEntry(e, row) ==
  WriteEntry(e, row) /\ pendingDel' = pendingDel \cup MacOf(entries[e]) \cup MacOf(row)
\* Service.Delete: the key of the MAC the row had.
DeleteEntry(e) ==
  WriteEntry(e, NoEntry) /\ pendingDel' = pendingDel \cup MacOf(entries[e])

\* The handlers of the MAC list; Update and Delete look the row up first.
handleMacListCreate(e, row) == entries[e] = NoEntry /\ CreateEntry(e, row)
handleMacListUpdate(e, row) == entries[e] # NoEntry /\ UpdateEntry(e, row)
handleMacListDelete(e) == entries[e] # NoEntry /\ DeleteEntry(e)

\* OnMacListChanged: the DEL, which Redis may refuse.
OnMacListChanged(m) ==
  /\ m \in pendingDel
  /\ pendingDel' = pendingDel \ {m}
  /\ \/ redis' = [redis EXCEPT ![m] = <<>>]
     \/ UNCHANGED redis
  /\ UNCHANGED <<entries, lookups, listEdits, admitted, renewed, listFaults>>

\* Redis expires the keys as time passes (a key written forever stays).
ListTick ==
  /\ \E m \in Macs : redis[m] # <<>>
  /\ redis' = [m \in Macs |->
       IF redis[m] = <<>> \/ redis[m][1].left = 0 THEN <<>>
       ELSE IF redis[m][1].left > ListTTL THEN redis[m]
       ELSE <<[redis[m][1] EXCEPT !.left = @ - 1]>>]
  /\ UNCHANGED <<entries, lookups, listEdits, pendingDel, admitted, renewed, listFaults>>

ListInit ==
  /\ entries = [e \in Entries |-> NoEntry]
  /\ redis = [m \in Macs |-> <<>>] /\ lookups = [k \in Checks |-> <<>>]
  /\ listEdits = 0 /\ pendingDel = {} /\ admitted = {}
  /\ renewed = {} /\ listFaults = 0

ListNext ==
  \/ \E m \in Macs : CheckBinding(m)
  \/ \E k \in Checks : \/ \E m \in Macs, ph \in {"check", "renew"} : Evaluate(k, m, ph)
                       \/ EvaluateRead(k) \/ EvaluateWrite(k)
  \/ \E e \in Entries, row \in EntryRows :
       handleMacListCreate(e, row) \/ handleMacListUpdate(e, row)
  \/ \E e \in Entries : handleMacListDelete(e)
  \/ \E m \in Macs : OnMacListChanged(m)
  \/ ListTick

\* Handlers and requests run to their end, and time passes.
ListWorks ==
  /\ \A k \in Checks : WF_listVars(EvaluateRead(k)) /\ WF_listVars(EvaluateWrite(k))
  /\ \A m \in Macs : WF_listVars(OnMacListChanged(m))
  /\ WF_listVars(ListTick)

\* A packet of m comes to a check or to a renewal.
Arrives(m, phase) == \E k \in Checks : Evaluate(k, m, phase)

---------------------------------------------------------------------------
(* Security policy rules *)

VARIABLES
  rules,      \* table security_policy_rules: [RuleIds -> Effects \cup {"none"}]
  version,    \* number of writes of the table (history)
  ruleCache,  \* RuleEvaluator.cache: [GuardTenants -> [rules, ver, left] or <<>>]
  ruleLock,   \* holder of RuleEvaluator.mu, or 0
  loads,      \* the packets in loadRules
  ruleEdits,  \* the requests that write a rule
  invalidated,\* [GuardTenants -> version at the last Invalidate] (history)
  decided     \* [GuardTenants -> outcome of the last evaluation]

ruleVars == <<rules, version, ruleCache, ruleLock, loads, ruleEdits, invalidated,
              decided>>

\* RuleEvaluator.Evaluate: the first enabled rule that matches; no rule: allow.
\* (Every rule here matches the packet; "none" is absent or disabled.)
DecideRule(rs) ==
  LET live == {i \in RuleIds : rs[i] # "none"}
  IN IF live = {} THEN "allow"
     ELSE rs[CHOOSE i \in live : \A j \in live : i <= j]

\* enforcePolicy: allow and monitor let the packet pass, deny and quarantine
\* refuse it.
enforcePolicy(effect) == effect \in {"allow", "monitor"}

Decided(t, rs) == decided' = [decided EXCEPT ![t] = enforcePolicy(DecideRule(rs))]

\* loadRules under the read lock: a cached list that has not expired decides.
loadRules(k, t) ==
  /\ loads[k] = <<>> /\ ruleLock = 0
  /\ \/ /\ ruleCache[t] # <<>>
        /\ Decided(t, ruleCache[t][1].rules)
        /\ UNCHANGED loads
     \/ /\ ruleCache[t] = <<>>
        /\ loads' = [loads EXCEPT ![k] = <<[t |-> t, pc |-> "lock"]>>]
        /\ UNCHANGED decided
  /\ UNCHANGED <<rules, version, ruleCache, ruleLock, ruleEdits, invalidated>>

\* loadRules that drops the lock while it reads (mutant).
LoadLock_Released(k) ==
  /\ loads[k] # <<>> /\ loads[k][1].pc = "lock" /\ ruleLock = 0
  /\ loads' = [loads EXCEPT ![k][1].pc = "list"]
  /\ UNCHANGED <<rules, version, ruleCache, ruleLock, ruleEdits, invalidated, decided>>

\* The write lock is taken and the cache looked at again.
LoadLock(k) ==
  /\ loads[k] # <<>> /\ loads[k][1].pc = "lock" /\ ruleLock = 0
  /\ LET t == loads[k][1].t IN
     \/ /\ ruleCache[t] # <<>>
        /\ Decided(t, ruleCache[t][1].rules)
        /\ loads' = [loads EXCEPT ![k] = <<>>] /\ UNCHANGED ruleLock
     \/ /\ ruleCache[t] = <<>>
        /\ loads' = [loads EXCEPT ![k][1].pc = "list"] /\ ruleLock' = k
        /\ UNCHANGED decided
  /\ UNCHANGED <<rules, version, ruleCache, ruleEdits, invalidated>>

\* ListRules and loadMatches, the lock held; a failure caches nothing and
\* allows the packet.
LoadList(k) ==
  /\ loads[k] # <<>> /\ loads[k][1].pc = "list"
  /\ \/ /\ loads' = [loads EXCEPT ![k] =
             <<[t |-> @[1].t, pc |-> "store", rules |-> rules, ver |-> version]>>]
        /\ UNCHANGED <<ruleLock, decided>>
     \/ /\ decided' = [decided EXCEPT ![loads[k][1].t] = TRUE]
        /\ loads' = [loads EXCEPT ![k] = <<>>] /\ ruleLock' = 0
  /\ UNCHANGED <<rules, version, ruleCache, ruleEdits, invalidated>>

\* The list is cached with its expiry and the lock released.
LoadStore(k) ==
  /\ loads[k] # <<>> /\ loads[k][1].pc = "store"
  /\ ruleCache' = [ruleCache EXCEPT ![loads[k][1].t] =
       <<[rules |-> loads[k][1].rules, ver |-> loads[k][1].ver,
          left |-> RuleTTL]>>]
  /\ Decided(loads[k][1].t, loads[k][1].rules)
  /\ loads' = [loads EXCEPT ![k] = <<>>] /\ ruleLock' = 0
  /\ UNCHANGED <<rules, version, ruleEdits, invalidated>>

\* CreateRule, UpdateRule and DeleteRule: one transaction each.
WriteRule(i, effect) ==
  /\ version < MaxRuleEdits
  /\ rules[i] # effect
  /\ rules' = [rules EXCEPT ![i] = effect]
  /\ version' = version + 1

\* Service.Create, Update and Delete of the policy: the table first; the
\* tenant whose cached rules are to be dropped is remembered.
EditRule(a, t, i, effect) ==
  /\ ruleEdits[a] = <<>>
  /\ WriteRule(i, effect)
  /\ ruleEdits' = [ruleEdits EXCEPT ![a] = <<t>>]
  /\ UNCHANGED <<ruleCache, ruleLock, loads, invalidated, decided>>

\* The handlers of security_policy_routes.go.
handleSecurityPolicyCreate(a, t, i, effect) ==
  rules[i] = "none" /\ EditRule(a, t, i, effect)
handleSecurityPolicyUpdate(a, t, i, effect) ==
  rules[i] # "none" /\ EditRule(a, t, i, effect)
handleSecurityPolicyDelete(a, t, i) == rules[i] # "none" /\ EditRule(a, t, i, "none")

\* Invalidate: waits for the lock; only the tenant of the request is cleared.
Invalidate(a) ==
  /\ ruleEdits[a] # <<>> /\ ruleLock = 0
  /\ ruleCache' = [ruleCache EXCEPT ![ruleEdits[a][1]] = <<>>]
  /\ invalidated' = [invalidated EXCEPT ![ruleEdits[a][1]] = version]
  /\ ruleEdits' = [ruleEdits EXCEPT ![a] = <<>>]
  /\ UNCHANGED <<rules, version, ruleLock, loads, decided>>

\* Cached lists expire.
RuleTick ==
  /\ \E t \in GuardTenants : ruleCache[t] # <<>>
  /\ ruleCache' = [t \in GuardTenants |->
       IF ruleCache[t] = <<>> \/ ruleCache[t][1].left = 0 THEN <<>>
       ELSE <<[ruleCache[t][1] EXCEPT !.left = @ - 1]>>]
  /\ UNCHANGED <<rules, version, ruleLock, loads, ruleEdits, invalidated, decided>>

RuleInit ==
  /\ rules = [i \in RuleIds |-> "none"] /\ version = 0
  /\ ruleCache = [t \in GuardTenants |-> <<>>] /\ ruleLock = 0
  /\ loads = [k \in Loaders |-> <<>>] /\ ruleEdits = [a \in Editors |-> <<>>]
  /\ invalidated = [t \in GuardTenants |-> 0]
  /\ decided = [t \in GuardTenants |-> TRUE]

RuleNext ==
  \/ \E k \in Loaders : \/ \E t \in GuardTenants : loadRules(k, t)
                       \/ LoadLock(k) \/ LoadList(k) \/ LoadStore(k)
  \/ \E a \in Editors, t \in GuardTenants, i \in RuleIds :
       \/ \E f \in Effects : \/ handleSecurityPolicyCreate(a, t, i, f)
                            \/ handleSecurityPolicyUpdate(a, t, i, f)
       \/ handleSecurityPolicyDelete(a, t, i)
  \/ \E a \in Editors : Invalidate(a)
  \/ RuleTick

---------------------------------------------------------------------------
(* guard.Check: snooping, token bucket and detector *)

VARIABLES
  tokenBuckets, \* the token buckets, of every MAC, port and address
  act,      \* simpleDetector.cache: [GuardClients -> activity]
  passed,   \* packets admitted by the limiter, per MAC and tick (history)
  until,    \* [GuardClients -> remaining time of the last block] (history)
  posture,  \* security state of the client's lease
  verdict   \* the last check: [mac, res], or <<>>

checkVars == <<tokenBuckets, act, passed, until, posture, verdict>>

Quiet == [declines |-> 0, discovers |-> 0, requests |-> 0, idle |-> 0,
          blocked |-> 0, state |-> "OK", ports |-> {}, last |-> <<>>, changes |-> 0]

\* touchBucket: an activity not seen for longer than the window starts anew,
\* its block included.
touchBucket(a) == IF a.idle > Window THEN Quiet ELSE [a EXCEPT !.idle = 0]

\* trackEvent.
trackEvent(a, m) ==
  CASE m = "decline" -> [a EXCEPT !.declines = @ + 1]
    [] m = "discover" -> [a EXCEPT !.discovers = @ + 1]
    [] m = "request" -> [a EXCEPT !.requests = @ + 1]
    [] OTHER -> a

\* block.
block(a) == [a EXCEPT !.blocked = BlockDuration, !.state = "BLOCKED"]

\* inspectTopology: a client that changes its port too often (the last port
\* and the ports seen are then left as they were) or is new at one port too
\* many is blocked.  (Changes past the tolerance need not be counted.)
inspectTopology(a, port) ==
  LET moves == a.last \notin {<<>>, <<port>>}
      b == IF moves /\ a.changes <= Tolerance THEN [a EXCEPT !.changes = @ + 1] ELSE a
      c == [b EXCEPT !.last = <<port>>, !.ports = @ \cup {port}]
  IN IF moves /\ b.changes > Tolerance THEN block(b)
     ELSE IF port \notin a.ports /\ Cardinality(c.ports) > Drift THEN block(c)
     ELSE c

\* evaluatePatterns: a spike of declines, or of discovers with few requests
\* (fewer than a quarter), blocks; many discovers with requests are suspect.
evaluatePatterns(a) ==
  IF a.declines >= DeclineSpike THEN block(a)
  ELSE IF a.discovers >= DiscoverBurst
       THEN IF 4 * a.requests < a.discovers THEN block(a)
            ELSE [a EXCEPT !.state = "SUSPECT"]
  ELSE a

\* Observe in which a packet that looks harmless lifts the block (mutant).
Observe_Lifts(old, m, port, rogue) ==
  LET a == [touchBucket(old) EXCEPT !.blocked = 0]
      b == inspectTopology(trackEvent(a, m), port)
  IN IF b.blocked > 0 THEN b ELSE evaluatePatterns(b)

\* simpleDetector.Observe: the activity afterwards; the packet is refused
\* exactly when it is blocked.  rogue: the relay is not in the allow list.
Observe(old, m, port, rogue) ==
  LET a == touchBucket(old)
      b == inspectTopology(trackEvent(a, m), port)
  IN IF a.blocked > 0 THEN a
     ELSE IF rogue THEN block(a)
     ELSE IF b.blocked > 0 THEN b
     ELSE evaluatePatterns(b)

\* consume without the ceiling of the bucket (mutant).
Refilled_NoBurst(t) == t + RatePerTick

\* consume: what a bucket holds after a tick.
Refilled(t) == IF t + RatePerTick > Burst THEN Burst ELSE t + RatePerTick

\* tokenBucketLimiter.Allow takes a token of the MAC, then one of the port, then
\* one of the address when the packet names one; those taken before a refusal
\* are gone.
Dimensions(c, port, ip) == IF ip = <<>> THEN <<c, port>> ELSE <<c, port, ip[1]>>
Allow(dims) == \A i \in DOMAIN dims : tokenBuckets[dims[i]] >= 1
consume(dims) ==
  tokenBuckets' = [k \in DOMAIN tokenBuckets |->
    IF \E i \in DOMAIN dims : dims[i] = k /\ \A j \in 1..i : tokenBuckets[dims[j]] >= 1
    THEN tokenBuckets[k] - 1 ELSE tokenBuckets[k]]

\* UpdateSecurityState, for LeaseSink.Apply: the active leases of the client.
UpdateSecurityState(c, state) == posture' = [posture EXCEPT ![c] = state]

\* applyQuarantine: the state of the lease follows a verdict that is not OK.
applyQuarantine(c, state) ==
  IF state = "OK" THEN UNCHANGED posture ELSE UpdateSecurityState(c, state)

\* staticStore.Lookup: the ports snooping trusts.
Snooped(port) == port \in TrustedPorts

\* guard.Check after the list and the rules let the packet pass: snooping,
\* limiter, detector, quarantine.
Check(c, m, port, ip, rogue) ==
  LET a == Observe(act[c], m, port, rogue)
      dims == Dimensions(c, port, ip) IN
  \/ /\ ~Snooped(port)
     /\ verdict' = <<[mac |-> c, res |-> "untrusted"]>>
     /\ UNCHANGED <<tokenBuckets, act, passed, until, posture>>
  \/ /\ Snooped(port) /\ ~Allow(dims)
     /\ consume(dims)
     /\ verdict' = <<[mac |-> c, res |-> "limited"]>>
     /\ UNCHANGED <<act, passed, until, posture>>
  \/ /\ Snooped(port) /\ Allow(dims)
     /\ a.declines + a.discovers + a.requests <= MaxEvents
     /\ consume(dims)
     /\ passed' = [passed EXCEPT ![c][1] = @ + 1]
     /\ act' = [act EXCEPT ![c] = a]
     /\ verdict' = <<[mac |-> c, res |-> IF a.blocked > 0 THEN "blocked"
                                         ELSE "ok"]>>
     /\ until' = [until EXCEPT ![c] =
          IF a.blocked = BlockDuration /\ act[c].blocked < BlockDuration
          THEN BlockDuration ELSE @]
     /\ applyQuarantine(c, a.state)

\* One tick: buckets fill up, activities grow idle, blocks run out.
CheckTick ==
  /\ tokenBuckets' = [k \in DOMAIN tokenBuckets |-> Refilled(tokenBuckets[k])]
  /\ act' = [c \in GuardClients |->
       [act[c] EXCEPT !.idle = IF @ > Window THEN @ ELSE @ + 1,
                      !.blocked = IF @ = 0 THEN 0 ELSE @ - 1]]
  /\ until' = [c \in GuardClients |-> IF until[c] = 0 THEN 0 ELSE until[c] - 1]
  /\ passed' = [c \in GuardClients |-> <<0, passed[c][1]>>]
  /\ verdict' = <<>>
  /\ UNCHANGED posture

CheckInit ==
  /\ tokenBuckets = [k \in GuardClients \cup Ports \cup Addresses |-> Burst]
  /\ act = [c \in GuardClients |-> Quiet]
  /\ passed = [c \in GuardClients |-> <<0, 0>>] /\ until = [c \in GuardClients |-> 0]
  /\ posture = [c \in GuardClients |-> "OK"] /\ verdict = <<>>

CheckNext ==
  \/ \E c \in GuardClients, m \in {"discover", "request", "decline"}, p \in Ports,
        ip \in {<<>>} \cup {<<i>> : i \in Addresses}, rogue \in BOOLEAN :
       Check(c, m, p, ip, rogue)
  \/ CheckTick

---------------------------------------------------------------------------
(* The three machines side by side. *)
GuardInit == ListInit /\ RuleInit /\ CheckInit
GuardNext ==
  \/ ListNext /\ UNCHANGED <<ruleVars, checkVars>>
  \/ RuleNext /\ UNCHANGED <<listVars, checkVars>>
  \/ CheckNext /\ UNCHANGED <<listVars, ruleVars>>
GuardSpec == GuardInit /\ [][GuardNext]_<<listVars, ruleVars, checkVars>>

---------------------------------------------------------------------------
(* Properties *)

\* Once its row says so for good, a blacklisted MAC is neither admitted nor
\* renewed for good (a statically bound client is exempt from the former):
\* neither a result cached before the edit, nor one read before it and
\* cached after it, nor a DEL that Redis refused keeps it admitted (Evaluate,
\* writeCache, OnMacListChanged).
BlacklistTakes ==
  \A m \in {r.mac : r \in EntryRows} :
    <>[](LET r == FindByMAC(m) IN
         r # NoEntry /\ r.type = "black" /\ r.act = "block") =>
    <>[](m \notin (admitted \ BoundMacs) \cup renewed)

\* A tenant's rules are never older than the last edit that tenant's request
\* finished: loadRules reads them with the lock that Invalidate takes.
RulesFresh ==
  \A t \in GuardTenants :
    ruleCache[t] # <<>> => ruleCache[t][1].ver >= invalidated[t]

\* The limiter admits, in two ticks on end, no more than the bucket and what one
\* tick refills.
RateBounded ==
  \A c \in GuardClients : passed[c][1] + passed[c][2] <= Burst + RatePerTick

\* A client the detector blocked is refused until the block runs out, when a
\* block is no longer than the window after which an activity is forgotten
\* (touchBucket; the defaults, 2 minutes and 30 seconds, are not).
BlockHolds ==
  BlockDuration <= Window =>
    \A i \in DOMAIN verdict :
      (until[verdict[i].mac] > 0) => verdict[i].res # "ok"

\* What the in-memory parts of the guard keep, for every packet.
GuardHolds == RulesFresh /\ RateBounded /\ BlockHolds
============================================================================
