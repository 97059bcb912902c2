------------------------------- MODULE Policy -------------------------------
(***************************************************************************)
(* The lease policy: rules in one table, cached as lists and as rows by    *)
(* the repository (layered cache: memory, then Redis) and as sorted lists  *)
(* by the engine that evaluates them for every packet; drafts that are     *)
(* published as numbered versions and rolled back.                         *)
(* internal/policy, internal/cache, policy handlers of http_server.go.     *)
(*                                                                         *)
(* The table has no tenant column while every cache key names the tenant   *)
(* of the request: a row read from the table carries no tenant.            *)
(***************************************************************************)
EXTENDS Integers, Sequences, FiniteSets, Functions

CONSTANTS Rules, Rows,            \* rule ids and the contents a rule may have
          Tenants, AdminTenant,   \* tenants of packets, tenant of the API's scope
          RepoTTL, DefaultTTL, EngineTTL, MaxEdits,
          Publishers, Drafts, MaxVersion, Day, NoRule

ASSUME PolicyAssumption ==
  /\ AdminTenant \in Tenants
  /\ RepoTTL \in Nat \ {0} /\ DefaultTTL \in Nat \ {0} /\ EngineTTL \in Nat \ {0}
  /\ IsFiniteSet(Rules) /\ Day \in Nat \ {0}
  /\ \A row \in Rows :
       /\ row = [prio |-> row.prio, on |-> row.on, fact |-> row.fact,
                 from |-> row.from, to |-> row.to, act |-> row.act]
       /\ row.prio \in Nat /\ row.on \in BOOLEAN
       /\ row.from \in 0..(Day - 1) /\ row.to \in 0..(Day - 1)

NoEntry == [ed |-> 0, left |-> 0]          \* a cache slot with nothing in it


(* What the schemas and the service ask of a rule. *)
Accepted(row) == row.act # NoRule

-----------------------------------------------------------------------------
(* Evaluation.  A row is [prio, on, fact, from, to, act]: a client attribute it
   asks for ("any" is no condition) and a time range of the day. *)

Comparable(start, end) == IF end < start THEN end + Day ELSE end

(* A plausible slip: a range that ends after midnight is compared as it stands. *)
withinTimeRange_SameDay(t, start, end) == start <= t /\ t < end

(* The end of a range that passes midnight, and a time before its start, are moved
   to the next day. *)
withinTimeRange(t, start, end) ==
  LET now == IF end < start /\ t < start THEN t + Day ELSE t
  IN start <= now /\ now < Comparable(start, end)

matchCondition(fact, facts) == fact = "any" \/ fact \in facts
matchRule(row, input) ==
  matchCondition(row.fact, input.facts) /\ withinTimeRange(input.time, row.from, row.to)

(* The listings of a set of rules by priority; sort.Slice leaves the order of equal
   ones open.  A plausible slip: the highest number first. *)
sortRules_Descending(tbl, ids) == CHOOSE s \in Bijection(1..Cardinality(ids), ids) :
  \A i, j \in DOMAIN s : i < j => tbl[s[i]].prio >= tbl[s[j]].prio
sortRules(tbl, ids) == CHOOSE s \in Bijection(1..Cardinality(ids), ids) :
  \A i, j \in DOMAIN s : i < j => tbl[s[i]].prio <= tbl[s[j]].prio

Enabled(tbl) == {r \in Rules : tbl[r] # NoRule /\ tbl[r].on}

(* The first rule of the sorted list that matches decides. *)
Evaluate(tbl, input) ==
  LET list == sortRules(tbl, Enabled(tbl))
      hits == {i \in DOMAIN list : matchRule(tbl[list[i]], input)}
      first == CHOOSE i \in hits : \A j \in hits : i <= j
  IN IF hits = {} THEN NoRule ELSE tbl[list[first]].act

-----------------------------------------------------------------------------
VARIABLES
  editions, \* every content the table had, the last is the current one
  since,    \* per edition, the time since it was replaced (0 while current)
  lists,    \* memory cache of ListRules, per tenant: edition and time left
  redis,    \* Redis copy of it
  rowcache, \* Redis and memory copy of single rows, per rule (API tenant only)
  engine,   \* the engine's sorted list, per tenant
  fetch,    \* a ListRules that has read the table but not yet filled the caches
  edit      \* an administrator's change between the write and the evictions
ruleVars == <<editions, since, lists, redis, rowcache, engine, fetch, edit>>

Now == Len(editions)
Table == editions[Now]
Fresh(e, ttl) == [ed |-> e, left |-> ttl]

Horizon == RepoTTL + DefaultTTL + EngineTTL
Aged(slot) == IF slot.left <= 1 THEN NoEntry ELSE [slot EXCEPT !.left = @ - 1]

(* Reading and filling take far less than a unit of time. *)
PolicyTick ==
  /\ fetch = NoRule /\ edit = NoRule
  /\ since' = [e \in DOMAIN since |-> IF e = Now \/ since[e] > Horizon THEN since[e] ELSE since[e] + 1]
  /\ lists' = [t \in Tenants |-> Aged(lists[t])]
  /\ redis' = [t \in Tenants |-> Aged(redis[t])]
  /\ rowcache' = [r \in Rules |-> Aged(rowcache[r])]
  /\ engine' = [t \in Tenants |-> Aged(engine[t])]
  /\ UNCHANGED <<editions, fetch, edit>>

(* A plausible slip: a hit starts the time of the entry anew. *)
fetchHit_Sliding(t) ==
  /\ fetch = NoRule /\ engine[t] = NoEntry /\ lists[t].left > 0
  /\ lists' = [lists EXCEPT ![t].left = RepoTTL]
  /\ engine' = [engine EXCEPT ![t] = Fresh(lists[t].ed, EngineTTL)]
  /\ UNCHANGED <<editions, since, redis, rowcache, fetch, edit>>

(* fetchRules: the engine's list while it lasts; else the repository's, from
   memory, from Redis (copied to memory for the default time), or from the table.
   The engine holds its lock for the whole fetch. *)
fetchHit(t) ==
  /\ fetch = NoRule /\ engine[t] = NoEntry /\ lists[t].left > 0
  /\ engine' = [engine EXCEPT ![t] = Fresh(lists[t].ed, EngineTTL)]
  /\ UNCHANGED <<editions, since, lists, redis, rowcache, fetch, edit>>
Get(t) ==
  /\ fetch = NoRule /\ engine[t] = NoEntry /\ lists[t] = NoEntry /\ redis[t].left > 0
  /\ lists' = [lists EXCEPT ![t] = Fresh(redis[t].ed, DefaultTTL)]
  /\ engine' = [engine EXCEPT ![t] = Fresh(redis[t].ed, EngineTTL)]
  /\ UNCHANGED <<editions, since, redis, rowcache, fetch, edit>>
ListRules(t) ==
  /\ fetch = NoRule /\ engine[t] = NoEntry /\ lists[t] = NoEntry /\ redis[t] = NoEntry
  /\ fetch' = [tenant |-> t, ed |-> Now]
  /\ UNCHANGED <<editions, since, lists, redis, rowcache, engine, edit>>
SetLists ==
  /\ fetch # NoRule
  /\ lists' = [lists EXCEPT ![fetch.tenant] = Fresh(fetch.ed, RepoTTL)]
  /\ redis' = [redis EXCEPT ![fetch.tenant] = Fresh(fetch.ed, RepoTTL)]
  /\ engine' = [engine EXCEPT ![fetch.tenant] = Fresh(fetch.ed, EngineTTL)]
  /\ fetch' = NoRule
  /\ UNCHANGED <<editions, since, rowcache, edit>>

(* GetRule, cached like the lists.  A row of the table has no tenant. *)
GetRule(r) == IF rowcache[r].left > 0 THEN editions[rowcache[r].ed][r] ELSE Table[r]
FillRow(r) == rowcache' =
  IF rowcache[r].left > 0 \/ Table[r] = NoRule THEN rowcache
  ELSE [rowcache EXCEPT ![r] = Fresh(Now, RepoTTL)]

(* A write of the table.  The evictions follow it: first the repository's, then the
   engine's. *)
Write(tbl, evicts) ==
  /\ edit = NoRule /\ Now <= MaxEdits
  /\ editions' = Append(editions, tbl)
  /\ since' = Append(since, 0)
  /\ edit' = IF evicts THEN "evict" ELSE "invalidate"
  /\ UNCHANGED <<lists, redis, engine, fetch>>

CreateRule(r, row) ==
  /\ Accepted(row)
  /\ \A e \in 1..Now : editions[e][r] = NoRule        \* ids are never used again
  /\ Write([Table EXCEPT ![r] = row], TRUE)
  /\ UNCHANGED rowcache
(* Conditions and actions left out of the request are kept as GetRule gave them.
   The repository evicts the entries of the row's tenant, and the row has none. *)
UpdateRule(r, row, keep) ==
  LET old == GetRule(r)
      new == IF keep THEN [old EXCEPT !.prio = row.prio, !.on = row.on] ELSE row
  IN /\ Accepted(row) /\ old # NoRule /\ Table[r] # NoRule
     /\ Write([Table EXCEPT ![r] = new], FALSE)
     /\ FillRow(r)
DeleteRule(r) ==
  /\ GetRule(r) # NoRule
  /\ Write([Table EXCEPT ![r] = NoRule], TRUE)
  /\ FillRow(r)
ReplaceRules(tbl) ==
  /\ Write(tbl, TRUE)
  /\ UNCHANGED rowcache

evictTenant ==
  /\ edit = "evict"
  /\ lists' = [lists EXCEPT ![AdminTenant] = NoEntry]
  /\ redis' = [redis EXCEPT ![AdminTenant] = NoEntry]
  /\ rowcache' = [r \in Rules |-> NoEntry]
  /\ edit' = "invalidate"
  /\ UNCHANGED <<editions, since, engine, fetch>>
(* It waits for the lock, which a fetch in progress holds. *)
Invalidate ==
  /\ edit = "invalidate" /\ fetch = NoRule
  /\ engine' = [engine EXCEPT ![AdminTenant] = NoEntry]
  /\ edit' = NoRule
  /\ UNCHANGED <<editions, since, lists, redis, rowcache, fetch>>

handleCreatePolicy(r, row)       == CreateRule(r, row)
handleUpdatePolicy(r, row, keep) == UpdateRule(r, row, keep)
handleDeletePolicy(r)            == DeleteRule(r)

RuleInit ==
  /\ editions = <<[r \in Rules |-> NoRule]>> /\ since = <<0>>
  /\ lists = [t \in Tenants |-> NoEntry] /\ redis = lists /\ engine = lists
  /\ rowcache = [r \in Rules |-> NoEntry]
  /\ fetch = NoRule /\ edit = NoRule
RuleNext ==
  \/ PolicyTick
  \/ \E t \in Tenants : fetchHit(t) \/ Get(t) \/ ListRules(t)
  \/ SetLists
  \/ \E r \in Rules :
       \/ \E row \in Rows :
            \/ handleCreatePolicy(r, row)
            \/ \E keep \in BOOLEAN : handleUpdatePolicy(r, row, keep)
       \/ handleDeletePolicy(r)
  \/ \E row \in Rows : Accepted(row) /\ ReplaceRules([r \in Rules |-> row])
  \/ evictTenant \/ Invalidate

(* A packet is decided by rules that were the table's no longer than the three
   cache times ago, through whatever chain of copies (table, Redis, memory, engine)
   they came, for tenants whose entries no change ever evicts as well, and although
   a list read before a change may be cached after its evictions. *)
StalenessBounded == \A t \in Tenants :
  engine[t] # NoEntry => engine[t].ed = Now \/ since[engine[t].ed] <= Horizon

(* The rule that decides is an enabled, matching one, and no enabled matching rule
   has a lower priority number; ranges over midnight included. *)
DecisionSound ==
  LET InRange(t, from, to) == (t - from + Day) % Day < (to - from + Day) % Day
      Match(row, i) == (row.fact = "any" \/ row.fact \in i.facts) /\ InRange(i.time, row.from, row.to)
  IN \A fs \in {{}, {"phone"}}, t \in 0..(Day - 1) :
       LET i == [facts |-> fs, time |-> t]
           M == {r \in Enabled(Table) : Match(Table[r], i)}
           d == Evaluate(Table, i)
       IN IF M = {} THEN d = NoRule
          ELSE \E r \in M : Table[r].act = d /\ \A q \in M : Table[r].prio <= Table[q].prio

-----------------------------------------------------------------------------
(* Drafts and versions.  A draft's rules are stood for by the row they install. *)
VARIABLES
  drafts,    \* draft row: status, rules and name, NoRule without one
  versions,  \* recorded versions, oldest first
  lived,     \* every content that was ever installed in the rule table
  work       \* a publication or rollback in progress, per administrator
publishVars == <<drafts, versions, lived, work>>

normalizeDraftRules(rules) == Accepted(rules)
NameTaken(n) == \E d \in Drafts : drafts[d] # NoRule /\ drafts[d].name = n
(* Names are unique; without one a rollback's draft is named after its version. *)
CreateDraft(d, rules, name) ==
  /\ normalizeDraftRules(rules) /\ drafts[d] = NoRule /\ ~NameTaken(name)
  /\ drafts' = [drafts EXCEPT ![d] = [status |-> "draft", rules |-> rules, name |-> name]]
handleCreatePolicyDraft(d, rules) ==
  CreateDraft(d, rules, d) /\ UNCHANGED <<versions, lived, work>>

(* The status may be set to any of the three, whatever was published. *)
UpdateDraft(d, rules, status) ==
  /\ drafts[d] # NoRule /\ normalizeDraftRules(rules)
  /\ drafts' = [drafts EXCEPT ![d].rules = rules, ![d].status = status]
  /\ UNCHANGED <<versions, lived, work>>
DeleteDraft(d) ==
  /\ drafts[d] # NoRule
  /\ drafts' = [drafts EXCEPT ![d] = NoRule]
  /\ UNCHANGED <<versions, lived, work>>
handleUpdatePolicyDraft(d, rules, status) == UpdateDraft(d, rules, status)
handleDeletePolicyDraft(d) == DeleteDraft(d)

GoTo(p, w) == work' = [work EXCEPT ![p] = w]
Fail(p) == /\ work[p] # NoRule /\ GoTo(p, NoRule) /\ UNCHANGED <<drafts, versions, lived>>

(* PublishDraft: the draft is read, the table replaced, the next number read, the
   version recorded, the draft closed; each step may fail and nothing is undone. *)
PublishDraft(p, d) ==
  /\ drafts[d] # NoRule /\ drafts[d].status # "published"
  /\ GoTo(p, [pc |-> "replace", d |-> d, rules |-> drafts[d].rules, n |-> 0])
  /\ UNCHANGED <<drafts, versions, lived>>
handlePublishPolicyDraft(p, d) == work[p] = NoRule /\ PublishDraft(p, d)

(* A plausible slip: publishing only records. *)
Install_Forgotten(p) ==
  /\ work[p] # NoRule /\ work[p].pc = "replace"
  /\ GoTo(p, [work[p] EXCEPT !.pc = "number"])
  /\ UNCHANGED <<drafts, versions, lived>>
Install(p) ==
  /\ work[p] # NoRule /\ work[p].pc = "replace"
  /\ lived' = lived \cup {work[p].rules}
  /\ GoTo(p, [work[p] EXCEPT !.pc = "number"])
  /\ UNCHANGED <<drafts, versions>>
LatestVersionNumber(p) ==
  /\ work[p] # NoRule /\ work[p].pc = "number"
  /\ GoTo(p, [work[p] EXCEPT !.pc = "record", !.n = Len(versions) + 1])
  /\ UNCHANGED <<drafts, versions, lived>>
(* The number is a unique key: of two publications that read the same one, the
   second fails. *)
InsertVersion(p) ==
  /\ work[p] # NoRule /\ work[p].pc = "record"
  /\ work[p].n = Len(versions) + 1 /\ Len(versions) < MaxVersion
  /\ versions' = Append(versions, work[p].rules)
  /\ GoTo(p, [work[p] EXCEPT !.pc = "close"])
  /\ UNCHANGED <<drafts, lived>>
(* The copy read at the start is written back; a draft deleted meanwhile stays so. *)
CloseDraft(p) ==
  /\ work[p] # NoRule /\ work[p].pc = "close"
  /\ LET d == work[p].d
     IN drafts' = IF drafts[d] = NoRule THEN drafts
                  ELSE [drafts EXCEPT ![d].status = "published", ![d].rules = work[p].rules]
  /\ GoTo(p, NoRule)
  /\ UNCHANGED <<versions, lived>>

(* A version's rules become a new draft, which is published like any other: it is
   read again. *)
RollbackVersion(p, n, d) ==
  /\ n \in 1..Len(versions)
  /\ CreateDraft(d, versions[n], n)
  /\ GoTo(p, [pc |-> "publish", d |-> d, rules |-> versions[n], n |-> n])
  /\ UNCHANGED <<versions, lived>>
handleRollbackPolicyVersion(p, n, d) == work[p] = NoRule /\ RollbackVersion(p, n, d)
PublishRollback(p) ==
  /\ work[p] # NoRule /\ work[p].pc = "publish"
  /\ PublishDraft(p, work[p].d)

PublishInit ==
  /\ drafts = [d \in Drafts |-> NoRule] /\ versions = <<>> /\ lived = {}
  /\ work = [p \in Publishers |-> NoRule]
PublishNext ==
  \/ \E d \in Drafts :
       \/ \E row \in Rows :
            \/ handleCreatePolicyDraft(d, row)
            \/ \E st \in {"draft", "published"} : handleUpdatePolicyDraft(d, row, st)
       \/ handleDeletePolicyDraft(d)
  \/ \E p \in Publishers :
       \/ \E d \in Drafts : handlePublishPolicyDraft(p, d)
       \/ \E n \in 1..MaxVersion, d \in Drafts : handleRollbackPolicyVersion(p, n, d)
       \/ PublishRollback(p) \/ Install(p) \/ LatestVersionNumber(p)
       \/ InsertVersion(p) \/ CloseDraft(p) \/ Fail(p)

(* Whatever two administrators publish or roll back at once and whichever step
   fails, a recorded version was installed in the rule table: the history never
   offers for rollback what was never live. *)
VersionWasLive == \A n \in DOMAIN versions : versions[n] \in lived

PolicyVars == <<ruleVars, publishVars>>

PolicySpec ==
  /\ RuleInit /\ PublishInit
  /\ [][\/ RuleNext /\ UNCHANGED publishVars
        \/ PublishNext /\ UNCHANGED ruleVars]_PolicyVars

(* Decisions are at most as old as the two caches allow and follow the rules
   they were read from, and the history is true (policy/engine.go, service.go). *)
PolicySound == StalenessBounded /\ DecisionSound /\ VersionWasLive
=============================================================================
