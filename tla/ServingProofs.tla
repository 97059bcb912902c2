--------------------------- MODULE ServingProofs ---------------------------
(***************************************************************************)
(* Proofs about what stands between a packet or a request and its answer:  *)
(* the operations service (OpsJobs) and the security guard (Guard).        *)
(***************************************************************************)
EXTENDS Guard, OpsJobs, FiniteSetTheorems, TLAPS

-----------------------------------------------------------------------------
(* Scripts.  A run is at one place of its life at a time, its command has    *)
(* been started exactly when it left the wait for a slot, and one that needs *)
(* approval gets anywhere only with exactly that ruling.                     *)

Underway(r) == r \in owed \cup waiting \cup executing

RunSound(r) ==
  /\ execs[r] \in 0..1
  /\ r \in owed => r \notin waiting \cup executing
  /\ r \in waiting => r \notin executing
  /\ r \in owed \cup waiting => execs[r] = 0
  /\ r \in executing => execs[r] = 1
  /\ rulings[r] = {} \/ rulings[r] = {"approved"} \/ rulings[r] = {"rejected"}
  /\ (r \in Gated /\ (Underway(r) \/ execs[r] > 0)) => rulings[r] = {"approved"}
  /\ runs[r] = "pending_approval" =>
       rulings[r] = {} /\ ~Underway(r) /\ execs[r] = 0

ScriptInv ==
  /\ DOMAIN runs = Runs
  /\ execs \in [Runs -> Nat]
  /\ rulings = [r \in Runs |-> rulings[r]]
  /\ \A r \in Runs : RunSound(r)

\* A step that touches one run leaves the others' records, or drops them.
LEMMA ScriptFrame ==
  ASSUME ScriptInv, NEW r \in Runs, NEW q \in Runs \ {r},
         runs'[q] \in {runs[q], None},
         execs'[q] = execs[q], rulings'[q] = rulings[q],
         q \in owed' <=> q \in owed, q \in waiting' <=> q \in waiting,
         q \in executing' <=> q \in executing
  PROVE  RunSound(q)'
BY OpsAssumption DEF ScriptInv, RunSound, Underway

\* What a step must do to the run it is about.
LEMMA ScriptStep ==
  ASSUME ScriptInv, NEW r \in Runs, DOMAIN runs' = Runs,
         execs' \in [Runs -> Nat], rulings' = [q \in Runs |-> rulings'[q]],
         RunSound(r)',
         \A q \in Runs \ {r} :
           /\ runs'[q] \in {runs[q], None}
           /\ execs'[q] = execs[q] /\ rulings'[q] = rulings[q]
           /\ q \in owed' <=> q \in owed
           /\ q \in waiting' <=> q \in waiting
           /\ q \in executing' <=> q \in executing
  PROVE  ScriptInv'
<1>1. ASSUME NEW q \in Runs \ {r} PROVE RunSound(q)'
  BY ScriptFrame
<1> QED BY <1>1 DEF ScriptInv

LEMMA ScriptKept ==
  ASSUME ScriptInv, ScriptNext
  PROVE  ScriptInv'
<1> USE OpsAssumption
<1>0. PICK r \in Runs :
        \/ handleOpsStartScriptRun(r) \/ triggerExecution(r)
        \/ handleOpsApproveScriptRun(r) \/ handleOpsRejectScriptRun(r)
        \/ execute(r) \/ \E ok \in BOOLEAN : executed(r, ok)
  BY DEF ScriptNext
<1>s. RunSound(r) /\ execs[r] \in Nat
  BY DEF ScriptInv
<1>a. CASE handleOpsStartScriptRun(r)
  <2> DEFINE st == IF r \in Gated THEN "pending_approval" ELSE "pending"
  <2>1. PICK o : runs' = OnlyKept([runs EXCEPT ![r] = st], o)
    BY <1>a DEF handleOpsStartScriptRun, Start, storeRun
  <2>2. /\ DOMAIN runs' = Runs
        /\ runs'[r] \in {st, None}
        /\ \A q \in Runs \ {r} : runs'[q] \in {runs[q], None}
    BY <2>1 DEF OnlyKept, ScriptInv
  <2>3. /\ r \notin owed \cup waiting /\ execs[r] = 0 /\ rulings[r] = {}
        /\ owed' = IF r \in Gated THEN owed ELSE owed \cup {r}
        /\ UNCHANGED <<waiting, executing, execs, rulings>>
    BY <1>a DEF handleOpsStartScriptRun, Start
  <2>4. RunSound(r)'
    <3>1. runs'[r] = "pending_approval" => r \in Gated
      BY <2>2
    <3> QED BY <1>s, <2>3, <3>1 DEF RunSound, Underway
  <2> QED BY <2>2, <2>3, <2>4, ScriptStep DEF ScriptInv
<1>b. CASE triggerExecution(r)
  <2>1. RunSound(r)'
    BY <1>b, <1>s DEF triggerExecution, RunSound, Underway
  <2> QED BY <1>b, <2>1, ScriptStep DEF triggerExecution, ScriptInv
<1>c. CASE handleOpsApproveScriptRun(r)
  <2>0. /\ r \in Gated /\ runs[r] = "pending_approval"
        /\ runs' = [runs EXCEPT ![r] = "pending"]
        /\ rulings' = [rulings EXCEPT ![r] = @ \cup {"approved"}]
        /\ owed' = owed \cup {r} /\ UNCHANGED <<order, waiting, executing, execs>>
    BY <1>c DEF handleOpsApproveScriptRun, Approve, updateRun, Decide
  <2>1. rulings[r] = {} /\ ~Underway(r) /\ execs[r] = 0
    BY <1>s, <2>0 DEF RunSound
  <2>2. runs'[r] = "pending" /\ rulings'[r] = {"approved"}
    BY <2>0, <2>1 DEF ScriptInv
  <2>3. RunSound(r)'
    BY <2>0, <2>1, <2>2 DEF RunSound, Underway
  <2> QED BY <2>0, <2>3, ScriptStep DEF ScriptInv
<1>d. CASE handleOpsRejectScriptRun(r)
  <2>0. /\ r \in Gated /\ runs[r] = "pending_approval"
        /\ runs' = [runs EXCEPT ![r] = "rejected"]
        /\ rulings' = [rulings EXCEPT ![r] = @ \cup {"rejected"}]
        /\ UNCHANGED <<order, owed, waiting, executing, execs>>
    BY <1>d DEF handleOpsRejectScriptRun, Reject, updateRun, Decide
  <2>1. rulings[r] = {} /\ ~Underway(r) /\ execs[r] = 0
    BY <1>s, <2>0 DEF RunSound
  <2>2. runs'[r] = "rejected" /\ rulings'[r] = {"rejected"}
    BY <2>0, <2>1 DEF ScriptInv
  <2>3. RunSound(r)'
    BY <2>0, <2>1, <2>2 DEF RunSound, Underway
  <2> QED BY <2>0, <2>3, ScriptStep DEF ScriptInv
<1>e. CASE execute(r)
  <2>0. /\ r \in waiting
        /\ waiting' = waiting \ {r} /\ executing' = executing \cup {r}
        /\ execs' = [execs EXCEPT ![r] = execs[r] + 1]
        /\ runs' = (IF runs[r] = None THEN runs ELSE [runs EXCEPT ![r] = "running"])
        /\ UNCHANGED <<order, owed, rulings>>
    BY <1>e DEF execute, updateRun
  <2>1. execs[r] = 0 /\ runs[r] # "pending_approval" /\ r \notin owed
    BY <1>s, <2>0 DEF RunSound, Underway
  <2>2. execs'[r] = 1 /\ runs'[r] # "pending_approval"
    BY <2>0, <2>1 DEF ScriptInv
  <2>3. RunSound(r)'
    BY <1>s, <2>0, <2>1, <2>2 DEF RunSound, Underway
  <2>4. /\ DOMAIN runs' = Runs /\ execs' \in [Runs -> Nat]
        /\ \A q \in Runs \ {r} : runs'[q] = runs[q] /\ execs'[q] = execs[q]
    BY <2>0, <1>s DEF ScriptInv
  <2> QED BY <2>0, <2>3, <2>4, ScriptStep DEF ScriptInv
<1>f. CASE \E ok \in BOOLEAN : executed(r, ok)
  <2>0. PICK ok \in BOOLEAN : executed(r, ok)
    BY <1>f
  <2> DEFINE out == IF ok THEN "succeeded" ELSE "failed"
  <2>1. /\ r \in executing /\ executing' = executing \ {r}
        /\ runs' = (IF runs[r] = None THEN runs ELSE [runs EXCEPT ![r] = out])
        /\ UNCHANGED <<order, owed, waiting, execs, rulings>>
    BY <2>0 DEF executed, updateRun
  <2>2. runs'[r] # "pending_approval"
    BY <2>1, <1>s DEF ScriptInv, RunSound, Underway
  <2>3. RunSound(r)'
    BY <1>s, <2>1, <2>2 DEF RunSound, Underway
  <2> QED BY <2>1, <2>3, ScriptStep DEF ScriptInv
<1> QED BY <1>0, <1>a, <1>b, <1>c, <1>d, <1>e, <1>f

LEMMA ScriptStarts ==
  ASSUME ScriptInit
  PROVE  ScriptInv
BY OpsAssumption DEF ScriptInit, ScriptInv, RunSound, Underway

LEMMA ScriptOnceHolds ==
  ASSUME ScriptInv
  PROVE  ScriptOnce
<1> SUFFICES ASSUME NEW r \in Runs
             PROVE  /\ execs[r] <= 1
                    /\ (r \in Gated /\ execs[r] > 0) => rulings[r] = {"approved"}
                    /\ Cardinality(rulings[r]) <= 1
  BY DEF ScriptOnce
<1>1. RunSound(r)
  BY DEF ScriptInv
<1>2. Cardinality(rulings[r]) <= 1
  <2>1. Cardinality({}) = 0
    BY FS_EmptySet
  <2>2. Cardinality({"approved"}) = 1 /\ Cardinality({"rejected"}) = 1
    BY FS_Singleton
  <2>3. rulings[r] = {} \/ rulings[r] = {"approved"} \/ rulings[r] = {"rejected"}
    BY <1>1 DEF RunSound
  <2> QED BY <2>1, <2>2, <2>3
<1> QED BY <1>1, <1>2 DEF RunSound

-----------------------------------------------------------------------------
(* Settings.  Who has read the row holds the lock, and what was read is what *)
(* is stored until it is written: no update works on an older row.           *)

SettingInv ==
  /\ DOMAIN intended = Fields
  /\ DOMAIN loaded = Admins /\ DOMAIN adminCall = Admins
  /\ mergeDefaults(stored) = mergeDefaults(intended)
  /\ cache # None => cache = mergeDefaults(stored)
  /\ \A a \in Admins : loaded[a] # None =>
       holder = a /\ loaded[a] = mergeDefaults(stored) /\ adminCall[a] # None

LEMMA MergedAgain ==
  ASSUME NEW s
  PROVE  mergeDefaults(mergeDefaults(s)) = mergeDefaults(s)
BY OpsAssumption DEF mergeDefaults

\* A row with one field changed.
Put(s, f, v) == [s EXCEPT ![f] = v]

\* What a holder saves is the row with the field the administrator wished for.
LEMMA ChangeIntended ==
  ASSUME SettingInv, NEW a \in Admins, loaded[a] # None,
         NEW f, NEW v, NEW row,
         row = mergeDefaults(Put(loaded[a], f, v))
  PROVE  /\ row = mergeDefaults(Put(intended, f, v))
         /\ mergeDefaults(row) = row
<1>0. loaded[a] = mergeDefaults(intended) /\ DOMAIN intended = Fields
  BY DEF SettingInv
<1>1. ASSUME NEW g \in Fields
      PROVE  row[g] = mergeDefaults(Put(intended, f, v))[g]
  BY <1>0, OpsAssumption DEF mergeDefaults, Put
<1>2. row = mergeDefaults(Put(intended, f, v))
  BY <1>1 DEF mergeDefaults
<1> QED BY <1>2, MergedAgain

\* The end of a call, whatever was saved: the lock is free.
LEMMA DoneKept ==
  ASSUME SettingInv, NEW a \in Admins, loaded[a] # None, Done(a),
         DOMAIN intended' = Fields,
         mergeDefaults(stored)' = mergeDefaults(intended)',
         cache' # None => cache' = mergeDefaults(stored)'
  PROVE  SettingInv'
<1>1. \A b \in Admins : loaded'[b] = None
  BY OpsAssumption DEF SettingInv, Done
<1> QED BY <1>1 DEF SettingInv, Done

LEMMA SettingKept ==
  ASSUME SettingInv, SettingNext
  PROVE  SettingInv'
<1> USE OpsAssumption
<1>a. CASE CurrentSettings
  BY <1>a DEF CurrentSettings, SettingInv, mergeDefaults
<1>b. ASSUME NEW a \in Admins,
             \/ \E f \in Fields \ {"ntp"}, v \in Values \cup {None} : applyOpsSettingsMutation(a, f, v)
             \/ \E v \in Values : handleOpsSyncNTP(a, v)
      PROVE  SettingInv'
  <2>1. /\ adminCall[a] = None /\ \E c : adminCall' = [adminCall EXCEPT ![a] = c]
        /\ UNCHANGED <<stored, cache, holder, loaded, intended>>
    BY <1>b DEF applyOpsSettingsMutation, handleOpsSyncNTP
  <2> QED BY <2>1 DEF SettingInv, mergeDefaults
<1>c. ASSUME NEW a \in Admins, TakeLock(a) PROVE SettingInv'
  BY <1>c DEF TakeLock, SettingInv, mergeDefaults
<1>d. ASSUME NEW a \in Admins, UpdateSettings(a) PROVE SettingInv'
  <2>p. PICK f, v : f = adminCall[a].f /\ v = adminCall[a].v
    OBVIOUS
  <2>0. /\ loaded[a] # None /\ Done(a)
        /\ intended' = [intended EXCEPT ![f] = v]
    BY <1>d, <2>p DEF UpdateSettings
  <2>1. PICK row : row = mergeDefaults(Put(loaded[a], f, v))
    OBVIOUS
  <2>i. /\ row = mergeDefaults(Put(intended, f, v))
        /\ mergeDefaults(row) = row
    BY <2>0, <2>1, ChangeIntended
  <2>2. row = mergeDefaults(intended') /\ mergeDefaults(row) = row
    BY <2>0, <2>i DEF Put
  <2>3. /\ mergeDefaults(stored') = row
        /\ cache' = row
    <3>1. CASE Same(a) /\ cache' = loaded[a] /\ UNCHANGED stored
      BY <3>1, <2>0, <2>1, <2>p DEF Same, Changed, SettingInv, Put
    <3>2. CASE ~Same(a) /\ Save(Changed(a))
      BY <3>2, <2>1, <2>2, <2>p DEF Changed, Save, Put
    <3> QED BY <3>1, <3>2, <1>d DEF UpdateSettings
  <2>4. DOMAIN intended' = Fields
    BY <2>0 DEF SettingInv
  <2>5. mergeDefaults(stored)' = row /\ mergeDefaults(intended)' = row
    BY <2>2, <2>3 DEF mergeDefaults
  <2> QED BY <2>0, <2>3, <2>4, <2>5, DoneKept
<1>e. ASSUME NEW a \in Admins, SyncNTP(a) PROVE SettingInv'
  <2>p. PICK v : v = adminCall[a].v
    OBVIOUS
  <2>0. /\ loaded[a] # None /\ Done(a) /\ adminCall[a].f = "ntp"
        /\ intended' = [intended EXCEPT !["ntp"] = v] /\ Save(Changed(a))
    BY <1>e, <2>p DEF SyncNTP
  <2>1. PICK row : row = mergeDefaults(Put(loaded[a], "ntp", v))
    OBVIOUS
  <2>i. /\ row = mergeDefaults(Put(intended, "ntp", v))
        /\ mergeDefaults(row) = row
    BY <2>0, <2>1, ChangeIntended
  <2>2. row = mergeDefaults(intended') /\ mergeDefaults(row) = row
    BY <2>0, <2>i DEF Put
  <2>3. stored' = row /\ cache' = row
    BY <2>0, <2>1, <2>2, <2>p DEF Save, Changed, Put
  <2>4. DOMAIN intended' = Fields
    BY <2>0 DEF SettingInv
  <2>5. mergeDefaults(stored)' = row /\ mergeDefaults(intended)' = row
    BY <2>2, <2>3 DEF mergeDefaults
  <2> QED BY <2>0, <2>3, <2>4, <2>5, DoneKept
<1>f. ASSUME NEW a \in Admins, SaveFails(a) PROVE SettingInv'
  <2>1. mergeDefaults(stored)' = mergeDefaults(stored) /\ mergeDefaults(intended)' = mergeDefaults(intended)
    BY <1>f DEF SaveFails, mergeDefaults
  <2> QED BY <1>f, <2>1, DoneKept DEF SaveFails, SettingInv
<1> QED BY <1>a, <1>b, <1>c, <1>d, <1>e, <1>f DEF SettingNext

-----------------------------------------------------------------------------
LEMMA OpsKept ==
  ASSUME ScriptInv, SettingInv, [OpsNext]_OpsVars
  PROVE  ScriptInv' /\ SettingInv'
<1>1. ScriptNext \/ UNCHANGED scriptVars
  BY DEF OpsNext, OpsVars
<1>2. SettingNext \/ UNCHANGED settingVars
  BY DEF OpsNext, OpsVars
<1>3. ScriptInv'
  <2>1. CASE UNCHANGED scriptVars
    BY <2>1 DEF scriptVars, ScriptInv, RunSound, Underway
  <2> QED BY <2>1, <1>1, ScriptKept
<1>4. SettingInv'
  <2>1. CASE UNCHANGED settingVars
    BY <2>1 DEF settingVars, SettingInv, mergeDefaults
  <2> QED BY <2>1, <1>2, SettingKept
<1> QED BY <1>3, <1>4

(* However administrators interleave, a script that needs approval runs only
   when approved and never twice, and no update of the settings takes another
   one back: Approve and Reject test and set the status under one lock, and
   UpdateSettings and SyncNTP hold settingsMu from the read of the row to its
   write (ops/script_runner.go, ops/service.go). *)
THEOREM OperationsSound == OpsSpec => []OpsSound
<1>1. OpsInit => ScriptInv /\ SettingInv
  BY ScriptStarts DEF OpsInit, SettingInit, SettingInv, mergeDefaults
<1>2. ScriptInv /\ SettingInv /\ [OpsNext]_OpsVars => ScriptInv' /\ SettingInv'
  BY OpsKept
<1>3. ScriptInv /\ SettingInv => OpsSound
  BY ScriptOnceHolds DEF OpsSound, SettingsKept, SettingInv
<1> QED BY <1>1, <1>2, <1>3, PTL DEF OpsSpec

-----------------------------------------------------------------------------
(* Security policy rules.  Whoever reads the table holds the evaluator's     *)
(* lock, so no invalidation comes between the read and the cache.            *)

\* The lock and what each loader has read.
LoaderSound(k) ==
  loads[k] # <<>> =>
    /\ loads[k][1].t \in GuardTenants
    /\ loads[k][1].pc \in {"list", "store"} => ruleLock = k
    /\ loads[k][1].pc = "store" =>
         loads[k][1].ver \in Nat /\ loads[k][1].ver >= invalidated[loads[k][1].t]

CacheSound(t) ==
  /\ invalidated[t] \in Nat /\ invalidated[t] <= version
  /\ ruleCache[t] # <<>> =>
       /\ "ver" \in DOMAIN ruleCache[t][1]
       /\ ruleCache[t][1].ver \in Nat /\ ruleCache[t][1].ver >= invalidated[t]

RuleInv ==
  /\ version \in Nat
  /\ DOMAIN loads = Loaders /\ DOMAIN ruleCache = GuardTenants
  /\ DOMAIN invalidated = GuardTenants
  /\ \A a \in Editors : ruleEdits[a] # <<>> => ruleEdits[a][1] \in GuardTenants
  /\ DOMAIN ruleEdits = Editors
  /\ \A k \in Loaders : LoaderSound(k)
  /\ \A t \in GuardTenants : CacheSound(t)

\* One loader moves, and the rest of the evaluator stands still.
LEMMA LoaderStep ==
  ASSUME RuleInv, NEW k \in Loaders, DOMAIN loads' = Loaders,
         UNCHANGED <<version, ruleEdits, invalidated>>,
         \A q \in Loaders \ {k} : loads'[q] = loads[q],
         ruleLock' = ruleLock \/ (ruleLock = 0 /\ ruleLock' = k)
                              \/ (ruleLock = k /\ ruleLock' = 0),
         LoaderSound(k)',
         DOMAIN ruleCache' = GuardTenants,
         \A t \in GuardTenants : CacheSound(t)'
  PROVE  RuleInv'
<1>1. ASSUME NEW q \in Loaders \ {k} PROVE LoaderSound(q)'
  BY GuardAssumption DEF RuleInv, LoaderSound
<1> QED BY <1>1 DEF RuleInv

LEMMA RuleKept ==
  ASSUME RuleInv, RuleNext
  PROVE  RuleInv'
<1> USE GuardAssumption
<1>a. ASSUME NEW k \in Loaders, NEW t \in GuardTenants, loadRules(k, t) PROVE RuleInv'
  <2>1. /\ loads' = loads \/ loads' = [loads EXCEPT ![k] = <<[t |-> t, pc |-> "lock"]>>]
        /\ UNCHANGED <<rules, version, ruleCache, ruleLock, ruleEdits, invalidated>>
    BY <1>a DEF loadRules
  <2>2. CASE loads' = loads
    BY <2>1, <2>2 DEF RuleInv, LoaderSound, CacheSound
  <2>3. CASE loads' = [loads EXCEPT ![k] = <<[t |-> t, pc |-> "lock"]>>]
    <3>1. loads'[k] = <<[t |-> t, pc |-> "lock"]>>
      BY <2>3 DEF RuleInv
    <3>2. LoaderSound(k)'
      BY <3>1 DEF LoaderSound
    <3>3. \A s \in GuardTenants : CacheSound(s)'
      BY <2>1 DEF RuleInv, CacheSound
    <3> QED BY <2>1, <2>3, <3>2, <3>3, LoaderStep DEF RuleInv
  <2> QED BY <2>1, <2>2, <2>3
<1>b. ASSUME NEW k \in Loaders, LoadLock(k) PROVE RuleInv'
  <2>0. /\ loads[k] # <<>> /\ loads[k][1].pc = "lock" /\ ruleLock = 0
        /\ UNCHANGED <<rules, version, ruleCache, ruleEdits, invalidated>>
    BY <1>b DEF LoadLock
  <2>1. \A s \in GuardTenants : CacheSound(s)'
    BY <2>0 DEF RuleInv, CacheSound
  <2>2. CASE loads' = [loads EXCEPT ![k] = <<>>] /\ UNCHANGED ruleLock
    <3>1. LoaderSound(k)'
      BY <2>2 DEF RuleInv, LoaderSound
    <3> QED BY <2>0, <2>1, <2>2, <3>1, LoaderStep DEF RuleInv
  <2>3. CASE loads' = [loads EXCEPT ![k][1].pc = "list"] /\ ruleLock' = k
    <3>1. loads'[k] = [loads[k] EXCEPT ![1].pc = "list"]
      BY <2>3 DEF RuleInv
    <3>2. loads'[k][1].pc # "store" /\ (loads'[k] # <<>> => loads'[k][1].t = loads[k][1].t)
      BY <3>1, <2>0
    <3>3. LoaderSound(k)'
      BY <3>2, <2>0, <2>3 DEF RuleInv, LoaderSound
    <3> QED BY <2>0, <2>1, <2>3, <3>3, LoaderStep DEF RuleInv
  <2> QED BY <1>b, <2>2, <2>3 DEF LoadLock
<1>c. ASSUME NEW k \in Loaders, LoadList(k) PROVE RuleInv'
  <2>0. /\ loads[k] # <<>> /\ loads[k][1].pc = "list"
        /\ UNCHANGED <<rules, version, ruleCache, ruleEdits, invalidated>>
    BY <1>c DEF LoadList
  <2>1. \A s \in GuardTenants : CacheSound(s)'
    BY <2>0 DEF RuleInv, CacheSound
  <2>l. ruleLock = k /\ loads[k][1].t \in GuardTenants
    BY <2>0 DEF RuleInv, LoaderSound
  <2>2. CASE loads' = [loads EXCEPT ![k] = <<>>] /\ ruleLock' = 0
    <3>1. LoaderSound(k)'
      BY <2>2 DEF RuleInv, LoaderSound
    <3> QED BY <2>0, <2>l, <2>1, <2>2, <3>1, LoaderStep DEF RuleInv
  <2>3. CASE /\ loads' = [loads EXCEPT ![k] =
                  <<[t |-> loads[k][1].t, pc |-> "store", rules |-> rules, ver |-> version]>>]
             /\ UNCHANGED ruleLock
    <3>1. loads'[k] = <<[t |-> loads[k][1].t, pc |-> "store", rules |-> rules, ver |-> version]>>
      BY <2>3 DEF RuleInv
    <3>2. CacheSound(loads[k][1].t) /\ version \in Nat
      BY <2>l DEF RuleInv
    <3>3. LoaderSound(k)'
      BY <3>1, <3>2, <2>l, <2>0, <2>3 DEF LoaderSound, CacheSound
    <3> QED BY <2>0, <2>1, <2>3, <3>3, LoaderStep DEF RuleInv
  <2> QED BY <1>c, <2>2, <2>3 DEF LoadList
<1>d. ASSUME NEW k \in Loaders, LoadStore(k) PROVE RuleInv'
  <2> DEFINE t == loads[k][1].t
  <2>0. /\ loads[k] # <<>> /\ loads[k][1].pc = "store"
        /\ ruleCache' = [ruleCache EXCEPT ![t] =
             <<[rules |-> loads[k][1].rules, ver |-> loads[k][1].ver, left |-> RuleTTL]>>]
        /\ loads' = [loads EXCEPT ![k] = <<>>] /\ ruleLock' = 0
        /\ UNCHANGED <<rules, version, ruleEdits, invalidated>>
    BY <1>d DEF LoadStore
  <2>1. /\ ruleLock = k /\ t \in GuardTenants
        /\ loads[k][1].ver \in Nat /\ loads[k][1].ver >= invalidated[t]
    BY <2>0 DEF RuleInv, LoaderSound
  <2>2. ASSUME NEW s \in GuardTenants PROVE CacheSound(s)'
    <3>1. CASE s = t
      <4>1. ruleCache'[s] = <<[rules |-> loads[k][1].rules, ver |-> loads[k][1].ver, left |-> RuleTTL]>>
        BY <2>0, <2>1, <3>1 DEF RuleInv
      <4> QED BY <4>1, <3>1, <2>0, <2>1 DEF RuleInv, CacheSound
    <3>2. CASE s # t
      BY <2>0, <3>2 DEF RuleInv, CacheSound
    <3> QED BY <3>1, <3>2
  <2>3. LoaderSound(k)'
    BY <2>0 DEF RuleInv, LoaderSound
  <2> QED BY <2>0, <2>1, <2>2, <2>3, LoaderStep DEF RuleInv
<1>e. ASSUME NEW a \in Editors, NEW t \in GuardTenants, NEW i, NEW f, EditRule(a, t, i, f)
      PROVE  RuleInv'
  <2>0. /\ version' = version + 1
        /\ ruleEdits' = [ruleEdits EXCEPT ![a] = <<t>>]
        /\ UNCHANGED <<ruleCache, ruleLock, loads, invalidated>>
    BY <1>e DEF EditRule, WriteRule
  <2>1. \A b \in Editors : ruleEdits'[b] # <<>> => ruleEdits'[b][1] \in GuardTenants
    BY <2>0 DEF RuleInv
  <2> QED BY <2>0, <2>1 DEF RuleInv, LoaderSound, CacheSound
<1>f. ASSUME NEW a \in Editors, Invalidate(a) PROVE RuleInv'
  <2> DEFINE t == ruleEdits[a][1]
  <2>0. /\ ruleEdits[a] # <<>> /\ ruleLock = 0
        /\ ruleCache' = [ruleCache EXCEPT ![t] = <<>>]
        /\ invalidated' = [invalidated EXCEPT ![t] = version]
        /\ ruleEdits' = [ruleEdits EXCEPT ![a] = <<>>]
        /\ UNCHANGED <<rules, version, ruleLock, loads>>
    BY <1>f DEF Invalidate
  <2>1. ASSUME NEW s \in GuardTenants PROVE CacheSound(s)'
    BY <2>0 DEF RuleInv, CacheSound
  <2>2. ASSUME NEW k \in Loaders PROVE LoaderSound(k)'
    <3>1. loads[k] = <<>> \/ (loads[k][1].pc \notin {"list", "store"} /\ loads[k][1].t \in GuardTenants)
      BY <2>0 DEF RuleInv, LoaderSound
    <3> QED BY <3>1, <2>0 DEF LoaderSound
  <2>3. \A b \in Editors : ruleEdits'[b] # <<>> => ruleEdits'[b][1] \in GuardTenants
    BY <2>0 DEF RuleInv
  <2> QED BY <2>0, <2>1, <2>2, <2>3 DEF RuleInv
<1>g. CASE RuleTick
  <2>0. /\ ruleCache' = [t \in GuardTenants |->
             IF ruleCache[t] = <<>> \/ ruleCache[t][1].left = 0 THEN <<>>
             ELSE <<[ruleCache[t][1] EXCEPT !.left = @ - 1]>>]
        /\ UNCHANGED <<rules, version, ruleLock, loads, ruleEdits, invalidated>>
    BY <1>g DEF RuleTick
  <2>1. ASSUME NEW t \in GuardTenants PROVE CacheSound(t)'
    <3>1. CASE ruleCache[t] = <<>> \/ ruleCache[t][1].left = 0
      BY <3>1, <2>0 DEF RuleInv, CacheSound
    <3>2. CASE ~(ruleCache[t] = <<>> \/ ruleCache[t][1].left = 0)
      <4>1. ruleCache'[t] = <<[ruleCache[t][1] EXCEPT !.left = @ - 1]>>
        BY <3>2, <2>0
      <4>2. ruleCache'[t][1].ver = ruleCache[t][1].ver
        <5>1. "ver" \in DOMAIN ruleCache[t][1]
          BY <3>2 DEF RuleInv, CacheSound
        <5> QED BY <4>1, <5>1
      <4> QED BY <4>2, <3>2, <2>0 DEF RuleInv, CacheSound
    <3> QED BY <3>1, <3>2
  <2> QED BY <2>0, <2>1 DEF RuleInv, LoaderSound
<1> QED
  BY <1>a, <1>b, <1>c, <1>d, <1>e, <1>f, <1>g
     DEF RuleNext, handleSecurityPolicyCreate, handleSecurityPolicyUpdate, handleSecurityPolicyDelete

-----------------------------------------------------------------------------
(* Token buckets and blocks.  A bucket and what it admitted in a tick add up *)
(* to at most the burst; a block the detector set outlives the idle time     *)
(* after which the detector would forget it.                                 *)

Activity ==
  [declines : Nat, discovers : Nat, requests : Nat, idle : Nat, blocked : Nat,
   state : {"OK", "SUSPECT", "BLOCKED"}, ports : SUBSET Ports,
   last : {<<>>} \cup {<<p>> : p \in Ports}, changes : Int]

CheckTypes ==
  /\ tokenBuckets \in [GuardClients \cup Ports \cup Addresses -> Nat]
  /\ act \in [GuardClients -> Activity]
  /\ passed \in [GuardClients -> Nat \X Nat]
  /\ until \in [GuardClients -> Nat]

RateSound(c) ==
  /\ tokenBuckets[c] + passed[c][1] <= Burst
  /\ tokenBuckets[c] + passed[c][1] + passed[c][2] <= Burst + RatePerTick

BlockSound(c) ==
  until[c] > 0 => /\ act[c].blocked >= until[c]
                  /\ act[c].idle + until[c] <= BlockDuration

VerdictSound ==
  verdict # <<>> =>
    /\ verdict = <<[mac |-> verdict[1].mac, res |-> verdict[1].res]>>
    /\ verdict[1].mac \in GuardClients
    /\ BlockDuration <= Window /\ until[verdict[1].mac] > 0 => verdict[1].res # "ok"

CheckInv ==
  /\ CheckTypes
  /\ \A c \in GuardClients : RateSound(c)
  /\ BlockDuration <= Window => \A c \in GuardClients : BlockSound(c)
  /\ VerdictSound

LEMMA QuietType == Quiet \in Activity
BY DEF Quiet, Activity

LEMMA TouchType ==
  ASSUME NEW a \in Activity
  PROVE  /\ touchBucket(a) \in Activity /\ touchBucket(a).idle = 0
         /\ a.idle <= Window => touchBucket(a).blocked = a.blocked
BY QuietType, GuardAssumption DEF touchBucket, Activity, Quiet

LEMMA TrackType ==
  ASSUME NEW a \in Activity, a.idle = 0, NEW m
  PROVE  trackEvent(a, m) \in Activity /\ trackEvent(a, m).idle = 0
BY DEF trackEvent, Activity

LEMMA BlockType ==
  ASSUME NEW a \in Activity, a.idle = 0
  PROVE  block(a) \in Activity /\ block(a).idle = 0
BY GuardAssumption DEF block, Activity

LEMMA TopologyType ==
  ASSUME NEW a \in Activity, a.idle = 0, NEW p \in Ports
  PROVE  inspectTopology(a, p) \in Activity /\ inspectTopology(a, p).idle = 0
<1>1. PICK moved : moved = [a EXCEPT !.changes = @ + 1]
  OBVIOUS
<1>2. moved \in Activity /\ moved.idle = 0
  BY <1>1 DEF Activity
<1>3. PICK b : b = IF a.last \notin {<<>>, <<p>>} /\ a.changes <= Tolerance THEN moved ELSE a
  OBVIOUS
<1>4. b \in Activity /\ b.idle = 0
  BY <1>2, <1>3
<1>5. PICK c : c = [b EXCEPT !.last = <<p>>, !.ports = @ \cup {p}]
  OBVIOUS
<1>6. c \in Activity /\ c.idle = 0
  <2>1. <<p>> \in {<<>>} \cup {<<q>> : q \in Ports} /\ b.ports \cup {p} \in SUBSET Ports
    BY <1>4 DEF Activity
  <2> QED BY <1>4, <1>5, <2>1 DEF Activity
<1>7. inspectTopology(a, p) \in {block(b), block(c), c}
  BY <1>1, <1>3, <1>5 DEF inspectTopology
<1> QED BY <1>4, <1>6, <1>7, BlockType

LEMMA PatternsType ==
  ASSUME NEW a \in Activity, a.idle = 0
  PROVE  evaluatePatterns(a) \in Activity /\ evaluatePatterns(a).idle = 0
<1>1. [a EXCEPT !.state = "SUSPECT"] \in Activity /\ [a EXCEPT !.state = "SUSPECT"].idle = 0
  BY DEF Activity
<1>2. evaluatePatterns(a) \in {block(a), [a EXCEPT !.state = "SUSPECT"], a}
  BY DEF evaluatePatterns
<1> QED BY <1>1, <1>2, BlockType

\* An observation leaves a running block alone.
LEMMA ObserveKeeps ==
  ASSUME NEW old \in Activity, NEW m, NEW p \in Ports, NEW rogue
  PROVE  /\ Observe(old, m, p, rogue) \in Activity
         /\ Observe(old, m, p, rogue).idle = 0
         /\ (old.idle <= Window /\ old.blocked > 0) =>
               Observe(old, m, p, rogue).blocked = old.blocked
<1>1. PICK a : a = touchBucket(old)
  OBVIOUS
<1>2. a \in Activity /\ a.idle = 0 /\ (old.idle <= Window => a.blocked = old.blocked)
  BY <1>1, TouchType
<1>3. PICK b : b = inspectTopology(trackEvent(a, m), p)
  OBVIOUS
<1>4. b \in Activity /\ b.idle = 0
  BY <1>2, <1>3, TrackType, TopologyType
<1>5. Observe(old, m, p, rogue) =
        IF a.blocked > 0 THEN a ELSE IF rogue THEN block(a)
        ELSE IF b.blocked > 0 THEN b ELSE evaluatePatterns(b)
  BY <1>1, <1>3 DEF Observe
<1> QED BY <1>2, <1>4, <1>5, BlockType, PatternsType

\* What a packet names as its address.
Named(ip) == ip \in {<<>>} \cup {<<i>> : i \in Addresses}

\* The limiter's part of a check that it lets pass.
LEMMA ConsumeTypes ==
  ASSUME CheckTypes, NEW c \in GuardClients, NEW p \in Ports,
         NEW ip, Named(ip), consume(Dimensions(c, p, ip))
  PROVE  /\ tokenBuckets' \in [GuardClients \cup Ports \cup Addresses -> Nat]
         /\ \A k \in GuardClients \cup Ports \cup Addresses : tokenBuckets'[k] <= tokenBuckets[k]
         /\ Allow(Dimensions(c, p, ip)) => tokenBuckets'[c] = tokenBuckets[c] - 1
<1>0. PICK dims : dims = Dimensions(c, p, ip)
  OBVIOUS
<1>d. dims[1] = c /\ 1 \in DOMAIN dims /\ \A i \in DOMAIN dims : i \in 1..i
  <2>1. PICK s : s = ip
    OBVIOUS
  <2>2. CASE s = <<>>
    <3>1. dims = <<c, p>>
      BY <2>1, <2>2, <1>0 DEF Dimensions
    <3> QED BY <3>1
  <2>3. CASE \E i \in Addresses : s = <<i>>
    <3>1. PICK i \in Addresses : s = <<i>>
      BY <2>3
    <3>2. s # <<>> /\ s[1] = i
      BY <3>1
    <3>3. dims = <<c, p, s[1]>>
      BY <2>1, <3>2, <1>0 DEF Dimensions
    <3> QED BY <3>3
  <2> QED BY <2>1, <2>2, <2>3 DEF Named
<1>1. ASSUME NEW k \in GuardClients \cup Ports \cup Addresses
      PROVE  /\ tokenBuckets'[k] \in Nat /\ tokenBuckets'[k] <= tokenBuckets[k]
             /\ (Allow(dims) /\ k = c) => tokenBuckets'[k] = tokenBuckets[k] - 1
  <2> DEFINE taken == \E i \in DOMAIN dims :
                        dims[i] = k /\ \A j \in 1..i : tokenBuckets[dims[j]] >= 1
  <2>1. tokenBuckets[k] \in Nat
    BY <1>1 DEF CheckTypes
  <2>2. tokenBuckets'[k] = IF taken THEN tokenBuckets[k] - 1 ELSE tokenBuckets[k]
    BY <1>0, <1>1 DEF CheckTypes, consume
  <2>3. taken => tokenBuckets[k] >= 1
    BY <1>d
  <2>4. Allow(dims) /\ k = c => taken
    <3>1. ASSUME Allow(dims), k = c
          PROVE  dims[1] = k /\ \A j \in 1..1 : tokenBuckets[dims[j]] >= 1
      BY <1>d, <3>1 DEF Allow
    <3> QED BY <1>d, <3>1
  <2> HIDE DEF taken
  <2> QED BY <2>1, <2>2, <2>3, <2>4
<1>2. tokenBuckets' = [k \in GuardClients \cup Ports \cup Addresses |-> tokenBuckets'[k]]
  BY DEF CheckTypes, consume
<1> QED BY <1>0, <1>1, <1>2

LEMMA CheckKept ==
  ASSUME CheckInv, NEW c \in GuardClients, NEW m, NEW p \in Ports,
         NEW ip, Named(ip), NEW rogue,
         Check(c, m, p, ip, rogue)
  PROVE  CheckInv'
<1> DEFINE dims == Dimensions(c, p, ip)
<1> USE GuardAssumption
<1>0. PICK a : a = Observe(act[c], m, p, rogue)
  OBVIOUS
<1>1. act[c] \in Activity /\ CheckTypes
  BY DEF CheckInv, CheckTypes
<1>2. /\ a \in Activity /\ a.idle = 0
      /\ (act[c].idle <= Window /\ act[c].blocked > 0) => a.blocked = act[c].blocked
  BY <1>0, <1>1, ObserveKeeps
<1>a. CASE /\ verdict' = <<[mac |-> c, res |-> "untrusted"]>>
           /\ UNCHANGED <<tokenBuckets, act, passed, until, posture>>
  <2>1. VerdictSound'
    BY <1>a DEF VerdictSound
  <2> QED BY <1>a, <2>1 DEF CheckInv, CheckTypes, RateSound, BlockSound
<1>b. CASE /\ consume(dims) /\ verdict' = <<[mac |-> c, res |-> "limited"]>>
           /\ UNCHANGED <<act, passed, until, posture>>
  <2>1. VerdictSound'
    BY <1>b DEF VerdictSound
  <2>2. /\ tokenBuckets' \in [GuardClients \cup Ports \cup Addresses -> Nat]
        /\ \A k \in GuardClients \cup Ports \cup Addresses : tokenBuckets'[k] <= tokenBuckets[k]
    BY <1>1, <1>b, ConsumeTypes
  <2>3. CheckTypes'
    BY <1>1, <1>b, <2>2 DEF CheckTypes
  <2>4. ASSUME NEW d \in GuardClients PROVE RateSound(d)'
    <3>1. /\ tokenBuckets[d] \in Nat /\ tokenBuckets'[d] \in Nat
          /\ tokenBuckets'[d] <= tokenBuckets[d]
          /\ passed[d][1] \in Nat /\ passed[d][2] \in Nat /\ RateSound(d)
      BY <1>1, <2>2 DEF CheckTypes, CheckInv
    <3> QED BY <3>1, <1>b DEF RateSound
  <2> QED BY <1>b, <2>1, <2>3, <2>4 DEF CheckInv, BlockSound
<1>c. CASE /\ Allow(dims) /\ consume(dims)
           /\ passed' = [passed EXCEPT ![c][1] = passed[c][1] + 1]
           /\ act' = [act EXCEPT ![c] = a]
           /\ verdict' = <<[mac |-> c, res |-> IF a.blocked > 0 THEN "blocked" ELSE "ok"]>>
           /\ until' = [until EXCEPT ![c] =
                IF a.blocked = BlockDuration /\ act[c].blocked < BlockDuration
                THEN BlockDuration ELSE until[c]]
  <2>2. /\ tokenBuckets' \in [GuardClients \cup Ports \cup Addresses -> Nat]
        /\ \A k \in GuardClients \cup Ports \cup Addresses : tokenBuckets'[k] <= tokenBuckets[k]
        /\ tokenBuckets'[c] = tokenBuckets[c] - 1
    BY <1>1, <1>c, ConsumeTypes
  <2>3. /\ passed' \in [GuardClients -> Nat \X Nat]
        /\ passed'[c][1] = passed[c][1] + 1 /\ passed'[c][2] = passed[c][2]
        /\ \A d \in GuardClients \ {c} : passed'[d] = passed[d]
    <3>0. passed[c] \in Nat \X Nat /\ passed \in [GuardClients -> Nat \X Nat]
      BY <1>1 DEF CheckTypes
    <3>1. PICK q : q = [passed[c] EXCEPT ![1] = passed[c][1] + 1]
      OBVIOUS
    <3>2. q \in Nat \X Nat /\ q[1] = passed[c][1] + 1 /\ q[2] = passed[c][2]
      BY <3>0, <3>1
    <3>3. passed' = [passed EXCEPT ![c] = q]
      BY <1>c, <3>1
    <3> QED BY <3>0, <3>2, <3>3
  <2>4. CheckTypes'
    <3>1. act' \in [GuardClients -> Activity]
      BY <1>c, <1>1, <1>2 DEF CheckTypes
    <3>2. until' \in [GuardClients -> Nat]
      BY <1>c, <1>1 DEF CheckTypes
    <3> QED BY <2>2, <2>3, <3>1, <3>2 DEF CheckTypes
  <2>5. ASSUME NEW d \in GuardClients PROVE RateSound(d)'
    <3>1. /\ tokenBuckets[d] \in Nat /\ tokenBuckets'[d] \in Nat
          /\ tokenBuckets'[d] <= tokenBuckets[d]
          /\ passed[d][1] \in Nat /\ passed[d][2] \in Nat /\ RateSound(d)
      BY <1>1, <2>2 DEF CheckTypes, CheckInv
    <3>2. CASE d = c
      BY <3>1, <3>2, <2>2, <2>3 DEF RateSound
    <3>3. CASE d # c
      BY <3>1, <3>3, <2>3 DEF RateSound
    <3> QED BY <3>2, <3>3
  <2>6. ASSUME BlockDuration <= Window
        PROVE  BlockSound(c)' /\ (until'[c] > 0 => a.blocked > 0)
    <3>1. /\ act'[c] = a /\ until[c] \in Nat /\ act[c].blocked \in Nat
          /\ act[c].idle \in Nat /\ a.blocked \in Nat
          /\ until'[c] = IF a.blocked = BlockDuration /\ act[c].blocked < BlockDuration
                         THEN BlockDuration ELSE until[c]
      BY <1>c, <1>1, <1>2 DEF CheckTypes, Activity
    <3>2. until[c] > 0 => /\ act[c].blocked >= until[c]
                          /\ act[c].idle + until[c] <= BlockDuration
      BY <2>6 DEF CheckInv, BlockSound
    <3>3. Window \in Nat /\ BlockDuration \in Nat
      OBVIOUS
    <3>4. until[c] > 0 => a.blocked = act[c].blocked
      BY <1>2, <2>6, <3>1, <3>2, <3>3
    <3> QED BY <1>2, <3>1, <3>2, <3>3, <3>4 DEF BlockSound
  <2>7. ASSUME BlockDuration <= Window, NEW d \in GuardClients PROVE BlockSound(d)'
    <3>1. CASE d = c
      BY <2>6, <2>7, <3>1
    <3>2. CASE d # c
      <4>1. act'[d] = act[d] /\ until'[d] = until[d]
        BY <3>2, <1>c, <1>1 DEF CheckTypes
      <4> QED BY <4>1, <2>7 DEF CheckInv, BlockSound
    <3> QED BY <3>1, <3>2
  <2>8. VerdictSound'
    <3>1. verdict'[1].mac = c /\ verdict'[1].res = IF a.blocked > 0 THEN "blocked" ELSE "ok"
      BY <1>c
    <3>2. verdict' = <<[mac |-> verdict'[1].mac, res |-> verdict'[1].res]>>
      BY <1>c, <3>1
    <3> QED BY <3>1, <3>2, <2>6 DEF VerdictSound
  <2> QED BY <2>4, <2>5, <2>7, <2>8 DEF CheckInv
<1>3. \/ /\ verdict' = <<[mac |-> c, res |-> "untrusted"]>>
         /\ UNCHANGED <<tokenBuckets, act, passed, until, posture>>
      \/ /\ consume(dims) /\ verdict' = <<[mac |-> c, res |-> "limited"]>>
         /\ UNCHANGED <<act, passed, until, posture>>
      \/ /\ Allow(dims) /\ consume(dims)
         /\ passed' = [passed EXCEPT ![c][1] = passed[c][1] + 1]
         /\ act' = [act EXCEPT ![c] = a]
         /\ verdict' = <<[mac |-> c, res |-> IF a.blocked > 0 THEN "blocked" ELSE "ok"]>>
         /\ until' = [until EXCEPT ![c] =
              IF a.blocked = BlockDuration /\ act[c].blocked < BlockDuration
              THEN BlockDuration ELSE until[c]]
  BY <1>0 DEF Check
<1> QED BY <1>3, <1>a, <1>b, <1>c

LEMMA TickKept ==
  ASSUME CheckInv, CheckTick
  PROVE  CheckInv'
<1> USE GuardAssumption
<1>1. CheckTypes
  BY DEF CheckInv
<1>2. ASSUME NEW k \in GuardClients \cup Ports \cup Addresses
      PROVE  /\ tokenBuckets'[k] \in Nat /\ tokenBuckets'[k] <= tokenBuckets[k] + RatePerTick
             /\ tokenBuckets'[k] <= Burst
  <2>1. tokenBuckets[k] \in Nat /\ tokenBuckets'[k] = Refilled(tokenBuckets[k])
    BY <1>1 DEF CheckTypes, CheckTick
  <2> QED BY <2>1 DEF Refilled
<1>3. ASSUME NEW d \in GuardClients
      PROVE  /\ act'[d] \in Activity
             /\ act'[d].blocked = IF act[d].blocked = 0 THEN 0 ELSE act[d].blocked - 1
             /\ act'[d].idle = IF act[d].idle > Window THEN act[d].idle ELSE act[d].idle + 1
             /\ act[d].blocked \in Nat /\ act[d].idle \in Nat
             /\ until[d] \in Nat /\ until'[d] = IF until[d] = 0 THEN 0 ELSE until[d] - 1
             /\ passed'[d] = <<0, passed[d][1]>> /\ passed[d][1] \in Nat
  <2>1. act[d] \in Activity /\ until[d] \in Nat /\ passed[d] \in Nat \X Nat
    BY <1>1 DEF CheckTypes
  <2>2. act[d].blocked \in Nat /\ act[d].idle \in Nat
    BY <2>1 DEF Activity
  <2>3. act'[d] = [act[d] EXCEPT
           !.idle = IF act[d].idle > Window THEN act[d].idle ELSE act[d].idle + 1,
           !.blocked = IF act[d].blocked = 0 THEN 0 ELSE act[d].blocked - 1]
    BY DEF CheckTick
  <2>4. /\ act'[d] \in Activity
        /\ act'[d].blocked = IF act[d].blocked = 0 THEN 0 ELSE act[d].blocked - 1
        /\ act'[d].idle = IF act[d].idle > Window THEN act[d].idle ELSE act[d].idle + 1
    <3>1. PICK i \in Nat : i = IF act[d].idle > Window THEN act[d].idle ELSE act[d].idle + 1
      BY <2>2
    <3>2. PICK b \in Nat : b = IF act[d].blocked = 0 THEN 0 ELSE act[d].blocked - 1
      BY <2>2
    <3>3. act'[d] = [act[d] EXCEPT !.idle = i, !.blocked = b]
      BY <2>3, <3>1, <3>2
    <3>4. act'[d] \in Activity /\ act'[d].idle = i /\ act'[d].blocked = b
      BY <2>1, <3>3 DEF Activity
    <3> QED BY <3>1, <3>2, <3>4
  <2>5. until'[d] = (IF until[d] = 0 THEN 0 ELSE until[d] - 1) /\ passed'[d] = <<0, passed[d][1]>>
    BY DEF CheckTick
  <2> QED BY <2>1, <2>2, <2>4, <2>5
<1>4. CheckTypes'
  <2>1. tokenBuckets' = [k \in GuardClients \cup Ports \cup Addresses |-> tokenBuckets'[k]]
    BY <1>1 DEF CheckTypes, CheckTick
  <2>2. tokenBuckets' \in [GuardClients \cup Ports \cup Addresses -> Nat]
    BY <1>2, <2>1
  <2>3. act' = [d \in GuardClients |-> act'[d]] /\ until' = [d \in GuardClients |-> until'[d]]
        /\ passed' = [d \in GuardClients |-> passed'[d]]
    BY DEF CheckTick
  <2>4. act' \in [GuardClients -> Activity]
    BY <1>3, <2>3
  <2>5. until' \in [GuardClients -> Nat]
    BY <1>3, <2>3
  <2>6. passed' \in [GuardClients -> Nat \X Nat]
    <3>1. ASSUME NEW d \in GuardClients PROVE passed'[d] \in Nat \X Nat
      <4>1. passed'[d] = <<0, passed[d][1]>> /\ passed[d][1] \in Nat
        BY <1>3
      <4> QED BY <4>1
    <3> QED BY <3>1, <2>3
  <2> QED BY <2>2, <2>4, <2>5, <2>6 DEF CheckTypes
<1>5. ASSUME NEW d \in GuardClients PROVE RateSound(d)'
  <2>1. tokenBuckets[d] \in Nat /\ tokenBuckets[d] + passed[d][1] <= Burst
    BY <1>1 DEF CheckInv, CheckTypes, RateSound
  <2>2. passed'[d][1] = 0 /\ passed'[d][2] = passed[d][1] /\ passed[d][1] \in Nat
    BY <1>3
  <2>3. /\ tokenBuckets'[d] \in Nat /\ tokenBuckets'[d] <= tokenBuckets[d] + RatePerTick
        /\ tokenBuckets'[d] <= Burst
    BY <1>2
  <2> QED BY <2>1, <2>2, <2>3 DEF RateSound
<1>6. ASSUME BlockDuration <= Window, NEW d \in GuardClients PROVE BlockSound(d)'
  <2>1. until[d] > 0 => act[d].blocked >= until[d] /\ act[d].idle + until[d] <= BlockDuration
    BY <1>6 DEF CheckInv, BlockSound
  <2> QED BY <2>1, <1>3, <1>6 DEF BlockSound
<1>7. VerdictSound'
  BY DEF CheckTick, VerdictSound
<1> QED BY <1>4, <1>5, <1>6, <1>7 DEF CheckInv

LEMMA ChecksStart ==
  ASSUME CheckInit
  PROVE  CheckInv
<1> USE GuardAssumption
<1>1. CheckTypes
  BY QuietType DEF CheckInit, CheckTypes
<1>2. \A c \in GuardClients : RateSound(c)
  BY DEF CheckInit, RateSound
<1>3. \A c \in GuardClients : BlockSound(c)
  BY DEF CheckInit, BlockSound
<1> QED BY <1>1, <1>2, <1>3 DEF CheckInit, CheckInv, VerdictSound

-----------------------------------------------------------------------------
LEMMA GuardKept ==
  ASSUME RuleInv, CheckInv, [GuardNext]_<<listVars, ruleVars, checkVars>>
  PROVE  RuleInv' /\ CheckInv'
<1>1. RuleNext \/ UNCHANGED ruleVars
  BY DEF GuardNext
<1>2. CheckNext \/ UNCHANGED checkVars
  BY DEF GuardNext
<1>3. RuleInv'
  <2>1. CASE UNCHANGED ruleVars
    BY <2>1 DEF ruleVars, RuleInv, LoaderSound, CacheSound
  <2> QED BY <2>1, <1>1, RuleKept
<1>4. CheckInv'
  <2>1. CASE UNCHANGED checkVars
    BY <2>1 DEF checkVars, CheckInv, CheckTypes, RateSound, BlockSound, VerdictSound
  <2>2. CASE CheckNext
    BY <2>2, CheckKept, TickKept DEF CheckNext, Named
  <2> QED BY <2>1, <2>2, <1>2
<1> QED BY <1>3, <1>4

LEMMA GuardFromInv ==
  ASSUME RuleInv, CheckInv
  PROVE  GuardHolds
<1>1. RulesFresh
  BY DEF RulesFresh, RuleInv, CacheSound
<1>2. RateBounded
  <2>1. ASSUME NEW c \in GuardClients
        PROVE  passed[c][1] + passed[c][2] <= Burst + RatePerTick
    <3>1. /\ tokenBuckets[c] \in Nat /\ passed[c][1] \in Nat /\ passed[c][2] \in Nat
          /\ RateSound(c)
      BY DEF CheckInv, CheckTypes
    <3> QED BY <3>1, GuardAssumption DEF RateSound
  <2> QED BY <2>1 DEF RateBounded
<1>3. BlockHolds
  <2> SUFFICES ASSUME BlockDuration <= Window, NEW i \in DOMAIN verdict,
                      until[verdict[i].mac] > 0
               PROVE  verdict[i].res # "ok"
    BY DEF BlockHolds
  <2>1. CASE verdict = <<>>
    BY <2>1
  <2>2. CASE verdict # <<>>
    <3>1. PICK r : verdict = <<r>>
      BY <2>2 DEF CheckInv, VerdictSound
    <3>2. i = 1
      BY <3>1
    <3> QED BY <3>2, <2>2 DEF CheckInv, VerdictSound
  <2> QED BY <2>1, <2>2
<1> QED BY <1>1, <1>2, <1>3 DEF GuardHolds

(* What the guard keeps in memory holds for every packet and every edit: rules
   no older than the tenant's last finished edit (loadRules and Invalidate take
   one lock), no more packets than the bucket and its refill, and no packet of a
   blocked client while the window outlasts the block
   (security/policy/evaluator.go, ratelimit/token_bucket.go,
   detector/simple_detector.go). *)
THEOREM GuardSound == GuardSpec => []GuardHolds
<1>1. GuardInit => RuleInv /\ CheckInv
  <2>1. RuleInit => RuleInv
    BY DEF RuleInit, RuleInv, LoaderSound, CacheSound
  <2> QED BY <2>1, ChecksStart DEF GuardInit
<1>2. RuleInv /\ CheckInv /\ [GuardNext]_<<listVars, ruleVars, checkVars>> => RuleInv' /\ CheckInv'
  BY GuardKept
<1>3. RuleInv /\ CheckInv => GuardHolds
  BY GuardFromInv
<1> QED BY <1>1, <1>2, <1>3, PTL DEF GuardSpec
=============================================================================
