------------------------------- MODULE OpsJobs -------------------------------
(***************************************************************************)
(* The operations service (internal/ops): scripts that may need approval   *)
(* (script_runner.go), import and export jobs (import_export.go) and the   *)
(* platform settings (service.go, settings_store.go), with the HTTP        *)
(* handlers that call them.  The three parts share no state: each has its  *)
(* own initial predicate and next-state relation.                          *)
(***************************************************************************)
EXTENDS Naturals, FiniteSets, SequencesExt

CONSTANTS Runs, Gated, MaxConcurrent, HistorySize,      \* scripts
          Jobs, QueueSize, HistoryLimit,                \* transfers
          Admins, Fields, Values, MaxUpdates, None      \* settings

ASSUME OpsAssumption ==
  /\ Gated \subseteq Runs
  /\ MaxConcurrent \in Nat \ {0} /\ HistorySize \in Nat \ {0}
  /\ QueueSize \in Nat \ {0} /\ HistoryLimit \in Nat \ {0}
  /\ None \notin Admins /\ None \notin {"default", "pending_approval"}

VARIABLES
  runs,      \* status of a script run whose record is kept, None without one
  order,     \* kept runs, newest first
  owed,      \* runs whose caller has yet to trigger the execution
  waiting,   \* goroutines waiting for a slot
  executing, \* goroutines running the command
  execs,     \* how often a run's command was started
  rulings    \* what an administrator was told of a run
scriptVars == <<runs, order, owed, waiting, executing, execs, rulings>>

(* Newest first; what falls off the end loses its record. *)
Push(x, seq, limit) ==
  LET all == <<x>> \o seq
  IN SubSeq(all, 1, IF Len(all) > limit THEN limit ELSE Len(all))
OnlyKept(f, seq) == [x \in DOMAIN f |-> IF x \in Range(seq) THEN f[x] ELSE None]

storeRun(r, status) ==
  LET o == Push(r, order, HistorySize)
  IN order' = o /\ runs' = OnlyKept([runs EXCEPT ![r] = status], o)
updateRun(r, status) ==
  runs' = IF runs[r] = None THEN runs ELSE [runs EXCEPT ![r] = status]

(* A run is stored; without need for approval its execution is triggered. *)
Start(r) ==
  /\ r \notin Range(order) /\ execs[r] = 0 /\ rulings[r] = {} /\ r \notin owed \cup waiting
  /\ storeRun(r, IF r \in Gated THEN "pending_approval" ELSE "pending")
  /\ owed' = IF r \in Gated THEN owed ELSE owed \cup {r}
  /\ UNCHANGED <<waiting, executing, execs, rulings>>

(* The record is looked up again: one that history dropped is not executed. *)
triggerExecution(r) ==
  /\ r \in owed
  /\ owed' = owed \ {r}
  /\ waiting' = IF runs[r] = None THEN waiting ELSE waiting \cup {r}
  /\ UNCHANGED <<runs, order, executing, execs, rulings>>

Decide(r, answer) == rulings' = [rulings EXCEPT ![r] = @ \cup {answer}]

(* A plausible slip: only the script's need for approval is checked. *)
Approve_AnyStatus(r) ==
  /\ r \in Gated /\ runs[r] # None
  /\ updateRun(r, "pending") /\ Decide(r, "approved")
  /\ owed' = owed \cup {r}
  /\ UNCHANGED <<order, waiting, executing, execs>>

(* Approval and rejection test and set the status under one lock; the trigger
   follows once the lock is released. *)
Approve(r) ==
  /\ r \in Gated /\ runs[r] = "pending_approval"
  /\ updateRun(r, "pending") /\ Decide(r, "approved")
  /\ owed' = owed \cup {r}
  /\ UNCHANGED <<order, waiting, executing, execs>>
Reject(r) ==
  /\ r \in Gated /\ runs[r] = "pending_approval"
  /\ updateRun(r, "rejected") /\ Decide(r, "rejected")
  /\ UNCHANGED <<order, owed, waiting, executing, execs>>

(* A slot, the status "running", the command, the outcome. *)
execute(r) ==
  /\ r \in waiting /\ Cardinality(executing) < MaxConcurrent
  /\ waiting' = waiting \ {r} /\ executing' = executing \cup {r}
  /\ execs' = [execs EXCEPT ![r] = @ + 1]
  /\ updateRun(r, "running")
  /\ UNCHANGED <<order, owed, rulings>>
executed(r, ok) ==
  /\ r \in executing
  /\ executing' = executing \ {r}
  /\ updateRun(r, IF ok THEN "succeeded" ELSE "failed")
  /\ UNCHANGED <<order, owed, waiting, execs, rulings>>

handleOpsStartScriptRun(r)   == Start(r)
handleOpsApproveScriptRun(r) == Approve(r)
handleOpsRejectScriptRun(r)  == Reject(r)

ScriptInit ==
  /\ runs = [r \in Runs |-> None] /\ order = <<>> /\ owed = {} /\ waiting = {}
  /\ executing = {} /\ execs = [r \in Runs |-> 0] /\ rulings = [r \in Runs |-> {}]
ScriptNext == \E r \in Runs :
  \/ handleOpsStartScriptRun(r) \/ triggerExecution(r)
  \/ handleOpsApproveScriptRun(r) \/ handleOpsRejectScriptRun(r)
  \/ execute(r) \/ \E ok \in BOOLEAN : executed(r, ok)

(* However administrators race, a script that needs approval runs only if it was
   approved, no run is both approved and rejected, and no command starts twice. *)
ScriptOnce == \A r \in Runs :
  /\ execs[r] <= 1
  /\ r \in Gated /\ execs[r] > 0 => rulings[r] = {"approved"}
  /\ Cardinality(rulings[r]) <= 1

-----------------------------------------------------------------------------
VARIABLES
  transferJobs,   \* status of a transfer job whose record is kept, None without one
  joborder,       \* kept jobs, newest first
  callers,        \* requests waiting to hand their job to the queue
  queue,          \* the channel
  transferWorker, \* the job the single worker runs, or None
  accepted        \* jobs whose caller was answered 202
transferVars == <<transferJobs, joborder, callers, queue, transferWorker, accepted>>

storeJob(j) ==
  LET o == Push(j, joborder, HistoryLimit)
  IN joborder' = o /\ transferJobs' = OnlyKept([transferJobs EXCEPT ![j] = "pending"], o)
updateJob(j, status) ==
  transferJobs' = IF transferJobs[j] = None THEN transferJobs ELSE [transferJobs EXCEPT ![j] = status]

(* The job is stored before it is queued: a caller that gives up while the queue
   is full leaves a record no worker will touch. *)
StartTransfer(j) ==
  /\ j \notin Range(joborder) \cup callers \cup accepted
  /\ storeJob(j)
  /\ callers' = callers \cup {j}
  /\ UNCHANGED <<queue, transferWorker, accepted>>
EnqueueTransfer(j) ==
  /\ j \in callers /\ Len(queue) < QueueSize
  /\ queue' = Append(queue, j)
  /\ callers' = callers \ {j} /\ accepted' = accepted \cup {j}
  /\ UNCHANGED <<transferJobs, joborder, transferWorker>>
GiveUp(j) ==
  /\ j \in callers
  /\ callers' = callers \ {j}
  /\ UNCHANGED <<transferJobs, joborder, queue, transferWorker, accepted>>
handleOpsCreateTransferJob(j) == StartTransfer(j)

Dequeue ==
  /\ transferWorker = None /\ queue # <<>>
  /\ transferWorker' = Head(queue) /\ queue' = Tail(queue)
  /\ updateJob(Head(queue), "running")
  /\ UNCHANGED <<joborder, callers, accepted>>

(* A plausible slip: an error returns before the outcome is stored. *)
run_EarlyReturn(j, ok) ==
  /\ transferWorker = j
  /\ IF ok THEN updateJob(j, "succeeded") ELSE UNCHANGED transferJobs
  /\ transferWorker' = None
  /\ UNCHANGED <<joborder, callers, queue, accepted>>

(* A failed file operation (generateExport, applyImport) fails the job.  Without
   a record there is nothing to run and nothing to update. *)
Outcome(j, ok) == IF ok THEN "succeeded" ELSE "failed"
run(j, ok) ==
  /\ transferWorker = j
  /\ updateJob(j, Outcome(j, ok))
  /\ transferWorker' = None
  /\ UNCHANGED <<joborder, callers, queue, accepted>>

TransferInit ==
  /\ transferJobs = [j \in Jobs |-> None] /\ joborder = <<>> /\ callers = {}
  /\ queue = <<>> /\ transferWorker = None /\ accepted = {}
TransferNext ==
  \/ \E j \in Jobs : handleOpsCreateTransferJob(j) \/ EnqueueTransfer(j) \/ GiveUp(j)
  \/ Dequeue
  \/ \E j \in Jobs, ok \in BOOLEAN : run(j, ok)

-----------------------------------------------------------------------------
VARIABLES
  stored,   \* the row of ops_system_settings; a field may be empty (None)
  cache,    \* settingsCache, or None until it is loaded
  holder,   \* who holds settingsMu, or None
  loaded,   \* what the holder read
  adminCall, \* the update a waiting administrator sent
  intended, \* per field, the value last saved on an administrator's wish
  updates
settingVars == <<stored, cache, holder, loaded, adminCall, intended, updates>>

(* An empty field reads as its default. *)
mergeDefaults(s) == [f \in Fields |-> IF s[f] = None THEN "default" ELSE s[f]]

(* CurrentSettings fills the cache once, under the lock. *)
CurrentSettings ==
  /\ cache = None /\ holder = None
  /\ cache' = mergeDefaults(stored)
  /\ UNCHANGED <<stored, holder, loaded, adminCall, intended, updates>>

(* A request to change one field; "sync" asks for an NTP probe instead. *)
applyOpsSettingsMutation(a, f, v) ==
  /\ adminCall[a] = None /\ updates < MaxUpdates
  /\ adminCall' = [adminCall EXCEPT ![a] = [f |-> f, v |-> v]]
  /\ updates' = updates + 1
  /\ UNCHANGED <<stored, cache, holder, loaded, intended>>
handleOpsSyncNTP(a, v) ==
  /\ adminCall[a] = None /\ updates < MaxUpdates
  /\ adminCall' = [adminCall EXCEPT ![a] = [f |-> "ntp", v |-> v]]
  /\ updates' = updates + 1
  /\ UNCHANGED <<stored, cache, holder, loaded, intended>>

(* A plausible change: the probe, which can take seconds, runs without the lock. *)
TakeLock_NotForProbe(a) ==
  /\ adminCall[a] # None /\ loaded[a] = None
  /\ holder = None
  /\ holder' = IF adminCall[a].f = "ntp" THEN None ELSE a
  /\ loaded' = [loaded EXCEPT ![a] = mergeDefaults(stored)]
  /\ UNCHANGED <<stored, cache, adminCall, intended, updates>>

(* UpdateSettings and SyncNTP: lock, load, then the change or the probes, and one
   save of the whole row, the lock held throughout. *)
TakeLock(a) ==
  /\ adminCall[a] # None /\ loaded[a] = None
  /\ holder = None
  /\ holder' = a
  /\ loaded' = [loaded EXCEPT ![a] = mergeDefaults(stored)]
  /\ UNCHANGED <<stored, cache, adminCall, intended, updates>>

Done(a) ==
  /\ holder' = IF holder = a THEN None ELSE holder
  /\ loaded' = [loaded EXCEPT ![a] = None]
  /\ adminCall' = [adminCall EXCEPT ![a] = None]
  /\ UNCHANGED updates

(* A blank value asks for the default. *)
Changed(a) == mergeDefaults([loaded[a] EXCEPT ![adminCall[a].f] = adminCall[a].v])
Same(a) == Changed(a) = loaded[a]
Save(row) == stored' = row /\ cache' = mergeDefaults(row)

(* An update that changes nothing only fills the cache; a failed save changes
   nothing. *)
UpdateSettings(a) ==
  /\ holder = a /\ loaded[a] # None /\ adminCall[a].f # "ntp"
  /\ \/ /\ Same(a)
        /\ cache' = loaded[a]
        /\ UNCHANGED stored
     \/ ~Same(a) /\ Save(Changed(a))
  /\ intended' = [intended EXCEPT ![adminCall[a].f] = adminCall[a].v]
  /\ Done(a)
SyncNTP(a) ==
  /\ loaded[a] # None /\ adminCall[a].f = "ntp"
  /\ Save(Changed(a))
  /\ intended' = [intended EXCEPT !["ntp"] = adminCall[a].v]
  /\ Done(a)
SaveFails(a) ==
  /\ loaded[a] # None
  /\ Done(a)
  /\ UNCHANGED <<stored, cache, intended>>

SettingInit ==
  /\ stored = [f \in Fields |-> None] /\ cache = None /\ holder = None
  /\ loaded = [a \in Admins |-> None] /\ adminCall = [a \in Admins |-> None]
  /\ intended = stored /\ updates = 0
SettingNext ==
  \/ CurrentSettings
  \/ \E a \in Admins :
       \/ \E f \in Fields \ {"ntp"}, v \in Values \cup {None} : applyOpsSettingsMutation(a, f, v)
       \/ \E v \in Values : handleOpsSyncNTP(a, v)
       \/ TakeLock(a) \/ UpdateSettings(a) \/ SyncNTP(a) \/ SaveFails(a)

(* A field keeps, in the row and in the cache every request is answered from, the
   value last saved for it: partial updates and the NTP probe each write the whole
   row, and none takes back what another saved meanwhile. *)
SettingsKept ==
  /\ mergeDefaults(stored) = mergeDefaults(intended)
  /\ cache # None => cache = mergeDefaults(stored)

OpsVars == <<scriptVars, transferVars, settingVars>>

(* The three parts side by side. *)
OpsInit == ScriptInit /\ TransferInit /\ SettingInit
OpsNext ==
  \/ ScriptNext /\ UNCHANGED <<transferVars, settingVars>>
  \/ TransferNext /\ UNCHANGED <<scriptVars, settingVars>>
  \/ SettingNext /\ UNCHANGED <<scriptVars, transferVars>>
OpsSpec == OpsInit /\ [][OpsNext]_OpsVars

(* What administrators who act at once may not break (ops/service.go). *)
OpsSound == ScriptOnce /\ SettingsKept
=============================================================================
