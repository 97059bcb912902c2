-------------------------------- MODULE SyncTx --------------------------------
(***************************************************************************)
(* Sync transactions between the two partners (internal/server:            *)
(* feature_routes.go, cluster_sync_transport.go and                        *)
(* sync_transactions_reconciler.go).  An API call starts a transaction or  *)
(* restarts one; its goroutine exchanges PREPARE and COMMIT with the       *)
(* partner over one TCP connection and records the outcome.  The newest    *)
(* transactions are kept in an active list, older ones in an archive; both *)
(* are written to the configuration store, one after the other, by every   *)
(* change and periodically by the reconciler.                              *)
(*                                                                         *)
(* Transactions are numbered in the order they are appended.  The time     *)
(* based retention is off, as it is by default.                            *)
(***************************************************************************)
EXTENDS Integers, Sequences, FiniteSets

CONSTANTS
  Syncs,           \* API calls, each with the goroutine it starts
  MaxEntries,      \* syncTxnMaxEntries
  ArchiveLimit,    \* syncTxnArchiveLimit
  MaxStoreFaults,  \* bound: failed writes
  MaxTxRestarts    \* bound: restarts of the server

ASSUME SyncAssumption ==
  /\ MaxEntries \in Nat \ {0} /\ ArchiveLimit \in Nat \ {0}
  /\ MaxStoreFaults \in Nat /\ MaxTxRestarts \in Nat

VARIABLES
  txs,        \* the two lists in memory
  txStored,   \* the two lists in the store
  txLog,      \* history: number of transactions appended
  syncs,      \* per call: where it is
  conns,      \* per call: its connection, seen from the partner
  partner,    \* history: transactions whose COMMIT the partner accepted
  faults,
  txRestarts

syncVars == <<txs, txStored, txLog, syncs, conns, partner, faults, txRestarts>>

Reconciler == "reconciler"
Writers    == Syncs \cup {Reconciler}
Lists      == [active |-> <<>>, archive |-> <<>>]

\* An API call that has not come, and a goroutine that is done.
Idle(pc) == [pc |-> pc, tx |-> 0, copy |-> <<>>, then |-> "none"]

Tx(n, phase) == [id |-> n, phase |-> phase]

\* One transaction, of an earlier life of the server, is in the archive.
SyncOff == [w \in Writers |-> Idle("idle")]

SyncInitWith(off) ==
  /\ txs = [active |-> <<>>, archive |-> <<Tx(1, "committed")>>]
  /\ txStored = txs
  /\ txLog = 1
  /\ syncs = off
  /\ conns = [w \in Syncs |-> "none"]
  /\ partner = {1}
  /\ faults = 0 /\ txRestarts = 0

SyncInit == SyncInitWith(SyncOff)

-----------------------------------------------------------------------------
(* The lists.                                                              *)

Head0(s, n) == SubSeq(s, 1, IF Len(s) < n THEN Len(s) ELSE n)

\* The dropped go behind what the archive holds.
applySyncTransactionsPolicy_Behind(lists) ==
  LET kept    == Head0(lists.active, MaxEntries)
      dropped == SubSeq(lists.active, MaxEntries + 1, Len(lists.active))
  IN  [active |-> kept, archive |-> Head0(lists.archive \o dropped, ArchiveLimit)]

\* applySyncTransactionsPolicyLocked: what exceeds the active list moves to
\* the front of the archive, what exceeds the archive is forgotten.
applySyncTransactionsPolicy(lists) ==
  LET kept    == Head0(lists.active, MaxEntries)
      dropped == SubSeq(lists.active, MaxEntries + 1, Len(lists.active))
  IN  [active |-> kept, archive |-> Head0(dropped \o lists.archive, ArchiveLimit)]

Ids(list)      == {list[i].id : i \in DOMAIN list}
syncTransactionByID(n) == n \in Ids(txs.active)

\* sanitizeSyncTransactions: the first of several entries with one id stays.
sanitizeSyncTransactions(list) ==
  LET first == {i \in DOMAIN list : \A j \in 1..(i - 1) : list[j].id # list[i].id}
      pos[k \in 0..Len(list)] ==
        IF k = 0 THEN <<>> ELSE IF k \in first THEN Append(pos[k - 1], list[k]) ELSE pos[k - 1]
  IN  pos[Len(list)]

\* The phase of an entry is set, if the active list still has it.
SetPhase(n, phase) ==
  applySyncTransactionsPolicy(
    [txs EXCEPT !.active = [i \in DOMAIN @ |-> IF @[i].id = n THEN Tx(n, phase) ELSE @[i]]])

-----------------------------------------------------------------------------
(* persistSyncTransactionsErr: the active list is copied and saved, then   *)
(* the archive; an error of the first leaves out the second.  A copy is    *)
(* taken with the step before its write: later ones hold no more than the  *)
(* copy of another writer does.                                            *)

At(w, label) == syncs[w].pc = label
To(w, label) == syncs' = [syncs EXCEPT ![w].pc = label]

\* snapshotSyncTransactions, after the lists were changed.
PersistThen(w, n, label) ==
  syncs' = [syncs EXCEPT ![w] = [pc |-> "save", tx |-> n, copy |-> txs'.active, then |-> label]]

Persisted(w) ==
  syncs' = [syncs EXCEPT ![w] = IF syncs[w].then = "send" THEN [Idle("send") EXCEPT !.tx = syncs[w].tx]
                                                          ELSE Idle(syncs[w].then)]

PersistActive(w) ==
  /\ At(w, "save")
  /\ txStored' = [txStored EXCEPT !.active = syncs[w].copy]
  /\ syncs' = [syncs EXCEPT ![w].pc = "save_archive", ![w].copy = txs.archive]
  /\ UNCHANGED <<txs, txLog, conns, partner, faults, txRestarts>>

\* The reconciler saves the active list and leaves the archive.
PersistArchive_Skipped(w) ==
  /\ At(w, "save_archive")
  /\ txStored' = IF w = Reconciler THEN txStored ELSE [txStored EXCEPT !.archive = syncs[w].copy]
  /\ Persisted(w)
  /\ UNCHANGED <<txs, txLog, conns, partner, faults, txRestarts>>

PersistArchive(w) ==
  /\ At(w, "save_archive")
  /\ txStored' = [txStored EXCEPT !.archive = syncs[w].copy]
  /\ Persisted(w)
  /\ UNCHANGED <<txs, txLog, conns, partner, faults, txRestarts>>

PersistFails(w) ==
  /\ At(w, "save") \/ At(w, "save_archive")
  /\ faults < MaxStoreFaults
  /\ faults' = faults + 1
  /\ Persisted(w)
  /\ UNCHANGED <<txs, txStored, txLog, conns, partner, txRestarts>>

persistSyncTransactions(w) ==
  \/ PersistActive(w) \/ PersistArchive(w) \/ PersistFails(w)

\* runSyncTransactionsReconciler: whenever its timer fires.
runSyncTransactionsReconciler ==
  /\ At(Reconciler, "idle")
  /\ UNCHANGED txs
  /\ PersistThen(Reconciler, 0, "idle")
  /\ UNCHANGED <<txStored, txLog, conns, partner, faults, txRestarts>>

-----------------------------------------------------------------------------
(* API calls.                                                              *)

\* startSyncTransaction with appendSyncTransaction.
startSyncTransaction(w) ==
  /\ txLog' = txLog + 1
  /\ txs' = applySyncTransactionsPolicy([txs EXCEPT !.active = <<Tx(txLog', "bndupd_sent")>> \o @])
  /\ PersistThen(w, txLog', "send")
  /\ UNCHANGED <<txStored, conns, partner, faults, txRestarts>>

\* A retry with new_tx does the same, once it has found the transaction.
handleClusterSyncTrigger(w) == At(w, "idle") /\ startSyncTransaction(w)

\* A retry with same_tx finds the transaction in the active list.
handleClusterSyncTransactionRetry(w) ==
  /\ At(w, "idle")
  /\ \E n \in 1..txLog :
       /\ syncTransactionByID(n)
       /\ syncs' = [syncs EXCEPT ![w].pc = "restart", ![w].tx = n]
  /\ UNCHANGED <<txs, txStored, txLog, conns, partner, faults, txRestarts>>

\* restartSyncTransaction with upsertSyncTransaction; by now the entry may
\* have moved to the archive, then the call is answered with 404.
restartSyncTransaction(w) ==
  LET n == syncs[w].tx IN
  /\ At(w, "restart")
  /\ txs' = SetPhase(n, "bndupd_sent")
  /\ IF syncTransactionByID(n) THEN PersistThen(w, n, "send") ELSE syncs' = [syncs EXCEPT ![w] = Idle("done")]
  /\ UNCHANGED <<txStored, txLog, conns, partner, faults, txRestarts>>

-----------------------------------------------------------------------------
(* executeSyncTransaction and the partner's side of the connection.        *)

Conn(w, state) == conns' = [conns EXCEPT ![w] = state]

\* sendClusterSyncBndupd: PREPARE ...
SendPrepare(w) ==
  /\ At(w, "send") /\ To(w, "prepare_ack") /\ Conn(w, "prepare")
  /\ UNCHANGED <<txs, txStored, txLog, partner, faults, txRestarts>>

\* ... COMMIT after the acknowledgement of PREPARE ...
SendCommit(w) ==
  /\ At(w, "prepare_ack") /\ conns[w] = "prepared"
  /\ To(w, "commit_ack") /\ Conn(w, "commit")
  /\ UNCHANGED <<txs, txStored, txLog, partner, faults, txRestarts>>

\* Success is reported once COMMIT is sent.
CommitAcked_Unheard(w) ==
  /\ At(w, "commit_ack")
  /\ To(w, "complete") /\ Conn(w, "closed")
  /\ UNCHANGED <<txs, txStored, txLog, partner, faults, txRestarts>>

\* ... and success after that of COMMIT.
CommitAcked(w) ==
  /\ At(w, "commit_ack") /\ conns[w] = "committed"
  /\ To(w, "complete") /\ Conn(w, "closed")
  /\ UNCHANGED <<txs, txStored, txLog, partner, faults, txRestarts>>

\* No address, connection refused, timeout, a negative or strange answer, or
\* the simulated failure.  A COMMIT that was sent may reach the partner all
\* the same.
SyncError(w) ==
  /\ At(w, "send") \/ At(w, "prepare_ack") \/ At(w, "commit_ack")
  /\ To(w, "fail") /\ Conn(w, "closed")
  /\ \/ UNCHANGED partner
     \/ conns[w] = "commit" /\ partner' = partner \cup {syncs[w].tx}
  /\ UNCHANGED <<txs, txStored, txLog, faults, txRestarts>>

\* handleClusterSyncConn on the partner: the acknowledgement is sent, or the
\* connection breaks.
handlePrepare(w) ==
  /\ conns[w] = "prepare" /\ Conn(w, "prepared")
  /\ UNCHANGED <<txs, txStored, txLog, syncs, partner, faults, txRestarts>>

handleCommit(w) ==
  /\ conns[w] = "commit" /\ Conn(w, "committed")
  /\ partner' = partner \cup {syncs[w].tx}
  /\ UNCHANGED <<txs, txStored, txLog, syncs, faults, txRestarts>>

\* completeSyncTransactionWithLatency and failSyncTransaction: the lists are
\* written only if the entry was in the active one.
Outcome(w, from, phase) ==
  LET n == syncs[w].tx IN
  /\ At(w, from)
  /\ txs' = SetPhase(n, phase)
  /\ IF syncTransactionByID(n) THEN PersistThen(w, n, "done") ELSE syncs' = [syncs EXCEPT ![w] = Idle("done")]
  /\ UNCHANGED <<txStored, txLog, conns, partner, faults, txRestarts>>

completeSyncTransaction(w) == Outcome(w, "complete", "committed")

\* A failure is logged and not recorded.
failSyncTransaction_Silent(w) ==
  /\ At(w, "fail")
  /\ syncs' = [syncs EXCEPT ![w] = Idle("done")]
  /\ UNCHANGED <<txs, txStored, txLog, conns, partner, faults, txRestarts>>

failSyncTransaction(w)     == Outcome(w, "fail", "failed")

SyncStep(w) ==
  \/ restartSyncTransaction(w) \/ SendPrepare(w) \/ SendCommit(w) \/ CommitAcked(w)
  \/ SyncError(w) \/ completeSyncTransaction(w) \/ failSyncTransaction(w)

-----------------------------------------------------------------------------
(* Restart: the active list is restored, then the archive; nothing resumes *)
(* a transaction that was under way.                                       *)

restoreSyncTransactions(list) ==
  applySyncTransactionsPolicy([Lists EXCEPT !.active = sanitizeSyncTransactions(list)])

restoreSyncTransactionsArchive(list, archive) ==
  Head0(sanitizeSyncTransactions(sanitizeSyncTransactions(list) \o archive), ArchiveLimit)

TxRestart ==
  LET lists == restoreSyncTransactions(txStored.active) IN
  /\ txRestarts < MaxTxRestarts
  /\ txRestarts' = txRestarts + 1
  /\ txs' = [lists EXCEPT !.archive = restoreSyncTransactionsArchive(txStored.archive, @)]
  /\ syncs' = [w \in Writers |-> Idle(IF w = Reconciler \/ At(w, "idle") THEN "idle" ELSE "done")]
  /\ conns' = [w \in Syncs |-> IF At(w, "idle") THEN "none" ELSE "closed"]
  /\ UNCHANGED <<txStored, txLog, partner, faults>>

SyncNext ==
  \/ \E w \in Syncs : handleClusterSyncTrigger(w) \/ handleClusterSyncTransactionRetry(w)
  \/ \E w \in Syncs : SyncStep(w) \/ handlePrepare(w) \/ handleCommit(w)
  \/ \E w \in Writers : persistSyncTransactions(w)
  \/ runSyncTransactionsReconciler
  \/ TxRestart

\* Goroutines run on, every exchange has a deadline, and the reconciler's
\* timer fires as long as the server runs.
SyncFairness ==
  /\ \A w \in Syncs : WF_syncVars(SyncStep(w)) /\ WF_syncVars(persistSyncTransactions(w))
  /\ WF_syncVars(runSyncTransactionsReconciler \/ persistSyncTransactions(Reconciler))

SyncSpec == SyncInit /\ [][SyncNext]_syncVars

-----------------------------------------------------------------------------
(* Properties.                                                             *)

\* What the server shows as committed was committed by the partner: an
\* execution that is late, was superseded by a restart of its transaction or
\* lost its acknowledgement never marks a transaction the partner never saw.
CommittedAtPartner ==
  \A list \in {txs.active, txs.archive, txStored.active, txStored.archive} :
    \A i \in DOMAIN list : list[i].phase = "committed" => list[i].id \in partner

\* Until a restart, the two lists together are the newest transactions, each
\* once and in order, as many as the limits allow.
NewestKept ==
  txRestarts = 0 =>
    LET both == txs.active \o txs.archive
        size == IF txLog < MaxEntries THEN txLog ELSE
                IF txLog - Len(txs.active) < ArchiveLimit THEN txLog ELSE Len(txs.active) + ArchiveLimit
    IN  /\ Len(txs.active) <= MaxEntries /\ Len(txs.archive) <= ArchiveLimit
        /\ Len(both) = size
        /\ \A i \in DOMAIN both : both[i].id = txLog + 1 - i

\* Failed writes and copies saved out of order are repaired: in the end the
\* store holds what the server shows.
StoreCatchesUp == <>[](txStored = txs)

\* What the transaction lists say is so: committed ones are at the partner, and
\* the lists hold the newest ones (sync_transactions_store.go).
SyncSound == CommittedAtPartner /\ NewestKept

-----------------------------------------------------------------------------
(* The reconciler's timer: after failed writes it waits exponentially      *)
(* longer, and one alert is raised when the failures in a row reach a      *)
(* threshold and the last alert is long enough ago.                        *)
(*                                                                         *)
(* Delays are counted in units of the interval (30 s), in which the        *)
(* largest time.Duration is 2^63 ns, 307445734 units.                      *)

CONSTANTS
  BackoffMax,       \* syncTxnReconcileBackoffMax: 10 units
  AlertThreshold,   \* syncTxnReconcileFailureAlertThreshold
  MaxStreak         \* bound: failures in a row

ASSUME BackoffAssumption ==
  BackoffMax \in Nat \ {0} /\ AlertThreshold \in Nat \ {0} /\ MaxStreak \in 1..30

VARIABLES
  streak,   \* failureStreak
  delay,    \* until the timer fires
  alerted   \* an alert was raised during this streak

backoffVars == <<streak, delay, alerted>>

MaxDuration == 307445734

BackoffInit == streak = 0 /\ delay = 1 /\ alerted = FALSE

\* Up to a fifth is added.
WithJitter(d) == d..(d + d \div 5)

\* nextSyncTransactionsReconcileDelayWithBase: the product is a float64.  Its
\* conversion to an int64 out of range is left to the machine: amd64 gives the
\* smallest number, which is below the maximum and gets no jitter, arm64 the
\* largest.
nextSyncTransactionsReconcileDelay(n) ==
  IF n = 0 THEN {1}
  ELSE IF 2^n <= MaxDuration
       THEN WithJitter(IF 2^n > BackoffMax THEN BackoffMax ELSE 2^n)
       ELSE {-MaxDuration} \cup WithJitter(BackoffMax)

\* recordSyncTransactionsReconcileResult; the cooldown may be over or not.
recordSyncTransactionsReconcileResult(failed) ==
  IF failed
  THEN alerted' \in IF streak' = AlertThreshold THEN BOOLEAN ELSE {alerted}
  ELSE alerted' = FALSE

\* The timer fires and the lists are written, or not.
ReconcileOnce ==
  \E failed \in BOOLEAN :
    /\ streak' = IF failed THEN streak + 1 ELSE 0
    /\ streak' <= MaxStreak
    /\ recordSyncTransactionsReconcileResult(failed)
    /\ delay' \in nextSyncTransactionsReconcileDelay(streak')

BackoffSpec == BackoffInit /\ [][ReconcileOnce]_backoffVars

\* "the largest interval of the exponential backoff" (docs/config_reference.md):
\* the delay stays within the maximum and its jitter, as long as the product is
\* a time.Duration.  From 29 failures in a row it is not, and the timer may fire
\* at once, every time.  An alert is raised after enough failures only.
BackoffSound ==
  /\ delay \in 1..(BackoffMax + BackoffMax \div 5) \/ 2^streak > MaxDuration
  /\ alerted => streak >= AlertThreshold

\* What the store of transactions shows, and how its writes are timed.
StoreSound == SyncSound /\ BackoffSound

===============================================================================
