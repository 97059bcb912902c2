# Modern-DHCP: TLA+ verification project

Modern-DHCP is a DHCP server written in Go: packet servers for DHCPv4 and DHCPv6,
a lease service over MySQL with a cache and a Redis pool lock, a background
reclaimer, a failover manager, cluster jobs that bring standbys in and keep
partners in step, an automation scheduler, a security guard, alerting, and an
HTTP API around all of it.  This directory models its core logic in TLA+, checks
it with TLC on small instances, and proves the most important facts with TLAPS
for every instance.  Paths are relative to the repository root; `PROJECT.json`
maps every definition to the lines it stands for.

## 1. Inventory

| Part | State it keeps | Hard behaviour | Module |
|---|---|---|---|
| Lease state machine, `internal/dhcpv4/leasefsm`, `internal/lease/dhcpv4_fsm.go` | FSM state in `session_continuity` | a state implied by packets of several handlers | `LeaseFSM` |
| Lease repository, caches, `internal/lease/repository.go`, `internal/cache` | table `leases_v4`, cached rows under two kinds of key | copies written back blindly, keys of two tenants | `LeaseStore` |
| Lease service, `internal/lease/service.go`, `persist_async.go`; pool lock, `internal/dhcpv4/lock`; reclaimer, `reclaimer.go` | copies of leases in goroutines; one Redis key; a batch | handlers, background writes, API calls and the reclaimer overlap | `LeaseService`, `AddressLedger` |
| Active store, `repository.go` with `WithRedisActiveStore` | Redis objects and sorted sets, history table | two stores written one after the other | `ActiveStore` |
| Address selection, `service.go` 934-1359, `bitmap.go`, `acd.go` | bitmap, cursor, probe verdicts | word arithmetic, a rebuild against changes | `AddressScan` |
| DHCPv4 server, `internal/dhcpv4/server.go`, `handler.go`, `internal/mobility` | queue, workers, three caches of the plan | stopping while listeners block; caches of different ages | `DhcpV4Server` |
| DHCPv6, `internal/dhcpv6`, `lease/prefix_allocator.go` | per-client FSM in memory, table `prefix_leases_v6` | a goroutine per datagram, a prefix listed as free and written later | `DhcpV6` |
| Failover manager, `internal/failover/manager.go` | role, link state, timestamps, approval | the loop, probes and operators between each other's steps | `Failover` |
| Coordinators, `adapters.go`, `multi_coordinator.go` | two atomic flags per coordinator | flags stored one by one; majorities | `Coordinators` |
| HA adapters, `adapters.go`, `replicator_runtime.go` | VIP, DNS, registry, stream telemetry | commands of several role changes cross | `HARuntime` |
| Automation jobs, `internal/automation/scheduler.go`, `job_store.go` | queue, records, workers | push before record, retries, `Stop` | `JobScheduler` |
| Automation service, approvals, `automation/service.go`, `approvals` | schedules, change requests | two operators decide and apply | `Automation` |
| Workflows, `automation/workflow` | definition, execution | two editors; a plan over a graph | `Workflow` |
| Cluster join, `internal/server/cluster_join_*.go` | jobs in memory and in the store | cancelled runs that still write, restarts | `ClusterJoin` |
| Sync transactions, `feature_routes.go`, `cluster_sync_transport.go`, `sync_transactions_reconciler.go` | active list, archive, backoff | lost acknowledgements, restarts, overflow | `SyncTx` |
| Failover plans, `feature_routes.go` | plans and their steps | failure half way, rollback | `FailoverPlan` |
| Cluster control, `cluster_control_routes.go`, `ha_routes.go` | members, tokens, commands | late heartbeats, reset, failed writes | `ClusterControl` |
| Login, `http_server.go`, `internal/superadmin` | guard, captcha, password file, challenges | counters read and written in different sections, a write that truncates and fails | `Login` |
| Directory, `internal/auth/service.go` | roles, providers | replacement of roles row by row | `Directory` |
| Access, `auth/service.go`, `server/auth.go`, `internal/rbac` | keys, roles, two caches | an answer cached after its withdrawal | `Access` |
| Security store and audit, `http_server.go` | policies, rogue servers, audit entries | INSERTs that fail, marks in any order | `AccessSecurity` |
| Pools, bindings, `internal/pool`; console routes, `core_ops_routes.go` | rows and their cache, import answers | stale merges; an import against a list read once | `Pools`, `PoolRoutes` |
| DHCP options, `core_ops_routes.go`, `dhcp_*` stores | tables and maps | map and table one after the other, restart | `DhcpOptions` |
| Policy engine, `internal/policy` | rules, drafts, versions, three caches | lists cached after their eviction | `Policy` |
| Security guard, `internal/security` | MAC list and its cache, rules, buckets, detector | cached verdicts, sliding windows | `Guard` |
| Alerting, `internal/monitoring`, `internal/alerting` | windows, feed, rules, routes | silence, dedupe, escalation against each other | `Alerts` |
| Notification channels, `http_server.go`, `alerting` | settings in memory and files, senders | saves overlap, restart | `Notifications` |
| Operations, `internal/ops` | script runs, transfers, settings | approvals, a full queue | `OpsJobs` |
| Collaboration, `internal/collab` | rooms, sessions, locks | broadcast, or a further message, while a client closes | `CollabHub` |
| IoT registry, `internal/iot` | devices, profiles | read-modify-write in separate statements | `IotRegistry` |

How they interact: a datagram is queued by a listener and taken by one of several
workers; the guard and the isolation check stand before the handler, which gets a
plan (pool and times) from policy, affinity cache and relay selector, then calls
the lease service one to three times.  The service reads a lease through the
cache, changes its own copy and writes the copy back with a blind
`UPDATE ... WHERE id = ?`.  New addresses are chosen under a Redis lock with a TTL.
With Redis and without a replication journal the row is written by a goroutine
after the reply.  The HTTP API makes the same calls under another cache tenant, the
reclaimer writes rows directly.  The failover manager decides
`ensurePrimaryWrite` and drives VIP, DNS and registry.  The API's own resources
(pools, options, policies, settings, jobs) are maps or tables with handlers that
run concurrently, mostly with a lock per access and none over a whole handler.

What correctness means is stated by the properties of section 3; the hazards that
led to them are in `PROJECT.json`, each at its line.

## 2. Modules

    LeaseFSM <- LeaseStore <- LeaseService <- MCLeaseService, LeaseServiceProofs
                                  '- INSTANCE AddressLedger (refinement)
    Coordinators <- Failover ;  HARuntime, DhcpV4Server       <- MCNode
                    Failover, DhcpV4Server                    <- FailoverProofs
    JobScheduler <- Automation ;  Workflow                    <- MCAutomation, AutomationProofs
    ClusterJoin, SyncTx, FailoverPlan                         <- MCCluster, ClusterProofs
    Login, Directory, AccessSecurity, PoolRoutes (<- Pools), DhcpOptions,
    ClusterControl, Coordinators, Notifications, CollabHub, IotRegistry
                                                              <- MCAdministration
    Coordinators, CollabHub, ClusterControl, Directory, Login, AccessSecurity
                                                              <- AdministrationProofs
    AddressScan, DhcpV6 (<- LeaseFSM), ActiveStore, Policy, Alerts <- MCRecords
    DhcpV6, Alerts, Policy                                    <- RecordsProofs
    Access, Guard, OpsJobs                                    <- MCServing
    Guard, OpsJobs                                            <- ServingProofs

(`A <- B`: B EXTENDS A.)  Components that share no state are checked in one run: the
MC module picks a *scene* in its initial states, a behaviour is about that
component, and the others rest.  The scenes are the ones of one program, side by
side; no property depends on two of them at once.

Definitions named `<Definition>_<Defect>` are deliberately wrong variants of the
definition after them.  Nothing in the specification uses them; replacing the
definition by the variant makes TLC find the property violated that
`PROJECT.json`, "mutants", names.

**LeaseFSM, LeaseStore.**  The transition table, what `dhcpv4TransitionLeaseState`
does to a record, and what one SQL statement or one cache call does.  A record keeps
the columns the control flow looks at.  The table is a function from ids to
records; `KeyFree` is the unique key `(hardware_addr, state)`; `Updated` does not
write `hardware_addr` because the `UPDATE` does not.

**LeaseService.**  Requests (`pc`, `att`, `job`, `snap`, `ok` per handler
invocation), the table and caches, the lock, background writers (`bg`), the
reclaimer (`batch`, `rec`), the clock and the role.  One action is one access to
shared state.

| Action | Code |
|---|---|
| `Begin` | a worker takes a packet, or the API a call |
| `GetActiveHit/Row/None`, `FillActive` | `GetActiveLease`: cache, SELECT, cache fill |
| `Renew` | reuse branch of `AllocateOrReuseWithMetadata` |
| `Refuse`, `RefuseMark` | isolation, role, limits, quota, lookup errors |
| `AcquireLock`, `Unlock`, `LockExpire` | `acquirePoolLock`, the deferred `Unlock`s, the TTL |
| `Pick`, `PickNone`, `Create`, `Reclaim` | `pickIPAddress`, `tryReclaimConflictLease`, `CreateLease` |
| `ProbeQuiet`, `ProbeAlive` | `enforceConflictPrevention` |
| `GetByIdHit/Row/Fails`, `FillById` | `GetLeaseByID` |
| `UpdateFSM`, `ReleaseActive`, `AdminUpdate` | the FSM calls, RELEASE/DECLINE, `ReleaseLease`, `DeclineLease`, `ClearCooldown` |
| `SyncDone`, `ConfirmFails` | cache refresh after a write, `confirmReplication`, `confirmSyncAck` |
| `AsyncWrite`, `AsyncSync` | the goroutine of `persist_async.go` |
| `ReclaimList`, `ReclaimWrite`, `ReclaimSync` | one reclaimer pass |
| `CacheDrop`, `RoleChange`, `Tick` | eviction, failover, time |

One pool; a lease id and a lock token are the pair (request, attempt) that mints
them; which free address `pickIPAddress` returns is left open here (`AddressScan`
says which).  `revived` is a history variable: ids a stale write brought back from
RELEASED or COOLDOWN.  **AddressLedger** is what allocation promises without
requests, caches and locks: an address is granted only while every lease still
holding it was brought back behind the allocator's back.  `LedgerSpec` is the
refinement: holders of an address are its ACTIVE rows.

**Coordinators, Failover.**  Per coordinator the flags `healthy` and `allow`, stored
one after the other, and the vote over them; whom a coordinator grants the role is
external.  The heartbeat loop is `EvalRead`, `EvalSet` (`evaluatePeer`), then
`CoordHealth`, `CoordServe`, `ServeState` or `YieldRole`, `YieldApproval`,
`LoopSetRole` (`reconcileCoordinator`): each is one critical section or one atomic
read, so operator calls and the probe goroutine interleave as in the program; a
primary yields in `LoopSetRole`, whether the loop gave up a role it read as primary
or follows the coordinator from a role it read as standby and a promotion overtook
(`overtaken`).
**HARuntime** is what `setRole` drives.  **DhcpV4Server** has two machines: serving
(listeners, queue, workers, shutdown) and the plan of a request.

**ClusterControl, CollabHub, Login, DhcpV6, ActiveStore.**  Where the code lets go of
its lock half way, so does the model: a heartbeat touches the node, copies the
members and writes the copy in three steps; closing a client's channel does not end
its reader (`Reading`); `os.WriteFile` truncates before it writes, so after a failed
write the file is not `whole`.  Each DHCPv6 datagram has a worker of its own, and a
reply has the lifetimes of the IA_NA and of every IA_PD with the client's hints and
the options' overrides; a NACK is such a reply too.  In the active store a decline
goes through `applyCooldownState`, which holds nothing back, and a conflict through
`enforceConflictPrevention`, which does.  `tryReclaimConflictLease`, the take-over of
a cooling lease in an exhausted pool, is modelled in `LeaseService` and left out of
`ActiveStore`.  **Directory** has the registry of providers and whom a login without
a name would reach, not the login itself, which is `Login`.

**The other components** follow the same pattern: one variable per map, table,
cache or goroutine, one action per critical section or statement, local copies in
the record of the call, failures of writes as actions of their own under a named
bound, and restarts where state is persisted.  Each module's header says what is
abstracted.

## 3. Runs

Ten runs pass, two show a disagreement with what the repository says.

| Run (configuration) | Property | What it says |
|---|---|---|
| `lease_alloc` | `NoSharedAddress`, `HeldNotLeased` | no address is ACTIVE twice, or leased while a probed one is held, unless a row was brought back |
| | `GrantRecorded` | a handler that answers returns a lease the table has, at that address, of that client |
| | `LedgerSpec` | the service implements `AddressLedger` |
| `lease_serial` | `CacheAgrees`, `ReleasedStays`, `BindingRespected` | between calls the cache agrees with the table; a RELEASED row never comes back; a bound address stays its client's |
| `lease_live` | `HandlersReturn` | every handler returns, also one that waits for the lock its own previous attempt holds |
| `lease_reclaim` | `ExpiredReleased` | the reclaimer gets to every row the unique key lets it release |
| `node` | `YieldsApproved` | a primary yields no more often than operators approved, or promoted it behind the loop's back |
| | `PlanFresh` | a plan is no older than the caches it came from |
| | `BlindStands`, `PeerReturns` | a node without coordinators ends in standby; a partner that answers is seen as normal again |
| | `RuntimeFollows`, `ServerSettles` | VIP, zone, registry and stream follow the role; `ListenAndServe` returns and queued datagrams are handled |
| `automation` | `JobsSound`, `EffectApproved`, `FlowSound` | a job is in one place; nothing takes effect unapproved; plans are sound and no edit is lost |
| | `ServiceSettles` | accepted jobs end, `Stop` returns |
| `cluster` | `WarmEarned`, `StoreSound`, `UndoneInReverse` | WARM_STANDBY is earned; what is shown committed is at the partner, delays stay in bounds; rollback runs in reverse |
| | `ClusterSettles` | joins end unless their node is removed, the store catches up |
| `administration` | `CredentialsSound`, `DirectorySound`, `SecuritySound` | counters and secrets under overlapping requests; roles of one call only; every policy audited |
| | `SettingsSound`, `NothingLost` | stored pools, templates, files are whole; imports, restarts and registrations take nothing back |
| | `TokenSound`, `QuorumUnique`, `PanicOnlyAfterExpiry` | an accepted heartbeat is a member's or of a node a late one brought back; two nodes are never both told to serve; no send on a closed channel but after a client's own expiry |
| `records` | `SelectionSound`, `V6Sound`, `StoresSound`, `PolicySound`, `AlertsSound` | selection picks and misses nothing wrongly; prefixes are delegated once unless two allocations overlap, lifetimes are in order; index and history agree; decisions are fresh and by the lowest number; no alert twice, none held back for long |
| `serving` | `GuardHolds`, `OpsSound` | rules, limits and blocks hold; approvals and settings hold |
| | `WithdrawalTakes`, `BlacklistTakes` | what is withdrawn, or blacklisted, is refused in the end |
| `lease_released_stays` | `ReleasedStays` | **violated** in the default tenant configuration |
| `failover_dual_primary` | `SinglePrimary` | **violated** at start-up with one coordinator |

Between them these runs cover everything earlier, smaller ones asked: the votes of
three coordinators are a scene of `administration`, the failover scenes of an
operator and of a flapping partner are scenes of `node`, and the handlers that
move the FSM are in `lease_serial`.

**Bounds.**  In the lease runs `MaxInFlight` handlers overlap (2; every race is
between a reader and one writer), 2 to 4 `Requests` in total, one or two addresses
so that exhaustion, take-over and re-grant happen, two clients so that owner and
stranger differ, `MaxAttempts` 2 where the retry loop matters, `MaxTime` 1 or 2 with
unit lease, cooldown and hold times so that a lease expires, a hold ends and a
lease is renewed afterwards.  `Serial` removes overlap where the property is about
sequences of calls.  Requests are symmetric, and clients and addresses too except
under a static binding; liveness runs use no symmetry.  In `node`, `MaxOps` 4 is two
approvals and two role changes, enough to approve, demote, promote and yield
again; one queue place, two listeners, one worker; cache lifetimes of 1 and 2 ticks
over 3.  `automation` has one worker more than queue places, two attempts, two
callers on each request and five graphs of up to four nodes (a join, cycles, a part
out of reach); `cluster` one restart and one lost write, two
transactions over a list of one, `MaxStreak` 30 to reach the overflow of the delay;
`administration` and `serving` two administrators wherever two may collide, limits
of one to five, and one fault each; heartbeats in three steps have a scene apart from
the nodes' other requests, to keep the two numbers of tokens apart from the number
of copies under way (theorem `TokensSound` has no such split).  In `records`
addresses have 4 bits, a pick has 8 attempts, the fewest the code gives it, or 1 so
that they run out, lifetimes wrap at 15, an hour of the day is one of 5, and each
cache lasts 1 or 2 ticks.  The alert windows are 2 intervals, the dedupe window 3, so
that a silence, a rule's cooldown and an escalation's mute each still hold something
back at the next evaluation, and a dedupe outlasts them.  A cooldown lasts 1 tick
and a hold 2, to tell them apart.  DHCPv6 has three scenes: every message with one
datagram at a time, two goroutines with requests and releases, and every
combination of hint, override and profile in a reply.

Some bounds leave part of a component to the proofs or out.  `lease_serial` has the
conflict probe off, so a take-over meets `BindingRespected` in the theorem only.
The reclaimer's batch holds both rows of `lease_reclaim`: what a batch full of rows
the unique key refuses does to the rest is not asked.  `node` has one setter of the
role; `PeerReturns` says that a stale evaluation does not last, not that it never
shows. `serving` checks renewals without the exemption from the MAC list
(`RenewExempt` FALSE); static tokens of the configuration and the expiry of role
assignments are not in `Access`.  Counters that have no bound in the code are cut by
a `Max...` constant in the guard of the action that would exceed it (`MaxOps`,
`MaxEdits`, `MaxTokens`, `MaxVersion`, `MaxTime`, ...), which only ends a behaviour
early.

**Fairness** is weak and on goroutines and tickers only: each handler's own steps
and each background writer, the reclaimer, the lock's TTL, the clock; the failover
loop, the probe goroutine, a pending operator call, every coordinator's poll; the
listeners, workers and the closing of the server; runs of join jobs, transactions
and plans; a registration push and the stream reader.  Nothing is assumed of
clients, operators, partners, grants, failures or evictions.  Strong fairness is
used in two places: a worker or a schedule loop that waits in a `select` on its
stop channel takes that branch at some point (`WorkerExit`, `LoopExit`; Go picks
among ready branches at random), and a client keeps sending (`Arrivals` in
`MCServing`, where the question is what such a client is answered).  `AcquireLock`
needs a free lock, so weak fairness promises nothing to a waiter while others take
it; `lease_live` has few enough contenders for that to be enough.  Where scenes
share a run, the fairness of a component is asked of its own scene only.

Deadlock is checked where the program is never finished; the configurations that
say `CHECK_DEADLOCK FALSE` are of components that come to rest by design (all
requests served, all jobs ended, all bounds used up).

## 4. Findings and observations

Two findings have a run that shows them; `PROJECT.json` quotes the line of the
repository each contradicts.

* Releasing a lease that was read from the table leaves the packet handlers' cache
  key in place (`internal/lease/repository.go:712`), and the client's next packet
  makes the row ACTIVE again (`lease_released_stays`).  With one tenant for
  everybody the property holds for any instance (theorem `ReleasesStay`).
* A coordinator counts as allowing before its first verdict is stored
  (`internal/failover/adapters.go:345`, `475`): two nodes become primary at start-up
  (`failover_dual_primary`).  The line quoted asks that jitter of the network never
  give two writable primaries; the trace needs less, two nodes starting and one poll.

The models show the following as well.  They have no run of their own; properties
are stated so that they do not claim the contrary.

*Leases.*  The unique key `(hardware_addr, state)` lets a client have one RELEASED
row, so the reclaimer fails on its second one on every pass (`reclaimer.go:90`,
`migrations/0001:243`).  A decline never sets `cooldown_until`, so the address may
be granted at once, also with the Redis active store, whose list of cooling
addresses goes by `cooldown_until` (`service.go:1855-1868`,
`repository.go:1537-1568`). The reclaimer writes whatever the role
(`reclaimer.go:71`). At 255.255.255.255 the scan's increment wraps; a bitmap rebuild
overwrites bits set meanwhile (`bitmap.go:170`); the asynchronous quiet verdict
overwrites a conflict (`acd.go:99-115`).  In the active store `ListExpiredLeases`
finds nothing, and a history upsert keeps the old `cooldown_until`
(`repository.go:1797-1802`).

*DHCPv6.*  Two datagrams in flight may be delegated the same prefix
(`prefix_allocator.go:34`), or overlapping ones of different lengths (124); a renew
writes ACTIVE back after a release (61-65); a released client is not advertised to
until a restart (`server.go:280-283`); T2 may wrap in a uint32 (572).  T1 and T2 are
those of the IA_NA in every IA_PD as well (577-586), so with a client's hint or an
option's override T2 may lie beyond the IA_PD's preferred lifetime
(`prefix_allocator.go:169-183`, `server.go:846-857`).  A NACK to any message but a
CONFIRM answers the refused address with default lifetimes (297-318).  `V6Sound`
excepts overlapping datagrams, the wrap, and T2 under a hint or an override.

*Failover and cluster.*  A node elected after its partner went down is never
promoted: in state partner_down `reconcileCoordinator` returns (`manager.go:392`). A
promotion that comes between the loop's reading of the role as standby and its
`setRole` is undone without an approval (399, 417).  `peerHealthySince` outlives the
peer's health (409); an approval given while nothing is pending approves a later
failback (526); two setters may apply their VIP commands in either order (512), and
`Manager.Stop` leaves the VIP.  Leadership is a majority of the reachable
coordinators (`multi_coordinator.go:23`, 115): with four, two nodes can both be told
to serve.  The job of a node deleted during its join stays pending until it is
cancelled or retried or the server restarts, and meanwhile no new one starts for
that node (`feature_routes.go:2531-2547`, `cluster_join_jobs.go:870`); a forced
reinitialize leaves the HA partner; a late heartbeat writes a member that left back
to the store, and after a restart its token is accepted again
(`cluster_control_routes.go:437-440`); a queued command is not executed after a
restart (`cluster_control_routes.go:517-520`, 759); the reconciler's delay overflows
from 29 failures in a row (`sync_transactions_reconciler.go:165-182`); `DryRun` is
ignored by `runFailoverPlan` (`feature_routes.go:2031`).

*API.*  Escalating an alert mutes its own fingerprint, so the escalation's
notification never goes out (`http_server.go:11609-11632`, 10654; a conjunct of `AlertsSound`).  An alert rule cannot be disabled (9738);
overlapping upserts of rules, routes or channels may install the older list (9852,
10746, 11123); a rule's cooldown is used up although the manager skips the event;
clearing all routes brings the defaults back at a restart (`main.go:387-397`).  A
webhook configuration without a URL is dropped at restart. `UpdateRule` evicts the
tenant of a row that has none (`policy/repository.go:159-171`), which is why
`PolicySound` bounds the age of a decision by all three cache times. A static
binding and its pool's exclusion may part (`pool/repository.go:491-532`). Option ids
given by default at a restart collide with stored ones
(`dhcp_options_store.go:35`).  An identity provider's `Enabled` row is never
consulted (`auth/service.go:370-384`).  A block is forgotten after the starvation
window (`security/detector/simple_detector.go:86-95`), so `GuardHolds` speaks of
blocks no longer than it, which the defaults (2 minutes, 30 seconds) are not.
History eviction of script runs drops ones that wait for approval; two exports in
one second share a file name.  `Hub.Shutdown` waits for a lock it holds
(`collab/hub.go:97-101`); a heartbeat that finds its session gone closes the
client's channel and not its reader, whose next message sends on the closed channel,
a panic that ends the process (220-228, 251-258).  A failed `os.WriteFile` leaves
the super administrator's file truncated; unless a later write succeeds, the server
refuses to start on it (`superadmin/manager.go:161`, `cmd/dhcpd/main.go:450-452`).
`AffinityCache.Lookup` may delete a fresh entry (`affinity.go:79-85`).

## 5. Proofs

`tlapm` checks every proof; there are seven proof modules.  A theorem holds for all
values of the constants that satisfy the modules' named ASSUMEs and its own
hypotheses.  All of a module's actions are covered: failures, restarts,
cancellations and every interleaving.

| Theorem | Property | Hypotheses beyond the ASSUMEs |
|---|---|---|
| `TypeCorrect`, `FailoverTypes` | `TypeOK` of `LeaseService`, of `Failover` | |
| `LockExcludes` | `MutualExclusion` | `Redis`, `~LockMayExpire` |
| `AddressesNotShared`, `HeldAddressesKept`, `ImplementsLedger`, `BindingsRespected` | `NoSharedAddress`, `HeldNotLeased`, `LedgerSpec`, `BindingRespected` | the same and `Kafka` |
| `GrantsRecorded` | `GrantRecorded` | `~Async` |
| `CachesAgree`, `ReleasesStay` | `CacheAgrees`, `ReleasedStays` | `Serial`, `GlobalNode`, `~ConflictEnabled` |
| `YieldsAreApproved` | `YieldsApproved` | |
| `PlansFresh` | `PlanFresh` | |
| `JobsStaySound`, `NothingUnapproved`, `FlowStaysSound` | `JobsSound`, `EffectApproved`, `FlowSound` | |
| `StandbyEarned`, `StepsUndone` | `WarmEarned`, `UndoneInReverse` | |
| `TransactionsTrusted` | `StoreSound` | |
| `MajorityRules` | `QuorumUnique` | one to three coordinators |
| `CredentialsHold` | `CredentialsSound` | finitely many login attempts |
| `ChannelsOpen`, `TokensSound`, `DirectoryIsSound`, `SecurityKept` | `PanicOnlyAfterExpiry`, `TokenSound`, `DirectorySound`, `SecuritySound` | |
| `OperationsSound`, `GuardSound` | `OpsSound`, `GuardHolds` | |
| `PrefixesSound` | `V6Sound` | |
| `AlertsKept`, `PoliciesSound` | `AlertsSound`, `PolicySound` | |
| `SelectionsSound` | `SelectionSound` | |
| `StoresAnswerTruly` | `StoresSound` | one call at a time |
| `SettingsStaySound` | `SettingsSound` | one option request at a time |
| `NothingIsLost` | `NothingLost` | one pool administrator at a time |

**Why the hypotheses.**  Without Redis `acquirePoolLock` does nothing, and with an
expiring key a slow holder is still in the section when the next one enters.
Without a journal rows are written after the lock is released, so `Kafka` is needed
for the addresses; when a grant is written by a goroutine after the reply it is not
recorded yet, hence `~Async` for the grants (they need neither lock nor journal).
With several handlers at once a stale copy undoes a release whatever the tenants
are; with one handler, the default tenants still do (the finding above), and the
conflict probe's take-over and asynchronous hold do in a third way: `CachesAgree`
and `ReleasesStay` say exactly when the caches are safe.  Four coordinators refute
`QuorumUnique`.
Two option requests may part a scope from its template (one deletes it between the
other's check and its write), and two imports may add pools over each other, each
having read its list first: those two hypotheses are the bounds of the run as well.

**LeaseService.**  `TypeInv` adds to `TypeOK` what a request holds at each `pc`.
`LockInv`: whoever is in the section holds the key with its own token; only
`AcquireLock` and `Unlock` touch the key, the first needs it free, the second
deletes its own token.  `AddressInv`: rows nobody brought back never hold the same
address (`Exclusive`); that needs a picked address to be still free at the INSERT,
every copy in a cache, goroutine or batch to have the address of its row, and no
INSERT to be pending outside the lock.  All steps but the INSERT are `Calm`: no row
moves and none holds anew unless it enters `revived`.  `ImplementsLedger` reads
every UPDATE as a drop, a bring-back or a stutter and every INSERT as a grant.
`BindInv` speaks of all rows and of records about to be inserted, because a row can
become ACTIVE again.  `GrantInv`: every copy of a lease, in a cache, with the
reclaimer or in a request, belongs to its row (same address and, unless the row was
brought back, same client), and a request that is to answer holds the lease it
grants.  `SerialInv` (TLC checked it on two configurations of some 970 000 and 240
000 states before it was proved): at most one request, background write or batch
entry is under way (`Solo`), each speaks of a row in the state its copy shows, ids
not yet minted are nowhere (`FreshIds`), and what is cached is ACTIVE, or is the row
the one writer under way is about to correct.

**Failover and plans.**  That yields do not outnumber approvals is not inductive:
the loop decides and gives up the role in two steps; the invariant counts a decision
taken or an approval standing as one more yield to come, and a loop that follows the
coordinator on a primary (a promotion overtook it) as one more as well.
`PlansFresh`: each cached time is one the row had at an instant, and the age of that
instant plus what the entry has left to live never exceeds the caches' lifetimes; an
affinity is backed by a grant no older than itself.

**Automation.**  A job is in one place at a time, wherever it is its attempt is the
number of runs it has had, and what a sender sends first it has never sent; the
service submits jobs as `Enqueue` does, so each of its steps is one of the scheduler
or leaves it alone.  A call that is on its way to put a request into effect has read
it approved, and no decision changes a request that is not pending.  A row a
publisher has read is the stored one, or is older and its version tells.  The plan
of an execution: what was visited is closed under the edges but for what still
waits, is complete up to some distance d - 1 and the front of the queue completes
distance d (what waits behind it is at most one farther), so what is taken next is
never nearer than what was taken before (`Nearer`).  With an empty queue the visited
nodes are closed, and a set of numbers with 0 and every successor is all of them
(`Climb`, from `Least`), so they are everything within reach.  The two recursive
functions involved exist: the walks of k steps witness `Within`, an induction on how
far the list of edges has been read witnesses `Adjacent`.

**Cluster.**  Every record of a job, in memory, in the store or in a copy waiting to
be written, has earned the phases before the one it would resume at, and the run
that owns a job has earned what its place in the pipeline calls for; a cancelled
run's writes carry another token.  A transaction is shown committed only with a
partner that has it: in every copy, list and archive, through eviction and restart;
until a restart the two lists are the newest transactions in order.  The sequence
`sanitizeSyncTransactions` builds is a recursive function, whose existence is shown
by induction on how far it has read.  The delay claim holds while the product does
not overflow.  The steps a failover plan has executed are the first k of the order;
k goes up with a success and down with a rollback.

**Administration.**  A node with whole answers counts only votes of coordinators
that grant it the role, and two majorities of majorities among at most three meet.
Who is in a room has an open channel, and a closed channel's reader goes on only
after its own expiry.  A token is kept for nodes that belong to the cluster, and
without a failed write the store has the tokens the memory has, but for nodes a
heartbeat's copy brought back: what the copy may hold is left open, and who it names
without belonging is `revived` by the write. Whatever a transaction is about to
write has been asked for by one call, and a default provider is one of the
registered ones.  While an account is not locked, failures plus requests that passed
the check are at most the threshold plus the attempts that may still be under way; a
challenge and a captcha are consumed in one critical section.  The password in
memory, and in the file while it is whole, is the one acknowledged last or one tried
since.  Every policy has a witness: its entry, a request about to write it, or an
INSERT that failed.  A pool's row, and the row a request is about to write, whatever
it read from a cache, is one `planPool` accepts; an import under way knows the
prefix of every stored pool.  While every hydration was read, the maps of templates
and scopes are what is stored, but for the one row the request under way has stored
and not yet copied.  Of a setting that no two calls were saving at once, and while
no write failed, one call at most has a copy to write and it is the setting as it
stands; two saves that overlap are remembered, because the older may land last.

**Serving.**  Whoever reads rules holds the evaluator's lock, so no invalidation comes
between the read and the cache.  A bucket and what it admitted in a tick add up to at
most the burst; a block's rest and the client's idle time to at most the block, so it
is not forgotten first.  A run is at one place of its life, has been started exactly
when it left the wait for a slot, and gets anywhere only with the ruling it needs; who
has read the settings row holds the lock until it is written.

**Records.**  Of an allocation no other overlapped, the used list covers the ACTIVE
rows and the row to be written shares its prefix with no other; a store by another
goroutine between its reading and its writing marks the row (`raced`).  The
lifetimes follow from the clamps alone, step by step from the profile to the reply.
The dedupe clock and the age of the last notification add up to the window; each of
the four clocks plus the quiet time of a condition is bounded by its own limit, and
their maximum bounds the silence.  A slot of a policy cache holds a list whose age
and rest add up to at most the times of the caches it came through (a list read
before an edit has age zero while it is under way, as reading takes no tick); a
sorted listing of any finite set of rules exists (induction over its size, by the
lemma `Least`), its first match decides, and a range of the day is an arc of the
clock.  Each lease object has its entries in the indexes with its expiry as score,
and a score above the clock is backed by an object, so what a listing counts is a
set of objects; what the one call under way has read or still has to write is named
by its place, and an acknowledged end has its row, with the hold of an address that
answered. Selection: the window is never empty and ends within the pool
(`WindowInv`); each scan returns something free of it or there is nothing; the
offsets the bitmap walk visits stay inside the window, as the walk exists by
induction from its far end; and in a round robin the picks an address has waited for
plus its distance from the cursor are at most one round (`TurnsInv`), since the
cursor moves at every pick, past nothing that is allowed, also when the loop runs
out of attempts.  A loop that does so was refused as often by addresses of the
window, which is what `PickComplete` grants.

The ASSUMEs are what the code gives: durations and limits are positive, numbers
that stand for "nothing" are no member of the sets they are added to, rows have the
columns the code reads, a prefix ends within the address space and no pool keeps more
than half in reserve (`resolveReserve`, through which every pool is written).
`PowersGrow`, 2^h > h, is arithmetic the provers have no theory of.  TLC evaluates
them in the runs.

**Only model-checked.**  All liveness properties (`HandlersReturn`, `ExpiredReleased`,
`BlindStands`, `PeerReturns`, `RuntimeFollows`, `ServerSettles`, `ServiceSettles`,
`ClusterSettles`, `WithdrawalTakes`, `BlacklistTakes`): the prover has neither ENABLED
nor fairness.

## 6. Not modelled, and the plan

Left out of the modelled parts: `MarkDeclined` (no caller), parsing of packets and
encoding of replies, the bitmap-first mode (no caller turns it on), the failover
manager's node registry, ingress telemetry, what a cluster phase or a script
transfers (stubs or I/O), and read-only views of the API.  Client isolation is a
pure function of the configuration; configuration, monitoring counters, reporting
and the UI keep no state of their own that an order of steps could break.  Restart
of the lease service (`dhcpv4_fsm.go:98`) is not modelled: handlers' caches are cold
afterwards and what a lost background write leaves is an absent row.

Next:

1. Restart and `ReconcileDHCPv4LeaseFSMOnStartup` in `LeaseService`.
2. A refinement for the rule caches: what a reader sees is a past table.
