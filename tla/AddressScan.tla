---------------------------- MODULE AddressScan ----------------------------
(***************************************************************************)
(* How pickIPAddress of internal/lease/service.go selects an address of a  *)
(* pool: the bounds, the reserve window, the exclusions, the Redis bitmap  *)
(* of internal/lease/bitmap.go, the three scan orders that follow it when  *)
(* it has nothing to offer, and the conflict probe of internal/lease/acd.go*)
(* with its verdict cache.  LeaseService leaves this choice open; here the *)
(* rest of the lease life cycle is reduced to addresses that are taken,    *)
(* given back, cool down and become free again.                            *)
(*                                                                         *)
(* One pick runs at a time, as under the pool lock; bitmap rebuilds, lease *)
(* changes and cache expiries interleave with it.  Addresses are the       *)
(* numbers of Width bits, so the increment at the top address wraps.       *)
(***************************************************************************)
EXTENDS Integers, FiniteSets, FiniteSetsExt

CONSTANTS
  Width,      \* 32 in the code
  ByteBits,   \* bits per byte of the bitmap, 8 in Redis
  Setups,     \* the pools and deployments to try, see ScanAssumption
  MaxTaken,   \* bound: addresses leased or cooling down
  NoAddr      \* "" in the code

Top   == 2^Width - 1
Addrs == 0..Top
Modes == {"SEQUENTIAL", "ROUND_ROBIN", "PRIORITY_WEIGHTED"}

\* first/hostBits is the prefix; lo/hi the configured range (NoAddr: unset);
\* redis: a Redis client is configured; probing: conflict prevention is on;
\* protect: PoolProtectPercent, 0 when off; attempts: 8 * conflictAttemptBudget,
\* so many addresses one pick offers to the probe.  A prefix ends within the address
\* space, and resolveReserve (internal/pool/service.go) lets no pool keep more
\* than half of its addresses in reserve.
ASSUME ScanAssumption ==
  /\ Width \in Nat /\ ByteBits \in Nat \ {0} /\ MaxTaken \in Nat /\ NoAddr \notin Int
  /\ Setups \subseteq
       [v4 : BOOLEAN, first : Addrs, hostBits : 0..Width,
        lo : Addrs \cup {NoAddr}, hi : Addrs \cup {NoAddr},
        reserve : 0..50, mode : Modes, weight : Nat,
        exclusions : SUBSET (Addrs \X Addrs), protect : Nat,
        redis : BOOLEAN, probing : BOOLEAN, attempts : Nat \ {0}]
  /\ \A s \in Setups : s.first + 2^s.hostBits - 1 <= Top

\* Arithmetic that the proofs need and the prover has no theory of.
ASSUME PowersGrow == \A h \in 0..Width : 2^h > h

VARIABLES
  setup,    \* the pool served and the deployment, fixed
  window,   \* its bounds and the end of what is not reserved, fixed with it
  used,     \* ListActiveIPs
  cool,     \* ListCooldownIPs
  bits,     \* offsets whose bit is 1
  marker,   \* the init key of the bitmap is present
  cursor,   \* rrCursor of the pool, or NoAddr
  sync,     \* payload of a bitmap rebuild under way, or NoAddr
  alive,    \* addresses at which some other host answers probes
  acd,      \* cached probe verdicts: "none", "quiet" or "conflict"
  late,     \* quiet verdicts on their way to the cache
  pick,     \* the last pick: its result, what the scan order was, and the
            \* addresses it was allowed to return
  waited    \* history: picks since an address was last picked or blocked

scanVars == <<setup, window, used, cool, bits, marker, cursor, sync, alive, acd, late,
              pick, waited>>

-----------------------------------------------------------------------------
(* The pool's window.                                                      *)

last == setup.first + 2^setup.hostBits - 1
Within(a) == setup.first <= a /\ a <= last

\* DefaultHostRange: an IPv4 prefix of more than two addresses loses both ends.
DefaultRange ==
  IF setup.v4 /\ setup.hostBits > 1
  THEN <<setup.first + 1, last - 1>> ELSE <<setup.first, last>>

\* A configured end outside the prefix is ignored; an inverted pair falls back.
resolvePoolBounds ==
  LET lo == IF setup.lo \in Addrs /\ Within(setup.lo)
            THEN setup.lo ELSE DefaultRange[1]
      hi == IF setup.hi \in Addrs /\ Within(setup.hi)
            THEN setup.hi ELSE DefaultRange[2]
  IN IF lo > hi THEN DefaultRange ELSE <<lo, hi>>

start == window.start
end   == window.end

\* An exclusive end.
applyReserveWindow_Exclusive(from, to) ==
  LET span == to - from + 1
      kept == span - (span * setup.reserve) \div 100
  IN IF setup.reserve >= 100 \/ kept <= 1 THEN NoAddr ELSE from + kept - 2

\* The end of the part of from..to that is not held in reserve, or NoAddr.
applyReserveWindow(from, to) ==
  LET span == to - from + 1
      kept == span - (span * setup.reserve) \div 100
  IN IF setup.reserve >= 100 \/ kept <= 0 THEN NoAddr ELSE from + kept - 1

allocEnd == window.allocEnd

\* Exclusions inside the prefix that meet the bounds, cut to them.
Clip(e) == <<Max({e[1], start}), Min({e[2], end})>>
buildExclusions ==
  {Clip(e) : e \in {e \in setup.exclusions :
      Within(e[1]) /\ Within(e[2]) /\ e[2] >= start /\ e[1] <= end}}

\* The ranges are sorted by start and the walk stops at the first that begins
\* above the address, which no later one can contain.
isExcluded(a) ==
  \E r \in buildExclusions : r[1] <= a /\ a <= r[2]

\* Neither the network nor the broadcast address of a larger IPv4 prefix.
isUsableHost(a) ==
  Within(a) /\ (setup.v4 /\ setup.hostBits > 1 => a \notin {setup.first, last})

-----------------------------------------------------------------------------
(* The conflict probe.                                                     *)

\* Enabled for the pool: its own setting overrides the global one.
acdEffectiveConfig == setup.probing

\* A host answers one of the ARP or ICMP probes; errors count as silence.
acdProbeAddress(a) == a \in alive

acdProbeFromCache(a) == acd[a]

\* acdCheckCandidate refuses: a cached verdict answers without a probe.
acdRefuses(a) ==
  /\ acdEffectiveConfig
  /\ \/ acdProbeFromCache(a) = "conflict"
     \/ acdProbeFromCache(a) = "none" /\ acdProbeAddress(a)

Refused == {a \in Addrs : acdRefuses(a)}

\* The verdicts after the conflicting addresses of seen were probed.
acdStoreConflictSync(seen) ==
  [a \in Addrs |-> IF a \in seen /\ acdRefuses(a) THEN "conflict" ELSE acd[a]]

\* The quiet verdict of the chosen address is stored by a goroutine.
acdStoreResultAsync(a) ==
  IF setup.probing /\ a \in Addrs /\ acd[a] = "none"
  THEN late \cup {a} ELSE late

-----------------------------------------------------------------------------
(* The bitmap.                                                             *)

AllBits == 0..(end - start)

\* SETNX of the marker, then SET of the payload, which may fail: the bitmap
\* after it, or NoAddr when the call returns an error.
Initialized(fails) ==
  IF marker THEN bits ELSE IF fails THEN NoAddr ELSE AllBits

\* SETBIT through bitmapSetByIP, for an IPv4 address within the bounds.
bitmapSetByIP(b, a, available) ==
  IF ~(setup.redis /\ setup.v4) \/ a < start \/ a > end THEN b
  ELSE IF available THEN b \cup {a - start} ELSE b \ {a - start}

\* BITPOS key 1 from: Redis counts `from' in bytes.
BitPos(b, from) ==
  LET hits == {p \in b : p >= ByteBits * from}
  IN IF hits = {} THEN NoAddr ELSE Min(hits)

\* The cooldown set is not consulted.
Skipped_Cooling(a) == a \in used \/ isExcluded(a)

Skipped(a) == a \in used \/ a \in cool \/ isExcluded(a)

\* bitmapFindAvailableIPv4 on bitmap b: the offsets it visits, from the first
\* set bit on, passing to BITPOS the offset after a skipped address.
bitmapFindAvailableIPv4(b) ==
  LET maxOffset == allocEnd - start
      visit[from \in 0..(2^Width + 1)] ==
        LET p == BitPos(b, from)
        IN IF from > maxOffset \/ p = NoAddr THEN {}
           ELSE IF p > maxOffset THEN {}
           ELSE IF Skipped(start + p) THEN {p} \cup visit[p + 1] ELSE {p}
  IN IF allocEnd = NoAddr \/ b = NoAddr THEN {} ELSE visit[0]

\* Every visited bit is cleared; the last one is the answer unless it was
\* skipped like the others.
Candidate(visited) ==
  LET open == {p \in visited : ~Skipped(start + p)}
  IN IF open = {} THEN NoAddr ELSE start + Min(open)

-----------------------------------------------------------------------------
(* The scans.  `free' is what neither the sets nor a probe refuse.         *)

LowestOf(S) == IF S = {} THEN NoAddr ELSE Min(S)

\* candidate++ after the top address continues at 0.
scanIPv4Range(from, to, free) ==
  IF to < from THEN NoAddr
  ELSE IF free \cap (from..to) # {} THEN Min(free \cap (from..to))
  ELSE IF to = Top THEN LowestOf({a \in Addrs : ~Skipped(a) /\ ~acdRefuses(a)})
  ELSE NoAddr

Sequential(free) == scanIPv4Range(start, allocEnd, free)

normalizePriorityWeight ==
  IF setup.weight = 0 THEN 50 ELSE Min({setup.weight, 100})

\* The first weight percent of the window, then the rest of it.
Priority(free) ==
  LET w     == normalizePriorityWeight
      span  == allocEnd - start + 1
      share == Max({1, (span * w) \div 100})
      split == IF w < 100 THEN Min({start + share - 1, allocEnd})
               ELSE allocEnd
      near  == scanIPv4Range(start, split, free)
  IN IF near # NoAddr \/ split >= allocEnd THEN near
     ELSE scanIPv4Range(split + 1, allocEnd, free)

incrementIPv4_SkipsFirst(a) ==
  IF a = allocEnd THEN start + 1 ELSE a + 1

incrementIPv4(a) ==
  IF a < start \/ a >= allocEnd THEN start ELSE a + 1

roundRobinCursor ==
  IF cursor = NoAddr THEN allocEnd
  ELSE IF cursor < start \/ cursor > allocEnd
       THEN allocEnd ELSE cursor

\* The addresses of one round, in the order the loop visits them.
Round ==
  LET turn[i \in 0..(allocEnd - start + 1)] ==
        IF i = 0 THEN roundRobinCursor ELSE incrementIPv4(turn[i - 1])
  IN [n \in 1..(allocEnd - start + 1) |-> turn[n]]

\* At most one round of the window; the cursor follows what it returns.
RoundRobin(free) ==
  LET round == Round
      hits  == {n \in DOMAIN round : round[n] \in free}
  IN IF hits = {} THEN NoAddr ELSE round[Min(hits)]

\* The fallback loop of pickIPAddress.  An address that answers a probe joins
\* the used and cooldown sets and the scan runs again, so what comes back is
\* the first in scan order that neither refuses.
nextAvailableIPv4(free) ==
  IF allocEnd = NoAddr THEN NoAddr
  ELSE CASE setup.mode = "ROUND_ROBIN" -> RoundRobin(free)
         [] setup.mode = "PRIORITY_WEIGHTED" -> Priority(free)
         [] OTHER -> Sequential(free)

Free == {a \in start..end : ~Skipped(a) /\ ~acdRefuses(a)}

\* The scan comes to a sooner than to b.
Before(a, b) ==
  IF setup.mode = "ROUND_ROBIN"
  THEN LET round == Round
       IN \E n, m \in DOMAIN round : n < m /\ round[n] = a /\ round[m] = b
  ELSE IF (a < start) = (b < start) THEN a < b ELSE b < start

\* What the loop offers to the probe on its way to `found', each time in vain
\* and at the cost of an attempt; when they are used up it ends.
Offered(found) ==
  LET refused == {a \in start..allocEnd :
                    ~Skipped(a) /\ acdRefuses(a) /\ (found # NoAddr => Before(a, found))}
  IN {a \in refused :
        Cardinality({x \in refused : Before(x, a)}) < setup.attempts}

\* The cursor follows every address the scan comes up with, refused or not.
storeRoundRobinCursor(tried, result) ==
  LET round == Round
      at    == {n \in DOMAIN round : round[n] \in tried}
  IN CASE setup.mode # "ROUND_ROBIN" -> cursor
       [] setup.mode = "ROUND_ROBIN" /\ result # NoAddr -> result
       [] OTHER -> IF at = {} THEN cursor ELSE round[Max(at)]

\* A reserve of 100 percent or more is no reserve here.
Usable6 ==
  LET span == end - start + 1
  IN IF setup.reserve < 100 THEN span - (span * setup.reserve) \div 100 ELSE span

\* nextAvailableIPv6 draws at random and may miss what there is; probes are for
\* IPv4 only.
nextAvailableIPv6 ==
  {a \in start..(start + Usable6 - 1) : ~Skipped(a)} \cup {NoAddr}

\* consumed is len(usedSet) + len(cooldownSet).
evaluatePoolThresholds ==
  /\ setup.v4 /\ setup.protect > 0
  /\ 100 * (Cardinality(used) + Cardinality(cool))
       >= setup.protect * (end - start + 1)

-----------------------------------------------------------------------------
(* What a pick may return: written without the code's search.              *)

InWindow(a) ==
  /\ start <= a /\ a <= end
  /\ LET rank == a - start + 1
         span == end - start + 1
     IN rank <= span - (span * setup.reserve) \div 100
OpenAddrs ==
  {a \in Addrs :
     /\ InWindow(a) /\ a \notin used /\ a \notin cool
     /\ \A e \in setup.exclusions :
          Within(e[1]) /\ Within(e[2]) => ~(e[1] <= a /\ a <= e[2])}
AllowedAddrs == {a \in OpenAddrs : setup.v4 => ~acdRefuses(a)}

-----------------------------------------------------------------------------
(* Actions.                                                                *)

NoPick == [result |-> NoAddr, allowed |-> {}, refused |-> 0, how |-> "none"]

ScanInit ==
  /\ setup \in Setups
  /\ window = LET b == resolvePoolBounds
              IN [start |-> b[1], end |-> b[2],
                  allocEnd |-> applyReserveWindow(b[1], b[2])]
  /\ used = {} /\ cool = {} /\ bits = {} /\ marker = FALSE
  /\ cursor = NoAddr /\ sync = NoAddr /\ alive = {} /\ late = {}
  /\ acd = [a \in Addrs |-> "none"]
  /\ pick = NoPick
  /\ waited = [a \in Addrs |-> 0]

AtRest == pick.result = NoAddr

\* The caller looks at the result; the history counts the pick.
Picked(result, how) ==
  /\ pick' = [result |-> result, allowed |-> AllowedAddrs,
              refused |-> Cardinality(OpenAddrs \ AllowedAddrs), how |-> how]
  /\ waited' = [a \in Addrs |->
       IF a = result \/ a \notin AllowedAddrs \/ setup.redis
             \/ setup.mode # "ROUND_ROBIN"
       THEN 0
       ELSE IF how # "scan" THEN waited[a]
       ELSE Min({waited[a] + 1, Top + 1})]

\* The requested address is used when nothing speaks against it.
PickPreferred(a) ==
  /\ AtRest
  /\ isUsableHost(a) /\ start <= a /\ a <= end /\ ~Skipped(a)
  /\ setup.v4 => ~acdRefuses(a)
  /\ Picked(a, "preferred")
  /\ late' = acdStoreResultAsync(a)
  /\ UNCHANGED <<setup, window, used, cool, bits, marker, cursor, sync, alive, acd>>

PickProtected ==
  /\ AtRest /\ evaluatePoolThresholds
  /\ Picked(NoAddr, "protected")
  /\ UNCHANGED <<setup, window, used, cool, bits, marker, cursor, sync, alive, acd, late>>

\* What the bitmap offers is taken unless it answers a probe; otherwise the scan
\* decides.
TakeOffered(offered) ==
  /\ offered # NoAddr /\ offered \notin Refused
  /\ late' = acdStoreResultAsync(offered)
  /\ Picked(offered, "bitmap")
  /\ UNCHANGED <<cursor, acd>>

FallBack(offered) ==
  /\ offered = NoAddr \/ offered \in Refused
  /\ \E found \in {nextAvailableIPv4(Free)} : \E tried \in {Offered(found)} :
     \E result \in {IF Cardinality(tried) < setup.attempts THEN found ELSE NoAddr} :
       /\ cursor' = storeRoundRobinCursor(tried, result)
       /\ acd' = acdStoreConflictSync(tried \cup ({offered} \ {NoAddr}))
       /\ late' = acdStoreResultAsync(result)
       /\ Picked(result, "scan")

PickIPv4 ==
  /\ AtRest /\ setup.v4 /\ ~evaluatePoolThresholds
  /\ \E fails \in BOOLEAN :
     \E b \in {IF setup.redis /\ allocEnd # NoAddr
               THEN Initialized(fails) ELSE NoAddr} :
     \E visited \in {bitmapFindAvailableIPv4(b)} :
        /\ fails => setup.redis /\ ~marker
        /\ marker' = (marker \/ setup.redis)
        /\ bits' = IF b = NoAddr THEN bits ELSE b \ visited
        /\ TakeOffered(Candidate(visited)) \/ FallBack(Candidate(visited))
  /\ UNCHANGED <<setup, window, used, cool, sync, alive>>

PickIPv6 ==
  /\ AtRest /\ ~setup.v4
  /\ \E a \in nextAvailableIPv6 : Picked(a, "random")
  /\ UNCHANGED <<setup, window, used, cool, bits, marker, cursor, sync, alive, acd, late>>

\* bitmapSetByIP(false) and the INSERT.
Assign ==
  /\ ~AtRest /\ Cardinality(used \cup cool) < MaxTaken
  /\ used' = used \cup {pick.result}
  /\ bits' = bitmapSetByIP(bits, pick.result, FALSE)
  /\ pick' = NoPick
  /\ UNCHANGED <<setup, window, cool, marker, cursor, sync, alive, acd, late,
                 waited>>

\* The INSERT fails.  Only the background writer gives the bit back.
AssignFails ==
  /\ ~AtRest
  /\ \E async \in BOOLEAN :
       bits' = bitmapSetByIP(bits, pick.result, async /\ setup.redis)
  /\ pick' = NoPick
  /\ UNCHANGED <<setup, window, used, cool, marker, cursor, sync, alive, acd, late,
                 waited>>

Release(a) ==
  /\ a \in used /\ AtRest
  /\ used' = used \ {a}
  /\ bits' = bitmapSetByIP(bits, a, TRUE)
  /\ UNCHANGED <<setup, window, cool, marker, cursor, sync, alive, acd,
                 late, pick, waited>>

\* A decline or a failed probe starts the cooldown; its bit stays as it is.
Decline(a) ==
  /\ a \in used /\ AtRest
  /\ used' = used \ {a} /\ cool' = cool \cup {a}
  /\ UNCHANGED <<setup, window, bits, marker, cursor, sync, alive, acd,
                 late, pick, waited>>

\* The cooldown runs out or is cleared.
CooldownEnds(a) ==
  /\ a \in cool /\ AtRest
  /\ cool' = cool \ {a}
  /\ UNCHANGED <<setup, window, used, bits, marker, cursor, sync, alive, acd,
                 late, pick, waited>>

\* SyncPoolBitmapFromMySQL, first half: the two queries.
SyncRead ==
  /\ setup.redis /\ setup.v4 /\ sync = NoAddr
  /\ sync' = {p \in AllBits : start + p \notin used \cup cool}
  /\ UNCHANGED <<setup, window, used, cool, bits, marker, cursor, alive, acd,
                 late, pick, waited>>

\* Second half: SET of the whole bitmap, without the pool lock.
SyncWrite ==
  /\ sync # NoAddr
  /\ bits' = sync /\ sync' = NoAddr
  /\ UNCHANGED <<setup, window, used, cool, marker, cursor, alive, acd,
                 late, pick, waited>>

\* Every five minutes, for every pool.
startLeaseBitmapSync == SyncRead \/ SyncWrite

\* The init marker lives 24 hours; Redis may also lose both keys.
MarkerExpires ==
  /\ marker /\ marker' = FALSE
  /\ bits' \in {bits, {}}
  /\ UNCHANGED <<setup, window, used, cool, cursor, sync, alive, acd,
                 late, pick, waited>>

\* A new process: the cursor and the goroutines are gone.
ScanRestart ==
  /\ cursor # NoAddr \/ late # {} \/ sync # NoAddr
  /\ cursor' = NoAddr /\ late' = {} /\ sync' = NoAddr
  /\ pick' = NoPick
  /\ waited' = [a \in Addrs |-> 0]
  /\ UNCHANGED <<setup, window, used, cool, bits, marker, alive, acd>>

\* Another host starts or stops answering at an address of the pool.
HostChanges(a) ==
  /\ setup.probing /\ a \in start..end
  /\ alive' = IF a \in alive THEN {} ELSE {a}
  /\ UNCHANGED <<setup, window, used, cool, bits, marker, cursor, sync, acd, late,
                 pick, waited>>

\* The goroutine of acdStoreResultAsync writes, over whatever is there.
LateVerdict(a) ==
  /\ a \in late
  /\ acd' = [acd EXCEPT ![a] = "quiet"] /\ late' = late \ {a}
  /\ UNCHANGED <<setup, window, used, cool, bits, marker, cursor, sync, alive,
                 pick, waited>>

VerdictExpires(a) ==
  /\ acd[a] # "none"
  /\ acd' = [acd EXCEPT ![a] = "none"]
  /\ UNCHANGED <<setup, window, used, cool, bits, marker, cursor, sync, alive,
                 late, pick, waited>>

ScanNext ==
  \/ PickProtected \/ PickIPv4 \/ PickIPv6 \/ Assign \/ AssignFails
  \/ startLeaseBitmapSync \/ MarkerExpires \/ ScanRestart
  \/ \E a \in Addrs : \/ PickPreferred(a) \/ Release(a) \/ Decline(a)
                      \/ CooldownEnds(a) \/ HostChanges(a) \/ LateVerdict(a)
                      \/ VerdictExpires(a)

ScanSpec == ScanInit /\ [][ScanNext]_scanVars

-----------------------------------------------------------------------------
(* Properties.                                                             *)

\* The window stops short of the top address, where candidate++ wraps to 0.
BelowTop == allocEnd # Top

\* However stale the bitmap is (wiped by its marker's expiry, overwritten by a
\* rebuild that read old rows, holding bits no failed grant gave back),
\* pickIPAddress (internal/lease/service.go) returns an address the pool may
\* hand out now: in the window, not excluded, leased, cooling down or known to
\* be in conflict.
PickSound ==
  pick.result # NoAddr =>
    \/ pick.result \in pick.allowed
    \/ pick.how = "preferred" /\ pick.result \in start..end
    \/ ~BelowTop

\* And bits that no longer say so hide no address: pickIPAddress reports
\* ErrNoAvailableIP for an IPv4 pool only when the pool has none to give, or when
\* as many of its addresses as a pick may try are in use by strangers.
PickComplete ==
  pick.how = "scan" /\ pick.result = NoAddr =>
    pick.allowed = {} \/ pick.refused >= setup.attempts

\* Without the bitmap, nextAvailableIPv4RoundRobin gives every address its
\* turn: one that stays available is picked within one round of the window, as
\* long as the process, and with it the cursor, lives.
RoundRobinTurns ==
  setup.v4 /\ setup.mode = "ROUND_ROBIN" /\ ~setup.redis /\ BelowTop =>
    \A a \in Addrs : waited[a] <= allocEnd - start

\* The selection as a whole: nothing wrong is picked, nothing is held back, and
\* nobody waits for ever.
SelectionSound == PickSound /\ PickComplete /\ RoundRobinTurns
=============================================================================
