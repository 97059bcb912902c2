----------------------------- MODULE PoolRoutes -----------------------------
(***************************************************************************)
(* The console's own pool operations (core_ops_routes.go) over the pool    *)
(* service: creation by capacity, resizing, realignment, deletion and the  *)
(* CSV import, whose rows are created one by one behind an overlap check   *)
(* on a list read once, and whose answer is kept under the caller's        *)
(* idempotency key.                                                        *)
(***************************************************************************)
EXTENDS Pools, Sequences

CONSTANTS Files,     \* CSV files: sequences of pool requests
          ImportKeys,
          Deltas     \* capacity changes an operator asks for

FileRows == UNION {{file[i] : i \in DOMAIN file} : file \in Files}

ASSUME RoutesAssumption ==
    /\ Files \subseteq Seq(FileRows)
    /\ \A req \in FileRows : req.parent \in PoolIds \cup {NoPool}

VARIABLES answered   \* idempotency keys whose answer is kept

routeVars == <<poolVars, answered>>

RoutesInit == PoolsInit /\ answered = {}
-----------------------------------------------------------------------------
prefixesOverlap(x, y) == x[1] <= MaxAddress(y) /\ y[1] <= MaxAddress(x)

findOverlappingPrefix(known, prefix) == \E k \in known : prefixesOverlap(k, prefix)

ipv4CapacityBetween(start, end) == end - start + 1

ipv4CapacityBounds(prefix) ==
    ipv4CapacityBetween(DefaultHostRange(prefix)[1], DefaultHostRange(prefix)[2])

offsetIPv4(start, offset) == start + offset

CalculatePoolCapacity(pool) == ipv4CapacityBetween(pool.range[1], pool.range[2])

\* A pool as a request to write it again unchanged.
poolUpdateRequestFromModel(pool) ==
    [scope |-> pool.scope, parent |-> pool.parent, prefix |-> pool.prefix,
     lo |-> pool.range[1], hi |-> pool.range[2], reserve |-> pool.reserve,
     vlan |-> pool.vlan, endpoint |-> pool.scope = 4, excluded |-> pool.excluded]

\* POST by prefix and capacity: a GLOBAL pool from the first host on.
handleDHCPPoolsCreate(a, p, prefix, capacity) ==
    /\ capacity \in 1..ipv4CapacityBounds(prefix)
    /\ LET start == DefaultHostRange(prefix)[1] IN
       CreatePool(a, p, [scope |-> 1, parent |-> NoPool, prefix |-> prefix, lo |-> start,
                         hi |-> offsetIPv4(start, capacity - 1), reserve |-> 10, vlan |-> 0,
                         endpoint |-> FALSE, excluded |-> {}])
    /\ UNCHANGED answered

\* PATCH by a capacity difference moves the end of the range, within the hosts left.
handleDHCPPoolsUpdate(a, p, delta) ==
    /\ GetPool(p) # NoPool
    /\ LET pool == GetPool(p)
           target == CalculatePoolCapacity(pool) + delta
           most == ipv4CapacityBetween(pool.range[1], DefaultHostRange(pool.prefix)[2]) IN
       /\ target \in 1..most
       /\ UpdatePoolRead(a, p, [poolUpdateRequestFromModel(pool) EXCEPT
                                  !.hi = offsetIPv4(pool.range[1], target - 1)])
    /\ UNCHANGED answered

\* "Realign" writes the pool back as it was read.
handleDHCPPoolsReconcile(a, p) ==
    /\ GetPool(p) # NoPool
    /\ UpdatePoolRead(a, p, poolUpdateRequestFromModel(GetPool(p)))
    /\ UNCHANGED answered

handleDHCPPoolDelete(a, p) == /\ GetPool(p) # NoPool
                              /\ DeletePool(a, p)
                              /\ UNCHANGED answered

\* The console may leave the pool out: it is then the only one that has the address.
handleCoreBindingsCreate(a, b, ip) ==
    \E p \in PoolIds : resolvePoolByIP(ip) = {p} /\ CreateBinding(a, b, p, ip) /\ UNCHANGED answered

handleCoreBindingsUpdate(a, b, ip) ==
    \E p \in PoolIds : resolvePoolByIP(ip) = {p} /\ UpdateBinding(a, b, p, ip) /\ UNCHANGED answered

handleCoreBindingsDelete(a, b) == DeleteBinding(a, b) /\ UNCHANGED answered

\* Reservations are bindings under another name; the service takes only MAC ones.
handleDHCPReservationCreate(a, b, p, ip, type) ==
    type = "MAC" /\ CreateBinding(a, b, p, ip) /\ UNCHANGED answered

handleDHCPReservationUpdate(a, b, p, ip, type) ==
    type = "MAC" /\ UpdateBinding(a, b, p, ip) /\ UNCHANGED answered

handleDHCPReservationDelete(a, b) == DeleteBinding(a, b) /\ UNCHANGED answered
-----------------------------------------------------------------------------
(* The import.                                                              *)

ListPools == {row[p].prefix : p \in ListPoolsByFamily}

\* A key whose answer is kept is replayed; otherwise the pools are listed once.
ImportStart(a, key, file) ==
    /\ Starts(a)
    /\ key \notin answered
    /\ admin' = [admin EXCEPT ![a] = [at |-> "import", key |-> key, rows |-> file,
                                      known |-> ListPools]]
    /\ UNCHANGED <<row, cached, bound, answered>>

Known_Listed(known, prefix) == known

\* The prefix counts as taken from here on, even if the creation then fails.
Known(known, prefix) == known \cup {prefix}

\* One row: refused when it overlaps, else created; a failure is only counted.
ImportRow(a, p) ==
    /\ admin[a].at = "import" /\ admin[a].rows # <<>>
    /\ row[p] = NoPool
    /\ LET req == Head(admin[a].rows)
           overlap == findOverlappingPrefix(admin[a].known, req.prefix)
           planned == planPool(req, req.excluded, Parent(req))
           created == /\ ~overlap
                      /\ req.parent # NoPool => Parent(req) # NoPool
                      /\ planned.valid
       IN  /\ IF created THEN InsertPool(p, planned.plan) ELSE UNCHANGED <<row, cached>>
           /\ admin' = [admin EXCEPT
                ![a].rows = Tail(@),
                ![a].known = IF overlap THEN @ ELSE Known(@, req.prefix)]
    /\ UNCHANGED <<bound, poolOps, answered>>

ImportEnd(a) ==
    /\ admin[a].at = "import" /\ admin[a].rows = <<>>
    /\ answered' = answered \cup {admin[a].key}
    /\ admin' = [admin EXCEPT ![a] = Idle]
    /\ UNCHANGED <<row, cached, bound, poolOps>>

AnswerExpires(key) == /\ key \in answered
                      /\ answered' = answered \ {key}
                      /\ UNCHANGED poolVars

RoutesNext ==
    \/ PoolsNext /\ UNCHANGED answered
    \/ \E a \in Admins, p \in PoolIds :
        \/ \E req \in PoolRequests, capacity \in 1..3 :
             handleDHCPPoolsCreate(a, p, req.prefix, capacity)
        \/ \E delta \in Deltas : handleDHCPPoolsUpdate(a, p, delta)
        \/ handleDHCPPoolsReconcile(a, p) \/ handleDHCPPoolDelete(a, p)
        \/ ImportRow(a, p)
    \/ \E a \in Admins, b \in Bindings :
        \/ handleCoreBindingsDelete(a, b) \/ handleDHCPReservationDelete(a, b)
        \/ \E ip \in Addresses :
            \/ handleCoreBindingsCreate(a, b, ip) \/ handleCoreBindingsUpdate(a, b, ip)
            \/ \E p \in PoolIds, type \in {"MAC", "CLIENT_ID"} :
                 \/ handleDHCPReservationCreate(a, b, p, ip, type)
                 \/ handleDHCPReservationUpdate(a, b, p, ip, type)
    \/ \E a \in Admins : \/ \E key \in ImportKeys, f \in Files : ImportStart(a, key, f)
                         \/ ImportEnd(a)
    \/ \E key \in ImportKeys : AnswerExpires(key)

RoutesSpec == RoutesInit /\ [][RoutesNext]_routeVars
-----------------------------------------------------------------------------
\* Rows of one file are created against a list read before the first of them, yet
\* with one request at a time an import never adds a pool over one that exists,
\* neither an older one nor one from the same file.
ImportDisjoint ==
    [][\A a \in Admins, p, q \in PoolIds :
         admin[a].at = "import" /\ row[p] = NoPool /\ row'[p] # NoPool
            /\ q # p /\ row[q] # NoPool => ~prefixesOverlap(row'[p].prefix, row[q].prefix)]_routeVars
=============================================================================
