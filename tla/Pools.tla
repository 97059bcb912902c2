------------------------------- MODULE Pools -------------------------------
(***************************************************************************)
(* Address pools and static bindings: internal/pool and the routes of      *)
(* http_server.go over it.  A pool is read through a cache keyed by tenant *)
(* and id; the rows themselves carry no tenant (the table has no such      *)
(* column), so a pool that was read keeps an empty tenant and a write of   *)
(* it evicts the wrong key.  A static binding excludes its address from    *)
(* its pool when it is created and gives it back when it is deleted, both  *)
(* as a read of the pool followed by a write of the whole row.             *)
(*                                                                         *)
(* An address is a number, a prefix an interval of them, an exclusion a    *)
(* pair <<first, last>>.  Scopes are 1 GLOBAL, 2 SUBNET, 3 VLAN, 4 PORT.   *)
(***************************************************************************)
EXTENDS Integers, FiniteSets

CONSTANTS Admins,        \* HTTP requests in flight
          PoolIds, Bindings, Addresses,
          PoolRequests,  \* request bodies an operator sends
          NoPool,        \* no parent, nothing cached
          MaxPoolOps     \* bound: requests handled in a behaviour

ASSUME PoolsAssumption == /\ NoPool \notin PoolIds
                          /\ Addresses \subseteq Nat
                          /\ MaxPoolOps \in Nat
                          /\ \A req \in PoolRequests : req.parent \in PoolIds \cup {NoPool}

VARIABLES row,      \* address_pools, by id; NoPool when there is no such row
          cached,   \* the cache entry "pool:<tenant>:<id>"; NoPool when absent
          bound,    \* static_bindings, by id
          admin,    \* what each request is doing, with the pool it has read
          poolOps   \* number of requests so far

poolVars == <<row, cached, bound, admin, poolOps>>

Idle == [at |-> "idle"]
Unbound == [pool |-> NoPool]

PoolsInit == /\ row = [p \in PoolIds |-> NoPool]
             /\ cached = [p \in PoolIds |-> NoPool]
             /\ bound = [b \in Bindings |-> Unbound]
             /\ admin = [a \in Admins |-> Idle]
             /\ poolOps = 0
-----------------------------------------------------------------------------
(* Address arithmetic: a prefix is <<base, bits>> with 2^bits addresses.    *)

MaxAddress(prefix) == prefix[1] + 2 ^ prefix[2] - 1

Contains(prefix, ip) == prefix[1] <= ip /\ ip <= MaxAddress(prefix)

\* The network and broadcast addresses are no hosts when there are more than two.
DefaultHostRange(prefix) ==
    IF prefix[2] > 1 THEN <<prefix[1] + 1, MaxAddress(prefix) - 1>>
                     ELSE <<prefix[1], MaxAddress(prefix)>>

Invalid == [valid |-> FALSE]

\* 0 stands for the empty string: the default applies.
resolveRangeBounds(prefix, lo, hi) ==
    LET default == DefaultHostRange(prefix)
        start == IF lo = 0 THEN default[1] ELSE lo
        end == IF hi = 0 THEN default[2] ELSE hi
    IN  IF Contains(prefix, start) /\ Contains(prefix, end) /\ start <= end
        THEN [valid |-> TRUE, range |-> <<start, end>>] ELSE Invalid

Within(e, range) == range[1] <= e[1] /\ e[1] <= e[2] /\ e[2] <= range[2]

Disjoint(e, f) == e[2] < f[1] \/ f[2] < e[1]

normalizeExclusions_Ends(range, exclusions) ==
    \A e \in exclusions : Within(e, range)

\* The sorted neighbours do not overlap exactly when no two ranges do.
normalizeExclusions(range, exclusions) ==
    /\ \A e \in exclusions : Within(e, range)
    /\ \A e, f \in exclusions : e # f => Disjoint(e, f)

\* A child is one level below its parent; only GLOBAL has no parent.
validateScopeTransition(scope, parent) ==
    IF parent = NoPool THEN scope = 1 ELSE scope = parent.scope + 1

resolveReserve(requested, parent) ==
    IF requested # 0 THEN requested
    ELSE IF parent # NoPool THEN parent.reserve ELSE 10

\* VLAN needs its own id, PORT takes its parent's and needs an endpoint: 0 is no id.
resolveMetadata(req, parent) ==
    CASE req.scope = 3 /\ req.vlan = 0 -> Invalid
      [] req.scope = 4 -> IF /\ parent.vlan # 0
                             /\ req.vlan \in {0, parent.vlan}
                             /\ req.endpoint
                          THEN [valid |-> TRUE, vlan |-> parent.vlan] ELSE Invalid
      [] OTHER -> [valid |-> TRUE, vlan |-> req.vlan]

\* The row that a request with these exclusions makes under this parent, if any.
planPool(req, exclusions, parent) ==
    LET bounds == resolveRangeBounds(req.prefix, req.lo, req.hi)
        reserve == resolveReserve(req.reserve, parent)
    IN  IF /\ validateScopeTransition(req.scope, parent)
           /\ reserve \in 0..50
           /\ bounds.valid
           /\ normalizeExclusions(bounds.range, exclusions)
           /\ resolveMetadata(req, parent).valid
           /\ parent # NoPool =>
                /\ Contains(parent.prefix, req.prefix[1])
                /\ Contains(parent.prefix, MaxAddress(req.prefix))
                /\ Within(bounds.range, parent.range)
        THEN [valid |-> TRUE,
              plan |-> [scope |-> req.scope, parent |-> req.parent, prefix |-> req.prefix,
                        range |-> bounds.range, reserve |-> reserve,
                        vlan |-> resolveMetadata(req, parent).vlan, excluded |-> exclusions]]
        ELSE Invalid
-----------------------------------------------------------------------------
(* The repository.                                                          *)

Fresh(p) == cached[p] = NoPool

\* GetPool: the cached copy if there is one, else the row, which is then cached.
GetPool(p) == IF Fresh(p) THEN row[p] ELSE cached[p]

\* The cache after these pools were read one after another.
Filled(ps) == [p \in PoolIds |-> IF p \in ps THEN GetPool(p) ELSE cached[p]]

\* evictTenant drops every key of the tenant; without a tenant it drops none of them.
evictTenant(known) == IF known THEN [p \in PoolIds |-> NoPool] ELSE cached

InsertPool(p, r) == /\ row' = [row EXCEPT ![p] = r]
                    /\ cached' = evictTenant(TRUE)

UpdatePoolRow_NoTenant(p, r, known) ==
    /\ row' = IF row[p] # NoPool /\ (r.parent # NoPool => row[r.parent] # NoPool)
              THEN [row EXCEPT ![p] = r] ELSE row
    /\ cached' = cached

\* An UPDATE of a row that is gone changes nothing.  A parent must exist.
UpdatePoolRow(p, r, known) ==
    /\ row' = IF row[p] # NoPool /\ (r.parent # NoPool => row[r.parent] # NoPool)
              THEN [row EXCEPT ![p] = r] ELSE row
    /\ cached' = evictTenant(known)

\* Bindings and children refer to the row: the database refuses to delete it.
Referenced(p) == \/ \E b \in Bindings : bound[b].pool = p
                 \/ \E q \in PoolIds : row[q] # NoPool /\ row[q].parent = p

DeletePoolRow(p) == /\ row' = IF Referenced(p) THEN row ELSE [row EXCEPT ![p] = NoPool]
                    /\ cached' = evictTenant(TRUE)

InsertBinding(b, r) == bound' = [bound EXCEPT ![b] = r]

UpdateBindingRow(b, r) == bound' = [bound EXCEPT ![b] = r]

DeleteBindingRow(b) == bound' = [bound EXCEPT ![b] = Unbound]

ListBindingsByPool(p) == {b \in Bindings : bound[b].pool = p}

ListPoolsByFamily == {p \in PoolIds : row[p] # NoPool}
-----------------------------------------------------------------------------
(* The service, as the routes call it.                                      *)

Starts(a) == /\ admin[a] = Idle
             /\ poolOps < MaxPoolOps
             /\ poolOps' = poolOps + 1

Parent(req) == IF req.parent = NoPool THEN NoPool ELSE GetPool(req.parent)

\* POST /pools: a request refused on the way changes nothing but the cache.
CreatePool(a, p, req) ==
    /\ Starts(a)
    /\ row[p] = NoPool
    /\ req.parent # NoPool => Parent(req) # NoPool
    /\ LET planned == planPool(req, req.excluded, Parent(req)) IN
       /\ planned.valid
       /\ InsertPool(p, planned.plan)
    /\ UNCHANGED <<bound, admin>>

\* PATCH /pools: the pool and its parent are read, possibly from the cache ...
UpdatePoolRead(a, p, req) ==
    /\ Starts(a)
    /\ GetPool(p) # NoPool
    /\ req.parent # p
    /\ req.parent # NoPool => Parent(req) # NoPool
    /\ LET kept == IF req.excluded = {} THEN GetPool(p).excluded ELSE req.excluded
           planned == planPool(req, kept, Parent(req)) IN
       /\ planned.valid
       /\ admin' = [admin EXCEPT ![a] = [at |-> "update", pool |-> p, new |-> planned.plan]]
    /\ cached' = Filled({p, req.parent} \ {NoPool})
    /\ UNCHANGED <<row, bound>>

\* ... and the merged row is written under the caller's tenant.
UpdatePoolWrite(a) ==
    /\ admin[a].at = "update"
    /\ UpdatePoolRow(admin[a].pool, admin[a].new, TRUE)
    /\ admin' = [admin EXCEPT ![a] = Idle]
    /\ UNCHANGED <<bound, poolOps>>

DeletePool(a, p) == /\ Starts(a)
                    /\ row[p] # NoPool
                    /\ DeletePoolRow(p)
                    /\ UNCHANGED <<bound, admin>>

\* The one pool whose prefix holds the address; several, or none, is an error.
resolvePoolByIP(ip) == {p \in ListPoolsByFamily : Contains(row[p].prefix, ip)}

\* POST /bindings: the row goes in, in the pool the caller names (whatever its
\* prefix), then the address is excluded.  Whoever reads
\* the pool from the cache may bind in a pool that is gone: the insert is refused.
CreateBinding(a, b, p, ip) ==
    /\ Starts(a)
    /\ bound[b] = Unbound
    /\ GetPool(p) # NoPool /\ row[p] # NoPool
    /\ InsertBinding(b, [pool |-> p, ip |-> ip, status |-> "offline"])
    /\ cached' = Filled({p})
    /\ admin' = [admin EXCEPT ![a] = [at |-> "exclude", pool |-> p, ip |-> ip]]
    /\ UNCHANGED row

\* autoExcludeBindingIP reads the pool and decides; an error is only logged.
autoExcludeBindingIP(pool, ip) ==
    IF \/ ip < pool.range[1] \/ pool.range[2] < ip
       \/ \E e \in pool.excluded : e[1] <= ip /\ ip <= e[2]
       \/ ~normalizeExclusions(pool.range, pool.excluded \cup {<<ip, ip>>})
    THEN pool
    ELSE [pool EXCEPT !.excluded = @ \cup {<<ip, ip>>}]

\* autoUnexcludeBindingIP keeps the exclusion while a binding has the address.
autoUnexcludeBindingIP(pool, p, ip) ==
    IF \E b \in ListBindingsByPool(p) : bound[b].ip = ip THEN pool
    ELSE [pool EXCEPT !.excluded = @ \ {<<ip, ip>>}]

\* Both read the pool first and write it later, if there is anything to write.
ReadForExclusion(a) ==
    /\ admin[a].at \in {"exclude", "unexclude"}
    /\ LET p == admin[a].pool
           old == GetPool(p)
           new == IF old = NoPool THEN old
                  ELSE IF admin[a].at = "exclude" THEN autoExcludeBindingIP(old, admin[a].ip)
                       ELSE autoUnexcludeBindingIP(old, p, admin[a].ip)
       IN  admin' = [admin EXCEPT ![a] = IF new = old THEN Idle
                                         ELSE [at |-> "write", pool |-> p, new |-> new]]
    /\ cached' = Filled({admin[a].pool})
    /\ UNCHANGED <<row, bound, poolOps>>

\* The pool that was read has no tenant: its cache entry outlives the write.
WriteExclusion(a) ==
    /\ admin[a].at = "write"
    /\ UpdatePoolRow(admin[a].pool, admin[a].new, FALSE)
    /\ admin' = [admin EXCEPT ![a] = Idle]
    /\ UNCHANGED <<bound, poolOps>>

\* PATCH /bindings: another address or pool, and no exclusion is touched.
UpdateBinding(a, b, p, ip) ==
    /\ Starts(a)
    /\ bound[b] # Unbound
    /\ GetPool(p) # NoPool /\ row[p] # NoPool
    /\ UpdateBindingRow(b, [bound[b] EXCEPT !.pool = p, !.ip = ip])
    /\ cached' = Filled({p})
    /\ UNCHANGED <<row, admin>>

\* DELETE /bindings: the row goes, then its address is given back.
DeleteBinding(a, b) ==
    /\ Starts(a)
    /\ bound[b] # Unbound
    /\ DeleteBindingRow(b)
    /\ admin' = [admin EXCEPT ![a] = [at |-> "unexclude", pool |-> bound[b].pool,
                                      ip |-> bound[b].ip]]
    /\ UNCHANGED <<row, cached>>

\* The routes of the resource API.  A binding's request names its pool; a PATCH of a
\* pool reads it for the audit record before the service reads it again.
postPool(a, p, req) == CreatePool(a, p, req)
patchPool(a, p, req) == GetPool(p) # NoPool /\ UpdatePoolRead(a, p, req)
postBinding(a, b, p, ip) == CreateBinding(a, b, p, ip)
patchBinding(a, b, p, ip) == UpdateBinding(a, b, p, ip)
deleteBinding(a, b) == DeleteBinding(a, b)

\* A device was seen at the address: FindBinding, then its status is set.
RecordBindingSeen(b) ==
    /\ bound[b] # Unbound
    /\ bound' = [bound EXCEPT ![b].status = "online"]
    /\ UNCHANGED <<row, cached, admin, poolOps>>

CacheExpires(p) == /\ cached[p] # NoPool
                   /\ cached' = [cached EXCEPT ![p] = NoPool]
                   /\ UNCHANGED <<row, bound, admin, poolOps>>

PoolsNext ==
    \/ \E a \in Admins :
        \/ \E p \in PoolIds, req \in PoolRequests :
             postPool(a, p, req) \/ patchPool(a, p, req)
        \/ UpdatePoolWrite(a) \/ ReadForExclusion(a) \/ WriteExclusion(a)
        \/ \E p \in PoolIds : DeletePool(a, p)
        \/ \E b \in Bindings : deleteBinding(a, b)
        \/ \E b \in Bindings, ip \in Addresses, p \in PoolIds :
             postBinding(a, b, p, ip) \/ patchBinding(a, b, p, ip)
    \/ \E b \in Bindings : RecordBindingSeen(b)
    \/ \E p \in PoolIds : CacheExpires(p)

PoolsSpec == PoolsInit /\ [][PoolsNext]_poolVars
-----------------------------------------------------------------------------

\* Whatever is merged from a stale copy, a stored pool is one that planPool would
\* accept: its range lies in its prefix and its exclusions are disjoint parts of
\* the range (pool/service.go, normalizeExclusions on every path that writes).
PoolSound ==
    \A p \in PoolIds : row[p] # NoPool =>
        /\ Contains(row[p].prefix, row[p].range[1])
        /\ Contains(row[p].prefix, row[p].range[2])
        /\ \A e \in row[p].excluded : Within(e, row[p].range)
        /\ \A e, f \in row[p].excluded : e # f => Disjoint(e, f)
        /\ (row[p].parent = NoPool <=> row[p].scope = 1)

=============================================================================
