---------------------------- MODULE AddressLedger ----------------------------
(***************************************************************************)
(* What address allocation promises, without requests, caches or locks:    *)
(* an address is granted to a new lease only while every lease that still  *)
(* holds it was brought back behind the allocator's back.                  *)
(***************************************************************************)
CONSTANTS Addrs, LeaseIds

VARIABLES
  holders,  \* per address: the leases that hold it
  back      \* leases that a later write has brought back

vars == <<holders, back>>

Init ==
  /\ holders = [a \in Addrs |-> {}]
  /\ back = {}

\* A new lease gets an address nobody else was granted.
Grant(a, i) ==
  /\ holders[a] \subseteq back
  /\ \A b \in Addrs : i \notin holders[b]
  /\ holders' = [holders EXCEPT ![a] = @ \cup {i}]
  /\ UNCHANGED back

\* A lease stops holding its address.
Drop(a, i) ==
  /\ i \in holders[a]
  /\ holders' = [holders EXCEPT ![a] = @ \ {i}]
  /\ UNCHANGED back

\* A lease that did not hold its address comes back, to hold it again or to
\* sit in cooldown.
BringBack(a, i) ==
  /\ i \notin holders[a]
  /\ back' = back \cup {i}
  /\ \/ holders' = [holders EXCEPT ![a] = @ \cup {i}]
     \/ UNCHANGED holders

Next == \E a \in Addrs, i \in LeaseIds : Grant(a, i) \/ Drop(a, i) \/ BringBack(a, i)

Spec == Init /\ [][Next]_vars
=============================================================================
