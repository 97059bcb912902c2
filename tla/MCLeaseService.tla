--------------------------- MODULE MCLeaseService ---------------------------
(* Instances of LeaseService for TLC. *)
EXTENDS LeaseService, TLC

CONSTANTS c1, a1

Symm == Permutations(Requests) \cup Permutations(Clients) \cup Permutations(Addrs)

\* With a static binding the client and the address it names are told apart
\* from the others: only requests are interchangeable.
OneBinding == {<<c1, a1>>}
SymmRequests == Permutations(Requests)
=============================================================================
