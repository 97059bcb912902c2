------------------------------ MODULE LeaseFSM ------------------------------
(***************************************************************************)
(* The DHCPv4 lease state machine: the transition table of                 *)
(* internal/dhcpv4/leasefsm/fsm.go and the rules of                        *)
(* internal/lease/dhcpv4_fsm.go that apply it to a stored lease record.    *)
(*                                                                         *)
(* A lease record l has the fields                                         *)
(*   state : the `state' column (ACTIVE, RELEASED, COOLDOWN),              *)
(*   fsm   : the FSM state kept in the session_continuity JSON column, or  *)
(*           "none" when that column does not hold a known state,          *)
(*   exp   : expires_at,     cool : cooldown_until (0 when NULL),          *)
(* and t is the value of time.Now() at the call.                           *)
(***************************************************************************)
EXTENDS Integers

FSMStates == {"Init", "Offered", "Bound", "Renewing", "Rebinding",
              "Expired", "Released"}

\* allowedTransitions: the successors of every state.
Allowed ==
  [Init      |-> {"Offered"},
   Offered   |-> {"Bound", "Expired"},
   Bound     |-> {"Renewing", "Rebinding", "Expired", "Released"},
   Renewing  |-> {"Bound", "Rebinding", "Expired", "Released"},
   Rebinding |-> {"Bound", "Expired", "Released"},
   Expired   |-> {"Init", "Released"},
   Released  |-> {"Init"}]

\* ValidateTransition returns nil.
ValidTransition(from, to) == from = to \/ to \in Allowed[from]

\* dhcpv4DeriveFallbackState: used when no known state is stored.
FallbackState(l, t) ==
  IF l.state = "RELEASED" THEN "Released"
  ELSE IF l.exp < t THEN "Expired" ELSE "Bound"

\* dhcpv4LeaseFSMStateFromLease.
StateFromLease(l, t) ==
  IF l.fsm \in FSMStates THEN l.fsm ELSE FallbackState(l, t)

\* The state dhcpv4TransitionLeaseState starts from: an offer always restarts
\* at Init, whatever is stored.
CurrentState(l, target, t) ==
  IF target = "Offered" THEN "Init" ELSE StateFromLease(l, t)

\* dhcpv4TransitionLeaseState does not return an error.
TransitionAllowed(l, target, t) ==
  ValidTransition(CurrentState(l, target, t), target)

\* dhcpv4TransitionLeaseState returns updated = true.
TransitionUpdates(l, target, t) ==
  \/ CurrentState(l, target, t) # target
  \/ (l.state = "RELEASED") # (target = "Released")

\* The record dhcpv4TransitionLeaseState leaves behind when it updates.
TransitionLease(l, target, t) ==
  IF target = "Released"
  THEN [l EXCEPT !.fsm = target, !.state = "RELEASED", !.exp = t, !.cool = 0]
  ELSE [l EXCEPT !.fsm = target,
                 !.state = IF @ = "RELEASED" THEN "ACTIVE" ELSE @]
=============================================================================
