------------------------------ MODULE EventOnce -----------------------------
(***************************************************************************)
(* What the idempotency layer promises its callers: of all deliveries of   *)
(* an event one claims it, and the event is handled at most once, by that  *)
(* delivery.  A claimed event need not be handled.                         *)
(***************************************************************************)
EXTENDS Naturals

CONSTANT Events

VARIABLES claimed,  \* events some delivery has claimed
          handled   \* event -> how often its handling was started

vars == <<claimed, handled>>

Init ==
    /\ claimed = {}
    /\ handled = [e \in Events |-> 0]

Claim(e) ==
    /\ e \notin claimed
    /\ claimed' = claimed \union {e}
    /\ UNCHANGED handled

Handle(e) ==
    /\ e \in claimed
    /\ handled[e] = 0
    /\ handled' = [handled EXCEPT ![e] = 1]
    /\ UNCHANGED claimed

Next == \E e \in Events : Claim(e) \/ Handle(e)

Spec == Init /\ [][Next]_vars
=============================================================================
