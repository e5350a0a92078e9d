------------------------ MODULE HubSpotWebhookProofs ------------------------
(***************************************************************************)
(* Proofs about HubSpotWebhook, for every set of events, every batches,    *)
(* any number of instances and any of the failures switched on: the type   *)
(* invariant, that an event is handled at most once, and that the pipeline *)
(* implements EventOnce.                                                   *)
(***************************************************************************)
EXTENDS HubSpotWebhook, TLAPS

-----------------------------------------------------------------------------
(* The type invariant. *)

\* One cell of pc changes.
LEMMA GotoFacts ==
    ASSUME TypeOK, NEW p \in Processes, NEW m \in Messages, NEW e \in Events,
           NEW step \in Steps, Goto(p, m, e, step)
    PROVE  /\ pc' \in [Processes -> [Messages -> [Events -> Steps]]]
           /\ \A q \in Processes, n \in Messages, f \in Events :
                pc'[q][n][f] = IF q = p /\ n = m /\ f = e THEN step ELSE pc[q][n][f]
  BY DEF TypeOK, Goto

\* The events of the messages taken up are to be claimed, nothing else moves.
LEMMA TakenUpFacts ==
    ASSUME TypeOK, NEW p \in Processes, NEW B \in SUBSET Messages,
           pc' = [pc EXCEPT ![p] = TakenUp(p, B)]
    PROVE  /\ pc' \in [Processes -> [Messages -> [Events -> Steps]]]
           /\ \A q \in Processes, n \in Messages, f \in Events :
                pc'[q][n][f] \in {pc[q][n][f], "claim", "idle"}
<1>1. pc \in [Processes -> [Messages -> [Events -> Steps]]]
  BY DEF TypeOK
<1>2. TakenUp(p, B) \in [Messages -> [Events -> Steps]]
  BY <1>1 DEF TakenUp, Steps
<1>3. \A n \in Messages, f \in Events :
        TakenUp(p, B)[n][f] \in {pc[p][n][f], "claim", "idle"}
  BY <1>1 DEF TakenUp
<1> QED
  BY <1>1, <1>2, <1>3

LEMMA InitTypeOK == Init => TypeOK
  BY BoundsAssumption DEF Init, TypeOK, Statuses, Steps

\* What becomes of a message stays within the statuses.
LEMMA SettledFacts ==
    ASSUME TypeOK, NEW p \in Processes, NEW m \in Messages
    PROVE  Settled(p, m) \in Statuses
  BY DEF TypeOK, Settled, Statuses

LEMMA TaskTypeOK ==
    ASSUME TypeOK, NEW p \in Processes, NEW m \in Messages, NEW e \in Events,
           TaskStep(p, m, e)
    PROVE  TypeOK'
<1>1. CASE MarkProcessed(p, m, e)
  BY <1>1, GotoFacts DEF MarkProcessed, TypeOK, Steps
<1>2. CASE MarkFailsOpen(p, m, e)
  BY <1>2, GotoFacts DEF MarkFailsOpen, TypeOK, Steps
<1>3. CASE CheckSeen(p, m, e)
  BY <1>3, GotoFacts DEF CheckSeen, TypeOK, Steps
<1>4. CASE Enter(p, m, e)
  BY <1>4, GotoFacts DEF Enter, TypeOK, Steps
<1>5. CASE HandlerReturns(p, m, e)
  BY <1>5, GotoFacts DEF HandlerReturns, TypeOK, Steps
<1>6. CASE HandlerRaises(p, m, e)
  BY <1>6, GotoFacts DEF HandlerRaises, TypeOK, Steps
<1> QED
  BY <1>1, <1>2, <1>3, <1>4, <1>5, <1>6 DEF TaskStep

LEMMA StepTypeOK == TypeOK /\ [Next]_vars => TypeOK'
<1> SUFFICES ASSUME TypeOK, [Next]_vars PROVE TypeOK'
  OBVIOUS
<1> USE BoundsAssumption
<1>1. ASSUME NEW m \in Messages, Publish(m) PROVE TypeOK'
  BY <1>1 DEF Publish, TypeOK, Statuses
<1>2. ASSUME NEW m \in Messages, Reappear(m) PROVE TypeOK'
  BY <1>2 DEF Reappear, TypeOK, Statuses
<1>3. ASSUME NEW m \in Messages, NEW p \in Processes, RunLocally(m, p) PROVE TypeOK'
  <2>1. pc' = [pc EXCEPT ![p] = TakenUp(p, {m})]
    BY <1>3 DEF RunLocally
  <2> {m} \in SUBSET Messages
    OBVIOUS
  <2>2. pc' \in [Processes -> [Messages -> [Events -> Steps]]]
    BY <2>1, TakenUpFacts
  <2> QED
    BY <1>3, <2>2 DEF RunLocally, TypeOK, Statuses
<1>4. ASSUME NEW m \in Messages, NEW p \in Processes, DispatchFails(p, m) PROVE TypeOK'
  BY <1>4 DEF DispatchFails, TypeOK, Steps
<1>5. ASSUME NEW p \in Processes, NEW B \in SUBSET Messages, Receive(p, B) PROVE TypeOK'
  <2>1. pc' = [pc EXCEPT ![p] = TakenUp(p, B)]
    BY <1>5 DEF Receive
  <2>2. pc' \in [Processes -> [Messages -> [Events -> Steps]]]
    BY <2>1, TakenUpFacts
  <2>3. receives' \in [Messages -> 0..MaxReceives]
    BY <1>5 DEF Receive, TypeOK
  <2>4. status' \in [Messages -> Statuses]
    BY <1>5 DEF Receive, TypeOK, Statuses
  <2> QED
    BY <1>5, <2>2, <2>3, <2>4 DEF Receive, TypeOK
<1>6. ASSUME NEW p \in Processes, EndBatch(p) PROVE TypeOK'
  BY <1>6, SettledFacts DEF EndBatch, TypeOK, Steps
<1>7. ASSUME NEW p \in Processes, Crash(p) PROVE TypeOK'
  BY <1>7 DEF Crash, TypeOK, Statuses, Steps
<1>8. ASSUME NEW p \in Processes, NEW m \in Messages, NEW e \in Events, TaskStep(p, m, e)
      PROVE TypeOK'
  BY <1>8, TaskTypeOK
<1>9. ASSUME NEW p \in Processes, NEW e \in Events, Forget(p, e) PROVE TypeOK'
  BY <1>9 DEF Forget, TypeOK
<1>10. CASE UNCHANGED vars
  BY <1>10 DEF vars, TypeOK
<1> QED
  BY <1>1, <1>2, <1>3, <1>4, <1>5, <1>6, <1>7, <1>8, <1>9, <1>10 DEF Next, Tasks

\* Every reachable state is well typed; in particular no message is received more
\* often than the redrive limit allows.
THEOREM TypeCorrect == Spec => []TypeOK
  BY InitTypeOK, StepTypeOK, PTL DEF Spec

-----------------------------------------------------------------------------
(* At most once. *)

\* This delivery of e has got past the claim and has not been handled yet.
Owes(p, m, e) == pc[p][m][e] \in {"check", "wait"}

\* HandledAtMostOnce is not inductive: what keeps a second handling away is that
\* only one delivery can be past the claim, and only before the first handling.
ClaimInv ==
    /\ TypeOK
    /\ \A e \in Events \ opened :
         /\ handled[e] <= 1
         /\ e \notin processed => handled[e] = 0
         /\ \A p \in Processes, m \in Messages :
              Owes(p, m, e) => e \in processed /\ handled[e] = 0
         /\ \A p, q \in Processes, m, n \in Messages :
              Owes(p, m, e) /\ Owes(q, n, e) => p = q /\ m = n

\* A step that neither claims nor starts an event, and puts none past its claim.
Quiet ==
    /\ UNCHANGED <<processed, opened, handled>>
    /\ \A p \in Processes, m \in Messages, e \in Events : Owes(p, m, e)' => Owes(p, m, e)

LEMMA InitClaimInv == Init => ClaimInv
<1> SUFFICES ASSUME Init PROVE ClaimInv
  OBVIOUS
<1>1. TypeOK
  BY InitTypeOK
<1> QED
  BY <1>1 DEF Init, ClaimInv, Owes

LEMMA QuietClaimInv ==
    ASSUME ClaimInv, Quiet, TypeOK'
    PROVE  ClaimInv'
  BY DEF ClaimInv, Quiet

\* Everything but the claim of an unclaimed event, the claim that fails open and
\* the start of the handler is quiet.
LEMMA TaskQuiet ==
    ASSUME TypeOK, NEW p \in Processes, NEW m \in Messages, NEW e \in Events,
           \/ MarkProcessed(p, m, e) /\ e \in processed
           \/ CheckSeen(p, m, e)
           \/ HandlerReturns(p, m, e)
           \/ HandlerRaises(p, m, e)
    PROVE  Quiet
<1>1. CASE MarkProcessed(p, m, e) /\ e \in processed
  <2>1. Goto(p, m, e, "duplicate") /\ "duplicate" \in Steps
    BY <1>1 DEF MarkProcessed, Steps
  <2>2. processed' = processed /\ opened' = opened /\ handled' = handled
    BY <1>1 DEF MarkProcessed
  <2> QED
    BY <2>1, <2>2, GotoFacts DEF Quiet, Owes
<1>2. CASE CheckSeen(p, m, e)
  <2>1. /\ pc[p][m][e] = "check"
        /\ Goto(p, m, e, "duplicate") \/ Goto(p, m, e, "wait")
        /\ {"duplicate", "wait"} \subseteq Steps
        /\ UNCHANGED <<processed, opened, handled>>
    BY <1>2 DEF CheckSeen, Steps
  <2>2. CASE Goto(p, m, e, "duplicate")
    BY <2>1, <2>2, GotoFacts DEF Quiet, Owes
  <2>3. CASE Goto(p, m, e, "wait")
    BY <2>1, <2>3, GotoFacts DEF Quiet, Owes
  <2> QED
    BY <2>1, <2>2, <2>3
<1>3. CASE HandlerReturns(p, m, e)
  <2>1. /\ Goto(p, m, e, "done") /\ "done" \in Steps
        /\ UNCHANGED <<processed, opened, handled>>
    BY <1>3 DEF HandlerReturns, Steps
  <2> QED
    BY <2>1, GotoFacts DEF Quiet, Owes
<1>4. CASE HandlerRaises(p, m, e)
  <2>1. /\ Goto(p, m, e, "failed") /\ "failed" \in Steps
        /\ UNCHANGED <<processed, opened, handled>>
    BY <1>4 DEF HandlerRaises, Steps
  <2> QED
    BY <2>1, GotoFacts DEF Quiet, Owes
<1> QED
  BY <1>1, <1>2, <1>3, <1>4

\* The claim of e succeeds: this delivery is the only one past it.
Claims(p, m, e) ==
    /\ e \notin processed
    /\ processed' = processed \union {e}
    /\ UNCHANGED <<opened, handled>>
    /\ \A q \in Processes, n \in Messages, f \in Events :
         Owes(q, n, f)' => Owes(q, n, f) \/ (q = p /\ n = m /\ f = e)

\* The claim of e fails open.
Opens(p, m, e) ==
    /\ opened' = opened \union {e}
    /\ UNCHANGED <<processed, handled>>
    /\ \A q \in Processes, n \in Messages, f \in Events :
         Owes(q, n, f)' => Owes(q, n, f) \/ f = e

\* The handler of e is started.
Starts(p, m, e) ==
    /\ Owes(p, m, e)
    /\ handled' = [handled EXCEPT ![e] = @ + 1]
    /\ UNCHANGED <<processed, opened>>
    /\ \A q \in Processes, n \in Messages, f \in Events :
         Owes(q, n, f)' => Owes(q, n, f) /\ ~ (q = p /\ n = m /\ f = e)

LEMMA TaskEffects ==
    ASSUME TypeOK, NEW p \in Processes, NEW m \in Messages, NEW e \in Events,
           TaskStep(p, m, e)
    PROVE  Quiet \/ Claims(p, m, e) \/ Opens(p, m, e) \/ Starts(p, m, e)
<1>1. CASE MarkProcessed(p, m, e) /\ e \notin processed
  <2>1. Goto(p, m, e, "check") /\ "check" \in Steps
    BY <1>1 DEF MarkProcessed, Steps
  <2>2. processed' = processed \union {e} /\ opened' = opened /\ handled' = handled
    BY <1>1 DEF MarkProcessed
  <2> QED
    BY <1>1, <2>1, <2>2, GotoFacts DEF Claims, Owes
<1>2. CASE MarkFailsOpen(p, m, e)
  <2>1. Goto(p, m, e, "check") /\ "check" \in Steps
    BY <1>2 DEF MarkFailsOpen, Steps
  <2>2. opened' = opened \union {e} /\ processed' = processed /\ handled' = handled
    BY <1>2 DEF MarkFailsOpen
  <2> QED
    BY <2>1, <2>2, GotoFacts DEF Opens, Owes
<1>3. CASE Enter(p, m, e)
  <2>1. Goto(p, m, e, "run") /\ "run" \in Steps /\ pc[p][m][e] = "wait"
    BY <1>3 DEF Enter, Steps
  <2>2. /\ handled' = [handled EXCEPT ![e] = @ + 1]
        /\ processed' = processed /\ opened' = opened
    BY <1>3 DEF Enter
  <2> QED
    BY <2>1, <2>2, GotoFacts DEF Starts, Owes
<1> QED
  BY <1>1, <1>2, <1>3, TaskQuiet DEF TaskStep

\* Messages that come, go or reappear, and instances that die, are quiet too.
LEMMA MessageQuiet ==
    ASSUME TypeOK,
           \/ \E m \in Messages : Publish(m) \/ Reappear(m)
           \/ \E m \in Messages, p \in Processes : RunLocally(m, p) \/ DispatchFails(p, m)
           \/ \E p \in Processes : \/ \E B \in SUBSET Messages : Receive(p, B)
                                   \/ EndBatch(p)
                                   \/ Crash(p)
           \/ \E p \in Processes, e \in Events : Forget(p, e)
           \/ UNCHANGED vars
    PROVE  Quiet
<1> DEFINE Still == UNCHANGED <<pc, processed, opened, handled>>
<1>1. Still => Quiet
  BY DEF Quiet, Owes
<1>2. ASSUME NEW m \in Messages, Publish(m) \/ Reappear(m) PROVE Quiet
  BY <1>1, <1>2 DEF Publish, Reappear
<1>3. ASSUME NEW p \in Processes, NEW B \in SUBSET Messages,
             pc' = [pc EXCEPT ![p] = TakenUp(p, B)],
             UNCHANGED <<processed, opened, handled>>
      PROVE  Quiet
  BY <1>3, TakenUpFacts DEF Quiet, Owes
<1>4. ASSUME NEW m \in Messages, NEW p \in Processes, RunLocally(m, p) PROVE Quiet
  <2>1. {m} \in SUBSET Messages
    OBVIOUS
  <2> QED
    BY <1>3, <1>4, <2>1 DEF RunLocally
<1>5. ASSUME NEW p \in Processes, NEW B \in SUBSET Messages, Receive(p, B) PROVE Quiet
  BY <1>3, <1>5 DEF Receive
<1>6. ASSUME NEW m \in Messages, NEW p \in Processes, DispatchFails(p, m) PROVE Quiet
  BY <1>6 DEF DispatchFails, Quiet, Owes, TypeOK
<1>7. ASSUME NEW p \in Processes, EndBatch(p) PROVE Quiet
  BY <1>7 DEF EndBatch, Quiet, Owes, TypeOK
<1>8. ASSUME NEW p \in Processes, Crash(p) PROVE Quiet
  BY <1>8 DEF Crash, Quiet, Owes, TypeOK
<1>9. ASSUME NEW p \in Processes, NEW e \in Events, Forget(p, e) PROVE Quiet
  BY <1>1, <1>9 DEF Forget
<1>10. CASE UNCHANGED vars
  BY <1>1, <1>10 DEF vars
<1> QED
  BY <1>2, <1>4, <1>5, <1>6, <1>7, <1>8, <1>9, <1>10

\* The steps of the system in the terms of the proof.
LEMMA StepEffects ==
    ASSUME TypeOK, [Next]_vars
    PROVE  \/ Quiet
           \/ \E p \in Processes, m \in Messages, e \in Events :
                Claims(p, m, e) \/ Opens(p, m, e) \/ Starts(p, m, e)
<1>1. ASSUME NEW p \in Processes, NEW m \in Messages, NEW e \in Events, TaskStep(p, m, e)
      PROVE  Quiet \/ Claims(p, m, e) \/ Opens(p, m, e) \/ Starts(p, m, e)
  BY <1>1, TaskEffects
<1>2. CASE \E t \in Tasks : TaskStep(t[1], t[2], t[3])
  BY <1>1, <1>2 DEF Tasks
<1> QED
  BY <1>2, MessageQuiet DEF Next

LEMMA StepClaimInv == ClaimInv /\ [Next]_vars => ClaimInv'
<1> SUFFICES ASSUME ClaimInv, [Next]_vars PROVE ClaimInv'
  OBVIOUS
<1>1. TypeOK /\ TypeOK'
  BY StepTypeOK DEF ClaimInv
<1>2. CASE Quiet
  BY <1>1, <1>2, QuietClaimInv
<1>3. ASSUME NEW p \in Processes, NEW m \in Messages, NEW e \in Events, Claims(p, m, e)
      PROVE  ClaimInv'
  BY <1>1, <1>3 DEF ClaimInv, Claims
<1>4. ASSUME NEW p \in Processes, NEW m \in Messages, NEW e \in Events, Opens(p, m, e)
      PROVE  ClaimInv'
  BY <1>1, <1>4 DEF ClaimInv, Opens
<1>5. ASSUME NEW p \in Processes, NEW m \in Messages, NEW e \in Events, Starts(p, m, e)
      PROVE  ClaimInv'
  BY <1>1, <1>5 DEF ClaimInv, Starts, TypeOK
<1> QED
  BY <1>1, <1>2, <1>3, <1>4, <1>5, StepEffects

\* However often an event is posted and delivered, to however many instances, and
\* whatever crashes, its handling starts at most once, unless a claim of it failed
\* open (notification_service.py:66-73, idempotency_storage.py).
THEOREM EventHandledOnce == Spec => []HandledAtMostOnce
<1>1. ClaimInv => HandledAtMostOnce
  BY DEF ClaimInv, HandledAtMostOnce
<1> QED
  BY <1>1, InitClaimInv, StepClaimInv, PTL DEF Spec

-----------------------------------------------------------------------------
(* Never twice at once. *)

\* This delivery of e has passed _seen_event_ids and is not over.
Active(p, m, e) == pc[p][m][e] \in {"wait", "run"}

\* What is active is in the set, which is what keeps a second delivery out.
SeenInv ==
    /\ TypeOK
    /\ \A p \in Processes, m \in Messages, e \in Events : Active(p, m, e) => e \in seen[p]
    /\ NeverTwiceAtOnce

\* A step that makes nothing active and forgets nothing active.
Calm ==
    \A p \in Processes, m \in Messages, e \in Events :
        Active(p, m, e)' => Active(p, m, e) /\ e \in seen'[p]

LEMMA CalmSeenInv ==
    ASSUME SeenInv, Calm, TypeOK'
    PROVE  SeenInv'
  BY DEF SeenInv, Calm, NeverTwiceAtOnce, Active

LEMMA CheckSeenInv ==
    ASSUME SeenInv, TypeOK', NEW p \in Processes, NEW m \in Messages, NEW e \in Events,
           CheckSeen(p, m, e)
    PROVE  SeenInv'
<1>1. TypeOK
  BY DEF SeenInv
<1>2. seen' = [seen EXCEPT ![p] = @ \union {e}]
  BY DEF CheckSeen
<1>3. \A q \in Processes : seen[q] \subseteq seen'[q]
  BY <1>1, <1>2 DEF TypeOK
<1>4. CASE e \in seen[p]
  <2>1. Goto(p, m, e, "duplicate") /\ "duplicate" \in Steps
    BY <1>4 DEF CheckSeen, Steps
  <2>2. Calm
    BY <1>1, <1>3, <2>1, GotoFacts DEF Calm, Active, SeenInv
  <2> QED
    BY <2>2, CalmSeenInv
<1>5. CASE e \notin seen[p]
  <2>1. Goto(p, m, e, "wait") /\ "wait" \in Steps
    BY <1>5 DEF CheckSeen, Steps
  <2>2. \A q \in Processes, n \in Messages, f \in Events :
          pc'[q][n][f] = IF q = p /\ n = m /\ f = e THEN "wait" ELSE pc[q][n][f]
    BY <1>1, <2>1, GotoFacts
  <2>3. e \in seen'[p]
    BY <1>1, <1>2 DEF TypeOK
  <2>4. \A n \in Messages : ~ Active(p, n, e)
    BY <1>5 DEF SeenInv
  <2>5. \A q \in Processes, n \in Messages, f \in Events : Active(q, n, f)' => f \in seen'[q]
    BY <1>3, <2>2, <2>3 DEF SeenInv, Active
  <2>6. NeverTwiceAtOnce'
    BY <2>2, <2>4 DEF SeenInv, NeverTwiceAtOnce, Active
  <2> QED
    BY <2>5, <2>6 DEF SeenInv
<1> QED
  BY <1>4, <1>5

LEMMA TaskCalm ==
    ASSUME SeenInv, NEW p \in Processes, NEW m \in Messages, NEW e \in Events,
           TaskStep(p, m, e), ~ CheckSeen(p, m, e)
    PROVE  Calm
<1>1. TypeOK
  BY DEF SeenInv
<1>2. seen' = seen
  BY DEF TaskStep, MarkProcessed, MarkFailsOpen, Enter, HandlerReturns, HandlerRaises
<1>3. ASSUME NEW step \in {"duplicate", "check", "done", "failed"}, Goto(p, m, e, step)
      PROVE  Calm
  <2>1. step \in Steps
    BY DEF Steps
  <2>2. \A q \in Processes, n \in Messages, f \in Events :
          pc'[q][n][f] = IF q = p /\ n = m /\ f = e THEN step ELSE pc[q][n][f]
    BY <1>1, <1>3, <2>1, GotoFacts
  <2> QED
    BY <1>2, <2>2 DEF Calm, Active, SeenInv
<1>4. CASE Enter(p, m, e)
  <2>1. pc[p][m][e] = "wait" /\ Goto(p, m, e, "run") /\ "run" \in Steps
    BY <1>4 DEF Enter, Steps
  <2>2. \A q \in Processes, n \in Messages, f \in Events :
          pc'[q][n][f] = IF q = p /\ n = m /\ f = e THEN "run" ELSE pc[q][n][f]
    BY <1>1, <2>1, GotoFacts
  <2> QED
    BY <1>2, <2>1, <2>2 DEF Calm, Active, SeenInv
<1> QED
  BY <1>3, <1>4 DEF TaskStep, MarkProcessed, MarkFailsOpen, HandlerReturns, HandlerRaises

LEMMA StepSeenInv == SeenInv /\ [Next]_vars => SeenInv'
<1> SUFFICES ASSUME SeenInv, [Next]_vars PROVE SeenInv'
  OBVIOUS
<1>1. TypeOK /\ TypeOK'
  BY StepTypeOK DEF SeenInv
<1>2. ASSUME Calm PROVE SeenInv'
  BY <1>1, <1>2, CalmSeenInv
<1>3. ASSUME UNCHANGED <<pc, seen>> PROVE SeenInv'
  BY <1>1, <1>2, <1>3 DEF Calm, Active, SeenInv
<1>4. ASSUME NEW m \in Messages, Publish(m) \/ Reappear(m) PROVE SeenInv'
  BY <1>3, <1>4 DEF Publish, Reappear
<1>5. ASSUME NEW p \in Processes, NEW B \in SUBSET Messages,
             pc' = [pc EXCEPT ![p] = TakenUp(p, B)], seen' = seen
      PROVE  SeenInv'
  <2>1. Calm
    BY <1>1, <1>5, TakenUpFacts DEF Calm, Active, SeenInv
  <2> QED
    BY <1>2, <2>1
<1>6. ASSUME NEW m \in Messages, NEW p \in Processes, RunLocally(m, p) PROVE SeenInv'
  <2>1. {m} \in SUBSET Messages
    OBVIOUS
  <2> QED
    BY <1>5, <1>6, <2>1 DEF RunLocally
<1>7. ASSUME NEW p \in Processes, NEW B \in SUBSET Messages, Receive(p, B) PROVE SeenInv'
  BY <1>5, <1>7 DEF Receive
<1>8. ASSUME NEW m \in Messages, NEW p \in Processes, DispatchFails(p, m) PROVE SeenInv'
  <2>1. Calm
    BY <1>1, <1>8 DEF DispatchFails, Calm, Active, SeenInv, TypeOK
  <2> QED
    BY <1>2, <2>1
<1>9. ASSUME NEW p \in Processes, EndBatch(p) PROVE SeenInv'
  <2>1. Calm
    BY <1>1, <1>9 DEF EndBatch, Calm, Active, SeenInv, TypeOK
  <2> QED
    BY <1>2, <2>1
<1>10. ASSUME NEW p \in Processes, Crash(p) PROVE SeenInv'
  <2>1. Calm
    BY <1>1, <1>10 DEF Crash, Calm, Active, SeenInv, TypeOK
  <2> QED
    BY <1>2, <2>1
<1>11. ASSUME NEW p \in Processes, NEW e \in Events, Forget(p, e) PROVE SeenInv'
  <2>1. Calm
    BY <1>1, <1>11 DEF Forget, Calm, Active, SeenInv, TypeOK
  <2> QED
    BY <1>2, <2>1
<1>12. CASE \E t \in Tasks : TaskStep(t[1], t[2], t[3])
  <2>1. ASSUME NEW p \in Processes, NEW m \in Messages, NEW e \in Events, TaskStep(p, m, e)
        PROVE  SeenInv'
    BY <1>1, <1>2, <2>1, TaskCalm, CheckSeenInv
  <2> QED
    BY <1>12, <2>1 DEF Tasks
<1>13. CASE UNCHANGED vars
  BY <1>3, <1>13 DEF vars
<1> QED
  BY <1>4, <1>6, <1>7, <1>8, <1>9, <1>10, <1>11, <1>12, <1>13 DEF Next

\* Also when every claim fails open, one process never handles an event twice at
\* the same time (_seen_event_ids, notification_service.py:88-95).
THEOREM NotTwiceAtOnce == Spec => []NeverTwiceAtOnce
<1>1. Init => SeenInv
  BY InitTypeOK DEF Init, SeenInv, Active, NeverTwiceAtOnce
<1>2. SeenInv => NeverTwiceAtOnce
  BY DEF SeenInv
<1> QED
  BY <1>1, <1>2, StepSeenInv, PTL DEF Spec

-----------------------------------------------------------------------------
(* Refinement. *)

LEMMA InitRefines == Init => Once!Init
  BY DEF Init, Once!Init, FirstHandling

LEMMA StepRefines ==
    ASSUME ClaimInv, ClaimInv', [Next]_vars
    PROVE  [Once!Next]_Once!vars
<1> USE DEF Once!vars
<1>1. TypeOK /\ TypeOK'
  BY DEF ClaimInv
<1>2. CASE Quiet
  BY <1>2 DEF Quiet, FirstHandling
<1>3. ASSUME NEW p \in Processes, NEW m \in Messages, NEW e \in Events, Claims(p, m, e)
      PROVE  [Once!Next]_Once!vars
  <2>1. FirstHandling' = FirstHandling
    BY <1>3 DEF Claims, FirstHandling
  <2>2. (processed \union opened)' = (processed \union opened) \union {e}
    BY <1>3 DEF Claims
  <2>3. CASE e \in opened
    BY <2>1, <2>2, <2>3
  <2>4. CASE e \notin opened
    <3>1. Once!Claim(e)
      BY <1>3, <2>1, <2>2, <2>4 DEF Claims, Once!Claim
    <3> QED
      BY <3>1 DEF Once!Next
  <2> QED
    BY <2>3, <2>4
<1>4. ASSUME NEW p \in Processes, NEW m \in Messages, NEW e \in Events, Opens(p, m, e)
      PROVE  [Once!Next]_Once!vars
  <2>1. \A f \in Events : FirstHandling'[f] = FirstHandling[f]
    BY <1>1, <1>4 DEF Opens, FirstHandling, ClaimInv, TypeOK
  <2>2. FirstHandling' = FirstHandling
    BY <2>1 DEF FirstHandling
  <2>3. (processed \union opened)' = (processed \union opened) \union {e}
    BY <1>4 DEF Opens
  <2>4. CASE e \in processed \union opened
    BY <2>2, <2>3, <2>4
  <2>5. CASE e \notin processed \union opened
    <3>1. Once!Claim(e)
      BY <2>2, <2>3, <2>5 DEF Once!Claim
    <3> QED
      BY <3>1 DEF Once!Next
  <2> QED
    BY <2>4, <2>5
<1>5. ASSUME NEW p \in Processes, NEW m \in Messages, NEW e \in Events, Starts(p, m, e)
      PROVE  [Once!Next]_Once!vars
  <2>1. (processed \union opened)' = processed \union opened
    BY <1>5 DEF Starts
  <2>2. e \in processed \union opened
    BY <1>5 DEF Starts, ClaimInv
  <2>3. CASE handled[e] = 0
    <3>1. FirstHandling[e] = 0
      BY <2>3 DEF FirstHandling
    <3>2. FirstHandling' = [FirstHandling EXCEPT ![e] = 1]
      <4>1. \A f \in Events : handled'[f] = IF f = e THEN 1 ELSE handled[f]
        BY <1>1, <1>5, <2>3 DEF Starts, TypeOK
      <4>2. opened' = opened
        BY <1>5 DEF Starts
      <4>3. \A f \in Events : FirstHandling'[f] = IF f = e THEN 1 ELSE FirstHandling[f]
        BY <4>1, <4>2 DEF FirstHandling
      <4> QED
        BY <4>3 DEF FirstHandling
    <3>3. Once!Handle(e)
      BY <2>1, <2>2, <3>1, <3>2 DEF Once!Handle
    <3> QED
      BY <3>3 DEF Once!Next
  <2>4. CASE handled[e] # 0
    <3>1. e \in opened
      BY <1>5, <2>4 DEF Starts, ClaimInv
    <3>2. FirstHandling' = FirstHandling
      BY <1>1, <1>5, <2>4, <3>1 DEF Starts, FirstHandling, TypeOK
    <3> QED
      BY <2>1, <3>2
  <2> QED
    BY <2>3, <2>4
<1> QED
  BY <1>1, <1>2, <1>3, <1>4, <1>5, StepEffects

\* The whole path of an event, with its redeliveries, crashes and claims that fail
\* open, implements the abstract idempotency service EventOnce.
THEOREM Refinement == Spec => ImplementsEventOnce
<1>1. ClaimInv /\ ClaimInv' /\ [Next]_vars => [Once!Next]_Once!vars
  BY StepRefines
<1> QED
  BY <1>1, InitRefines, InitClaimInv, StepClaimInv, PTL DEF Spec, ImplementsEventOnce, Once!Spec
=============================================================================
