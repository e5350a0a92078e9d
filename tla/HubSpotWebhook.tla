--------------------------- MODULE HubSpotWebhook ---------------------------
(***************************************************************************)
(* The way of a HubSpot event from the webhook to its handler:             *)
(* routers/hubspot/webhook_router.py accepts a batch and publishes it to   *)
(* SQS (or runs it in the process that received it), sqs_worker.py         *)
(* consumes messages, NotificationService.process_event_batch and          *)
(* handle_event run the events of a message concurrently behind a database *)
(* claim (idempotency_storage.py), an in-process set of seen events and a  *)
(* semaphore.  The handler itself is module NotificationService; here it   *)
(* only succeeds or raises.                                                *)
(*                                                                         *)
(* SQS delivers at least once: a message becomes visible again when its    *)
(* worker reports it failed, dies, or is too slow.                         *)
(***************************************************************************)
EXTENDS Naturals, FiniteSets

CONSTANTS Events,
          Messages,      \* batches of events HubSpot posts
          Body,          \* Body[m]: the events of batch m; a retry repeats them
          Processes,     \* warm Lambda instances
          Slots,         \* _SEMAPHORE
          MaxReceives,   \* the queue's redrive limit
          DbMayFail,     \* may the claim fail for another reason than a duplicate?
          HandlerMayFail,
          MayCrash       \* may an instance die or be timed out?

ASSUME BodyAssumption == Body \in [Messages -> SUBSET Events]
ASSUME BoundsAssumption == Slots \in Nat \ {0} /\ MaxReceives \in Nat \ {0}
ASSUME SwitchAssumption == {DbMayFail, HandlerMayFail, MayCrash} \subseteq BOOLEAN

VARIABLES status,     \* where each message is
          receives,   \* SQS receive count of each message
          batch,      \* batch[p]: the messages p is processing
          broken,     \* broken[p]: those of them that raised
          pc,         \* pc[p][m][e]: how far p is with event e of message m
          processed,  \* the table processed_events
          opened,     \* events for which a claim has failed open (history)
          seen,       \* seen[p]: _seen_event_ids of process p
          handled     \* event -> how often its handling was started

vars == <<status, receives, batch, broken, pc, processed, opened, seen, handled>>

Statuses == {"unsent", "queued", "received", "local", "gone", "dead"}
Steps == {"idle", "claim", "check", "wait", "run", "done", "failed", "duplicate"}
Ended == {"done", "failed", "duplicate"}

Tasks == {t \in Processes \X Messages \X Events : t[3] \in Body[t[2]]}

Goto(p, m, e, step) == pc' = [pc EXCEPT ![p][m][e] = step]

\* pc[p] once p has taken up the messages of B.
TakenUp(p, B) ==
    [m \in Messages |-> IF m \in B
                        THEN [e \in Events |-> IF e \in Body[m] THEN "claim" ELSE "idle"]
                        ELSE pc[p][m]]

Running(p) == {t \in Messages \X Events : pc[p][t[1]][t[2]] = "run"}

-----------------------------------------------------------------------------
Init ==
    /\ status = [m \in Messages |-> "unsent"]
    /\ receives = [m \in Messages |-> 0]
    /\ batch = [p \in Processes |-> {}]
    /\ broken = [p \in Processes |-> {}]
    /\ pc = [p \in Processes |-> [m \in Messages |-> [e \in Events |-> "idle"]]]
    /\ processed = {}
    /\ opened = {}
    /\ seen = [p \in Processes |-> {}]
    /\ handled = [e \in Events |-> 0]

\* handle_hubspot_events: the batch is published ...
Publish(m) ==
    /\ status[m] = "unsent"
    /\ status' = [status EXCEPT ![m] = "queued"]
    /\ UNCHANGED <<receives, batch, broken, pc, processed, opened, seen, handled>>

\* ... or, when publishing fails, runs as a background task of the process that
\* answered the request.
RunLocally(m, p) ==
    /\ status[m] = "unsent"
    /\ status' = [status EXCEPT ![m] = "local"]
    /\ batch' = [batch EXCEPT ![p] = @ \union {m}]
    /\ pc' = [pc EXCEPT ![p] = TakenUp(p, {m})]
    /\ UNCHANGED <<receives, broken, processed, opened, seen, handled>>

\* An idle instance is invoked with some of the visible messages.
Receive(p, B) ==
    /\ batch[p] = {}
    /\ B # {}
    /\ \A m \in B : status[m] = "queued" /\ receives[m] < MaxReceives
    /\ status' = [m \in Messages |-> IF m \in B THEN "received" ELSE status[m]]
    /\ receives' = [m \in Messages |-> IF m \in B THEN receives[m] + 1 ELSE receives[m]]
    /\ batch' = [batch EXCEPT ![p] = B]
    /\ pc' = [pc EXCEPT ![p] = TakenUp(p, B)]
    /\ UNCHANGED <<broken, processed, opened, seen, handled>>

\* _process_sqs_message raises before the events are dispatched.
DispatchFails(p, m) ==
    /\ HandlerMayFail
    /\ m \in batch[p] /\ status[m] # "local"
    /\ Body[m] # {}
    /\ \A e \in Body[m] : pc[p][m][e] = "claim"
    /\ broken' = [broken EXCEPT ![p] = @ \union {m}]
    /\ pc' = [pc EXCEPT ![p][m] = [e \in Events |-> "idle"]]
    /\ UNCHANGED <<status, receives, batch, processed, opened, seen, handled>>

\* Mutants: an upsert instead of an insert; the message id as key.
MarkProcessedUpsert(p, m, e) ==
    /\ pc[p][m][e] = "claim"
    /\ Goto(p, m, e, "check")
    /\ processed' = processed \union {e}
    /\ UNCHANGED <<status, receives, batch, broken, opened, seen, handled>>

MarkProcessedMessage(p, m, e) ==
    /\ pc[p][m][e] = "claim"
    /\ IF m \in processed THEN Goto(p, m, e, "duplicate") ELSE Goto(p, m, e, "check")
    /\ processed' = processed \union {m}
    /\ UNCHANGED <<status, receives, batch, broken, opened, seen, handled>>

\* mark_processed inserts the event id; the primary key refuses a second one.
MarkProcessed(p, m, e) ==
    /\ pc[p][m][e] = "claim"
    /\ IF e \in processed THEN Goto(p, m, e, "duplicate") ELSE Goto(p, m, e, "check")
    /\ processed' = processed \union {e}
    /\ UNCHANGED <<status, receives, batch, broken, opened, seen, handled>>

\* Mutant: a duplicate is taken for such an error.
MarkFailsOpenAlways(p, m, e) ==
    /\ pc[p][m][e] = "claim" /\ e \in processed
    /\ Goto(p, m, e, "check")
    /\ UNCHANGED <<status, receives, batch, broken, processed, opened, seen, handled>>

\* Mutant: any other error is taken for a duplicate, too.
MarkFailsClosed(p, m, e) ==
    /\ DbMayFail
    /\ pc[p][m][e] = "claim"
    /\ Goto(p, m, e, "duplicate")
    /\ opened' = opened \union {e}
    /\ UNCHANGED <<status, receives, batch, broken, processed, seen, handled>>

\* Any other database error counts as success: mark_processed fails open.
MarkFailsOpen(p, m, e) ==
    /\ DbMayFail
    /\ pc[p][m][e] = "claim"
    /\ Goto(p, m, e, "check")
    /\ opened' = opened \union {e}
    /\ UNCHANGED <<status, receives, batch, broken, processed, seen, handled>>

\* Mutant: tests, but does not set.
CheckSeenOnly(p, m, e) ==
    /\ pc[p][m][e] = "check"
    /\ IF e \in seen[p] THEN Goto(p, m, e, "duplicate") ELSE Goto(p, m, e, "wait")
    /\ UNCHANGED <<status, receives, batch, broken, processed, opened, seen, handled>>

\* handle_event: test and set _seen_event_ids, then queue for the semaphore.
CheckSeen(p, m, e) ==
    /\ pc[p][m][e] = "check"
    /\ IF e \in seen[p] THEN Goto(p, m, e, "duplicate") ELSE Goto(p, m, e, "wait")
    /\ seen' = [seen EXCEPT ![p] = @ \union {e}]
    /\ UNCHANGED <<status, receives, batch, broken, processed, opened, handled>>

Enter(p, m, e) ==
    /\ pc[p][m][e] = "wait"
    /\ Cardinality(Running(p)) < Slots
    /\ Goto(p, m, e, "run")
    /\ handled' = [handled EXCEPT ![e] = @ + 1]
    /\ UNCHANGED <<status, receives, batch, broken, processed, opened, seen>>

HandlerReturns(p, m, e) ==
    /\ pc[p][m][e] = "run"
    /\ Goto(p, m, e, "done")
    /\ UNCHANGED <<status, receives, batch, broken, processed, opened, seen, handled>>

\* _process_one logs the exception and swallows it.
HandlerRaises(p, m, e) ==
    /\ HandlerMayFail
    /\ pc[p][m][e] = "run"
    /\ Goto(p, m, e, "failed")
    /\ UNCHANGED <<status, receives, batch, broken, processed, opened, seen, handled>>

\* Mutant: a reported message is neither deleted nor made visible.
SettledStuck(p, m) ==
    IF status[m] = "local" THEN "gone"
    ELSE IF status[m] = "received" /\ m \notin broken[p] THEN "gone" ELSE status[m]

\* What becomes of a message of p's batch when the batch is over: SQS deletes
\* it unless the worker reported it or someone else has received it meanwhile.
\* A batch run locally has no message to delete.
Settled(p, m) ==
    IF status[m] = "local" THEN "gone"
    ELSE IF status[m] # "received" \/ \E q \in Processes \ {p} : m \in batch[q] THEN status[m]
    ELSE IF m \notin broken[p] THEN "gone"
    ELSE IF receives[m] < MaxReceives THEN "queued" ELSE "dead"

EndBatch(p) ==
    /\ batch[p] # {}
    /\ \A m \in batch[p] \ broken[p], e \in Events :
         e \in Body[m] => pc[p][m][e] \in Ended
    /\ status' = [m \in Messages |-> IF m \in batch[p] THEN Settled(p, m) ELSE status[m]]
    /\ batch' = [batch EXCEPT ![p] = {}]
    /\ broken' = [broken EXCEPT ![p] = {}]
    /\ pc' = [pc EXCEPT ![p] = [m \in Messages |-> [e \in Events |-> "idle"]]]
    /\ UNCHANGED <<receives, processed, opened, seen, handled>>

\* The visibility timeout of a received message runs out while p works on it.
Reappear(m) ==
    /\ MayCrash
    /\ status[m] = "received" /\ receives[m] < MaxReceives
    /\ status' = [status EXCEPT ![m] = "queued"]
    /\ UNCHANGED <<receives, batch, broken, pc, processed, opened, seen, handled>>

\* The instance dies or is timed out: what it had in memory is lost, and the
\* messages it alone was working on become visible again.
Crash(p) ==
    /\ MayCrash
    /\ batch[p] # {}
    /\ status' = [m \in Messages |->
                    IF m \notin batch[p] THEN status[m]
                    ELSE IF status[m] = "local" THEN "gone"
                    ELSE IF status[m] # "received"
                            \/ \E q \in Processes \ {p} : m \in batch[q] THEN status[m]
                    ELSE IF receives[m] < MaxReceives THEN "queued" ELSE "dead"]
    /\ batch' = [batch EXCEPT ![p] = {}]
    /\ broken' = [broken EXCEPT ![p] = {}]
    /\ pc' = [pc EXCEPT ![p] = [m \in Messages |-> [e \in Events |-> "idle"]]]
    /\ seen' = [seen EXCEPT ![p] = {}]
    /\ UNCHANGED <<receives, processed, opened, handled>>

\* The 300 s of a seen event are over; its handling is taken to be over too.
Forget(p, e) ==
    /\ e \in seen[p]
    /\ \A m \in Messages : pc[p][m][e] \notin {"wait", "run"}
    /\ seen' = [seen EXCEPT ![p] = @ \ {e}]
    /\ UNCHANGED <<status, receives, batch, broken, pc, processed, opened, handled>>

TaskStep(p, m, e) ==
    \/ MarkProcessed(p, m, e)
    \/ MarkFailsOpen(p, m, e)
    \/ CheckSeen(p, m, e)
    \/ Enter(p, m, e)
    \/ HandlerReturns(p, m, e)
    \/ HandlerRaises(p, m, e)

Next ==
    \/ \E m \in Messages : Publish(m) \/ Reappear(m)
    \/ \E m \in Messages, p \in Processes : RunLocally(m, p) \/ DispatchFails(p, m)
    \/ \E p \in Processes : \/ \E B \in SUBSET Messages : Receive(p, B)
                            \/ EndBatch(p)
                            \/ Crash(p)
    \/ \E t \in Tasks : TaskStep(t[1], t[2], t[3])
    \/ \E p \in Processes, e \in Events : Forget(p, e)

Spec == Init /\ [][Next]_vars

\* SQS keeps invoking workers, and a worker that is not killed runs its tasks to
\* the end.  Nothing forces HubSpot to post, a message to reappear, a process to
\* crash or a handler to fail.
Fairness ==
    /\ \A p \in Processes : WF_vars(\E B \in SUBSET Messages : Receive(p, B))
    /\ \A p \in Processes : WF_vars(EndBatch(p))
    /\ \A t \in Tasks : WF_vars(TaskStep(t[1], t[2], t[3]))

FairSpec == Spec /\ Fairness

-----------------------------------------------------------------------------
(* Properties. *)

TypeOK ==
    /\ status \in [Messages -> Statuses]
    /\ receives \in [Messages -> 0..MaxReceives]
    /\ batch \in [Processes -> SUBSET Messages]
    /\ broken \in [Processes -> SUBSET Messages]
    /\ pc \in [Processes -> [Messages -> [Events -> Steps]]]
    /\ processed \subseteq Events
    /\ opened \subseteq Events
    /\ seen \in [Processes -> SUBSET Events]
    /\ handled \in [Events -> Nat]

\* However often an event is posted, delivered or redelivered, across
\* instances, crashes and visibility timeouts, its handling starts at most
\* once, unless a claim of it failed open (notification_service.py:66-73).
HandledAtMostOnce == \A e \in Events \ opened : handled[e] <= 1

\* Also when the claim fails open, one process never handles an event twice at
\* the same time (_seen_event_ids, notification_service.py:88-95).
NeverTwiceAtOnce ==
    \A p \in Processes, m, n \in Messages, e \in Events :
        pc[p][m][e] \in {"wait", "run"} /\ pc[p][n][e] \in {"wait", "run"} => m = n

\* A message with an event whose handling raised is not deleted, so that SQS
\* delivers it again: what sqs_worker.py:355 says of a failed message.
FailureIsReported ==
    [][\A p \in Processes, m \in Messages, e \in Events :
         pc[p][m][e] = "failed" /\ status[m] = "received" => status'[m] # "gone"]_vars

\* Every message accepted from HubSpot leaves the system in the end, deleted or
\* dead: no wait for the semaphore and no redelivery lasts forever.
MessageSettles ==
    \A m \in Messages : status[m] # "unsent" ~> status[m] \in {"gone", "dead"}

\* The idempotency layer's promise, kept for every event but those a claim of
\* which failed open; of these only the first handling counts.
FirstHandling == [e \in Events |-> IF e \in opened /\ handled[e] > 0 THEN 1 ELSE handled[e]]
Once == INSTANCE EventOnce WITH claimed <- processed \union opened, handled <- FirstHandling
ImplementsEventOnce == Once!Spec

=============================================================================
