------------------------- MODULE NotificationService -------------------------
(***************************************************************************)
(* NotificationService._handle_event_logic (notification_service.py): what *)
(* one HubSpot event of a workspace goes through until its card is in      *)
(* Slack, is counted and is linked to a thread.  Events of an object run   *)
(* concurrently, in one process behind its semaphore and its debounce      *)
(* cache, and in several Lambda instances that share only the database.    *)
(*                                                                         *)
(* A step ends where the coroutine awaits the network.  Each event reaches *)
(* this handler at most once: that is what HubSpotWebhook establishes.     *)
(* The workspace has one Slack channel, with no CHANNEL_ROOT mapping.      *)
(***************************************************************************)
EXTENDS Naturals, FiniteSets

CONSTANTS Events, Objects, Processes,
          Of,            \* Of[e]: the object event e is about
          Kind,          \* Kind[e]: "creation", "change", or "stage" (hs_pipeline_stage)
          TypeOf,        \* TypeOf[o]: "ticket", "task" or "other"
          LoggedTasks,   \* tasks whose hs_task_type is CALL, MEETING or EMAIL
          UrgentTasks,   \* tasks whose hs_task_priority is HIGH or URGENT
          Plan,          \* "free", "starter" or "pro"
          Cap,           \* the monthly limit of the free plan (20)
          Slots,         \* _SEMAPHORE (20)
          Months,        \* last month of the model
          Rpc,           \* does the RPC increment_workspace_usage work?
          MayIgnore,     \* may the workspace be disconnected or have notifications off?
          MayFail,       \* may a call to HubSpot, Slack or the database raise?
          Slow           \* may a handler take longer than the 60 s of the debounce?

ASSUME EventAssumption ==
    /\ Of \in [Events -> Objects]
    /\ Kind \in [Events -> {"creation", "change", "stage"}]
    /\ TypeOf \in [Objects -> {"ticket", "task", "other"}]
    /\ LoggedTasks \subseteq Objects /\ UrgentTasks \subseteq Objects
ASSUME LimitAssumption ==
    Cap \in Nat \ {0} /\ Slots \in Nat \ {0} /\ Months \in Nat \ {0}
ASSUME PlanAssumption == Plan \in {"free", "starter", "pro"}
ASSUME SwitchAssumption == {Rpc, MayIgnore, MayFail, Slow} \subseteq BOOLEAN

VARIABLES pc,        \* how far the handler of each event is
          at,        \* the processes that have taken up each event
          ctx,       \* the local variables of each handler
          debounce,  \* debounce[p]: objects in _recent_notifications of process p
          usage,     \* the workspace row: notification_count_monthly, last_limit_reset
          mapping,   \* thread_mappings: object -> thread_ts, 0 if it has no row
          cards,     \* Slack: how many root messages each object has; their ts are 1, 2, ...
          closed,    \* HubSpot: the tickets that have been closed
          month,     \* the calendar
          posted,    \* events whose card was posted or updated
          sent       \* how many of them this month

vars == <<pc, at, ctx, debounce, usage, mapping, cards, closed, month, posted, sent>>

IsPro == Plan = "pro"
NoThread == 0

Ended == {"ignored", "debounced", "capped", "done", "failed"}
Running == {"fetch", "decide", "target", "thread", "send", "init", "announce",
            "record", "count", "write", "finish"}
\* The steps during which the handler counts on its debounce entry.
Notifying == Running \ {"fetch", "decide"}

\* Mutant: an exception keeps the slot.
HoldingLeaky(p) == {e \in Events : pc[e] \in Running \union {"failed"} /\ p \in at[e]}
Holding(p) == {e \in Events : pc[e] \in Running /\ p \in at[e]}

Goto(e, step) == pc' = [pc EXCEPT ![e] = step]
IsTicket(e) == TypeOf[Of[e]] = "ticket"

Blank == [creation |-> FALSE, closed |-> FALSE, row |-> [n |-> 0, reset |-> 0],
          read |-> 0, thread |-> NoThread, ts |-> NoThread]

\* Mutant: the priority of a task is not asked for.
RequestedNoPriority(type) ==
    CASE type = "ticket" -> {"hs_pipeline_stage", "hs_ticket_priority"}
      [] type = "task"   -> {"hs_task_type", "hs_task_status"}
      [] OTHER           -> {}

\* The properties HubSpotService asks HubSpot for; HubSpot returns no others.
Requested(type) ==
    CASE type = "ticket" -> {"hs_pipeline_stage", "hs_ticket_priority"}
      [] type = "task"   -> {"hs_task_type", "hs_task_status", "hs_task_priority"}
      [] OTHER           -> {}

-----------------------------------------------------------------------------
Init ==
    /\ pc = [e \in Events |-> "new"]
    /\ at = [e \in Events |-> {}]
    /\ ctx = [e \in Events |-> Blank]
    /\ debounce = [p \in Processes |-> {}]
    /\ usage = [n |-> 0, reset |-> 1]
    /\ mapping = [o \in Objects |-> NoThread]
    /\ cards = [o \in Objects |-> 0]
    /\ closed = {}
    /\ month = 1
    /\ posted = {}
    /\ sent = 0

\* handle_event queues for the semaphore ...
Deliver(e, p) ==
    /\ pc[e] = "new"
    /\ Goto(e, "queued")
    /\ at' = [at EXCEPT ![e] = {p}]
    /\ UNCHANGED <<ctx, debounce, usage, mapping, cards, closed, month, posted, sent>>

\* Mutant: no semaphore.
EnterFreely(e) ==
    /\ pc[e] = "queued"
    /\ Goto(e, "fetch")
    /\ UNCHANGED <<at, ctx, debounce, usage, mapping, cards, closed, month, posted, sent>>

\* ... and gets a slot.
Enter(e) ==
    /\ pc[e] = "queued"
    /\ \A p \in at[e] : Cardinality(Holding(p)) < Slots
    /\ Goto(e, "fetch")
    /\ UNCHANGED <<at, ctx, debounce, usage, mapping, cards, closed, month, posted, sent>>

\* No integration, notifications switched off, a note or an email, no such
\* object in HubSpot, or no Slack installation to send to.
NotForUs(e) ==
    /\ MayIgnore
    /\ pc[e] \in {"fetch", "target"}
    /\ Goto(e, "ignored")
    /\ UNCHANGED <<at, ctx, debounce, usage, mapping, cards, closed, month, posted, sent>>

\* A new task is worth a card when it logs an activity or is urgent, as far as
\* the properties that were fetched tell.
PlainTask(e) ==
    /\ TypeOf[Of[e]] = "task"
    /\ Kind[e] = "creation"
    /\ ~ ("hs_task_type" \in Requested("task") /\ Of[e] \in LoggedTasks)
    /\ ~ ("hs_task_priority" \in Requested("task") /\ Of[e] \in UrgentTasks)

\* The object is fetched; a change of an object less than 60 s old is handled
\* as its creation (recent).
Fetch(e, recent) ==
    /\ pc[e] = "fetch"
    /\ IF PlainTask(e) THEN Goto(e, "ignored") ELSE Goto(e, "decide")
    /\ ctx' = [ctx EXCEPT ![e].creation = Kind[e] = "creation" \/ recent,
                          ![e].closed = Of[e] \in closed]
    /\ UNCHANGED <<at, debounce, usage, mapping, cards, closed, month, posted, sent>>

\* The threshold: a creation and a change of stage always pass it, any other
\* change when the heuristics and the AI say so (relevant).
Passes(e, relevant) == ctx[e].creation \/ Kind[e] = "stage" \/ relevant

\* Mutants: the debounce entry is set only when the card has been sent, or even
\* for an event below the threshold.
DecideLate(e, relevant) ==
    /\ pc[e] = "decide"
    /\ IF ~ Passes(e, relevant) THEN Goto(e, "ignored")
       ELSE IF \E p \in at[e] : Of[e] \in debounce[p] THEN Goto(e, "debounced")
       ELSE Goto(e, "target")
    /\ UNCHANGED <<at, ctx, debounce, usage, mapping, cards, closed, month, posted, sent>>

DecideEarly(e, relevant) ==
    /\ pc[e] = "decide"
    /\ IF \E p \in at[e] : Of[e] \in debounce[p] THEN Goto(e, "debounced")
       ELSE IF Passes(e, relevant) THEN Goto(e, "target") ELSE Goto(e, "ignored")
    /\ debounce' = [p \in Processes |->
                      IF p \in at[e] THEN debounce[p] \union {Of[e]} ELSE debounce[p]]
    /\ UNCHANGED <<at, ctx, usage, mapping, cards, closed, month, posted, sent>>

\* Threshold, then debounce; get and set of the cache are one atomic step.
Decide(e, relevant) ==
    /\ pc[e] = "decide"
    /\ IF ~ Passes(e, relevant)
       THEN Goto(e, "ignored") /\ UNCHANGED debounce
       ELSE IF \E p \in at[e] : Of[e] \in debounce[p]
       THEN Goto(e, "debounced") /\ UNCHANGED debounce
       ELSE /\ Goto(e, "target")
            /\ debounce' = [p \in Processes |->
                              IF p \in at[e] THEN debounce[p] \union {Of[e]} ELSE debounce[p]]
    /\ UNCHANGED <<at, ctx, usage, mapping, cards, closed, month, posted, sent>>

\* Slack installation and workspace row are read (read: in which month).
ReadTarget(e) ==
    /\ pc[e] = "target"
    /\ ctx' = [ctx EXCEPT ![e].row = usage, ![e].read = month]
    /\ Goto(e, "thread")
    /\ UNCHANGED <<at, debounce, usage, mapping, cards, closed, month, posted, sent>>

\* The cap is checked against the row read before.
OverCap(e) == Plan = "free" /\ ctx[e].row.n >= Cap

\* The thread of the object is looked up, then the cap is checked.
FindThread(e) ==
    /\ pc[e] = "thread"
    /\ ctx' = [ctx EXCEPT ![e].thread =
                 IF IsPro /\ TypeOf[Of[e]] \in {"ticket", "task"} THEN mapping[Of[e]] ELSE NoThread]
    /\ IF OverCap(e) THEN Goto(e, "capped") ELSE Goto(e, "send")
    /\ UNCHANGED <<at, debounce, usage, mapping, cards, closed, month, posted, sent>>

Posted(e, ts) ==
    /\ ctx' = [ctx EXCEPT ![e].ts = ts]
    /\ posted' = posted \union {e}
    /\ sent' = sent + 1

\* The card already in Slack is updated in place.
UpdateCard(e) ==
    /\ pc[e] = "send"
    /\ ctx[e].thread # NoThread /\ ~ ctx[e].creation
    /\ Posted(e, ctx[e].thread)
    /\ Goto(e, "record")
    /\ UNCHANGED <<at, debounce, usage, mapping, cards, closed, month>>

\* send_card: a reply in the thread, or a new root message; a thread is opened
\* on the root message of an open ticket.
PostCard(e) ==
    /\ pc[e] = "send"
    /\ ctx[e].thread = NoThread \/ ctx[e].creation
    /\ LET o == Of[e]
           root == ctx[e].thread = NoThread
       IN /\ cards' = [cards EXCEPT ![o] = IF root THEN @ + 1 ELSE @]
          /\ Posted(e, IF root THEN cards[o] + 1 ELSE ctx[e].thread)
          /\ IF root /\ IsPro /\ IsTicket(e) /\ ~ ctx[e].closed
             THEN Goto(e, "init") ELSE Goto(e, "record")
    /\ UNCHANGED <<at, debounce, usage, mapping, closed, month>>

\* Slack answers without a ts: nothing was sent.
SendNothing(e) ==
    /\ MayFail
    /\ pc[e] = "send"
    /\ ctx[e].thread = NoThread \/ ctx[e].creation
    /\ Goto(e, "record")
    /\ UNCHANGED <<at, ctx, debounce, usage, mapping, cards, closed, month, posted, sent>>

\* _initialize_ticket_thread: the mapping, then the message in the thread.
InitThread(e) ==
    /\ pc[e] = "init"
    /\ mapping' = [mapping EXCEPT ![Of[e]] = ctx[e].ts]
    /\ Goto(e, "announce")
    /\ UNCHANGED <<at, ctx, debounce, usage, cards, closed, month, posted, sent>>

AnnounceThread(e) ==
    /\ pc[e] = "announce"
    /\ Goto(e, "record")
    /\ UNCHANGED <<at, ctx, debounce, usage, mapping, cards, closed, month, posted, sent>>

\* Mutant: the debounce entry is keyed by the event.
RecordEvent(e) ==
    /\ pc[e] = "record"
    /\ debounce' = [p \in Processes |->
                      IF p \in at[e] THEN debounce[p] \union {e} ELSE debounce[p]]
    /\ Goto(e, "count")
    /\ UNCHANGED <<at, ctx, usage, mapping, cards, closed, month, posted, sent>>

\* The ghosting monitor is told and the debounce entry renewed.
Record(e) ==
    /\ pc[e] = "record"
    /\ debounce' = [p \in Processes |->
                      IF p \in at[e] /\ ctx[e].ts # NoThread
                      THEN debounce[p] \union {Of[e]} ELSE debounce[p]]
    /\ Goto(e, "count")
    /\ UNCHANGED <<at, ctx, usage, mapping, cards, closed, month, posted, sent>>

\* The row after counting a handler whose read of it was row: only a card that
\* was sent counts, and the first count of a month starts from zero.
Incremented(row, ts) ==
    LET one == IF ts # NoThread THEN 1 ELSE 0
    IN [n |-> IF row.reset = month THEN row.n + one ELSE one, reset |-> month]

\* increment_usage_metrics in the database ...
CountAtomic(e) ==
    /\ Rpc
    /\ pc[e] = "count"
    /\ usage' = Incremented(usage, ctx[e].ts)
    /\ Goto(e, "finish")
    /\ UNCHANGED <<at, ctx, debounce, mapping, cards, closed, month, posted, sent>>

\* ... or, when the RPC fails, as a read ...
ReadUsage(e) ==
    /\ ~ Rpc
    /\ pc[e] = "count"
    /\ ctx' = [ctx EXCEPT ![e].row = usage]
    /\ Goto(e, "write")
    /\ UNCHANGED <<at, debounce, usage, mapping, cards, closed, month, posted, sent>>

\* Mutant: adds the new total to what is there by then.
WriteUsageTotal(e) ==
    /\ pc[e] = "write"
    /\ usage' = [Incremented(ctx[e].row, ctx[e].ts) EXCEPT !.n = @ + usage.n]
    /\ Goto(e, "finish")
    /\ UNCHANGED <<at, ctx, debounce, mapping, cards, closed, month, posted, sent>>

\* ... and a later write.
WriteUsage(e) ==
    /\ pc[e] = "write"
    /\ usage' = Incremented(ctx[e].row, ctx[e].ts)
    /\ Goto(e, "finish")
    /\ UNCHANGED <<at, ctx, debounce, mapping, cards, closed, month, posted, sent>>

\* A task's new root message is mapped; the mapping of a ticket that moved to
\* a closed state is deleted, if its hs_ticket_status was fetched.
Finish(e) ==
    /\ pc[e] = "finish"
    /\ mapping' = [mapping EXCEPT ![Of[e]] =
         IF IsPro /\ TypeOf[Of[e]] = "task" /\ ctx[e].thread = NoThread /\ ctx[e].ts # NoThread
         THEN ctx[e].ts
         ELSE IF IsTicket(e) /\ Kind[e] = "stage" /\ ctx[e].closed
                 /\ "hs_ticket_status" \in Requested("ticket")
         THEN NoThread ELSE @]
    /\ Goto(e, "done")
    /\ UNCHANGED <<at, ctx, debounce, usage, cards, closed, month, posted, sent>>

\* An awaited call raises; process_event_batch logs it and goes on.
HandlerFails(e) ==
    /\ MayFail
    /\ pc[e] \in Running
    /\ Goto(e, "failed")
    /\ UNCHANGED <<at, ctx, debounce, usage, mapping, cards, closed, month, posted, sent>>

\* The 60 s of a debounce entry are over.
Expire(p, o) ==
    /\ o \in debounce[p]
    /\ Slow \/ \A e \in Holding(p) : Of[e] = o => pc[e] \notin Notifying
    /\ debounce' = [debounce EXCEPT ![p] = @ \ {o}]
    /\ UNCHANGED <<pc, at, ctx, usage, mapping, cards, closed, month, posted, sent>>

\* The world outside: a ticket is closed in HubSpot, a month ends.
CloseTicket(o) ==
    /\ TypeOf[o] = "ticket" /\ o \notin closed
    /\ closed' = closed \union {o}
    /\ UNCHANGED <<pc, at, ctx, debounce, usage, mapping, cards, month, posted, sent>>

MonthTurns ==
    /\ month < Months
    /\ month' = month + 1
    /\ sent' = 0
    /\ UNCHANGED <<pc, at, ctx, debounce, usage, mapping, cards, closed, posted>>

Step(e) ==
    \/ Enter(e)
    \/ NotForUs(e)
    \/ \E recent \in BOOLEAN : Fetch(e, recent)
    \/ \E relevant \in BOOLEAN : Decide(e, relevant)
    \/ ReadTarget(e)
    \/ FindThread(e)
    \/ UpdateCard(e)
    \/ PostCard(e)
    \/ SendNothing(e)
    \/ InitThread(e)
    \/ AnnounceThread(e)
    \/ Record(e)
    \/ CountAtomic(e)
    \/ ReadUsage(e)
    \/ WriteUsage(e)
    \/ Finish(e)
    \/ HandlerFails(e)

Next ==
    \/ \E e \in Events : Step(e) \/ \E p \in Processes : Deliver(e, p)
    \/ \E p \in Processes, o \in Objects : Expire(p, o)
    \/ \E o \in Objects : CloseTicket(o)
    \/ MonthTurns

Spec == Init /\ [][Next]_vars

\* The event loop runs every handler it has taken up; HubSpot, the calendar and
\* the debounce clock need not do anything.
FairSpec == Spec /\ \A e \in Events : WF_vars(Step(e))

-----------------------------------------------------------------------------
(* Properties. *)

TypeOK ==
    /\ pc \in [Events -> {"new", "queued"} \union Running \union Ended]
    /\ at \in [Events -> SUBSET Processes]
    /\ ctx \in [Events -> [creation : BOOLEAN, closed : BOOLEAN,
                           row : [n : Nat, reset : Nat], read : Nat, thread : Nat, ts : Nat]]
    /\ debounce \in [Processes -> SUBSET Objects]
    /\ usage \in [n : Nat, reset : 1..Months]
    /\ mapping \in [Objects -> Nat]
    /\ cards \in [Objects -> Nat]
    /\ closed \subseteq Objects
    /\ month \in 1..Months
    /\ posted \subseteq Events
    /\ sent \in Nat

\* The cap is checked long before a card is counted, so a free workspace can
\* exceed it (notification_service.py:332, 415, 535), but only by the handlers
\* that run at the same time and by the cards whose handler raised after sending.
OverrunBounded ==
    Plan = "free" => sent < Cap + Cardinality(Processes) * Slots
                             + Cardinality({e \in posted : pc[e] = "failed"})

\* In a month, a lost update may cost the workspace's counter some cards, but no
\* card is counted that was not sent, or counted twice (workspace_storage.py:
\* 130-152): with the cards still being recorded it never exceeds what Slack got.
CountedWereSent ==
    usage.n + Cardinality({e \in posted : pc[e] \in {"init", "announce", "record", "count", "write"}})
        <= sent

\* What the code says of the cap and its counter, "per month" and "Triggers
\* monthly reset if needed" (notification_service.py:414, 534): a month in which
\* no card has been counted yet suppresses no notification whose handler read the
\* row in that month.
CapIsMonthly ==
    [][\A e \in Events :
         pc[e] # "capped" /\ pc'[e] = "capped" /\ ctx[e].read = month
             => usage.reset = month]_vars

\* A ticket or task of a pro workspace gets one card: events that come close
\* together are debounced, later ones find the thread (notification_service.py:25,
\* 422).  Closed tickets have no thread and are left out.
OneRootCard ==
    \A o \in Objects :
        IsPro /\ TypeOf[o] \in {"ticket", "task"} /\ o \notin closed => cards[o] <= 1

\* A creation is debounced only in favour of an event of the same object whose
\* card is in Slack or on its way (notification_service.py:274-296).
DebouncedIsNotified ==
    \A e \in Events : pc[e] = "debounced" /\ Kind[e] = "creation" =>
        \E f \in Events \ {e} :
            Of[f] = Of[e] /\ (f \in posted \/ pc[f] \in Notifying)

\* "Notify for Call/Meeting/Email tasks OR High/Urgent Priority tasks"
\* (notification_service.py:246): what HubSpot holds of the task decides, not what
\* was asked for.
WorthACard(o) == TypeOf[o] = "task" => o \in LoggedTasks \union UrgentTasks

\* A new object that is worth a card is seen in Slack in the end, whichever of its
\* events wins the debounce.
CreationReachesSlack ==
    \A e \in Events :
        pc[e] # "new" /\ Kind[e] = "creation" /\ WorthACard(Of[e])
            ~> \E f \in posted : Of[f] = Of[e]

\* Whatever raises, the slot of the semaphore is given back and every event
\* taken up comes to an end (notification_service.py:67-77, 94).
EventSettles == \A e \in Events : pc[e] # "new" ~> pc[e] \in Ended

=============================================================================
