--------------------------- MODULE GhostingMonitor ---------------------------
(***************************************************************************)
(* GhostingMonitor (ghosting_monitor.py) for one Slack thread: a customer's *)
(* message writes a heartbeat row and starts a 60 s timer in the instance   *)
(* that handled it; an agent's reply deletes the row and cancels the timer  *)
(* of the instance that handled the reply; the scheduler's sweep alerts for *)
(* expired rows whose timer died with its instance.                         *)
(*                                                                          *)
(* A coroutine suspends at every database and Slack call, and the callback  *)
(* of a finished timer runs later than the timer ends.  An agent to alert   *)
(* exists.                                                                  *)
(***************************************************************************)
EXTENDS Naturals, FiniteSets

CONSTANTS Messages,      \* the customer's messages, and the timers they may start
          Replies,       \* the agent's replies
          Instances,
          NoTimer,
          AlertMayFail,  \* may an alert raise?
          MayCrash       \* may an instance be recycled?

ASSUME NoTimerAssumption == NoTimer \notin Messages
ASSUME SwitchAssumption == {AlertMayFail, MayCrash} \subseteq BOOLEAN

VARIABLES msg,      \* how far notify_customer_message is with each message
          reply,    \* how far notify_agent_reply is with each reply
          at,       \* the instance that handles each message and reply
          timer,    \* the task _ghosting_timer started for each message
          pending,  \* _pending_alerts of each instance, for this thread
          row,      \* the heartbeat
          sweep,    \* how far process_stale_heartbeats is
          waiting,  \* the customer wrote after the agent
          alerted,  \* the messages whose heartbeat was there when an alert was sent
          overtaken \* those whose heartbeat was written between an alert and its mark

vars == <<msg, reply, at, timer, pending, row, sweep, waiting, alerted, overtaken>>

\* The row, and the message that wrote it.
NoRow == [live |-> FALSE, due |-> FALSE, triggered |-> FALSE, by |-> NoTimer]
Heartbeat(m) == [live |-> TRUE, due |-> FALSE, triggered |-> FALSE, by |-> m]

Alive == {"sleep", "send", "mark"}

Init ==
    /\ msg = [m \in Messages |-> "new"]
    /\ reply = [r \in Replies |-> "new"]
    /\ at \in [Messages \union Replies -> Instances]
    /\ timer = [m \in Messages |-> "none"]
    /\ pending = [i \in Instances |-> NoTimer]
    /\ row = NoRow
    /\ sweep = "idle"
    /\ waiting = FALSE
    /\ alerted = {}
    /\ overtaken = {}

-----------------------------------------------------------------------------
(* notify_customer_message *)

CustomerWrites(m) ==
    /\ msg[m] = "new"
    /\ msg' = [msg EXCEPT ![m] = "upsert"]
    /\ waiting' = TRUE
    /\ UNCHANGED <<reply, at, timer, pending, row, sweep, alerted, overtaken>>

\* The upsert resets expires_at and alert_triggered.
UpsertHeartbeat(m) ==
    /\ msg[m] = "upsert"
    /\ msg' = [msg EXCEPT ![m] = "start"]
    /\ row' = Heartbeat(m)
    /\ overtaken' = IF sweep = "mark" \/ \E n \in Messages : timer[n] = "mark"
                    THEN overtaken \union {m} ELSE overtaken
    /\ UNCHANGED <<reply, at, timer, pending, sweep, waiting, alerted>>

\* Mutants: no look at _pending_alerts; the instance registered for the timer.
StartTimerAlways(m) ==
    /\ msg[m] = "start"
    /\ msg' = [msg EXCEPT ![m] = "done"]
    /\ pending' = [pending EXCEPT ![at[m]] = m]
    /\ timer' = [timer EXCEPT ![m] = "sleep"]
    /\ UNCHANGED <<reply, at, row, sweep, waiting, alerted, overtaken>>

StartTimerInstance(m) ==
    /\ msg[m] = "start"
    /\ msg' = [msg EXCEPT ![m] = "done"]
    /\ pending' = [pending EXCEPT ![at[m]] = at[m]]
    /\ timer' = [timer EXCEPT ![m] = "sleep"]
    /\ UNCHANGED <<reply, at, row, sweep, waiting, alerted, overtaken>>

\* A timer is started unless one is registered for the thread.
StartTimer(m) ==
    /\ msg[m] = "start"
    /\ msg' = [msg EXCEPT ![m] = "done"]
    /\ IF pending[at[m]] = NoTimer
       THEN /\ pending' = [pending EXCEPT ![at[m]] = m]
            /\ timer' = [timer EXCEPT ![m] = "sleep"]
       ELSE UNCHANGED <<pending, timer>>
    /\ UNCHANGED <<reply, at, row, sweep, waiting, alerted, overtaken>>

-----------------------------------------------------------------------------
(* notify_agent_reply *)

AgentReplies(r) ==
    /\ reply[r] = "new"
    /\ reply' = [reply EXCEPT ![r] = "delete"]
    /\ waiting' = FALSE
    /\ UNCHANGED <<msg, at, timer, pending, row, sweep, alerted, overtaken>>

DeleteHeartbeat(r) ==
    /\ reply[r] = "delete"
    /\ reply' = [reply EXCEPT ![r] = "cancel"]
    /\ row' = NoRow
    /\ UNCHANGED <<msg, at, timer, pending, sweep, waiting, alerted, overtaken>>

\* The registered timer is taken out and cancelled.
CancelTimer(r) ==
    LET i == at[r] IN
    /\ reply[r] = "cancel"
    /\ reply' = [reply EXCEPT ![r] = "done"]
    /\ pending' = [pending EXCEPT ![i] = NoTimer]
    /\ timer' = [m \in Messages |->
                   IF m = pending[i] /\ timer[m] \in Alive THEN "ended" ELSE timer[m]]
    /\ UNCHANGED <<msg, at, row, sweep, waiting, alerted, overtaken>>

-----------------------------------------------------------------------------
(* _ghosting_timer and _trigger_alert *)

\* Mutant: the heartbeat is marked before the alert is sent.
TimerFiresMarked(m) ==
    /\ timer[m] = "sleep"
    /\ timer' = [timer EXCEPT ![m] = "send"]
    /\ row' = [row EXCEPT !.triggered = row.live]
    /\ UNCHANGED <<msg, reply, at, pending, sweep, waiting, alerted, overtaken>>

TimerFires(m) ==
    /\ timer[m] = "sleep"
    /\ timer' = [timer EXCEPT ![m] = "send"]
    /\ UNCHANGED <<msg, reply, at, pending, row, sweep, waiting, alerted, overtaken>>

\* Whatever message the heartbeat is of by now, its customer is alerted for.
Alert == alerted' = IF row.live THEN alerted \union {row.by} ELSE alerted

\* The alert is sent without another look at the heartbeat ...
SendAlert(m) ==
    /\ timer[m] = "send"
    /\ timer' = [timer EXCEPT ![m] = "mark"]
    /\ Alert
    /\ UNCHANGED <<msg, reply, at, pending, row, sweep, waiting, overtaken>>

\* ... and whatever row the thread has by now is marked.
Marked == [row EXCEPT !.triggered = row.live]

MarkAlert(m) ==
    /\ timer[m] = "mark"
    /\ timer' = [timer EXCEPT ![m] = "ended"]
    /\ row' = Marked
    /\ UNCHANGED <<msg, reply, at, pending, sweep, waiting, alerted, overtaken>>

TimerFails(m) ==
    /\ AlertMayFail
    /\ timer[m] \in {"send", "mark"}
    /\ timer' = [timer EXCEPT ![m] = "ended"]
    /\ UNCHANGED <<msg, reply, at, pending, row, sweep, waiting, alerted, overtaken>>

\* The done callback pops the key, whichever timer is registered under it.
DoneCallback(m) ==
    /\ timer[m] = "ended"
    /\ timer' = [timer EXCEPT ![m] = "gone"]
    /\ pending' = [pending EXCEPT ![at[m]] = NoTimer]
    /\ UNCHANGED <<msg, reply, at, row, sweep, waiting, alerted, overtaken>>

-----------------------------------------------------------------------------
(* process_stale_heartbeats, run by the scheduler *)

HeartbeatExpires ==
    /\ row.live /\ ~ row.due
    /\ row' = [row EXCEPT !.due = TRUE]
    /\ UNCHANGED <<msg, reply, at, timer, pending, sweep, waiting, alerted, overtaken>>

SweepFetch ==
    /\ sweep = "idle"
    /\ row.live /\ row.due /\ ~ row.triggered
    /\ sweep' = "send"
    /\ UNCHANGED <<msg, reply, at, timer, pending, row, waiting, alerted, overtaken>>

SweepAlert ==
    /\ sweep = "send"
    /\ sweep' = "mark"
    /\ Alert
    /\ UNCHANGED <<msg, reply, at, timer, pending, row, waiting, overtaken>>

SweepMark ==
    /\ sweep = "mark"
    /\ sweep' = "clean"
    /\ row' = Marked
    /\ UNCHANGED <<msg, reply, at, timer, pending, waiting, alerted, overtaken>>

\* What the alert or its mark raises is gathered with return_exceptions.
SweepFails ==
    /\ AlertMayFail
    /\ sweep \in {"send", "mark"}
    /\ sweep' = "clean"
    /\ UNCHANGED <<msg, reply, at, timer, pending, row, waiting, alerted, overtaken>>

\* Marked rows more than an hour old (old) are deleted.
SweepClean(old) ==
    /\ sweep = "clean"
    /\ sweep' = "idle"
    /\ row' = IF row.triggered /\ old THEN NoRow ELSE row
    /\ UNCHANGED <<msg, reply, at, timer, pending, waiting, alerted, overtaken>>

\* The instance that sweeps is recycled.
SweepDies ==
    /\ MayCrash
    /\ sweep # "idle"
    /\ sweep' = "idle"
    /\ UNCHANGED <<msg, reply, at, timer, pending, row, waiting, alerted, overtaken>>

\* The instance is recycled: its timers and the handlers it runs are gone.
Crash(i) ==
    /\ MayCrash
    /\ \/ \E m \in Messages : at[m] = i /\ (msg[m] \in {"upsert", "start"} \/ timer[m] \in Alive)
       \/ \E r \in Replies : at[r] = i /\ reply[r] \in {"delete", "cancel"}
    /\ msg' = [m \in Messages |->
                 IF at[m] # i THEN msg[m]
                 ELSE IF msg[m] = "upsert" THEN "lost"
                 ELSE IF msg[m] = "start" THEN "done" ELSE msg[m]]
    /\ reply' = [r \in Replies |-> IF at[r] = i /\ reply[r] # "new" THEN "done" ELSE reply[r]]
    /\ timer' = [m \in Messages |->
                   IF at[m] = i /\ timer[m] # "none" THEN "gone" ELSE timer[m]]
    /\ pending' = [pending EXCEPT ![i] = NoTimer]
    /\ UNCHANGED <<at, row, sweep, waiting, alerted, overtaken>>

-----------------------------------------------------------------------------
MessageStep(m) == UpsertHeartbeat(m) \/ StartTimer(m)
ReplyStep(r) == DeleteHeartbeat(r) \/ CancelTimer(r)
TimerStep(m) == \/ TimerFires(m) \/ SendAlert(m) \/ MarkAlert(m)
                \/ TimerFails(m) \/ DoneCallback(m)
SweepStep == \/ SweepFetch \/ SweepAlert \/ SweepMark \/ SweepFails \/ SweepDies
             \/ \E old \in BOOLEAN : SweepClean(old)

Next ==
    \/ \E m \in Messages : CustomerWrites(m) \/ MessageStep(m) \/ TimerStep(m)
    \/ \E r \in Replies : AgentReplies(r) \/ ReplyStep(r)
    \/ HeartbeatExpires
    \/ SweepStep
    \/ \E i \in Instances : Crash(i)

Spec == Init /\ [][Next]_vars

\* Time passes, the scheduler keeps invoking the sweep, the event loop of an
\* instance that lives runs its coroutines, and not every alert of the sweep is
\* refused by Slack or cut short by a recycled instance.
Fairness ==
    /\ \A m \in Messages : WF_vars(MessageStep(m)) /\ WF_vars(TimerStep(m))
    /\ \A r \in Replies : WF_vars(ReplyStep(r))
    /\ WF_vars(HeartbeatExpires)
    /\ WF_vars(SweepStep)
    /\ SF_vars(SweepAlert)

FairSpec == Spec /\ Fairness

-----------------------------------------------------------------------------
(* Properties. *)

TypeOK ==
    /\ msg \in [Messages -> {"new", "upsert", "start", "done", "lost"}]
    /\ reply \in [Replies -> {"new", "delete", "cancel", "done"}]
    /\ at \in [Messages \union Replies -> Instances]
    /\ timer \in [Messages -> {"none", "ended", "gone"} \union Alive]
    /\ pending \in [Instances -> Messages \union {NoTimer}]
    /\ row \in [live : BOOLEAN, due : BOOLEAN, triggered : BOOLEAN,
              by : Messages \union {NoTimer}]
    /\ row.live => row.by \in Messages
    /\ sweep \in {"idle", "send", "mark", "clean"}
    /\ waiting \in BOOLEAN
    /\ alerted \subseteq Messages
    /\ overtaken \subseteq Messages

\* However its messages overlap, and whatever timers die, an instance runs one
\* timer for the thread (ghosting_monitor.py:57-58) until a reply cancels one.
OneTimer ==
    (\A r \in Replies : reply[r] \in {"new", "delete"}) =>
        \A m, n \in Messages :
            timer[m] \in Alive /\ timer[n] \in Alive /\ at[m] = at[n] => m = n

\* "Database-backed heartbeats to survive Lambda container recycling"
\* (ghosting_monitor.py:22): as long as the heartbeat a message wrote stands, an
\* alert is sent for it, also when the instances are recycled or alerts fail --
\* unless it was written between an alert sent before and that alert's mark (190).
HeartbeatIsHonoured ==
    \A m \in Messages :
        row.live /\ row.by = m
            ~> m \in alerted \union overtaken \/ ~ (row.live /\ row.by = m)


=============================================================================
