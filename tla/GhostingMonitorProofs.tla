------------------------ MODULE GhostingMonitorProofs -----------------------
(***************************************************************************)
(* Proofs about GhostingMonitor, for any number of messages, replies and   *)
(* instances: the type invariant and the uniqueness of an instance's timer *)
(* until a reply cancels one.                                              *)
(***************************************************************************)
EXTENDS GhostingMonitor, TLAPS

Rows == [live : BOOLEAN, due : BOOLEAN, triggered : BOOLEAN, by : Messages \union {NoTimer}]

LEMMA RowFacts ==
    /\ NoRow \in Rows /\ ~ NoRow.live
    /\ \A m \in Messages : Heartbeat(m) \in Rows /\ Heartbeat(m).by = m
  BY Zenon DEF NoRow, Heartbeat, Rows

\* A mark leaves a row, and an alert is for a message.
LEMMA MarkedType == TypeOK => Marked \in Rows /\ Marked.live = row.live /\ Marked.by = row.by
  BY DEF TypeOK, Marked, Rows

LEMMA AlertType == TypeOK /\ Alert => alerted' \subseteq Messages
<1> SUFFICES ASSUME TypeOK, Alert, row.live PROVE row.by \in Messages
  BY DEF TypeOK, Alert
<1> QED
  BY DEF TypeOK

LEMMA InitTypeOK == Init => TypeOK
<1> SUFFICES ASSUME Init PROVE TypeOK
  OBVIOUS
<1>1. waiting \in BOOLEAN
  BY Zenon DEF Init
<1>2. /\ ~ row.live /\ row \in Rows /\ alerted \subseteq Messages
      /\ overtaken \subseteq Messages /\ sweep = "idle"
  BY RowFacts DEF Init
<1> QED
  BY <1>1, <1>2 DEF Init, TypeOK, Rows, Alive

LEMMA StepTypeOK == TypeOK /\ [Next]_vars => TypeOK'
<1> SUFFICES ASSUME TypeOK, [Next]_vars PROVE TypeOK'
  OBVIOUS
<1>0. ASSUME NEW m \in Messages, CustomerWrites(m) PROVE TypeOK'
  <2>1. waiting' \in BOOLEAN
    BY <1>0, Zenon DEF CustomerWrites
  <2> QED
    BY <1>0, <2>1 DEF CustomerWrites, TypeOK
<1>1. ASSUME NEW m \in Messages, MessageStep(m) PROVE TypeOK'
  BY <1>1, RowFacts DEF MessageStep, UpsertHeartbeat, StartTimer, Rows, TypeOK, Alive
<1>2. ASSUME NEW m \in Messages, TimerStep(m) PROVE TypeOK'
  <2>1. CASE SendAlert(m)
    BY <2>1, AlertType DEF SendAlert, TypeOK, Alive
  <2>2. CASE MarkAlert(m)
    BY <2>2, MarkedType DEF MarkAlert, Rows, TypeOK, Alive
  <2>3. CASE TimerFires(m) \/ TimerFails(m) \/ DoneCallback(m)
    BY <2>3 DEF TimerFires, TimerFails, DoneCallback, TypeOK, Alive
  <2> QED
    BY <1>2, <2>1, <2>2, <2>3 DEF TimerStep
<1>3. ASSUME NEW r \in Replies, AgentReplies(r) \/ ReplyStep(r) PROVE TypeOK'
  <2>1. CASE AgentReplies(r)
    BY <2>1 DEF AgentReplies, TypeOK
  <2>2. CASE DeleteHeartbeat(r)
    <3>1. row' \in Rows /\ ~ row'.live
      BY <2>2, RowFacts, Zenon DEF DeleteHeartbeat
    <3> QED
      BY <2>2, <3>1 DEF DeleteHeartbeat, Rows, TypeOK
  <2>3. CASE CancelTimer(r)
    BY <2>3 DEF CancelTimer, TypeOK, Alive
  <2> QED
    BY <1>3, <2>1, <2>2, <2>3 DEF ReplyStep
<1>4. CASE HeartbeatExpires
  <2>1. row' \in Rows /\ row'.live = row.live /\ row'.by = row.by
    BY <1>4 DEF HeartbeatExpires, Rows, TypeOK
  <2> QED
    BY <1>4, <2>1 DEF HeartbeatExpires, Rows, TypeOK
<1>5. CASE SweepStep
  <2>1. CASE SweepAlert
    BY <2>1, AlertType DEF SweepAlert, TypeOK
  <2>2. CASE SweepMark
    BY <2>2, MarkedType DEF SweepMark, Rows, TypeOK
  <2>3. ASSUME NEW old \in BOOLEAN, SweepClean(old) PROVE TypeOK'
    BY <2>3, RowFacts DEF SweepClean, Rows, TypeOK
  <2>4. CASE SweepFetch \/ SweepFails \/ SweepDies
    BY <2>4 DEF SweepFetch, SweepFails, SweepDies, TypeOK
  <2> QED
    BY <1>5, <2>1, <2>2, <2>3, <2>4 DEF SweepStep
<1>6. ASSUME NEW i \in Instances, Crash(i) PROVE TypeOK'
  BY <1>6 DEF Crash, TypeOK, Alive
<1>7. CASE UNCHANGED vars
  BY <1>7 DEF vars, TypeOK
<1> QED
  BY <1>0, <1>1, <1>2, <1>3, <1>4, <1>5, <1>6, <1>7 DEF Next

\* Every reachable state is well typed.
THEOREM TypeCorrect == Spec => []TypeOK
  BY InitTypeOK, StepTypeOK, PTL DEF Spec

-----------------------------------------------------------------------------
(* One timer. *)

\* No reply has cancelled a timer yet, or is about to.
Unanswered == \A r \in Replies : reply[r] \in {"new", "delete"}

\* The timer of m runs, or has ended and its done callback has not been called.
Registered(m) == timer[m] \in Alive \union {"ended"}

\* OneTimer is not inductive: it rests on every such timer being the one that
\* _pending_alerts has, so that the callback of one cannot pop another.
TimerInv ==
    /\ TypeOK
    /\ Unanswered => \A m \in Messages : Registered(m) => pending[at[m]] = m

\* Nothing a step does to the replies makes them unanswered again.
LEMMA StaysAnswered ==
    ASSUME TypeOK, [Next]_vars, Unanswered'
    PROVE  Unanswered
<1>1. ASSUME NEW r \in Replies, AgentReplies(r) \/ DeleteHeartbeat(r) \/ CancelTimer(r)
      PROVE  Unanswered
  BY <1>1 DEF AgentReplies, DeleteHeartbeat, CancelTimer, Unanswered, TypeOK
<1>2. ASSUME NEW i \in Instances, Crash(i) PROVE Unanswered
  BY <1>2 DEF Crash, Unanswered, TypeOK
<1>3. CASE reply' = reply
  BY <1>3 DEF Unanswered
<1> QED
  BY <1>1, <1>2, <1>3
     DEF Next, vars, MessageStep, ReplyStep, TimerStep, SweepStep, CustomerWrites,
         UpsertHeartbeat, StartTimer, TimerFires, SendAlert, MarkAlert, TimerFails,
         DoneCallback, HeartbeatExpires, SweepFetch, SweepAlert, SweepMark, SweepFails,
         SweepDies, SweepClean

LEMMA StepTimerInv == TimerInv /\ [Next]_vars => TimerInv'
<1> SUFFICES ASSUME TimerInv, [Next]_vars, Unanswered', NEW m \in Messages, Registered(m)'
             PROVE  pending'[at'[m]] = m
  BY StepTypeOK DEF TimerInv
<1>1. TypeOK /\ TypeOK' /\ Unanswered
  BY StepTypeOK, StaysAnswered DEF TimerInv
<1>2. Registered(m) => pending[at[m]] = m
  BY <1>1 DEF TimerInv
<1>3. CASE UNCHANGED <<timer, pending, at>>
  BY <1>2, <1>3 DEF Registered
<1>4. ASSUME NEW n \in Messages, StartTimer(n) PROVE pending'[at'[m]] = m
  BY <1>1, <1>2, <1>4, NoTimerAssumption DEF StartTimer, Registered, TypeOK, Alive
<1>5. ASSUME NEW n \in Messages, TimerFires(n) \/ SendAlert(n) \/ MarkAlert(n) \/ TimerFails(n)
      PROVE  pending'[at'[m]] = m
  BY <1>1, <1>2, <1>5 DEF TimerFires, SendAlert, MarkAlert, TimerFails, Registered, TypeOK, Alive
<1>6. ASSUME NEW n \in Messages, DoneCallback(n) PROVE pending'[at'[m]] = m
  <2>1. Registered(n) /\ pending[at[n]] = n
    BY <1>1, <1>6 DEF DoneCallback, Registered, TimerInv
  <2>2. m # n
    BY <1>1, <1>6 DEF DoneCallback, Registered, TypeOK, Alive
  <2>3. Registered(m) /\ at' = at
    BY <1>1, <1>6, <2>2 DEF DoneCallback, Registered, TypeOK
  <2>4. at[m] # at[n]
    BY <1>2, <2>1, <2>2, <2>3
  <2> QED
    BY <1>1, <1>2, <1>6, <2>3, <2>4 DEF DoneCallback, TypeOK
<1>7. ASSUME NEW r \in Replies, CancelTimer(r) PROVE pending'[at'[m]] = m
  BY <1>1, <1>7 DEF CancelTimer, Unanswered
<1>8. ASSUME NEW i \in Instances, Crash(i) PROVE pending'[at'[m]] = m
  BY <1>1, <1>2, <1>8 DEF Crash, Registered, TypeOK, Alive
<1> QED
  BY <1>3, <1>4, <1>5, <1>6, <1>7, <1>8
     DEF Next, vars, MessageStep, ReplyStep, TimerStep, SweepStep, CustomerWrites,
         UpsertHeartbeat, AgentReplies, DeleteHeartbeat, HeartbeatExpires, SweepFetch,
         SweepAlert, SweepMark, SweepFails, SweepDies, SweepClean

\* However the messages of a thread overlap, and whatever timers end, fail or die
\* with their instance, an instance runs one timer for the thread until a reply
\* cancels one (ghosting_monitor.py:57-66).
THEOREM TimerIsUnique == Spec => []OneTimer
<1>1. Init => TimerInv
  BY InitTypeOK DEF Init, TimerInv, Registered, Alive
<1>2. TimerInv => OneTimer
  BY DEF TimerInv, OneTimer, Unanswered, Registered
<1> QED
  BY <1>1, <1>2, StepTimerInv, PTL DEF Spec
=============================================================================
