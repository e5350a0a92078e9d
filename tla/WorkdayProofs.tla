---------------------------- MODULE WorkdayProofs ----------------------------
(***************************************************************************)
(* What is proved of Workday.  Interactions: every handler is a sequence   *)
(* of steps with at most one write, marked before, and a submission's      *)
(* write is ahead of it until it is settled; a behaviour's request goes    *)
(* through such a program.  Upkeep: for any digests and sweeps a deleted   *)
(* digest comes back only by a sweep that had it in hand, and for any      *)
(* owners, syncs and requests a free workspace keeps its limit of manual   *)
(* mappings up to the orders that excuse it; digests, mappings and the     *)
(* plan move together, which the runs look at one by one.  Desk: a day     *)
(* implements the specification that DeskProofs reasons about, and         *)
(* inherits its theorems.  Analysis: whatever the sentiment, a decayed     *)
(* pulse of sixty days is not above neutral, and no bad news improves a    *)
(* card but by the steps of a ticket's SLA.                                *)
(***************************************************************************)
EXTENDS Workday, SequenceTheorems, FiniteSetTheorems, WellFoundedInduction, TLAPS

----------------------------------------------------------------------------
(* Handlers of interactions as sequences of steps.                         *)
Policy == {"tell", "quiet", "raise", "dm", "skip", "modal", "email", "via", "where"}
Deed == {"contact", "attach", "timeline", "read", "associated", "meetings", "choices", "search", "report", "note",
         "uninstall", "client", "send", "thread", "object", "primary", "write", "try", "email", "mark", "card",
         "show", "loading", "modal", "list", "open", "stage", "nudge", "gate"}
Step == [do : Deed, or : Policy]
Steps == Seq(Step)

(* Handlers are written as concatenations of short tuples.                 *)
LEMMA ShortTuples ==
  /\ \A x, y : <<x>> \o <<y>> = <<x, y>>
  /\ \A x, y, z : <<x>> \o <<y, z>> = <<x, y, z>> /\ <<x, y>> \o <<z>> = <<x, y, z>>
  /\ \A x, y, z, w : /\ <<x>> \o <<y, z, w>> = <<x, y, z, w>>
                     /\ <<x, y>> \o <<z, w>> = <<x, y, z, w>>
                     /\ <<x, y, z>> \o <<w>> = <<x, y, z, w>>
<1>1. ASSUME NEW x, NEW y PROVE <<x>> \o <<y>> = <<x, y>>
  <2> DEFINE S == {x, y}
  <2> DEFINE u == <<x>> \o <<y>>
  <2>1. <<x>> \in Seq(S) /\ <<y>> \in Seq(S) /\ Len(<<x>>) = 1 /\ Len(<<y>>) = 1
    OBVIOUS
  <2>2. u \in Seq(S) /\ Len(u) = 2 /\ \A i \in 1..2 : u[i] = IF i <= 1 THEN <<x>>[i] ELSE <<y>>[i - 1]
    BY <2>1, ConcatProperties
  <2>3. u[1] = x /\ u[2] = y
    BY <2>2
  <2>4. <<x, y>> \in Seq(S) /\ Len(<<x, y>>) = 2 /\ <<x, y>>[1] = x /\ <<x, y>>[2] = y
    OBVIOUS
  <2> HIDE DEF u
  <2>5. u = <<x, y>>
    BY <2>2, <2>3, <2>4, SeqEqual
  <2> QED BY <2>5 DEF u
<1>2. ASSUME NEW x, NEW y, NEW z PROVE <<x>> \o <<y, z>> = <<x, y, z>> /\ <<x, y>> \o <<z>> = <<x, y, z>>
  <2> DEFINE S == {x, y, z}
  <2> DEFINE u == <<x>> \o <<y, z>>
  <2> DEFINE v == <<x, y>> \o <<z>>
  <2>1. /\ <<x>> \in Seq(S) /\ <<y, z>> \in Seq(S) /\ Len(<<x>>) = 1 /\ Len(<<y, z>>) = 2
        /\ <<x, y>> \in Seq(S) /\ <<z>> \in Seq(S) /\ Len(<<x, y>>) = 2 /\ Len(<<z>>) = 1
    OBVIOUS
  <2>2. u \in Seq(S) /\ Len(u) = 3 /\ \A i \in 1..3 : u[i] = IF i <= 1 THEN <<x>>[i] ELSE <<y, z>>[i - 1]
    BY <2>1, ConcatProperties
  <2>3. v \in Seq(S) /\ Len(v) = 3 /\ \A i \in 1..3 : v[i] = IF i <= 2 THEN <<x, y>>[i] ELSE <<z>>[i - 2]
    BY <2>1, ConcatProperties
  <2>4. u[1] = x /\ u[2] = y /\ u[3] = z /\ v[1] = x /\ v[2] = y /\ v[3] = z
    BY <2>2, <2>3
  <2>5. /\ <<x, y, z>> \in Seq(S) /\ Len(<<x, y, z>>) = 3
        /\ <<x, y, z>>[1] = x /\ <<x, y, z>>[2] = y /\ <<x, y, z>>[3] = z
    OBVIOUS
  <2> HIDE DEF u, v
  <2>6. u = <<x, y, z>> /\ v = <<x, y, z>>
    BY <2>2, <2>3, <2>4, <2>5, SeqEqual
  <2> QED BY <2>6 DEF u, v
<1>3. ASSUME NEW x, NEW y, NEW z, NEW w
      PROVE  /\ <<x>> \o <<y, z, w>> = <<x, y, z, w>>
             /\ <<x, y>> \o <<z, w>> = <<x, y, z, w>>
             /\ <<x, y, z>> \o <<w>> = <<x, y, z, w>>
  <2> DEFINE S == {x, y, z, w}
  <2> DEFINE u == <<x>> \o <<y, z, w>>
  <2> DEFINE v == <<x, y>> \o <<z, w>>
  <2> DEFINE t == <<x, y, z>> \o <<w>>
  <2>1. /\ <<x>> \in Seq(S) /\ <<y, z, w>> \in Seq(S) /\ Len(<<x>>) = 1 /\ Len(<<y, z, w>>) = 3
        /\ <<x, y>> \in Seq(S) /\ <<z, w>> \in Seq(S) /\ Len(<<x, y>>) = 2 /\ Len(<<z, w>>) = 2
        /\ <<x, y, z>> \in Seq(S) /\ <<w>> \in Seq(S) /\ Len(<<x, y, z>>) = 3 /\ Len(<<w>>) = 1
    OBVIOUS
  <2>2. u \in Seq(S) /\ Len(u) = 4 /\ \A i \in 1..4 : u[i] = IF i <= 1 THEN <<x>>[i] ELSE <<y, z, w>>[i - 1]
    BY <2>1, ConcatProperties
  <2>3. v \in Seq(S) /\ Len(v) = 4 /\ \A i \in 1..4 : v[i] = IF i <= 2 THEN <<x, y>>[i] ELSE <<z, w>>[i - 2]
    BY <2>1, ConcatProperties
  <2>4. t \in Seq(S) /\ Len(t) = 4 /\ \A i \in 1..4 : t[i] = IF i <= 3 THEN <<x, y, z>>[i] ELSE <<w>>[i - 3]
    BY <2>1, ConcatProperties
  <2>5. /\ u[1] = x /\ u[2] = y /\ u[3] = z /\ u[4] = w
        /\ v[1] = x /\ v[2] = y /\ v[3] = z /\ v[4] = w
        /\ t[1] = x /\ t[2] = y /\ t[3] = z /\ t[4] = w
    BY <2>2, <2>3, <2>4
  <2>6. /\ <<x, y, z, w>> \in Seq(S) /\ Len(<<x, y, z, w>>) = 4
        /\ <<x, y, z, w>>[1] = x /\ <<x, y, z, w>>[2] = y /\ <<x, y, z, w>>[3] = z /\ <<x, y, z, w>>[4] = w
    OBVIOUS
  <2> HIDE DEF u, v, t
  <2>7. u = <<x, y, z, w>> /\ v = <<x, y, z, w>> /\ t = <<x, y, z, w>>
    BY <2>2, <2>3, <2>4, <2>5, <2>6, SeqEqual
  <2> QED BY <2>7 DEF u, v, t
<1> QED BY <1>1, <1>2, <1>3

\* A step that neither writes nor can bring the handler to be run again.
Spent(s) == /\ s.do \notin {"write", "try", "email"} /\ s.or \notin {"raise", "email"}
            /\ s.or \in {"dm", "modal", "via", "where"} => s.do = "mark"

\* After a write only such steps follow; a "try" stands before its write.
Once(t) == \A i \in 1..Len(t) :
  /\ t[i].or # "email"
  /\ t[i].do \in {"write", "email"} => \A k \in (i + 1)..Len(t) : Spent(t[k])
  /\ t[i].do = "try" => i < Len(t) /\ \A k \in (i + 2)..Len(t) : Spent(t[k])

\* A mark stands before every write.
MarkedFirst(t) == \A i \in 1..Len(t) :
  /\ t[i].or # "email"
  /\ t[i].do \in {"write", "try", "email"} => \E k \in 1..(i - 1) : t[k].do = "mark"

\* A write stands ahead, and whatever goes wrong before it or in it is told,
\* raised or sent by e-mail; only who reassigns an owner may meet a gate.
Settling(t, a) == \E i \in 1..Len(t) :
  /\ t[i].do \in {"write", "email"} /\ t[i].or # "skip"
  /\ \A k \in 1..i : /\ t[k].do \in {"contact", "client", "mark", "primary", "gate", "try", "write", "email"}
                     /\ t[k].or \in {"tell", "dm", "raise", "email", "skip", "via", "where"}
                     /\ t[k].do = "gate" => a = "reassign_owner_submission"

\* Forms that create an object of their own, and so may be worked on twice.
TwiceExcused == {"create_task", "support_ticket_submission"}

Sound(a, t) == /\ t \in Steps
               /\ a \in TwiceExcused \/ Once(t)
               /\ a \in I!MarkFirst => MarkedFirst(t)
               /\ a \in I!Submissions => Settling(t, a)

(* A handler without a write, and no submission's.                         *)
Harmless(t) == t \in Steps /\ \A i \in 1..Len(t) : t[i].do \notin {"write", "try", "email"} /\ t[i].or # "email"

(* The handlers of submissions and of the buttons that write.              *)
LEMMA WritersAreSound ==
  /\ Sound("add_note_modal", I!AddNote) /\ Sound("add_task_modal", I!AddTask)
  /\ Sound("schedule_meeting_modal", I!ScheduleMeeting) /\ Sound("record_recap_submission_modal", I!SaveRecap)
  /\ Sound("update_deal_type_modal", I!UpdateDealType) /\ Sound("post_mortem_submission", I!PostMortem)
  /\ Sound("calculator_submission", I!Calculate)
  /\ Sound("next_step_enforcement_submission", I!EnforceNextStep)
  /\ Sound("log_next_step_submission", I!LogNextStep) /\ Sound("reassign_owner_submission", I!ReassignOwner)
  /\ Sound("create_contact", I!CreateRecord) /\ Sound("create_lead", I!CreateLead)
  /\ Sound("create_task", I!CreateTask) /\ Sound("support_ticket_submission", I!RequestSupport)
  /\ Sound("update_deal_stage", I!UpdateDealStage) /\ Sound("update_deal_closedate", I!UpdateCloseDate)
  /\ Sound("update_task_status", I!UpdateTaskStatus) /\ Sound("update_task_priority", I!UpdateTaskPriority)
<1> USE ShortTuples DEF I!Under, Steps, Step, Deed, Policy, Sound, Once, Spent, MarkedFirst, Settling,
                        I!Submissions, TwiceExcused, I!MarkFirst
<1>1. Sound("add_note_modal", I!AddNote)
  BY DEF I!AddNote
<1>2. Sound("add_task_modal", I!AddTask)
  BY DEF I!AddTask
<1>3. Sound("schedule_meeting_modal", I!ScheduleMeeting)
  BY DEF I!ScheduleMeeting
<1>4. Sound("record_recap_submission_modal", I!SaveRecap)
  BY DEF I!SaveRecap
<1>5. Sound("update_deal_type_modal", I!UpdateDealType)
  BY DEF I!UpdateDealType
<1>6. Sound("post_mortem_submission", I!PostMortem)
  BY DEF I!PostMortem
<1>7. Sound("calculator_submission", I!Calculate)
  BY DEF I!Calculate
<1>8. Sound("next_step_enforcement_submission", I!EnforceNextStep)
  BY DEF I!EnforceNextStep
<1>9. Sound("log_next_step_submission", I!LogNextStep)
  BY DEF I!LogNextStep
<1>10. Sound("reassign_owner_submission", I!ReassignOwner)
  BY DEF I!ReassignOwner
<1>11. Sound("create_contact", I!CreateRecord)
  BY DEF I!CreateRecord
<1>12. Sound("create_lead", I!CreateLead)
  BY DEF I!CreateLead
<1>13. Sound("create_task", I!CreateTask)
  BY DEF I!CreateTask
<1>14. Sound("support_ticket_submission", I!RequestSupport)
  BY DEF I!RequestSupport
<1>15. Sound("update_deal_stage", I!UpdateDealStage)
  BY DEF I!UpdateDealStage
<1>16. Sound("update_deal_closedate", I!UpdateCloseDate)
  BY DEF I!UpdateCloseDate
<1>17. Sound("update_task_status", I!UpdateTaskStatus)
  BY DEF I!UpdateTaskStatus
<1>18. Sound("update_task_priority", I!UpdateTaskPriority)
  BY DEF I!UpdateTaskPriority
<1> HIDE DEF Sound
<1> QED BY <1>1, <1>2, <1>3, <1>4, <1>5, <1>6, <1>7, <1>8, <1>9, <1>10, <1>11, <1>12, <1>13, <1>14, <1>15, <1>16,
           <1>17, <1>18

(* The handlers that open, show, list or post.                             *)
LEMMA OthersAreHarmless ==
  /\ Harmless(I!OpenMeeting) /\ Harmless(I!OpenAddNote) /\ Harmless(I!OpenAddTask) /\ Harmless(I!OpenRecap)
  /\ Harmless(I!OpenReply) /\ Harmless(I!OpenDealType) /\ Harmless(I!OpenCalculator) /\ Harmless(I!OpenNextStep)
  /\ Harmless(I!OpenReassign) /\ Harmless(I!OpenSupport) /\ Harmless(I!ViewObject) /\ Harmless(I!ViewInChannel)
  /\ Harmless(I!ViewDeals) /\ Harmless(I!ViewCompany) /\ Harmless(I!ViewContacts) /\ Harmless(I!ViewMeetings)
  /\ Harmless(I!SelectObject) /\ Harmless(I!PostToChannel) /\ Harmless(I!GatedClick)
  /\ Harmless(I!ConfirmDisconnect) /\ Harmless(I!UninstallAll) /\ Harmless(I!UninstallHubSpot)
  /\ Harmless(I!Report) /\ Harmless(I!SearchAndSend) /\ Harmless(<<>>)
  /\ Harmless(I!UpgradeNudge) /\ Harmless(I!ChooseType)
<1> USE ShortTuples DEF I!Under, Steps, Step, Deed, Policy, Harmless
<1>1. Harmless(I!OpenMeeting) /\ Harmless(I!OpenAddNote) /\ Harmless(I!OpenAddTask)
  BY DEF I!OpenMeeting, I!OpenAddNote, I!OpenAddTask
<1>2. Harmless(I!OpenRecap) /\ Harmless(I!OpenReply)
  BY DEF I!OpenRecap, I!OpenReply
<1>3. Harmless(I!OpenDealType) /\ Harmless(I!OpenCalculator)
  BY DEF I!OpenDealType, I!OpenCalculator
<1>4. Harmless(I!OpenNextStep) /\ Harmless(I!OpenReassign) /\ Harmless(I!OpenSupport)
  BY DEF I!OpenNextStep, I!OpenReassign, I!OpenSupport
<1>5. Harmless(I!ViewObject) /\ Harmless(I!ViewInChannel)
  BY DEF I!ViewObject, I!ViewInChannel
<1>6. Harmless(I!ViewDeals) /\ Harmless(I!ViewCompany) /\ Harmless(I!ViewContacts) /\ Harmless(I!ViewMeetings)
  BY DEF I!ViewDeals, I!ViewCompany, I!ViewContacts, I!ViewMeetings
<1>7. Harmless(I!SelectObject) /\ Harmless(I!PostToChannel) /\ Harmless(I!GatedClick)
  BY DEF I!SelectObject, I!PostToChannel, I!GatedClick
<1>8. Harmless(I!ConfirmDisconnect) /\ Harmless(I!UninstallAll) /\ Harmless(I!UninstallHubSpot)
  BY DEF I!ConfirmDisconnect, I!UninstallAll, I!UninstallHubSpot
<1>9. Harmless(I!Report) /\ Harmless(I!SearchAndSend) /\ Harmless(<<>>)
  BY DEF I!Report, I!SearchAndSend
<1>10. Harmless(I!UpgradeNudge) /\ Harmless(I!ChooseType)
  BY DEF I!UpgradeNudge, I!ChooseType
<1> HIDE DEF Harmless
<1> QED BY <1>1, <1>2, <1>3, <1>4, <1>5, <1>6, <1>7, <1>8, <1>9, <1>10

(* A harmless handler writes neither twice nor before a mark.              *)
LEMMA HarmlessIsSound == ASSUME NEW t, Harmless(t) PROVE Once(t) /\ MarkedFirst(t)
  BY DEF Harmless, Once, MarkedFirst

(* The handler of every action id, and what is left of it when the value   *)
(* names no record.                                                        *)
LEMMA HandlersAreSound ==
  ASSUME NEW a \in DOMAIN I!Handler
  PROVE  \/ Harmless(I!Handler[a]) /\ a \notin I!Submissions
         \/ Sound(a, I!Handler[a])
  BY WritersAreSound, OthersAreHarmless DEF I!Handler, I!Submissions

(* A gate alone is as good as the handler it stands in.                    *)
LEMMA GateAlone ==
  ASSUME NEW t \in Steps, NEW g \in DOMAIN t, t[g].do = "gate"
  PROVE  /\ <<t[g]>> \in Steps
         /\ Once(t) => Once(<<t[g]>>)
         /\ MarkedFirst(t) => MarkedFirst(<<t[g]>>)
<1>1. g \in 1..Len(t) /\ t[g] \in Step
  BY DEF Steps
<1> DEFINE s == t[g]
<1>2. Once(t) \/ MarkedFirst(t) => s.or # "email"
  BY <1>1 DEF Once, MarkedFirst
<1>3. s \in Step /\ s.do = "gate"
  BY <1>1
<1> HIDE DEF s
<1>4. <<s>> \in Steps /\ Len(<<s>>) = 1 /\ <<s>>[1] = s
  BY <1>3 DEF Steps
<1>5. (Once(t) => Once(<<s>>)) /\ (MarkedFirst(t) => MarkedFirst(<<s>>))
  BY <1>2, <1>3, <1>4 DEF Once, MarkedFirst
<1> QED BY <1>4, <1>5 DEF s

(* What a worker starts with.                                              *)
LEMMA ProgramIsSound ==
  /\ I!Program \in Steps
  /\ ask.action \in TwiceExcused \/ Once(I!Program)
  /\ ask.action \in I!MarkFirst => MarkedFirst(I!Program)
  /\ ask.pair /\ ask.action \in I!Submissions /\ duty = "handle_interaction" => Settling(I!Program, ask.action)
<1> DEFINE action == IF ask.action = "gated_feature_click" /\ plan = "pro" /\ ask.feature \in I!Gated
                     THEN ask.feature ELSE ask.action
           steps == IF action \in DOMAIN I!Handler THEN I!Handler[action] ELSE <<>>
           gates == {i \in DOMAIN steps : steps[i].do = "gate"}
           Goal(t) == /\ t \in Steps /\ (ask.action \in TwiceExcused \/ Once(t))
                      /\ ask.action \in I!MarkFirst => MarkedFirst(t)
<1>1. \A t : Harmless(t) => Goal(t)
  BY HarmlessIsSound DEF Harmless
<1>2. action = ask.action \/ action \in I!Gated
  OBVIOUS
<1>3. ASSUME NEW a \in I!Gated PROVE a \in DOMAIN I!Handler /\ Harmless(I!Handler[a])
  BY OthersAreHarmless DEF I!Gated, I!Handler
<1>4. Goal(steps)
  <2>1. CASE action \in I!Gated
    BY <1>1, <1>3, <2>1 DEF I!Gated, I!Submissions
  <2>2. CASE action = ask.action /\ action \in DOMAIN I!Handler
    BY <1>1, <2>2, HandlersAreSound DEF Sound
  <2>3. CASE action \notin DOMAIN I!Handler
    BY <1>1, <2>3, OthersAreHarmless
  <2> QED BY <1>2, <2>1, <2>2, <2>3
<1>5. I!Submissions \subseteq DOMAIN I!Handler /\ "gated_feature_click" \notin I!Submissions
  BY DEF I!Submissions, I!Handler
<1>6. ASSUME gates # {} PROVE Goal(<<steps[CHOOSE i \in gates : TRUE]>>)
  <2>1. PICK g \in gates : g = CHOOSE i \in gates : TRUE
    BY <1>6
  <2>2. g \in DOMAIN steps /\ steps[g].do = "gate"
    BY <2>1
  <2> HIDE DEF steps
  <2>3. Goal(<<steps[g]>>)
    BY <1>4, <2>2, GateAlone
  <2> QED BY <2>1, <2>3
<1>7. CASE duty \in {"upgrade_nudge", "handle_shortcut_modal"}
  BY <1>1, <1>7, OthersAreHarmless DEF I!Program
<1>8. CASE duty \notin {"upgrade_nudge", "handle_shortcut_modal"}
  <2>1. I!Program = CASE ask.pair -> steps
                      [] ~ask.pair /\ gates # {} -> <<steps[CHOOSE i \in gates : TRUE]>>
                      [] OTHER -> <<>>
    BY <1>8 DEF I!Program
  <2>2. Goal(<<>>)
    BY <1>1, OthersAreHarmless
  <2>3. Goal(I!Program)
    BY <1>4, <1>6, <2>1, <2>2
  <2>4. ask.pair /\ ask.action \in I!Submissions => Settling(I!Program, ask.action)
    BY <1>4, <1>5, <2>1, HandlersAreSound DEF Sound, Harmless
  <2> QED BY <2>3, <2>4
<1> QED BY <1>7, <1>8

----------------------------------------------------------------------------
(* What a step of a handler does, seen from the steps that are left.       *)
WritesNothing == wrote' = wrote /\ echoes' = echoes
TakesEffect == /\ Head(todo).do \in {"write", "try", "email"}
               /\ wrote' = wrote + 1 /\ echoes' = echoes \cup {here} /\ marked' = marked

Passes == /\ WritesNothing /\ UNCHANGED <<at, told>>
          /\ todo' = Tail(todo) /\ Head(todo).do \notin {"write", "email"}
          /\ (marked' = marked /\ Head(todo).do # "mark") \/ marked' = marked \cup {here}
Writes == /\ TakesEffect /\ UNCHANGED <<at, told>>
          /\ todo' = IF Head(todo).do = "try" THEN Tail(Tail(todo)) ELSE Tail(todo)
Turns == /\ WritesNothing /\ UNCHANGED <<at, told, marked>>
         /\ Head(todo).do = "stage" /\ todo' = I!Under("tell", <<"open">>)
Stops == /\ WritesNothing /\ marked' = marked /\ at' = "done"
         /\ ask.kind = "submission" => told' \in {told, TRUE}
         /\ \/ Head(todo).do \in {"object", "modal", "nudge"}
            \/ Head(todo).do = "gate" /\ plan = "free"

\* A failure, by its policy.
Skipped == Head(todo).or = "skip" /\ todo' = Tail(todo) /\ UNCHANGED <<at, told>>
Ended == /\ Head(todo).or \in {"quiet", "tell", "dm", "modal", "via", "where"} /\ at' = "done" /\ told' \in {told, TRUE}
         /\ told' = TRUE \/ {"mute", "nowhere"} \cap faults' # {} \/ Head(todo).or \in {"quiet", "modal"}
Again == /\ Head(todo).or \in {"raise", "dm", "modal", "via", "where"} /\ told' = told
         /\ at' = "waiting" \/ (at' = "done" /\ "lost" \in faults')
Mailed == Head(todo).or = "email" /\ todo' = I!Under("tell", <<"email">>) /\ UNCHANGED <<at, told>>
Fails == /\ Head(todo).do # "mark"
         /\ \/ WritesNothing /\ marked' \in {marked, marked \cup {here}}
            \/ TakesEffect /\ "answer" \in faults'
         /\ Skipped \/ Ended \/ Again \/ Mailed

Constant == UNCHANGED <<ask, duty, here, plan, leaked>> /\ faults \subseteq faults'
HandlerStep == Constant /\ (Passes \/ Writes \/ Turns \/ Stops \/ Fails)

(* A failure by each of the policies.                                      *)
LEMMA FailEffects ==
  ASSUME NEW why, I!Fail(why)
  PROVE  /\ faults \cup why \subseteq faults'
         /\ Skipped \/ Ended \/ Again \/ Mailed
  BY DEF I!Fail, I!Redeliver, I!End, I!screen, Skipped, Ended, Again, Mailed

(* Every step of a handler is one of five.                                 *)
LEMMA HandlerEffects ==
  ASSUME at = "running", todo # <<>>, I!Progress
  PROVE  HandlerStep
<1> USE DEF I!Doing, I!Go, I!screen, I!effects, I!course, HandlerStep, Constant, WritesNothing
<1>1. ASSUME NEW trouble, I!FailIf(trouble), Head(todo).do # "mark" PROVE HandlerStep
  BY <1>1, FailEffects DEF I!FailIf, Fails
<1>2. ASSUME NEW step \in Deed \ {"write", "email", "mark"}, NEW trouble, I!Call(step, trouble) PROVE HandlerStep
  BY <1>1, <1>2 DEF I!Call, Passes
<1>3. CASE I!ResolveContact \/ I!Attach \/ I!Timeline \/ I!Read \/ I!Associated \/ I!Meetings \/ I!PickLists
  BY <1>2, <1>3 DEF I!ResolveContact, I!Attach, I!Timeline, I!Read, I!Associated, I!Meetings, I!PickLists, Deed
<1>4. CASE I!Search \/ I!Reports \/ I!Note \/ I!Uninstall \/ I!GetClient \/ I!Confirm \/ I!JoinThread
  BY <1>2, <1>4 DEF I!Search, I!Reports, I!Note, I!Uninstall, I!GetClient, I!Confirm, I!JoinThread, Deed
<1>5. CASE I!Object \/ I!Primary
  <2>1. CASE I!Call("object", "hubspot")
    BY <1>2, <2>1 DEF Deed
  <2>2. CASE I!Object /\ ~I!Call("object", "hubspot")
    BY <2>2 DEF I!Object, I!End, Stops
  <2>3. CASE I!Primary
    BY <2>3, FailEffects DEF I!Primary, Passes, Fails
  <2> QED BY <1>5, <2>1, <2>2, <2>3
<1>6. CASE I!Write
  <2>1. CASE "answer" \in may /\ I!Written /\ I!Fail({"answer"}) /\ UNCHANGED I!course
    BY <1>6, <2>1, FailEffects DEF I!Write, I!Written, Fails, TakesEffect
  <2>2. CASE I!FailIf("hubspot")
    BY <1>1, <1>6, <2>2 DEF I!Write
  <2>3. CASE Head(todo).do = "try" /\ "rejected" \in may /\ I!Go /\ UNCHANGED <<I!screen, I!effects, I!course>>
    BY <2>3 DEF Passes
  <2>4. CASE /\ todo' = (IF Head(todo).do = "try" THEN Tail(Tail(todo)) ELSE Tail(todo))
             /\ I!Written /\ UNCHANGED <<at, told, faults, I!screen, I!course>>
    BY <1>6, <2>4 DEF I!Write, I!Written, Writes, TakesEffect
  <2> QED BY <1>6, <2>1, <2>2, <2>3, <2>4 DEF I!Write
<1>7. CASE I!Mark
  BY <1>7 DEF I!Mark, I!Marks, Passes
<1>8. CASE I!Card
  BY <1>8, FailEffects DEF I!Card, I!Marks, Passes, Fails
<1>9. ASSUME NEW content, I!Shows(content), Head(todo).do \notin {"write", "email", "mark"} PROVE HandlerStep
  <2>1. CASE view = "none" /\ trigger # "fresh" /\ I!Fail({}) /\ UNCHANGED <<I!effects, I!course>>
    BY <1>9, <2>1, FailEffects DEF Fails
  <2>2. CASE I!Show(content) /\ I!Go /\ UNCHANGED <<I!effects, I!course>>
    BY <1>9, <2>2 DEF Passes
  <2> QED BY <1>1, <1>9, <2>1, <2>2 DEF I!Shows
<1>10. CASE I!ShowForm \/ I!ShowLoading \/ I!ShowList
  BY <1>9, <1>10 DEF I!ShowForm, I!ShowLoading, I!ShowList, Passes
<1>11. CASE I!NeedModal
  BY <1>11 DEF I!NeedModal, I!End, Passes, Stops
<1>12. CASE I!Open
  <2>1. CASE trigger # "fresh" /\ I!Fail({}) /\ UNCHANGED <<I!effects, I!course>>
    BY <1>12, <2>1, FailEffects DEF I!Open, Fails
  <2>2. CASE I!FailIf("slack")
    BY <1>1, <1>12, <2>2 DEF I!Open
  <2> QED BY <1>12, <2>1, <2>2 DEF I!Open, I!Opens, Passes
<1>13. CASE I!Stage
  <2>1. CASE I!FailIf("hubspot")
    BY <1>1, <1>13, <2>1 DEF I!Stage
  <2> QED BY <1>13, <2>1 DEF I!Stage, Passes, Turns
<1>14. CASE I!Nudge
  BY <1>14 DEF I!Nudge, I!Nudges, I!End, Stops
<1>15. CASE I!Gate
  <2>1. CASE I!FailIf("store")
    BY <1>1, <1>15, <2>1 DEF I!Gate
  <2> QED BY <1>15, <2>1 DEF I!Gate, I!Nudges, I!End, Passes, Stops
<1>16. ~I!Finish /\ ~I!UnknownTeam /\ ~I!Suggest /\ ~I!Usage /\ ~I!OpenDirect /\ ~I!OpenLoading /\ ~I!OpenTooLate
  BY DEF I!Finish, I!UnknownTeam, I!Suggest, I!Usage, I!OpenDirect, I!OpenLoading, I!OpenTooLate
<1>17. ~I!OfferOpened /\ ~I!Dispatch /\ ~I!Command /\ ~I!Start /\ ~I!StartWithout
  BY DEF I!OfferOpened, I!Dispatch, I!Command, I!Start, I!StartWithout
<1> HIDE DEF HandlerStep
<1> QED BY <1>3, <1>4, <1>5, <1>6, <1>7, <1>8, <1>10, <1>11, <1>12, <1>13, <1>14, <1>15, <1>16, <1>17 DEF I!Progress

----------------------------------------------------------------------------
(* What else happens to an interaction.                                    *)
Begins == /\ at = "waiting" /\ at' = "running" /\ todo' = I!Program
          /\ UNCHANGED <<ask, duty, plan, wrote, echoes, told, marked, leaked, faults>>
\* The request is taken in or turned down, or the handler is done.
Settles == /\ at # "done" /\ at' # "running" /\ (at = "running" => todo = <<>> /\ at' = "done")
           /\ UNCHANGED <<ask, here, plan, wrote, echoes, told, marked, leaked>> /\ faults \subseteq faults'
           /\ ask.kind = "submission" /\ at # "running" =>
                \/ at = "request" /\ at' = "waiting" /\ duty' = "handle_interaction"
                \/ at' = "done" /\ "removed" \in faults'
Aside == /\ UNCHANGED <<ask, at, duty, todo, here, wrote, told>> /\ faults \subseteq faults'
         /\ plan' \in {plan, "free"}
         /\ \/ UNCHANGED <<echoes, marked, leaked>>
            \/ UNCHANGED <<echoes, leaked>> /\ "slow" \in faults'
            \/ /\ marked' = marked /\ echoes' \subseteq echoes
               /\ ~leaked /\ echoes \subseteq marked => ~leaked'
Dies == /\ at = "running" /\ "crash" \in faults' /\ faults \subseteq faults'
        /\ UNCHANGED <<ask, duty, wrote, told, plan>>
        /\ at' = "waiting" \/ (at' = "done" /\ "lost" \in faults')

(* Every step of an interaction.                                           *)
LEMMA InteractionEffects ==
  ASSUME I!InteractionNext
  PROVE  \/ at = "running" /\ todo # <<>> /\ HandlerStep
         \/ Begins \/ Settles \/ Aside \/ Dies
<1> USE DEF I!screen, I!effects, I!course
<1>1. CASE at = "running" /\ todo # <<>> /\ I!Progress
  BY <1>1, HandlerEffects
<1>2. CASE I!Start
  BY <1>2 DEF I!Start, Begins
<1>3. CASE I!UnknownTeam \/ I!Suggest \/ I!Usage \/ I!StartWithout
  BY <1>3 DEF I!UnknownTeam, I!Suggest, I!Usage, I!StartWithout, I!Leave, Settles
<1>4. CASE I!OpenDirect \/ I!OpenLoading \/ I!OpenTooLate
  BY <1>4 DEF I!OpenDirect, I!OpenLoading, I!OpenTooLate, I!Fast, I!Leave, Settles
<1>5. CASE I!OfferOpened \/ I!Dispatch \/ I!Command
  BY <1>5 DEF I!OfferOpened, I!Dispatch, I!Command, I!Fast, I!HandOver, I!Leave, Settles
<1>6. CASE I!Finish
  BY <1>6 DEF I!Finish, I!Leave, Settles
<1>7. CASE I!TriggerExpires \/ I!PlanLapses \/ I!MarkExpires
  BY <1>7 DEF I!TriggerExpires, I!PlanLapses, I!MarkExpires, Aside
<1>8. CASE I!EchoArrives
  BY <1>8 DEF I!EchoArrives, Aside
<1>9. CASE I!WorkerDies
  BY <1>9 DEF I!WorkerDies, I!Redeliver, Dies
<1>10. ASSUME I!Progress, ~(at = "running" /\ todo # <<>>)
       PROVE  \/ I!UnknownTeam \/ I!Suggest \/ I!Usage \/ I!OpenDirect \/ I!OpenLoading \/ I!OpenTooLate
              \/ I!OfferOpened \/ I!Dispatch \/ I!Command \/ I!Start \/ I!StartWithout \/ I!Finish
  BY <1>10 DEF I!Progress, I!Doing, I!Call, I!ResolveContact, I!Attach, I!Timeline, I!Read, I!Associated, I!Meetings,
       I!PickLists, I!Search, I!Reports, I!Note, I!Uninstall, I!GetClient, I!Confirm, I!JoinThread, I!Object,
       I!Primary, I!Write, I!Mark, I!Card, I!ShowForm, I!ShowLoading, I!NeedModal, I!ShowList, I!Open, I!Stage,
       I!Nudge, I!Gate
<1> QED BY <1>1, <1>2, <1>3, <1>4, <1>5, <1>6, <1>7, <1>8, <1>9, <1>10 DEF I!InteractionNext

----------------------------------------------------------------------------
(* What is left of a handler after a step.                                 *)
LEMMA TailKeeps ==
  ASSUME NEW t \in Steps, t # <<>>
  PROVE  /\ Tail(t) \in Steps
         /\ Once(t) => Once(Tail(t))
         /\ (\A i \in 1..Len(t) : Spent(t[i])) => \A i \in 1..Len(Tail(t)) : Spent(Tail(t)[i])
         /\ MarkedFirst(t) /\ Head(t).do # "mark" => MarkedFirst(Tail(t))
         /\ \A a : Settling(t, a) =>
                Settling(Tail(t), a) \/ (Head(t).do \in {"write", "email"} /\ Head(t).or # "skip")
<1>1. /\ Tail(t) \in Steps /\ Len(t) \in Nat /\ Len(t) >= 1 /\ Len(Tail(t)) = Len(t) - 1 /\ Head(t) = t[1]
      /\ \A i \in 1..Len(Tail(t)) : i + 1 \in 1..Len(t) /\ Tail(t)[i] = t[i + 1]
  BY DEF Steps
<1> DEFINE u == Tail(t)
<1> HIDE DEF u
<1>2. u \in Steps /\ Len(u) = Len(t) - 1 /\ \A i \in 1..Len(u) : i + 1 \in 1..Len(t) /\ u[i] = t[i + 1]
  BY <1>1 DEF u
<1>3. ASSUME Once(t) PROVE Once(u)
  <2> SUFFICES ASSUME NEW i \in 1..Len(u)
               PROVE  /\ u[i].or # "email"
                      /\ u[i].do \in {"write", "email"} => \A k \in (i + 1)..Len(u) : Spent(u[k])
                      /\ u[i].do = "try" => i < Len(u) /\ \A k \in (i + 2)..Len(u) : Spent(u[k])
    BY DEF Once
  <2>1. i \in Nat /\ i + 1 \in 1..Len(t) /\ u[i] = t[i + 1]
    BY <1>1, <1>2
  <2>2. \A k \in (i + 1)..Len(u) : k + 1 \in (i + 2)..Len(t) /\ u[k] = t[k + 1]
    BY <1>1, <1>2, <2>1
  <2>3. \A k \in (i + 2)..Len(u) : k + 1 \in (i + 3)..Len(t) /\ u[k] = t[k + 1]
    BY <1>1, <1>2, <2>1
  <2>4. /\ t[i + 1].or # "email"
        /\ t[i + 1].do \in {"write", "email"} => \A k \in (i + 2)..Len(t) : Spent(t[k])
        /\ t[i + 1].do = "try" => i + 1 < Len(t) /\ \A k \in (i + 3)..Len(t) : Spent(t[k])
    BY <1>3, <2>1 DEF Once
  <2>5. i + 1 < Len(t) => i < Len(u)
    BY <1>1, <1>2, <2>1
  <2> QED BY <2>1, <2>2, <2>3, <2>4, <2>5
<1>4. ASSUME \A i \in 1..Len(t) : Spent(t[i]) PROVE \A i \in 1..Len(u) : Spent(u[i])
  BY <1>2, <1>4
<1>5. ASSUME MarkedFirst(t), Head(t).do # "mark" PROVE MarkedFirst(u)
  <2> SUFFICES ASSUME NEW i \in 1..Len(u)
               PROVE  /\ u[i].or # "email"
                      /\ u[i].do \in {"write", "try", "email"} => \E k \in 1..(i - 1) : u[k].do = "mark"
    BY DEF MarkedFirst
  <2>1. i \in Nat /\ i + 1 \in 1..Len(t) /\ u[i] = t[i + 1]
    BY <1>1, <1>2
  <2>2. /\ u[i].or # "email"
        /\ u[i].do \in {"write", "try", "email"} => \E k \in 1..i : t[k].do = "mark"
    BY <1>5, <2>1 DEF MarkedFirst
  <2>3. ASSUME NEW k \in 1..i, t[k].do = "mark" PROVE \E m \in 1..(i - 1) : u[m].do = "mark"
    <3>1. k # 1
      BY <1>1, <1>5, <2>3
    <3>2. k - 1 \in 1..(i - 1) /\ k - 1 \in 1..Len(u) /\ (k - 1) + 1 = k
      BY <1>1, <1>2, <2>1, <3>1
    <3>3. u[k - 1] = t[k]
      BY <1>2, <3>2
    <3> QED BY <2>3, <3>2, <3>3
  <2> QED BY <2>2, <2>3
<1>6. ASSUME NEW a, Settling(t, a)
      PROVE  Settling(u, a) \/ (Head(t).do \in {"write", "email"} /\ Head(t).or # "skip")
  <2>1. PICK i \in 1..Len(t) :
           /\ t[i].do \in {"write", "email"} /\ t[i].or # "skip"
           /\ \A k \in 1..i : /\ t[k].do \in {"contact", "client", "mark", "primary", "gate", "try", "write", "email"}
                              /\ t[k].or \in {"tell", "dm", "raise", "email", "skip", "via", "where"}
                              /\ t[k].do = "gate" => a = "reassign_owner_submission"
    BY <1>6 DEF Settling
  <2>2. CASE i = 1
    BY <1>1, <2>1, <2>2
  <2>3. CASE i # 1
    <3>1. i - 1 \in 1..Len(u) /\ (i - 1) + 1 = i
      BY <1>1, <1>2, <2>3
    <3>2. u[i - 1] = t[i]
      BY <1>2, <3>1
    <3>3. \A k \in 1..(i - 1) : k \in 1..Len(u) /\ k + 1 \in 1..i /\ u[k] = t[k + 1]
      BY <1>1, <1>2, <3>1
    <3> QED BY <2>1, <3>1, <3>2, <3>3 DEF Settling
  <2> QED BY <2>2, <2>3
<1> QED BY <1>2, <1>3, <1>4, <1>5, <1>6 DEF u

(* What replaces the rest of a handler.                                    *)
LEMMA Replacements ==
  /\ I!Under("tell", <<"open">>) = << [do |-> "open", or |-> "tell"] >>
  /\ I!Under("tell", <<"email">>) = << [do |-> "email", or |-> "tell"] >>
  /\ I!Under("tell", <<"open">>) \in Steps /\ I!Under("tell", <<"email">>) \in Steps
  BY DEF I!Under, Steps, Step, Deed, Policy

----------------------------------------------------------------------------
\* At most one write, and after it nothing that writes or raises.
WritesOnce ==
  \/ {"answer", "crash"} \cap faults # {}
  \/ ask.action \in TwiceExcused
  \/ wrote = 0 /\ (at = "running" => todo \in Steps /\ Once(todo))
  \/ wrote = 1 /\ (at = "done" \/ (at = "running" /\ todo \in Steps /\ \A i \in 1..Len(todo) : Spent(todo[i])))

\* Who awaits an echo holds a mark, and the mark is there before the write.
EchoesMarked ==
  ask.action \in I!MarkFirst =>
    \/ {"slow", "crash"} \cap faults # {}
    \/ /\ echoes \subseteq marked /\ ~leaked
       /\ at = "running" => here \in marked \/ (todo \in Steps /\ MarkedFirst(todo))

\* A submission that is not settled has its write ahead of it.
Resolved == \/ wrote > 0 \/ told
            \/ {"mute", "lost", "removed", "nowhere"} \cap faults # {}
            \/ (ask.action = "reassign_owner_submission" /\ plan = "free")
OnItsWay ==
  ask.kind = "submission" =>
    /\ wrote \in Nat /\ at \in {"request", "waiting", "running", "done"}
    /\ at \in {"waiting", "running"} => duty = "handle_interaction"
    /\ \/ Resolved \/ at \in {"request", "waiting"}
       \/ (at = "running" /\ todo \in Steps /\ Settling(todo, ask.action))

(* Every step keeps a handler from writing twice.                          *)
LEMMA WritesOnceKept == ASSUME WritesOnce, I!InteractionNext PROVE WritesOnce'
<1> SUFFICES ASSUME ~({"answer", "crash"} \cap faults # {}), ask.action \notin TwiceExcused,
                    {"answer", "crash"} \cap faults' = {}
             PROVE  WritesOnce'
  BY InteractionEffects DEF WritesOnce, HandlerStep, Constant, Begins, Settles, Aside, Dies
<1>1. \/ wrote = 0 /\ (at = "running" => todo \in Steps /\ Once(todo))
      \/ wrote = 1 /\ (at = "done" \/ (at = "running" /\ todo \in Steps /\ \A i \in 1..Len(todo) : Spent(todo[i])))
  BY DEF WritesOnce
<1>2. CASE Begins
  BY <1>1, <1>2, ProgramIsSound DEF Begins, WritesOnce
<1>3. CASE Settles \/ Dies
  BY <1>1, <1>3 DEF Settles, Dies, WritesOnce
<1>5. CASE Aside
  BY <1>1, <1>5 DEF Aside, WritesOnce
<1>4. CASE at = "running" /\ todo # <<>> /\ HandlerStep
  <2>1. todo \in Steps /\ Head(todo) = todo[1] /\ 1 \in 1..Len(todo)
    BY <1>1, <1>4 DEF Steps
  <2>2. Tail(todo) \in Steps
    BY <1>4, <2>1, TailKeeps
  <2>3. CASE wrote = 0 /\ Once(todo)
    <3>1. Once(Tail(todo)) /\ Head(todo).or # "email"
      BY <1>4, <2>1, <2>3, TailKeeps DEF Once
    <3>2. CASE Passes \/ Stops
      BY <1>4, <2>2, <2>3, <3>1, <3>2 DEF Passes, Stops, WritesNothing, HandlerStep, WritesOnce
    <3>3. CASE Turns
      BY <1>4, <2>3, <3>3, Replacements DEF Turns, WritesNothing, HandlerStep, WritesOnce, Once
    <3>4. CASE Fails
      BY <1>4, <2>2, <2>3, <3>1, <3>4
         DEF Fails, Skipped, Ended, Again, Mailed, WritesNothing, HandlerStep, WritesOnce
    <3>5. CASE Writes
      <4>1. todo' \in Steps /\ \A i \in 1..Len(todo') : Spent(todo'[i])
        <5>1. CASE Head(todo).do # "try"
          <6>1. \A k \in 2..Len(todo) : Spent(todo[k])
            BY <2>1, <2>3, <3>5, <5>1 DEF Writes, TakesEffect, Once
          <6>2. \A i \in 1..Len(Tail(todo)) : i + 1 \in 2..Len(todo) /\ Tail(todo)[i] = todo[i + 1]
            BY <1>4, <2>1 DEF Steps
          <6> QED BY <2>2, <3>5, <5>1, <6>1, <6>2 DEF Writes
        <5>2. CASE Head(todo).do = "try"
          <6>1. 1 < Len(todo) /\ \A k \in 3..Len(todo) : Spent(todo[k])
            BY <2>1, <2>3, <3>5, <5>2 DEF Writes, TakesEffect, Once
          <6>2. /\ Tail(Tail(todo)) \in Steps
                /\ \A i \in 1..Len(Tail(Tail(todo))) : i + 2 \in 3..Len(todo) /\ Tail(Tail(todo))[i] = todo[i + 2]
            BY <1>4, <2>1, <6>1 DEF Steps
          <6> QED BY <2>2, <3>5, <5>2, <6>1, <6>2 DEF Writes
        <5> QED BY <5>1, <5>2
      <4> QED BY <1>4, <2>3, <3>5, <4>1 DEF Writes, TakesEffect, HandlerStep, WritesOnce
    <3> QED BY <1>4, <3>2, <3>3, <3>4, <3>5 DEF HandlerStep
  <2>4. CASE wrote = 1 /\ \A i \in 1..Len(todo) : Spent(todo[i])
    <3>1. Spent(Head(todo)) /\ \A i \in 1..Len(Tail(todo)) : Spent(Tail(todo)[i])
      BY <1>4, <2>1, <2>4, TailKeeps
    <3>2. CASE Passes \/ Stops
      BY <1>4, <2>2, <2>4, <3>1, <3>2 DEF Passes, Stops, WritesNothing, HandlerStep, WritesOnce
    <3>3. CASE Turns
      BY <1>4, <2>4, <3>3, Replacements DEF Turns, WritesNothing, HandlerStep, WritesOnce, Spent
    <3>4. CASE Fails
      BY <1>4, <2>2, <2>4, <3>1, <3>4
         DEF Fails, Skipped, Ended, Again, Mailed, WritesNothing, TakesEffect, HandlerStep, WritesOnce, Spent
    <3>5. CASE Writes
      BY <3>1, <3>5 DEF Writes, TakesEffect, Spent
    <3> QED BY <1>4, <3>2, <3>3, <3>4, <3>5 DEF HandlerStep
  <2> QED BY <1>1, <1>4, <2>3, <2>4
<1> QED BY <1>2, <1>3, <1>4, <1>5, InteractionEffects

(* Every step keeps the mark ahead of the echo.                            *)
LEMMA EchoesMarkedKept == ASSUME EchoesMarked, I!InteractionNext PROVE EchoesMarked'
<1> SUFFICES ASSUME ask.action \in I!MarkFirst, {"slow", "crash"} \cap faults = {},
                    {"slow", "crash"} \cap faults' = {}, ask' = ask
             PROVE  EchoesMarked'
  BY InteractionEffects DEF EchoesMarked, I!MarkFirst, HandlerStep, Constant, Begins, Settles, Aside, Dies
<1>1. /\ echoes \subseteq marked /\ ~leaked
      /\ at = "running" => here \in marked \/ (todo \in Steps /\ MarkedFirst(todo))
  BY DEF EchoesMarked
<1>2. CASE Begins
  BY <1>1, <1>2, ProgramIsSound DEF Begins, EchoesMarked
<1>3. CASE Settles \/ Aside \/ Dies
  BY <1>1, <1>3 DEF Settles, Aside, Dies, EchoesMarked
<1>4. CASE at = "running" /\ todo # <<>> /\ HandlerStep
  <2>1. CASE here \in marked
    <3>1. /\ echoes' \subseteq marked' /\ here' = here /\ here \in marked' /\ ~leaked'
      BY <1>1, <1>4, <2>1 DEF Passes, Writes, Turns, Stops, Fails, TakesEffect, WritesNothing, HandlerStep, Constant
    <3> QED BY <3>1 DEF EchoesMarked
  <2>2. CASE todo \in Steps /\ MarkedFirst(todo)
    <3>1. Head(todo) = todo[1] /\ 1 \in 1..Len(todo)
      BY <1>4, <2>2 DEF Steps
    <3>2. Tail(todo) \in Steps /\ (Head(todo).do # "mark" => MarkedFirst(Tail(todo)))
      BY <1>4, <2>2, TailKeeps
    <3>3. Head(todo).do \notin {"write", "try", "email"} /\ Head(todo).or # "email"
      BY <2>2, <3>1 DEF MarkedFirst
    <3>4. CASE Passes
      BY <1>1, <1>4, <3>2, <3>4 DEF Passes, WritesNothing, HandlerStep, Constant, EchoesMarked
    <3>5. CASE Turns
      BY <1>1, <1>4, <3>5, Replacements DEF Turns, WritesNothing, HandlerStep, Constant, EchoesMarked, MarkedFirst
    <3>6. CASE Stops
      BY <1>1, <1>4, <3>6 DEF Stops, WritesNothing, HandlerStep, Constant, EchoesMarked
    <3>7. CASE Fails
      BY <1>1, <1>4, <3>2, <3>3, <3>7
         DEF Fails, Skipped, Ended, Again, Mailed, TakesEffect, WritesNothing, HandlerStep, Constant, EchoesMarked
    <3> QED BY <1>4, <3>3, <3>4, <3>5, <3>6, <3>7 DEF HandlerStep, Writes, TakesEffect
  <2> QED BY <1>1, <1>4, <2>1, <2>2
<1> QED BY <1>2, <1>3, <1>4, InteractionEffects

(* Every step leaves a submission settled or its write ahead.              *)
LEMMA OnItsWayKept ==
  ASSUME OnItsWay, I!InteractionNext, ask.kind = "submission" => ask.pair /\ ask.action \in I!Submissions
  PROVE  OnItsWay'
<1> SUFFICES ASSUME ask.kind = "submission", ask' = ask PROVE OnItsWay'
  BY InteractionEffects DEF OnItsWay, HandlerStep, Constant, Begins, Settles, Aside, Dies
<1>1. /\ wrote \in Nat /\ at \in {"request", "waiting", "running", "done"}
      /\ at \in {"waiting", "running"} => duty = "handle_interaction"
      /\ \/ Resolved \/ at \in {"request", "waiting"}
         \/ (at = "running" /\ todo \in Steps /\ Settling(todo, ask.action))
  BY DEF OnItsWay
<1>2. CASE Begins
  BY <1>1, <1>2, ProgramIsSound DEF Begins, OnItsWay, Resolved
<1>3. CASE Settles
  BY <1>1, <1>3 DEF Settles, OnItsWay, Resolved, Settling
<1>4. CASE Aside
  BY <1>1, <1>4 DEF Aside, OnItsWay, Resolved
<1>5. CASE Dies
  BY <1>1, <1>5 DEF Dies, OnItsWay, Resolved
<1>6. CASE at = "running" /\ todo # <<>> /\ HandlerStep
  <2>1. /\ wrote' \in Nat /\ (wrote > 0 => wrote' > 0) /\ (TakesEffect => wrote' > 0)
    <3>1. wrote' = wrote \/ wrote' = wrote + 1
      BY <1>6 DEF HandlerStep, Passes, Writes, Turns, Stops, Fails, TakesEffect, WritesNothing
    <3>2. TakesEffect => wrote' = wrote + 1
      BY DEF TakesEffect
    <3>3. wrote \in Nat
      BY <1>1
    <3> QED BY <3>1, <3>2, <3>3
  <2>2. told => told'
    BY <1>6 DEF HandlerStep, Passes, Writes, Turns, Stops, Fails, Skipped, Ended, Again, Mailed
  <2>3. Resolved => Resolved'
    BY <1>6, <2>1, <2>2 DEF HandlerStep, Constant, Resolved
  <2>4. duty' = duty /\ plan' = plan
    BY <1>6 DEF HandlerStep, Constant
  <2>5. at' \in {"waiting", "running", "done"}
    BY <1>6 DEF HandlerStep, Passes, Writes, Turns, Stops, Fails, Skipped, Ended, Again, Mailed
  <2>6. ASSUME todo \in Steps, Settling(todo, ask.action)
        PROVE  Resolved' \/ at' = "waiting" \/ (at' = "running" /\ todo' \in Steps /\ Settling(todo', ask.action))
    <3>1. 1 \in 1..Len(todo) /\ Head(todo) = todo[1]
      BY <1>6, <2>6 DEF Steps
    <3>2. PICK i \in 1..Len(todo) :
             /\ todo[i].do \in {"write", "email"} /\ todo[i].or # "skip"
             /\ \A k \in 1..i :
                  /\ todo[k].do \in {"contact", "client", "mark", "primary", "gate", "try", "write", "email"}
                  /\ todo[k].or \in {"tell", "dm", "raise", "email", "skip", "via", "where"}
                  /\ todo[k].do = "gate" => ask.action = "reassign_owner_submission"
      BY <2>6 DEF Settling
    <3>3. 1 \in 1..i
      BY <3>1
    <3>4. /\ Head(todo).do \in {"contact", "client", "mark", "primary", "gate", "try", "write", "email"}
          /\ Head(todo).or \in {"tell", "dm", "raise", "email", "skip", "via", "where"}
          /\ Head(todo).do = "gate" => ask.action = "reassign_owner_submission"
      BY <3>1, <3>2, <3>3
    <3>5. /\ Tail(todo) \in Steps
          /\ Settling(Tail(todo), ask.action) \/ (Head(todo).do \in {"write", "email"} /\ Head(todo).or # "skip")
      BY <1>6, <2>6, TailKeeps
    <3>6. CASE Passes
      BY <1>6, <3>5, <3>6 DEF Passes
    <3>7. CASE Writes \/ TakesEffect
      BY <2>1, <3>7 DEF Writes, Resolved
    <3>8. CASE Turns
      BY <3>4, <3>8 DEF Turns
    <3>9. CASE Stops
      BY <1>6, <2>4, <3>4, <3>9 DEF Stops, Resolved
    <3>10. CASE Fails /\ ~TakesEffect
      <4>1. CASE Skipped
        BY <1>6, <3>5, <4>1 DEF Skipped
      <4>2. CASE Ended
        BY <3>4, <4>2 DEF Ended, Resolved
      <4>3. CASE Again
        BY <4>3 DEF Again, Resolved
      <4>4. CASE Mailed
        BY <1>6, <4>4, Replacements DEF Mailed, Settling
      <4> QED BY <3>10, <4>1, <4>2, <4>3, <4>4 DEF Fails
    <3> QED BY <1>6, <3>6, <3>7, <3>8, <3>9, <3>10 DEF HandlerStep
  <2> QED BY <1>1, <1>6, <2>1, <2>3, <2>4, <2>5, <2>6 DEF OnItsWay
<1> QED BY <1>2, <1>3, <1>4, <1>5, <1>6, InteractionEffects

----------------------------------------------------------------------------
(* A step of the day is a step of the interaction or leaves it alone.      *)
LEMMA InteractionApart == ASSUME [Next]_vars PROVE I!InteractionNext \/ UNCHANGED interactionVars
  BY DEF Next, vars, Analysing, Writing, Interaction, Interacting, Keeping

(* It begins with a request that nobody has seen.                          *)
LEMMA InteractionBegins ==
  ASSUME Init
  PROVE  ask \in Asks /\ at = "request" /\ wrote = 0 /\ echoes = {} /\ marked = {} /\ leaked = FALSE
  BY DEF Init, I!InteractionInit

(* An interaction's request is written down at most once, although the     *)
(* queue delivers again whenever a handler raises.                         *)
THEOREM RequestsWrittenOnce == Spec => []WrittenOnce
<1>1. Init => WritesOnce
  BY InteractionBegins DEF WritesOnce
<1>2. WritesOnce /\ [Next]_vars => WritesOnce'
  <2> SUFFICES ASSUME WritesOnce, [Next]_vars PROVE WritesOnce'
    OBVIOUS
  <2>1. CASE I!InteractionNext
    BY <2>1, WritesOnceKept
  <2>2. CASE UNCHANGED interactionVars
    BY <2>2 DEF interactionVars, WritesOnce
  <2> QED BY <2>1, <2>2, InteractionApart
<1>3. WritesOnce => WrittenOnce
  BY DEF WritesOnce, WrittenOnce, I!WrittenOnce, TwiceExcused
<1> QED BY <1>1, <1>2, <1>3, PTL DEF Spec

(* The instance that made a change does not announce it when HubSpot's     *)
(* webhook comes back: a handler that marks first is marked when it writes.*)
THEOREM NoChangeEchoed == Spec => []NoEcho
<1>1. Init => EchoesMarked
  BY InteractionBegins DEF EchoesMarked
<1>2. EchoesMarked /\ [Next]_vars => EchoesMarked'
  <2> SUFFICES ASSUME EchoesMarked, [Next]_vars PROVE EchoesMarked'
    OBVIOUS
  <2>1. CASE I!InteractionNext
    BY <2>1, EchoesMarkedKept
  <2>2. CASE UNCHANGED interactionVars
    BY <2>2 DEF interactionVars, EchoesMarked
  <2> QED BY <2>1, <2>2, InteractionApart
<1>3. EchoesMarked => NoEcho
  BY DEF EchoesMarked, NoEcho, I!NoEcho
<1> QED BY <1>1, <1>2, <1>3, PTL DEF Spec

(* A submission is written down or the user hears that it was not, if the  *)
(* forms are those that are registered.                                    *)
THEOREM FormsSettle == Spec => []SubmissionsSettle
<1> DEFINE Inv == ask \in Asks /\ OnItsWay
<1>1. Init => Inv
  BY InteractionBegins DEF OnItsWay
<1>2. Inv /\ [Next]_vars => Inv'
  <2> SUFFICES ASSUME Inv, [Next]_vars PROVE Inv'
    OBVIOUS
  <2>1. CASE I!InteractionNext
    <3>1. ask' = ask
      BY <2>1, InteractionEffects DEF HandlerStep, Constant, Begins, Settles, Aside, Dies
    <3>2. ask.kind = "submission" => ask.pair /\ ask.action \in I!Submissions
      BY DayAssumption DEF RegisteredForms
    <3> QED BY <2>1, <3>1, <3>2, OnItsWayKept
  <2>2. CASE UNCHANGED interactionVars
    BY <2>2 DEF interactionVars, OnItsWay, Resolved
  <2> QED BY <2>1, <2>2, InteractionApart
<1>3. Inv => SubmissionsSettle
  BY DEF OnItsWay, Resolved, SubmissionsSettle, I!SubmissionsSettle
<1> QED BY <1>1, <1>2, <1>3, PTL DEF Spec

----------------------------------------------------------------------------
(* Upkeep: digests, mappings and the plan together, with the row that      *)
(* waits in the other topics.                                              *)
UpkeepSpec ==
  /\ U!UpkeepInit({}, Plans \cup {One(Plans)})
  /\ [][U!UpkeepNext]_upkeepVars

\* The rows of a sweep are digests; what a sweep has in hand although it is
\* deleted has been overtaken.
SweepsTyped == sweep \in [Sweeps -> [pc : {"idle", "queue"} \cup Digests, rows : SUBSET Digests]]
InHandOvertaken == \A s \in Sweeps : sweep[s].rows \cap deleted \subseteq overtaken
DigestInv == SweepsTyped /\ table \subseteq Digests /\ InHandOvertaken /\ U!DeletedStaysDeleted

(* Whatever does not touch the digests keeps the invariant.                *)
LEMMA DigestsUntouched == ASSUME DigestInv, UNCHANGED U!digestVars PROVE DigestInv'
  BY DEF DigestInv, SweepsTyped, InHandOvertaken, U!DeletedStaysDeleted, U!digestVars

(* A step of the form, of the button, of a sweep or of the worker keeps it. *)
LEMMA DigestStepKeeps == ASSUME DigestInv, U!DigestStep PROVE DigestInv'
<1> USE DEF DigestInv, SweepsTyped, InHandOvertaken, U!DeletedStaysDeleted
<1>1. ASSUME NEW d \in Digests, U!CreateDigest(d) PROVE DigestInv'
  BY <1>1 DEF U!CreateDigest
<1>2. ASSUME NEW d \in Digests, U!DeleteDigest(d) PROVE DigestInv'
  <2>1. SweepsTyped' /\ (table \subseteq Digests)'
    BY <1>2 DEF U!DeleteDigest, U!Remove
  <2>2. overtaken \subseteq overtaken' /\ (U!InHand(d) => d \in overtaken')
    BY <1>2 DEF U!DeleteDigest
  <2>3. InHandOvertaken'
    BY <1>2, <2>2 DEF U!DeleteDigest, U!InHand
  <2>4. U!DeletedStaysDeleted'
    BY <1>2, <2>2 DEF U!DeleteDigest, U!Remove
  <2> QED BY <2>1, <2>3, <2>4
<1>3. ASSUME NEW d \in Digests, U!ExecuteDigest(d) PROVE DigestInv'
  BY <1>3 DEF U!ExecuteDigest
<1>4. ASSUME NEW s \in Sweeps, U!ListDue(s) PROVE DigestInv'
  BY <1>4 DEF U!ListDue
<1>5. ASSUME NEW s \in Sweeps, U!QueueDigest(s) PROVE DigestInv'
  BY <1>5 DEF U!QueueDigest
<1>6. ASSUME NEW s \in Sweeps, U!SaveRun(s) PROVE DigestInv'
  BY <1>6 DEF U!SaveRun
<1>7. ASSUME NEW s \in Sweeps, U!SweepEnds(s) PROVE DigestInv'
  BY <1>7 DEF U!SweepEnds
<1> QED BY <1>1, <1>2, <1>3, <1>4, <1>5, <1>6, <1>7 DEF U!DigestStep

(* The others leave the digests alone.                                     *)
LEMMA OthersLeaveDigests == ASSUME U!MappingStep \/ U!PlanStep PROVE UNCHANGED U!digestVars
  BY DEF U!MappingStep, U!SyncStep, U!LinkStep, U!PlanStep, U!BeginSync, U!ReadMappings, U!SyncOwner, U!SyncEnds, U!AskTier,
         U!CountManual, U!WriteManual, U!RequestFails, U!StartTrial, U!TrialEnds, U!TierExpires, U!Payment, U!digestVars

(* No digest that a user has deleted is queued by a sweep that begins      *)
(* later (lambda_scheduler.py saves the rows it read at its begin).        *)
THEOREM DeletedDigestStaysDeleted == UpkeepSpec => []U!DeletedStaysDeleted
<1>1. U!UpkeepInit({}, Plans \cup {One(Plans)}) => DigestInv
  BY DEF U!UpkeepInit, DigestInv, SweepsTyped, InHandOvertaken, U!DeletedStaysDeleted
<1>2. DigestInv /\ [U!UpkeepNext]_upkeepVars => DigestInv'
  <2>1. upkeepVars' = upkeepVars => UNCHANGED U!digestVars
    BY DEF upkeepVars, U!digestVars
  <2> QED BY <2>1, DigestsUntouched, DigestStepKeeps, OthersLeaveDigests DEF U!UpkeepNext
<1>3. DigestInv => U!DeletedStaysDeleted
  BY DEF DigestInv
<1> QED BY <1>1, <1>2, <1>3, PTL DEF UpkeepSpec

----------------------------------------------------------------------------
\* The shape of what the mappings' steps update.
Mapping == [status : {"none", "auto", "manual"}, who : People \cup {Nobody}]
Users == [Owners -> People \cup {Nobody}]
SyncType == [pc : {"idle", "read", "write"}, seen : [Owners -> Mapping], users : Users, left : SUBSET Owners]
Request == [pc : {"idle", "count", "write"}, owner : Owners \cup {Nobody}, who : People \cup {Nobody}, excuse : {"", "paid", "late"}]
SyncsTyped == sync \in [Syncs -> SyncType]
LinksTyped == link \in [Links -> Request] /\ \A l \in Links : link[l].pc # "idle" => link[l].owner \in Owners
RowsTyped == row \in [Owners -> Mapping]

\* An owner unlinked by hand is excused; and what a request has counted still
\* holds, unless it has become late.
UnlinkedExcused == \A o \in Owners : row[o].status = "manual" /\ row[o].who = Nobody => o \in excused
CountHolds(l) == link[l].pc = "write" /\ link[l].excuse = "" => link[l].who = Nobody \/ ~U!Full(link[l].owner)
CountsHold == \A l \in Links : CountHolds(l)
LimitInv == SyncsTyped /\ LinksTyped /\ RowsTyped /\ UnlinkedExcused /\ CountsHold /\ U!OneLinkIsFree

(* Once the table changes no request relies on its count.                  *)
LEMMA OvertakenAreLate ==
  ASSUME LinksTyped
  PROVE  /\ U!Overtaken \in [Links -> Request]
         /\ \A l \in Links : /\ U!Overtaken[l].pc = link[l].pc /\ U!Overtaken[l].owner = link[l].owner
                             /\ ~(U!Overtaken[l].pc = "write" /\ U!Overtaken[l].excuse = "")
<1>1. ASSUME NEW l \in Links
      PROVE  /\ U!Overtaken[l] \in Request /\ U!Overtaken[l].pc = link[l].pc /\ U!Overtaken[l].owner = link[l].owner
             /\ ~(U!Overtaken[l].pc = "write" /\ U!Overtaken[l].excuse = "")
  <2>1. link[l] \in Request
    BY DEF LinksTyped
  <2>2. U!Overtaken[l] = IF link[l].pc = "write" /\ link[l].excuse = "" THEN [link[l] EXCEPT !.excuse = "late"] ELSE link[l]
    BY DEF U!Overtaken
  <2> QED BY <2>1, <2>2 DEF Request
<1> QED BY <1>1 DEF U!Overtaken

(* A sync keeps the invariant: it unlinks, and excuses who had counted.    *)
LEMMA SyncKeepsLimit == ASSUME LimitInv, U!SyncStep PROVE LimitInv'
<1>1. sync \in [Syncs -> SyncType] /\ row \in [Owners -> Mapping]
  BY DEF LimitInv, SyncsTyped, RowsTyped
<1>2. ASSUME UNCHANGED <<row, link, excused>>, SyncsTyped' PROVE LimitInv'
  BY <1>2 DEF LimitInv, LinksTyped, RowsTyped, UnlinkedExcused, CountsHold, CountHolds, U!Full, U!Manual, U!OneLinkIsFree, U!Linked
<1>3. ASSUME NEW y \in Syncs, U!BeginSync(y) PROVE LimitInv'
  <2>1. PICK users \in Users : sync' = [sync EXCEPT ![y] = [@ EXCEPT !.pc = "read", !.users = users, !.left = Owners]]
    BY <1>3 DEF U!BeginSync, Users
  <2>2. [sync[y] EXCEPT !.pc = "read", !.users = users, !.left = Owners] \in SyncType
    BY <1>1 DEF SyncType
  <2>3. sync' = [sync EXCEPT ![y] = [sync[y] EXCEPT !.pc = "read", !.users = users, !.left = Owners]]
    BY <2>1
  <2> QED BY <1>1, <1>2, <1>3, <2>2, <2>3 DEF U!BeginSync, SyncsTyped
<1>4. ASSUME NEW y \in Syncs, U!ReadMappings(y) PROVE LimitInv'
  <2>1. [sync[y] EXCEPT !.pc = "write", !.seen = row] \in SyncType
    BY <1>1 DEF SyncType
  <2>2. sync' = [sync EXCEPT ![y] = [sync[y] EXCEPT !.pc = "write", !.seen = row]]
    BY <1>1, <1>4 DEF U!ReadMappings
  <2> QED BY <1>1, <1>2, <1>4, <2>1, <2>2 DEF U!ReadMappings, SyncsTyped
<1>5. ASSUME NEW y \in Syncs, U!SyncEnds(y) PROVE LimitInv'
  <2>1. U!NoSync \in SyncType
    BY DEF U!NoSync, U!Unmapped, SyncType, Users, Mapping
  <2> QED BY <1>1, <1>2, <1>5, <2>1 DEF U!SyncEnds, SyncsTyped
<1>6. ASSUME NEW y \in Syncs, U!SyncOwner(y) PROVE LimitInv'
  <2>1. PICK o \in sync[y].left :
           /\ IF U!LeaveAlone(sync[y].seen[o], sync[y].users[o]) THEN UNCHANGED <<row, link, excused>>
              ELSE /\ row' = [row EXCEPT ![o] = [status |-> "auto", who |-> sync[y].users[o]]]
                   /\ link' = U!Overtaken /\ excused' = excused \ {o}
           /\ sync' = [sync EXCEPT ![y].left = @ \ {o}]
    BY <1>6 DEF U!SyncOwner
  <2>2. o \in Owners /\ [sync[y] EXCEPT !.left = @ \ {o}] \in SyncType
    BY <1>1 DEF SyncType
  <2>3. SyncsTyped'
    BY <1>1, <2>1, <2>2 DEF SyncsTyped
  <2>4. CASE UNCHANGED <<row, link, excused>>
    BY <1>2, <2>3, <2>4
  <2>5. CASE /\ row' = [row EXCEPT ![o] = [status |-> "auto", who |-> sync[y].users[o]]]
             /\ link' = U!Overtaken /\ excused' = excused \ {o}
    <3>1. [status |-> "auto", who |-> sync[y].users[o]] \in Mapping
      BY <1>1, <2>2 DEF SyncType, Users, Mapping
    <3>2. RowsTyped' /\ row'[o].status = "auto" /\ \A p \in Owners \ {o} : row'[p] = row[p]
      BY <1>1, <2>2, <2>5, <3>1 DEF RowsTyped
    <3>3. LinksTyped' /\ CountsHold'
      BY <2>5, OvertakenAreLate DEF LimitInv, LinksTyped, CountsHold, CountHolds
    <3>4. UnlinkedExcused'
      BY <2>5, <3>2 DEF LimitInv, UnlinkedExcused
    <3>5. U!OneLinkIsFree'
      BY <2>5, <3>2 DEF LimitInv, U!OneLinkIsFree, U!Linked
    <3> QED BY <2>3, <3>2, <3>3, <3>4, <3>5 DEF LimitInv
  <2> QED BY <2>1, <2>4, <2>5
<1> QED BY <1>3, <1>4, <1>5, <1>6 DEF U!SyncStep

(* A request keeps the invariant: what it writes without an excuse is the  *)
(* first mapping by hand, or one that was made by hand already.            *)
LEMMA RequestKeepsLimit == ASSUME LimitInv, NEW l \in Links, U!LinkStep(l) PROVE LimitInv'
<1>1. link \in [Links -> Request] /\ link[l] \in Request /\ row \in [Owners -> Mapping]
  BY DEF LimitInv, LinksTyped, RowsTyped
<1>2. U!NoRequest \in Request
  BY DEF U!NoRequest, Request
<1>3. ASSUME UNCHANGED <<row, excused>>, sync' = sync, NEW q \in Request, link' = [link EXCEPT ![l] = q],
             q.pc # "idle" => q.owner \in Owners,
             q.pc = "write" /\ q.excuse = "" => q.who = Nobody \/ ~U!Full(q.owner)
      PROVE  LimitInv'
  <2>1. LinksTyped'
    BY <1>1, <1>3 DEF LimitInv, LinksTyped
  <2>2. link'[l] = q /\ \A k \in Links \ {l} : link'[k] = link[k]
    BY <1>1, <1>3
  <2>3. CountsHold'
    <3>1. ASSUME NEW k \in Links, link'[k].pc = "write", link'[k].excuse = ""
          PROVE  link'[k].who = Nobody \/ ~U!Full(link'[k].owner)
      BY <1>3, <2>2, <3>1 DEF LimitInv, CountsHold, CountHolds
    <3> QED BY <1>3, <3>1 DEF CountsHold, CountHolds, U!Full, U!Manual
  <2> QED BY <1>3, <2>1, <2>3 DEF LimitInv, SyncsTyped, RowsTyped, UnlinkedExcused, U!OneLinkIsFree, U!Linked
<1>4. CASE U!AskTier(l)
  <2>1. PICK o \in Owners, w \in People \cup {Nobody} :
          link' = [link EXCEPT ![l] = IF U!Tier = "free" THEN [pc |-> "count", owner |-> o, who |-> w, excuse |-> ""]
                                      ELSE [pc |-> "write", owner |-> o, who |-> w, excuse |-> "paid"]]
    BY <1>4 DEF U!AskTier
  <2> DEFINE q == IF U!Tier = "free" THEN [pc |-> "count", owner |-> o, who |-> w, excuse |-> ""]
                  ELSE [pc |-> "write", owner |-> o, who |-> w, excuse |-> "paid"]
  <2>2. q \in Request /\ q.owner \in Owners /\ ~(q.pc = "write" /\ q.excuse = "") /\ link' = [link EXCEPT ![l] = q]
    BY <2>1 DEF Request
  <2> HIDE DEF q
  <2> QED BY <1>3, <1>4, <2>2 DEF U!AskTier
<1>5. CASE U!CountManual(l)
  <2>1. CASE U!Full(link[l].owner) /\ link[l].who # Nobody
    BY <1>2, <1>3, <1>5, <2>1 DEF U!CountManual, U!NoRequest
  <2>2. CASE ~(U!Full(link[l].owner) /\ link[l].who # Nobody)
    <3> DEFINE q == [link[l] EXCEPT !.pc = "write"]
    <3>1. q \in Request /\ q.owner = link[l].owner /\ q.who = link[l].who /\ link' = [link EXCEPT ![l] = q]
      BY <1>1, <1>5, <2>2 DEF U!CountManual, Request
    <3>2. link[l].owner \in Owners
      BY <1>5 DEF U!CountManual, LimitInv, LinksTyped
    <3> HIDE DEF q
    <3> QED BY <1>3, <1>5, <2>2, <3>1, <3>2 DEF U!CountManual
  <2> QED BY <2>1, <2>2
<1>6. CASE U!RequestFails(l)
  BY <1>2, <1>3, <1>6 DEF U!RequestFails, U!NoRequest
<1>7. CASE U!WriteManual(l)
  <2> DEFINE o == link[l].owner
             w == link[l].who
  <2>1. o \in Owners /\ w \in People \cup {Nobody} /\ [status |-> "manual", who |-> w] \in Mapping
    BY <1>1, <1>7 DEF U!WriteManual, LimitInv, LinksTyped, Request, Mapping
  <2>2. /\ row' = [row EXCEPT ![o] = [status |-> "manual", who |-> w]]
        /\ excused' = (IF w = Nobody \/ link[l].excuse # "" THEN excused \cup {o} ELSE excused)
        /\ link' = [U!Overtaken EXCEPT ![l] = U!NoRequest] /\ sync' = sync /\ link[l].pc = "write"
    BY <1>7 DEF U!WriteManual
  <2>3. w = Nobody \/ link[l].excuse # "" \/ ~U!Full(o)
    BY <2>2 DEF LimitInv, CountsHold, CountHolds
  <2> HIDE DEF o, w
  <2>4. RowsTyped' /\ row'[o] = [status |-> "manual", who |-> w] /\ \A p \in Owners \ {o} : row'[p] = row[p]
    BY <1>1, <2>1, <2>2 DEF RowsTyped
  <2>5. LinksTyped' /\ CountsHold'
    BY <1>2, <2>2, OvertakenAreLate DEF LimitInv, LinksTyped, CountsHold, CountHolds, U!NoRequest
  <2>6. /\ \A p \in Owners : p \in excused => p \in excused'
        /\ w = Nobody => o \in excused'
    BY <2>2
  <2>7. UnlinkedExcused'
    <3>1. ASSUME NEW p \in Owners, row'[p].status = "manual", row'[p].who = Nobody PROVE p \in excused'
      <4>1. CASE p = o
        BY <2>4, <2>6, <3>1, <4>1
      <4>2. CASE p # o
        BY <2>4, <2>6, <3>1, <4>2 DEF LimitInv, UnlinkedExcused
      <4> QED BY <4>1, <4>2
    <3> QED BY <3>1 DEF UnlinkedExcused
  <2>8. U!OneLinkIsFree'
    <3>1. CASE o \in excused'
      <4>1. ASSUME NEW p \in Owners, NEW r \in Owners, row'[p].status = "manual", row'[p].who # Nobody,
                   row'[r].status = "manual", row'[r].who # Nobody, p \notin excused', r \notin excused'
            PROVE  p = r
        <5>1. p # o /\ r # o /\ row[p] = row'[p] /\ row[r] = row'[r] /\ p \notin excused /\ r \notin excused
          BY <2>4, <2>6, <3>1, <4>1
        <5> QED BY <4>1, <5>1 DEF LimitInv, U!OneLinkIsFree, U!Linked
      <4> QED BY <4>1 DEF U!OneLinkIsFree, U!Linked
    <3>2. CASE o \notin excused' /\ U!Manual = {}
      <4>1. \A p \in Owners : row[p].status # "manual"
        BY <3>2 DEF U!Manual
      <4>2. \A p \in Owners : row'[p].status = "manual" => p = o
        BY <2>4, <4>1
      <4> QED BY <4>2 DEF U!OneLinkIsFree, U!Linked
    <3>3. CASE o \notin excused' /\ o \in U!Manual
      <4>1. excused' = excused /\ row[o].status = "manual" /\ o \notin excused
        BY <2>2, <3>3 DEF U!Manual
      <4>2. row[o].who # Nobody
        BY <2>1, <4>1 DEF LimitInv, UnlinkedExcused
      <4> QED BY <2>1, <2>4, <4>1, <4>2 DEF LimitInv, U!OneLinkIsFree, U!Linked
    <3> QED BY <2>2, <2>3, <3>1, <3>2, <3>3 DEF U!Full
  <2> QED BY <2>2, <2>4, <2>5, <2>7, <2>8 DEF LimitInv, SyncsTyped
<1> QED BY <1>4, <1>5, <1>6, <1>7 DEF U!LinkStep

(* A free workspace has one owner mapped by hand to somebody, but for the  *)
(* owners that the orders of requests and syncs have excused: mapped while *)
(* the plan was paid or cached as paid, unlinked by hand before, or after  *)
(* the count was overtaken (update_manual_mapping counts, then writes).    *)
THEOREM ManualLinksAreLimited == UpkeepSpec => []U!OneLinkIsFree
<1>1. U!UpkeepInit({}, Plans \cup {One(Plans)}) => LimitInv
  <2> SUFFICES ASSUME U!UpkeepInit({}, Plans \cup {One(Plans)}) PROVE LimitInv
    OBVIOUS
  <2>1. SyncsTyped /\ RowsTyped
    BY DEF U!UpkeepInit, SyncsTyped, RowsTyped, SyncType, Mapping, Users, U!NoSync, U!Unmapped
  <2>2. \A o \in Owners : row[o].status = "none"
    BY DEF U!UpkeepInit, U!Unmapped
  <2>3. link \in [Links -> Request] /\ \A l \in Links : link[l].pc = "idle"
    BY DEF U!UpkeepInit, U!NoRequest, Request
  <2> QED BY <2>1, <2>2, <2>3 DEF LimitInv, LinksTyped, UnlinkedExcused, CountsHold, CountHolds, U!OneLinkIsFree, U!Linked
<1>2. U!DigestStep \/ U!PlanStep => UNCHANGED U!mappingVars
  BY DEF U!DigestStep, U!PlanStep, U!CreateDigest, U!DeleteDigest, U!ExecuteDigest, U!ListDue, U!QueueDigest, U!SaveRun, U!SweepEnds,
         U!StartTrial, U!TrialEnds, U!TierExpires, U!Payment, U!mappingVars
<1>3. LimitInv /\ UNCHANGED U!mappingVars => LimitInv'
  BY DEF LimitInv, SyncsTyped, LinksTyped, RowsTyped, UnlinkedExcused, CountsHold, CountHolds, U!Full, U!Manual,
         U!OneLinkIsFree, U!Linked, U!mappingVars
<1>4. upkeepVars' = upkeepVars => UNCHANGED U!mappingVars
  BY DEF upkeepVars, U!mappingVars
<1>5. LimitInv /\ [U!UpkeepNext]_upkeepVars => LimitInv'
  BY <1>2, <1>3, <1>4, SyncKeepsLimit, RequestKeepsLimit DEF U!UpkeepNext, U!MappingStep
<1>6. LimitInv => U!OneLinkIsFree
  BY DEF LimitInv
<1> QED BY <1>1, <1>5, <1>6, PTL DEF UpkeepSpec

----------------------------------------------------------------------------
(* A day implements the upkeep.                                            *)
THEOREM DayKeepsUp == Spec => UpkeepSpec
<1>1. Init => U!UpkeepInit({}, Plans \cup {One(Plans)})
  BY DEF Init, U!UpkeepInit
<1>2. [Next]_vars => [U!UpkeepNext]_upkeepVars
  BY DEF Next, vars, Analysing, Writing, Interaction, Interacting, Keeping, upkeepVars, U!UpkeepNext, U!MappingStep
<1> QED BY <1>1, <1>2, PTL DEF Spec, UpkeepSpec

(* A digest that a user has deleted is in the table again only if a sweep  *)
(* had read it before (_run_digests_sweep saves whole rows).               *)
THEOREM DeletedDigestsStayDeleted == Spec => []DeletedStaysDeleted
<1>1. U!DeletedStaysDeleted <=> DeletedStaysDeleted
  BY DEF DeletedStaysDeleted
<1> QED BY <1>1, DayKeepsUp, DeletedDigestStaysDeleted, PTL

(* A free workspace has one owner mapped by hand to somebody, but for the  *)
(* owners that the orders of requests and syncs have excused               *)
(* (update_manual_mapping).                                                *)
THEOREM DayLimitsManualLinks == Spec => []OneLinkIsFree
<1>1. U!OneLinkIsFree <=> OneLinkIsFree
  BY DEF OneLinkIsFree
<1> QED BY <1>1, DayKeepsUp, ManualLinksAreLimited, PTL

----------------------------------------------------------------------------
(* The desk as its proofs see it.                                          *)
DP == INSTANCE DeskProofs WITH may <- mishaps, faults <- met

(* The instance's counts, sets of notes and scenes are those of the day.   *)
LEMMA SameDesk ==
  /\ \A S : D!Cardinality(S) = DP!Cardinality(S) /\ D!ToSet(S) = DP!ToSet(S) /\ D!Max(S) = DP!Max(S)
  /\ \A r : D!Linked(r) = DP!Linked(r) /\ D!Engagements(r) = DP!Engagements(r) /\ D!Log(r) = DP!Log(r)
  /\ \A s : (D!DeskInit(s) <=> DP!DeskInit(s)) /\ (D!Plausible(s) <=> DP!Plausible(s))
<1>1. \A S : D!Cardinality(S) = DP!Cardinality(S) /\ D!ToSet(S) = DP!ToSet(S) /\ D!Max(S) = DP!Max(S)
  BY DEF D!Cardinality, DP!Cardinality, D!ToSet, DP!ToSet, D!Max, DP!Max
<1>2. \A r : D!Linked(r) = DP!Linked(r)
  BY DEF D!Linked, DP!Linked
<1>3. \A r : D!Engagements(r) = DP!Engagements(r) /\ D!Log(r) = DP!Log(r)
  BY <1>1, <1>2 DEF D!Engagements, DP!Engagements, D!Log, DP!Log
<1>4. \A s : D!DeskInit(s) <=> DP!DeskInit(s)
  BY DEF D!DeskInit, DP!DeskInit
<1>5. \A s : D!Plausible(s) <=> DP!Plausible(s)
  BY <1>1 DEF D!Plausible, DP!Plausible, D!Arrives, DP!Arrives, D!DeskTyped, DP!DeskTyped, D!TextsApart, DP!TextsApart,
              D!ThreadsApart, DP!ThreadsApart, D!JobFields, DP!JobFields, D!Begins, DP!Begins, D!Words, DP!Words,
              D!InThread, DP!InThread, D!Recognised, DP!Recognised
<1> QED BY <1>1, <1>2, <1>3, <1>4, <1>5

LEMMA SameDeskSteps == D!DeskNext <=> DP!DeskNext
<1> USE SameDesk DEF D!At, DP!At, D!Set, DP!Set, D!Goto, DP!Goto, D!Fails, DP!Fails, D!Blame, DP!Blame, D!InThread, DP!InThread,
    D!slackSide, DP!slackSide, D!hubspot, DP!hubspot, D!fixed, DP!fixed
<1>1. ASSUME NEW j \in Work PROVE D!DeskStep(j) \/ D!WorkerDies(j) <=> DP!DeskStep(j) \/ DP!WorkerDies(j)
  <2>1. D!Owed(j) = DP!Owed(j)
    BY DEF D!Owed, DP!Owed
  <2>2. D!Deliver(j) <=> DP!Deliver(j)
    BY DEF D!Deliver, DP!Deliver, D!Begun, DP!Begun
  <2>3. D!Human(j) <=> DP!Human(j)
    BY DEF D!Human, DP!Human
  <2>4. D!Redact(j) <=> DP!Redact(j)
    BY DEF D!Redact, DP!Redact
  <2>5. D!Publish(j) <=> DP!Publish(j)
    BY DEF D!Publish, DP!Publish
  <2>6. D!Resolve(j) <=> DP!Resolve(j)
    BY DEF D!Resolve, DP!Resolve, D!Way, DP!Way, D!InThread, DP!InThread
  <2>7. D!Parent(j) <=> DP!Parent(j)
    BY DEF D!Parent, DP!Parent, D!Names, DP!Names, D!Recognised, DP!Recognised
  <2>8. D!Lazy(j) <=> DP!Lazy(j)
    BY DEF D!Lazy, DP!Lazy, D!Way, DP!Way
  <2>9. D!AddNote(j) <=> DP!AddNote(j)
    BY DEF D!AddNote, DP!AddNote
  <2>10. D!SubmitReply(j) <=> DP!SubmitReply(j)
    BY DEF D!SubmitReply, DP!SubmitReply
  <2>11. D!Claim(j) <=> DP!Claim(j)
    BY DEF D!Claim, DP!Claim
  <2>12. D!Thread(j) <=> DP!Thread(j)
    BY DEF D!Thread, DP!Thread
  <2>13. D!Comment(j) <=> DP!Comment(j)
    BY DEF D!Comment, DP!Comment, D!AfterFiling, DP!AfterFiling
  <2>14. D!Search(j) <=> DP!Search(j)
    BY DEF D!Search, DP!Search
  <2>15. D!AppendToLog(j) <=> DP!AppendToLog(j)
    BY DEF D!AppendToLog, DP!AppendToLog, D!Wrote, DP!Wrote, D!Overlap, DP!Overlap
  <2>16. D!CreateNote(j) <=> DP!CreateNote(j)
    BY DEF D!CreateNote, DP!CreateNote
  <2>17. D!LinkNote(j) <=> DP!LinkNote(j)
    BY DEF D!LinkNote, DP!LinkNote
  <2>18. D!ReadTask(j) <=> DP!ReadTask(j)
    BY DEF D!ReadTask, DP!ReadTask
  <2>19. D!WriteTask(j) <=> DP!WriteTask(j)
    BY DEF D!WriteTask, DP!WriteTask, D!Overlap, DP!Overlap
  <2>20. D!Uncache(j) <=> DP!Uncache(j)
    BY DEF D!Uncache, DP!Uncache, D!Uncached, DP!Uncached, D!Late, DP!Late
  <2>21. D!Invalidate(j) <=> DP!Invalidate(j)
    BY DEF D!Invalidate, DP!Invalidate, D!Uncached, DP!Uncached, D!Late, DP!Late
  <2>22. D!Look(j) <=> DP!Look(j)
    BY <2>1 DEF D!Look, DP!Look
  <2>23. D!Fetch(j) <=> DP!Fetch(j)
    BY DEF D!Fetch, DP!Fetch, D!Engagements, DP!Engagements
  <2>24. D!Store(j) <=> DP!Store(j)
    BY DEF D!Store, DP!Store
  <2>25. D!CreateTicket(j) <=> DP!CreateTicket(j)
    BY DEF D!CreateTicket, DP!CreateTicket
  <2>26. D!TicketCard(j) <=> DP!TicketCard(j)
    BY DEF D!TicketCard, DP!TicketCard, D!Told, DP!Told
  <2>27. D!MapTicket(j) <=> DP!MapTicket(j)
    BY DEF D!MapTicket, DP!MapTicket, D!Told, DP!Told
  <2>28. D!Ensure(j) <=> DP!Ensure(j)
    BY DEF D!Ensure, DP!Ensure
  <2>29. D!History(j) <=> DP!History(j)
    BY DEF D!History, DP!History
  <2>30. D!ClaimOrClose(j) <=> DP!ClaimOrClose(j)
    BY DEF D!ClaimOrClose, DP!ClaimOrClose
  <2>31. D!Post(j) <=> DP!Post(j)
    BY DEF D!Post, DP!Post, D!Told, DP!Told
  <2>32. D!WorkerDies(j) <=> DP!WorkerDies(j)
    BY DEF D!WorkerDies, DP!WorkerDies, D!Over, DP!Over
  <2> QED BY <2>2, <2>3, <2>4, <2>5, <2>6, <2>7, <2>8, <2>9, <2>10, <2>11, <2>12, <2>13, <2>14, <2>15, <2>16,
         <2>17, <2>18, <2>19, <2>20, <2>21, <2>22, <2>23, <2>24, <2>25, <2>26, <2>27, <2>28, <2>29, <2>30,
         <2>31, <2>32 DEF D!DeskStep, DP!DeskStep
<1>2. ASSUME NEW r \in Records, NEW p \in Places PROVE D!Announced(r, p) <=> DP!Announced(r, p)
  BY DEF D!Announced, DP!Announced
<1>3. ASSUME NEW h \in Hosts, NEW r \in Records PROVE D!ViewExpires(h, r) <=> DP!ViewExpires(h, r)
  BY DEF D!ViewExpires, DP!ViewExpires
<1>4. D!Midnight <=> DP!Midnight
  BY DEF D!Midnight, DP!Midnight
<1> QED BY <1>1, <1>2, <1>3, <1>4 DEF D!DeskNext, DP!DeskNext

(* A day implements the desk, from a plausible scene.                      *)
THEOREM DayAtDesk == Spec => DP!ScenesPlausible /\ DP!DeskSpec
<1>1. One(Scenes) \in Scenes /\ DP!ScenesPlausible
  BY DayAssumption, SameDesk DEF ScenesPlausible, DP!ScenesPlausible, One
<1>2. Init => \E s \in Scenes : DP!DeskInit(s)
  BY <1>1, SameDesk DEF Init
<1>3. [Next]_vars => [DP!DeskNext]_(DP!deskVars)
  BY SameDeskSteps DEF Next, vars, Analysing, Writing, Interaction, Interacting, Keeping, deskVars, DP!deskVars
<1> QED BY <1>1, <1>2, <1>3, PTL DEF Spec, DP!DeskSpec

(* A reply in a thread goes to the record whose card began the thread      *)
(* (resolve_thread_context), however the mappings of records have moved.   *)
THEOREM RepliesGoToTheirThread == Spec => []RepliesGoHome
<1>1. DP!RepliesGoHome <=> RepliesGoHome
  BY SameDesk DEF RepliesGoHome, D!RepliesGoHome, DP!RepliesGoHome, D!Filed, DP!Filed
<1>2. DP!ScenesPlausible /\ DP!DeskSpec => []DP!RepliesGoHome
  BY DP!RepliesFindHome
<1> QED BY <1>1, <1>2, DayAtDesk, PTL

(* A reply under a record's card is never dropped as belonging to nothing  *)
(* (handle_threaded_reply), also before the card is mapped.                *)
THEOREM RepliesFindTheirRecord == Spec => []RepliesResolved
<1>1. DP!RepliesResolved <=> RepliesResolved
  BY SameDesk DEF RepliesResolved, D!RepliesResolved, DP!RepliesResolved, D!At, DP!At, D!InThread, DP!InThread
<1>2. DP!ScenesPlausible /\ DP!DeskSpec => []DP!RepliesResolved
  BY DP!NoReplyDropped
<1> QED BY <1>1, <1>2, DayAtDesk, PTL

(* What a handler of threaded replies has dealt with to the end is in      *)
(* HubSpot, and stays there whatever later replies do to the same note     *)
(* (create_note's read and write back), unless two overlapped.             *)
THEOREM FiledRepliesStay == Spec => []RepliesKept
<1>1. DP!RepliesKept <=> RepliesKept
  BY SameDesk DEF RepliesKept, D!RepliesKept, DP!RepliesKept, D!Writers, DP!Writers, D!At, DP!At, D!Filed,
         DP!Filed
<1>2. DP!ScenesPlausible /\ DP!DeskSpec => []DP!RepliesKept
  BY DP!RepliesStayFiled
<1> QED BY <1>1, <1>2, DayAtDesk, PTL

(* It is there once, though Slack delivers an event again (events_router,  *)
(* processed_events), unless a claim failed open, the answer to a write    *)
(* was lost or the queue delivered a message again.                        *)
THEOREM RepliesFiledOnlyOnce == Spec => []RepliesOnce
<1>1. DP!RepliesOnce <=> RepliesOnce
  BY SameDesk DEF RepliesOnce, D!RepliesOnce, DP!RepliesOnce, D!Writers, DP!Writers, D!Copies, DP!Copies
<1>2. DP!ScenesPlausible /\ DP!DeskSpec => []DP!RepliesOnce
  BY DP!RepliesFiledOnce
<1> QED BY <1>1, <1>2, DayAtDesk, PTL

(* Who looks at a record after a note was filed through the same instance  *)
(* sees the note (_ENGAGEMENTS_CACHE and its invalidation), unless an      *)
(* earlier look stored too late, the note was overwritten or could not be  *)
(* fetched, or a claim failed open.                                        *)
THEOREM FiledRepliesAreSeen == Spec => []ViewsFresh
<1>1. DP!ViewsFresh <=> ViewsFresh
  BY SameDesk DEF ViewsFresh, D!ViewsFresh, DP!ViewsFresh, D!At, DP!At
<1>2. DP!ScenesPlausible /\ DP!DeskSpec => []DP!ViewsFresh
  BY DP!ViewsStayFresh
<1> QED BY <1>1, <1>2, DayAtDesk, PTL

----------------------------------------------------------------------------
(* Analysis: objects with dated engagements of five types.                 *)

(* Among natural numbers one is the least.                                 *)
LEMMA LeastNumber ==
  ASSUME NEW S \in SUBSET Nat, S # {}
  PROVE  \E k \in S : \A i \in S : k <= i
<1>1. S \subseteq Nat
  OBVIOUS
<1>2. \E k \in S : \A i \in S : ~(<<i, k>> \in OpToRel(<, Nat))
  BY <1>1, WFMin, NatLessThanWellFounded
<1>3. PICK k \in S : \A i \in S : ~(<<i, k>> \in OpToRel(<, Nat))
  BY <1>2
<1>4. ASSUME NEW i \in S, i < k PROVE <<i, k>> \in OpToRel(<, Nat)
  BY <1>1, <1>4 DEF OpToRel
<1>5. \A i \in S : ~(i < k)
  BY <1>3, <1>4
<1> QED BY <1>1, <1>5

(* Of finitely many numbers one is the least.                              *)
LEMMA LeastOf ==
  ASSUME NEW n \in Nat, NEW f, \A i \in 1..n : f[i] \in Int, NEW N \in SUBSET (1..n), N # {}
  PROVE  \E m \in N : \A i \in N : f[m] <= f[i]
<1> DEFINE Endless(S) == \A m \in S : \E i \in S : ~(f[m] <= f[i])
           Bad == {k \in 0..n : \E S \in SUBSET (1..k) : S # {} /\ Endless(S)}
<1>1. SUFFICES ASSUME Bad # {} PROVE FALSE
  <2>1. n \in 0..n
    OBVIOUS
  <2> QED BY <1>1, <2>1
<1>2. Bad \in SUBSET Nat
  OBVIOUS
<1>3. PICK k \in Bad : \A j \in Bad : ~(j < k)
  <2> HIDE DEF Bad
  <2>1. PICK k \in Bad : \A j \in Bad : k <= j
    BY <1>1, <1>2, LeastNumber
  <2>2. \A j \in Bad : j \in Nat /\ ~(j < k)
    BY <1>2, <2>1
  <2> QED BY <2>2
<1>4. k \in 0..n
  OBVIOUS
<1>5. PICK S \in SUBSET (1..k) : S # {} /\ Endless(S)
  BY <1>3
<1>6. k # 0
  <2>1. 1..0 = {}
    OBVIOUS
  <2> QED BY <1>5, <2>1
<1>7. k - 1 \in 0..n /\ k - 1 < k /\ 1..k = (1..(k - 1)) \cup {k} /\ k \in 1..n
  BY <1>4, <1>6
<1>8. k - 1 \notin Bad
  BY <1>3, <1>7
<1>9. \A T \in SUBSET (1..(k - 1)) : T = {} \/ ~Endless(T)
  BY <1>7, <1>8
<1>10. k \in S
  <2>1. k \notin S => S \in SUBSET (1..(k - 1))
    BY <1>5, <1>7
  <2> QED BY <1>5, <1>9, <2>1
<1>11. CASE S = {k}
  BY <1>5, <1>7, <1>11
<1>12. CASE S \ {k} # {}
  <2>1. S \ {k} \in SUBSET (1..(k - 1))
    BY <1>5, <1>7
  <2>2. PICK m \in S \ {k} : \A i \in S \ {k} : f[m] <= f[i]
    BY <1>9, <1>12, <2>1
  <2>3. m \in 1..n /\ f[m] \in Int /\ f[k] \in Int /\ \A i \in S : f[i] \in Int
    BY <1>4, <1>5, <1>7, <2>2
  <2>4. CASE f[m] <= f[k]
    BY <1>5, <2>2, <2>4
  <2>5. CASE ~(f[m] <= f[k])
    <3>1. \A i \in S : f[k] <= f[i]
      BY <2>2, <2>3, <2>5
    <3> QED BY <1>5, <1>10, <3>1
  <2> QED BY <2>4, <2>5
<1> QED BY <1>10, <1>11, <1>12

(* The engagements of an object are typed, and their last activity is a    *)
(* day or missing.                                                         *)
LEMMA EngagementsTyped ==
  ASSUME NEW o \in Objects
  PROVE  A!Engagements(o) \in Seq(Engagement)
<1> DEFINE calls == [k \in DOMAIN o.calls |-> [o.calls[k] EXCEPT !.inbound = FALSE]]
<1>1. o.notes \in Seq(Engagement) /\ o.emails \in Seq(Engagement) /\ o.meetings \in Seq(Engagement)
      /\ o.calls \in Seq(Engagement) /\ o.tasks \in Seq(Engagement)
  BY DayAssumption DEF ObjectsTyped
<1>2. calls \in Seq(Engagement)
  <2>1. Len(o.calls) \in Nat /\ DOMAIN o.calls = 1..Len(o.calls)
    BY <1>1
  <2>2. ASSUME NEW e \in Engagement PROVE [e EXCEPT !.inbound = FALSE] \in Engagement
    BY DEF Engagement
  <2>4. \A k \in 1..Len(o.calls) : o.calls[k] \in Engagement
    BY <1>1, <2>1
  <2>3. calls \in [1..Len(o.calls) -> Engagement]
    BY <2>1, <2>2, <2>4
  <2> QED BY <2>1, <2>3
<1>3. A!Engagements(o) = o.notes \o o.emails \o o.meetings \o calls \o o.tasks
  BY DEF A!Engagements, A!Fetched
<1> HIDE DEF calls
<1> QED BY <1>1, <1>2, <1>3

LEMMA LatestIsANumber ==
  ASSUME NEW eng \in Seq(Engagement), A!Dated(eng) # {}
  PROVE  A!Latest(eng) \in Int
<1>1. Len(eng) \in Nat /\ DOMAIN eng = 1..Len(eng) /\ \A i \in 1..Len(eng) : eng[i].age \in Int
  <2>1. \A e \in Engagement : e.age \in Int
    BY DEF Engagement
  <2> QED BY <2>1
<1> DEFINE ages == {eng[i].age : i \in A!Dated(eng)}
<1>2. A!Dated(eng) \in SUBSET (1..Len(eng))
  BY <1>1 DEF A!Dated
<1>3. PICK m \in A!Dated(eng) : \A i \in A!Dated(eng) : eng[m].age <= eng[i].age
  <2> DEFINE f == [i \in 1..Len(eng) |-> eng[i].age]
  <2>1. \A i \in 1..Len(eng) : f[i] \in Int /\ f[i] = eng[i].age
    BY <1>1
  <2> HIDE DEF f
  <2>2. \E m \in A!Dated(eng) : \A i \in A!Dated(eng) : f[m] <= f[i]
    BY <1>1, <1>2, <2>1, LeastOf
  <2> QED BY <1>2, <2>1, <2>2
<1>4. \E a \in ages : \A i \in A!Dated(eng) : a <= eng[i].age
  BY <1>3
<1>5. PICK least \in ages : least = CHOOSE a \in ages : \A i \in A!Dated(eng) : a <= eng[i].age
  BY <1>4
<1>6. least \in Int
  BY <1>1, <1>2, <1>5
<1> QED BY <1>5, <1>6 DEF A!Latest

LEMMA LastActivityIsADay ==
  ASSUME NEW o \in Objects, NEW time \in Nat
  PROVE  A!LastActivity(A!Engagements(o), time) \in Int
<1> DEFINE eng == A!Engagements(o)
<1>1. eng \in Seq(Engagement)
  BY EngagementsTyped
<1> HIDE DEF eng
<1>2. CASE A!Dated(eng) = {}
  BY <1>2 DEF A!LastActivity, A!None, eng
<1>3. CASE A!Dated(eng) # {}
  <2>1. A!Latest(eng) \in Int
    BY <1>1, <1>3, LatestIsANumber
  <2> DEFINE idle == time + A!Latest(eng)
  <2>2. idle \in Int /\ -idle \in Int
    BY <2>1
  <2> HIDE DEF idle
  <2>3. A!Trunc(idle, 240) \in Int
    BY <2>2 DEF A!Trunc
  <2>4. A!LastActivity(eng, time) = A!Trunc(idle, 240)
    BY <1>3 DEF A!LastActivity, A!Day, idle
  <2> QED BY <2>3, <2>4 DEF eng
<1> QED BY <1>2, <1>3

(* Time takes a pulse to neutral and silence takes it further.             *)
LEMMA SilenceDecays ==
  ASSUME NEW pulse, NEW last \in Int, last >= 60, NEW per \in {1, 2, 3}
  PROVE  A!Decayed(pulse, last, per) \in 10..50
<1>1. A!Decayed(pulse, last, per) = A!AtLeast(50 - (last - 14) \div per, 10)
  BY DEF A!Decayed, A!Past, A!None
<1>2. (last - 14) \div per \in Nat
  OBVIOUS
<1> QED BY <1>1, <1>2 DEF A!AtLeast

(* Two months after the last activity no contact, company or deal has a    *)
(* pulse above neutral, whatever the customer wrote, for objects of the    *)
(* shape that HubSpot's answers have.                                      *)
THEOREM SilenceAlwaysShows == Spec => []SilenceShows
<1> DEFINE Inv == object \in Objects /\ waited \in Nat /\ A!SilenceShows
<1>1. Init => Inv
  <2> SUFFICES ASSUME Init PROVE Inv
    OBVIOUS
  <2>1. object \in Objects /\ waited = 0 /\ shown = A!NotShown
    BY DEF Init, A!AnalysisInit
  <2>2. shown.last = -1000
    BY <2>1 DEF A!NotShown, A!None
  <2>3. ~(shown.last >= 60)
    BY <2>2
  <2> QED BY <2>1, <2>3 DEF A!SilenceShows
<1>2. ASSUME Inv, A!Analyse PROVE Inv'
  <2>1. PICK seen : /\ shown'.last = A!LastActivity(A!Engagements(object), waited)
                    /\ shown'.out = A!AnalyzePolymorphic(object, seen, waited)
    BY <1>2 DEF A!Analyse
  <2> DEFINE last == A!LastActivity(A!Engagements(object), waited)
  <2>2. last \in Int
    BY <1>2, LastActivityIsADay
  <2>3. ASSUME object.kind \in {"contact", "company", "deal"}, last >= 60
        PROVE  A!AnalyzePolymorphic(object, seen, waited).pulse \in 10..50
    <3> DEFINE o == [f \in DOMAIN object \cup {"eng"} |->
                       CASE f = "props" -> A!Aged(object.props, waited \div A!Day)
                         [] f = "eng" -> A!Engagements(object) [] OTHER -> object[f]]
    <3>1. o.kind = object.kind /\ o.eng = A!Engagements(object)
      BY <1>2, DayAssumption DEF ObjectsTyped
    <3>2. A!AnalyzePolymorphic(object, seen, waited) =
            CASE o.kind = "contact" -> A!AnalyzeContact(o, A!Defaults, seen, waited)
              [] o.kind = "company" -> A!AnalyzeCompany(o, A!Defaults, seen, waited)
              [] o.kind = "deal" -> A!AnalyzeDeal(o, A!Defaults, seen, waited)
              [] o.kind = "ticket" -> A!AnalyzeTicket(o, A!Defaults, seen, waited)
              [] o.kind = "conversation" -> A!AnalyzeConversation(o, seen)
              [] o.kind = "task" -> A!AnalyzeTask(o)
              [] o.kind = "lead" -> A!AnalyzeLead(o, A!Defaults)
              [] o.kind = "appointment" -> A!AnalyzeAppointment(o)
      BY DEF A!AnalyzePolymorphic
    <3> HIDE DEF o
    <3>3. CASE object.kind = "contact"
      <4>1. A!AnalyzePolymorphic(object, seen, waited).pulse = A!Decayed(A!PulseOf(o.eng, seen), last, 3)
        BY <3>1, <3>2, <3>3 DEF A!AnalyzeContact
      <4> QED BY <2>2, <2>3, <4>1, SilenceDecays
    <3>4. CASE object.kind = "company"
      <4>1. A!AnalyzeCompany(o, A!Defaults, seen, waited).pulse
              = A!Decayed(A!PulseOf(o.eng, seen), A!LastActivity(o.eng, waited), 2)
        BY DEF A!AnalyzeCompany
      <4>2. A!AnalyzePolymorphic(object, seen, waited) = A!AnalyzeCompany(o, A!Defaults, seen, waited)
        BY <3>1, <3>2, <3>4
      <4> QED BY <2>2, <2>3, <3>1, <4>1, <4>2, SilenceDecays
    <3>5. CASE object.kind = "deal"
      <4>1. A!AnalyzePolymorphic(object, seen, waited).pulse = A!Decayed(A!PulseOf(o.eng, seen), last, 1)
        BY <3>1, <3>2, <3>5 DEF A!AnalyzeDeal
      <4> QED BY <2>2, <2>3, <4>1, SilenceDecays
    <3> QED BY <2>3, <3>3, <3>4, <3>5
  <2> QED BY <1>2, <2>1, <2>3 DEF A!Analyse, A!SilenceShows
<1>3. ASSUME Inv, A!AnalysisNext PROVE Inv'
  <2>1. CASE \E t \in Texts : A!SentimentArrives(t) \/ A!SentimentFails(t)
    BY <1>3, <2>1 DEF A!SentimentArrives, A!SentimentFails, A!SilenceShows
  <2>2. CASE \E d \in Waits : A!TimePasses(d)
    BY <1>3, <2>2, DayAssumption DEF WaitsTyped, A!TimePasses, A!SilenceShows
  <2> QED BY <1>2, <1>3, <2>1, <2>2 DEF A!AnalysisNext
<1>4. Inv /\ [Next]_vars => Inv'
  <2>1. UNCHANGED analysisVars => (Inv => Inv')
    BY DEF analysisVars, A!SilenceShows
  <2> QED BY <1>3, <2>1 DEF Next, vars, Analysing, Writing, Interaction, Interacting, Keeping
<1>5. Inv => SilenceShows
  BY DEF SilenceShows
<1> QED BY <1>1, <1>4, <1>5, PTL DEF Spec

----------------------------------------------------------------------------
(* Analysis: what a worse sentiment does to a card.                        *)

(* The running total of the engagements up to number n.                    *)
Total(f, eng, from, n, moods) ==
  f = [i \in 0..n |-> IF i <= from THEN 0 ELSE f[i - 1] + A!Weighed(eng[i], moods)]
Priced(eng, n, moods) == \A i \in 1..n : A!Weighed(eng[i], moods) \in Int

LEMMA TotalsAreNumbers ==
  ASSUME NEW n \in Nat, NEW from \in Nat, NEW eng, NEW moods, Priced(eng, n, moods),
         NEW f, Total(f, eng, from, n, moods)
  PROVE  \A i \in 0..n : f[i] \in Int
<1> DEFINE Bad == {i \in 0..n : f[i] \notin Int}
<1>1. SUFFICES ASSUME Bad # {} PROVE FALSE
  OBVIOUS
<1>2. PICK k \in Bad : \A i \in Bad : k <= i
  <2>1. Bad \in SUBSET Nat
    OBVIOUS
  <2> HIDE DEF Bad
  <2> QED BY <1>1, <2>1, LeastNumber
<1>3. \A i \in 0..n : f[i] = IF i <= from THEN 0 ELSE f[i - 1] + A!Weighed(eng[i], moods)
  BY DEF Total
<1>4. k \in 1..n /\ k - 1 \in 0..n /\ f[k] = f[k - 1] + A!Weighed(eng[k], moods)
  BY <1>2, <1>3
<1>5. f[k - 1] \in Int
  BY <1>2, <1>4
<1> QED BY <1>2, <1>4, <1>5 DEF Priced

LEMMA TotalExists ==
  ASSUME NEW n \in Nat, NEW from \in Nat, NEW eng, NEW moods
  PROVE  \E f : Total(f, eng, from, n, moods)
<1> DEFINE Bad == {k \in Nat : ~\E f : Total(f, eng, from, k, moods)}
<1>1. SUFFICES ASSUME Bad # {} PROVE FALSE
  OBVIOUS
<1>2. PICK k \in Bad : \A i \in Bad : k <= i
  <2>1. Bad \in SUBSET Nat
    OBVIOUS
  <2> HIDE DEF Bad
  <2> QED BY <1>1, <2>1, LeastNumber
<1>3. k \in Nat /\ ~\E f : Total(f, eng, from, k, moods)
  BY <1>2
<1>4. k # 0
  <2>1. Total([i \in 0..0 |-> 0], eng, from, 0, moods)
    BY DEF Total
  <2> QED BY <1>3, <2>1
<1>5. PICK g : Total(g, eng, from, k - 1, moods)
  <2>1. k - 1 \in Nat /\ ~(k <= k - 1)
    BY <1>3, <1>4
  <2> QED BY <1>2, <2>1
<1> DEFINE f == [i \in 0..k |-> IF i <= from THEN 0 ELSE g[i - 1] + A!Weighed(eng[i], moods)]
<1>6. \A i \in 0..(k - 1) : f[i] = g[i]
  <2>1. \A i \in 0..(k - 1) : g[i] = IF i <= from THEN 0 ELSE g[i - 1] + A!Weighed(eng[i], moods)
    BY <1>5 DEF Total
  <2> QED BY <1>3, <2>1
<1>7. Total(f, eng, from, k, moods)
  <2>1. \A i \in 0..k : i > from => f[i - 1] = g[i - 1]
    <3>1. ASSUME NEW i \in 0..k, i > from PROVE i - 1 \in 0..(k - 1)
      BY <1>3, <3>1
    <3> HIDE DEF f
    <3> QED BY <1>6, <3>1
  <2>2. \A i \in 0..k : f[i] = IF i <= from THEN 0 ELSE f[i - 1] + A!Weighed(eng[i], moods)
    <3>1. \A i \in 0..k : f[i] = IF i <= from THEN 0 ELSE g[i - 1] + A!Weighed(eng[i], moods)
      OBVIOUS
    <3>2. \A i \in 0..k : i <= from \/ i > from
      BY <1>3
    <3> HIDE DEF f
    <3> QED BY <2>1, <3>1, <3>2
  <2>3. f = [i \in 0..k |-> f[i]]
    OBVIOUS
  <2> HIDE DEF f
  <2> QED BY <2>2, <2>3 DEF Total
<1> QED BY <1>3, <1>7

LEMMA AddedIsTotal ==
  ASSUME NEW n \in Nat, NEW from \in Nat, NEW eng, NEW moods
  PROVE  \E f : Total(f, eng, from, n, moods) /\ A!Added(eng, from, n, moods) = f[n]
<1>1. PICK f : f = CHOOSE g : Total(g, eng, from, n, moods)
  OBVIOUS
<1>2. Total(f, eng, from, n, moods)
  BY <1>1, TotalExists
<1>3. A!Added(eng, from, n, moods) = f[n]
  BY <1>1 DEF A!Added, Total
<1> QED BY <1>2, <1>3

(* A table gives no text a better score than another does.                 *)
Stored(t, moods) == IF t \in DOMAIN moods THEN moods[t] ELSE 0
Worse(new, old) == \A t \in Texts : Stored(t, new) <= Stored(t, old)
MoodTable(moods) == DOMAIN moods \subseteq Texts /\ \A t \in DOMAIN moods : moods[t] \in Int

LEMMA WeighedLess ==
  ASSUME NEW e \in Engagement, NEW new, NEW old, MoodTable(new), MoodTable(old), Worse(new, old)
  PROVE  /\ A!Weighed(e, new) \in Int /\ A!Weighed(e, old) \in Int
         /\ A!Weighed(e, new) <= A!Weighed(e, old)
<1>1. CASE ~A!Counted(e)
  BY <1>1 DEF A!Weighed
<1>2. CASE A!Counted(e)
  <2>1. e.text \in Texts
    BY <1>2 DEF A!Counted, Engagement
  <2>2. A!Scored(e.text, new) = Stored(e.text, new) /\ A!Scored(e.text, old) = Stored(e.text, old)
    BY DEF A!Scored, Stored
  <2>3. Stored(e.text, new) \in Int /\ Stored(e.text, old) \in Int
    BY <2>1 DEF MoodTable, Stored
  <2>4. Stored(e.text, new) <= Stored(e.text, old)
    BY <2>1 DEF Worse
  <2>5. A!Weight(e) \in {8, 10, 12}
    BY DEF A!Weight
  <2> HIDE DEF Stored
  <2>6. ASSUME NEW w \in {8, 10, 12}, NEW a \in Int, NEW b \in Int, a <= b
        PROVE  w * a \in Int /\ w * b \in Int /\ w * a <= w * b
    BY <2>6
  <2>7. /\ A!Weighed(e, new) = A!Weight(e) * Stored(e.text, new)
        /\ A!Weighed(e, old) = A!Weight(e) * Stored(e.text, old)
    BY <1>2, <2>2 DEF A!Weighed
  <2> QED BY <2>3, <2>4, <2>5, <2>6, <2>7
<1> QED BY <1>1, <1>2

(* The sum of no number is less than that of smaller ones.                 *)
LEMMA AddedLess ==
  ASSUME NEW eng \in Seq(Engagement), NEW n \in 0..Len(eng), NEW from \in Nat,
         NEW new, NEW old, MoodTable(new), MoodTable(old), Worse(new, old)
  PROVE  /\ A!Added(eng, from, n, new) \in Int /\ A!Added(eng, from, n, old) \in Int
         /\ A!Added(eng, from, n, new) <= A!Added(eng, from, n, old)
<1>1. n \in Nat /\ \A i \in 1..n : eng[i] \in Engagement
  OBVIOUS
<1>2. \A i \in 1..n : /\ A!Weighed(eng[i], new) \in Int /\ A!Weighed(eng[i], old) \in Int
                       /\ A!Weighed(eng[i], new) <= A!Weighed(eng[i], old)
  BY <1>1, WeighedLess
<1>3. PICK f : Total(f, eng, from, n, new) /\ A!Added(eng, from, n, new) = f[n]
  BY <1>1, AddedIsTotal
<1>4. PICK g : Total(g, eng, from, n, old) /\ A!Added(eng, from, n, old) = g[n]
  BY <1>1, AddedIsTotal
<1>5. \A i \in 0..n : f[i] \in Int /\ g[i] \in Int
  BY <1>1, <1>2, <1>3, <1>4, TotalsAreNumbers DEF Priced
<1>6. \A i \in 0..n : f[i] <= g[i]
  <2> DEFINE Bad == {i \in 0..n : ~(f[i] <= g[i])}
  <2>1. SUFFICES ASSUME Bad # {} PROVE FALSE
    OBVIOUS
  <2>2. PICK k \in Bad : \A i \in Bad : k <= i
    <3>1. Bad \in SUBSET Nat
      OBVIOUS
    <3> HIDE DEF Bad
    <3> QED BY <2>1, <3>1, LeastNumber
  <2>3. \A i \in 0..n : f[i] = IF i <= from THEN 0 ELSE f[i - 1] + A!Weighed(eng[i], new)
    BY <1>3 DEF Total
  <2>4. \A i \in 0..n : g[i] = IF i <= from THEN 0 ELSE g[i - 1] + A!Weighed(eng[i], old)
    BY <1>4 DEF Total
  <2>5. k \in 0..n /\ ~(k <= from) /\ ~(f[k] <= g[k])
    BY <2>2, <2>3, <2>4
  <2>6. k \in 1..n /\ k - 1 \in 0..n /\ ~(k <= k - 1)
    BY <1>1, <2>5
  <2>7. f[k - 1] <= g[k - 1]
    BY <2>2, <2>6
  <2>8. f[k] = f[k - 1] + A!Weighed(eng[k], new) /\ g[k] = g[k - 1] + A!Weighed(eng[k], old)
    BY <2>3, <2>4, <2>5
  <2> QED BY <1>2, <1>5, <2>5, <2>6, <2>7, <2>8
<1>7. n \in 0..n
  BY <1>1
<1> QED BY <1>3, <1>4, <1>5, <1>6, <1>7

(* A window of worse texts counts as many, and adds up to no more.         *)
LEMMA WindowLess ==
  ASSUME NEW eng \in Seq(Engagement), NEW new, NEW old, MoodTable(new), MoodTable(old), Worse(new, old)
  PROVE  LET v == A!Window(eng, 0, PulseWindow, new)
             w == A!Window(eng, 0, PulseWindow, old)
         IN  v.hits = w.hits /\ w.hits \in Nat /\ v.agg \in Int /\ w.agg \in Int /\ v.agg <= w.agg
<1> DEFINE to == A!AtMost(PulseWindow, Len(eng))
           heard == {i \in (0 + 1)..to : A!Counted(eng[i])}
<1>1. PulseWindow \in Nat /\ Len(eng) \in Nat
  BY DayAssumption DEF TextsTyped
<1>2. to \in 0..Len(eng)
  BY <1>1 DEF A!AtMost
<1>3. Cardinality(heard) \in Nat
  <2>1. IsFiniteSet(1..to)
    BY <1>2, FS_Interval
  <2>2. heard \subseteq 1..to
    BY <1>2
  <2>3. IsFiniteSet(heard)
    BY <2>1, <2>2, FS_Subset
  <2> QED BY <2>3, FS_CardinalityType
<1>4. /\ A!Window(eng, 0, PulseWindow, new) = [agg |-> A!Added(eng, 0, to, new), hits |-> Cardinality(heard)]
      /\ A!Window(eng, 0, PulseWindow, old) = [agg |-> A!Added(eng, 0, to, old), hits |-> Cardinality(heard)]
  <2>1. A!Cardinality(heard) = Cardinality(heard)
    BY DEF Cardinality, A!Cardinality
  <2> QED BY <2>1 DEF A!Window
<1> HIDE DEF to, heard
<1>5. /\ A!Added(eng, 0, to, new) \in Int /\ A!Added(eng, 0, to, old) \in Int
      /\ A!Added(eng, 0, to, new) <= A!Added(eng, 0, to, old)
  BY <1>2, AddedLess
<1> QED BY <1>3, <1>4, <1>5

(* Quotients, rounded towards zero, keep the order of the numbers.         *)
LEMMA QuotientLess ==
  ASSUME NEW a \in Nat, NEW c \in Nat, a <= c, NEW b \in Nat \ {0}
  PROVE  a \div b \in Nat /\ c \div b \in Nat /\ a \div b <= c \div b
<1>1. /\ a \div b \in Nat /\ a % b \in 0..(b - 1) /\ a = b * (a \div b) + (a % b)
      /\ c \div b \in Nat /\ c % b \in 0..(b - 1) /\ c = b * (c \div b) + (c % b)
  OBVIOUS
<1>2. ASSUME NEW p \in Nat, NEW q \in Nat, NEW r \in 0..(b - 1), NEW s \in 0..(b - 1),
             b * p + r <= b * q + s, ~(p <= q)
      PROVE  FALSE
  <2>1. PICK d \in Nat : p = q + 1 + d
    <3>1. p - q - 1 \in Nat
      BY <1>2
    <3> QED BY <3>1
  <2>2. b * p = b * q + b + b * d /\ b * d \in Nat /\ b * q \in Nat
    BY <2>1
  <2> QED BY <1>2, <2>2
<1> QED BY <1>1, <1>2

LEMMA TruncLess ==
  ASSUME NEW a \in Int, NEW c \in Int, a <= c, NEW b \in Nat \ {0}
  PROVE  A!Trunc(a, b) \in Int /\ A!Trunc(c, b) \in Int /\ A!Trunc(a, b) <= A!Trunc(c, b)
<1>1. CASE a >= 0
  BY <1>1, QuotientLess DEF A!Trunc
<1>2. CASE a < 0 /\ c >= 0
  <2>1. -a \in Nat /\ c \in Nat
    BY <1>2
  <2>2. (-a) \div b \in Nat /\ c \div b \in Nat
    BY <2>1, QuotientLess
  <2> QED BY <1>2, <2>2 DEF A!Trunc
<1>3. CASE c < 0
  <2>1. -a \in Nat /\ -c \in Nat /\ -c <= -a
    BY <1>3
  <2>2. (-a) \div b \in Nat /\ (-c) \div b \in Nat /\ (-c) \div b <= (-a) \div b
    BY <2>1, QuotientLess
  <2>3. A!Trunc(a, b) = -((-a) \div b) /\ A!Trunc(c, b) = -((-c) \div b)
    BY <1>3 DEF A!Trunc
  <2> QED BY <2>2, <2>3
<1> QED BY <1>1, <1>2, <1>3

(* A worse window has no higher level, and what agitates stays so.         *)
LEMMA LevelLess ==
  ASSUME NEW eng \in Seq(Engagement), NEW new, NEW old, MoodTable(new), MoodTable(old), Worse(new, old)
  PROVE  /\ A!PulseOf(eng, new) \in Int /\ A!PulseOf(eng, old) \in Int
         /\ A!PulseOf(eng, new) <= A!PulseOf(eng, old)
<1> DEFINE v == A!Window(eng, 0, PulseWindow, new)
           w == A!Window(eng, 0, PulseWindow, old)
<1>1. v.hits = w.hits /\ w.hits \in Nat /\ v.agg \in Int /\ w.agg \in Int /\ v.agg <= w.agg
  BY WindowLess
<1>2. A!PulseOf(eng, new) = A!Level(v) /\ A!PulseOf(eng, old) = A!Level(w)
  BY DEF A!PulseOf
<1> HIDE DEF v, w
<1>3. CASE w.hits = 0
  BY <1>1, <1>2, <1>3 DEF A!Level
<1>4. CASE w.hits # 0
  <2>1. /\ 20 * w.hits \in Nat \ {0} /\ v.agg + 1000 * w.hits \in Int /\ w.agg + 1000 * w.hits \in Int
        /\ v.agg + 1000 * w.hits <= w.agg + 1000 * w.hits
    BY <1>1, <1>4
  <2>2. /\ A!Level(v) = A!Trunc(v.agg + 1000 * w.hits, 20 * w.hits)
        /\ A!Level(w) = A!Trunc(w.agg + 1000 * w.hits, 20 * w.hits)
    BY <1>1, <1>4 DEF A!Level
  <2> DEFINE a == v.agg + 1000 * w.hits
             c == w.agg + 1000 * w.hits
             b == 20 * w.hits
  <2> HIDE DEF a, b, c
  <2>3. a \in Int /\ c \in Int /\ b \in Nat \ {0} /\ a <= c
    BY <2>1 DEF a, b, c
  <2>4. A!Trunc(a, b) \in Int /\ A!Trunc(c, b) \in Int /\ A!Trunc(a, b) <= A!Trunc(c, b)
    BY <2>3, TruncLess
  <2> QED BY <1>2, <2>2, <2>4 DEF a, b, c
<1> QED BY <1>3, <1>4

(* Time and silence, and a breach of the SLA, keep the order of pulses.    *)
LEMMA DecayedLess ==
  ASSUME NEW p \in Int, NEW q \in Int, p <= q, NEW last \in Int, NEW per \in {1, 2, 3}
  PROVE  A!Decayed(p, last, per) <= A!Decayed(q, last, per)
<1>1. CASE ~A!Past(last, 14)
  BY <1>1 DEF A!Decayed
<1>2. CASE A!Past(last, 14)
  <2> DEFINE d == last - 14
             Faded(x) == 50 + (IF d >= 46 THEN 0 ELSE A!Trunc((x - 50) * (46 - d), 46))
  <2>1. d \in Nat /\ d \div per \in Nat
    BY <1>2 DEF A!Past
  <2>2. Faded(p) \in Int /\ Faded(q) \in Int /\ Faded(p) <= Faded(q)
    <3>1. CASE d >= 46
      BY <3>1
    <3>2. CASE ~(d >= 46)
      <4>1. PICK m \in Nat : m = 46 - d
        BY <2>1, <3>2
      <4>2. (p - 50) * m \in Int /\ (q - 50) * m \in Int /\ (p - 50) * m <= (q - 50) * m
        <5>1. PICK n \in Nat : q - 50 = (p - 50) + n
          <6>1. q - p \in Nat
            OBVIOUS
          <6> QED BY <6>1
        <5>2. (q - 50) * m = (p - 50) * m + n * m /\ n * m \in Nat
          BY <5>1
        <5> QED BY <5>2
      <4>3. /\ A!Trunc((p - 50) * m, 46) \in Int /\ A!Trunc((q - 50) * m, 46) \in Int
            /\ A!Trunc((p - 50) * m, 46) <= A!Trunc((q - 50) * m, 46)
        <5> DEFINE a == (p - 50) * m
                   c == (q - 50) * m
        <5> HIDE DEF a, c
        <5>1. a \in Int /\ c \in Int /\ a <= c
          BY <4>2 DEF a, c
        <5>2. A!Trunc(a, 46) \in Int /\ A!Trunc(c, 46) \in Int /\ A!Trunc(a, 46) <= A!Trunc(c, 46)
          BY <5>1, TruncLess
        <5> QED BY <5>2 DEF a, c
      <4> QED BY <3>2, <4>1, <4>3
    <3> QED BY <3>1, <3>2
  <2>3. \A x : A!Decayed(x, last, per) = A!AtLeast(Faded(x) - d \div per, 10)
    BY <1>2 DEF A!Decayed
  <2> HIDE DEF d, Faded
  <2> QED BY <2>1, <2>2, <2>3 DEF A!AtLeast
<1> QED BY <1>1, <1>2

(* The SLA: at one moment a worse pulse stays worse; later it may be       *)
(* raised to the floor of the first limit, or by what the first limit took *)
(* and the second has not yet.                                             *)
LEMMA BreachedLess ==
  ASSUME NEW p \in Int, NEW q \in Int, p <= q, NEW idle \in Int, NEW later \in Int, later >= idle
  PROVE  LET before == A!Breached(q, idle, A!Defaults)
             after == A!Breached(p, later, A!Defaults)
         IN  /\ A!Breached(p, idle, A!Defaults) <= before
             /\ idle \in 11..40 => after <= before + 15
             /\ idle \notin 11..40 => after <= before \/ after <= 20
<1>1. A!Defaults.slaWarning = 40 /\ A!Defaults.slaHealthy = 10
  BY DEF A!Defaults
<1> QED BY <1>1 DEF A!Breached, A!AtLeast

(* The status of a ticket says which limits it has missed.                 *)
LEMMA WarningWhen ==
  ASSUME NEW idle \in Int
  PROVE  A!First(<< <<idle > A!Defaults.slaWarning, "critical">>, <<idle > A!Defaults.slaHealthy, "warning">>,
                    <<TRUE, "healthy">> >>) = "warning" <=> idle \in 11..40
<1> DEFINE rules == << <<idle > A!Defaults.slaWarning, "critical">>, <<idle > A!Defaults.slaHealthy, "warning">>,
                       <<TRUE, "healthy">> >>
           Chosen(i) == i \in 1..3 /\ rules[i][1] /\ \A k \in 1..(i - 1) : ~rules[k][1]
<1>1. A!First(rules) = rules[CHOOSE i : Chosen(i)][2]
  <2>1. DOMAIN rules = 1..3
    OBVIOUS
  <2> QED BY <2>1 DEF A!First
<1>2. /\ rules[1][1] = (idle > 40) /\ rules[2][1] = (idle > 10) /\ rules[3][1] = TRUE
      /\ rules[1][2] = "critical" /\ rules[2][2] = "warning" /\ rules[3][2] = "healthy"
  BY DEF A!Defaults
<1> HIDE DEF rules
<1>3. \E i : Chosen(i)
  <2>1. CASE rules[1][1]
    BY <2>1
  <2>2. CASE ~rules[1][1] /\ rules[2][1]
    <3>1. Chosen(2)
      BY <2>2
    <3> QED BY <3>1
  <2>3. CASE ~rules[1][1] /\ ~rules[2][1]
    <3>1. Chosen(3)
      BY <1>2, <2>3
    <3> QED BY <3>1
  <2> QED BY <2>1, <2>2, <2>3
<1>4. PICK c : c = (CHOOSE i : Chosen(i)) /\ Chosen(c)
  BY <1>3
<1>5. c = 1 \/ c = 2 \/ c = 3
  BY <1>4
<1>6. c = 2 => idle \in 11..40
  <2>1. ASSUME c = 2 PROVE rules[2][1] /\ ~rules[1][1]
    <3>1. Chosen(2)
      BY <1>4, <2>1
    <3>2. 1 \in 1..(2 - 1)
      OBVIOUS
    <3> QED BY <3>1, <3>2
  <2> QED BY <1>2, <2>1
<1>7. idle \in 11..40 => c = 2
  <2>1. ASSUME c = 1 PROVE idle > 40
    <3>1. Chosen(1)
      BY <1>4, <2>1
    <3> QED BY <1>2, <3>1
  <2>2. ASSUME c = 3 PROVE ~(idle > 10)
    <3>1. Chosen(3)
      BY <1>4, <2>2
    <3>2. 2 \in 1..(3 - 1)
      OBVIOUS
    <3>3. ~rules[2][1]
      BY <3>1, <3>2
    <3> QED BY <1>2, <3>3
  <2> QED BY <1>5, <2>1, <2>2
<1>8. A!First(rules) = rules[c][2]
  BY <1>1, <1>4
<1>9. A!First(rules) = "warning" <=> idle \in 11..40
  BY <1>2, <1>5, <1>6, <1>7, <1>8
<1> QED BY <1>9 DEF rules

(* A ticket is critical when its priority is high or the customer is       *)
(* agitated, and else never.                                               *)
LEMMA CriticalWhen ==
  ASSUME NEW t, NEW agitated \in BOOLEAN
  PROVE  A!Urgency(t, agitated) = "Critical" <=> t.priority = "HIGH" \/ agitated
<1> DEFINE rules == << <<t.priority = "HIGH" \/ agitated, "Critical">>,
                       <<t.priority = "MEDIUM", "Moderate">>, <<TRUE, "Low">> >>
           Chosen(i) == i \in 1..3 /\ rules[i][1] /\ \A k \in 1..(i - 1) : ~rules[k][1]
<1>1. A!Urgency(t, agitated) = A!First(rules) /\ DOMAIN rules = 1..3
  BY DEF A!Urgency
<1>2. /\ rules[1][1] = (t.priority = "HIGH" \/ agitated) /\ rules[2][1] = (t.priority = "MEDIUM")
      /\ rules[3][1] = TRUE
      /\ rules[1][2] = "Critical" /\ rules[2][2] = "Moderate" /\ rules[3][2] = "Low"
  OBVIOUS
<1>3. A!First(rules) = rules[CHOOSE i : Chosen(i)][2]
  BY <1>1 DEF A!First
<1> HIDE DEF rules
<1>4. \E i : Chosen(i)
  <2>1. CASE rules[1][1]
    BY <2>1
  <2>2. CASE ~rules[1][1] /\ rules[2][1]
    <3>1. Chosen(2)
      BY <2>2
    <3> QED BY <3>1
  <2>3. CASE ~rules[1][1] /\ ~rules[2][1]
    <3>1. Chosen(3)
      BY <1>2, <2>3
    <3> QED BY <3>1
  <2> QED BY <2>1, <2>2, <2>3
<1>5. PICK c : c = (CHOOSE i : Chosen(i)) /\ Chosen(c)
  BY <1>4
<1>6. c = 1 \/ c = 2 \/ c = 3
  BY <1>5
<1>7. rules[1][1] => c = 1
  BY <1>5, <1>6
<1>8. c = 1 => rules[1][1]
  BY <1>5
<1> QED BY <1>1, <1>2, <1>3, <1>5, <1>6, <1>7, <1>8

(* The parts an object is analysed from: its properties, aged, and what was *)
(* said.                                                                   *)
Prepared(raw, time) == [f \in DOMAIN raw \cup {"eng"} |->
                          CASE f = "props" -> A!Aged(raw.props, time \div A!Day)
                            [] f = "eng" -> A!Engagements(raw) [] OTHER -> raw[f]]

LEMMA PreparedFor ==
  ASSUME NEW raw \in Objects, NEW time \in Nat, NEW moods
  PROVE  LET o == Prepared(raw, time) IN
         /\ o.kind = raw.kind /\ o.eng = A!Engagements(raw) /\ o.props = A!Aged(raw.props, time \div A!Day)
         /\ o.slack = raw.slack /\ o.eng \in Seq(Engagement) /\ A!LastActivity(o.eng, time) \in Int
         /\ A!AnalyzePolymorphic(raw, moods, time) =
               CASE o.kind = "contact" -> A!AnalyzeContact(o, A!Defaults, moods, time)
                 [] o.kind = "company" -> A!AnalyzeCompany(o, A!Defaults, moods, time)
                 [] o.kind = "deal" -> A!AnalyzeDeal(o, A!Defaults, moods, time)
                 [] o.kind = "ticket" -> A!AnalyzeTicket(o, A!Defaults, moods, time)
                 [] o.kind = "conversation" -> A!AnalyzeConversation(o, moods)
                 [] o.kind = "task" -> A!AnalyzeTask(o)
                 [] o.kind = "lead" -> A!AnalyzeLead(o, A!Defaults)
                 [] o.kind = "appointment" -> A!AnalyzeAppointment(o)
<1>1. "kind" \in DOMAIN raw /\ "props" \in DOMAIN raw /\ "slack" \in DOMAIN raw
  BY DayAssumption DEF ObjectsTyped
<1>2. Prepared(raw, time).eng = A!Engagements(raw)
  BY DEF Prepared
<1> QED BY <1>1, <1>2, EngagementsTyped, LastActivityIsADay DEF Prepared, A!AnalyzePolymorphic

(* Silence: on one day of it, a worse table shows no higher pulse.         *)
LEMMA SilentLess ==
  ASSUME NEW raw \in Objects, raw.kind \in {"contact", "company", "deal"}, NEW time \in Nat, NEW later \in Nat,
         A!LastActivity(A!Engagements(raw), later) = A!LastActivity(A!Engagements(raw), time),
         NEW new, NEW old, MoodTable(new), MoodTable(old), Worse(new, old)
  PROVE  A!AnalyzePolymorphic(raw, new, later).pulse <= A!AnalyzePolymorphic(raw, old, time).pulse
<1> DEFINE eng == A!Engagements(raw)
           last == A!LastActivity(eng, time)
           per == CASE raw.kind = "contact" -> 3 [] raw.kind = "company" -> 2 [] OTHER -> 1
<1>1. eng \in Seq(Engagement) /\ last \in Int
  BY PreparedFor, EngagementsTyped, LastActivityIsADay
<1>2. ASSUME NEW moods, NEW now \in Nat, A!LastActivity(eng, now) = last
      PROVE  A!AnalyzePolymorphic(raw, moods, now).pulse = A!Decayed(A!PulseOf(eng, moods), last, per)
  <2> DEFINE o == Prepared(raw, now)
  <2>1. o.kind = raw.kind /\ o.eng = eng
    BY PreparedFor
  <2> HIDE DEF o, eng
  <2>2. CASE raw.kind = "contact"
    <3>1. A!AnalyzePolymorphic(raw, moods, now) = A!AnalyzeContact(o, A!Defaults, moods, now)
      BY <2>1, <2>2, PreparedFor DEF o
    <3> QED BY <1>2, <2>1, <2>2, <3>1 DEF A!AnalyzeContact
  <2>3. CASE raw.kind = "company"
    <3>1. A!AnalyzePolymorphic(raw, moods, now) = A!AnalyzeCompany(o, A!Defaults, moods, now)
      BY <2>1, <2>3, PreparedFor DEF o
    <3>2. A!AnalyzeCompany(o, A!Defaults, moods, now).pulse = A!Decayed(A!PulseOf(o.eng, moods), A!LastActivity(o.eng, now), 2)
      BY DEF A!AnalyzeCompany
    <3> QED BY <1>2, <2>1, <2>3, <3>1, <3>2
  <2>4. CASE raw.kind = "deal"
    <3>1. A!AnalyzePolymorphic(raw, moods, now) = A!AnalyzeDeal(o, A!Defaults, moods, now)
      BY <2>1, <2>4, PreparedFor DEF o
    <3> QED BY <1>2, <2>1, <2>4, <3>1 DEF A!AnalyzeDeal
  <2> QED BY <2>2, <2>3, <2>4
<1>3. /\ A!PulseOf(eng, new) \in Int /\ A!PulseOf(eng, old) \in Int /\ A!PulseOf(eng, new) <= A!PulseOf(eng, old)
  BY <1>1, LevelLess
<1>4. per \in {1, 2, 3}
  OBVIOUS
<1> HIDE DEF per, last
<1>5. A!Decayed(A!PulseOf(eng, new), last, per) <= A!Decayed(A!PulseOf(eng, old), last, per)
  BY <1>1, <1>3, <1>4, DecayedLess
<1> QED BY <1>2, <1>5 DEF last

\* How long a ticket has been idle.
IdleOf(raw, time) ==
  LET o == Prepared(raw, time)
      age == IF o.props.created = A!None THEN 0 ELSE o.props.created
  IN  IF A!Dated(o.eng) = {} THEN A!Day * age ELSE A!Idle(o.eng, time)

(* A ticket grows idle with the time.                                      *)
LEMMA IdleGrows ==
  ASSUME NEW raw \in Objects, raw.kind = "ticket", NEW time \in Nat, NEW later \in Nat, later >= time
  PROVE  IdleOf(raw, time) \in Int /\ IdleOf(raw, later) \in Int /\ IdleOf(raw, later) >= IdleOf(raw, time)
<1> DEFINE eng == A!Engagements(raw)
           created == raw.props.created
           Age(now) == IF created = -1000 THEN 0 ELSE created + now \div 240
<1>1. "created" \in DOMAIN raw.props /\ created \in Nat \cup {-1000}
  BY DayAssumption DEF ObjectsTyped, A!None
<1>2. ASSUME NEW now \in Nat
      PROVE  IdleOf(raw, now) = IF A!Dated(eng) = {} THEN 240 * Age(now) ELSE A!Idle(eng, now)
  <2> DEFINE o == Prepared(raw, now)
  <2>1. o.eng = eng /\ o.props = A!Aged(raw.props, now \div 240)
    BY PreparedFor DEF A!Day
  <2>2. o.props.created = IF created = -1000 THEN -1000 ELSE created + now \div 240
    BY <1>1, <2>1 DEF A!Aged, A!None
  <2>3. now \div 240 \in Nat
    OBVIOUS
  <2>4. (IF o.props.created = -1000 THEN 0 ELSE o.props.created) = Age(now)
    <3> HIDE DEF o, created
    <3> QED BY <1>1, <2>2, <2>3
  <2> HIDE DEF o, eng, Age
  <2> QED BY <2>1, <2>4 DEF IdleOf, A!None, A!Day, o
<1>3. ASSUME NEW now \in Nat PROVE now \div 240 \in Nat
  OBVIOUS
<1>4. time \div 240 <= later \div 240
  BY QuotientLess
<1>5. eng \in Seq(Engagement)
  BY EngagementsTyped
<1> HIDE DEF eng, created
<1>6. CASE A!Dated(eng) = {}
  BY <1>1, <1>2, <1>3, <1>4, <1>6
<1>7. CASE A!Dated(eng) # {}
  <2>1. A!Latest(eng) \in Int
    BY <1>5, <1>7, LatestIsANumber
  <2>2. A!Idle(eng, time) = time + A!Latest(eng) /\ A!Idle(eng, later) = later + A!Latest(eng)
    BY <1>7 DEF A!Idle
  <2> QED BY <1>2, <1>7, <2>1, <2>2
<1> QED BY <1>6, <1>7

(* A ticket: a worse table shows no higher pulse at the same moment, later *)
(* one that is higher by the steps of the SLA at most, and no return from  *)
(* critical.                                                               *)
LEMMA TicketLess ==
  ASSUME NEW raw \in Objects, raw.kind = "ticket", NEW time \in Nat, NEW later \in Nat, later >= time,
         NEW new, NEW old, MoodTable(new), MoodTable(old), Worse(new, old)
  PROVE  LET after == A!AnalyzePolymorphic(raw, new, later)
             before == A!AnalyzePolymorphic(raw, old, time)
         IN  /\ later = time => after.pulse <= before.pulse
             /\ after.pulse <= IF before.status = "warning" THEN before.pulse + 15 ELSE A!AtLeast(before.pulse, 20)
             /\ before.urgency = "Critical" => after.urgency = "Critical"
<1> DEFINE eng == A!Engagements(raw)
           Agitated(w) == w.hits > 0 /\ w.agg < -400 * w.hits
           v == A!Window(eng, 0, PulseWindow, new)
           w == A!Window(eng, 0, PulseWindow, old)
           Rules(idle) == << <<idle > A!Defaults.slaWarning, "critical">>, <<idle > A!Defaults.slaHealthy, "warning">>,
                             <<TRUE, "healthy">> >>
<1>1. eng \in Seq(Engagement)
  BY EngagementsTyped
<1>2. ASSUME NEW now \in Nat, NEW moods
      PROVE  LET out == A!AnalyzePolymorphic(raw, moods, now) IN
             /\ out.pulse = IF eng = <<>> THEN 50 ELSE A!Breached(A!PulseOf(eng, moods), IdleOf(raw, now), A!Defaults)
             /\ out.status = A!First(Rules(IdleOf(raw, now)))
             /\ out.urgency = A!Urgency(A!Aged(raw.props, now \div A!Day), Agitated(A!Window(eng, 0, PulseWindow, moods)) /\ raw.slack)
  <2> DEFINE o == Prepared(raw, now)
  <2>1. o.kind = raw.kind /\ o.eng = eng /\ o.props = A!Aged(raw.props, now \div A!Day) /\ o.slack = raw.slack
    BY PreparedFor
  <2>2. A!AnalyzePolymorphic(raw, moods, now) = A!AnalyzeTicket(o, A!Defaults, moods, now)
    BY <2>1, PreparedFor
  <2> HIDE DEF eng
  <2>3. /\ A!AnalyzeTicket(o, A!Defaults, moods, now).pulse =
             IF o.eng = <<>> THEN 50 ELSE A!Breached(A!PulseOf(o.eng, moods), IdleOf(raw, now), A!Defaults)
        /\ A!AnalyzeTicket(o, A!Defaults, moods, now).status = A!First(Rules(IdleOf(raw, now)))
        /\ A!AnalyzeTicket(o, A!Defaults, moods, now).urgency =
             A!Urgency(o.props, Agitated(A!Window(o.eng, 0, PulseWindow, moods)) /\ o.slack)
    BY DEF A!AnalyzeTicket, A!PulseOf, IdleOf
  <2> QED BY <2>1, <2>2, <2>3
<1>3. /\ A!PulseOf(eng, new) \in Int /\ A!PulseOf(eng, old) \in Int /\ A!PulseOf(eng, new) <= A!PulseOf(eng, old)
  BY <1>1, LevelLess
<1>4. v.hits = w.hits /\ w.hits \in Nat /\ v.agg \in Int /\ w.agg \in Int /\ v.agg <= w.agg
  BY <1>1, WindowLess
<1>5. Agitated(w) => Agitated(v)
  <2> HIDE DEF v, w
  <2> QED BY <1>4
<1>6. IdleOf(raw, time) \in Int /\ IdleOf(raw, later) \in Int /\ IdleOf(raw, later) >= IdleOf(raw, time)
  BY IdleGrows
<1> DEFINE before == A!AnalyzePolymorphic(raw, old, time)
           after == A!AnalyzePolymorphic(raw, new, later)
           idle == IdleOf(raw, time)
<1> HIDE DEF Agitated, v, w, eng
<1>7. before.status = "warning" <=> idle \in 11..40
  BY <1>2, <1>6, WarningWhen
<1>8. \A now \in Nat : A!Aged(raw.props, now \div A!Day).priority = raw.props.priority
  BY DayAssumption DEF ObjectsTyped, A!Aged
<1>9. before.urgency = "Critical" => after.urgency = "Critical"
  <2>1. /\ before.urgency = A!Urgency(A!Aged(raw.props, time \div A!Day), Agitated(w) /\ raw.slack)
        /\ after.urgency = A!Urgency(A!Aged(raw.props, later \div A!Day), Agitated(v) /\ raw.slack)
    BY <1>2 DEF v, w
  <2>2. /\ before.urgency = "Critical" <=> raw.props.priority = "HIGH" \/ (Agitated(w) /\ raw.slack)
        /\ after.urgency = "Critical" <=> raw.props.priority = "HIGH" \/ (Agitated(v) /\ raw.slack)
    BY <1>8, <2>1, CriticalWhen
  <2> QED BY <1>5, <2>2
<1>10. CASE eng = <<>>
  <2>1. before.pulse = 50 /\ after.pulse = 50
    BY <1>2, <1>10
  <2> HIDE DEF before, after
  <2> QED BY <1>9, <2>1 DEF A!AtLeast, before, after
<1>11. CASE eng # <<>>
  <2> DEFINE p == A!PulseOf(eng, new)
             q == A!PulseOf(eng, old)
             old_ == A!Breached(q, idle, A!Defaults)
             new_ == A!Breached(p, IdleOf(raw, later), A!Defaults)
  <2>1. before.pulse = old_ /\ after.pulse = new_
    BY <1>2, <1>11
  <2> HIDE DEF p, q
  <2>2. /\ A!Breached(p, idle, A!Defaults) <= old_
        /\ idle \in 11..40 => new_ <= old_ + 15
        /\ idle \notin 11..40 => new_ <= old_ \/ new_ <= 20
    BY <1>3, <1>6, BreachedLess DEF p, q
  <2>3. old_ \in Int /\ new_ \in Int
    BY <1>3, <1>6 DEF p, q, A!Breached, A!AtLeast, A!Defaults
  <2>4. later = time => new_ <= old_
    BY <2>2
  <2> HIDE DEF old_, new_, before, after
  <2>5. after.pulse <= IF before.status = "warning" THEN before.pulse + 15 ELSE A!AtLeast(before.pulse, 20)
    BY <1>7, <2>1, <2>2, <2>3 DEF A!AtLeast
  <2> QED BY <1>9, <2>1, <2>4, <2>5 DEF before, after
<1> QED BY <1>10, <1>11

(* The other kinds always show the same pulse.                             *)
LEMMA OthersLevel ==
  ASSUME NEW raw \in Objects, raw.kind \in {"conversation", "task", "lead", "appointment"}, NEW time \in Nat, NEW moods
  PROVE  A!AnalyzePolymorphic(raw, moods, time).pulse = 50
<1> DEFINE o == Prepared(raw, time)
<1>1. o.kind = raw.kind
  BY PreparedFor
<1> HIDE DEF o
<1>2. CASE raw.kind = "conversation"
  <2>1. A!AnalyzePolymorphic(raw, moods, time) = A!AnalyzeConversation(o, moods)
    BY <1>1, <1>2, PreparedFor DEF o
  <2>2. A!AnalyzeConversation(o, moods).pulse = 50
    BY DEF A!AnalyzeConversation
  <2> QED BY <2>1, <2>2
<1>3. CASE raw.kind = "task"
  <2>1. A!AnalyzePolymorphic(raw, moods, time) = A!AnalyzeTask(o)
    BY <1>1, <1>3, PreparedFor DEF o
  <2> QED BY <2>1 DEF A!AnalyzeTask
<1>4. CASE raw.kind = "lead"
  <2>1. A!AnalyzePolymorphic(raw, moods, time) = A!AnalyzeLead(o, A!Defaults)
    BY <1>1, <1>4, PreparedFor DEF o
  <2>2. A!AnalyzeLead(o, A!Defaults).pulse = 50
    BY DEF A!AnalyzeLead
  <2> QED BY <2>1, <2>2
<1>5. CASE raw.kind = "appointment"
  <2>1. A!AnalyzePolymorphic(raw, moods, time) = A!AnalyzeAppointment(o)
    BY <1>1, <1>5, PreparedFor DEF o
  <2> QED BY <2>1 DEF A!AnalyzeAppointment
<1> QED BY <1>2, <1>3, <1>4, <1>5

(* What is shown is the analysis of the object with the table of then.     *)
Analysed(s) ==
  /\ s.at \in Nat /\ MoodTable(s.seen)
  /\ s.last = A!LastActivity(A!Engagements(object), s.at)
  /\ s.out = A!AnalyzePolymorphic(object, s.seen, s.at)

(* When the sentiment of a text turns out to be bad news, the card shown   *)
(* next is not a better one, up to the steps of a ticket's SLA, for any    *)
(* objects of the shape that HubSpot's answers have, any texts and any     *)
(* moods (AIService's analyzers).                                          *)
THEOREM BadNewsHelpsNever == Spec => BadNewsNeverHelps
<1> DEFINE Inv == /\ object \in Objects /\ waited \in Nat /\ MoodTable(known) /\ shown.at <= waited
                  /\ shown = A!NotShown \/ Analysed(shown)
<1>1. Init => Inv
  <2> SUFFICES ASSUME Init PROVE Inv
    OBVIOUS
  <2>1. MoodTable(<<>>)
    BY DEF MoodTable
  <2>2. shown = A!NotShown /\ waited = 0 /\ known = <<>> /\ object \in Objects
    <3>1. A!AnalysisInit
      BY DEF Init
    <3> QED BY <3>1 DEF A!AnalysisInit
  <2>3. A!NotShown.at = 0
    BY DEF A!NotShown
  <2> QED BY <2>1, <2>2, <2>3
<1>2. ASSUME Inv, A!AnalysisNext
      PROVE  /\ object' = object /\ waited' \in Nat /\ waited <= waited' /\ MoodTable(known')
             /\ shown' = shown \/ (Analysed(shown') /\ shown'.at = waited /\ waited' = waited)
  <2>1. CASE A!Analyse
    <3>1. PICK seen \in {known, <<>>} :
            shown' = [at |-> waited, seen |-> seen, last |-> A!LastActivity(A!Engagements(object), waited),
                      out |-> A!AnalyzePolymorphic(object, seen, waited)]
      BY <2>1 DEF A!Analyse
    <3>2. MoodTable(seen)
      BY <1>2 DEF MoodTable
    <3>3. Analysed(shown')
      BY <1>2, <3>1, <3>2 DEF Analysed
    <3> QED BY <1>2, <2>1, <3>1, <3>3 DEF A!Analyse
  <2>2. CASE \E t \in Texts : A!SentimentArrives(t)
    <3>1. PICK t \in Texts : A!SentimentArrives(t)
      BY <2>2
    <3>2. PICK s \in Int : known' = [u \in DOMAIN known \union {t} |-> IF u = t THEN s ELSE known[u]]
      BY <3>1, DayAssumption DEF TextsTyped, A!SentimentArrives
    <3>3. MoodTable(known')
      BY <1>2, <3>1, <3>2 DEF MoodTable
    <3> QED BY <1>2, <2>2, <3>3 DEF A!SentimentArrives
  <2>3. CASE \E t \in Texts : A!SentimentFails(t)
    BY <1>2, <2>3 DEF A!SentimentFails
  <2>4. CASE \E d \in Waits : A!TimePasses(d)
    BY <1>2, <2>4, DayAssumption DEF WaitsTyped, A!TimePasses
  <2> QED BY <1>2, <2>1, <2>2, <2>3, <2>4 DEF A!AnalysisNext
<1>3. ASSUME Inv, [Next]_vars
      PROVE  /\ object' = object /\ waited' \in Nat /\ waited <= waited' /\ MoodTable(known')
             /\ shown' = shown \/ (Analysed(shown') /\ shown'.at = waited /\ waited' = waited)
  <2>1. CASE UNCHANGED analysisVars
    BY <1>3, <2>1 DEF analysisVars
  <2>2. A!AnalysisNext \/ UNCHANGED analysisVars
    BY <1>3 DEF Next, vars, Analysing, Writing, Interaction, Interacting, Keeping
  <2> QED BY <1>2, <1>3, <2>1, <2>2
<1>4. Inv /\ [Next]_vars => Inv'
  <2> SUFFICES ASSUME Inv, [Next]_vars PROVE Inv'
    OBVIOUS
  <2>1. shown.at \in Nat
    <3>1. CASE shown = A!NotShown
      BY <3>1 DEF A!NotShown
    <3>2. CASE Analysed(shown)
      BY <3>2 DEF Analysed
    <3> QED BY <3>1, <3>2
  <2> QED BY <1>3, <2>1 DEF Analysed
<1>5. Inv /\ [Next]_vars => [A!NoBetterCard]_vars
  <2> SUFFICES ASSUME Inv, [Next]_vars, shown # A!NotShown, Worse(shown'.seen, shown.seen)
               PROVE  /\ (IF object.kind = "ticket" THEN shown'.at = shown.at ELSE shown'.last = shown.last)
                           => shown'.out.pulse <= shown.out.pulse
                      /\ object.kind = "ticket" =>
                           shown'.out.pulse <= IF shown.out.status = "warning" THEN shown.out.pulse + 15
                                               ELSE A!AtLeast(shown.out.pulse, 20)
                      /\ object.kind = "ticket" /\ shown.out.urgency = "Critical" => shown'.out.urgency = "Critical"
    BY DEF A!NoBetterCard, Worse, Stored
  <2>1. Analysed(shown) /\ Analysed(shown') /\ shown'.at >= shown.at /\ object' = object
    BY <1>3 DEF Analysed
  <2> DEFINE old == shown.seen
             new == shown'.seen
             time == shown.at
             later == shown'.at
  <2>2. /\ object \in Objects /\ time \in Nat /\ later \in Nat /\ later >= time
        /\ MoodTable(new) /\ MoodTable(old) /\ Worse(new, old)
    BY <2>1 DEF Analysed
  <2>3. /\ shown.last = A!LastActivity(A!Engagements(object), time)
        /\ shown.out = A!AnalyzePolymorphic(object, old, time)
        /\ shown'.last = A!LastActivity(A!Engagements(object), later)
        /\ shown'.out = A!AnalyzePolymorphic(object, new, later)
    BY <2>1 DEF Analysed
  <2>4. object.kind \in Kinds
    BY <2>2, DayAssumption DEF ObjectsTyped
  <2> HIDE DEF old, new, time, later
  <2>5. CASE object.kind \in {"contact", "company", "deal"}
    BY <2>2, <2>3, <2>5, SilentLess
  <2>6. CASE object.kind = "ticket"
    BY <2>2, <2>3, <2>6, TicketLess DEF later, time
  <2>7. CASE object.kind \in {"conversation", "task", "lead", "appointment"}
    <3>1. shown.out.pulse = 50 /\ shown'.out.pulse = 50
      BY <2>2, <2>3, <2>7, OthersLevel
    <3> QED BY <2>7, <3>1
  <2> QED BY <2>4, <2>5, <2>6, <2>7 DEF Kinds
<1> QED BY <1>1, <1>4, <1>5, PTL DEF Spec, BadNewsNeverHelps
====
