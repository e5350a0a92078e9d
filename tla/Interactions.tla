----------------------------- MODULE Interactions -----------------------------
(***************************************************************************)
(* What happens to one Slack interaction (a button, a shortcut, a modal's  *)
(* submission, a suggestion, a slash command): the three seconds of the    *)
(* web request (InteractionService, CommandService), the queue, and the    *)
(* handler the registry finds for it.                                      *)
(*                                                                         *)
(* A handler is a sequence of steps, each with what becomes of its failure *)
(* (its policy):                                                           *)
(*   tell  slack_error_handling or an except of its own tells the user     *)
(*   quiet the failure is logged                                           *)
(*   raise it leaves the handler: the queue delivers again                 *)
(*   dm    as tell, but a message that cannot be sent is raised            *)
(*   via   as tell, but a client that cannot be had for it is raised       *)
(*   where as via, but a form that came from nowhere is told nothing       *)
(*   skip  the handler goes on without it                                  *)
(*   modal the loading modal becomes an error                              *)
(*   email the request is sent by e-mail instead                           *)
(* What can go wrong has a name (a trouble): hubspot and slack, a call     *)
(* fails; answer, HubSpot did it and the answer is lost; rejected, HubSpot *)
(* does not know the property; gone, the record; removed, the integration; *)
(* store, the database; queue, SQS; late, the trigger expires; lapse, the  *)
(* plan changes; slow, a mark expires; crash, a worker dies; nowhere, the  *)
(* form's metadata has neither a response_url nor a channel.               *)
(***************************************************************************)
EXTENDS Integers, Sequences, FiniteSets, SequencesExt

CONSTANTS Instances,   \* instances of the program
          Asks,        \* the interactions looked at: [kind, action, pair, feature]
          Troubles,    \* what can go wrong in a behaviour: a set of sets
          Receives     \* how often the queue delivers a message

VARIABLES ask,     \* the interaction
          at,      \* request, opened, waiting, running, done
          duty,    \* the task handed to the queue or the background
          todo,    \* the steps the handler has left
          here,    \* the instance that works on it
          queued,  \* it came through the queue
          runs,    \* deliveries so far
          view,    \* view_id of an open modal: none, known, or carried by the message
          trigger, \* trigger_id: fresh, used, expired
          modal,   \* what the user sees: none, loading, form, nudge, error
          plan,    \* pro or free
          wrote,   \* times the request has been written down
          told,    \* the user has been told that it failed
          marked,  \* instances that hold the debounce mark of the record
          echoes,  \* instances whose change HubSpot has yet to send a webhook for
          leaked,  \* an instance announced the change it had made itself (history)
          may,     \* the troubles of this behaviour
          faults   \* those met, and what came of them (history)

interactionVars == <<ask, at, duty, todo, here, queued, runs, view, trigger, modal, plan, wrote,
                     told, marked, echoes, leaked, may, faults>>
screen == <<view, trigger, modal>>
effects == <<wrote, marked, echoes>>
course == <<ask, duty, here, queued, runs, plan, leaked, may>>

Under(policy, steps) == [i \in DOMAIN steps |-> [do |-> steps[i], or |-> policy]]

----------------------------------------------------------------------------
(* The handlers.  A submission first.                                      *)
AddNote == Under("skip", <<"contact">>) \o Under("tell", <<"write">>) \o Under("skip", <<"timeline">>)

\* Mutant of AddTask: without slack_error_handling.
AddTaskQuiet == Under("quiet", <<"write", "mark", "attach">>) \o Under("skip", <<"timeline">>)

AddTask == Under("tell", <<"write", "mark", "attach">>) \o Under("skip", <<"timeline">>)

\* Mutant of ScheduleMeeting: a failed association leaves the handler.
ScheduleMeetingRaise == Under("skip", <<"contact">>) \o Under("raise", <<"write", "attach">>)

\* create_meeting associates what it has created.  Title, date and time are
\* there: the form does not submit without them.
ScheduleMeeting == Under("skip", <<"contact">>) \o Under("via", <<"write">>) \o Under("skip", <<"attach">>)
SaveRecap == Under("where", <<"write">>)

UpdateDealType == Under("raise", <<"mark">>) \o Under("tell", <<"write", "card">>)
PostMortem == Under("raise", <<"mark">>) \o Under("tell", <<"write", "note", "card">>)
Calculate == Under("raise", <<"mark">>) \o Under("tell", <<"write", "card">>)
\* HubSpot may not know hs_next_step.
EnforceNextStep == Under("raise", <<"mark">>) \o Under("tell", <<"try", "write", "card">>)
LogNextStep == Under("raise", <<"mark">>) \o Under("tell", <<"try", "write", "card">>)
ReassignOwner == Under("raise", <<"gate">>) \o Under("tell", <<"write">>)

CreateRecord == Under("raise", <<"client">>) \o Under("dm", <<"write", "mark">>)
CreateLead == Under("raise", <<"client">>) \o Under("dm", <<"primary", "write", "mark">>)
CreateTask == Under("raise", <<"client", "write", "attach">>)
RequestSupport == Under("tell", <<"client">>) \o Under("email", <<"contact", "write", "send">>)

----------------------------------------------------------------------------
(* The buttons that change a record.  A debounce mark comes first.         *)
\* Mutant of UpdateDealStage: the mark follows the write.
UpdateDealStageLate == Under("tell", <<"gate", "stage", "write", "mark", "card">>)

UpdateDealStage == Under("tell", <<"gate", "mark", "stage", "write", "card">>)
UpdateCloseDate == Under("tell", <<"gate", "mark", "write", "card">>)
UpdateTaskStatus == Under("tell", <<"mark", "write", "card">>)
UpdateTaskPriority == Under("tell", <<"mark", "write", "card">>)

(* The buttons that open something.  Those of the fast path find a modal   *)
(* open.                                                                   *)
\* Mutant of OpenMeeting: the form is always opened.
OpenMeetingAnew == Under("raise", <<"gate">>) \o Under("tell", <<"open">>)

OpenMeeting == Under("raise", <<"gate", "loading">>) \o Under("tell", <<"show">>)
OpenAddNote == Under("raise", <<"gate">>) \o Under("tell", <<"show">>)
OpenAddTask == Under("tell", <<"show">>)
OpenRecap == Under("raise", <<"gate", "loading">>) \o Under("modal", <<"read", "show">>)
OpenReply == Under("tell", <<"gate", "modal", "read", "show">>)
OpenDealType == Under("raise", <<"gate", "loading">>) \o Under("quiet", <<"read", "show">>)
OpenCalculator == Under("raise", <<"gate", "loading">>) \o Under("tell", <<"object", "show">>)
OpenNextStep == Under("raise", <<"gate", "loading">>) \o Under("quiet", <<"show">>)
OpenReassign == Under("raise", <<"loading">>) \o Under("tell", <<"choices", "show">>)
OpenSupport == Under("raise", <<"modal", "show">>)
ViewObject == Under("tell", <<"object", "loading", "read", "show">>)
ViewInChannel == Under("tell", <<"object", "loading", "read", "list", "thread">>)
ViewDeals == Under("tell", <<"loading", "associated", "list">>)
ViewCompany == Under("tell", <<"loading", "associated", "list">>)
ViewContacts == Under("tell", <<"loading", "associated", "list">>)
ViewMeetings == Under("tell", <<"loading", "meetings", "list">>)
SelectObject == Under("tell", <<"modal", "choices", "show">>)
PostToChannel == Under("tell", <<"gate", "object", "read", "thread">>)
GatedClick == Under("tell", <<"nudge">>)
ConfirmDisconnect == Under("tell", <<"read", "open">>)
UninstallAll == Under("tell", <<"client">>) \o Under("skip", <<"show">>) \o Under("tell", <<"uninstall">>)
UninstallHubSpot == Under("tell", <<"uninstall", "show">>)

\* The queue's other tasks.
UpgradeNudge == Under("quiet", <<"nudge">>)
ChooseType == Under("quiet", <<"client", "gate", "show">>)
Report == Under("quiet", <<"report">>)
SearchAndSend == Under("raise", <<"search", "thread">>)

\* The callback ids of the forms a user submits.
Submissions == {"add_note_modal", "add_task_modal", "schedule_meeting_modal", "record_recap_submission_modal",
   "update_deal_type_modal", "post_mortem_submission", "calculator_submission", "next_step_enforcement_submission",
   "log_next_step_submission", "reassign_owner_submission", "create_contact", "create_lead", "create_task",
   "support_ticket_submission"}

\* InteractionRegistry: the action ids and callback ids
Handler ==
  [add_note_modal |-> AddNote, add_task_modal |-> AddTask, schedule_meeting_modal |-> ScheduleMeeting,
   record_recap_submission_modal |-> SaveRecap, update_deal_type_modal |-> UpdateDealType,
   post_mortem_submission |-> PostMortem, calculator_submission |-> Calculate,
   next_step_enforcement_submission |-> EnforceNextStep, log_next_step_submission |-> LogNextStep,
   reassign_owner_submission |-> ReassignOwner, create_contact |-> CreateRecord,
   create_lead |-> CreateLead, create_task |-> CreateTask, support_ticket_submission |-> RequestSupport,
   update_deal_stage |-> UpdateDealStage, update_deal_closedate |-> UpdateCloseDate,
   update_task_status |-> UpdateTaskStatus, update_task_priority |-> UpdateTaskPriority,
   open_add_note_modal |-> OpenAddNote, open_add_task_modal |-> OpenAddTask,
   open_schedule_meeting_modal |-> OpenMeeting, open_record_recap_modal |-> OpenRecap,
   ticket_reply |-> OpenReply, open_update_deal_type_modal |-> OpenDealType,
   open_calculator |-> OpenCalculator, log_next_step |-> OpenNextStep, reassign_owner |-> OpenReassign,
   open_support_ticket_modal |-> OpenSupport, view_object |-> ViewObject,
   view_object_channel |-> ViewInChannel, view_deals |-> ViewDeals, view_contact_deals |-> ViewDeals,
   view_company_deals |-> ViewDeals, view_contacts |-> ViewContacts,
   view_contact_company |-> ViewCompany, view_contact_meetings |-> ViewMeetings,
   select_object |-> SelectObject, post_to_channel |-> PostToChannel, gated_feature_click |-> GatedClick,
   confirm_disconnect_hubspot |-> ConfirmDisconnect, execute_universal_uninstall |-> UninstallAll,
   execute_hubspot_only_uninstall |-> UninstallHubSpot, open_in_hubspot |-> <<>>,
   report |-> Report, search |-> SearchAndSend]

\* _ACTION_FEATURE_MAP: the fast path asks for a feature of the plan
Gated == {"open_add_note_modal", "open_add_task_modal", "open_schedule_meeting_modal",
          "open_record_recap_modal", "post_to_channel"}
OpensModal == (Gated \ {"post_to_channel"})
              \cup {"ticket_reply", "view_object", "view_object_channel", "view_deals", "view_contacts",
                    "view_contact_deals", "view_company_deals", "view_contact_company",
                    "view_contact_meetings", "gated_feature_click"}
OpensDirect == {"open_support_ticket_modal", "open_create_digest_modal"}

\* handle_fast_path_action takes a button whose value is a pair; a reply's is the ticket's id
Fast == /\ ask.kind = "actions" /\ ask.action \in OpensModal
        /\ ask.pair \/ ask.action = "ticket_reply"

\* The feature asked for once the loading modal is open.  What a gated button
\* names last need not be one (feature "id").
Asked == IF ask.action = "gated_feature_click" THEN ask.feature ELSE ask.action
NeedsPlan == Asked \in Gated \cup {"deal_stage"}

\* handle_interaction: a gated click of a workspace that has the plan by now
\* becomes the action of the feature, if the feature has one.
Program ==
  CASE duty = "upgrade_nudge" -> UpgradeNudge
    [] duty = "handle_shortcut_modal" -> ChooseType
    [] OTHER ->
       LET action == IF ask.action = "gated_feature_click" /\ plan = "pro" /\ ask.feature \in Gated
                     THEN ask.feature ELSE ask.action
           steps == IF action \in DOMAIN Handler THEN Handler[action] ELSE <<>>
           gates == {i \in DOMAIN steps : steps[i].do = "gate"}
       IN CASE ask.pair -> steps
            [] ~ask.pair /\ gates # {} -> <<steps[CHOOSE i \in gates : TRUE]>>
            [] OTHER -> <<>>

----------------------------------------------------------------------------
(* The request.                                                            *)
Leave(why) == /\ at' = "done" /\ faults' = faults \cup why
              /\ UNCHANGED <<course, todo, told, effects>>

\* No integration for the team: 200 and nothing else.
UnknownTeam == /\ at = "request" /\ "removed" \in may
               /\ Leave({"removed"}) /\ UNCHANGED screen

\* block_suggestion and a command's usage are answered at once; a search that
\* fails suggests nothing.
Suggest == at = "request" /\ ask.kind = "suggestion" /\ Leave({"hubspot"} \cap may) /\ UNCHANGED screen
Usage == at = "request" /\ ask.kind = "usage" /\ Leave({}) /\ UNCHANGED screen

\* The support form and the digest form need no data.
OpenDirect ==
  /\ at = "request" /\ ask.kind = "actions" /\ ask.action \in OpensDirect /\ trigger = "fresh"
  /\ \/ modal' = "form" /\ trigger' = "used" /\ Leave({})
     \/ "slack" \in may /\ Leave({"slack"}) /\ UNCHANGED <<trigger, modal>>
  /\ UNCHANGED view

\* views_open comes before anything that waits for the database.
OpenLoading ==
  /\ at = "request" /\ (Fast \/ ask.kind = "shortcut") /\ trigger # "expired"
  /\ \/ /\ at' = "opened" /\ modal' = "loading" /\ view' = "carried" /\ trigger' = "used"
        /\ UNCHANGED <<course, todo, told, effects, faults>>
     \/ "slack" \in may /\ Leave({"slack"}) /\ UNCHANGED screen
OpenTooLate == /\ at = "request" /\ (Fast \/ ask.kind = "shortcut") /\ trigger = "expired"
               /\ Leave({}) /\ UNCHANGED screen

\* SQS, or a background task of this process when publishing fails.
HandOver(task) ==
  /\ at' = "waiting" /\ duty' = task
  /\ queued' \in (IF "queue" \in may THEN {FALSE} ELSE {TRUE})
  /\ UNCHANGED <<ask, todo, here, runs, plan, told, leaked, may, faults, effects>>

OfferOpened ==
  /\ at = "opened" /\ UNCHANGED screen
  /\ \/ ask.kind = "shortcut" /\ HandOver("handle_shortcut_modal")
     \/ ask.kind = "actions" /\ HandOver(IF NeedsPlan /\ plan = "free" THEN "upgrade_nudge"
                                         ELSE "handle_interaction")
     \/ ask.kind = "actions" /\ NeedsPlan /\ "store" \in may /\ Leave({"store"})

\* A submission is answered with "clear", whatever becomes of it.
Dispatch ==
  /\ at = "request" /\ ask.kind \in {"actions", "submission"} /\ ~Fast
  /\ ~(ask.action \in OpensDirect /\ trigger = "fresh")
  /\ HandOver("handle_interaction")
  /\ modal' = (IF ask.kind = "submission" THEN "none" ELSE modal)
  /\ UNCHANGED <<view, trigger>>

Command == /\ at = "request" /\ ask.kind = "command"
           /\ HandOver("slack_command") /\ UNCHANGED screen

----------------------------------------------------------------------------
(* The handler.                                                            *)
Start ==
  /\ at = "waiting" /\ at' = "running" /\ todo' = Program /\ runs' = runs + 1
  /\ here' \in (IF queued THEN Instances ELSE {here})
  /\ UNCHANGED <<ask, duty, queued, plan, told, leaked, may, faults, effects, screen>>

\* The worker reads the integration again.
StartWithout == /\ at = "waiting" /\ queued /\ "removed" \in may
                /\ Leave({"removed"}) /\ UNCHANGED screen

Doing(steps) == at = "running" /\ todo # <<>> /\ Head(todo).do \in steps
Go == todo' = Tail(todo) /\ UNCHANGED <<at, told, faults>>
End(why, tells) == /\ at' = "done" /\ todo' = <<>> /\ told' = tells /\ faults' = faults \cup why

\* An exception that leaves the handler: the queue delivers again.
Redeliver(why) ==
  /\ todo' = <<>> /\ view' = (IF view = "carried" THEN view ELSE "none")
  /\ IF queued /\ runs < Receives
     THEN at' = "waiting" /\ faults' = faults \cup why
     ELSE at' = "done" /\ faults' = faults \cup why \cup {"lost"}
  /\ UNCHANGED <<told, trigger, modal>>

\* The step fails, because of why; its policy decides.
Fail(why) ==
  LET policy == Head(todo).or
      nowhere == policy = "where" /\ "nowhere" \in may IN
  \/ /\ policy = "skip" /\ todo' = Tail(todo) /\ faults' = faults \cup why
     /\ UNCHANGED <<at, told, screen>>
  \/ policy = "quiet" /\ End(why, told) /\ UNCHANGED screen
  \/ policy \in {"tell", "dm", "via", "where"} /\ ~nowhere /\ End(why, TRUE) /\ UNCHANGED screen
  \/ /\ policy \in {"tell", "via", "where"} /\ ~nowhere /\ "slack" \in may
     /\ End(why \cup {"slack", "mute"}, told) /\ UNCHANGED screen
  \/ nowhere /\ End(why \cup {"nowhere"}, told) /\ UNCHANGED screen
  \/ policy = "modal" /\ End(why, told) /\ modal' = "error" /\ UNCHANGED <<view, trigger>>
  \/ policy = "raise" /\ Redeliver(why)
  \/ policy \in {"dm", "modal", "via", "where"} /\ ~nowhere /\ "slack" \in may /\ Redeliver(why)
  \/ /\ policy = "email" /\ todo' = Under("tell", <<"email">>) /\ faults' = faults \cup why
     /\ UNCHANGED <<at, told, screen>>

FailIf(trouble) == trouble \in may /\ Fail({trouble}) /\ UNCHANGED <<effects, course>>

\* A call of which only the failure matters here.
Call(step, trouble) == /\ Doing({step})
                       /\ (Go /\ UNCHANGED <<screen, effects, course>>) \/ FailIf(trouble)
ResolveContact == Call("contact", "hubspot")
Attach == Call("attach", "hubspot")
Timeline == Call("timeline", "hubspot")
Read == Call("read", "hubspot")
Associated == Call("associated", "hubspot")
Meetings == Call("meetings", "hubspot")
PickLists == Call("choices", "hubspot")
Search == Call("search", "hubspot")
Reports == Call("report", "hubspot")
Note == Call("note", "hubspot")
Uninstall == Call("uninstall", "hubspot")
GetClient == Call("client", "slack")
Confirm == Call("send", "slack")
JoinThread == Call("thread", "slack")

Object == \/ Call("object", "hubspot")
          \/ /\ Doing({"object"}) /\ "gone" \in may /\ End({"gone"}, told)
             /\ UNCHANGED <<screen, effects, course>>

\* A lead needs a contact or a company.
Primary == \/ Doing({"primary"}) /\ Go /\ UNCHANGED <<screen, effects, course>>
           \/ /\ Doing({"primary"}) /\ {"hubspot", "gone"} \cap may # {} /\ Fail({"hubspot", "gone"} \cap may)
              /\ UNCHANGED <<effects, course>>

Written == wrote' = wrote + 1 /\ echoes' = echoes \cup {here} /\ UNCHANGED marked
Write ==
  /\ Doing({"write", "try", "email"})
  /\ \/ /\ todo' = (IF Head(todo).do = "try" THEN Tail(Tail(todo)) ELSE Tail(todo))
        /\ Written /\ UNCHANGED <<at, told, faults, screen, course>>
     \/ FailIf("hubspot")
     \/ "answer" \in may /\ Written /\ Fail({"answer"}) /\ UNCHANGED course
     \/ /\ Head(todo).do = "try" /\ "rejected" \in may /\ Go
        /\ UNCHANGED <<screen, effects, course>>

Marks == marked' = marked \cup {here} /\ UNCHANGED <<wrote, echoes>>
Mark == Doing({"mark"}) /\ Go /\ Marks /\ UNCHANGED <<screen, course>>

\* refresh_and_update_card marks the record too, then reads it again.
Card == /\ Doing({"card"}) /\ Marks
        /\ \/ Go /\ UNCHANGED <<screen, course>>
           \/ "hubspot" \in may /\ Fail({"hubspot"}) /\ UNCHANGED course

\* A modal that replaces the open one, or is opened where none is.
Show(content) ==
  \/ view # "none" /\ modal' = content /\ UNCHANGED <<view, trigger>>
  \/ view = "none" /\ trigger = "fresh" /\ modal' = content /\ trigger' = "used" /\ view' = "known"

\* With neither, Slack answers expired_trigger_id.
Shows(content) ==
  \/ Show(content) /\ Go /\ UNCHANGED <<effects, course>>
  \/ FailIf("slack")
  \/ view = "none" /\ trigger # "fresh" /\ Fail({}) /\ UNCHANGED <<effects, course>>
ShowForm == Doing({"show"}) /\ Shows("form")
ShowLoading == Doing({"loading"}) /\ IF view = "none" THEN Shows("loading")
                                     ELSE Go /\ UNCHANGED <<screen, effects, course>>
NeedModal == /\ Doing({"modal"}) /\ (IF view = "none" THEN End({}, told) ELSE Go)
             /\ UNCHANGED <<screen, effects, course>>
\* Without a modal the answer is a message.
ShowList == Doing({"list"}) /\ IF view = "none" THEN Go /\ UNCHANGED <<screen, effects, course>>
                               ELSE Shows("form")

\* views_open, whatever is open already
Opens == \/ /\ trigger = "fresh" /\ modal' = "form" /\ trigger' = "used" /\ UNCHANGED view
            /\ Go /\ UNCHANGED <<effects, course>>
         \/ trigger # "fresh" /\ Fail({}) /\ UNCHANGED <<effects, course>>
         \/ FailIf("slack")
Open == Doing({"open"}) /\ Opens

\* Post-mortem and next step come before the stage.
Stage ==
  /\ Doing({"stage"})
  /\ \/ plan = "pro" /\ FailIf("hubspot")
     \/ /\ plan = "pro" /\ todo' = Under("tell", <<"open">>)
        /\ UNCHANGED <<at, told, faults, screen, effects, course>>
     \/ Go /\ UNCHANGED <<screen, effects, course>>

\* _handle_gated_click.  When no modal can be shown the answer is a message; a
\* submission brings neither a view nor a trigger.
Nudges ==
  \/ /\ ask.kind # "submission" /\ Show("nudge") /\ End({}, told)
  \/ /\ ask.kind # "submission"
     /\ "slack" \in may \/ (view = "none" /\ trigger # "fresh")
     /\ End({"slack"} \cap may, Head(todo).or # "quiet") /\ UNCHANGED screen
  \/ ask.kind = "submission" /\ End({}, told) /\ UNCHANGED screen
Nudge == Doing({"nudge"}) /\ Nudges /\ UNCHANGED <<effects, course>>

\* require_feature and is_pro_workspace
Gate == /\ Doing({"gate"})
        /\ \/ plan = "pro" /\ Go /\ UNCHANGED <<screen, effects, course>>
           \/ plan = "free" /\ Nudges /\ UNCHANGED <<effects, course>>
           \/ FailIf("store")

Finish == /\ at = "running" /\ todo = <<>>
          /\ Leave({}) /\ UNCHANGED screen

----------------------------------------------------------------------------
(* Around it.                                                              *)
\* Three seconds after the click.
TriggerExpires == /\ "late" \in may /\ trigger = "fresh" /\ at # "done"
                  /\ trigger' = "expired" /\ faults' = faults \cup {"late"}
                  /\ UNCHANGED <<at, todo, told, view, modal, effects, course>>

PlanLapses == /\ "lapse" \in may /\ plan = "pro" /\ at # "done"
              /\ plan' = "free" /\ faults' = faults \cup {"lapse"}
              /\ UNCHANGED <<ask, at, duty, todo, here, queued, runs, told, leaked, may, screen, effects>>

\* The mark lives a minute.
MarkExpires == \E i \in marked :
  /\ "slow" \in may /\ marked' = marked \ {i} /\ faults' = faults \cup {"slow"}
  /\ UNCHANGED <<at, todo, told, wrote, echoes, screen, course>>

\* A worker dies with its marks.
WorkerDies == /\ at = "running" /\ "crash" \in may
              /\ Redeliver({"crash"}) /\ marked' = marked \ {here}
              /\ UNCHANGED <<wrote, echoes, course>>

\* HubSpot's webhook reaches some instance, and is dropped there or announced.
EchoArrives == \E w \in echoes, i \in Instances :
  /\ echoes' = echoes \ {w}
  /\ leaked' = (leaked \/ (i = w /\ i \notin marked))
  /\ UNCHANGED <<ask, at, duty, todo, here, queued, runs, plan, wrote, told, marked, may, faults, screen>>

Progress == \/ UnknownTeam \/ Suggest \/ Usage \/ OpenDirect \/ OpenLoading \/ OpenTooLate \/ OfferOpened
            \/ Dispatch \/ Command \/ Start \/ StartWithout
            \/ ResolveContact \/ Attach \/ Timeline \/ Read \/ Associated \/ Meetings \/ PickLists
            \/ Search \/ Reports \/ Note \/ Uninstall \/ GetClient \/ Confirm \/ JoinThread
            \/ Object \/ Primary \/ Write \/ Mark \/ Card \/ ShowForm \/ ShowLoading
            \/ NeedModal \/ ShowList \/ Open \/ Stage \/ Nudge \/ Gate \/ Finish
InteractionNext == Progress \/ TriggerExpires \/ PlanLapses \/ MarkExpires \/ WorkerDies \/ EchoArrives

\* Some buttons stand in a modal, and their payload names it.
InModal == {"open_support_ticket_modal", "select_object", "execute_universal_uninstall",
            "execute_hubspot_only_uninstall"}

InteractionInit ==
  /\ ask \in Asks /\ may \in Troubles /\ plan \in {"pro", "free"} /\ here \in Instances
  /\ at = "request" /\ duty = "none" /\ todo = <<>> /\ queued = FALSE /\ runs = 0
  /\ view = (IF ask.action \in InModal THEN "carried" ELSE "none")
  /\ modal = (IF ask.action \in InModal \/ ask.kind = "submission" THEN "form" ELSE "none")
  /\ trigger = (IF ask.kind \in {"actions", "shortcut"} THEN "fresh" ELSE "used")
  /\ wrote = 0 /\ told = FALSE /\ marked = {} /\ echoes = {} /\ leaked = FALSE /\ faults = {}

----------------------------------------------------------------------------
\* A request is written down at most once, although the queue delivers a
\* message again whenever a handler raises.  Excused: an answer that was lost,
\* a worker that died after the write, and two handlers: create_task lets a
\* failed association raise after the write, and the support form sends the
\* e-mail too when only the confirmation failed.
WrittenOnce == \/ wrote <= 1 \/ {"answer", "crash"} \cap faults # {}
               \/ ask.action \in {"create_task", "support_ticket_submission"}

\* The modal is closed before a submission is worked on.  What was entered is
\* written down, or the user hears that it was not, unless the telling failed
\* too, the message was given up, the plan or the integration has gone, or a
\* recap's form knows no place to tell it.
SubmissionsSettle ==
  ask.kind = "submission" /\ at = "done" =>
     \/ wrote > 0 \/ told
     \/ {"mute", "lost", "removed", "nowhere"} \cap faults # {}
     \/ (ask.action = "reassign_owner_submission" /\ plan = "free")

\* A loading modal is replaced by what was asked for, the nudge or an error.
\* Excused: something failed; the reply button of a ticket's control panel,
\* whose action id names no ticket; and a gated click that the workspace's plan
\* now turns into a post to the channel, which has no modal.
LoadingEnds ==
  modal = "loading" ~> \/ modal # "loading" \/ faults # {} \/ ~ask.pair
                       \/ (ask.action = "gated_feature_click" /\ ask.feature = "post_to_channel")

\* The handlers that put the debounce mark before the write
MarkFirst == {"update_deal_type_modal", "post_mortem_submission", "calculator_submission",
              "next_step_enforcement_submission", "log_next_step_submission", "update_deal_stage",
              "update_deal_closedate", "update_task_status", "update_task_priority"}

\* The instance that made a change does not announce it when HubSpot's webhook
\* for it comes back, unless the mark has expired or died with the worker.
NoEcho == leaked /\ ask.action \in MarkFirst => {"slow", "crash"} \cap faults # {}
=============================================================================
