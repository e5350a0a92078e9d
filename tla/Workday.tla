-------------------------------- MODULE Workday --------------------------------
(***************************************************************************)
(* A day of a connected workspace: the customer's records are analysed     *)
(* (Analysis), what is said in Slack is filed in HubSpot (Desk), buttons,  *)
(* commands and forms are worked on (Interactions), and digests, mappings  *)
(* and the plan are looked after (Upkeep).                                 *)
(*                                                                         *)
(* These parts of the program keep apart state, so a behaviour follows one *)
(* of them, its topic, while the others wait in an initial state.          *)
(***************************************************************************)
EXTENDS Integers, Sequences

CONSTANTS Texts, Mood, Intent, PulseWindow, BaselineWindow, Objects, Waits,
          Work, Hosts, Records, RecordType, Contact, Places, NoteRoom, LastNotes, Nobody,
          Instances, Asks, Troubles, Receives,
          Digests, Sweeps, Owners, Syncs, Links, People, Payments, Tries,
          Scenes,   \* what lies on the desk, and who writes
          Plans     \* rows of workspaces

VARIABLES topic,
          object, waited, known, asked, shown,
          job, events, waiting, unfurled, map, about, notes, talk, task, ticket, posts, views,
          legible, helpdesk, mishaps, met,
          ask, at, duty, todo, here, queued, runs, view, trigger, modal, plan, wrote, told,
          marked, echoes, leaked, may, faults,
          table, deleted, overtaken, sweep, mail, row, sync, link, excused, workspace, tier, processed

A == INSTANCE Analysis
D == INSTANCE Desk WITH may <- mishaps, faults <- met
I == INSTANCE Interactions
U == INSTANCE Upkeep

analysisVars == <<object, waited, known, asked, shown>>
deskVars == <<job, events, waiting, unfurled, map, about, notes, talk, task, ticket, posts, views,
              legible, helpdesk, mishaps, met>>
interactionVars == <<ask, at, duty, todo, here, queued, runs, view, trigger, modal, plan, wrote, told,
                     marked, echoes, leaked, may, faults>>
upkeepVars == <<table, deleted, overtaken, sweep, mail, row, sync, link, excused, workspace, tier, processed>>
vars == <<topic, analysisVars, deskVars, interactionVars, upkeepVars>>

\* A conversation of a customer: its age, who wrote it.
Engagement == [type : {"notes", "emails", "meetings", "calls", "tasks"}, text : Texts \cup {""}, age : Int,
               inbound : BOOLEAN, bot : BOOLEAN]

(* A day's inputs: objects of the kinds that are analysed, with dated       *)
(* engagements of five types, and the mood of every text; waits,           *)
(* and forms that name a record and a handler.                             *)
Kinds == {"contact", "company", "deal", "ticket", "conversation", "task", "lead", "appointment"}
ObjectsTyped == \A o \in Objects :
  /\ DOMAIN o = {"kind", "props", "slack", "notes", "emails", "meetings", "calls", "tasks"}
  /\ o.kind \in Kinds
  /\ o.kind = "ticket" => {"created", "priority"} \subseteq DOMAIN o.props /\ o.props.created \in Nat \cup {A!None}
  /\ {o.notes, o.emails, o.meetings, o.calls, o.tasks} \subseteq Seq(Engagement)
TextsTyped == Mood \in [Texts -> Int] /\ PulseWindow \in Nat
WaitsTyped == Waits \subseteq Nat
RegisteredForms == \A a \in Asks : a.kind = "submission" => a.pair /\ a.action \in I!Submissions
ScenesPlausible == Scenes # {} /\ \A s \in Scenes : D!Plausible(s)
ASSUME DayAssumption == ObjectsTyped /\ TextsTyped /\ WaitsTyped /\ RegisteredForms /\ ScenesPlausible

One(S) == CHOOSE x \in S : TRUE

Init ==
  /\ topic \in {"analysis", "desk", "interaction", "digests", "mappings", "plan"}
  /\ object \in (IF topic = "analysis" THEN Objects ELSE {One(Objects)}) /\ A!AnalysisInit
  /\ \E s \in (IF topic = "desk" THEN Scenes ELSE {One(Scenes)}) : D!DeskInit(s)
  /\ IF topic = "interaction" THEN I!InteractionInit
     ELSE /\ ask = One(Asks) /\ may = {} /\ plan = "free" /\ here = One(Instances) /\ I!InteractionInit
  /\ U!UpkeepInit({}, IF topic = "plan" THEN Plans ELSE {One(Plans)})

\* In the last topic no sync runs, in the one before no plan changes and one
\* user maps.
Analysing == topic = "analysis" /\ A!AnalysisNext /\ UNCHANGED <<topic, deskVars, interactionVars, upkeepVars>>
Writing == topic = "desk" /\ D!DeskNext /\ UNCHANGED <<topic, analysisVars, interactionVars, upkeepVars>>
Interaction(step) == topic = "interaction" /\ step /\ UNCHANGED <<topic, analysisVars, deskVars, upkeepVars>>
Interacting == Interaction(I!InteractionNext)
Keeping == /\ \/ topic = "digests" /\ U!DigestStep
              \/ topic = "mappings" /\ (U!SyncStep \/ \E l \in Links : l = One(Links) /\ U!LinkStep(l))
              \/ topic = "plan" /\ (U!PlanStep \/ \E l \in Links : U!LinkStep(l))
           /\ UNCHANGED <<topic, analysisVars, deskVars, interactionVars>>

Next == Analysing \/ Writing \/ Interacting \/ Keeping

\* A worker or a background task that holds an interaction goes on with it.
Spec == Init /\ [][Next]_vars /\ WF_vars(Interaction(I!Progress))

----------------------------------------------------------------------------
(* Two months after the last activity no contact, company or deal has a    *)
(* pulse above neutral, whatever the customer wrote (AIService's decay and *)
(* its SLA penalty).                                                       *)
SilenceShows == A!SilenceShows

(* When the sentiment of a text turns out to be bad news, the card shown   *)
(* next is not a better one at the same moment or, but for a ticket, day   *)
(* of silence.  As time passes a ticket's pulse may rise to the floor of a *)
(* missed SLA (20), and by the 15 points of the first limit when it misses *)
(* the second, no further; nor does it leave critical (AIService's         *)
(* analyzers).                                                             *)
BadNewsNeverHelps == [][A!NoBetterCard]_vars

(* What a handler of threaded replies has dealt with to the end is in      *)
(* HubSpot, and stays there whatever later replies do to the same note     *)
(* (create_note's read and write back), unless two overlapped.             *)
RepliesKept == D!RepliesKept

(* It is there once, though Slack delivers an event again (events_router,  *)
(* processed_events), unless a claim failed open, the answer to a write    *)
(* was lost or the queue delivered a message again.                        *)
RepliesOnce == D!RepliesOnce

(* A reply in a thread goes to the record whose card began the thread      *)
(* (resolve_thread_context), however the mappings of records have moved.   *)
RepliesGoHome == D!RepliesGoHome

(* A reply under a record's card is never dropped as belonging to nothing  *)
(* (handle_threaded_reply), also before the card is mapped.                *)
RepliesResolved == D!RepliesResolved

(* Who looks at a record after a note was filed through the same instance  *)
(* sees the note (_ENGAGEMENTS_CACHE and its invalidation), unless an      *)
(* earlier look stored too late, the note was overwritten or could not be  *)
(* fetched, or a claim failed open.                                        *)
ViewsFresh == D!ViewsFresh

(* An interaction's request is written down at most once, although the     *)
(* queue delivers a message again whenever a handler raises.               *)
WrittenOnce == I!WrittenOnce

(* A submission is written down, or the user hears that it was not: the    *)
(* modal is closed before the handler runs.                                *)
SubmissionsSettle == I!SubmissionsSettle

(* A loading modal is replaced by the form, the nudge or an error.         *)
LoadingEnds == I!LoadingEnds

(* The instance that made a change does not announce it when HubSpot's     *)
(* webhook for it comes back (_recent_notifications).                      *)
NoEcho == I!NoEcho

(* A digest that a user has deleted is in the table again only if a sweep  *)
(* had read it before (_run_digests_sweep saves whole rows).               *)
DeletedStaysDeleted == U!DeletedStaysDeleted

(* A free workspace has one owner mapped by hand to somebody               *)
(* (update_manual_mapping counts and then writes), but for owners mapped   *)
(* when it was paid for or its plan was cached as such, owners unlinked by *)
(* hand before, and mappings whose count was overtaken by another write.   *)
OneLinkIsFree == U!OneLinkIsFree
=============================================================================
