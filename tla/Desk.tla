-------------------------------- MODULE Desk --------------------------------
(***************************************************************************)
(* What Slack's users write and what becomes of it in HubSpot: the intake  *)
(* of Slack's message events, the thread sync, the handlers of tickets,    *)
(* notes and recaps, and the parts of HubSpotService they go through       *)
(* (create_note with its appended logs, the mapping of threads, the cache  *)
(* of engagements).                                                        *)
(*                                                                         *)
(* A request of Work is a record job[j]; pc names its next step, and a     *)
(* step lasts until the next await that another request can be seen at.    *)
(* A text stands for what one message or one submission says.              *)
(***************************************************************************)
EXTENDS Integers, Sequences, FiniteSets, SequencesExt, FiniteSetsExt

CONSTANTS Work,        \* requests
          Hosts,       \* instances of the program
          Records,     \* CRM records: tickets, deals, tasks, inbox conversations
          RecordType,  \* their types
          Contact,     \* the contacts of calls, emails, meetings and notes
          Places,      \* <<channel, ts>>; ts "CHANNEL_ROOT" is no thread
          NoteRoom,    \* texts in a note of 50000 characters
          LastNotes,   \* how many notes create_note looks back (10)
          Nobody       \* none of these

VARIABLES job,      \* job[j]: a request
          events,   \* processed_events
          waiting,  \* threads with a ghosting heartbeat
          unfurled, \* LATEST_UNFURLS: <<host, message>> whose links were expanded
          map,      \* thread_mappings: record -> place
          about,    \* place -> the record its first message is a card of
          notes,    \* HubSpot: notes in order of creation
          talk,     \* HubSpot: messages of the conversations, <<record, text>>
          task,     \* HubSpot: task -> its body, a sequence of texts
          ticket,   \* HubSpot: ticket -> its owner and stage
          posts,    \* Slack: what the handlers have announced, <<what, record, user>>
          views,    \* _ENGAGEMENTS_CACHE: host, record -> texts or Nobody
          legible,  \* places whose first message Slack shows with its text
          helpdesk, \* tickets with a Helpdesk conversation
          may,      \* what can go wrong in this behaviour
          faults    \* what has gone wrong (history)

deskVars == <<job, events, waiting, unfurled, map, about, notes, talk, task, ticket,
              posts, views, legible, helpdesk, may, faults>>
fixed == <<legible, helpdesk, may>>
hubspot == <<notes, talk, task, ticket>>
slackSide == <<events, waiting, unfurled>>

DeskInit(s) ==
  /\ job = s.job /\ map = s.map /\ about = s.about /\ notes = s.notes
  /\ legible = s.legible /\ helpdesk = s.helpdesk /\ may = s.may
  /\ events = {} /\ unfurled = {} /\ faults = {} /\ talk = {} /\ posts = <<>>
  /\ waiting = {p \in Places : p[2] # "CHANNEL_ROOT"}
  /\ task = [r \in Records |-> <<>>]
  /\ ticket = [r \in Records |-> [owner |-> Nobody, stage |-> IF r \in s.made THEN "1" ELSE "none"]]
  /\ views = [h \in Hosts |-> [r \in Records |-> Nobody]]

At(j, s) == job[j].pc = s
Over(j) == job[j].pc \in {"done", "failed", "ignored", "unresolved", "lost"}
Set(j, r) == job' = [job EXCEPT ![j] = r]
Goto(j, s) == Set(j, [job[j] EXCEPT !.pc = s])
Blame(f) == faults' = faults \union f
Fails(f) == f \in may

InThread(p) == p[2] # "CHANNEL_ROOT"
Linked(r) == {i \in DOMAIN notes : notes[i].on = r}
Engagements(r) == UNION {ToSet(notes[i].body) : i \in Linked(r)}

----------------------------------------------------------------------------
(* POST /slack/events.  The event is marked as processed before anything   *)
(* else is looked at.                                                      *)
\* The message that begins the thread has been posted.
Begun(p) == \A j \in Work : job[j].kind = "create" /\ job[j].pl = p => job[j].pc \notin {"ticket", "card"}

\* Mutant of Deliver: the event is not claimed.
DeliverUnclaimed(j) ==
  /\ At(j, "event") /\ Begun(job[j].pl) /\ Goto(j, "human")
  /\ UNCHANGED <<slackSide, map, about, hubspot, posts, views, fixed, faults>>

\* A claim that the database refuses, for another reason than that it is there,
\* counts as won (mark_processed fails open), whether or not it was recorded.
Deliver(j) ==
  /\ At(j, "event") /\ Begun(job[j].pl)
  /\ LET dispatched == IF job[j].kind = "redaction" THEN "redact" ELSE "human" IN
     \/ /\ events' = events \union {job[j].ev}
        /\ Goto(j, IF job[j].ev \in events THEN "ignored" ELSE dispatched)
        /\ UNCHANGED faults
     \/ /\ Fails("db") /\ Blame({"opened"})
        /\ events' \in {events, events \union {job[j].ev}}
        /\ Goto(j, dispatched)
  /\ UNCHANGED <<waiting, unfurled, map, about, hubspot, posts, views, fixed>>

(* A message of a person in a thread answers its heartbeat; a message with *)
(* HubSpot links that this instance has expanded before goes no further.   *)
Human(j) ==
  /\ At(j, "human")
  /\ waiting' = waiting \ {job[j].pl}
  /\ LET key == <<job[j].host, job[j].ev>> IN
     /\ unfurled' = IF job[j].links THEN unfurled \union {key} ELSE unfurled
     /\ Goto(j, IF key \in unfurled THEN "ignored" ELSE "publish")
  /\ UNCHANGED <<events, map, about, hubspot, posts, views, fixed, faults>>

(* An edited or deleted message: its trace is deleted, and the heartbeat   *)
(* of the thread it begins.                                                *)
Redact(j) ==
  /\ At(j, "redact")
  /\ waiting' = waiting \ {job[j].pl}
  /\ Goto(j, "done")
  /\ UNCHANGED <<events, unfurled, map, about, hubspot, posts, views, fixed, faults>>

(* To the queue or, without one, to a background task of this instance;    *)
(* a worker's instance is another one.                                     *)
Publish(j) ==
  /\ At(j, "publish")
  /\ \/ \E h \in Hosts : Set(j, [job[j] EXCEPT !.pc = "resolve", !.queued = TRUE, !.host = h])
     \/ Fails("queue") /\ Goto(j, "resolve")
  /\ UNCHANGED <<slackSide, map, about, hubspot, posts, views, fixed, faults>>

----------------------------------------------------------------------------
(* handle_threaded_reply: the mapping of the thread, or what its first     *)
(* message names, which is then mapped.  Only the cards of tickets and     *)
(* conversations have words that are looked for ("Ticket #", "Ticket ID:", *)
(* "Conversation #").                                                      *)
Recognised(r) == RecordType[r] \in {"ticket", "conversation"}
Names(p) == p \in legible /\ about[p] # Nobody /\ Recognised(about[p])

Way(r) == CASE RecordType[r] = "ticket" -> "thread"
            [] RecordType[r] = "conversation" -> "comment"
            [] OTHER -> "create"

\* Mutant of Resolve: any mapping of the channel.
ResolveChannel(j) ==
  /\ At(j, "resolve")
  /\ LET mapped == {r \in Records : map[r] # Nobody /\ map[r][1] = job[j].pl[1]} IN
     IF mapped # {} THEN \E r \in mapped : Set(j, [job[j] EXCEPT !.pc = Way(r), !.on = r])
     ELSE Goto(j, IF InThread(job[j].pl) THEN "parent" ELSE "unresolved")
  /\ UNCHANGED <<slackSide, map, about, hubspot, posts, views, fixed, faults>>

\* Mutant of Resolve: a thread without a mapping is given up.
ResolveMapped(j) ==
  /\ At(j, "resolve")
  /\ LET mapped == {r \in Records : map[r] = job[j].pl} IN
     IF mapped # {} THEN \E r \in mapped : Set(j, [job[j] EXCEPT !.pc = Way(r), !.on = r])
     ELSE Goto(j, "unresolved")
  /\ UNCHANGED <<slackSide, map, about, hubspot, posts, views, fixed, faults>>

Resolve(j) ==
  /\ At(j, "resolve")
  /\ LET mapped == {r \in Records : map[r] = job[j].pl} IN
     IF mapped # {} THEN \E r \in mapped : Set(j, [job[j] EXCEPT !.pc = Way(r), !.on = r])
     ELSE Goto(j, IF InThread(job[j].pl) THEN "parent" ELSE "unresolved")
  /\ UNCHANGED <<slackSide, map, about, hubspot, posts, views, fixed, faults>>

Parent(j) ==
  /\ At(j, "parent")
  /\ LET r == about[job[j].pl] IN
     \/ /\ Set(j, IF ~Names(job[j].pl) THEN [job[j] EXCEPT !.pc = "unresolved"]
                  ELSE [job[j] EXCEPT !.pc = IF RecordType[r] = "conversation" THEN "comment" ELSE "lazy", !.on = r])
        /\ UNCHANGED faults
     \/ /\ Fails("slack") /\ Blame({"parent"})
        /\ Goto(j, "unresolved")
  /\ UNCHANGED <<slackSide, map, about, hubspot, posts, views, fixed>>

(* One mapping per record: another thread of the record loses its own.     *)
Lazy(j) ==
  /\ At(j, "lazy")
  /\ Blame(IF map[job[j].on] = Nobody THEN {} ELSE {"moved"})
  /\ map' = [map EXCEPT ![job[j].on] = job[j].pl]
  /\ Goto(j, Way(job[j].on))
  /\ UNCHANGED <<slackSide, about, hubspot, posts, views, fixed>>

(* What the modals submit.  A note about a call, an email, a meeting or     *)
(* another note goes to its contact, if it can be found; a task has none.  *)
AddNote(j) ==
  /\ At(j, "addnote")
  /\ \E r \in (IF job[j].on \in DOMAIN Contact THEN {Contact[job[j].on]} ELSE {job[j].on})
              \union (IF Fails("hubspot") THEN {job[j].on} ELSE {}) :
       Set(j, [job[j] EXCEPT !.on = r, !.pc = IF RecordType[r] = "task" THEN "readtask" ELSE "create"])
  /\ UNCHANGED <<slackSide, map, about, hubspot, posts, views, fixed, faults>>

\* A reply to the customer and a claim are for those who pay (require_feature).
SubmitReply(j) ==
  /\ At(j, "submitreply")
  /\ \/ Goto(j, "thread")
     \/ Fails("tier") /\ Goto(j, "failed")
  /\ UNCHANGED <<slackSide, map, about, hubspot, posts, views, fixed, faults>>

\* A claim is for a HubSpot owner with the user's address.
Claim(j) ==
  /\ At(j, "claimed")
  /\ \/ Goto(j, "ticketupdate")
     \/ Fails("tier") /\ Goto(j, "failed")
     \/ Fails("owner") /\ Goto(j, "failed")
  /\ UNCHANGED <<slackSide, map, about, hubspot, posts, views, fixed, faults>>

(* A ticket's replies go into its Helpdesk conversation, if it has one; if *)
(* the question fails, it has none.  CRMService.create_note knows no       *)
(* "continuous", so that a reply from the modal stops here (TypeError).    *)
Thread(j) ==
  /\ At(j, "thread")
  /\ LET note == IF job[j].kind = "submit" THEN "failed" ELSE "search" IN
     \/ Goto(j, IF job[j].on \in helpdesk THEN "comment" ELSE note)
     \/ Fails("hubspot") /\ Goto(j, note)
  /\ UNCHANGED <<slackSide, map, about, hubspot, posts, views, fixed, faults>>

AfterFiling(j) == IF RecordType[job[j].on] = "conversation" THEN "done" ELSE "invalidate"

(* add_conversation_message, send_thread_reply *)
Comment(j) ==
  /\ At(j, "comment")
  /\ \/ talk' = talk \union {<<job[j].on, job[j].text, j>>} /\ Goto(j, AfterFiling(j))
     \/ Fails("hubspot") /\ Goto(j, "failed") /\ UNCHANGED talk
     \/ Fails("answer") /\ Goto(j, "failed") /\ talk' = talk \union {<<job[j].on, job[j].text, j>>}
  /\ UNCHANGED <<slackSide, map, about, notes, task, ticket, posts, views, fixed, faults>>

----------------------------------------------------------------------------
(* create_note(continuous=True): today's log among the ticket's last notes *)
(* is read and written back with the text appended.                        *)
Log(r) ==
  LET last == {i \in Linked(r) : Cardinality({k \in Linked(r) : k > i}) < LastNotes}
  IN {i \in last : notes[i].log /\ notes[i].today}

Search(j) ==
  /\ At(j, "search")
  /\ LET found == Log(job[j].on) IN
     \/ IF found # {} /\ Len(notes[Max(found)].body) < NoteRoom
        THEN Set(j, [job[j] EXCEPT !.pc = "append", !.note = Max(found), !.read = notes[Max(found)].body])
        ELSE Goto(j, "create")
     \/ Fails("hubspot") /\ Goto(j, "create")
  /\ UNCHANGED <<slackSide, map, about, hubspot, posts, views, fixed, faults>>

Overlap(j, now) == IF now # job[j].read THEN {"overlap"} ELSE {}

Wrote(j, body) ==
  /\ notes' = [notes EXCEPT ![job[j].note].body = body]
  /\ Blame(Overlap(j, notes[job[j].note].body))

\* Mutant of AppendToLog: the log's text is replaced.
AppendAnew(j) ==
  /\ At(j, "append") /\ Wrote(j, <<job[j].text>>) /\ Goto(j, "uncache")
  /\ UNCHANGED <<slackSide, map, about, talk, task, ticket, posts, views, fixed>>

(* A failed update is taken for a failed search.                           *)
AppendToLog(j) ==
  /\ At(j, "append")
  /\ \/ Wrote(j, Append(job[j].read, job[j].text)) /\ Goto(j, "uncache")
     \/ Fails("hubspot") /\ Goto(j, "create") /\ UNCHANGED <<notes, faults>>
     \/ /\ Fails("answer") /\ Goto(j, "create")
        /\ notes' = [notes EXCEPT ![job[j].note].body = Append(job[j].read, job[j].text)]
        /\ Blame({"answer"} \union Overlap(j, notes[job[j].note].body))
  /\ UNCHANGED <<slackSide, map, about, talk, task, ticket, posts, views, fixed>>

CreateNote(j) ==
  /\ At(j, "create")
  /\ \/ /\ notes' = Append(notes, [log |-> job[j].kind = "reply" /\ RecordType[job[j].on] = "ticket",
                                   today |-> TRUE, on |-> Nobody, body |-> <<job[j].text>>])
        /\ Set(j, [job[j] EXCEPT !.pc = "link", !.note = Len(notes) + 1])
     \/ Fails("hubspot") /\ Goto(j, "failed") /\ UNCHANGED notes
  /\ UNCHANGED <<slackSide, map, about, talk, task, ticket, posts, views, fixed, faults>>

\* associate_object: a note that could not be associated is left as it is.
LinkNote(j) ==
  /\ At(j, "link")
  /\ \/ notes' = [notes EXCEPT ![job[j].note].on = job[j].on] /\ UNCHANGED faults
     \/ Fails("hubspot") /\ Blame({"link"}) /\ UNCHANGED notes
  /\ Goto(j, "invalidate")
  /\ UNCHANGED <<slackSide, map, about, talk, task, ticket, posts, views, fixed>>

(* A task takes no notes: its body is read and written back.               *)
ReadTask(j) ==
  /\ At(j, "readtask")
  /\ \/ Set(j, [job[j] EXCEPT !.pc = "writetask", !.read = task[job[j].on]])
     \/ Fails("hubspot") /\ Goto(j, "failed")
  /\ UNCHANGED <<slackSide, map, about, hubspot, posts, views, fixed, faults>>

WriteTask(j) ==
  /\ At(j, "writetask")
  /\ \/ /\ task' = [task EXCEPT ![job[j].on] = Append(job[j].read, job[j].text)]
        /\ Blame(Overlap(j, task[job[j].on])) /\ Goto(j, "invalidate")
     \/ Fails("hubspot") /\ Goto(j, "failed") /\ UNCHANGED <<task, faults>>
  /\ UNCHANGED <<slackSide, map, about, notes, talk, ticket, posts, views, fixed>>

----------------------------------------------------------------------------
(* The cache of engagements is the instance's own.  A look that has read   *)
(* HubSpot stores what it saw even if it was invalidated since.            *)
Uncached(j) == views' = [views EXCEPT ![job[j].host][job[j].on] = Nobody]
Late(j) == IF \E k \in Work : At(k, "store") /\ job[k].host = job[j].host /\ job[k].on = job[j].on
           THEN {"late"} ELSE {}

\* create_note's own invalidation, after an append
Uncache(j) ==
  /\ At(j, "uncache")
  /\ Uncached(j) /\ Goto(j, "invalidate") /\ Blame(Late(j))
  /\ UNCHANGED <<slackSide, map, about, hubspot, posts, fixed>>

\* Mutant of Invalidate: only the associations are dropped.
InvalidateOther(j) ==
  /\ At(j, "invalidate") /\ Goto(j, IF job[j].kind = "submit" THEN "post" ELSE "done")
  /\ UNCHANGED <<slackSide, map, about, hubspot, posts, views, fixed, faults>>

\* invalidate_object_caches
Invalidate(j) ==
  /\ At(j, "invalidate")
  /\ Uncached(j) /\ Blame(Late(j))
  /\ Goto(j, IF job[j].kind = "submit" THEN "post" ELSE "done")
  /\ UNCHANGED <<slackSide, map, about, hubspot, posts, fixed>>

(* get_object_engagements, for a card, a search or a recap.                *)
Owed(j) == Engagements(job[j].on)
           \cap {job[k].text : k \in {k \in Work : At(k, "done") /\ job[k].host = job[j].host}}

Look(j) ==
  /\ At(j, "look")
  /\ LET seen == views[job[j].host][job[j].on] IN
     Set(j, IF seen = Nobody THEN [job[j] EXCEPT !.pc = "fetch", !.owed = Owed(j)]
            ELSE [job[j] EXCEPT !.pc = "done", !.owed = Owed(j), !.got = seen])
  /\ UNCHANGED <<slackSide, map, about, hubspot, posts, views, fixed, faults>>

\* A kind of engagement that cannot be fetched is left out.
Fetch(j) ==
  /\ At(j, "fetch")
  /\ \/ Set(j, [job[j] EXCEPT !.pc = "store", !.got = Engagements(job[j].on)]) /\ UNCHANGED faults
     \/ Fails("hubspot") /\ Set(j, [job[j] EXCEPT !.pc = "store", !.got = {}]) /\ Blame({"blind"})
  /\ UNCHANGED <<slackSide, map, about, hubspot, posts, views, fixed>>

Store(j) ==
  /\ At(j, "store")
  /\ views' = [views EXCEPT ![job[j].host][job[j].on] = job[j].got]
  /\ Goto(j, "done")
  /\ UNCHANGED <<slackSide, map, about, hubspot, posts, fixed, faults>>

----------------------------------------------------------------------------
(* The handlers of tickets: a new ticket's card is posted, then mapped     *)
(* with an insert, which fails if the notification pipeline was faster.    *)
CreateTicket(j) ==
  /\ At(j, "ticket")
  /\ \/ ticket' = [ticket EXCEPT ![job[j].on].stage = "1"] /\ Goto(j, "card")
     \/ Fails("hubspot") /\ Goto(j, "failed") /\ UNCHANGED ticket
  /\ UNCHANGED <<slackSide, map, about, notes, talk, task, posts, views, fixed, faults>>

Told(what, j) == posts' = Append(posts, <<what, job[j].on, j>>)

TicketCard(j) ==
  /\ At(j, "card")
  /\ \/ about' = [about EXCEPT ![job[j].pl] = job[j].on] /\ Told("card", j) /\ Goto(j, "map")
     \/ Fails("slack") /\ Told("fallback", j) /\ Goto(j, "done") /\ UNCHANGED about
  /\ UNCHANGED <<slackSide, map, hubspot, views, fixed, faults>>

MapTicket(j) ==
  /\ At(j, "map")
  /\ IF map[job[j].on] = Nobody
     THEN map' = [map EXCEPT ![job[j].on] = job[j].pl] /\ Told("created", j)
     ELSE UNCHANGED map /\ Told("fallback", j)
  /\ Goto(j, "done")
  /\ UNCHANGED <<slackSide, about, hubspot, views, fixed, faults>>

\* A transcript needs a mapping in its own channel (_ensure_thread_mapping).
Ensure(j) ==
  /\ At(j, "ensure")
  /\ LET m == map[job[j].on] IN
     /\ map' = IF m = Nobody THEN [map EXCEPT ![job[j].on] = job[j].pl] ELSE map
     /\ Goto(j, IF m = Nobody \/ m[1] = job[j].pl[1] THEN "history" ELSE "failed")
  /\ UNCHANGED <<slackSide, about, hubspot, posts, views, fixed, faults>>

\* _fetch_slack_history joins the channel and asks again if it has to.
History(j) ==
  /\ At(j, "history")
  /\ \/ Goto(j, "create")
     \/ Fails("slack") /\ Goto(j, "failed")
  /\ UNCHANGED <<slackSide, map, about, hubspot, posts, views, fixed, faults>>

\* ticket_claim and ticket_close: HubSpot first, then the announcement.
ClaimOrClose(j) ==
  /\ At(j, "ticketupdate")
  /\ \/ /\ ticket' = IF job[j].kind = "claim" THEN [ticket EXCEPT ![job[j].on].owner = j]
                                              ELSE [ticket EXCEPT ![job[j].on].stage = "4"]
        /\ Goto(j, "post")
     \/ Fails("hubspot") /\ Goto(j, "failed") /\ UNCHANGED ticket
  /\ UNCHANGED <<slackSide, map, about, notes, talk, task, posts, views, fixed, faults>>

\* An archived channel does not keep a ticket from being closed, other errors do.
Post(j) ==
  /\ At(j, "post")
  /\ \/ Told(job[j].kind, j) /\ Goto(j, "done")
     \/ Fails("slack") /\ Goto(j, "failed") /\ UNCHANGED posts
     \/ Fails("slack") /\ job[j].kind = "close" /\ Goto(j, "done") /\ UNCHANGED posts
  /\ UNCHANGED <<slackSide, map, about, hubspot, views, fixed, faults>>

DeskStep(j) ==
  \/ Deliver(j) \/ Human(j) \/ Redact(j) \/ Publish(j)
  \/ Resolve(j) \/ Parent(j) \/ Lazy(j) \/ AddNote(j) \/ SubmitReply(j) \/ Claim(j) \/ Thread(j) \/ Comment(j)
  \/ Search(j) \/ AppendToLog(j) \/ CreateNote(j) \/ LinkNote(j) \/ ReadTask(j) \/ WriteTask(j)
  \/ Uncache(j) \/ Invalidate(j) \/ Look(j) \/ Fetch(j) \/ Store(j)
  \/ CreateTicket(j) \/ TicketCard(j) \/ MapTicket(j) \/ Ensure(j) \/ History(j)
  \/ ClaimOrClose(j) \/ Post(j)

----------------------------------------------------------------------------
(* The notification pipeline posts the card of a new ticket and maps it:   *)
(* its instance does not know of the debounce that was set for it.         *)
Announced(r, p) ==
  /\ Fails("webhook") /\ RecordType[r] = "ticket" /\ ticket[r].stage # "none" /\ map[r] = Nobody /\ about[p] = Nobody
  /\ InThread(p) /\ \A j \in Work : job[j].pl # p
  /\ map' = [map EXCEPT ![r] = p] /\ about' = [about EXCEPT ![p] = r]
  /\ UNCHANGED <<job, slackSide, hubspot, posts, views, fixed, faults>>

ViewExpires(h, r) ==
  /\ views[h][r] # Nobody
  /\ views' = [views EXCEPT ![h][r] = Nobody]
  /\ UNCHANGED <<job, slackSide, map, about, hubspot, posts, fixed, faults>>

Midnight ==
  /\ Fails("midnight") /\ \E i \in DOMAIN notes : notes[i].today
  /\ notes' = [i \in DOMAIN notes |-> [notes[i] EXCEPT !.today = FALSE]]
  /\ UNCHANGED <<job, slackSide, map, about, talk, task, ticket, posts, views, fixed, faults>>

(* A worker dies or is too slow: its message is delivered again.  What was *)
(* not queued is lost.                                                     *)
WorkerDies(j) ==
  /\ Fails("crash") /\ job[j].kind = "reply" /\ ~Over(j) /\ ~At(j, "event")
  /\ IF job[j].queued THEN Goto(j, "resolve") ELSE Goto(j, "lost")
  /\ Blame({"redelivered"})
  /\ may' = may \ {"crash"}
  /\ UNCHANGED <<slackSide, map, about, hubspot, posts, views, legible, helpdesk>>

DeskNext ==
  \/ \E j \in Work : DeskStep(j) \/ WorkerDies(j)
  \/ \E r \in Records, p \in Places : Announced(r, p)
  \/ \E h \in Hosts, r \in Records : ViewExpires(h, r)
  \/ Midnight

----------------------------------------------------------------------------
(* Scenes: who writes or presses what, and what lies on the desk.          *)
Begins == [reply |-> "event", redaction |-> "event", submit |-> "submitreply", note |-> "addnote",
           transcript |-> "ensure", look |-> "look", create |-> "ticket", claim |-> "claimed", close |-> "ticketupdate"]
JobFields == {"kind", "pc", "host", "pl", "on", "text", "ev", "links", "queued", "note", "read", "owed", "got"}
Words == STRING \ {Nobody}
DeskTyped(s) ==
  /\ s.map \in [Records -> Places \union {Nobody}] /\ s.about \in [Places -> Records \union {Nobody}]
  /\ s.notes \in Seq([log : BOOLEAN, today : BOOLEAN, on : Records, body : Seq(Words)])
  /\ Nobody \notin Records \union Places /\ \A x \in DOMAIN Contact : Contact[x] \in Records

\* A request that has not begun; a message and a redaction name no record.
Arrives(r) ==
  /\ DOMAIN r = JobFields /\ r.kind \in DOMAIN Begins /\ r.pc = Begins[r.kind]
  /\ r.host \in Hosts /\ r.pl \in Places /\ r.note = 0 /\ r.read = <<>>
  /\ r.on \in Records \/ (r.on = Nobody /\ r.kind \in {"reply", "redaction"})
  /\ IF r.kind \in {"reply", "submit", "note", "transcript"} THEN r.text \in Words ELSE r.text = Nobody

\* A text is new, and is one's own; but Slack may deliver a message twice.
TextsApart(s) ==
  /\ \A j, k \in Work : j # k /\ s.job[j].text = s.job[k].text /\ s.job[j].text # Nobody =>
       /\ s.job[j].kind = "reply" /\ s.job[k].kind = "reply"
       /\ s.job[j].ev = s.job[k].ev /\ s.job[j].pl = s.job[k].pl
  /\ \A i \in DOMAIN s.notes, j \in Work : s.job[j].text \notin ToSet(s.notes[i].body)

\* A new ticket's card begins a thread of its own; a thread in which someone
\* replies, or asks for a transcript, is mapped only to the record it is about.
\* A card that does not name its record has been mapped.
ThreadsApart(s) ==
  /\ \A j \in Work : s.job[j].kind = "create" =>
       /\ s.job[j].pl \in s.legible /\ s.about[s.job[j].pl] = Nobody /\ RecordType[s.job[j].on] = "ticket"
       /\ \A k \in Work : k # j /\ s.job[k].kind = "create" => s.job[k].pl # s.job[j].pl
  /\ \A k \in Work : s.job[k].kind = "reply" =>
       LET p == s.job[k].pl IN
       /\ \A r \in Records : s.map[r] = p => s.about[p] = r
       /\ \A j \in Work : s.job[j].kind = "transcript" /\ s.job[j].pl = p => s.about[p] = s.job[j].on
       /\ InThread(p) /\ s.about[p] # Nobody /\ (p \notin s.legible \/ ~Recognised(s.about[p]))
            => s.map[s.about[p]] = p

Plausible(s) == /\ DOMAIN s.job = Work /\ (\A j \in Work : Arrives(s.job[j]))
                /\ DeskTyped(s) /\ TextsApart(s) /\ ThreadsApart(s)

----------------------------------------------------------------------------
Writers == {j \in Work : job[j].text # Nobody}
Filed(r, t) == t \in Engagements(r) \/ (\E j \in Work : <<r, t, j>> \in talk) \/ t \in ToSet(task[r])
Copies(t) ==
  Cardinality({x \in (DOMAIN notes) \X (1..NoteRoom) : x[2] <= Len(notes[x[1]].body) /\ notes[x[1]].body[x[2]] = t})
  + Cardinality({x \in talk : x[2] = t})

(* What a handler has dealt with to the end is in HubSpot, under the record *)
(* it resolved, and stays there, whatever later replies do to the same     *)
(* note, unless two of them overlapped or an association failed.           *)
RepliesKept ==
  faults \cap {"overlap", "link"} = {} =>
    \A j \in Writers : At(j, "done") => Filed(job[j].on, job[j].text)

(* It is there once, though Slack delivers an event again, unless a claim  *)
(* failed open, the answer to a write was lost or the queue delivered a    *)
(* message again.                                                          *)
RepliesOnce ==
  faults \cap {"opened", "answer", "redelivered"} = {} => \A j \in Writers : Copies(job[j].text) <= 1

(* A reply in a thread goes to the record whose card began the thread,     *)
(* however the mappings of records have moved.                             *)
RepliesGoHome ==
  \A j \in Work, r \in Records :
    job[j].kind = "reply" /\ Filed(r, job[j].text) => about[job[j].pl] = r

(* A reply under a record's card is never dropped as belonging to nothing, *)
(* also before the card is mapped, unless the mapping was taken away for   *)
(* another thread or Slack could not show the card.                        *)
RepliesResolved ==
  \A j \in Work : At(j, "unresolved") /\ InThread(job[j].pl) =>
    about[job[j].pl] = Nobody \/ faults \cap {"moved", "parent"} # {}

(* Who looks at a record after a note was filed through the same instance  *)
(* sees the note, unless an earlier look stored what it saw too late, the  *)
(* note was overwritten or could not be fetched, or a claim failed open: a *)
(* second request then links, through another instance, what the first     *)
(* could not.                                                              *)
ViewsFresh ==
  \A j \in Work : At(j, "done") /\ job[j].kind = "look" =>
    job[j].owed \subseteq job[j].got \/ faults \cap {"late", "blind", "overlap", "opened"} # {}
=============================================================================
