------------------------------ MODULE MCWorkday ------------------------------
(* The customers, desks, interactions and upkeep of the run.               *)
EXTENDS Workday, Sequences, TLC

\* Analysis: an angry text, a happy one and one that says nothing; objects
\* that the analyzers treat differently, each with three conversations.
Unset == -1000
MCMood == [t \in Texts |-> CASE t = "cross" -> -90 [] t = "glad" -> 95 [] OTHER -> 0]
MCIntent == [t \in Texts |-> CASE t = "cross" -> {"risk", "urgent"} [] t = "glad" -> {"commercial", "action"} [] OTHER -> {}]

Said(type, text, days) == [type |-> type, text |-> text, age |-> IF days = 0 THEN 8 ELSE 240 * days, inbound |-> TRUE, bot |-> FALSE]
Bare(kind, props) == [kind |-> kind, props |-> props, slack |-> TRUE,
                      notes |-> <<>>, emails |-> <<>>, meetings |-> <<>>, calls |-> <<>>, tasks |-> <<>>]
Person == [title |-> "decider", industry |-> TRUE, changed |-> FALSE, email |-> "business", company |-> TRUE,
           visits |-> 12, weekly |-> 6, stage |-> "lead", modified |-> 1, created |-> 40]
Stranger == [Person EXCEPT !.title = "", !.email = "", !.company = FALSE, !.visits = 0, !.weekly = 0,
                           !.stage = "", !.modified = Unset, !.created = Unset]
Firm == [contacts |-> 0, deals |-> 1, visits |-> 11, created |-> 50, people |-> <<Stranger, Person>>, assocDeals |-> <<>>]
Deal == [stage |-> "open", amount |-> 60000, entered |-> 10, close |-> 20, created |-> 30, decider |-> TRUE]
Ticket == [priority |-> "LOW", created |-> 1]
Talks == {<< <<Said("notes", "glad", 1)>>, <<Said("emails", "cross", 0)>>, <<Said("calls", "cross", 3)>> >>,
          << <<>>, <<Said("emails", "cross", 3), Said("emails", "glad", 2)>>, <<>> >>,
          << <<Said("notes", "cross", 0), Said("notes", "glad", 9)>>, <<>>, <<>> >>}
Customers == {<<"contact", Person>>, <<"contact", Stranger>>, <<"company", Firm>>, <<"deal", Deal>>,
              <<"deal", [Deal EXCEPT !.decider = FALSE, !.amount = 0, !.entered = 90]>>,
              <<"ticket", Ticket>>, <<"ticket", [Ticket EXCEPT !.priority = "HIGH"]>>, <<"conversation", Ticket>>}
MCObjects ==
  {[Bare(k[1], k[2]) EXCEPT !.notes = t[1], !.emails = t[2], !.calls = t[3]] : k \in Customers, t \in Talks}
  \union {Bare("task", [status |-> "IN_PROGRESS"]), Bare("lead", Person @@ [lead |-> "OPEN"]),
          Bare("appointment", [status |-> "NO_SHOW"])}
\* An hour and an SLA pass, then three and ten weeks.
MCWaits == {3, 45, 4800, 16800}

\* Desk: a ticket, a deal, a conversation, a task and a meeting with the deal's
\* contact; three threads and a channel; at most three requests at a time.
MCRecordType == [t |-> "ticket", d |-> "deal", c |-> "conversation", k |-> "task", m |-> "meeting"]
MCContact == [m |-> "d"]
PA == <<"A", "1">>
PB == <<"B", "1">>
PN == <<"A", "2">>
Channel == <<"A", "CHANNEL_ROOT">>
MCPlaces == {PA, PB, PN, Channel}

Item(kind, pc, pl, on, text) ==
  [kind |-> kind, pc |-> pc, host |-> "h1", pl |-> pl, on |-> on, text |-> text, ev |-> text,
   links |-> FALSE, queued |-> FALSE, note |-> 0, read |-> <<>>, owed |-> {}, got |-> {}]
Reply(pl, t) == Item("reply", "event", pl, Nobody, t)
Submit(t) == Item("submit", "submitreply", PA, "t", t)
Note(on, t) == Item("note", "addnote", PA, on, t)
Transcript(pl, t) == Item("transcript", "ensure", pl, "t", t)
Look == Item("look", "look", PA, "t", Nobody)
Create == Item("create", "ticket", PN, "t", Nobody)
Claim == Item("claim", "claimed", PA, "t", Nobody)
Close == Item("close", "ticketupdate", PA, "t", Nobody)
Redaction == Item("redaction", "event", PA, Nobody, Nobody)

Scene(a, b, c, trouble, mapped, cards) ==
  [job |-> [j \in {"a", "b", "c"} |-> CASE j = "a" -> a [] j = "b" -> b [] OTHER -> c],
   map |-> mapped @@ [r \in Records |-> Nobody], about |-> cards @@ [p \in Places |-> Nobody],
   notes |-> <<>>, legible |-> {PA, PN}, helpdesk |-> {}, may |-> trouble, made |-> {"t"}]
WithLog(s) == [s EXCEPT !.notes = <<[log |-> TRUE, today |-> TRUE, on |-> "t", body |-> <<"x">>]>>]
Mapped == [t |-> PA]
Cards == PA :> "t" @@ PB :> "d"
MCScenes ==
  {WithLog(Scene(Reply(PA, "ta"), Reply(PA, "tb"), Look, {"midnight"}, Mapped, Cards)),
   WithLog(Scene(Reply(PA, "ta"), Reply(PA, "ta"), Look, {"hubspot", "crash", "db"}, Mapped, Cards)),
   WithLog(Scene(Reply(PA, "ta"), Reply(PA, "tb"), Look, {"answer"}, Mapped, Cards)),
   Scene(Reply(PB, "ta"), Reply(Channel, "tb"), Note("d", "tc"), {"queue", "slack"}, [d |-> PB], Cards),
   [Scene(Create, Reply(PN, "tb"), Transcript(PB, "tc"), {"webhook", "slack"}, [d |-> PB], PB :> "d") EXCEPT !.made = {}],
   Scene(Note("k", "ta"), Note("k", "tb"), Look, {"hubspot"}, Mapped, Cards),
   [Scene(Submit("ta"), Reply(PA, "tb"), Claim, {"hubspot", "answer"}, Mapped, Cards) EXCEPT !.helpdesk = {"t"}],
   Scene(Submit("ta"), Close, Redaction, {"slack"}, Mapped, Cards),
   Scene(Reply(PA, "ta"), Reply(PN, "tb"), Transcript(PA, "tc"), {"slack"}, <<>>, PA :> "t" @@ PN :> "c"),
   Scene([Reply(PA, "ta") EXCEPT !.links = TRUE], Reply(PN, "tb"), Note("t", "tc"), {}, <<>>, PA :> "t" @@ PN :> "t"),
   Scene([Reply(PA, "ta") EXCEPT !.links = TRUE], [Reply(PA, "ta") EXCEPT !.links = TRUE], Look, {"db"}, Mapped, Cards),
   Scene(Look, Note("t", "tb"), Look, {"hubspot"}, Mapped, Cards),
   Scene(Note("m", "ta"), Submit("tb"), Claim, {"tier", "owner", "hubspot"}, Mapped, Cards)}

\* Interactions: every registered handler but the ones modelled elsewhere, and
\* the troubles it can meet, alone and two at a time.
Asked(kind, action) == [kind |-> kind, action |-> action, pair |-> TRUE, feature |-> "none"]
Registry == INSTANCE Interactions WITH Asks <- {}
Buttons == (DOMAIN Registry!Handler \ (Registry!Submissions \cup {"report", "search", "gated_feature_click"}))
           \cup {"open_create_digest_modal", "unknown"}
MCAsks == {Asked("submission", a) : a \in Registry!Submissions} \cup {Asked("actions", a) : a \in Buttons}
  \cup {Asked("command", a) : a \in {"report", "search"}}
  \cup {Asked("suggestion", "x"), Asked("shortcut", "create_record"), Asked("usage", "help")}
  \cup {[Asked("actions", "gated_feature_click") EXCEPT !.feature = f] :
           f \in {"open_add_note_modal", "post_to_channel", "deal_stage", "id"}}
  \cup {[Asked("actions", a) EXCEPT !.pair = FALSE] : a \in {"open_add_note_modal", "ticket_reply", "update_deal_stage"}}
MCTroubles == {{}, {"hubspot", "slack"}, {"hubspot", "queue"}, {"answer"}, {"hubspot", "crash"}, {"rejected", "lapse"},
   {"gone", "late"}, {"removed"}, {"slack", "late"}, {"store"}, {"slow"}, {"queue", "crash"},
   {"hubspot", "nowhere"}}

\* Upkeep: a workspace on no plan and one that pays; mappings of either owner.
MCPlans == {[plan |-> "none", status |-> "inactive", trial |-> "none"],
            [plan |-> "pro", status |-> "active", trial |-> "none"]}
=============================================================================
