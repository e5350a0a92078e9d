------------------------------ MODULE Analysis ------------------------------
(***************************************************************************)
(* The analysis of HubSpot objects: scores, pulse, status and recommended  *)
(* action, computed from an object's properties and its engagements, with  *)
(* the sentiment of the texts taken from the table the sentiment function  *)
(* fills in the background (a neutral placeholder until then).             *)
(*                                                                         *)
(* Texts are model values; Mood is the sentiment of a text in hundredths,  *)
(* Intent the categories of keywords found in it.  The clock and the ages  *)
(* of engagements count tenths of an hour, other dates days; None stands   *)
(* for a date that is missing or cannot be parsed.  A wording is the name  *)
(* of its rule.                                                            *)
(***************************************************************************)
EXTENDS Integers, Sequences, FiniteSets, SequencesExt

CONSTANTS Texts, Mood, Intent,
          PulseWindow, BaselineWindow,  \* 10 and 50 in the code
          Objects,                      \* the objects a run looks at
          Waits                         \* the times that may pass without a word

None == -1000
Day == 240   \* tenths of an hour
AtLeast(x, lo) == IF x < lo THEN lo ELSE x
AtMost(x, hi) == IF x > hi THEN hi ELSE x
Clamp(x, lo, hi) == AtLeast(AtMost(x, hi), lo)
Trunc(a, b) == IF a >= 0 THEN a \div b ELSE -((-a) \div b)
Past(d, n) == d # None /\ d > n
Young(created) == created # None /\ created < 7

\* The value of the first rule <<condition, value>> whose condition holds.
First(rules) ==
  rules[CHOOSE i \in DOMAIN rules : rules[i][1] /\ \A k \in 1..(i - 1) : ~rules[k][1]][2]

\* ScoringConfig: the weights a workspace may change, with their defaults.
Defaults == [moderate |-> 5, high |-> 10, veryHigh |-> 15,
             highVisit |-> 30, moderateVisit |-> 15, qualified |-> 25, company |-> 10, email |-> 10,
             fresh |-> <<15, 8, 3>>, velocity |-> 15, stale |-> -15,
             decider |-> 25, gatekeeper |-> -15, business |-> 15,
             top |-> 100, recent |-> 10, active |-> 15, silent |-> -10, dealRecent |-> -15,
             slaHealthy |-> 10, slaWarning |-> 40]   \* tenths of an hour

----------------------------------------------------------------------------
(* The engagements of an object, and when something last happened.  They   *)
(* come grouped by type, in the order of the fetch and not of time, and a  *)
(* call comes without its direction, which is not among the properties     *)
(* asked for.                                                              *)

Fetched(notes, emails, meetings, calls, tasks) ==
  notes \o emails \o meetings \o [k \in DOMAIN calls |-> [calls[k] EXCEPT !.inbound = FALSE]] \o tasks

Dated(eng) == {i \in DOMAIN eng : eng[i].age # None}
Latest(eng) == CHOOSE a \in {eng[i].age : i \in Dated(eng)} : \A i \in Dated(eng) : a <= eng[i].age
Idle(eng, waited) == IF Dated(eng) = {} THEN None ELSE waited + Latest(eng)
LastActivity(eng, waited) == IF Dated(eng) = {} THEN None ELSE Trunc(waited + Latest(eng), Day)
Count30(eng, waited) == Cardinality({i \in Dated(eng) : eng[i].age + waited <= 30 * Day})
Recent(last) == last # None /\ last <= 7

----------------------------------------------------------------------------
(* Sentiment: what the customer wrote, weighted by its kind, over a window *)
(* of the engagements; scores in hundredths, weights in tenths.            *)

Weight(e) == CASE e.type \in {"calls", "emails"} -> 12 [] e.type = "notes" -> 8 [] OTHER -> 10
Counted(e) == e.text # "" /\ (e.type \in {"emails", "calls"} => e.inbound)
\* Mutant of Scored: the sign of a negative label is lost.
ScoredUnsigned(t, known) == IF t \notin DOMAIN known THEN 0 ELSE IF known[t] < 0 THEN -known[t] ELSE known[t]

Scored(t, known) == IF t \in DOMAIN known THEN known[t] ELSE 0

Weighed(e, known) == IF Counted(e) THEN Weight(e) * Scored(e.text, known) ELSE 0
Added(eng, from, to, known) ==
  LET sum[i \in 0..to] == IF i <= from THEN 0 ELSE sum[i - 1] + Weighed(eng[i], known)
  IN  sum[to]
Window(eng, from, until, known) ==
  LET to == AtMost(until, Len(eng)) IN
  [agg |-> Added(eng, from, to, known), hits |-> Cardinality({i \in (from + 1)..to : Counted(eng[i])})]

Level(w) == IF w.hits = 0 THEN 50 ELSE Trunc(w.agg + 1000 * w.hits, 20 * w.hits)
PulseOf(eng, known) == Level(Window(eng, 0, PulseWindow, known))
BaselineOf(eng, known) == Level(Window(eng, PulseWindow, BaselineWindow, known))

\* Mutant of Decayed: the time that takes a pulse to neutral counts from the
\* activity itself, and the penalty is forgotten.
DecayedSlowly(pulse, last, per) ==
  IF ~Past(last, 14) THEN pulse
  ELSE 50 + (IF last >= 106 THEN 0 ELSE Trunc((pulse - 50) * (106 - last), 92))

\* Time takes a pulse to neutral in 46 days after a fortnight, and silence
\* takes a point for every "per" days on top.
Decayed(pulse, last, per) ==
  IF ~Past(last, 14) THEN pulse
  ELSE LET d == last - 14
           faded == 50 + (IF d >= 46 THEN 0 ELSE Trunc((pulse - 50) * (46 - d), 46)) IN
       AtLeast(faded - d \div per, 10)

----------------------------------------------------------------------------
(* Contacts                                                                *)

RecencyBonus(c, cfg) ==
  CASE c.modified = None -> 0
    [] c.modified <= 2 -> cfg.fresh[1]
    [] c.modified \in 3..7 -> cfg.fresh[2]
    [] c.modified \in 8..30 -> cfg.fresh[3]
    [] OTHER -> 0
VelocityBonus(c, cfg) == IF c.visits > 0 /\ c.weekly >= 3 /\ 2 * c.weekly >= c.visits THEN cfg.velocity ELSE 0
TitleWeight(c, cfg) ==
  CASE c.title = "decider" -> cfg.decider [] c.title = "gatekeeper" -> cfg.gatekeeper [] OTHER -> 0
VisitWeight(c, cfg) ==
  CASE c.visits >= cfg.veryHigh -> cfg.highVisit
    [] c.visits < cfg.veryHigh /\ c.visits >= cfg.high -> Trunc(cfg.highVisit * 8, 10)
    [] c.visits < cfg.high /\ c.visits >= cfg.moderate -> cfg.moderateVisit
    [] OTHER -> 0
Qualified(c) == c.stage \in {"marketingqualifiedlead", "salesqualifiedlead"}
GenerateScore(c, cfg) ==
  Clamp(TitleWeight(c, cfg) + VisitWeight(c, cfg)
        + (IF c.email = "business" THEN cfg.business ELSE 0)
        + (IF Qualified(c) THEN cfg.qualified ELSE 0)
        + (IF c.company THEN cfg.company ELSE 0)
        + (IF c.email # "" THEN cfg.email ELSE 0)
        + RecencyBonus(c, cfg) + VelocityBonus(c, cfg), 0, cfg.top)

NextAction(c, last, count, score) ==
  First(<< <<score > 70 /\ (c.title = "" \/ ~c.industry), "data_gap">>,
           <<c.changed, "champion_at_risk">>,
           <<Past(last, 14), "momentum_fade">>,
           <<count >= 5, "high_velocity">>,
           <<c.stage = "salesqualifiedlead", "sql_ready">>,
           <<c.stage = "marketingqualifiedlead", "mql_nurture">>,
           <<c.stage = "lead" /\ c.visits >= 5, "hot_lead">>,
           <<c.visits >= 15, "extreme_intent">>,
           <<Young(c.created), "new_contact">>,
           <<last # None /\ last <= 2, "recently_active">>,
           <<TRUE, "standard">> >>)

AnalyzeContact(o, cfg, known, waited) ==
  LET last == LastActivity(o.eng, waited)
      count == Count30(o.eng, waited)
      pulse == Decayed(PulseOf(o.eng, known), last, 3)
      base == GenerateScore(o.props, cfg) + (IF Recent(last) THEN cfg.recent ELSE 0)
              + (IF count >= 5 THEN cfg.active ELSE 0) + (IF Past(last, 30) THEN cfg.silent ELSE 0)
      score == Clamp(base + (pulse - 50) \div 2, 0, cfg.top) IN
  [pulse |-> pulse, score |-> score,
   status |-> CASE Past(last, 21) -> "critical" [] last \in 8..21 -> "warning" [] OTHER -> "healthy",
   action |-> NextAction(o.props, last, count, score)]
----------------------------------------------------------------------------
(* Companies and deals                                                     *)

\* At most three different actions, those of the best scores first.
TopActions(contacts, cfg) ==
  LET Better(a, b) == GenerateScore(contacts[a], cfg) >= GenerateScore(contacts[b], cfg)
      order == SetToSortSeq(DOMAIN contacts,
                 LAMBDA a, b : IF Better(a, b) /\ Better(b, a) THEN a < b ELSE Better(a, b))
      Add(seq, i) == LET x == NextAction(contacts[i], None, 0, 0) IN
                     IF Len(seq) = 3 \/ x \in {seq[k] : k \in DOMAIN seq} THEN seq ELSE Append(seq, x)
  IN  FoldLeft(Add, <<>>, order)

\* A roll-up property of zero is replaced by a count of the associations.
Rollup(n, assoc) == IF n = 0 THEN Len(assoc) ELSE n
Health(c) ==
  LET contacts == Rollup(c.contacts, c.people)
      deals == Rollup(c.deals, c.assocDeals)
      points == (IF c.visits > 10 THEN 1 ELSE 0) + (IF contacts >= 1 THEN 1 ELSE 0)
                + (IF deals >= 1 THEN 1 ELSE 0) IN
  First(<< <<Young(c.created), <<"New", "new_account">> >>,
           <<points = 3, <<"Strong", "expansion">> >>,
           <<points = 2, <<"Healthy", "account_stable">> >>,
           <<points = 1, <<"Needs Attention", "weak_presence">> >>,
           <<TRUE, <<"At Risk", "cold_account">> >> >>)

AnalyzeCompany(o, cfg, known, waited) ==
  [pulse |-> Decayed(PulseOf(o.eng, known), LastActivity(o.eng, waited), 2),
   status |-> CASE Health(o.props)[1] = "At Risk" -> "critical"
                [] Health(o.props)[1] = "Needs Attention" -> "warning"
                [] OTHER -> "healthy",
   score |-> 0, action |-> Health(o.props)[2], top |-> TopActions(o.props.people, cfg)]

\* How long a deal may stay in a stage, by its amount.
StageLimit(amount) ==
  First(<< <<amount >= 100000, 120>>, <<amount >= 50000, 60>>, <<amount > 0, 30>>, <<TRUE, 84>> >>)
VelocityHealth(amount, days) ==
  First(<< <<2 * days > 3 * StageLimit(amount), "critical">>, <<days > StageLimit(amount), "warning">>,
           <<TRUE, "healthy">> >>)
StalenessPenalty(d, cfg) == IF Past(d.entered, 30) THEN cfg.stale ELSE 0

Risk(d, last) ==
  First(<< <<d.stage = "closedlost", "Lost">>, <<d.stage = "closedwon", "Won">>,
           <<Past(last, 14), "Stalling">>, <<Past(last, 3), "Silent">>,
           <<d.close # None /\ d.close \in 1..7, "Closing Soon">>,
           <<d.close # None /\ d.close < 0, "Overdue">>,
           <<Young(d.created), "New">>, <<TRUE, "Open">> >>)

\* The status of a deal without a decision maker is a warning at best.
AnalyzeDeal(o, cfg, known, waited) ==
  LET d == o.props
      last == LastActivity(o.eng, waited)
      velocity == VelocityHealth(d.amount, IF d.entered = None THEN 0 ELSE d.entered) IN
  [pulse |-> Decayed(PulseOf(o.eng, known), last, 1),
   score |-> Clamp(50 + StalenessPenalty(d, cfg)
                   + (IF Recent(last) THEN cfg.dealRecent ELSE 0)
                   + (IF Past(last, 30) THEN 10 ELSE 0), 0, 100),
   status |-> IF velocity = "healthy" /\ ~d.decider THEN "warning" ELSE velocity,
   action |-> Risk(d, last)]

----------------------------------------------------------------------------
(* Tickets and conversations                                               *)

\* What is left of the texts of a thread: not the app's own, not short ones.
Cleaned(eng) == SelectSeq(eng, LAMBDA e : e.text # "" /\ ~e.bot)

\* _extract_action_items: the strongest of the signals found in the texts.
Signals(found, sentiment) ==
  (IF "risk" \in found THEN {IF sentiment < 40 THEN <<12, "churn_risk">> ELSE <<10, "risk_alert">>} ELSE {})
  \union (IF "urgent" \in found THEN {<<11, "urgent_action">>} ELSE {})
  \union (IF "commercial" \in found
          THEN {IF sentiment > 70 THEN <<9, "expansion">> ELSE <<8, "commercial">>} ELSE {})
  \union (IF "action" \in found THEN {<<5, "pending_action">>} ELSE {})
ActionItem(eng, sentiment) ==
  LET found == UNION {Intent[eng[i].text] : i \in DOMAIN eng}
      signals == Signals(found, sentiment) IN
  IF signals = {} THEN "" ELSE (CHOOSE s \in signals : \A t \in signals : t[1] <= s[1])[2]

\* The pulse of a ticket after its breach of the SLA.
Breached(pulse, idle, cfg) ==
  IF idle > cfg.slaWarning THEN AtLeast(pulse - (idle - cfg.slaWarning), 10)
  ELSE IF idle > cfg.slaHealthy THEN AtLeast(pulse - 15, 20) ELSE pulse

Urgency(t, agitated) ==
  First(<< <<t.priority = "HIGH" \/ agitated, "Critical">>, <<t.priority = "MEDIUM", "Moderate">>,
           <<TRUE, "Low">> >>)
TicketAction(t, urgency, agitated, age, item) ==
  CASE urgency = "Critical" /\ item = "" ->
         First(<< <<agitated, "at_risk">>, <<age > 3, "sla_breach">>, <<TRUE, "urgent">> >>)
    [] urgency = "Moderate" /\ item = "" -> IF age > 7 THEN "stale_ticket" ELSE "standard_triage"
    [] urgency = "Low" -> IF age < 7 THEN "new_ticket" ELSE "backlog"
    [] OTHER -> item

\* A ticket with engagements is measured by its last activity, one without
\* by its age, and only the former's pulse suffers from the SLA.
AnalyzeTicket(o, cfg, known, waited) ==
  LET age == IF o.props.created = None THEN 0 ELSE o.props.created
      idle == IF Dated(o.eng) = {} THEN Day * age ELSE Idle(o.eng, waited)
      w == Window(o.eng, 0, PulseWindow, known)
      agitated == w.hits > 0 /\ w.agg < -400 * w.hits
      urgency == Urgency(o.props, agitated /\ o.slack) IN
  [pulse |-> IF o.eng = <<>> THEN 50 ELSE Breached(Level(w), idle, cfg),
   score |-> 0,
   status |-> First(<< <<idle > cfg.slaWarning, "critical">>, <<idle > cfg.slaHealthy, "warning">>,
                       <<TRUE, "healthy">> >>),
   urgency |-> urgency,
   action |-> TicketAction(o.props, urgency, agitated, age, ActionItem(Cleaned(o.eng), 50))]

\* A conversation is scored as one text, of which the model reads the
\* beginning, from -100 to 100 around 0.
AnalyzeConversation(o, known) ==
  LET texts == Cleaned(o.eng)
      item == ActionItem(texts, Scored(Head(texts).text, known)) IN
  [pulse |-> 50, score |-> 0, status |-> "OPEN",
   action |-> IF texts = <<>> THEN "active_thread" ELSE IF item = "" THEN "review" ELSE item]

AnalyzeTask(o) ==
  [pulse |-> 50, score |-> 0,
   status |-> IF o.props.status \in {"COMPLETED", "IN_PROGRESS"} THEN o.props.status ELSE "PENDING",
   action |-> CASE o.props.status = "COMPLETED" -> "task_done"
                [] o.props.status = "IN_PROGRESS" -> "in_progress" [] OTHER -> "new_task"]
AnalyzeLead(o, cfg) ==
  LET s == o.props.lead IN
  [pulse |-> 50, score |-> GenerateScore(o.props, cfg),
   status |-> CASE s \in {"CONNECTED", "OPEN"} -> "Active" [] s = "IN_PROGRESS" -> "In Progress"
                [] s = "UNQUALIFIED" -> "Unqualified" [] OTHER -> "New",
   action |-> CASE s \in {"CONNECTED", "OPEN"} -> "recently_active" [] s = "IN_PROGRESS" -> "mql_nurture"
                [] s = "UNQUALIFIED" -> "archive" [] OTHER -> "new_lead"]
AnalyzeAppointment(o) ==
  [pulse |-> 50, score |-> 0, status |-> o.props.status,
   action |-> CASE o.props.status = "COMPLETED" -> "meeting_done" [] o.props.status = "CANCELLED" -> "reschedule"
                [] o.props.status = "NO_SHOW" -> "no_show" [] OTHER -> "upcoming"]

----------------------------------------------------------------------------
(* The machine: an object is analysed again and again, while time passes   *)
(* without a word and the sentiment function fills its table.              *)

VARIABLES object, waited,
          known,   \* the table: scores by text
          asked,   \* the texts the sentiment function has been sent
          shown    \* the last analysis, with what it was made from
analysisVars == <<object, waited, known, asked, shown>>

Engagements(o) == Fetched(o.notes, o.emails, o.meetings, o.calls, o.tasks)

Aged(props, days) ==
  [f \in DOMAIN props |->
     CASE f \in {"modified", "created", "entered"} /\ props[f] # None -> props[f] + days
       [] f = "close" /\ props[f] # None -> props[f] - days
       [] OTHER -> props[f]]

AnalyzePolymorphic(raw, seen, time) ==
  LET o == [f \in DOMAIN raw \cup {"eng"} |->
              CASE f = "props" -> Aged(raw.props, time \div Day) [] f = "eng" -> Engagements(raw) [] OTHER -> raw[f]] IN
  CASE o.kind = "contact" -> AnalyzeContact(o, Defaults, seen, time)
    [] o.kind = "company" -> AnalyzeCompany(o, Defaults, seen, time)
    [] o.kind = "deal" -> AnalyzeDeal(o, Defaults, seen, time)
    [] o.kind = "ticket" -> AnalyzeTicket(o, Defaults, seen, time)
    [] o.kind = "conversation" -> AnalyzeConversation(o, seen)
    [] o.kind = "task" -> AnalyzeTask(o)
    [] o.kind = "lead" -> AnalyzeLead(o, Defaults)
    [] o.kind = "appointment" -> AnalyzeAppointment(o)

\* The texts an analysis looks up in one query; the second is for a baseline.
LookedUp(o, from, until) ==
  LET eng == SubSeq(Engagements(o), from + 1, AtMost(until, Len(Engagements(o))))
      texts == Cleaned(Engagements(o)) IN
  CASE o.kind \in {"task", "lead", "appointment"} \/ (from > 0 /\ o.kind \in {"ticket", "conversation"}) -> {}
    [] o.kind = "conversation" /\ from = 0 -> IF texts = <<>> THEN {} ELSE {Head(texts).text}
    [] OTHER -> {e.text : e \in {x \in ToSet(eng) : Counted(x)}}

NotShown == [at |-> 0, seen |-> <<>>, last |-> None, out |-> [pulse |-> 50, status |-> ""]]

AnalysisInit ==
  /\ object \in Objects
  /\ waited = 0 /\ known = <<>> /\ asked = {} /\ shown = NotShown

\* Each window is one query of the table, which may fail: then nothing is
\* known.  What it misses is sent, unless the invocation fails.  A score that
\* arrives between the queries counts as one that arrives after them.
Analyse ==
  \E seen, base \in {known, <<>>} :
    LET missing == LookedUp(object, 0, PulseWindow) \ DOMAIN seen
        older == LookedUp(object, PulseWindow, BaselineWindow) \ DOMAIN base IN
    /\ shown' = [at |-> waited, seen |-> seen, last |-> LastActivity(Engagements(object), waited),
                 out |-> AnalyzePolymorphic(object, seen, waited)]
    /\ asked' \in {asked \union sent : sent \in {{}, missing, older, missing \union older}}
    /\ UNCHANGED <<object, waited, known>>

\* An inference that fails is stored like one that finds nothing.
SentimentArrives(t) ==
  /\ t \in asked
  /\ \E s \in {Mood[t], 0} :
       known' = [u \in DOMAIN known \union {t} |-> IF u = t THEN s ELSE known[u]]
  /\ asked' = asked \ {t}
  /\ UNCHANGED <<object, waited, shown>>

SentimentFails(t) ==
  /\ t \in asked
  /\ asked' = asked \ {t}
  /\ UNCHANGED <<object, waited, known, shown>>

TimePasses(t) ==
  /\ t > waited
  /\ waited' = t
  /\ UNCHANGED <<object, known, asked, shown>>

AnalysisNext ==
  \/ Analyse
  \/ \E t \in Texts : SentimentArrives(t) \/ SentimentFails(t)
  \/ \E t \in Waits : TimePasses(t)

----------------------------------------------------------------------------
(* Two months after the last activity no contact, company or deal has a    *)
(* pulse above neutral, whatever the customer wrote: the decay and the     *)
(* penalty of AIService's analyzers meet for every mood.                   *)
SilenceShows ==
  object.kind \in {"contact", "company", "deal"} /\ shown.last >= 60 => shown.out.pulse \in 10..50

(* The sentiment of a text replaces its neutral placeholder.  If it is bad *)
(* news, the card shown next is not a better one, at the same moment or,   *)
(* but for a ticket, on the same day of silence: no higher pulse.  Later a *)
(* ticket's pulse may rise as its SLA is missed, to the floor of the first *)
(* limit, and by the 15 points that the second takes back, no further; and *)
(* it does not return from critical.                                       *)
NoBetterCard ==
  LET Stored(t, table) == IF t \in DOMAIN table THEN table[t] ELSE 0
      ticket == object.kind = "ticket" IN
  /\ shown # NotShown
  /\ \A t \in Texts : Stored(t, shown'.seen) <= Stored(t, shown.seen)
  => /\ (IF ticket THEN shown'.at = shown.at ELSE shown'.last = shown.last)
          => shown'.out.pulse <= shown.out.pulse
     /\ ticket => shown'.out.pulse <= IF shown.out.status = "warning" THEN shown.out.pulse + 15
                                      ELSE AtLeast(shown.out.pulse, 20)
     /\ ticket /\ shown.out.urgency = "Critical" => shown'.out.urgency = "Critical"
=============================================================================
