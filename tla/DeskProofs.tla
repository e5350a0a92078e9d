------------------------------ MODULE DeskProofs ------------------------------
(***************************************************************************)
(* What is proved of Desk, for any plausible scenes.                       *)
(***************************************************************************)
EXTENDS Desk, FiniteSetTheorems, NaturalsInduction, WellFoundedInduction, SequenceTheorems, TLAPS

CONSTANT Scenes

DeskSpec == (\E s \in Scenes : DeskInit(s)) /\ [][DeskNext]_deskVars

----------------------------------------------------------------------------
(* Control: what a request of a kind goes through.  A message names no     *)
(* record until its thread is resolved.                                    *)
Filing == {"create", "link", "invalidate", "done", "failed"}
Unplaced == {"event", "human", "publish", "resolve", "parent", "unresolved", "ignored", "lost"}
OnPath(k, s) ==
  \/ k = "reply" /\ s \in Unplaced \cup Filing \cup {"lazy", "thread", "comment", "search", "append", "uncache"}
  \/ k = "redaction" /\ s \in {"event", "redact", "ignored", "done"}
  \/ k = "submit" /\ s \in {"submitreply", "thread", "comment", "failed", "invalidate", "post", "done"}
  \/ k = "note" /\ s \in Filing \cup {"addnote", "readtask", "writetask"}
  \/ k = "transcript" /\ s \in Filing \cup {"ensure", "history"}
  \/ k = "look" /\ s \in {"look", "fetch", "store", "done"}
  \/ k = "create" /\ s \in {"ticket", "card", "map", "done", "failed"}
  \/ k = "claim" /\ s \in {"claimed", "ticketupdate", "post", "done", "failed"}
  \/ k = "close" /\ s \in {"ticketupdate", "post", "done", "failed"}
Says == {"reply", "submit", "note", "transcript"}

Fit(r) ==
  /\ DOMAIN r = JobFields /\ OnPath(r.kind, r.pc)
  /\ r.host \in Hosts /\ r.pl \in Places /\ r.read \in Seq(Words)
  /\ r.on \in Records \/ r.kind = "redaction" \/ (r.kind = "reply" /\ r.pc \in Unplaced)
  /\ IF r.kind \in Says THEN r.text \in Words ELSE r.text = Nobody

\* Where notes are: a note is appended to under its record, and linked once.
Noted(r) ==
  /\ r.pc = "append" => r.note \in DOMAIN notes /\ notes[r.note].on = r.on
  /\ r.pc = "link" => r.note \in DOMAIN notes /\ notes[r.note].on = Nobody /\ notes[r.note].body = <<r.text>>

OneMessage(j, k) == job[j].kind = "reply" /\ job[k].kind = "reply" /\ job[j].ev = job[k].ev /\ job[j].pl = job[k].pl

Note == [log : BOOLEAN, today : BOOLEAN, on : Records \cup {Nobody}, body : Seq(Words)]
Tidy ==
  /\ DOMAIN job = Work /\ (\A j \in Work : Fit(job[j]) /\ Noted(job[j]))
  /\ notes \in Seq(Note) /\ task \in [Records -> Seq(Words)]
  /\ map \in [Records -> Places \cup {Nobody}] /\ about \in [Places -> Records \cup {Nobody}]
  /\ Nobody \notin Records \cup Places /\ (\A x \in DOMAIN Contact : Contact[x] \in Records)
  /\ \A j, k \in Work : j # k /\ job[j].text = job[k].text /\ job[j].text # Nobody => OneMessage(j, k)
  /\ \A j, k \in Work : j # k /\ At(j, "link") /\ At(k, "link") => job[j].note # job[k].note

----------------------------------------------------------------------------
(* Threads: what a thread is about stays so, and no one replies in it      *)
(* before its first message is there.                                      *)
Rooms ==
  /\ \A c \in Work : job[c].kind = "create" =>
       /\ job[c].pl \in legible /\ (\A k \in Work : k # c /\ job[k].kind = "create" => job[k].pl # job[c].pl)
       /\ job[c].pc \in {"ticket", "card"} => about[job[c].pl] = Nobody /\ RecordType[job[c].on] = "ticket"
       /\ job[c].pc = "map" => about[job[c].pl] = job[c].on
  /\ \A k \in Work : job[k].kind = "reply" =>
       /\ job[k].pc # "event" => Begun(job[k].pl)
       /\ \A r \in Records : map[r] = job[k].pl => about[job[k].pl] = r
       /\ \A j \in Work : job[j].kind = "transcript" /\ job[j].pl = job[k].pl => about[job[k].pl] = job[j].on

\* A reply that has found a record has found the one its thread is about.
Home == \A k \in Work : job[k].kind = "reply" /\ job[k].pc \notin Unplaced => about[job[k].pl] = job[k].on

\* Whose a text is: its record's, wherever it stands.
Owner(k) == IF job[k].kind = "reply" THEN about[job[k].pl] ELSE IF At(k, "addnote") THEN Nobody ELSE job[k].on
InNotes(t, r) == \A i \in DOMAIN notes : t \in ToSet(notes[i].body) => notes[i].on \in {Nobody, r}
InHand(t, r) == \A j \in Work : t \in ToSet(job[j].read) /\ (At(j, "append") \/ At(j, "writetask")) => job[j].on = r
InTalk(t, r) == \A x \in talk : x[2] = t => x[1] = r
InTasks(t, r) == \A x \in Records : t \in ToSet(task[x]) => x = r
AtHome(t, r) == InNotes(t, r) /\ InHand(t, r) /\ InTalk(t, r) /\ InTasks(t, r)
Homely == /\ talk \subseteq Records \X Words \X Work
          /\ \A k \in Work : job[k].text # Nobody => AtHome(job[k].text, Owner(k))

\* A card that does not name its record is the one the record is mapped to.
Mapped == "moved" \in faults \/
  \A k \in Work : LET p == job[k].pl IN
    job[k].kind = "reply" /\ InThread(p) /\ ~Names(p) /\ about[p] # Nobody => map[about[p]] = p
Resolvable == Mapped /\ \A k \in Work : At(k, "parent") => Names(job[k].pl) \/ about[job[k].pl] = Nobody \/ "moved" \in faults
----------------------------------------------------------------------------
\* What never changes of a request.
Same(q, r) == /\ q.kind = r.kind /\ q.text = r.text /\ q.ev = r.ev /\ q.pl = r.pl /\ q.links = r.links

LEMMA OwnStep ==
  ASSUME DOMAIN job = Work, NEW j \in Work, DeskStep(j) \/ WorkerDies(j)
  PROVE  DOMAIN job' = Work /\ (\A k \in Work : k # j => job'[k] = job[k]) /\ legible' = legible
<1>1. (\E q : Set(j, q)) /\ legible' = legible
  <2>1. CASE Deliver(j)
    BY <2>1 DEF Deliver, Goto, fixed
  <2>2. CASE Human(j)
    BY <2>2 DEF Human, Goto, fixed
  <2>3. CASE Redact(j)
    BY <2>3 DEF Redact, Goto, fixed
  <2>4. CASE Publish(j)
    BY <2>4 DEF Publish, Goto, fixed
  <2>5. CASE Resolve(j)
    BY <2>5 DEF Resolve, Goto, fixed
  <2>6. CASE Parent(j)
    BY <2>6 DEF Parent, Goto, fixed
  <2>7. CASE Lazy(j)
    BY <2>7 DEF Lazy, Goto, fixed
  <2>8. CASE AddNote(j)
    BY <2>8 DEF AddNote, Goto, fixed
  <2>9. CASE SubmitReply(j)
    BY <2>9 DEF SubmitReply, Goto, fixed
  <2>10. CASE Claim(j)
    BY <2>10 DEF Claim, Goto, fixed
  <2>11. CASE Thread(j)
    BY <2>11 DEF Thread, Goto, fixed
  <2>12. CASE Comment(j)
    BY <2>12 DEF Comment, Goto, fixed
  <2>13. CASE Search(j)
    BY <2>13 DEF Search, Goto, fixed
  <2>14. CASE AppendToLog(j)
    BY <2>14 DEF AppendToLog, Goto, fixed
  <2>15. CASE CreateNote(j)
    BY <2>15 DEF CreateNote, Goto, fixed
  <2>16. CASE LinkNote(j)
    BY <2>16 DEF LinkNote, Goto, fixed
  <2>17. CASE ReadTask(j)
    BY <2>17 DEF ReadTask, Goto, fixed
  <2>18. CASE WriteTask(j)
    BY <2>18 DEF WriteTask, Goto, fixed
  <2>19. CASE Uncache(j)
    BY <2>19 DEF Uncache, Goto, fixed
  <2>20. CASE Invalidate(j)
    BY <2>20 DEF Invalidate, Goto, fixed
  <2>21. CASE Look(j)
    BY <2>21 DEF Look, Goto, fixed
  <2>22. CASE Fetch(j)
    BY <2>22 DEF Fetch, Goto, fixed
  <2>23. CASE Store(j)
    BY <2>23 DEF Store, Goto, fixed
  <2>24. CASE CreateTicket(j)
    BY <2>24 DEF CreateTicket, Goto, fixed
  <2>25. CASE TicketCard(j)
    BY <2>25 DEF TicketCard, Goto, fixed
  <2>26. CASE MapTicket(j)
    BY <2>26 DEF MapTicket, Goto, fixed
  <2>27. CASE Ensure(j)
    BY <2>27 DEF Ensure, Goto, fixed
  <2>28. CASE History(j)
    BY <2>28 DEF History, Goto, fixed
  <2>29. CASE ClaimOrClose(j)
    BY <2>29 DEF ClaimOrClose, Goto, fixed
  <2>30. CASE Post(j)
    BY <2>30 DEF Post, Goto, fixed
  <2>31. CASE WorkerDies(j)
    BY <2>31 DEF WorkerDies, Goto
  <2> QED BY <2>1, <2>2, <2>3, <2>4, <2>5, <2>6, <2>7, <2>8, <2>9, <2>10, <2>11, <2>12, <2>13, <2>14, <2>15, <2>16, <2>17, <2>18, <2>19, <2>20, <2>21, <2>22, <2>23, <2>24, <2>25, <2>26, <2>27, <2>28, <2>29, <2>30, <2>31 DEF DeskStep
<1> QED BY <1>1 DEF Set

(* Of finitely many numbers one is the last.                               *)
LEMMA LastOf ==
  ASSUME NEW n \in Nat, NEW S \in SUBSET (1..n), S # {}
  PROVE  Max(S) \in S
<1> DEFINE T == {n - i : i \in S}
<1>1. T \subseteq Nat /\ T # {}
  <2>1. \A i \in S : i \in 1..n /\ n - i \in Nat
    OBVIOUS
  <2> QED BY <2>1
<1>2. \E k \in T : \A i \in T : ~(<<i, k>> \in OpToRel(<, Nat))
  <2> HIDE DEF T
  <2> QED BY <1>1, WFMin, NatLessThanWellFounded
<1>3. PICK k \in T : \A i \in T : ~(i < k)
  <2>1. PICK k \in T : \A i \in T : ~(<<i, k>> \in OpToRel(<, Nat))
    BY <1>2
  <2> HIDE DEF T
  <2>3. ASSUME NEW i \in T, i < k PROVE <<i, k>> \in OpToRel(<, Nat)
    BY <1>1, <2>1, <2>3 DEF OpToRel
  <2> QED BY <2>1, <2>3
<1>4. \E m \in S : \A i \in S : m >= i
  <2>1. PICK m \in S : k = n - m
    BY <1>3
  <2>2. \A i \in S : ~(n - i < n - m)
    BY <1>3, <2>1
  <2> QED BY <2>2
<1> QED BY <1>4 DEF Max

\* What a step may do to the request it is of.
Turns(q, r) ==
  /\ Fit(q) /\ Same(q, r) /\ q.pc \notin {"event", "ticket", "addnote"}
  /\ q.pc = "card" => r.pc = "ticket"
  /\ q.pc = "map" => r.pc = "card"
  /\ q.pc = "link" => r.pc = "create"
  /\ q.pc = "parent" => r.pc = "resolve" /\ InThread(r.pl) /\ (\A x \in Records : map[x] # r.pl)
  /\ q.pc = "append" => /\ r.pc = "search" /\ q.on = r.on /\ q.note \in DOMAIN notes
                        /\ notes[q.note].on = q.on /\ q.read = notes[q.note].body
  /\ q.pc = "writetask" => r.pc = "readtask" /\ q.read = task[q.on]
  /\ q.pc \notin {"append", "writetask"} => q.read = r.read
  /\ r.pc \notin Unplaced \cup {"addnote"} => q.on = r.on
  /\ r.pc # "publish" => q.host = r.host
  /\ r.pc \in Unplaced /\ q.pc \notin Unplaced /\ r.kind = "reply" =>
       q.on \in Records /\ (map[q.on] = r.pl \/ about[r.pl] = q.on)
  /\ q.pc = "unresolved" => \/ r.pc = "resolve" /\ ~InThread(r.pl)
                            \/ r.pc = "parent" /\ (~Names(r.pl) \/ "parent" \in faults')

LEMMA Fits ==
  ASSUME NEW r, NEW q, Fit(r), DOMAIN q = JobFields, Same(q, r), OnPath(r.kind, q.pc), q.host \in Hosts, q.read \in Seq(Words),
         q.on = r.on \/ q.on \in Records, r.kind = "reply" /\ r.pc \in Unplaced => q.pc \in Unplaced \/ q.on \in Records
  PROVE  Fit(q)
BY DEF Fit, Same

LEMMA StepTurns ==
  ASSUME Tidy, NEW j \in Work, DeskStep(j) \/ WorkerDies(j)
  PROVE  Turns(job'[j], job[j])
<1>0. DOMAIN job = Work /\ Fit(job[j]) /\ DOMAIN job[j] = JobFields
  BY DEF Tidy, Fit
<1> USE DEF OnPath, Filing, Unplaced, Says, JobFields, At, Set, Goto
<1>1. CASE Deliver(j)
  BY <1>0, <1>1 DEF Deliver, Turns, Fit, Same
<1>2. CASE Human(j)
  BY <1>0, <1>2 DEF Human, Turns, Fit, Same
<1>3. CASE Redact(j)
  BY <1>0, <1>3 DEF Redact, Turns, Fit, Same
<1>4. CASE SubmitReply(j)
  BY <1>0, <1>4 DEF SubmitReply, Turns, Fit, Same
<1>5. CASE Claim(j)
  BY <1>0, <1>5 DEF Claim, Turns, Fit, Same
<1>6. CASE Thread(j)
  BY <1>0, <1>6 DEF Thread, Turns, Fit, Same
<1>7. CASE AppendToLog(j)
  BY <1>0, <1>7 DEF AppendToLog, Turns, Fit, Same
<1>8. CASE LinkNote(j)
  BY <1>0, <1>8 DEF LinkNote, Turns, Fit, Same
<1>9. CASE WriteTask(j)
  BY <1>0, <1>9 DEF WriteTask, Turns, Fit, Same
<1>10. CASE Uncache(j)
  BY <1>0, <1>10 DEF Uncache, Turns, Fit, Same
<1>11. CASE Invalidate(j)
  BY <1>0, <1>11 DEF Invalidate, Turns, Fit, Same
<1>12. CASE Store(j)
  BY <1>0, <1>12 DEF Store, Turns, Fit, Same
<1>13. CASE CreateTicket(j)
  BY <1>0, <1>13 DEF CreateTicket, Turns, Fit, Same
<1>14. CASE TicketCard(j)
  BY <1>0, <1>14 DEF TicketCard, Turns, Fit, Same
<1>15. CASE MapTicket(j)
  BY <1>0, <1>15 DEF MapTicket, Turns, Fit, Same
<1>16. CASE Ensure(j)
  BY <1>0, <1>16 DEF Ensure, Turns, Fit, Same
<1>17. CASE History(j)
  BY <1>0, <1>17 DEF History, Turns, Fit, Same
<1>18. CASE ClaimOrClose(j)
  BY <1>0, <1>18 DEF ClaimOrClose, Turns, Fit, Same
<1>19. CASE Post(j)
  BY <1>0, <1>19 DEF Post, Turns, Fit, Same
<1>20. CASE WorkerDies(j)
  BY <1>0, <1>20 DEF WorkerDies, Turns, Fit, Same, Over

<1>40. CASE Publish(j)
  <2>1. CASE Goto(j, "resolve")
    BY <1>0, <1>40, <2>1 DEF Publish, Turns, Fit, Same
  <2>2. CASE \E h \in Hosts : Set(j, [job[j] EXCEPT !.pc = "resolve", !.queued = TRUE, !.host = h])
    <3>1. PICK h \in Hosts : job'[j] = [job[j] EXCEPT !.pc = "resolve", !.queued = TRUE, !.host = h]
      BY <1>0, <2>2
    <3>2. /\ DOMAIN job'[j] = JobFields /\ job'[j].pc = "resolve" /\ job'[j].host \in Hosts /\ job'[j].on = job[j].on
          /\ job'[j].read = job[j].read /\ Same(job'[j], job[j])
      BY <1>0, <3>1 DEF Same
    <3> QED BY <1>0, <1>40, <3>2, Fits DEF Publish, Turns, Fit
  <2> QED BY <1>40, <2>1, <2>2 DEF Publish
<1>41. CASE Resolve(j)
  <2>1. CASE \E x \in Records : map[x] = job[j].pl /\ job'[j] = [job[j] EXCEPT !.pc = Way(x), !.on = x]
    <3>1. PICK x \in Records : map[x] = job[j].pl /\ job'[j] = [job[j] EXCEPT !.pc = Way(x), !.on = x]
      BY <2>1
    <3>2. /\ DOMAIN job'[j] = JobFields /\ job'[j].pc = Way(x) /\ job'[j].on = x /\ job'[j].host = job[j].host
          /\ job'[j].read = job[j].read /\ Same(job'[j], job[j])
      BY <1>0, <3>1 DEF Same
    <3>3. Way(x) \in {"thread", "comment", "create"} /\ job[j].pc = "resolve"
      BY <1>41 DEF Way, Resolve
    <3> QED BY <1>0, <3>1, <3>2, <3>3, Fits DEF Turns, Fit
  <2>2. CASE (\A x \in Records : map[x] # job[j].pl) /\ job'[j] = [job[j] EXCEPT !.pc = IF InThread(job[j].pl) THEN "parent" ELSE "unresolved"]
    BY <1>0, <1>41, <2>2 DEF Resolve, Turns, Fit, Same
  <2> QED BY <1>0, <1>41, <2>1, <2>2 DEF Resolve
<1>42. CASE Parent(j)
  <2> DEFINE x == about[job[j].pl]
  <2>0. job[j].pc = "parent" /\ job[j].kind = "reply" /\ x \in Records \cup {Nobody}
    BY <1>0, <1>42 DEF Parent, Tidy, Fit
  <2>1. CASE job'[j] = [job[j] EXCEPT !.pc = "unresolved"] /\ (~Names(job[j].pl) \/ "parent" \in faults')
    BY <1>0, <2>0, <2>1 DEF Turns, Fit, Same
  <2>2. CASE x # Nobody /\ job'[j] = [job[j] EXCEPT !.pc = IF RecordType[x] = "conversation" THEN "comment" ELSE "lazy", !.on = x]
    <3>1. /\ DOMAIN job'[j] = JobFields /\ job'[j].pc \in {"comment", "lazy"} /\ job'[j].on = x /\ job'[j].host = job[j].host
          /\ job'[j].read = job[j].read /\ Same(job'[j], job[j])
      BY <1>0, <2>2 DEF Same
    <3> QED BY <1>0, <2>0, <2>2, <3>1, Fits DEF Turns, Fit
  <2> QED BY <1>0, <1>42, <2>1, <2>2 DEF Parent, Blame, Names
<1>43. CASE Lazy(j)
  <2>1. job[j].pc = "lazy" /\ job'[j] = [job[j] EXCEPT !.pc = Way(job[j].on)] /\ Way(job[j].on) \in {"thread", "comment", "create"}
    BY <1>0, <1>43 DEF Lazy, Way
  <2> HIDE DEF Way
  <2> QED BY <1>0, <2>1 DEF Turns, Fit, Same
<1>44. CASE AddNote(j)
  <2> DEFINE On == (IF job[j].on \in DOMAIN Contact THEN {Contact[job[j].on]} ELSE {job[j].on})
                   \cup (IF Fails("hubspot") THEN {job[j].on} ELSE {})
  <2>1. PICK x \in On : job'[j] = [job[j] EXCEPT !.on = x, !.pc = IF RecordType[x] = "task" THEN "readtask" ELSE "create"]
    BY <1>0, <1>44 DEF AddNote
  <2>2. job[j].pc = "addnote" /\ job[j].kind = "note" /\ x \in Records
    BY <1>0, <1>44 DEF AddNote, Tidy, Fit
  <2>3. /\ DOMAIN job'[j] = JobFields /\ job'[j].pc \in {"readtask", "create"} /\ job'[j].on = x /\ job'[j].host = job[j].host
        /\ job'[j].read = job[j].read /\ Same(job'[j], job[j])
    BY <1>0, <2>1 DEF Same
  <2> QED BY <1>0, <2>2, <2>3, Fits DEF Turns, Fit
<1>45. CASE Comment(j)
  <2>1. job[j].pc = "comment" /\ \E s \in {"done", "invalidate", "failed"} : job'[j] = [job[j] EXCEPT !.pc = s]
    BY <1>0, <1>45 DEF Comment, AfterFiling
  <2> QED BY <1>0, <2>1 DEF Turns, Fit, Same
<1>46. CASE Search(j)
  <2> DEFINE found == Log(job[j].on)
  <2>0. job[j].pc = "search" /\ job[j].kind = "reply"
    BY <1>0, <1>46 DEF Search, Fit
  <2>1. CASE job'[j] = [job[j] EXCEPT !.pc = "create"]
    BY <1>0, <2>0, <2>1 DEF Turns, Fit, Same
  <2>2. CASE found # {} /\ job'[j] = [job[j] EXCEPT !.pc = "append", !.note = Max(found), !.read = notes[Max(found)].body]
    <3>1. Max(found) \in found
      <4>1. Len(notes) \in Nat /\ DOMAIN notes = 1..Len(notes)
        BY LenProperties DEF Tidy
      <4>2. found \in SUBSET DOMAIN notes
        BY DEF Log, Linked
      <4> HIDE DEF found
      <4> QED BY <2>2, <4>1, <4>2, LastOf
    <3>2. Max(found) \in DOMAIN notes /\ notes[Max(found)].on = job[j].on
      BY <3>1 DEF Log, Linked
    <3>3. notes[Max(found)].body \in Seq(Words)
      <4>1. notes[Max(found)] \in Note
        BY <3>2, ElementOfSeq, LenProperties DEF Tidy
      <4> QED BY <4>1 DEF Note
    <3>4. /\ DOMAIN job'[j] = JobFields /\ job'[j].pc = "append" /\ job'[j].on = job[j].on /\ job'[j].host = job[j].host
          /\ job'[j].note = Max(found) /\ job'[j].read = notes[Max(found)].body /\ Same(job'[j], job[j])
      BY <1>0, <2>2 DEF Same
    <3> QED BY <1>0, <2>0, <3>2, <3>3, <3>4, Fits DEF Turns, Fit
  <2> QED BY <1>0, <1>46, <2>1, <2>2 DEF Search
<1>47. CASE CreateNote(j)
  <2>0. job[j].pc = "create" /\ job[j].kind \in {"reply", "note", "transcript"}
    BY <1>0, <1>47 DEF CreateNote, Fit
  <2>1. CASE job'[j] = [job[j] EXCEPT !.pc = "failed"]
    BY <1>0, <2>0, <2>1 DEF Turns, Fit, Same
  <2>2. CASE job'[j] = [job[j] EXCEPT !.pc = "link", !.note = Len(notes) + 1]
    <3>1. /\ DOMAIN job'[j] = JobFields /\ job'[j].pc = "link" /\ job'[j].on = job[j].on /\ job'[j].host = job[j].host
          /\ job'[j].read = job[j].read /\ Same(job'[j], job[j])
      BY <1>0, <2>2 DEF Same
    <3> QED BY <1>0, <2>0, <3>1, Fits DEF Turns, Fit
  <2> QED BY <1>0, <1>47, <2>1, <2>2 DEF CreateNote
<1>48. CASE ReadTask(j)
  <2>0. job[j].pc = "readtask" /\ job[j].kind = "note" /\ job[j].on \in Records
    BY <1>0, <1>48 DEF ReadTask, Fit
  <2>1. CASE job'[j] = [job[j] EXCEPT !.pc = "failed"]
    BY <1>0, <2>0, <2>1 DEF Turns, Fit, Same
  <2>2. CASE job'[j] = [job[j] EXCEPT !.pc = "writetask", !.read = task[job[j].on]]
    <3>1. /\ DOMAIN job'[j] = JobFields /\ job'[j].pc = "writetask" /\ job'[j].on = job[j].on /\ job'[j].host = job[j].host
          /\ job'[j].read = task[job[j].on] /\ Same(job'[j], job[j])
      BY <1>0, <2>2 DEF Same
    <3>2. task[job[j].on] \in Seq(Words)
      BY <2>0 DEF Tidy
    <3> QED BY <1>0, <2>0, <3>1, <3>2, Fits DEF Turns, Fit
  <2> QED BY <1>0, <1>48, <2>1, <2>2 DEF ReadTask
<1>49. CASE Look(j)
  <2>0. job[j].pc = "look" /\ job[j].kind = "look"
    BY <1>0, <1>49 DEF Look, Fit
  <2>1. /\ DOMAIN job'[j] = JobFields /\ job'[j].pc \in {"fetch", "done"} /\ job'[j].on = job[j].on /\ job'[j].host = job[j].host
        /\ job'[j].read = job[j].read /\ Same(job'[j], job[j])
    BY <1>0, <1>49 DEF Same, Look
  <2> QED BY <1>0, <2>0, <2>1, Fits DEF Turns, Fit
<1>50. CASE Fetch(j)
  <2>0. job[j].pc = "fetch" /\ job[j].kind = "look"
    BY <1>0, <1>50 DEF Fetch, Fit
  <2>1. /\ DOMAIN job'[j] = JobFields /\ job'[j].pc = "store" /\ job'[j].on = job[j].on /\ job'[j].host = job[j].host
        /\ job'[j].read = job[j].read /\ Same(job'[j], job[j])
    <3>1. \E g : job'[j] = [job[j] EXCEPT !.pc = "store", !.got = g]
      BY <1>0, <1>50 DEF Fetch
    <3> QED BY <1>0, <3>1 DEF Same
  <2> QED BY <1>0, <2>0, <2>1, Fits DEF Turns, Fit
<1> QED BY <1>1, <1>2, <1>3, <1>4, <1>5, <1>6, <1>7, <1>8, <1>9, <1>10, <1>11, <1>12, <1>13, <1>14, <1>15, <1>16, <1>17, <1>18, <1>19, <1>20, <1>40, <1>41, <1>42, <1>43, <1>44, <1>45, <1>46, <1>47, <1>48, <1>49, <1>50 DEF DeskStep

\* What it may do to the rest.
Appends(r) == /\ r.pc = "append" /\ notes' = [notes EXCEPT ![r.note].body = Append(r.read, r.text)]
              /\ notes[r.note].body = r.read \/ "overlap" \in faults'
Creates(q, r) == /\ r.pc = "create" /\ q.pc = "link" /\ q.note = Len(notes) + 1
                 /\ \E b \in BOOLEAN : notes' = Append(notes, [log |-> b, today |-> TRUE, on |-> Nobody, body |-> <<r.text>>])
Links(r) == r.pc = "link" /\ notes' = [notes EXCEPT ![r.note].on = r.on]
Moves(r) == /\ r.pc = "lazy" \/ (r.pc \in {"map", "ensure"} /\ map[r.on] = Nobody)
            /\ map[r.on] = Nobody \/ "moved" \in faults'
            /\ map' = [map EXCEPT ![r.on] = r.pl]
Writes(q, r, j) ==
  /\ (UNCHANGED notes /\ q.pc # "link") \/ Appends(r) \/ Creates(q, r) \/ Links(r)
  /\ UNCHANGED talk \/ (r.pc = "comment" /\ talk' = talk \cup {<<r.on, r.text, j>>})
  /\ UNCHANGED task \/ (/\ r.pc = "writetask" /\ task' = [task EXCEPT ![r.on] = Append(r.read, r.text)]
                        /\ task[r.on] = r.read \/ "overlap" \in faults')
  /\ UNCHANGED map \/ Moves(r)
  /\ (UNCHANGED about /\ q.pc # "map") \/ (r.pc = "card" /\ q.pc = "map" /\ about' = [about EXCEPT ![r.pl] = r.on])
  /\ faults \subseteq faults' /\ (r.pc = "event" /\ q.pc # "event" => Begun(r.pl))

\* How a text gets past its filing.
Past == {"uncache", "invalidate", "post", "done"}
Files(q, r, j) == r.text # Nobody /\ q.pc \in Past =>
  \/ r.pc \in Past
  \/ Appends(r)
  \/ r.pc = "link" /\ (Links(r) \/ "link" \in faults')
  \/ r.pc = "comment" /\ <<r.on, r.text, j>> \in talk'
  \/ r.pc = "writetask" /\ task' = [task EXCEPT ![r.on] = Append(r.read, r.text)]

LEMMA StepWrites ==
  ASSUME Tidy, NEW j \in Work, DeskStep(j) \/ WorkerDies(j)
  PROVE  Writes(job'[j], job[j], j) /\ Files(job'[j], job[j], j)
<1>0. DOMAIN job = Work /\ DOMAIN job[j] = JobFields
  BY DEF Tidy, Fit
<1>a. Turns(job'[j], job[j])
  BY StepTurns
<1>b. job[j].pc \in {"redact", "look", "fetch", "store", "ticket", "card", "map", "claimed", "ticketupdate"} => job[j].text = Nobody
  <2>1. Fit(job[j])
    BY DEF Tidy
  <2> QED BY <2>1 DEF Fit, OnPath, Says, Unplaced, Filing
<1>c. \A x \in Records : Way(x) \in {"thread", "comment", "create"}
  BY DEF Way
<1> USE DEF At, Set, Goto, hubspot, Blame, JobFields, Files, Past
<1>1. CASE Deliver(j)
  BY <1>0, <1>a, <1>b, <1>1 DEF Deliver, Writes
<1>2. CASE Human(j)
  BY <1>0, <1>a, <1>b, <1>2 DEF Human, Writes
<1>3. CASE Redact(j)
  BY <1>0, <1>a, <1>b, <1>3 DEF Redact, Writes
<1>4. CASE Publish(j)
  BY <1>0, <1>a, <1>b, <1>4 DEF Publish, Writes
<1>5. CASE Resolve(j)
  BY <1>0, <1>a, <1>b, <1>c, <1>5 DEF Resolve, Writes
<1>6. CASE Parent(j)
  BY <1>0, <1>a, <1>b, <1>6 DEF Parent, Writes
<1>7. CASE Lazy(j)
  BY <1>0, <1>a, <1>b, <1>7 DEF Lazy, Writes, Moves, Way
<1>8. CASE AddNote(j)
  BY <1>0, <1>a, <1>b, <1>8 DEF AddNote, Writes
<1>9. CASE SubmitReply(j)
  BY <1>0, <1>a, <1>b, <1>9 DEF SubmitReply, Writes
<1>10. CASE Claim(j)
  BY <1>0, <1>a, <1>b, <1>10 DEF Claim, Writes
<1>11. CASE Thread(j)
  BY <1>0, <1>a, <1>b, <1>11 DEF Thread, Writes
<1>12. CASE Comment(j)
  BY <1>0, <1>a, <1>b, <1>12 DEF Comment, Writes, AfterFiling
<1>13. CASE Search(j)
  BY <1>0, <1>a, <1>b, <1>13 DEF Search, Writes
<1>14. CASE AppendToLog(j)
  BY <1>0, <1>a, <1>b, <1>14 DEF AppendToLog, Writes, Wrote, Appends, Overlap
<1>15. CASE CreateNote(j)
  BY <1>0, <1>a, <1>b, <1>15 DEF CreateNote, Writes, Creates
<1>16. CASE LinkNote(j)
  BY <1>0, <1>a, <1>b, <1>16 DEF LinkNote, Writes, Links
<1>17. CASE ReadTask(j)
  BY <1>0, <1>a, <1>b, <1>17 DEF ReadTask, Writes
<1>18. CASE WriteTask(j)
  BY <1>0, <1>a, <1>b, <1>18 DEF WriteTask, Writes, Overlap
<1>19. CASE Uncache(j)
  BY <1>0, <1>a, <1>b, <1>19 DEF Uncache, Writes
<1>20. CASE Invalidate(j)
  BY <1>0, <1>a, <1>b, <1>20 DEF Invalidate, Writes
<1>21. CASE Look(j)
  BY <1>0, <1>a, <1>b, <1>21 DEF Look, Writes
<1>22. CASE Fetch(j)
  BY <1>0, <1>a, <1>b, <1>22 DEF Fetch, Writes
<1>23. CASE Store(j)
  BY <1>0, <1>a, <1>b, <1>23 DEF Store, Writes
<1>24. CASE CreateTicket(j)
  BY <1>0, <1>a, <1>b, <1>24 DEF CreateTicket, Writes
<1>25. CASE TicketCard(j)
  BY <1>0, <1>a, <1>b, <1>25 DEF TicketCard, Writes
<1>26. CASE MapTicket(j)
  BY <1>0, <1>a, <1>b, <1>26 DEF MapTicket, Writes, Moves
<1>27. CASE Ensure(j)
  BY <1>0, <1>a, <1>b, <1>27 DEF Ensure, Writes, Moves
<1>28. CASE History(j)
  BY <1>0, <1>a, <1>b, <1>28 DEF History, Writes
<1>29. CASE ClaimOrClose(j)
  BY <1>0, <1>a, <1>b, <1>29 DEF ClaimOrClose, Writes
<1>30. CASE Post(j)
  BY <1>0, <1>a, <1>b, <1>30 DEF Post, Writes
<1>31. CASE WorkerDies(j)
  BY <1>0, <1>a, <1>b, <1>31 DEF WorkerDies, Writes, Over
<1> QED BY <1>1, <1>2, <1>3, <1>4, <1>5, <1>6, <1>7, <1>8, <1>9, <1>10, <1>11, <1>12, <1>13, <1>14, <1>15, <1>16, <1>17, <1>18, <1>19, <1>20, <1>21, <1>22, <1>23, <1>24, <1>25, <1>26, <1>27, <1>28, <1>29, <1>30, <1>31 DEF DeskStep

LEMMA NotesAfter ==
  ASSUME Tidy, NEW j \in Work, DeskStep(j) \/ WorkerDies(j)
  PROVE  /\ notes' \in Seq(Note) /\ DOMAIN notes \subseteq DOMAIN notes'
         /\ \A i \in DOMAIN notes : \/ notes'[i] = notes[i]
                                    \/ /\ At(j, "append") /\ i = job[j].note /\ notes'[i].on = notes[i].on
                                       /\ notes'[i].body = Append(job[j].read, job[j].text)
                                    \/ /\ At(j, "link") /\ i = job[j].note /\ notes'[i].on = job[j].on
                                       /\ notes'[i].body = notes[i].body
         /\ \A i \in DOMAIN notes' \ DOMAIN notes : /\ i = job'[j].note /\ i = Len(notes) + 1 /\ job'[j].pc = "link"
                                                    /\ notes'[i].on = Nobody /\ notes'[i].body = <<job[j].text>>
<1> DEFINE r == job[j]  q == job'[j]
<1>1. Fit(r) /\ Noted(r) /\ Turns(q, r) /\ Writes(q, r, j)
  BY StepTurns, StepWrites DEF Tidy
<1>2. notes \in Seq(Note) /\ Len(notes) \in Nat /\ DOMAIN notes = 1..Len(notes) /\ \A i \in DOMAIN notes : notes[i] \in Note
  BY LenProperties, ElementOfSeq DEF Tidy
<1>3. r.pc \in {"append", "create", "link"} => r.text \in Words /\ r.on \in Records /\ r.read \in Seq(Words)
  BY <1>1 DEF Fit, OnPath, Says, Filing, Unplaced
<1>4. CASE UNCHANGED notes
  BY <1>2, <1>4
<1>5. CASE Appends(r)
  <2> DEFINE n == [notes[r.note] EXCEPT !.body = Append(r.read, r.text)]
  <2>1. r.note \in DOMAIN notes /\ r.pc = "append" /\ notes' = [notes EXCEPT ![r.note] = n]
    BY <1>1, <1>5 DEF Appends, Noted
  <2>2. n \in Note /\ n.on = notes[r.note].on /\ n.body = Append(r.read, r.text)
    <3>1. Append(r.read, r.text) \in Seq(Words)
      BY <1>3, <2>1, AppendProperties
    <3>2. notes[r.note] \in Note
      BY <1>2, <2>1
    <3> QED BY <3>1, <3>2 DEF Note
  <2>3. notes' \in Seq(Note) /\ DOMAIN notes' = DOMAIN notes
    BY <1>2, <2>1, <2>2, ExceptSeq
  <2> HIDE DEF n
  <2> QED BY <1>2, <2>1, <2>2, <2>3 DEF At
<1>6. CASE Creates(q, r)
  <2>1. PICK b \in BOOLEAN : notes' = Append(notes, [log |-> b, today |-> TRUE, on |-> Nobody, body |-> <<r.text>>])
    BY <1>6 DEF Creates
  <2> DEFINE n == [log |-> b, today |-> TRUE, on |-> Nobody, body |-> <<r.text>>]
  <2>2. n \in Note /\ n.on = Nobody /\ n.body = <<r.text>>
    <3>1. <<r.text>> \in Seq(Words)
      BY <1>3, <1>6 DEF Creates
    <3> QED BY <3>1 DEF Note
  <2> HIDE DEF n
  <2>3. notes' = Append(notes, n) /\ q.note = Len(notes) + 1 /\ q.pc = "link"
    BY <2>1, <1>6 DEF n, Creates
  <2> QED BY <1>2, <2>2, <2>3, AppendProperties
<1>7. CASE Links(r)
  <2> DEFINE n == [notes[r.note] EXCEPT !.on = r.on]
  <2>1. r.note \in DOMAIN notes /\ r.pc = "link" /\ notes' = [notes EXCEPT ![r.note] = n]
    BY <1>1, <1>7 DEF Links, Noted
  <2>2. n \in Note /\ n.on = r.on /\ n.body = notes[r.note].body
    <3>2. notes[r.note] \in Note
      BY <1>2, <2>1
    <3> QED BY <1>3, <2>1, <3>2 DEF Note
  <2>3. notes' \in Seq(Note) /\ DOMAIN notes' = DOMAIN notes
    BY <1>2, <2>1, <2>2, ExceptSeq
  <2> HIDE DEF n
  <2> QED BY <1>2, <2>1, <2>2, <2>3 DEF At
<1> QED BY <1>1, <1>4, <1>5, <1>6, <1>7 DEF Writes

LEMMA TidyStep ==
  ASSUME Tidy, NEW j \in Work, DeskStep(j) \/ WorkerDies(j)
  PROVE  Tidy'
<1> DEFINE r == job[j]  q == job'[j]
<1>1. Fit(r) /\ Noted(r) /\ Turns(q, r) /\ Writes(q, r, j)
  BY StepTurns, StepWrites DEF Tidy
<1>2. DOMAIN job' = Work /\ (\A k \in Work : k # j => job'[k] = job[k])
  BY OwnStep DEF Tidy
<1>3. \A k \in Work : Fit(job'[k]) /\ Same(job'[k], job[k])
  BY <1>1, <1>2 DEF Turns, Tidy, Same
<1>4. notes' \in Seq(Note) /\ DOMAIN notes \subseteq DOMAIN notes'
  BY NotesAfter
<1>5. ASSUME NEW k \in Work PROVE Noted(job[k])'
  <2>1. CASE k = j
    <3>1. q.pc = "append" => q.note \in DOMAIN notes' /\ notes'[q.note].on = q.on
      <4>1. q.pc = "append" => r.pc = "search" /\ q.note \in DOMAIN notes /\ notes[q.note].on = q.on
        BY <1>1 DEF Turns
      <4> QED BY <4>1, <1>4, NotesAfter DEF At
    <3>2. q.pc = "link" => q.note \in DOMAIN notes' /\ notes'[q.note].on = Nobody /\ notes'[q.note].body = <<q.text>>
      <4>1. ASSUME q.pc = "link" PROVE Creates(q, r)
        BY <1>1, <4>1 DEF Turns, Writes, Appends, Links
      <4>2. ASSUME Creates(q, r) PROVE q.note \in DOMAIN notes' \ DOMAIN notes
        <5>1. Len(notes) \in Nat /\ DOMAIN notes = 1..Len(notes)
          BY LenProperties DEF Tidy
        <5>2. DOMAIN notes' = 1..(Len(notes) + 1)
          BY <4>2, <1>4, LenProperties, AppendProperties DEF Creates, Tidy
        <5> QED BY <4>2, <5>1, <5>2 DEF Creates
      <4>3. q.text = r.text
        BY <1>3 DEF Same
      <4> QED BY <4>1, <4>2, <4>3, NotesAfter
    <3> QED BY <2>1, <3>1, <3>2 DEF Noted
  <2>2. CASE k # j
    <3>1. job'[k] = job[k] /\ Noted(job[k]) /\ Fit(job[k])
      BY <1>2, <2>2 DEF Tidy
    <3>2. ASSUME job[k].pc = "append" PROVE job[k].note \in DOMAIN notes' /\ notes'[job[k].note].on = job[k].on
      <4>1. job[k].on \in Records /\ job[k].note \in DOMAIN notes /\ notes[job[k].note].on = job[k].on /\ job[k].on # Nobody
        BY <3>1, <3>2 DEF Noted, Fit, OnPath, Unplaced, Filing, Tidy
      <4>2. At(j, "link") => job[j].note # job[k].note
        BY <1>1, <4>1 DEF At, Noted
      <4> QED BY <1>4, <4>1, <4>2, NotesAfter
    <3>3. ASSUME job[k].pc = "link"
          PROVE  job[k].note \in DOMAIN notes' /\ notes'[job[k].note].on = Nobody /\ notes'[job[k].note].body = <<job[k].text>>
      <4>1. job[k].note \in DOMAIN notes /\ notes[job[k].note].on = Nobody /\ notes[job[k].note].body = <<job[k].text>>
        BY <3>1, <3>3 DEF Noted
      <4>2. At(j, "link") => job[j].note # job[k].note
        BY <2>2, <3>3 DEF Tidy, At
      <4>3. At(j, "append") => job[j].note # job[k].note
        BY <1>1, <4>1 DEF At, Noted, Fit, OnPath, Unplaced, Filing, Tidy
      <4> QED BY <1>4, <4>1, <4>2, <4>3, NotesAfter
    <3> QED BY <3>1, <3>2, <3>3 DEF Noted
  <2> QED BY <2>1, <2>2
<1>6. task' \in [Records -> Seq(Words)]
  <2>1. r.pc = "writetask" => Append(r.read, r.text) \in Seq(Words)
    BY <1>1, AppendProperties DEF Fit, OnPath, Says, Unplaced, Filing
  <2> QED BY <1>1, <2>1 DEF Writes, Tidy
<1>7. map' \in [Records -> Places \cup {Nobody}]
  BY <1>1 DEF Writes, Moves, Fit, Tidy
<1>8. about' \in [Places -> Records \cup {Nobody}]
  BY <1>1 DEF Writes, Fit, Tidy, OnPath, Unplaced, Filing
<1>9. ASSUME NEW i \in Work, NEW k \in Work, i # k, job'[i].text = job'[k].text, job'[i].text # Nobody PROVE OneMessage(i, k)'
  BY <1>3, <1>9 DEF Tidy, OneMessage, Same
<1>10. ASSUME NEW i \in Work, NEW k \in Work, i # k, At(i, "link")', At(k, "link")' PROVE job'[i].note # job'[k].note
  <2>1. Len(notes) + 1 \notin DOMAIN notes
    BY LenProperties DEF Tidy
  <2>2. q.pc = "link" => q.note = Len(notes) + 1
    BY <1>1 DEF Turns, Writes, Appends, Links, Creates
  <2>3. \A m \in Work : At(m, "link") => job[m].note \in DOMAIN notes
    BY DEF Tidy, Noted, At
  <2> QED BY <1>2, <1>10, <2>1, <2>2, <2>3 DEF At, Tidy
<1> QED BY <1>2, <1>3, <1>4, <1>5, <1>6, <1>7, <1>8, <1>9, <1>10 DEF Tidy

----------------------------------------------------------------------------
\* What happens of its own accord.
Elsewhere ==
  /\ UNCHANGED <<job, talk, task, legible, faults>>
  /\ notes' \in Seq(Note) /\ DOMAIN notes' = DOMAIN notes
  /\ \A i \in DOMAIN notes : notes'[i].on = notes[i].on /\ notes'[i].body = notes[i].body
  /\ UNCHANGED <<map, about>> \/ \E x \in Records, p \in Places :
       /\ map[x] = Nobody /\ about[p] = Nobody /\ (\A j \in Work : job[j].pl # p)
       /\ map' = [map EXCEPT ![x] = p] /\ about' = [about EXCEPT ![p] = x]

LEMMA OthersStep ==
  ASSUME Tidy, [DeskNext]_deskVars
  PROVE  (\E j \in Work : DeskStep(j) \/ WorkerDies(j)) \/ Elsewhere
<1>1. notes \in Seq(Note) /\ Len(notes) \in Nat /\ DOMAIN notes = 1..Len(notes) /\ \A i \in DOMAIN notes : notes[i] \in Note
  BY LenProperties, ElementOfSeq DEF Tidy
<1>2. CASE UNCHANGED deskVars
  BY <1>1, <1>2 DEF deskVars, Elsewhere
<1>3. CASE \E r \in Records, p \in Places : Announced(r, p)
  BY <1>1, <1>3 DEF Announced, Elsewhere, hubspot, fixed
<1>4. CASE \E h \in Hosts, r \in Records : ViewExpires(h, r)
  BY <1>1, <1>4 DEF ViewExpires, Elsewhere, hubspot, fixed
<1>5. CASE Midnight
  <2>1. \A i \in DOMAIN notes : [notes[i] EXCEPT !.today = FALSE] \in Note
    BY <1>1 DEF Note
  <2>2. notes' \in [1..Len(notes) -> Note] /\ \A i \in DOMAIN notes : notes'[i] = [notes[i] EXCEPT !.today = FALSE]
    BY <1>1, <1>5, <2>1 DEF Midnight
  <2>3. notes' \in Seq(Note)
    BY <1>1, <2>2, SeqDef
  <2>4. \A i \in DOMAIN notes : notes'[i].on = notes[i].on /\ notes'[i].body = notes[i].body
    BY <1>1, <2>2 DEF Note
  <2> QED BY <1>1, <1>5, <2>2, <2>3, <2>4 DEF Midnight, Elsewhere, fixed
<1> QED BY <1>2, <1>3, <1>4, <1>5 DEF DeskNext

LEMMA TidyKept ==
  ASSUME Tidy, [DeskNext]_deskVars
  PROVE  Tidy'
<1>1. CASE \E j \in Work : DeskStep(j) \/ WorkerDies(j)
  BY <1>1, TidyStep
<1>2. CASE Elsewhere
  <2>1. \A k \in Work : Noted(job[k])'
    BY <1>2 DEF Elsewhere, Tidy, Noted
  <2>2. map' \in [Records -> Places \cup {Nobody}] /\ about' \in [Places -> Records \cup {Nobody}]
    <3>1. map \in [Records -> Places \cup {Nobody}] /\ about \in [Places -> Records \cup {Nobody}]
      BY DEF Tidy
    <3> QED BY <1>2, <3>1 DEF Elsewhere
  <2> QED BY <1>2, <2>1, <2>2 DEF Elsewhere, Tidy, Fit, At, OneMessage
<1> QED BY <1>1, <1>2, OthersStep

----------------------------------------------------------------------------
\* What a thread is about is settled once, before anyone replies in it.
LEMMA AboutAfter ==
  ASSUME Tidy, Rooms, [DeskNext]_deskVars, NEW k \in Work
  PROVE  /\ about'[job[k].pl] = about[job[k].pl] \/ (about[job[k].pl] = Nobody /\ Names(job[k].pl)')
         /\ job[k].kind = "reply" /\ job[k].pc # "event" => about'[job[k].pl] = about[job[k].pl]
<1>0. about \in [Places -> Records \cup {Nobody}] /\ job[k].pl \in Places
  BY DEF Tidy, Fit
<1>1. ASSUME NEW j \in Work, DeskStep(j) \/ WorkerDies(j), about'[job[k].pl] # about[job[k].pl]
      PROVE  /\ job[j].pl = job[k].pl /\ job[j].pc = "card" /\ job[j].kind = "create" /\ legible' = legible
             /\ about'[job[k].pl] = job[j].on /\ job[j].on \in Records
  <2>1. Fit(job[j]) /\ Writes(job'[j], job[j], j) /\ legible' = legible
    BY <1>1, StepWrites, OwnStep DEF Tidy
  <2> QED BY <1>0, <1>1, <2>1 DEF Writes, Fit, OnPath, Unplaced, Filing
<1>2. CASE \E j \in Work : DeskStep(j) \/ WorkerDies(j)
  <2>1. ASSUME NEW j \in Work, DeskStep(j) \/ WorkerDies(j), about'[job[k].pl] # about[job[k].pl]
        PROVE  about[job[k].pl] = Nobody /\ (Names(job[k].pl)') /\ ~(job[k].kind = "reply" /\ job[k].pc # "event")
    <3>1. /\ job[j].pl = job[k].pl /\ job[j].pc = "card" /\ job[j].kind = "create" /\ legible' = legible
          /\ about'[job[k].pl] = job[j].on /\ job[j].on \in Records /\ job'[k].pl = job[k].pl
      <4>1. job'[k].pl = job[k].pl
        BY <2>1, StepTurns, OwnStep DEF Tidy, Turns, Same
      <4> QED BY <1>1, <2>1, <4>1
    <3>2. job[k].pl \in legible /\ about[job[k].pl] = Nobody /\ RecordType[job[j].on] = "ticket"
      BY <3>1 DEF Rooms
    <3>3. Names(job[k].pl)'
      BY <1>0, <3>1, <3>2 DEF Names, Recognised, Tidy
    <3> QED BY <3>1, <3>2, <3>3 DEF Rooms, Begun
  <2> QED BY <1>2, <2>1
<1>3. CASE Elsewhere
  BY <1>0, <1>3 DEF Elsewhere
<1> QED BY <1>2, <1>3, OthersStep

LEMMA RoomsKept ==
  ASSUME Tidy, Rooms, Home, [DeskNext]_deskVars
  PROVE  Rooms'
<1>0. /\ about \in [Places -> Records \cup {Nobody}] /\ map \in [Records -> Places \cup {Nobody}] /\ Nobody \notin Records \cup Places
      /\ \A k \in Work : Fit(job[k]) /\ job[k].pl \in Places
  BY DEF Tidy, Fit
<1>1. ASSUME NEW j \in Work, DeskStep(j) \/ WorkerDies(j) PROVE Rooms'
  <2> DEFINE r == job[j]  q == job'[j]
  <2>1. Turns(q, r) /\ Writes(q, r, j) /\ legible' = legible /\ (\A k \in Work : k # j => job'[k] = job[k])
    BY <1>1, StepTurns, StepWrites, OwnStep DEF Tidy
  <2>2. \A k \in Work : Same(job'[k], job[k])
    BY <2>1 DEF Turns, Same
  <2>3. ASSUME NEW c \in Work, job'[c].kind = "create"
        PROVE  /\ job'[c].pl \in legible' /\ (\A k \in Work : k # c /\ job'[k].kind = "create" => job'[k].pl # job'[c].pl)
               /\ job'[c].pc \in {"ticket", "card"} => about'[job'[c].pl] = Nobody /\ RecordType[job'[c].on] = "ticket"
               /\ job'[c].pc = "map" => about'[job'[c].pl] = job'[c].on
    <3>1. job'[c].pl \in legible' /\ (\A k \in Work : k # c /\ job'[k].kind = "create" => job'[k].pl # job'[c].pl)
      BY <2>1, <2>2, <2>3 DEF Rooms, Same
    <3>2. about'[job[c].pl] = about[job[c].pl] \/ (j = c /\ r.pc = "card" /\ q.pc = "map")
      BY <1>0, <2>1, <2>2, <2>3 DEF Writes, Rooms, Same, Fit, OnPath, Unplaced, Filing
    <3>3. job'[c].pc \in {"ticket", "card"} => job[c].pc \in {"ticket", "card"}
      BY <2>1 DEF Turns
    <3>4. job'[c].pc \in {"ticket", "card"} => about'[job'[c].pl] = Nobody /\ RecordType[job'[c].on] = "ticket"
      <4>1. job'[c].pc \in {"ticket", "card"} => job'[c].on = job[c].on
        BY <2>1, <3>3 DEF Turns, Unplaced
      <4> QED BY <2>2, <2>3, <3>2, <3>3, <4>1 DEF Rooms, Same
    <3>5. job'[c].pc = "map" => about'[job'[c].pl] = job'[c].on
      <4>1. CASE c = j
        BY <1>0, <2>1, <2>2, <2>3, <4>1 DEF Turns, Writes, Same, Unplaced
      <4>2. CASE c # j
        BY <2>1, <2>3, <3>2, <4>2 DEF Rooms
      <4> QED BY <4>1, <4>2
    <3> QED BY <3>1, <3>4, <3>5
  <2>4. ASSUME NEW k \in Work, job'[k].kind = "reply"
        PROVE  /\ job'[k].pc # "event" => Begun(job[k].pl)'
               /\ \A x \in Records : map'[x] = job'[k].pl => about'[job'[k].pl] = x
               /\ \A i \in Work : job'[i].kind = "transcript" /\ job'[i].pl = job'[k].pl => about'[job'[k].pl] = job'[i].on
    <3>0. job[k].kind = "reply" /\ job'[k].pl = job[k].pl
      BY <2>2, <2>4 DEF Same
    <3>1. ASSUME job'[k].pc # "event" PROVE Begun(job[k].pl)'
      <4>1. Begun(job[k].pl)
        BY <2>1, <3>0, <3>1 DEF Rooms, Writes
      <4>2. ASSUME NEW i \in Work, job'[i].kind = "create", job'[i].pl = job'[k].pl, job'[i].pc \in {"ticket", "card"} PROVE FALSE
        BY <2>1, <2>2, <3>0, <4>1, <4>2 DEF Turns, Begun, Same
      <4> QED BY <4>2 DEF Begun
    <3>2. ASSUME NEW x \in Records, map'[x] = job[k].pl PROVE about'[job[k].pl] = x
      <4>1. CASE map[x] = job[k].pl
        BY <1>0, <3>0, <4>1, AboutAfter, <2>1 DEF Rooms
      <4>2. CASE map[x] # job[k].pl
        <5>1. x = r.on /\ r.pl = job[k].pl /\ Moves(r)
          BY <1>0, <2>1, <3>2, <4>2 DEF Writes, Moves
        <5>2. about[r.pl] = r.on
          BY <1>0, <3>0, <5>1 DEF Moves, Rooms, Home, Fit, OnPath, Unplaced, Filing
        <5> QED BY <1>0, <5>1, <5>2, AboutAfter, <2>1
      <4> QED BY <4>1, <4>2
    <3>3. ASSUME NEW i \in Work, job'[i].kind = "transcript", job'[i].pl = job'[k].pl PROVE about'[job[k].pl] = job'[i].on
      <4>1. job[i].kind = "transcript" /\ job[i].pl = job[k].pl /\ about[job[k].pl] = job[i].on
        BY <2>2, <3>0, <3>3 DEF Same, Rooms
      <4>2. job[i].on \in Records /\ job'[i].on = job[i].on
        BY <1>0, <2>1, <4>1 DEF Turns, Fit, OnPath, Unplaced, Filing
      <4> QED BY <1>0, <4>1, <4>2, AboutAfter
    <3> QED BY <3>0, <3>1, <3>2, <3>3
  <2> QED BY <2>3, <2>4 DEF Rooms
<1>2. CASE Elsewhere
  <2>1. \A k \in Work : about'[job[k].pl] = about[job[k].pl]
    BY <1>0, <1>2 DEF Elsewhere
  <2>2. \A k \in Work, x \in Records : map'[x] = job[k].pl => map[x] = job[k].pl
    BY <1>0, <1>2 DEF Elsewhere
  <2> QED BY <1>2, <2>1, <2>2 DEF Elsewhere, Rooms, Begun
<1> QED BY <1>1, <1>2, OthersStep

LEMMA HomeKept ==
  ASSUME Tidy, Rooms, Home, [DeskNext]_deskVars
  PROVE  Home'
<1>0. /\ about \in [Places -> Records \cup {Nobody}] /\ map \in [Records -> Places \cup {Nobody}] /\ Nobody \notin Records \cup Places
      /\ \A k \in Work : Fit(job[k]) /\ job[k].pl \in Places
  BY DEF Tidy, Fit
<1>1. ASSUME NEW j \in Work, DeskStep(j) \/ WorkerDies(j) PROVE Home'
  <2>1. Turns(job'[j], job[j]) /\ (\A k \in Work : k # j => job'[k] = job[k])
    BY <1>1, StepTurns, OwnStep DEF Tidy
  <2>2. ASSUME NEW k \in Work, job'[k].kind = "reply", job'[k].pc \notin Unplaced PROVE about'[job'[k].pl] = job'[k].on
    <3>1. job[k].kind = "reply" /\ job'[k].pl = job[k].pl
      BY <2>1, <2>2 DEF Turns, Same
    <3>2. about[job[k].pl] = job'[k].on
      <4>1. CASE job[k].pc \in Unplaced
        BY <2>1, <2>2, <3>1, <4>1 DEF Turns, Rooms
      <4>2. CASE job[k].pc \notin Unplaced
        <5>1. job[k].pc # "addnote"
          BY <1>0, <3>1 DEF Fit, OnPath, Unplaced, Filing
        <5> QED BY <2>1, <3>1, <4>2, <5>1 DEF Turns, Home
      <4> QED BY <4>1, <4>2
    <3>3. job'[k].on \in Records
      BY <2>1, <2>2, <1>0, <3>1 DEF Turns, Fit, OnPath, Unplaced, Filing
    <3> QED BY <1>0, <3>1, <3>2, <3>3, AboutAfter
  <2> QED BY <2>2 DEF Home
<1>2. CASE Elsewhere
  <2>1. \A k \in Work : about'[job[k].pl] = about[job[k].pl]
    BY <1>0, <1>2 DEF Elsewhere
  <2> QED BY <1>2, <2>1 DEF Elsewhere, Home
<1> QED BY <1>1, <1>2, OthersStep

----------------------------------------------------------------------------
LEMMA ToSetOfAppend ==
  ASSUME NEW S, NEW s \in Seq(S), NEW e \in S
  PROVE  ToSet(Append(s, e)) = ToSet(s) \cup {e}
<1>1. /\ Append(s, e) \in Seq(S) /\ Len(Append(s, e)) = Len(s) + 1 /\ Append(s, e)[Len(s) + 1] = e
      /\ \A i \in 1..Len(s) : Append(s, e)[i] = s[i]
  BY AppendProperties
<1>2. Len(s) \in Nat /\ DOMAIN s = 1..Len(s) /\ DOMAIN Append(s, e) = 1..(Len(s) + 1)
  BY <1>1, LenProperties
<1>3. 1..(Len(s) + 1) = (1..Len(s)) \cup {Len(s) + 1}
  BY <1>2
<1> QED BY <1>1, <1>2, <1>3 DEF ToSet

\* A text is written by its own requests, and they have found its record.
LEMMA WrittenAtHome ==
  ASSUME Tidy, Home, NEW j \in Work, NEW k \in Work, job[k].text # Nobody, job[j].text = job[k].text,
         job[j].pc \in {"append", "create", "link", "comment", "writetask"}
  PROVE  job[j].on = Owner(k)
<1>1. CASE j = k
  BY <1>1 DEF Home, Owner, At, Unplaced
<1>2. CASE j # k
  <2>1. job[j].kind = "reply" /\ job[k].kind = "reply" /\ job[j].pl = job[k].pl
    BY <1>2 DEF Tidy, OneMessage
  <2> QED BY <2>1 DEF Home, Owner, Unplaced
<1> QED BY <1>1, <1>2

\* It is settled once.
LEMMA OwnerAfter ==
  ASSUME Tidy, Rooms, [DeskNext]_deskVars, NEW k \in Work, job[k].text # Nobody
  PROVE  Owner(k) \in Records \cup {Nobody} /\ (Owner(k) # Nobody => Owner(k)' = Owner(k))
<1>1. Fit(job[k]) /\ about \in [Places -> Records \cup {Nobody}]
  BY DEF Tidy
<1>2. Owner(k) \in Records \cup {Nobody}
  BY <1>1 DEF Owner, Fit, Says
<1>3. CASE job[k].kind = "reply"
  <2>1. job'[k].kind = "reply" /\ job'[k].pl = job[k].pl
    <3>1. \A j \in Work : DeskStep(j) \/ WorkerDies(j) => Same(job'[k], job[k])
      BY StepTurns, OwnStep DEF Tidy, Turns, Same
    <3> QED BY <1>3, <3>1, OthersStep DEF Same, Elsewhere
  <2> QED BY <1>2, <1>3, <2>1, AboutAfter DEF Owner
<1>4. CASE job[k].kind # "reply" /\ job[k].pc # "addnote"
  <2>1. job[k].pc \notin Unplaced
    BY <1>1, <1>4 DEF Fit, OnPath, Says, Unplaced, Filing
  <2>2. ASSUME NEW j \in Work, DeskStep(j) \/ WorkerDies(j) PROVE job'[k].kind = job[k].kind /\ job'[k].on = job[k].on /\ job'[k].pc # "addnote"
    <3>1. CASE j = k
      BY <1>4, <2>1, <2>2, <3>1, StepTurns DEF Turns, Same
    <3>2. CASE j # k
      BY <1>4, <2>2, <3>2, OwnStep DEF Tidy
    <3> QED BY <3>1, <3>2
  <2>3. Elsewhere => job'[k].kind = job[k].kind /\ job'[k].on = job[k].on /\ job'[k].pc # "addnote"
    BY <1>4 DEF Elsewhere
  <2> QED BY <1>2, <1>4, <2>2, <2>3, OthersStep DEF Owner, At
<1>5. CASE job[k].kind # "reply" /\ job[k].pc = "addnote"
  BY <1>2, <1>5 DEF Owner, At
<1> QED BY <1>3, <1>4, <1>5

LEMMA HomelyStep ==
  ASSUME Tidy, Rooms, Home, Homely, [DeskNext]_deskVars, NEW j \in Work, DeskStep(j) \/ WorkerDies(j)
  PROVE  Homely'
<1> DEFINE r == job[j]  q == job'[j]
<1>1. Turns(q, r) /\ Writes(q, r, j) /\ (\A k \in Work : k # j => job'[k] = job[k])
  BY StepTurns, StepWrites, OwnStep DEF Tidy
<1>2. \A k \in Work : Same(job'[k], job[k])
  BY <1>1 DEF Turns, Same
<1>3. \A k \in Work : Fit(job[k]) /\ Fit(job'[k])
  BY <1>1 DEF Tidy, Turns
<1>4. talk' \subseteq Records \X Words \X Work
  BY <1>1, <1>3 DEF Writes, Homely, Fit, OnPath, Says, Unplaced, Filing
<1>5. ASSUME NEW k \in Work, job'[k].text # Nobody
      PROVE  AtHome(job[k].text, Owner(k))'
  <2>0. PICK t, x : t = job[k].text /\ job'[k].text = t /\ t # Nobody /\ x = Owner(k)
    BY <1>2, <1>5 DEF Same
  <2>1. InNotes(t, x) /\ InHand(t, x) /\ InTalk(t, x) /\ InTasks(t, x)
    BY <2>0 DEF Homely, AtHome
  <2>2. x \in Records \cup {Nobody} /\ (x # Nobody => Owner(k)' = x) /\ Nobody \notin Records
    BY <2>0, OwnerAfter DEF Tidy
  <2>3. r.text = t /\ r.pc \in {"append", "create", "link", "comment", "writetask"} => r.on = x
    BY <2>0, WrittenAtHome
  <2>4. ASSUME NEW i \in DOMAIN notes', t \in ToSet(notes'[i].body) PROVE notes'[i].on \in {Nobody, x}
    <3>1. CASE i \in DOMAIN notes /\ notes'[i] = notes[i]
      BY <2>1, <2>4, <3>1 DEF InNotes
    <3>2. CASE At(j, "append") /\ notes'[i].body = Append(r.read, r.text) /\ i = r.note /\ i \in DOMAIN notes /\ notes'[i].on = notes[i].on
      <4>1. r.read \in Seq(Words) /\ r.text \in Words /\ notes[i].on = r.on /\ r.pc = "append"
        BY <1>3, <3>2 DEF Fit, OnPath, Says, Unplaced, Filing, At, Tidy, Noted
      <4>2. t \in ToSet(r.read) \/ t = r.text
        BY <2>4, <3>2, <4>1, ToSetOfAppend
      <4>3. r.on = x
        BY <2>1, <2>3, <3>2, <4>1, <4>2 DEF InHand
      <4> QED BY <3>2, <4>1, <4>3
    <3>3. CASE At(j, "link") /\ notes'[i].body = notes[i].body /\ i = r.note /\ i \in DOMAIN notes /\ notes'[i].on = r.on
      <4>1. notes[i].body = <<r.text>> /\ r.pc = "link"
        BY <3>3 DEF Tidy, Noted, At
      <4>2. ToSet(<<r.text>>) = {r.text}
        BY DEF ToSet
      <4> QED BY <2>3, <2>4, <3>3, <4>1, <4>2
    <3>4. CASE i \notin DOMAIN notes
      BY <3>4, NotesAfter
    <3> QED BY <3>1, <3>2, <3>3, <3>4, NotesAfter
  <2>5. ASSUME NEW i \in Work, t \in ToSet(job'[i].read), job'[i].pc \in {"append", "writetask"} PROVE job'[i].on = x
    <3>1. CASE i # j
      BY <1>1, <2>1, <2>5, <3>1 DEF InHand, At
    <3>2. CASE i = j /\ q.pc = "append"
      <4>1. q.note \in DOMAIN notes /\ notes[q.note].on = q.on /\ q.read = notes[q.note].body /\ r.pc = "search" /\ q.on = r.on
        BY <1>1, <3>2 DEF Turns
      <4>2. q.on \in Records
        BY <1>3, <4>1 DEF Fit, OnPath, Unplaced, Filing
      <4> QED BY <2>1, <2>2, <2>5, <3>2, <4>1, <4>2 DEF InNotes
    <3>3. CASE i = j /\ q.pc = "writetask"
      <4>1. q.read = task[q.on] /\ q.on \in Records
        BY <1>1, <3>3 DEF Turns, Fit, OnPath, Unplaced, Filing
      <4> QED BY <2>1, <2>5, <3>3, <4>1 DEF InTasks
    <3> QED BY <2>5, <3>1, <3>2, <3>3
  <2>6. ASSUME NEW y \in talk', y[2] = t PROVE y[1] = x
    <3>1. CASE y \in talk
      BY <2>1, <2>6, <3>1 DEF InTalk
    <3>2. CASE y \notin talk
      BY <1>1, <2>3, <2>6, <3>2 DEF Writes
    <3> QED BY <3>1, <3>2
  <2>7. ASSUME NEW y \in Records, t \in ToSet(task'[y]) PROVE y = x
    <3>1. CASE task'[y] = task[y]
      BY <2>1, <2>7, <3>1 DEF InTasks
    <3>2. CASE r.pc = "writetask" /\ y = r.on /\ task'[y] = Append(r.read, r.text)
      <4>1. r.read \in Seq(Words) /\ r.text \in Words
        BY <1>3, <3>2 DEF Fit, OnPath, Says, Unplaced, Filing
      <4>2. t \in ToSet(r.read) \/ t = r.text
        BY <2>7, <3>2, <4>1, ToSetOfAppend
      <4> QED BY <2>1, <2>3, <3>2, <4>2 DEF InHand, At
    <3> QED BY <1>1, <3>1, <3>2 DEF Writes, Tidy
  <2>8. ASSUME NEW y, x # Nobody => y = x PROVE AtHome(t, y)'
    <3>1. \A i \in Work : job'[i].pc \in {"append", "writetask"} => job'[i].on \in Records
      BY <1>3 DEF Fit, OnPath, Unplaced, Filing
    <3>2. InNotes(t, y)'
      BY <2>2, <2>4, <2>8 DEF InNotes
    <3>3. InHand(t, y)'
      BY <2>2, <2>5, <2>8, <3>1 DEF InHand, At
    <3>4. InTalk(t, y)'
      BY <1>4, <2>2, <2>6, <2>8 DEF InTalk
    <3>5. InTasks(t, y)'
      BY <2>2, <2>7, <2>8 DEF InTasks
    <3> QED BY <3>2, <3>3, <3>4, <3>5 DEF AtHome
  <2>9. PICK y : y = Owner(k)'
    OBVIOUS
  <2>10. AtHome(t, y)'
    BY <2>2, <2>8, <2>9
  <2> QED BY <2>0, <2>9, <2>10 DEF AtHome, InNotes, InHand, InTalk, InTasks
<1> QED BY <1>4, <1>5 DEF Homely

LEMMA HomelyKept ==
  ASSUME Tidy, Rooms, Home, Homely, [DeskNext]_deskVars
  PROVE  Homely'
<1>1. CASE \E j \in Work : DeskStep(j) \/ WorkerDies(j)
  BY <1>1, HomelyStep
<1>2. CASE Elsewhere
  <2>1. \A k \in Work : about'[job[k].pl] = about[job[k].pl]
    BY <1>2 DEF Elsewhere, Tidy, Fit
  <2>2. \A k \in Work : Owner(k)' = Owner(k)
    BY <1>2, <2>1 DEF Elsewhere, Owner, At
  <2>3. \A t, x : AtHome(t, x) => AtHome(t, x)'
    BY <1>2 DEF Elsewhere, AtHome, InNotes, InHand, InTalk, InTasks, At
  <2>4. ASSUME NEW k \in Work, job[k].text # Nobody PROVE AtHome(job[k].text, Owner(k))'
    <3>1. PICK t, x : t = job[k].text /\ x = Owner(k) /\ t = job'[k].text /\ x = Owner(k)'
      BY <1>2, <2>2 DEF Elsewhere
    <3>2. AtHome(t, x)'
      BY <2>3, <2>4, <3>1 DEF Homely
    <3> QED BY <3>1, <3>2 DEF AtHome, InNotes, InHand, InTalk, InTasks
  <2> QED BY <1>2, <2>4 DEF Elsewhere, Homely
<1> QED BY <1>1, <1>2, OthersStep

LEMMA ResolvableKept ==
  ASSUME Tidy, Rooms, Resolvable, RepliesResolved, [DeskNext]_deskVars
  PROVE  Resolvable' /\ RepliesResolved'
<1>0. /\ about \in [Places -> Records \cup {Nobody}] /\ map \in [Records -> Places \cup {Nobody}] /\ Nobody \notin Records \cup Places
      /\ \A k \in Work : Fit(job[k]) /\ job[k].pl \in Places
  BY DEF Tidy, Fit
<1>1. ASSUME NEW j \in Work, DeskStep(j) \/ WorkerDies(j) PROVE Resolvable' /\ RepliesResolved'
  <2> DEFINE r == job[j]  q == job'[j]
  <2>1. Turns(q, r) /\ Writes(q, r, j) /\ legible' = legible /\ faults \subseteq faults' /\ (\A k \in Work : k # j => job'[k] = job[k])
    BY <1>1, StepTurns, StepWrites, OwnStep DEF Tidy, Writes
  <2>2. \A k \in Work : Same(job'[k], job[k])
    BY <2>1 DEF Turns, Same
  <2>3. ASSUME "moved" \notin faults', NEW k \in Work, job[k].kind = "reply", InThread(job[k].pl), ~Names(job[k].pl)',
               about'[job[k].pl] # Nobody
        PROVE  map'[about'[job[k].pl]] = job[k].pl
    <3>1. about'[job[k].pl] = about[job[k].pl] /\ about[job[k].pl] \in Records
      BY <1>0, <2>3, AboutAfter
    <3>2. map[about[job[k].pl]] = job[k].pl
      <4>1. ~Names(job[k].pl)
        BY <2>1, <2>2, <2>3, <3>1 DEF Names, Same
      <4> QED BY <2>1, <2>3, <3>1, <4>1 DEF Resolvable, Mapped
    <3> QED BY <1>0, <2>1, <2>3, <3>1, <3>2 DEF Writes, Moves
  <2>4. Mapped'
    BY <2>1, <2>2, <2>3 DEF Mapped, Same
  <2>5. ASSUME NEW k \in Work, job'[k].pc = "parent" PROVE Names(job[k].pl)' \/ about'[job'[k].pl] = Nobody \/ "moved" \in faults'
    <3>1. job'[k].pl = job[k].pl /\ Fit(job'[k]) /\ job'[k].kind = "reply" /\ job[k].kind = "reply"
      <4>1. Fit(job'[k])
        BY <1>0, <2>1 DEF Turns
      <4> QED BY <2>2, <2>5, <4>1 DEF Same, Fit, OnPath, Filing, Unplaced
    <3>2. Names(job[k].pl) \/ about[job[k].pl] = Nobody \/ "moved" \in faults
      <4>1. CASE k = j
        <5>1. r.pc = "resolve" /\ InThread(r.pl) /\ (\A x \in Records : map[x] # r.pl)
          BY <2>1, <2>5, <4>1 DEF Turns
        <5> QED BY <1>0, <3>1, <4>1, <5>1 DEF Resolvable, Mapped
      <4>2. CASE k # j
        BY <2>1, <2>5, <4>2 DEF Resolvable, At
      <4> QED BY <4>1, <4>2
    <3>3. Names(job[k].pl) => Names(job[k].pl)'
      <4>1. Names(job[k].pl) => about'[job[k].pl] = about[job[k].pl]
        BY AboutAfter DEF Names
      <4> QED BY <2>1, <3>1, <4>1 DEF Names, Recognised
    <3> QED BY <2>1, <3>1, <3>2, <3>3, AboutAfter
  <2>6. ASSUME NEW k \in Work, job'[k].pc = "unresolved", InThread(job'[k].pl)
        PROVE  about'[job'[k].pl] = Nobody \/ faults' \cap {"moved", "parent"} # {}
    <3>1. job'[k].pl = job[k].pl /\ Fit(job'[k]) /\ job'[k].kind = "reply" /\ job[k].kind = "reply"
      <4>1. Fit(job'[k])
        BY <1>0, <2>1 DEF Turns
      <4> QED BY <2>2, <2>6, <4>1 DEF Same, Fit, OnPath, Filing, Unplaced
    <3>2. job[k].pc # "event" /\ (about[job[k].pl] = Nobody \/ faults' \cap {"moved", "parent"} # {})
      <4>1. CASE k = j
        BY <2>1, <2>6, <3>1, <4>1 DEF Turns, Resolvable, At
      <4>2. CASE k # j
        BY <2>1, <2>6, <4>2 DEF RepliesResolved, At
      <4> QED BY <4>1, <4>2
    <3> QED BY <3>1, <3>2, AboutAfter
  <2> QED BY <2>4, <2>5, <2>6 DEF Resolvable, RepliesResolved, At
<1>2. CASE Elsewhere
  <2>1. \A k \in Work : about'[job[k].pl] = about[job[k].pl]
    BY <1>0, <1>2 DEF Elsewhere
  <2>2. \A k \in Work : about[job[k].pl] # Nobody => \A x \in Records : map[x] = job[k].pl => map'[x] = job[k].pl
    BY <1>0, <1>2 DEF Elsewhere
  <2>3. Mapped'
    BY <1>0, <1>2, <2>1, <2>2 DEF Elsewhere, Mapped, Resolvable, Names
  <2>4. \A k \in Work : Names(job[k].pl)' <=> Names(job[k].pl)
    BY <1>2, <2>1 DEF Elsewhere, Names
  <2> QED BY <1>2, <2>1, <2>3, <2>4 DEF Elsewhere, Resolvable, RepliesResolved, At
<1> QED BY <1>1, <1>2, OthersStep

----------------------------------------------------------------------------
\* A text nobody has written yet.
LEMMA NothingThere == ToSet(<<>>) = {}
BY DEF ToSet

LEMMA Beginnings ==
  ASSUME NEW s, Plausible(s), DeskInit(s)
  PROVE  Tidy /\ Rooms /\ Home /\ Homely /\ Resolvable /\ RepliesResolved
<1>1. /\ job = s.job /\ map = s.map /\ about = s.about /\ notes = s.notes /\ legible = s.legible /\ talk = {} /\ faults = {}
      /\ task = [r \in Records |-> <<>>]
  BY DEF DeskInit
<1>2. DOMAIN job = Work /\ \A k \in Work : Arrives(job[k])
  BY <1>1 DEF Plausible
<1>3. \A k \in Work : /\ job[k].kind \in DOMAIN Begins /\ job[k].pc = Begins[job[k].kind]
                      /\ (job[k].kind = "reply" => job[k].pc = "event") /\ (job[k].kind = "create" => job[k].pc = "ticket")
                      /\ job[k].pc \notin {"append", "link", "writetask", "parent", "unresolved"}
  BY <1>2 DEF Arrives, Begins
<1>4. ASSUME NEW k \in Work PROVE Fit(job[k]) /\ Noted(job[k])
  <2>1. OnPath(job[k].kind, job[k].pc)
    BY <1>3 DEF Begins, OnPath, Unplaced
  <2>2. <<>> \in Seq(Words)
    OBVIOUS
  <2> QED BY <1>2, <1>3, <2>1, <2>2 DEF Arrives, Fit, Noted, Says, Unplaced
<1>5. notes \in Seq(Note)
  <2>1. [log : BOOLEAN, today : BOOLEAN, on : Records, body : Seq(Words)] \subseteq Note
    BY DEF Note
  <2>2. notes \in Seq([log : BOOLEAN, today : BOOLEAN, on : Records, body : Seq(Words)])
    BY <1>1 DEF Plausible, DeskTyped
  <2> QED BY <2>1, <2>2, SeqMonotonic
<1>6. task \in [Records -> Seq(Words)]
  BY <1>1
<1>7. map \in [Records -> Places \cup {Nobody}] /\ about \in [Places -> Records \cup {Nobody}]
      /\ Nobody \notin Records \cup Places /\ (\A x \in DOMAIN Contact : Contact[x] \in Records)
  BY <1>1 DEF Plausible, DeskTyped
<1>8. \A j, k \in Work : j # k /\ job[j].text = job[k].text /\ job[j].text # Nobody => OneMessage(j, k)
  BY <1>1 DEF Plausible, TextsApart, OneMessage
<1>9. Tidy
  BY <1>2, <1>3, <1>4, <1>5, <1>6, <1>7, <1>8 DEF Tidy, At
<1>10. Rooms
  BY <1>1, <1>3 DEF Rooms, Plausible, ThreadsApart
<1>11. Home
  BY <1>3 DEF Home, Unplaced
<1>12. Homely
  <2>1. \A k \in Work : job[k].read = <<>>
    BY <1>2 DEF Arrives
  <2>2. \A i \in DOMAIN notes, k \in Work : job[k].text \notin ToSet(notes[i].body)
    BY <1>1 DEF Plausible, TextsApart
  <2> QED BY <1>1, <2>1, <2>2, NothingThere DEF Homely, AtHome, InNotes, InHand, InTalk, InTasks
<1>13. Resolvable /\ RepliesResolved
  BY <1>1, <1>3 DEF Resolvable, RepliesResolved, Mapped, Names, At, Plausible, ThreadsApart
<1> QED BY <1>9, <1>10, <1>11, <1>12, <1>13

ScenesPlausible == \A s \in Scenes : Plausible(s)

(* A reply in a thread goes to the record whose card began the thread,     *)
(* however the mappings of records have moved (resolve_thread_context).    *)
THEOREM RepliesFindHome == ScenesPlausible /\ DeskSpec => []RepliesGoHome
<1> DEFINE Inv == Tidy /\ Rooms /\ Home /\ Homely
<1>1. ScenesPlausible /\ (\E s \in Scenes : DeskInit(s)) => Inv
  BY Beginnings DEF ScenesPlausible
<1>2. Inv /\ [DeskNext]_deskVars => Inv'
  BY TidyKept, RoomsKept, HomeKept, HomelyKept
<1>3. Inv => RepliesGoHome
  <2>1. SUFFICES ASSUME Inv, NEW j \in Work, NEW r \in Records, job[j].kind = "reply", Filed(r, job[j].text)
                 PROVE  about[job[j].pl] = r
    BY DEF RepliesGoHome
  <2>2. AtHome(job[j].text, about[job[j].pl]) /\ r # Nobody
    <3>1. job[j].text # Nobody
      BY <2>1 DEF Tidy, Fit, Says, Words
    <3> QED BY <2>1, <3>1 DEF Homely, Owner, Tidy
  <2>3. CASE job[j].text \in Engagements(r)
    BY <2>2, <2>3 DEF Engagements, Linked, AtHome, InNotes
  <2>4. CASE \E k \in Work : <<r, job[j].text, k>> \in talk
    BY <2>2, <2>4 DEF AtHome, InTalk
  <2>5. CASE job[j].text \in ToSet(task[r])
    BY <2>2, <2>5 DEF AtHome, InTasks
  <2> QED BY <2>1, <2>3, <2>4, <2>5 DEF Filed
<1> QED BY <1>1, <1>2, <1>3, PTL DEF DeskSpec

(* A reply under a record's card is never dropped as belonging to nothing  *)
(* (handle_threaded_reply), unless the mapping was taken for another       *)
(* thread or Slack could not show the card.                                *)
THEOREM NoReplyDropped == ScenesPlausible /\ DeskSpec => []RepliesResolved
<1> DEFINE Inv == Tidy /\ Rooms /\ Home /\ Resolvable /\ RepliesResolved
<1>1. ScenesPlausible /\ (\E s \in Scenes : DeskInit(s)) => Inv
  BY Beginnings DEF ScenesPlausible
<1>2. Inv /\ [DeskNext]_deskVars => Inv'
  BY TidyKept, RoomsKept, HomeKept, ResolvableKept
<1> QED BY <1>1, <1>2, PTL DEF DeskSpec

----------------------------------------------------------------------------
\* What a note says under a record stays there.
LEMMA EngagementsStay ==
  ASSUME Tidy, [DeskNext]_deskVars, NEW x \in Records, NEW t \in Engagements(x), "overlap" \notin faults'
  PROVE  t \in Engagements(x)'
<1>0. Nobody \notin Records /\ \A k \in Work : Fit(job[k]) /\ Noted(job[k])
  BY DEF Tidy
<1>1. ASSUME NEW j \in Work, DeskStep(j) \/ WorkerDies(j) PROVE t \in Engagements(x)'
  <2> DEFINE r == job[j]
  <2>1. Writes(job'[j], r, j)
    BY <1>1, StepWrites
  <2>2. PICK i \in DOMAIN notes : notes[i].on = x /\ t \in ToSet(notes[i].body)
    BY DEF Engagements, Linked
  <2>3. i \in DOMAIN notes' /\ notes'[i].on = x /\ t \in ToSet(notes'[i].body)
    <3>1. CASE notes'[i] = notes[i]
      BY <1>1, <2>2, <3>1, NotesAfter
    <3>2. CASE /\ At(j, "append") /\ i = r.note /\ notes'[i].on = notes[i].on /\ notes'[i].body = Append(r.read, r.text)
               /\ notes'[i] # notes[i]
      <4>1. Appends(r)
        BY <2>1, <2>2, <3>2 DEF Writes, Creates, Links, At
      <4>2. r.read = notes[i].body /\ r.read \in Seq(Words) /\ r.text \in Words
        BY <1>0, <3>2, <4>1 DEF Appends, Fit, OnPath, Says, Unplaced, Filing
      <4> QED BY <1>1, <2>2, <3>2, <4>2, ToSetOfAppend, NotesAfter
    <3>3. CASE At(j, "link") /\ i = r.note
      BY <1>0, <2>2, <3>3 DEF At, Noted
    <3> QED BY <1>1, <2>2, <3>1, <3>2, <3>3, NotesAfter
  <2> QED BY <2>3 DEF Engagements, Linked
<1>2. CASE Elsewhere
  BY <1>2 DEF Elsewhere, Engagements, Linked
<1> QED BY <1>1, <1>2, OthersStep

\* What is filed stays, unless a stale copy is written over it.
LEMMA FiledStays ==
  ASSUME Tidy, [DeskNext]_deskVars, NEW x \in Records, NEW t, Filed(x, t), "overlap" \notin faults'
  PROVE  Filed(x, t)'
<1>0. task \in [Records -> Seq(Words)] /\ Nobody \notin Records /\ \A k \in Work : Fit(job[k]) /\ Noted(job[k])
  BY DEF Tidy
<1>1. ASSUME NEW j \in Work, DeskStep(j) \/ WorkerDies(j) PROVE Filed(x, t)'
  <2> DEFINE r == job[j]
  <2>1. Writes(job'[j], r, j)
    BY <1>1, StepWrites
  <2>2. CASE t \in Engagements(x)
    BY <2>2, EngagementsStay DEF Filed
  <2>3. CASE \E k \in Work : <<x, t, k>> \in talk
    BY <2>1, <2>3 DEF Writes, Filed
  <2>4. CASE t \in ToSet(task[x])
    <3>1. CASE task'[x] = task[x]
      BY <2>4, <3>1 DEF Filed
    <3>2. CASE r.pc = "writetask" /\ task'[x] = Append(r.read, r.text) /\ r.on = x /\ task[r.on] = r.read
      <4>1. r.read \in Seq(Words) /\ r.text \in Words
        BY <1>0, <3>2 DEF Fit, OnPath, Says, Unplaced, Filing
      <4> QED BY <2>4, <3>2, <4>1, ToSetOfAppend DEF Filed
    <3> QED BY <1>0, <2>1, <3>1, <3>2 DEF Writes
  <2> QED BY <2>2, <2>3, <2>4 DEF Filed
<1>2. CASE Elsewhere
  BY <1>2, EngagementsStay DEF Elsewhere, Filed
<1> QED BY <1>1, <1>2, OthersStep

\* Past its filing, a text is filed.
Kept ==
  faults \cap {"overlap", "link"} = {} =>
    \A j \in Work : job[j].text # Nobody /\ job[j].pc \in Past => Filed(job[j].on, job[j].text)

LEMMA KeptStays ==
  ASSUME Tidy, Kept, [DeskNext]_deskVars
  PROVE  Kept'
<1>0. \A k \in Work : Fit(job[k]) /\ Noted(job[k])
  BY DEF Tidy
<1>1. ASSUME NEW j \in Work, DeskStep(j) \/ WorkerDies(j), faults' \cap {"overlap", "link"} = {},
             NEW k \in Work, job'[k].text # Nobody, job'[k].pc \in Past
      PROVE  Filed(job[k].on, job[k].text)' 
  <2> DEFINE r == job[j]  q == job'[j]
  <2>1. Turns(q, r) /\ Writes(q, r, j) /\ Files(q, r, j) /\ (\A i \in Work : i # j => job'[i] = job[i])
    BY <1>1, StepTurns, StepWrites, OwnStep DEF Tidy
  <2>2. faults \cap {"overlap", "link"} = {} /\ "overlap" \notin faults'
    BY <1>1, <2>1 DEF Writes
  <2>3. ASSUME job[k].pc \in Past, job'[k].on = job[k].on, job'[k].text = job[k].text PROVE Filed(job[k].on, job[k].text)'
    <3>1. Filed(job[k].on, job[k].text)
      BY <1>1, <2>2, <2>3 DEF Kept
    <3>2. job[k].on \in Records
      BY <1>0, <1>1, <2>3 DEF Fit, OnPath, Past, Unplaced, Filing, Says
    <3>3. \A x \in Records : \A t : Filed(x, t) => Filed(x, t)'
      BY <2>2, FiledStays
    <3> QED BY <2>3, <3>1, <3>2, <3>3
  <2>4. CASE k # j
    BY <1>1, <2>1, <2>3, <2>4
  <2>5. CASE k = j
    <3>0. q.text = r.text /\ Fit(r) /\ Noted(r) /\ r.text # Nobody
      BY <1>0, <1>1, <2>1, <2>5 DEF Turns, Same
    <3>1. CASE r.pc \in Past
      BY <2>1, <2>3, <2>5, <3>0, <3>1 DEF Turns, Past, Unplaced
    <3>2. CASE Appends(r)
      <4>1. r.pc = "append" /\ r.note \in DOMAIN notes /\ notes[r.note].on = r.on /\ r.read \in Seq(Words) /\ r.text \in Words
        BY <3>0, <3>2 DEF Appends, Fit, Noted, OnPath, Says, Unplaced, Filing
      <4>2. notes[r.note] \in Note /\ r.note \in DOMAIN notes'
        BY <1>1, <4>1, NotesAfter, ElementOfSeq, LenProperties DEF Tidy
      <4>3. notes'[r.note] = [notes[r.note] EXCEPT !.body = Append(r.read, r.text)]
        BY <3>2, <4>1 DEF Appends
      <4>4. notes'[r.note].on = r.on /\ notes'[r.note].body = Append(r.read, r.text)
        BY <4>1, <4>2, <4>3 DEF Note
      <4>5. r.text \in ToSet(notes'[r.note].body) /\ q.on = r.on
        BY <2>1, <4>1, <4>4, ToSetOfAppend DEF Turns, Unplaced
      <4> QED BY <2>5, <3>0, <4>2, <4>4, <4>5 DEF Filed, Engagements, Linked
    <3>3. CASE r.pc = "link" /\ Links(r)
      <4>1. r.note \in DOMAIN notes /\ notes[r.note].body = <<r.text>> /\ q.on = r.on
        BY <2>1, <3>0, <3>3 DEF Noted, Turns, Unplaced
      <4>2. notes[r.note] \in Note /\ r.note \in DOMAIN notes'
        BY <1>1, <4>1, NotesAfter, ElementOfSeq, LenProperties DEF Tidy
      <4>3. notes'[r.note] = [notes[r.note] EXCEPT !.on = r.on]
        BY <3>3, <4>1 DEF Links
      <4>4. notes'[r.note].on = r.on /\ notes'[r.note].body = <<r.text>>
        BY <4>1, <4>2, <4>3 DEF Note
      <4>5. r.text \in ToSet(<<r.text>>)
        BY DEF ToSet
      <4> QED BY <2>5, <3>0, <4>1, <4>2, <4>4, <4>5 DEF Filed, Engagements, Linked
    <3>4. CASE r.pc = "comment" /\ <<r.on, r.text, j>> \in talk'
      BY <2>1, <2>5, <3>0, <3>4 DEF Filed, Turns, Unplaced
    <3>5. CASE r.pc = "writetask" /\ task' = [task EXCEPT ![r.on] = Append(r.read, r.text)]
      <4>1. r.on \in Records /\ r.read \in Seq(Words) /\ r.text \in Words /\ q.on = r.on
        BY <2>1, <3>0, <3>5 DEF Turns, Fit, OnPath, Says, Unplaced, Filing
      <4>2. task'[r.on] = Append(r.read, r.text)
        BY <3>5, <4>1 DEF Tidy
      <4> QED BY <2>5, <3>0, <4>1, <4>2, ToSetOfAppend DEF Filed
    <3> QED BY <1>1, <2>1, <2>5, <3>0, <3>1, <3>2, <3>3, <3>4, <3>5 DEF Files
  <2> QED BY <2>4, <2>5
<1>2. CASE Elsewhere
  <2>1. \A x \in Records : \A t : Filed(x, t) => Filed(x, t)'
    BY <1>2 DEF Elsewhere, Filed, Engagements, Linked
  <2>2. \A k \in Work : job[k].text # Nobody /\ job[k].pc \in Past => job[k].on \in Records
    BY <1>0 DEF Fit, OnPath, Past, Unplaced, Filing, Says
  <2> QED BY <1>2, <2>1, <2>2 DEF Elsewhere, Kept
<1> QED BY <1>1, <1>2, OthersStep DEF Kept

(* What a handler has dealt with to the end is in HubSpot, under the       *)
(* record it resolved, and stays there, whatever later replies do to the   *)
(* same note (create_note's read and write back), unless two of them       *)
(* overlapped or an association failed.                                    *)
THEOREM RepliesStayFiled == ScenesPlausible /\ DeskSpec => []RepliesKept
<1>1. ScenesPlausible /\ (\E s \in Scenes : DeskInit(s)) => Tidy /\ Kept
  <2>1. ASSUME NEW s \in Scenes, Plausible(s), DeskInit(s) PROVE Kept
    <3>1. \A k \in Work : job[k].text # Nobody => job[k].pc \notin Past
      BY <2>1 DEF DeskInit, Plausible, Arrives, Begins, Past
    <3> QED BY <3>1 DEF Kept
  <2> QED BY <2>1, Beginnings DEF ScenesPlausible
<1>2. Tidy /\ Kept /\ [DeskNext]_deskVars => (Tidy /\ Kept)'
  BY TidyKept, KeptStays
<1>3. Kept => RepliesKept
  BY DEF Kept, RepliesKept, Writers, At, Past
<1> QED BY <1>1, <1>2, <1>3, PTL DEF DeskSpec

----------------------------------------------------------------------------
(* Once: an event is claimed by the first of its messages, and the request *)
(* that carries a text writes it in one place.                             *)
Written == {"link", "uncache", "invalidate", "post", "done", "failed"}
Advances(q, r) ==
  /\ r.pc \notin {"done", "failed", "ignored", "unresolved", "lost"}
  /\ IF r.pc = "event" 
     THEN events \subseteq events' /\ ("opened" \notin faults' => r.ev \in events' /\ (q.pc # "ignored" => r.ev \notin events))
     ELSE UNCHANGED events
  /\ r.pc \in Written => q.pc \in Written \/ "redelivered" \in faults'
  /\ r.pc = "append" => UNCHANGED notes \/ q.pc = "uncache" \/ "answer" \in faults'
  /\ r.pc = "comment" => UNCHANGED talk \/ q.pc \in Written

LEMMA StepAdvances ==
  ASSUME Tidy, NEW j \in Work, DeskStep(j) \/ WorkerDies(j)
  PROVE  Advances(job'[j], job[j])
<1>0. DOMAIN job = Work /\ DOMAIN job[j] = JobFields
  BY DEF Tidy, Fit
<1> USE DEF At, Set, Goto, hubspot, slackSide, Blame, JobFields, Advances, Written
<1>1. CASE Deliver(j)
  BY <1>0, <1>1 DEF Deliver
<1>2. CASE Human(j)
  BY <1>0, <1>2 DEF Human
<1>3. CASE Redact(j)
  BY <1>0, <1>3 DEF Redact
<1>4. CASE Publish(j)
  BY <1>0, <1>4 DEF Publish
<1>5. CASE Resolve(j)
  BY <1>0, <1>5 DEF Resolve, Way
<1>6. CASE Parent(j)
  BY <1>0, <1>6 DEF Parent
<1>7. CASE Lazy(j)
  BY <1>0, <1>7 DEF Lazy, Way
<1>8. CASE AddNote(j)
  BY <1>0, <1>8 DEF AddNote
<1>9. CASE SubmitReply(j)
  BY <1>0, <1>9 DEF SubmitReply
<1>10. CASE Claim(j)
  BY <1>0, <1>10 DEF Claim
<1>11. CASE Thread(j)
  BY <1>0, <1>11 DEF Thread
<1>12. CASE Comment(j)
  BY <1>0, <1>12 DEF Comment, AfterFiling
<1>13. CASE Search(j)
  BY <1>0, <1>13 DEF Search
<1>14. CASE AppendToLog(j)
  BY <1>0, <1>14 DEF AppendToLog, Wrote
<1>15. CASE CreateNote(j)
  BY <1>0, <1>15 DEF CreateNote
<1>16. CASE LinkNote(j)
  BY <1>0, <1>16 DEF LinkNote
<1>17. CASE ReadTask(j)
  BY <1>0, <1>17 DEF ReadTask
<1>18. CASE WriteTask(j)
  BY <1>0, <1>18 DEF WriteTask
<1>19. CASE Uncache(j)
  BY <1>0, <1>19 DEF Uncache
<1>20. CASE Invalidate(j)
  BY <1>0, <1>20 DEF Invalidate
<1>21. CASE Look(j)
  BY <1>0, <1>21 DEF Look
<1>22. CASE Fetch(j)
  BY <1>0, <1>22 DEF Fetch
<1>23. CASE Store(j)
  BY <1>0, <1>23 DEF Store
<1>24. CASE CreateTicket(j)
  BY <1>0, <1>24 DEF CreateTicket
<1>25. CASE TicketCard(j)
  BY <1>0, <1>25 DEF TicketCard
<1>26. CASE MapTicket(j)
  BY <1>0, <1>26 DEF MapTicket
<1>27. CASE Ensure(j)
  BY <1>0, <1>27 DEF Ensure
<1>28. CASE History(j)
  BY <1>0, <1>28 DEF History
<1>29. CASE ClaimOrClose(j)
  BY <1>0, <1>29 DEF ClaimOrClose
<1>30. CASE Post(j)
  BY <1>0, <1>30 DEF Post
<1>31. CASE WorkerDies(j)
  BY <1>0, <1>31 DEF WorkerDies, Over
<1> QED BY <1>1, <1>2, <1>3, <1>4, <1>5, <1>6, <1>7, <1>8, <1>9, <1>10, <1>11, <1>12, <1>13, <1>14, <1>15, <1>16, <1>17, <1>18, <1>19, <1>20, <1>21, <1>22, <1>23, <1>24, <1>25, <1>26, <1>27, <1>28, <1>29, <1>30, <1>31 DEF DeskStep

Claims == "opened" \notin faults =>
  /\ \A j \in Work : job[j].kind = "reply" /\ job[j].pc # "event" => job[j].ev \in events
  /\ \A j, k \in Work : j # k /\ OneMessage(j, k) => job[j].pc \in {"event", "ignored"} \/ job[k].pc \in {"event", "ignored"}

LEMMA ClaimsKept ==
  ASSUME Tidy, Claims, [DeskNext]_deskVars
  PROVE  Claims'
<1>1. ASSUME NEW j \in Work, DeskStep(j) \/ WorkerDies(j), "opened" \notin faults' PROVE Claims'
  <2> DEFINE r == job[j]  q == job'[j]
  <2>1. Turns(q, r) /\ Advances(q, r) /\ (\A k \in Work : k # j => job'[k] = job[k])
    BY <1>1, StepTurns, StepAdvances, OwnStep DEF Tidy
  <2>2. (\A k \in Work : Same(job'[k], job[k])) /\ "opened" \notin faults
    BY <1>1, <2>1, StepWrites DEF Turns, Same, Writes
  <2>3. \A k \in Work : job'[k].kind = "reply" /\ job'[k].pc # "event" => job'[k].ev \in events'
    BY <1>1, <2>1, <2>2 DEF Claims, Advances, Same
  <2>4. ASSUME NEW i \in Work, NEW k \in Work, i # k, OneMessage(i, k)',
               job'[i].pc \notin {"event", "ignored"}, job'[k].pc \notin {"event", "ignored"}
        PROVE  FALSE
    <3>1. OneMessage(i, k) /\ OneMessage(k, i)
      BY <2>2, <2>4 DEF OneMessage, Same
    <3>2. i = j \/ k = j
      BY <2>1, <2>2, <2>4, <3>1 DEF Claims
    <3>3. ASSUME NEW m \in Work, m # j, OneMessage(j, m), job'[m].pc \notin {"event", "ignored"}, q.pc \notin {"event", "ignored"} PROVE FALSE
      <4>1. job[m].pc \notin {"event", "ignored"} /\ job[m].ev = r.ev /\ job[m].ev \in events
        BY <2>1, <2>2, <3>3 DEF Claims, OneMessage
      <4>2. r.pc = "event" => r.ev \notin events
        BY <1>1, <2>1, <3>3 DEF Advances
      <4>3. r.pc # "event" => r.pc = "ignored"
        BY <2>2, <3>3, <4>1 DEF Claims
      <4> QED BY <2>1, <4>1, <4>2, <4>3 DEF Advances
    <3> QED BY <2>4, <3>1, <3>2, <3>3
  <2> QED BY <2>3, <2>4 DEF Claims, At
<1>2. CASE Elsewhere /\ UNCHANGED events
  <2>1. job' = job /\ faults' = faults /\ events' = events
    BY <1>2 DEF Elsewhere
  <2> QED BY <2>1 DEF Claims, OneMessage
<1>3. (\E j \in Work : DeskStep(j) \/ WorkerDies(j)) \/ UNCHANGED events
  BY DEF DeskNext, deskVars, Announced, ViewExpires, Midnight, slackSide
<1>4. "opened" \in faults' => Claims'
  BY DEF Claims
<1> QED BY <1>1, <1>2, <1>3, <1>4, OthersStep

\* Where a text stands: nowhere but in the note n, or in a conversation (0).
Single(s, t) == \A a, b \in DOMAIN s : s[a] = t /\ s[b] = t => a = b
OnlyAt(t, n) ==
  /\ \A i \in DOMAIN notes : Single(notes[i].body, t) /\ (t \in ToSet(notes[i].body) => i = n)
  /\ \A k \in Work : At(k, "append") => Single(job[k].read, t) /\ (t \in ToSet(job[k].read) => job[k].note = n)
  /\ \A x, y \in talk : x[2] = t /\ y[2] = t => x = y /\ n = 0
Unwritten(t) == OnlyAt(t, 0) /\ \A x \in talk : x[2] # t
Once ==
  faults \cap {"opened", "answer", "redelivered"} = {} =>
    \A j \in Work : job[j].text # Nobody =>
      /\ \E n \in Nat : OnlyAt(job[j].text, n)
      /\ Unwritten(job[j].text) \/ \E k \in Work : job[k].text = job[j].text /\ job[k].pc \in Written

LEMMA SingleAppend ==
  ASSUME NEW S, NEW s \in Seq(S), NEW e \in S, NEW t, Single(s, t), e # t \/ t \notin ToSet(s)
  PROVE  Single(Append(s, e), t)
<1>1. /\ Append(s, e) \in Seq(S) /\ Len(Append(s, e)) = Len(s) + 1 /\ Append(s, e)[Len(s) + 1] = e
      /\ \A i \in 1..Len(s) : Append(s, e)[i] = s[i]
  BY AppendProperties
<1>2. Len(s) \in Nat /\ DOMAIN s = 1..Len(s) /\ DOMAIN Append(s, e) = 1..(Len(s) + 1)
  BY <1>1, LenProperties
<1>3. SUFFICES ASSUME NEW a \in DOMAIN Append(s, e), NEW b \in DOMAIN Append(s, e), Append(s, e)[a] = t, Append(s, e)[b] = t PROVE a = b
  BY DEF Single
<1>4. \A c \in DOMAIN Append(s, e) : c \in DOMAIN s \/ c = Len(s) + 1
  BY <1>2
<1>5. \A c \in DOMAIN s : s[c] \in ToSet(s)
  BY DEF ToSet
<1> QED BY <1>1, <1>2, <1>3, <1>4, <1>5 DEF Single

\* A step that does not write a text leaves it where it is.
LEMMA OnlyAtStays ==
  ASSUME Tidy, NEW j \in Work, DeskStep(j) \/ WorkerDies(j), NEW t, NEW n \in Nat, OnlyAt(t, n),
         job[j].text = t => UNCHANGED talk /\ (UNCHANGED notes \/ At(j, "link"))
  PROVE  OnlyAt(t, n)'
<1> DEFINE r == job[j]  q == job'[j]
<1>1. Fit(r) /\ Noted(r) /\ Turns(q, r) /\ Writes(q, r, j) /\ (\A k \in Work : k # j => job'[k] = job[k])
  BY StepTurns, StepWrites, OwnStep DEF Tidy
<1>2. ASSUME NEW i \in DOMAIN notes' PROVE Single(notes'[i].body, t) /\ (t \in ToSet(notes'[i].body) => i = n)
  <2>1. CASE i \in DOMAIN notes /\ notes'[i].body = notes[i].body
    BY <2>1 DEF OnlyAt
  <2>2. CASE At(j, "append") /\ i = r.note /\ notes'[i].body = Append(r.read, r.text) /\ notes' # notes
    <3>1. r.read \in Seq(Words) /\ r.text \in Words /\ r.text # t
      BY <1>1, <2>2 DEF Fit, OnPath, Says, Unplaced, Filing, At
    <3>2. Single(r.read, t) /\ (t \in ToSet(r.read) => r.note = n)
      BY <2>2 DEF OnlyAt
    <3> QED BY <2>2, <3>1, <3>2, SingleAppend, ToSetOfAppend
  <2>3. CASE i \notin DOMAIN notes
    <3>1. notes'[i].body = <<r.text>> /\ q.pc = "link"
      BY <2>3, NotesAfter
    <3>2. r.text # t
      BY <1>1, <2>3, <3>1 DEF Turns, At
    <3>3. ToSet(<<r.text>>) = {r.text} /\ Single(<<r.text>>, t)
      BY DEF ToSet, Single
    <3> QED BY <3>1, <3>2, <3>3
  <2> QED BY <2>1, <2>2, <2>3, NotesAfter
<1>3. ASSUME NEW k \in Work, job'[k].pc = "append" PROVE Single(job'[k].read, t) /\ (t \in ToSet(job'[k].read) => job'[k].note = n)
  <2>1. CASE k # j
    BY <1>1, <1>3, <2>1 DEF OnlyAt, At
  <2>2. CASE k = j
    BY <1>1, <1>3, <2>2 DEF Turns, OnlyAt
  <2> QED BY <2>1, <2>2
<1>4. \A x \in talk' : x[2] = t => x \in talk
  BY <1>1 DEF Writes
<1> QED BY <1>2, <1>3, <1>4 DEF OnlyAt, At

LEMMA UnwrittenStays ==
  ASSUME Tidy, NEW j \in Work, DeskStep(j) \/ WorkerDies(j), NEW t, Unwritten(t),
         job[j].text = t => UNCHANGED talk /\ (UNCHANGED notes \/ At(j, "link"))
  PROVE  Unwritten(t)'
<1>1. OnlyAt(t, 0)'
  BY OnlyAtStays DEF Unwritten
<1>2. \A x \in talk' : x[2] # t
  BY StepWrites DEF Writes, Unwritten
<1> QED BY <1>1, <1>2 DEF Unwritten

\* A text is written in one place.
LEMMA WritesOnce ==
  ASSUME Tidy, NEW j \in Work, DeskStep(j) \/ WorkerDies(j), NEW t, Unwritten(t), job[j].text = t, t # Nobody,
         "answer" \notin faults'
  PROVE  (\E n \in Nat : OnlyAt(t, n)') /\ (Unwritten(t)' \/ job'[j].pc \in Written)
<1> DEFINE r == job[j]  q == job'[j]
<1>1. Fit(r) /\ Noted(r) /\ Turns(q, r) /\ Writes(q, r, j) /\ Advances(q, r) /\ (\A k \in Work : k # j => job'[k] = job[k])
  BY StepTurns, StepWrites, StepAdvances, OwnStep DEF Tidy
<1>2. OnlyAt(t, 0) /\ (\A x \in talk : x[2] # t)
  BY DEF Unwritten
<1>3. Len(notes) \in Nat /\ DOMAIN notes = 1..Len(notes)
  BY LenProperties DEF Tidy
<1>4. /\ \A i \in DOMAIN notes : t \notin ToSet(notes[i].body)
      /\ \A k \in Work : At(k, "append") => job[k].note # 0 /\ t \notin ToSet(job[k].read)
  BY <1>2, <1>3 DEF OnlyAt, Tidy, Noted, At
<1>5. CASE UNCHANGED talk /\ (UNCHANGED notes \/ At(j, "link"))
  BY <1>5, UnwrittenStays DEF Unwritten
<1>6. ASSUME UNCHANGED talk, NEW n \in DOMAIN notes', Single(notes'[n].body, t),
             \A i \in DOMAIN notes' \ {n} : t \notin ToSet(notes'[i].body) /\ Single(notes'[i].body, t), q.pc \in {"link", "uncache"}
      PROVE  \E m \in Nat : OnlyAt(t, m)'
  <2>0. n \in Nat
    BY NotesAfter, LenProperties
  <2>1. \A i \in DOMAIN notes' : Single(notes'[i].body, t) /\ (t \in ToSet(notes'[i].body) => i = n)
    BY <1>6
  <2>2. \A k \in Work : job'[k].pc = "append" => Single(job'[k].read, t) /\ t \notin ToSet(job'[k].read)
    BY <1>1, <1>2, <1>4, <1>6 DEF OnlyAt, At
  <2>3. \A x \in talk' : x[2] # t
    BY <1>2, <1>6
  <2>4. OnlyAt(t, n)'
    BY <2>1, <2>2, <2>3 DEF OnlyAt, At
  <2> QED BY <2>0, <2>4
<1>7. CASE At(j, "append") /\ notes' # notes
  <2>1. UNCHANGED talk /\ q.pc = "uncache" /\ r.note \in DOMAIN notes'
    BY <1>1, <1>7, NotesAfter DEF Writes, Advances, Noted, At
  <2>2. r.read \in Seq(Words) /\ r.text \in Words /\ Single(r.read, t) /\ t \notin ToSet(r.read)
    BY <1>1, <1>2, <1>4, <1>7 DEF Fit, OnPath, Says, Unplaced, Filing, At, OnlyAt
  <2>3. Single(Append(r.read, r.text), t)
    BY <2>2, SingleAppend
  <2>4. \A i \in DOMAIN notes' : i \in DOMAIN notes
    BY <2>1, NotesAfter
  <2>5. ASSUME NEW i \in DOMAIN notes' \ {r.note} PROVE t \notin ToSet(notes'[i].body) /\ Single(notes'[i].body, t)
    <3>1. notes'[i] = notes[i]
      BY <1>7, <2>4, <2>5, NotesAfter DEF At
    <3> QED BY <1>2, <1>4, <2>4, <3>1 DEF OnlyAt
  <2>6. Single(notes'[r.note].body, t)
    <3>1. notes'[r.note] = notes[r.note] \/ notes'[r.note].body = Append(r.read, r.text)
      BY <1>1, <1>7, NotesAfter DEF Noted, At
    <3> QED BY <1>1, <1>2, <1>7, <2>3, <3>1 DEF OnlyAt, Noted, At
  <2>7. \A n : n = r.note => \E m \in Nat : OnlyAt(t, m)'
    BY <1>6, <2>1, <2>5, <2>6
  <2> QED BY <2>1, <2>7 DEF Written
<1>8. CASE Creates(q, r)
  <2>1. UNCHANGED talk /\ q.pc = "link"
    BY <1>1, <1>8 DEF Writes, Creates
  <2>2. \A i \in DOMAIN notes : notes'[i] = notes[i]
    BY <1>8, NotesAfter DEF Creates, At
  <2>3. Single(<<t>>, t)
    BY DEF Single
  <2>4. q.note \in DOMAIN notes' \ DOMAIN notes
    <3>1. notes' \in Seq(Note)
      BY NotesAfter
    <3>2. DOMAIN notes' = 1..(Len(notes) + 1)
      BY <1>3, <1>8, <3>1, LenProperties, AppendProperties DEF Creates, Tidy
    <3> QED BY <1>3, <1>8, <3>2 DEF Creates
  <2>5. ASSUME NEW i \in DOMAIN notes' \ {q.note} PROVE t \notin ToSet(notes'[i].body) /\ Single(notes'[i].body, t)
    <3>1. i \in DOMAIN notes
      BY <2>5, NotesAfter
    <3> QED BY <1>2, <1>4, <2>2, <3>1 DEF OnlyAt
  <2>6. notes'[q.note].body = <<t>>
    BY <2>4, NotesAfter
  <2>7. \A n : n = q.note => \E m \in Nat : OnlyAt(t, m)'
    BY <1>6, <2>1, <2>3, <2>4, <2>5, <2>6
  <2> QED BY <2>1, <2>7 DEF Written
<1>9. CASE At(j, "comment") /\ talk' # talk
  <2>1. UNCHANGED notes /\ q.pc \in Written /\ talk' = talk \cup {<<r.on, t, j>>} /\ q.pc # "append"
    BY <1>1, <1>9 DEF Writes, Appends, Creates, Links, Advances, At, Written
  <2>2. OnlyAt(t, 0)'
    BY <1>1, <1>2, <2>1 DEF OnlyAt, At
  <2> QED BY <2>1, <2>2
<1> QED BY <1>1, <1>5, <1>7, <1>8, <1>9 DEF Writes, Appends, Links, At

LEMMA OnceKept ==
  ASSUME Tidy, Claims, Once, [DeskNext]_deskVars
  PROVE  Once'
<1>1. ASSUME NEW j \in Work, DeskStep(j) \/ WorkerDies(j), faults' \cap {"opened", "answer", "redelivered"} = {},
             NEW w \in Work, job'[w].text # Nobody
      PROVE  /\ \E n \in Nat : OnlyAt(job[w].text, n)'
             /\ Unwritten(job[w].text)' \/ \E k \in Work : job'[k].text = job'[w].text /\ job'[k].pc \in Written
  <2> DEFINE r == job[j]  q == job'[j]
  <2>1. Turns(q, r) /\ Writes(q, r, j) /\ Advances(q, r) /\ (\A k \in Work : k # j => job'[k] = job[k])
    BY <1>1, StepTurns, StepWrites, StepAdvances, OwnStep DEF Tidy
  <2>2. (\A k \in Work : Same(job'[k], job[k])) /\ faults \cap {"opened", "answer", "redelivered"} = {}
    BY <1>1, <2>1 DEF Turns, Same, Writes
  <2>3. PICK t : t = job[w].text /\ t = job'[w].text /\ t # Nobody
    BY <1>1, <2>2 DEF Same
  <2>4. (\E n \in Nat : OnlyAt(t, n)) /\ (Unwritten(t) \/ \E k \in Work : job[k].text = t /\ job[k].pc \in Written)
    BY <2>2, <2>3 DEF Once
  <2>5. SUFFICES /\ \E n \in Nat : OnlyAt(t, n)'
                 /\ Unwritten(t)' \/ \E k \in Work : job'[k].text = t /\ job'[k].pc \in Written
    <3>1. (\E n \in Nat : OnlyAt(t, n)') => \E n \in Nat : OnlyAt(job[w].text, n)'
      BY <2>3 DEF OnlyAt
    <3>2. Unwritten(t)' => Unwritten(job[w].text)'
      BY <2>3 DEF Unwritten, OnlyAt
    <3> QED BY <2>3, <3>1, <3>2
  <2>6. ASSUME r.text = t => UNCHANGED talk /\ (UNCHANGED notes \/ At(j, "link")),
               \A k \in Work : job[k].text = t /\ job[k].pc \in Written => job'[k].pc \in Written
        PROVE  /\ \E n \in Nat : OnlyAt(t, n)'
               /\ Unwritten(t)' \/ \E k \in Work : job'[k].text = t /\ job'[k].pc \in Written
    <3>1. \E n \in Nat : OnlyAt(t, n)'
      BY <1>1, <2>4, <2>6, OnlyAtStays
    <3>2. Unwritten(t) => Unwritten(t)'
      BY <1>1, <2>6, UnwrittenStays
    <3> QED BY <2>2, <2>4, <2>6, <3>1, <3>2 DEF Same
  <2>7. CASE r.text # t
    BY <2>1, <2>6, <2>7
  <2>8. CASE r.text = t /\ Unwritten(t)
    <3>1. (\E n \in Nat : OnlyAt(t, n)') /\ (Unwritten(t)' \/ q.pc \in Written)
      BY <1>1, <2>3, <2>8, WritesOnce
    <3> QED BY <2>2, <2>8, <3>1 DEF Same
  <2>9. CASE r.text = t /\ ~Unwritten(t)
    <3>1. PICK k \in Work : job[k].text = t /\ job[k].pc \in Written
      BY <2>4, <2>9
    <3>2. r.pc \in Written \/ r.pc = "event"
      <4>1. CASE k = j
        BY <3>1, <4>1
      <4>2. CASE k # j
        <5>1. OneMessage(j, k)
          BY <2>3, <2>9, <3>1, <4>2 DEF Tidy
        <5>2. r.pc \in {"event", "ignored"}
          BY <2>2, <3>1, <4>2, <5>1 DEF Claims, Written
        <5> QED BY <2>1, <5>2 DEF Advances
      <4> QED BY <4>1, <4>2
    <3>3. UNCHANGED talk /\ (UNCHANGED notes \/ At(j, "link"))
      BY <2>1, <3>2 DEF Writes, Appends, Creates, Links, Written, At
    <3>4. r.pc \in Written => q.pc \in Written
      BY <1>1, <2>1 DEF Advances
    <3>5. \A i \in Work : job[i].text = t /\ job[i].pc \in Written => job'[i].pc \in Written
      BY <2>1, <3>4
    <3> QED BY <2>6, <3>3, <3>5
  <2> QED BY <2>7, <2>8, <2>9
<1>2. CASE Elsewhere
  <2>1. \A t, n : OnlyAt(t, n) => OnlyAt(t, n)'
    BY <1>2 DEF Elsewhere, OnlyAt, At
  <2>2. \A t : Unwritten(t) => Unwritten(t)'
    BY <1>2, <2>1 DEF Unwritten, Elsewhere
  <2> QED BY <1>2, <2>1, <2>2 DEF Elsewhere, Once
<1> QED BY <1>1, <1>2, OthersStep DEF Once

LEMMA AtMostOne ==
  ASSUME NEW S, \A x, y \in S : x = y
  PROVE  IsFiniteSet(S) /\ Cardinality(S) \in {0, 1} /\ (S = {} => Cardinality(S) = 0)
<1>1. CASE S = {}
  BY <1>1, FS_EmptySet
<1>2. CASE S # {}
  <2>1. PICK x : S = {x}
    BY <1>2
  <2> QED BY <1>2, <2>1, FS_Singleton
<1> QED BY <1>1, <1>2

(* A text is in HubSpot once, though Slack delivers an event again         *)
(* (events_router, processed_events), unless a claim failed open, the      *)
(* answer to a write was lost or the queue delivered a message again.      *)
THEOREM RepliesFiledOnce == ScenesPlausible /\ DeskSpec => []RepliesOnce
<1>1. ScenesPlausible /\ (\E s \in Scenes : DeskInit(s)) => Tidy /\ Claims /\ Once
  <2>1. ASSUME NEW s \in Scenes, Plausible(s), DeskInit(s) PROVE Claims /\ Once
    <3>1. /\ \A k \in Work : job[k].kind = "reply" => job[k].pc = "event"
          /\ \A k \in Work : job[k].pc # "append"
      BY <2>1 DEF DeskInit, Plausible, Arrives, Begins
    <3>2. Claims
      BY <3>1 DEF Claims, OneMessage
    <3>3. ASSUME NEW k \in Work PROVE OnlyAt(job[k].text, 0) /\ Unwritten(job[k].text)
      <4>1. talk = {} /\ \A i \in DOMAIN notes : job[k].text \notin ToSet(notes[i].body)
        BY <2>1 DEF DeskInit, Plausible, TextsApart
      <4>2. \A i \in DOMAIN notes : Single(notes[i].body, job[k].text)
        BY <4>1 DEF Single, ToSet
      <4> QED BY <3>1, <4>1, <4>2 DEF OnlyAt, Unwritten, At
    <3>4. 0 \in Nat
      OBVIOUS
    <3> QED BY <3>2, <3>3, <3>4 DEF Once
  <2> QED BY <2>1, Beginnings DEF ScenesPlausible
<1>2. Tidy /\ Claims /\ Once /\ [DeskNext]_deskVars => (Tidy /\ Claims /\ Once)'
  BY TidyKept, ClaimsKept, OnceKept
<1>3. Tidy /\ Once => RepliesOnce
  <2>1. SUFFICES ASSUME Tidy, Once, faults \cap {"opened", "answer", "redelivered"} = {}, NEW j \in Work, job[j].text # Nobody
                 PROVE  Copies(job[j].text) <= 1
    BY DEF RepliesOnce, Writers
  <2>2. PICK t : t = job[j].text
    OBVIOUS
  <2>3. PICK n \in Nat : OnlyAt(t, n)
    BY <2>1, <2>2 DEF Once
  <2> DEFINE N == {x \in (DOMAIN notes) \X (1..NoteRoom) : x[2] <= Len(notes[x[1]].body) /\ notes[x[1]].body[x[2]] = t}
             T == {x \in talk : x[2] = t}
  <2>4. ASSUME NEW x \in N PROVE /\ x = <<x[1], x[2]>> /\ x[1] = n /\ n \in DOMAIN notes /\ x[2] \in DOMAIN notes[n].body
                                 /\ notes[n].body[x[2]] = t /\ Single(notes[n].body, t)
    <3>1. x \in (DOMAIN notes) \X (1..NoteRoom) /\ x[2] <= Len(notes[x[1]].body) /\ notes[x[1]].body[x[2]] = t
      OBVIOUS
    <3>2. x = <<x[1], x[2]>> /\ x[1] \in DOMAIN notes /\ x[2] \in 1..NoteRoom
      BY <3>1
    <3>3. notes[x[1]] \in Note
      BY <2>1, <3>2, ElementOfSeq, LenProperties DEF Tidy
    <3>4. notes[x[1]].body \in Seq(Words)
      BY <3>3 DEF Note
    <3>5. x[2] \in DOMAIN notes[x[1]].body
      <4>1. Len(notes[x[1]].body) \in Nat /\ DOMAIN notes[x[1]].body = 1..Len(notes[x[1]].body)
        BY <3>4, LenProperties
      <4>2. x[2] \in Int /\ 1 <= x[2]
        BY <3>2
      <4> QED BY <3>1, <4>1, <4>2
    <3>6. t \in ToSet(notes[x[1]].body)
      BY <3>1, <3>5 DEF ToSet
    <3> QED BY <2>3, <3>1, <3>2, <3>5, <3>6 DEF OnlyAt
  <2>5. \A x, y \in N : x = y
    BY <2>4 DEF Single
  <2>6. \A x, y \in T : x = y /\ n = 0
    BY <2>3 DEF OnlyAt
  <2>7. N = {} \/ T = {}
    <3>1. Len(notes) \in Nat /\ DOMAIN notes = 1..Len(notes)
      BY <2>1, LenProperties DEF Tidy
    <3> QED BY <2>4, <2>6, <3>1
  <2> HIDE DEF N, T
  <2>8. Cardinality(N) \in {0, 1} /\ (N = {} => Cardinality(N) = 0)
    BY <2>5, AtMostOne
  <2>9. Cardinality(T) \in {0, 1} /\ (T = {} => Cardinality(T) = 0)
    BY <2>6, AtMostOne
  <2>10. Cardinality(N) + Cardinality(T) <= 1
    BY <2>7, <2>8, <2>9
  <2> QED BY <2>2, <2>10 DEF Copies, N, T
<1> QED BY <1>1, <1>2, <1>3, PTL DEF DeskSpec

----------------------------------------------------------------------------
(* Views: who looks sees what was filed through the same instance.         *)
Cleared == {"post", "done"}
Sees(q, r, j) ==
  /\ r.pc \in Cleared => q.pc \notin Cleared \/ r.pc = "post"
  /\ r.text # Nobody /\ q.pc \in Cleared =>
       \/ r.pc = "post"
       \/ r.pc = "invalidate" /\ views' = [views EXCEPT ![r.host][r.on] = Nobody] /\ Late(j) \subseteq faults'
       \/ r.pc = "comment" /\ RecordType[r.on] = "conversation"
  /\ r.pc = "look" => /\ UNCHANGED views /\ q.owed = Owed(j)
                      /\ q.pc = "fetch" \/ (q.pc = "done" /\ q.got = views[r.host][r.on] /\ q.got # Nobody)
  /\ r.pc = "fetch" => UNCHANGED views /\ q.owed = r.owed /\ q.pc = "store" /\ (q.got = Engagements(r.on) \/ "blind" \in faults')
  /\ r.pc = "store" => /\ views' = [views EXCEPT ![r.host][r.on] = r.got]
                       /\ q.owed = r.owed /\ q.got = r.got /\ q.pc = "done"
  /\ r.pc \notin {"look", "fetch", "store"} => /\ q.pc \notin {"fetch", "store"} /\ q.got = r.got /\ q.owed = r.owed
                                               /\ UNCHANGED views \/ views' = [views EXCEPT ![r.host][r.on] = Nobody]

LEMMA StepSees ==
  ASSUME Tidy, NEW j \in Work, DeskStep(j) \/ WorkerDies(j)
  PROVE  Sees(job'[j], job[j], j)
<1>0. DOMAIN job = Work /\ DOMAIN job[j] = JobFields
  BY DEF Tidy, Fit
<1>b. job[j].pc \in {"redact", "look", "fetch", "store", "ticket", "card", "map", "claimed", "ticketupdate"} => job[j].text = Nobody
  <2>1. Fit(job[j])
    BY DEF Tidy
  <2> QED BY <2>1 DEF Fit, OnPath, Says, Unplaced, Filing
<1>c. \A x \in Records : Way(x) \in {"thread", "comment", "create"}
  BY DEF Way
<1>d. job[j].pc = "lazy" => job[j].on \in Records
  <2>1. Fit(job[j])
    BY DEF Tidy
  <2> QED BY <2>1 DEF Fit, OnPath, Unplaced, Filing
<1>e. job[j].kind = "reply" => job[j].pc \notin {"look", "fetch", "store"}
  <2>1. Fit(job[j])
    BY DEF Tidy
  <2> QED BY <2>1 DEF Fit, OnPath, Unplaced, Filing
<1> USE DEF At, Set, Goto, hubspot, Blame, JobFields, Sees, Cleared
<1>1. CASE Deliver(j)
  BY <1>0, <1>b, <1>c, <1>d, <1>e, <1>1 DEF Deliver
<1>2. CASE Human(j)
  BY <1>0, <1>b, <1>c, <1>d, <1>e, <1>2 DEF Human
<1>3. CASE Redact(j)
  BY <1>0, <1>b, <1>c, <1>d, <1>e, <1>3 DEF Redact
<1>4. CASE Publish(j)
  BY <1>0, <1>b, <1>c, <1>d, <1>e, <1>4 DEF Publish
<1>5. CASE Resolve(j)
  BY <1>0, <1>b, <1>c, <1>d, <1>e, <1>5 DEF Resolve
<1>6. CASE Parent(j)
  BY <1>0, <1>b, <1>c, <1>d, <1>e, <1>6 DEF Parent
<1>7. CASE Lazy(j)
  BY <1>0, <1>b, <1>c, <1>d, <1>e, <1>7 DEF Lazy
<1>8. CASE AddNote(j)
  BY <1>0, <1>b, <1>c, <1>d, <1>e, <1>8 DEF AddNote
<1>9. CASE SubmitReply(j)
  BY <1>0, <1>b, <1>c, <1>d, <1>e, <1>9 DEF SubmitReply
<1>10. CASE Claim(j)
  BY <1>0, <1>b, <1>c, <1>d, <1>e, <1>10 DEF Claim
<1>11. CASE Thread(j)
  BY <1>0, <1>b, <1>c, <1>d, <1>e, <1>11 DEF Thread
<1>12. CASE Comment(j)
  BY <1>0, <1>b, <1>c, <1>d, <1>e, <1>12 DEF Comment, AfterFiling
<1>13. CASE Search(j)
  BY <1>0, <1>b, <1>c, <1>d, <1>e, <1>13 DEF Search
<1>14. CASE AppendToLog(j)
  BY <1>0, <1>b, <1>c, <1>d, <1>e, <1>14 DEF AppendToLog, Wrote
<1>15. CASE CreateNote(j)
  BY <1>0, <1>b, <1>c, <1>d, <1>e, <1>15 DEF CreateNote
<1>16. CASE LinkNote(j)
  BY <1>0, <1>b, <1>c, <1>d, <1>e, <1>16 DEF LinkNote
<1>17. CASE ReadTask(j)
  BY <1>0, <1>b, <1>c, <1>d, <1>e, <1>17 DEF ReadTask
<1>18. CASE WriteTask(j)
  BY <1>0, <1>b, <1>c, <1>d, <1>e, <1>18 DEF WriteTask
<1>19. CASE Uncache(j)
  BY <1>0, <1>b, <1>c, <1>d, <1>e, <1>19 DEF Uncache, Uncached
<1>20. CASE Invalidate(j)
  BY <1>0, <1>b, <1>c, <1>d, <1>e, <1>20 DEF Invalidate, Uncached
<1>21. CASE Look(j)
  BY <1>0, <1>b, <1>c, <1>d, <1>e, <1>21 DEF Look
<1>22. CASE Fetch(j)
  BY <1>0, <1>b, <1>c, <1>d, <1>e, <1>22 DEF Fetch
<1>23. CASE Store(j)
  BY <1>0, <1>b, <1>c, <1>d, <1>e, <1>23 DEF Store
<1>24. CASE CreateTicket(j)
  BY <1>0, <1>b, <1>c, <1>d, <1>e, <1>24 DEF CreateTicket
<1>25. CASE TicketCard(j)
  BY <1>0, <1>b, <1>c, <1>d, <1>e, <1>25 DEF TicketCard
<1>26. CASE MapTicket(j)
  BY <1>0, <1>b, <1>c, <1>d, <1>e, <1>26 DEF MapTicket
<1>27. CASE Ensure(j)
  BY <1>0, <1>b, <1>c, <1>d, <1>e, <1>27 DEF Ensure
<1>28. CASE History(j)
  BY <1>0, <1>b, <1>c, <1>d, <1>e, <1>28 DEF History
<1>29. CASE ClaimOrClose(j)
  BY <1>0, <1>b, <1>c, <1>d, <1>e, <1>29 DEF ClaimOrClose
<1>30. CASE Post(j)
  BY <1>0, <1>b, <1>c, <1>d, <1>e, <1>30 DEF Post
<1>31. CASE WorkerDies(j)
  BY <1>0, <1>b, <1>c, <1>d, <1>e, <1>31 DEF WorkerDies, Over
<1> QED BY <1>1, <1>2, <1>3, <1>4, <1>5, <1>6, <1>7, <1>8, <1>9, <1>10, <1>11, <1>12, <1>13, <1>14, <1>15, <1>16, <1>17, <1>18, <1>19, <1>20, <1>21, <1>22, <1>23, <1>24, <1>25, <1>26, <1>27, <1>28, <1>29, <1>30, <1>31 DEF DeskStep


Seen == DOMAIN views = Hosts /\ \A h \in Hosts : DOMAIN views[h] = Records

\* What happens of its own accord may take a view away.
LEMMA ViewsElsewhere ==
  ASSUME Tidy, [DeskNext]_deskVars
  PROVE  \/ \E j \in Work : DeskStep(j) \/ WorkerDies(j)
         \/ /\ Elsewhere
            /\ UNCHANGED views \/ \E h \in Hosts, x \in Records : views' = [views EXCEPT ![h][x] = Nobody]
<1>1. \/ \E j \in Work : DeskStep(j) \/ WorkerDies(j)
      \/ UNCHANGED views
      \/ \E h \in Hosts, x \in Records : views' = [views EXCEPT ![h][x] = Nobody]
  BY DEF DeskNext, deskVars, Announced, ViewExpires, Midnight
<1> QED BY <1>1, OthersStep

LEMMA ViewsAfter ==
  ASSUME Seen, NEW h, NEW x, NEW v, views' = [views EXCEPT ![h][x] = v]
  PROVE  /\ Seen'
         /\ \A g \in Hosts, y \in Records : views'[g][y] = IF g = h /\ y = x THEN v ELSE views[g][y]
<1>1. DOMAIN views' = Hosts /\ \A g \in Hosts : views'[g] = IF g = h THEN [views[h] EXCEPT ![x] = v] ELSE views[g]
  BY DEF Seen
<1>2. \A g \in Hosts : DOMAIN views'[g] = Records
  BY <1>1 DEF Seen
<1>3. ASSUME NEW g \in Hosts, NEW y \in Records PROVE views'[g][y] = IF g = h /\ y = x THEN v ELSE views[g][y]
  BY <1>1 DEF Seen
<1> QED BY <1>1, <1>2, <1>3 DEF Seen

LEMMA SeenKept ==
  ASSUME Tidy, Seen, [DeskNext]_deskVars
  PROVE  Seen'
<1>1. ASSUME NEW j \in Work, DeskStep(j) \/ WorkerDies(j)
      PROVE  UNCHANGED views \/ \E h, x, v : views' = [views EXCEPT ![h][x] = v]
  <2>1. Sees(job'[j], job[j], j)
    BY <1>1, StepSees
  <2>2. CASE UNCHANGED views
    BY <2>2
  <2>3. ASSUME NEW v, views' = [views EXCEPT ![job[j].host][job[j].on] = v] PROVE \E h, x, w : views' = [views EXCEPT ![h][x] = w]
    BY <2>3
  <2> QED BY <2>1, <2>2, <2>3 DEF Sees
<1>2. UNCHANGED views => Seen'
  BY DEF Seen
<1> QED BY <1>1, <1>2, ViewsElsewhere, ViewsAfter

\* A text that has been dealt with is not filed anew.
LEMMA NothingNew ==
  ASSUME Tidy, Claims, NEW j \in Work, DeskStep(j) \/ WorkerDies(j), "overlap" \notin faults', "opened" \notin faults, NEW x \in Records,
         NEW k \in Work, job[k].pc \in Cleared, job[k].text # Nobody, NEW t, t = job[k].text, t \in Engagements(x)'
  PROVE  t \in Engagements(x)
<1> DEFINE r == job[j]
<1>0. Nobody \notin Records /\ Fit(r) /\ Noted(r) /\ Fit(job[k]) /\ Writes(job'[j], r, j) /\ Advances(job'[j], r)
  BY StepWrites, StepAdvances DEF Tidy
<1>1. r.pc \in {"append", "create", "link"} => r.text # t
  <2>1. ASSUME r.text = t, r.pc \in {"append", "create", "link"} PROVE FALSE
    <3>1. j # k
      BY <2>1 DEF Cleared
    <3>2. OneMessage(j, k)
      BY <2>1, <3>1 DEF Tidy
    <3> QED BY <2>1, <3>1, <3>2 DEF Claims, Cleared
  <2> QED BY <2>1
<1>2. PICK i \in DOMAIN notes' : notes'[i].on = x /\ t \in ToSet(notes'[i].body)
  BY DEF Engagements, Linked
<1>3. CASE i \in DOMAIN notes /\ notes'[i] = notes[i]
  BY <1>2, <1>3 DEF Engagements, Linked
<1>4. CASE /\ i \in DOMAIN notes /\ At(j, "append") /\ i = r.note /\ notes'[i].on = notes[i].on
           /\ notes'[i].body = Append(r.read, r.text) /\ notes'[i] # notes[i]
  <2>1. Appends(r)
    BY <1>0, <1>4 DEF Writes, Creates, Links, At
  <2>2. r.read = notes[i].body /\ r.read \in Seq(Words) /\ r.text \in Words
    BY <1>0, <1>4, <2>1 DEF Appends, Fit, OnPath, Says, Unplaced, Filing
  <2>3. t \in ToSet(notes[i].body)
    BY <1>1, <1>2, <1>4, <2>2, ToSetOfAppend DEF At
  <2> QED BY <1>2, <1>4, <2>3 DEF Engagements, Linked
<1>5. CASE i \in DOMAIN notes /\ At(j, "link") /\ i = r.note /\ notes'[i].body = notes[i].body
  <2>1. notes[i].body = <<r.text>>
    BY <1>0, <1>5 DEF Noted, At
  <2>2. ToSet(<<r.text>>) = {r.text}
    BY DEF ToSet
  <2> QED BY <1>1, <1>2, <1>5, <2>1, <2>2 DEF At
<1>6. CASE i \notin DOMAIN notes
  BY <1>0, <1>2, <1>6, NotesAfter
<1> QED BY <1>2, <1>3, <1>4, <1>5, <1>6, NotesAfter

\* A conversation has no notes: what is said in it is said in its thread.
Spoken ==
  /\ \A k \in Work : job[k].kind = "reply" /\ job[k].pc \notin Unplaced /\ RecordType[job[k].on] = "conversation" =>
       job[k].pc \in {"comment", "done", "failed"}
  /\ \A i \in DOMAIN notes, k \in Work :
       job[k].kind \in {"reply", "submit"} /\ job[k].text \in ToSet(notes[i].body) =>
         notes[i].on = Nobody \/ RecordType[notes[i].on] # "conversation"

LEMMA StepSpeaks ==
  ASSUME Tidy, NEW j \in Work, DeskStep(j) \/ WorkerDies(j), job[j].kind = "reply", job'[j].pc \notin Unplaced,
         RecordType[job'[j].on] = "conversation",
         job[j].pc \in Unplaced \/ job[j].pc \in {"comment", "done", "failed"}
  PROVE  job'[j].pc \in {"comment", "done", "failed"}
<1>0. DOMAIN job = Work /\ DOMAIN job[j] = JobFields
  BY DEF Tidy, Fit
<1> USE DEF At, Set, Goto, JobFields, Unplaced
<1>1. CASE Deliver(j)
  BY <1>0, <1>1 DEF Deliver
<1>2. CASE Human(j)
  BY <1>0, <1>2 DEF Human
<1>3. CASE Publish(j)
  BY <1>0, <1>3 DEF Publish
<1>4. CASE Resolve(j)
  <2>1. CASE \E x \in Records : job'[j] = [job[j] EXCEPT !.pc = Way(x), !.on = x]
    <3>1. PICK x \in Records : job'[j] = [job[j] EXCEPT !.pc = Way(x), !.on = x]
      BY <2>1
    <3>2. job'[j].pc = Way(x) /\ job'[j].on = x
      BY <1>0, <3>1
    <3> QED BY <3>2 DEF Way
  <2>2. CASE job'[j].pc \in {"parent", "unresolved"}
    BY <2>2
  <2> QED BY <1>0, <1>4, <2>1, <2>2 DEF Resolve
<1>5. CASE Parent(j)
  BY <1>0, <1>5 DEF Parent
<1>6. CASE Comment(j)
  BY <1>0, <1>6 DEF Comment, AfterFiling
<1>7. CASE WorkerDies(j)
  BY <1>0, <1>7 DEF WorkerDies
<1>8. job[j].pc \in {"event", "human", "publish", "resolve", "parent", "comment"} \/ WorkerDies(j)
  <2>1. Advances(job'[j], job[j])
    BY StepAdvances
  <2> QED BY <2>1 DEF Advances
<1> USE DEF Redact, Lazy, AddNote, SubmitReply, Claim, Thread, Search, AppendToLog, CreateNote, LinkNote, ReadTask, WriteTask, Uncache,
            Invalidate, Look, Fetch, Store, CreateTicket, TicketCard, MapTicket, Ensure, History, ClaimOrClose, Post
<1> QED BY <1>1, <1>2, <1>3, <1>4, <1>5, <1>6, <1>7, <1>8 DEF DeskStep

LEMMA SpokenKept ==
  ASSUME Tidy, Spoken, [DeskNext]_deskVars
  PROVE  Spoken'
<1>1. ASSUME NEW j \in Work, DeskStep(j) \/ WorkerDies(j) PROVE Spoken'
  <2> DEFINE r == job[j]  q == job'[j]
  <2>1. /\ Turns(q, r) /\ Fit(r) /\ Noted(r) /\ (\A k \in Work : k # j => job'[k] = job[k])
        /\ \A k \in Work : Same(job'[k], job[k])
    <3>1. Turns(q, r) /\ Fit(r) /\ Noted(r) /\ (\A k \in Work : k # j => job'[k] = job[k])
      BY <1>1, StepTurns, OwnStep DEF Tidy
    <3> QED BY <3>1 DEF Turns, Same
  <2>2. ASSUME NEW k \in Work, job'[k].kind = "reply", job'[k].pc \notin Unplaced, RecordType[job'[k].on] = "conversation"
        PROVE  job'[k].pc \in {"comment", "done", "failed"}
    <3>1. CASE k # j
      BY <2>1, <2>2, <3>1 DEF Spoken
    <3>2. CASE k = j
      <4>1. r.kind = "reply" /\ (r.pc \notin Unplaced => q.on = r.on)
        BY <2>1, <2>2, <3>2 DEF Turns, Same, Fit, OnPath, Filing
      <4>2. r.pc \in Unplaced \/ r.pc \in {"comment", "done", "failed"}
        BY <2>2, <3>2, <4>1 DEF Spoken
      <4> QED BY <1>1, <2>2, <3>2, <4>1, <4>2, StepSpeaks
    <3> QED BY <3>1, <3>2
  <2>3. r.pc \in {"append", "link"} /\ r.kind = "reply" => RecordType[r.on] # "conversation"
    BY DEF Spoken, Unplaced
  <2>4. ASSUME NEW i \in DOMAIN notes', NEW k \in Work, job'[k].kind \in {"reply", "submit"}, job'[k].text \in ToSet(notes'[i].body)
        PROVE  notes'[i].on = Nobody \/ RecordType[notes'[i].on] # "conversation"
    <3>1. job[k].kind \in {"reply", "submit"} /\ job'[k].text = job[k].text /\ job[k].text # Nobody
      BY <2>1, <2>4 DEF Same, Tidy, Fit, Says, Words
    <3>2. CASE i \in DOMAIN notes /\ notes'[i] = notes[i]
      BY <2>4, <3>1, <3>2 DEF Spoken
    <3>3. CASE i \in DOMAIN notes /\ At(j, "append") /\ i = r.note /\ notes'[i].on = notes[i].on
      <4>1. r.kind = "reply" /\ notes[i].on = r.on
        BY <2>1, <3>3 DEF Fit, OnPath, Filing, Noted, At
      <4> QED BY <2>3, <3>3, <4>1 DEF At
    <3>4. CASE i \in DOMAIN notes /\ At(j, "link") /\ i = r.note /\ notes'[i].on = r.on /\ notes'[i].body = notes[i].body
      <4>1. notes[i].body = <<r.text>> /\ ToSet(<<r.text>>) = {r.text}
        BY <2>1, <3>4 DEF Noted, At, ToSet
      <4>2. job[k].text = r.text
        BY <2>4, <3>1, <3>4, <4>1
      <4>3. r.kind \in {"reply", "submit"}
        BY <3>1, <4>2 DEF Tidy, OneMessage
      <4>4. r.kind = "reply"
        BY <2>1, <3>4, <4>3 DEF Fit, OnPath, At
      <4> QED BY <2>3, <3>4, <4>4 DEF At
    <3>5. CASE i \notin DOMAIN notes
      BY <1>1, <3>5, NotesAfter
    <3> QED BY <1>1, <3>2, <3>3, <3>4, <3>5, NotesAfter
  <2> QED BY <2>2, <2>4 DEF Spoken
<1>2. CASE Elsewhere
  BY <1>2 DEF Elsewhere, Spoken
<1> QED BY <1>1, <1>2, OthersStep

\* A text that everyone who looks at x through h sees, or will see.
Shown(t, h, x) ==
  /\ views[h][x] = Nobody \/ t \in views[h][x]
  /\ \A j \in Work : At(j, "store") /\ job[j].host = h /\ job[j].on = x => t \in job[j].got

Fresh ==
  faults \cap {"late", "blind", "overlap", "opened"} = {} =>
    /\ \A k \in Work, x \in Records :
         job[k].pc \in Cleared /\ job[k].text # Nobody /\ job[k].text \in Engagements(x) => Shown(job[k].text, job[k].host, x)
    /\ \A k \in Work : /\ At(k, "fetch") => job[k].owed \subseteq Engagements(job[k].on)
                       /\ job[k].kind = "look" /\ job[k].pc \in {"store", "done"} => job[k].owed \subseteq job[k].got

LEMMA ShownStays ==
  ASSUME Tidy, Seen, NEW j \in Work, DeskStep(j) \/ WorkerDies(j), "blind" \notin faults',
         NEW h \in Hosts, NEW x \in Records, NEW t \in Engagements(x), Shown(t, h, x)
  PROVE  Shown(t, h, x)'
<1> DEFINE r == job[j]  q == job'[j]
<1>1. Turns(q, r) /\ Sees(q, r, j) /\ Fit(r) /\ (\A k \in Work : k # j => job'[k] = job[k])
  BY StepTurns, StepSees, OwnStep DEF Tidy
<1>2. views'[h][x] = Nobody \/ t \in views'[h][x]
  <2>1. CASE UNCHANGED views
    BY <2>1 DEF Shown
  <2>2. CASE views' = [views EXCEPT ![r.host][r.on] = Nobody]
    BY <2>2, ViewsAfter DEF Shown
  <2>3. CASE r.pc = "store" /\ views' = [views EXCEPT ![r.host][r.on] = r.got]
    BY <2>3, ViewsAfter DEF Shown, At
  <2> QED BY <1>1, <2>1, <2>2, <2>3 DEF Sees
<1>3. ASSUME NEW i \in Work, job'[i].pc = "store", job'[i].host = h, job'[i].on = x PROVE t \in job'[i].got
  <2>1. CASE i # j
    BY <1>1, <1>3, <2>1 DEF Shown, At
  <2>2. CASE i = j
    <3>1. r.pc = "fetch"
      BY <1>1, <1>3, <2>2 DEF Sees
    <3>2. q.on = r.on
      BY <1>1, <3>1 DEF Turns, Unplaced
    <3> QED BY <1>1, <1>3, <2>2, <3>1, <3>2 DEF Sees
  <2> QED BY <2>1, <2>2
<1> QED BY <1>2, <1>3 DEF Shown, At

\* Whose invalidation is the last of its request shows what it has filed.
LEMMA ClearedShows ==
  ASSUME Tidy, Home, Homely, Spoken, Seen, NEW j \in Work, DeskStep(j) \/ WorkerDies(j), "late" \notin faults',
         job[j].pc \notin Cleared, job'[j].pc \in Cleared, job[j].text # Nobody,
         NEW t, t = job[j].text, NEW h, h = job[j].host, NEW x \in Records, t \in Engagements(x)'
  PROVE  Shown(t, h, x)'
<1> DEFINE r == job[j]  q == job'[j]
<1>1. Writes(q, r, j) /\ Sees(q, r, j) /\ Fit(r) /\ (\A k \in Work : k # j => job'[k] = job[k]) /\ Nobody \notin Records
  BY StepWrites, StepSees, OwnStep DEF Tidy
<1>2. r.pc \in {"invalidate", "comment"} /\ UNCHANGED notes
  BY <1>1 DEF Sees, Cleared, Writes, Appends, Creates, Links
<1>3. PICK i \in DOMAIN notes : notes[i].on = x /\ t \in ToSet(notes[i].body)
  BY <1>2 DEF Engagements, Linked
<1>4. r.on = x
  <2>1. Owner(j) = r.on
    BY <1>2 DEF Owner, Home, At, Unplaced
  <2> QED BY <1>1, <1>3, <2>1 DEF Homely, AtHome, InNotes
<1>5. CASE r.pc = "comment"
  <2>1. RecordType[r.on] = "conversation" /\ r.kind \in {"reply", "submit"}
    BY <1>1, <1>5 DEF Sees, Cleared, Fit, OnPath, Filing, Unplaced
  <2> QED BY <1>1, <1>3, <1>4, <2>1 DEF Spoken
<1>6. CASE r.pc = "invalidate"
  <2>1. views' = [views EXCEPT ![h][x] = Nobody] /\ Late(j) \subseteq faults'
    BY <1>1, <1>4, <1>6 DEF Sees, Cleared
  <2>2. views'[h][x] = Nobody
    BY <1>1, <2>1 DEF Fit, Seen
  <2>3. \A k \in Work : ~(At(k, "store") /\ job[k].host = r.host /\ job[k].on = r.on)
    BY <2>1 DEF Late
  <2>4. ASSUME NEW k \in Work, job'[k].pc = "store", job'[k].host = h, job'[k].on = x PROVE FALSE
    BY <1>1, <1>4, <2>3, <2>4 DEF At, Cleared
  <2> QED BY <2>2, <2>4 DEF Shown, At
<1> QED BY <1>2, <1>5, <1>6

LEMMA FreshStep ==
  ASSUME Tidy, Home, Homely, Claims, Spoken, Seen, Fresh, [DeskNext]_deskVars, NEW j \in Work, DeskStep(j) \/ WorkerDies(j)
  PROVE  Fresh'
<1> DEFINE r == job[j]  q == job'[j]
<1>1. SUFFICES ASSUME faults' \cap {"late", "blind", "overlap", "opened"} = {} PROVE Fresh'
  BY DEF Fresh
<1>2. /\ Turns(q, r) /\ Writes(q, r, j) /\ Sees(q, r, j) /\ Fit(r) /\ (\A k \in Work : k # j => job'[k] = job[k])
      /\ faults \cap {"late", "blind", "overlap", "opened"} = {}
  <2>1. Turns(q, r) /\ Writes(q, r, j) /\ Sees(q, r, j) /\ Fit(r) /\ (\A k \in Work : k # j => job'[k] = job[k])
    BY StepTurns, StepWrites, StepSees, OwnStep DEF Tidy
  <2> QED BY <1>1, <2>1 DEF Writes
<1>3. ASSUME NEW k \in Work, NEW x \in Records, job'[k].pc \in Cleared, job'[k].text # Nobody,
             NEW t, t = job'[k].text, t \in Engagements(x)', NEW h, h = job'[k].host
      PROVE  Shown(t, h, x)'
  <2>1. t = job[k].text
    BY <1>2, <1>3 DEF Turns, Same
  <2>2. h = job[k].host /\ h \in Hosts
    <3>1. CASE k = j
      <4>1. r.pc # "publish"
        BY <1>2, <1>3, <2>1, <3>1 DEF Sees
      <4> QED BY <1>2, <1>3, <3>1, <4>1 DEF Turns, Fit
    <3>2. CASE k # j
      BY <1>2, <1>3, <3>2 DEF Tidy, Fit
    <3> QED BY <3>1, <3>2
  <2>3. CASE job[k].pc \in Cleared
    <3>1. t \in Engagements(x)
      BY <1>1, <1>2, <1>3, <2>1, <2>3, NothingNew
    <3>2. Shown(job[k].text, job[k].host, x)
      BY <1>2, <1>3, <2>1, <2>3, <3>1 DEF Fresh
    <3>3. Shown(t, h, x)
      BY <2>1, <2>2, <3>2
    <3> QED BY <1>1, <2>2, <3>1, <3>3, ShownStays
  <2>4. CASE job[k].pc \notin Cleared
    <3>1. k = j
      BY <1>2, <1>3, <2>4
    <3> QED BY <1>1, <1>3, <2>1, <2>2, <2>4, <3>1, ClearedShows
  <2> QED BY <2>3, <2>4
<1>4. ASSUME NEW x \in Records PROVE \A t \in Engagements(x) : t \in Engagements(x)'
  BY <1>1, EngagementsStay
<1>5. ASSUME NEW k \in Work, job'[k].pc = "fetch", NEW x, x = job'[k].on PROVE job'[k].owed \subseteq Engagements(x)'
  <2>1. CASE k = j
    <3>1. r.pc = "look" /\ q.owed = Owed(j)
      BY <1>2, <1>5, <2>1 DEF Sees
    <3>2. x = r.on /\ x \in Records
      BY <1>2, <1>5, <2>1, <3>1 DEF Turns, Unplaced, Fit, OnPath, Filing
    <3>3. Owed(j) \subseteq Engagements(x)
      BY <3>2 DEF Owed
    <3> QED BY <1>4, <2>1, <3>1, <3>2, <3>3
  <2>2. CASE k # j
    <3>1. job'[k] = job[k] /\ x \in Records /\ job[k].owed \subseteq Engagements(x)
      BY <1>2, <1>5, <2>2 DEF Fresh, At, Tidy, Fit, OnPath, Unplaced, Filing
    <3> QED BY <1>4, <3>1
  <2> QED BY <2>1, <2>2
<1>6. ASSUME NEW k \in Work, job'[k].kind = "look", job'[k].pc \in {"store", "done"} PROVE job'[k].owed \subseteq job'[k].got
  <2>1. CASE k # j
    BY <1>2, <1>6, <2>1 DEF Fresh
  <2>2. CASE k = j
    <3>0. r.kind = "look" /\ r.pc \in {"look", "fetch", "store", "done"} /\ r.on \in Records /\ r.host \in Hosts
      BY <1>2, <1>6, <2>2 DEF Turns, Same, Fit, OnPath
    <3>1. CASE r.pc = "look"
      <4>1. q.owed = Owed(j) /\ q.got = views[r.host][r.on] /\ q.got # Nobody
        BY <1>2, <1>6, <2>2, <3>1 DEF Sees
      <4>2. ASSUME NEW t \in Owed(j) PROVE t \in views[r.host][r.on]
        <5>1. t \in Engagements(r.on) /\ t \in {job[i].text : i \in {i \in Work : At(i, "done") /\ job[i].host = r.host}}
          BY DEF Owed
        <5>2. PICK i \in Work : t = job[i].text /\ At(i, "done") /\ job[i].host = r.host
          BY <5>1
        <5>3. t # Nobody
          <6>1. PICK n \in DOMAIN notes : t \in ToSet(notes[n].body)
            BY <5>1 DEF Engagements, Linked
          <6>2. notes[n] \in Note
            BY <6>1, ElementOfSeq, LenProperties DEF Tidy
          <6>3. notes[n].body \in Seq(Words)
            BY <6>2 DEF Note
          <6>4. t \in Words
            BY <6>1, <6>3, ElementOfSeq, LenProperties DEF ToSet
          <6> QED BY <6>4 DEF Words
        <5>4. Shown(job[i].text, job[i].host, r.on)
          BY <1>2, <3>0, <5>1, <5>2, <5>3 DEF Fresh, At, Cleared
        <5> QED BY <4>1, <5>2, <5>4 DEF Shown
      <4> QED BY <2>2, <4>1, <4>2
    <3>2. CASE r.pc = "fetch"
      BY <1>1, <1>2, <2>2, <3>2 DEF Sees, Fresh, At
    <3>3. CASE r.pc = "store"
      BY <1>2, <2>2, <3>0, <3>3 DEF Sees, Fresh
    <3>4. r.pc # "done"
      BY StepAdvances DEF Advances
    <3> QED BY <3>0, <3>1, <3>2, <3>3, <3>4
  <2> QED BY <2>1, <2>2
<1>7. \A k \in Work, x \in Records : job'[k].pc \in Cleared /\ job'[k].text # Nobody /\ (job[k].text \in Engagements(x))' =>
        Shown(job[k].text, job[k].host, x)'
  <2>1. SUFFICES ASSUME NEW k \in Work, NEW x \in Records, job'[k].pc \in Cleared, job'[k].text # Nobody, (job[k].text \in Engagements(x))'
                 PROVE  Shown(job[k].text, job[k].host, x)'
    OBVIOUS
  <2>2. PICK t, h : t = job'[k].text /\ h = job'[k].host
    OBVIOUS
  <2>3. t \in Engagements(x)'
    BY <2>1, <2>2
  <2>4. Shown(t, h, x)'
    BY <1>3, <2>1, <2>2, <2>3
  <2> QED BY <2>2, <2>4 DEF Shown
<1>8. \A k \in Work : job'[k].pc = "fetch" => (job[k].owed \subseteq Engagements(job[k].on))'
  <2>1. SUFFICES ASSUME NEW k \in Work, job'[k].pc = "fetch" PROVE (job[k].owed \subseteq Engagements(job[k].on))'
    OBVIOUS
  <2>2. PICK x : x = job'[k].on
    OBVIOUS
  <2>3. job'[k].owed \subseteq Engagements(x)'
    BY <1>5, <2>1, <2>2
  <2> QED BY <2>2, <2>3 DEF Engagements, Linked
<1> QED BY <1>6, <1>7, <1>8 DEF Fresh, At

(* Who looks at a record after a note was filed through the same instance  *)
(* sees the note (_ENGAGEMENTS_CACHE and its invalidation), unless an      *)
(* earlier look stored what it saw too late, the note was overwritten or   *)
(* could not be fetched, or a claim failed open.                           *)
THEOREM ViewsStayFresh == ScenesPlausible /\ DeskSpec => []ViewsFresh
<1> DEFINE Inv == Tidy /\ Rooms /\ Home /\ Homely /\ Claims /\ Spoken /\ Seen /\ Fresh
<1>1. ScenesPlausible /\ (\E s \in Scenes : DeskInit(s)) => Inv
  <2>1. ASSUME NEW s \in Scenes, Plausible(s), DeskInit(s) PROVE Claims /\ Spoken /\ Seen /\ Fresh
    <3>1. \A k \in Work : /\ job[k].kind = "reply" => job[k].pc = "event"
                          /\ job[k].pc \notin Cleared \cup {"fetch", "store"}
      BY <2>1 DEF DeskInit, Plausible, Arrives, Begins, Cleared
    <3>2. \A i \in DOMAIN notes, k \in Work : job[k].text \notin ToSet(notes[i].body)
      BY <2>1 DEF DeskInit, Plausible, TextsApart
    <3>3. Seen
      BY <2>1 DEF DeskInit, Seen
    <3> QED BY <3>1, <3>2, <3>3 DEF Claims, OneMessage, Spoken, Unplaced, Fresh, At, Cleared
  <2> QED BY <2>1, Beginnings DEF ScenesPlausible
<1>2. Inv /\ [DeskNext]_deskVars => Inv'
  <2> SUFFICES ASSUME Inv, [DeskNext]_deskVars PROVE Inv'
    OBVIOUS
  <2>1. Fresh'
    <3>1. CASE \E j \in Work : DeskStep(j) \/ WorkerDies(j)
      BY <3>1, FreshStep
    <3>2. CASE Elsewhere /\ (UNCHANGED views \/ \E h \in Hosts, x \in Records : views' = [views EXCEPT ![h][x] = Nobody])
      <4>1. \A g \in Hosts, y \in Records : views'[g][y] \in {Nobody, views[g][y]}
        BY <3>2 DEF Seen
      <4>2. \A y : Engagements(y)' = Engagements(y)
        BY <3>2 DEF Elsewhere, Engagements, Linked
      <4>3. \A k \in Work : job[k].host \in Hosts
        BY DEF Tidy, Fit
      <4>4. job' = job /\ faults' = faults
        BY <3>2 DEF Elsewhere
      <4> QED BY <4>1, <4>2, <4>3, <4>4 DEF Fresh, Shown, At
    <3> QED BY <3>1, <3>2, ViewsElsewhere
  <2> QED BY <2>1, TidyKept, RoomsKept, HomeKept, HomelyKept, ClaimsKept, SpokenKept, SeenKept
<1>3. Fresh => ViewsFresh
  BY DEF Fresh, ViewsFresh, At
<1> QED BY <1>1, <1>2, <1>3, PTL DEF DeskSpec
=============================================================================
