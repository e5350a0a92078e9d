---------------------- MODULE NotificationServiceProofs ---------------------
(***************************************************************************)
(* Proofs about NotificationService, for any events, objects and number of *)
(* instances: as long as no call raises, no creation is debounced for      *)
(* nothing; the types; whatever raises, within a month no card is counted  *)
(* that was not sent; in one instance an open ticket has one card; a free  *)
(* workspace exceeds its cap by no more than the slots of all instances.   *)
(***************************************************************************)
EXTENDS NotificationService, FiniteSetTheorems, WellFoundedInduction, TLAPS

Places == {"new", "queued"} \union Running \union Ended

\* Past sending.
Past == {"init", "announce", "record", "count", "write", "finish", "done"}

\* An event of o is in Slack or on its way.
Announced(o) == \E f \in Events : Of[f] = o /\ (f \in posted \/ pc[f] \in Notifying)

Typed ==
    /\ pc \in [Events -> Places]
    /\ at \in [Events -> SUBSET Processes]
    /\ debounce \in [Processes -> SUBSET Objects]

\* DebouncedIsNotified is not inductive: a creation is debounced because of an
\* entry, the entry stands for an event that is being notified, and that event
\* does not end before its card is in Slack.
DebounceInv ==
    /\ Typed
    /\ \A e \in Events : e \in posted <=> pc[e] \in Past
    /\ \A p \in Processes : \A o \in debounce[p] : Announced(o)
    /\ \A e \in Events : pc[e] = "debounced" => Announced(Of[e])

\* What is announced stays announced.
Keeps ==
    \A f \in Events :
        f \in posted \/ pc[f] \in Notifying => f \in posted' \/ pc'[f] \in Notifying

LEMMA KeepsAnnounced ==
    ASSUME Keeps, NEW o, Announced(o)
    PROVE  Announced(o)'
  BY DEF Keeps, Announced

LEMMA GotoFacts ==
    ASSUME Typed, NEW e \in Events, NEW step \in Places, Goto(e, step)
    PROVE  /\ pc' \in [Events -> Places]
           /\ \A f \in Events : pc'[f] = IF f = e THEN step ELSE pc[f]
  BY DEF Typed, Goto

LEMMA InitDebounceInv == Init => DebounceInv
  BY DEF Init, DebounceInv, Typed, Places, Past

\* A step of one handler that is not debounced: it is posted when it gets past
\* sending, and adds no debounce entry but the one of its object.
LEMMA HandlerStep ==
    ASSUME DebounceInv, NEW e \in Events, NEW step \in Places \ {"debounced"},
           Goto(e, step),
           at' \in [Events -> SUBSET Processes],
           debounce' \in [Processes -> SUBSET Objects],
           posted' \in {posted, posted \union {e}},
           e \in posted' <=> step \in Past,
           pc[e] \in Notifying => step \in Notifying \/ step = "done",
           \A p \in Processes : \A o \in debounce'[p] :
             o \in debounce[p] \/ (o = Of[e] /\ step \in Notifying)
    PROVE  DebounceInv'
<1>1. /\ Typed
      /\ pc' \in [Events -> Places]
      /\ \A f \in Events : pc'[f] = IF f = e THEN step ELSE pc[f]
  BY GotoFacts DEF DebounceInv
<1>2. "done" \in Past
  BY DEF Past
<1>3. Keeps
  BY <1>1, <1>2 DEF Keeps, DebounceInv
<1>4. \A f \in Events : f \in posted' <=> pc'[f] \in Past
  BY <1>1 DEF DebounceInv
<1>5. ASSUME NEW p \in Processes, NEW o \in debounce'[p] PROVE Announced(o)'
  <2>1. CASE o \in debounce[p]
    BY <2>1, <1>3, KeepsAnnounced DEF DebounceInv
  <2>2. CASE o = Of[e] /\ step \in Notifying
    BY <2>2, <1>1 DEF Announced
  <2> QED
    BY <1>5, <2>1, <2>2
<1>6. ASSUME NEW f \in Events, pc'[f] = "debounced" PROVE Announced(Of[f])'
  BY <1>1, <1>3, <1>6, KeepsAnnounced DEF DebounceInv
<1> QED
  BY <1>1, <1>4, <1>5, <1>6 DEF DebounceInv, Typed

\* A step that only moves the handler on, on the same side of sending.
LEMMA QuietStep ==
    ASSUME DebounceInv, NEW e \in Events, NEW step \in Places \ {"debounced"},
           Goto(e, step),
           at' = at, debounce' = debounce, posted' = posted,
           pc[e] \in Past <=> step \in Past,
           pc[e] \in Notifying => step \in Notifying \/ step = "done"
    PROVE  DebounceInv'
  BY HandlerStep DEF DebounceInv, Typed

\* The threshold and the debounce.
LEMMA DecideStep ==
    ASSUME DebounceInv, NEW e \in Events, NEW relevant \in BOOLEAN, Decide(e, relevant)
    PROVE  DebounceInv'
<1> USE DEF Places, Past, Notifying, Running, Ended
<1>1. /\ Typed
      /\ pc[e] = "decide" /\ e \notin posted
      /\ at' = at /\ posted' = posted
  BY DEF Decide, DebounceInv
<1>2. CASE Goto(e, "ignored") /\ debounce' = debounce
  BY <1>1, <1>2, QuietStep
<1>3. CASE /\ \E p \in at[e] : Of[e] \in debounce[p]
           /\ Goto(e, "debounced") /\ debounce' = debounce
  <2>1. /\ pc' \in [Events -> Places]
        /\ \A f \in Events : pc'[f] = IF f = e THEN "debounced" ELSE pc[f]
    BY <1>1, <1>3, GotoFacts
  <2>2. Keeps
    BY <1>1, <2>1 DEF Keeps
  <2>3. Announced(Of[e])
    BY <1>1, <1>3 DEF DebounceInv, Typed
  <2>4. \A f \in Events : f \in posted' <=> pc'[f] \in Past
    BY <1>1, <2>1 DEF DebounceInv
  <2>5. \A p \in Processes : \A o \in debounce'[p] : Announced(o)'
    BY <1>3, <2>2, KeepsAnnounced DEF DebounceInv
  <2>6. ASSUME NEW f \in Events, pc'[f] = "debounced" PROVE Announced(Of[f])'
    BY <2>1, <2>2, <2>3, <2>6, KeepsAnnounced DEF DebounceInv
  <2> QED
    BY <1>1, <1>3, <2>1, <2>4, <2>5, <2>6 DEF DebounceInv, Typed
<1>4. CASE /\ Goto(e, "target")
           /\ debounce' = [p \in Processes |->
                             IF p \in at[e] THEN debounce[p] \union {Of[e]} ELSE debounce[p]]
  <2>1. debounce' \in [Processes -> SUBSET Objects]
    BY <1>1, <1>4, EventAssumption DEF Typed
  <2>2. \A p \in Processes : \A o \in debounce'[p] : o \in debounce[p] \/ o = Of[e]
    BY <1>4
  <2>3. "target" \in Notifying /\ "target" \in Places \ {"debounced"} /\ "target" \notin Past
    OBVIOUS
  <2>4. at' \in [Events -> SUBSET Processes]
    BY <1>1 DEF Typed
  <2>5. posted' \in {posted, posted \union {e}} /\ e \notin posted'
    BY <1>1
  <2> HIDE DEF Places, Past, Notifying, Running, Ended
  <2> QED
    BY <1>1, <1>4, <2>1, <2>2, <2>3, <2>4, <2>5, HandlerStep
<1> QED
  BY <1>2, <1>3, <1>4 DEF Decide

\* What the theorem below excludes: calls that raise, workspaces that want no
\* notification, and the free plan, whose cap comes after the debounce.
Undisturbed == ~ MayFail /\ ~ MayIgnore /\ Plan # "free"

LEMMA StepDebounceInv ==
    ASSUME Undisturbed, DebounceInv, [Next]_vars
    PROVE  DebounceInv'
<1> USE DEF Undisturbed, Places, Past, Notifying, Running, Ended
<1>1. Typed
  BY DEF DebounceInv
<1>2. ASSUME NEW e \in Events, NEW p \in Processes, Deliver(e, p) PROVE DebounceInv'
  <2>1. /\ at' \in [Events -> SUBSET Processes]
        /\ debounce' \in [Processes -> SUBSET Objects]
    BY <1>1, <1>2 DEF Deliver, Typed
  <2>2. pc[e] = "new" /\ Goto(e, "queued") /\ posted' = posted /\ debounce' = debounce
    BY <1>2 DEF Deliver
  <2>3. e \notin posted
    BY <2>2 DEF DebounceInv
  <2> QED
    BY <2>1, <2>2, <2>3, HandlerStep
<1>3. ASSUME NEW e \in Events, Enter(e) PROVE DebounceInv'
  BY <1>3, QuietStep DEF Enter
<1>4. ASSUME NEW e \in Events, NEW recent \in BOOLEAN, Fetch(e, recent) PROVE DebounceInv'
  BY <1>4, QuietStep DEF Fetch
<1>5. ASSUME NEW e \in Events, NEW relevant \in BOOLEAN, Decide(e, relevant) PROVE DebounceInv'
  BY <1>5, DecideStep
<1>6. ASSUME NEW e \in Events, ReadTarget(e) \/ FindThread(e) PROVE DebounceInv'
  BY <1>6, QuietStep DEF ReadTarget, FindThread, OverCap
<1>7. ASSUME NEW e \in Events, UpdateCard(e) \/ PostCard(e) PROVE DebounceInv'
  <2>1. PICK step \in {"record", "init"} : Goto(e, step)
    BY <1>7 DEF UpdateCard, PostCard
  <2>2. posted' = posted \union {e} /\ at' = at /\ debounce' = debounce
    BY <1>7 DEF UpdateCard, PostCard, Posted
  <2> QED
    BY <1>1, <2>1, <2>2, HandlerStep DEF Typed
<1>8. ASSUME NEW e \in Events, InitThread(e) \/ AnnounceThread(e) PROVE DebounceInv'
  BY <1>8, QuietStep DEF InitThread, AnnounceThread
<1>9. ASSUME NEW e \in Events, Record(e) PROVE DebounceInv'
  <2>1. pc[e] = "record" /\ Goto(e, "count") /\ posted' = posted /\ at' = at
    BY <1>9 DEF Record
  <2>2. e \in posted
    BY <2>1 DEF DebounceInv
  <2>3. /\ debounce' \in [Processes -> SUBSET Objects]
        /\ \A p \in Processes : \A o \in debounce'[p] : o \in debounce[p] \/ o = Of[e]
    BY <1>1, <1>9, EventAssumption DEF Record, Typed
  <2> QED
    BY <1>1, <2>1, <2>2, <2>3, HandlerStep DEF Typed
<1>10. ASSUME NEW e \in Events, CountAtomic(e) \/ ReadUsage(e) \/ WriteUsage(e) \/ Finish(e)
       PROVE  DebounceInv'
  BY <1>10, QuietStep DEF CountAtomic, ReadUsage, WriteUsage, Finish
<1>11. ASSUME NEW p \in Processes, NEW o \in Objects, Expire(p, o) PROVE DebounceInv'
  BY <1>1, <1>11 DEF Expire, DebounceInv, Typed, Announced
<1>12. CASE UNCHANGED <<pc, at, debounce, posted>>
  BY <1>12 DEF DebounceInv, Typed, Announced
<1>13. ASSUME NEW e \in Events, Step(e) PROVE DebounceInv'
  BY <1>3, <1>4, <1>5, <1>6, <1>7, <1>8, <1>9, <1>10, <1>13
     DEF Step, NotForUs, SendNothing, HandlerFails
<1> QED
  BY <1>2, <1>11, <1>12, <1>13 DEF Next, CloseTicket, MonthTurns, vars

\* As long as no call raises, a creation is debounced only in favour of an event of
\* the same object whose card is in Slack or on its way, for any number of events,
\* objects and instances, and however long the handlers take
\* (notification_service.py:274-296).
THEOREM CreationNotDropped ==
    ASSUME Undisturbed
    PROVE  Spec => []DebouncedIsNotified
<1>1. DebounceInv => DebouncedIsNotified
  BY DEF DebounceInv, DebouncedIsNotified, Announced, Past, Notifying, Running
<1>2. DebounceInv /\ [Next]_vars => DebounceInv'
  BY StepDebounceInv
<1> QED
  BY <1>1, <1>2, InitDebounceInv, PTL DEF Spec

-----------------------------------------------------------------------------
\* The rest of the types: what the handlers hold, the row, Slack and HubSpot.
Row == [n : Nat, reset : Nat]
Local == [creation : BOOLEAN, closed : BOOLEAN, row : Row, read : Nat, thread : Nat, ts : Nat]

LEMMA TypeParts ==
    TypeOK <=> /\ Typed
               /\ ctx \in [Events -> Local]
               /\ usage \in [n : Nat, reset : 1..Months] /\ mapping \in [Objects -> Nat]
               /\ cards \in [Objects -> Nat] /\ closed \subseteq Objects
               /\ month \in 1..Months /\ posted \subseteq Events /\ sent \in Nat
  BY DEF TypeOK, Typed, Places, Local, Row

LEMMA LocalUpdates ==
    ASSUME NEW l \in Local, NEW c \in BOOLEAN, NEW d \in BOOLEAN, NEW r \in Row, NEW n \in Nat
    PROVE  /\ [l EXCEPT !.creation = c, !.closed = d] \in Local
           /\ [l EXCEPT !.row = r, !.read = n] \in Local
           /\ [l EXCEPT !.row = r] \in Local
  BY DEF Local

\* A handler moves on, and replaces its local variables.
LEMMA LocalStep ==
    ASSUME TypeOK, NEW e \in Events, NEW step \in Places, NEW local \in Local,
           Goto(e, step), ctx' = ctx \/ ctx' = [ctx EXCEPT ![e] = local],
           at' = at, debounce' \in [Processes -> SUBSET Objects],
           usage' \in [n : Nat, reset : 1..Months], mapping' \in [Objects -> Nat],
           cards' \in [Objects -> Nat], posted' \subseteq Events, sent' \in Nat,
           closed' = closed, month' = month
    PROVE  TypeOK'
<1>1. Typed /\ ctx \in [Events -> Local]
  BY TypeParts
<1>2. pc' \in [Events -> Places]
  BY <1>1, GotoFacts
<1>3. ctx' \in [Events -> Local]
  BY <1>1
<1> QED
  BY <1>1, <1>2, <1>3 DEF TypeOK, Typed, Places, Local, Row

LEMMA IncrementedType ==
    ASSUME TypeOK, NEW row \in Row, NEW ts \in Nat
    PROVE  Incremented(row, ts) \in [n : Nat, reset : 1..Months]
  BY DEF Incremented, TypeOK, Row

\* Each step of a handler keeps the types.
LEMMA StepTypeOK ==
    ASSUME TypeOK, NEW e \in Events, Step(e)
    PROVE  TypeOK'
<1>1. /\ Typed /\ ctx \in [Events -> Local] /\ usage \in [n : Nat, reset : 1..Months]
      /\ debounce \in [Processes -> SUBSET Objects] /\ mapping \in [Objects -> Nat]
      /\ cards \in [Objects -> Nat] /\ month \in 1..Months /\ posted \subseteq Events /\ sent \in Nat
  BY TypeParts DEF Typed
<1>2. ctx[e] \in Local /\ Of[e] \in Objects
  BY <1>1, EventAssumption
<1>3. Running \union Ended \subseteq Places
  BY DEF Places
<1>4. CASE UNCHANGED <<at, ctx, debounce, usage, mapping, cards, closed, month, posted, sent>>
           /\ \E step \in Running \union Ended : Goto(e, step)
  BY <1>1, <1>2, <1>3, <1>4, LocalStep
<1>5. ASSUME NEW recent \in BOOLEAN, Fetch(e, recent) PROVE TypeOK'
  <2>1. ctx' = [ctx EXCEPT ![e] = [ctx[e] EXCEPT !.creation = Kind[e] = "creation" \/ recent,
                                                 !.closed = Of[e] \in closed]]
    BY <1>1, <1>5 DEF Fetch
  <2>2. (Kind[e] = "creation" \/ recent) \in BOOLEAN /\ (Of[e] \in closed) \in BOOLEAN
    OBVIOUS
  <2>4. [ctx[e] EXCEPT !.creation = Kind[e] = "creation" \/ recent, !.closed = Of[e] \in closed] \in Local
    <3> DEFINE c == Kind[e] = "creation" \/ recent
               d == Of[e] \in closed
    <3>1. [ctx[e] EXCEPT !.creation = c, !.closed = d] \in Local
      <4>1. c \in BOOLEAN /\ d \in BOOLEAN /\ ctx[e] \in Local
        BY <1>2
      <4> HIDE DEF c, d
      <4> QED
        BY <4>1 DEF Local
    <3> QED
      BY <3>1
  <2>3. PICK step \in Places : Goto(e, step)
    BY <1>3, <1>5 DEF Fetch, Running, Ended
  <2> QED
    BY <1>1, <1>5, <2>1, <2>3, <2>4, LocalStep DEF Fetch
<1>6. ASSUME NEW relevant \in BOOLEAN, Decide(e, relevant) PROVE TypeOK'
  <2>1. PICK step \in Places : Goto(e, step)
    BY <1>3, <1>6 DEF Decide, Running, Ended
  <2>2. debounce' \in [Processes -> SUBSET Objects]
    BY <1>1, <1>2, <1>6 DEF Decide
  <2> QED
    BY <1>1, <1>2, <1>6, <2>1, <2>2, LocalStep DEF Decide
<1>7. CASE ReadTarget(e) \/ FindThread(e) \/ ReadUsage(e)
  <2>1. PICK step \in Places : Goto(e, step)
    BY <1>3, <1>7 DEF ReadTarget, FindThread, ReadUsage, Running, Ended
  <2>2. usage \in Row
    BY <1>1, LimitAssumption DEF Row
  <2>4. month \in Nat
    BY <1>1, LimitAssumption
  <2>3. PICK local \in Local : ctx' = [ctx EXCEPT ![e] = local]
    <3>1. CASE ReadTarget(e)
      <4>1. ctx' = [ctx EXCEPT ![e] = [ctx[e] EXCEPT !.row = usage, !.read = month]]
        BY <1>1, <3>1 DEF ReadTarget
      <4>2. [ctx[e] EXCEPT !.row = usage, !.read = month] \in Local
        BY <1>2, <2>2, <2>4, LocalUpdates
      <4> QED
        BY <4>1, <4>2
    <3>2. CASE FindThread(e)
      <4> DEFINE found == IF IsPro /\ TypeOf[Of[e]] \in {"ticket", "task"} THEN mapping[Of[e]] ELSE NoThread
      <4>1. ctx' = [ctx EXCEPT ![e] = [ctx[e] EXCEPT !.thread = found]]
        BY <1>1, <3>2 DEF FindThread
      <4>2. found \in Nat
        BY <1>1, <1>2 DEF NoThread
      <4> HIDE DEF found
      <4>3. [ctx[e] EXCEPT !.thread = found] \in Local
        BY <1>2, <4>2 DEF Local
      <4> QED
        BY <4>1, <4>3
    <3>3. CASE ReadUsage(e)
      <4>1. ctx' = [ctx EXCEPT ![e] = [ctx[e] EXCEPT !.row = usage]]
        BY <1>1, <3>3 DEF ReadUsage
      <4>2. [ctx[e] EXCEPT !.row = usage] \in Local
        BY <1>2, <2>2 DEF Local
      <4> QED
        BY <4>1, <4>2
    <3> QED
      BY <1>7, <3>1, <3>2, <3>3
  <2> QED
    BY <1>1, <1>7, <2>1, <2>3, LocalStep DEF ReadTarget, FindThread, ReadUsage
<1>8. CASE UpdateCard(e) \/ PostCard(e)
  <2>1. PICK step \in Places : Goto(e, step)
    BY <1>3, <1>8 DEF UpdateCard, PostCard, Running, Ended
  <2>2. PICK ts \in Nat : Posted(e, ts)
    BY <1>1, <1>2, <1>8 DEF UpdateCard, PostCard, Local
  <2>3. ctx' = [ctx EXCEPT ![e] = [ctx[e] EXCEPT !.ts = ts]] /\ [ctx[e] EXCEPT !.ts = ts] \in Local
    BY <1>1, <1>2, <2>2 DEF Posted, Local
  <2>4. cards' \in [Objects -> Nat]
    BY <1>1, <1>2, <1>8 DEF UpdateCard, PostCard
  <2>5. posted' \subseteq Events /\ sent' \in Nat
    BY <1>1, <2>2 DEF Posted
  <2> QED
    BY <1>1, <1>8, <2>1, <2>3, <2>4, <2>5, LocalStep DEF UpdateCard, PostCard
<1>9. CASE InitThread(e) \/ Finish(e)
  <2>1. PICK step \in Places : Goto(e, step)
    BY <1>3, <1>9 DEF InitThread, Finish, Running, Ended
  <2>2. mapping' \in [Objects -> Nat]
    BY <1>1, <1>2, <1>9 DEF InitThread, Finish, Local, NoThread
  <2> QED
    BY <1>1, <1>2, <1>9, <2>1, <2>2, LocalStep DEF InitThread, Finish
<1>10. CASE Record(e)
  <2>1. Goto(e, "count") /\ "count" \in Places
    BY <1>3, <1>10 DEF Record, Running
  <2>2. debounce' \in [Processes -> SUBSET Objects]
    BY <1>1, <1>2, <1>10 DEF Record
  <2> QED
    BY <1>1, <1>2, <1>10, <2>1, <2>2, LocalStep DEF Record
<1>11. CASE CountAtomic(e) \/ WriteUsage(e)
  <2>1. Goto(e, "finish") /\ "finish" \in Places
    BY <1>3, <1>11 DEF CountAtomic, WriteUsage, Running
  <2>2. usage \in Row /\ ctx[e].row \in Row /\ ctx[e].ts \in Nat
    BY <1>1, <1>2, LimitAssumption DEF Row, Local
  <2>3. usage' \in [n : Nat, reset : 1..Months]
    BY <1>11, <2>2, IncrementedType DEF CountAtomic, WriteUsage
  <2> QED
    BY <1>1, <1>2, <1>11, <2>1, <2>3, LocalStep DEF CountAtomic, WriteUsage
<1>12. CASE Enter(e) \/ NotForUs(e) \/ SendNothing(e) \/ AnnounceThread(e) \/ HandlerFails(e)
  BY <1>4, <1>12 DEF Enter, NotForUs, SendNothing, AnnounceThread, HandlerFails, Running, Ended
<1> QED
  BY <1>5, <1>6, <1>7, <1>8, <1>9, <1>10, <1>11, <1>12 DEF Step

LEMMA InitTypeOK == Init => TypeOK
  BY LimitAssumption DEF Init, TypeOK, Blank, NoThread, Running, Ended

LEMMA NextTypeOK == TypeOK /\ [Next]_vars => TypeOK'
<1> SUFFICES ASSUME TypeOK, [Next]_vars PROVE TypeOK'
  OBVIOUS
<1>1. ASSUME NEW e \in Events, NEW p \in Processes, Deliver(e, p) PROVE TypeOK'
  <2>1. Typed
    BY TypeParts
  <2>2. pc' \in [Events -> Places] /\ at' \in [Events -> SUBSET Processes]
    BY <1>1, <2>1, GotoFacts DEF Deliver, Places, Typed
  <2> QED
    BY <1>1, <2>2 DEF Deliver, TypeOK, Places
<1>2. ASSUME NEW p \in Processes, NEW o \in Objects, Expire(p, o) PROVE TypeOK'
  BY <1>2 DEF Expire, TypeOK
<1>3. ASSUME NEW o \in Objects, CloseTicket(o) PROVE TypeOK'
  BY <1>3 DEF CloseTicket, TypeOK
<1>4. CASE MonthTurns
  BY <1>4, LimitAssumption DEF MonthTurns, TypeOK
<1>5. CASE UNCHANGED vars
  BY <1>5 DEF vars, TypeOK
<1> QED
  BY <1>1, <1>2, <1>3, <1>4, <1>5, StepTypeOK DEF Next

\* Every reachable state of the notification pipeline is well typed.
THEOREM TypeCorrect == Spec => []TypeOK
  BY InitTypeOK, NextTypeOK, PTL DEF Spec

-----------------------------------------------------------------------------
\* The cards that are in Slack and still being counted.
Counting == {"init", "announce", "record", "count", "write"}
InFlight == {e \in posted : pc[e] \in Counting}

\* CountedWereSent is not inductive: a handler that counts without the RPC
\* writes what it read some time ago, and only a card that was posted counts.
CountInv ==
    /\ TypeOK
    /\ \A e \in posted : pc[e] \in Past \union {"failed"}
    /\ \A e \in Events : ctx[e].ts # NoThread => e \in posted
    /\ usage.n + Cardinality(InFlight) <= sent
    /\ \A e \in Events : pc[e] = "write" => ctx[e].row.n + Cardinality(InFlight) <= sent

\* What the theorem below takes for granted: finitely many events of one month.
OneMonth == IsFiniteSet(Events) /\ Months = 1

LEMMA FlightFinite ==
    ASSUME OneMonth, CountInv
    PROVE  IsFiniteSet(InFlight) /\ Cardinality(InFlight) \in Nat
<1>1. InFlight \subseteq Events
  BY DEF InFlight, CountInv, TypeOK
<1>2. IsFiniteSet(InFlight)
  BY <1>1, FS_Subset DEF OneMonth
<1> QED
  BY <1>2, FS_CardinalityType

LEMMA FlightFalls ==
    ASSUME OneMonth, CountInv, InFlight' \subseteq InFlight
    PROVE  Cardinality(InFlight') \in Nat /\ Cardinality(InFlight') <= Cardinality(InFlight)
<1>1. IsFiniteSet(InFlight)
  BY FlightFinite
<1>2. IsFiniteSet(InFlight') /\ Cardinality(InFlight') <= Cardinality(InFlight)
  BY <1>1, FS_Subset
<1> QED
  BY <1>2, FS_CardinalityType

\* A step that posts and counts nothing.
LEMMA IdleStep ==
    ASSUME OneMonth, CountInv, TypeOK', posted' = posted, sent' = sent, usage' = usage,
           \A f \in Events : ctx'[f].ts = ctx[f].ts,
           \A f \in Events : pc'[f] # pc[f] =>
               /\ pc'[f] \in Counting => pc[f] \in Counting
               /\ pc[f] \in Past => pc'[f] \in Past \union {"failed"}
               /\ pc[f] # "failed",
           \A f \in Events : pc'[f] = "write" =>
               \/ pc[f] = "write" /\ ctx'[f].row = ctx[f].row
               \/ ctx'[f].row = usage
    PROVE  CountInv'
<1>1. posted \subseteq Events /\ usage.n \in Nat /\ sent \in Nat
  BY DEF CountInv, TypeOK
<1>2. InFlight' \subseteq InFlight
  BY <1>1 DEF InFlight
<1>3. /\ Cardinality(InFlight) \in Nat /\ Cardinality(InFlight') \in Nat
      /\ Cardinality(InFlight') <= Cardinality(InFlight)
  BY <1>2, FlightFinite, FlightFalls
<1>4. \A e \in posted' : pc'[e] \in Past \union {"failed"}
  BY <1>1 DEF CountInv
<1>5. \A e \in Events : ctx'[e].ts # NoThread => e \in posted'
  BY DEF CountInv
<1>6. usage'.n + Cardinality(InFlight') <= sent'
  BY <1>1, <1>3 DEF CountInv
<1>7. ASSUME NEW e \in Events, pc'[e] = "write"
      PROVE  ctx'[e].row.n + Cardinality(InFlight') <= sent'
  <2>1. ctx'[e].row.n \in Nat
    BY DEF TypeOK
  <2>2. ctx'[e].row.n + Cardinality(InFlight) <= sent
    BY <1>7 DEF CountInv
  <2> QED
    BY <1>1, <1>3, <2>1, <2>2
<1> QED
  BY <1>4, <1>5, <1>6, <1>7 DEF CountInv

\* A card that is sent is one more to count.
LEMMA PostStep ==
    ASSUME OneMonth, CountInv, TypeOK', NEW e \in Events, NEW step \in {"record", "init"},
           NEW ts \in Nat, pc[e] = "send", Goto(e, step), Posted(e, ts), usage' = usage
    PROVE  CountInv'
<1>1. /\ pc \in [Events -> Places] /\ posted \subseteq Events
      /\ usage.n \in Nat /\ sent \in Nat /\ ctx \in [Events -> Local]
  BY TypeParts DEF CountInv, Typed
<1>2. \A f \in Events : pc'[f] = IF f = e THEN step ELSE pc[f]
  BY <1>1 DEF Goto
<1>3. posted' = posted \union {e} /\ sent' = sent + 1
  BY DEF Posted
<1>4. \A f \in Events : f # e => ctx'[f] = ctx[f]
  BY <1>1 DEF Posted
<1>5. InFlight' = InFlight \union {e}
  BY <1>1, <1>2, <1>3 DEF InFlight, Counting
<1>6. /\ Cardinality(InFlight) \in Nat /\ Cardinality(InFlight') \in Nat
      /\ Cardinality(InFlight') <= Cardinality(InFlight) + 1
  <2>1. IsFiniteSet(InFlight) /\ Cardinality(InFlight) \in Nat
    BY FlightFinite
  <2>2. Cardinality(InFlight \union {e}) = IF e \in InFlight THEN Cardinality(InFlight)
                                           ELSE Cardinality(InFlight) + 1
    BY <2>1, FS_AddElement
  <2> QED
    BY <1>5, <2>1, <2>2
<1>7. \A f \in posted' : pc'[f] \in Past \union {"failed"}
  BY <1>1, <1>2, <1>3 DEF CountInv, Past
<1>8. \A f \in Events : ctx'[f].ts # NoThread => f \in posted'
  BY <1>3, <1>4 DEF CountInv
<1>9. usage'.n + Cardinality(InFlight') <= sent'
  BY <1>1, <1>3, <1>6 DEF CountInv
<1>10. ASSUME NEW f \in Events, pc'[f] = "write"
       PROVE  ctx'[f].row.n + Cardinality(InFlight') <= sent'
  <2>1. f # e /\ pc[f] = "write" /\ ctx'[f].row = ctx[f].row
    BY <1>2, <1>4, <1>10
  <2>2. ctx[f].row.n \in Nat
    BY <1>1 DEF Local, Row
  <2> QED
    BY <1>1, <1>3, <1>6, <2>1, <2>2 DEF CountInv
<1> QED
  BY <1>7, <1>8, <1>9, <1>10 DEF CountInv

\* A card is counted once: it leaves InFlight when the row is written.
LEMMA CountStep ==
    ASSUME OneMonth, CountInv, TypeOK', NEW e \in Events, NEW row \in Row,
           pc[e] \in {"count", "write"}, Goto(e, "finish"),
           usage' = Incremented(row, ctx[e].ts), row.n + Cardinality(InFlight) <= sent,
           ctx' = ctx, posted' = posted, sent' = sent
    PROVE  CountInv'
<1>1. /\ pc \in [Events -> Places] /\ posted \subseteq Events
      /\ sent \in Nat /\ row.n \in Nat /\ ctx \in [Events -> Local]
  BY TypeParts DEF CountInv, Typed, Row
<1>2. \A f \in Events : pc'[f] = IF f = e THEN "finish" ELSE pc[f]
  BY <1>1 DEF Goto
<1>3. InFlight' = InFlight \ {e}
  BY <1>1, <1>2 DEF InFlight, Counting
<1>4. IsFiniteSet(InFlight) /\ Cardinality(InFlight) \in Nat
  BY FlightFinite
<1>5. Cardinality(InFlight \ {e}) = IF e \in InFlight THEN Cardinality(InFlight) - 1
                                     ELSE Cardinality(InFlight)
  BY <1>4, FS_RemoveElement
<1>6. Cardinality(InFlight') \in Nat /\ Cardinality(InFlight') <= Cardinality(InFlight)
  BY <1>3, FlightFalls
<1>7. ctx[e].ts # NoThread => e \in InFlight
  BY DEF CountInv, InFlight, Counting
<1>8. usage'.n \in Nat /\ usage'.n <= row.n + (IF ctx[e].ts # NoThread THEN 1 ELSE 0)
  BY <1>1 DEF Incremented
<1>9. usage'.n + Cardinality(InFlight') <= sent'
  <2> DEFINE k == Cardinality(InFlight)
             k1 == Cardinality(InFlight')
             u == usage'.n
  <2>1. k \in Nat /\ k1 \in Nat /\ u \in Nat /\ k1 <= k /\ row.n + k <= sent
    BY <1>4, <1>6, <1>8
  <2>2. ctx[e].ts # NoThread => k1 = k - 1
    BY <1>3, <1>5, <1>7
  <2>3. u <= row.n + (IF ctx[e].ts # NoThread THEN 1 ELSE 0)
    BY <1>8
  <2> HIDE DEF k, k1, u
  <2>4. u + k1 <= sent
    BY <1>1, <2>1, <2>2, <2>3
  <2> QED
    BY <2>4 DEF k1, u
<1>10. ASSUME NEW f \in Events, pc'[f] = "write"
       PROVE  ctx'[f].row.n + Cardinality(InFlight') <= sent'
  <2>1. pc[f] = "write" /\ ctx'[f].row = ctx[f].row
    BY <1>2, <1>10
  <2>2. ctx[f].row.n \in Nat
    BY <1>1 DEF Local, Row
  <2> QED
    BY <1>1, <1>4, <1>6, <2>1, <2>2 DEF CountInv
<1>11. \A f \in posted' : pc'[f] \in Past \union {"failed"}
  BY <1>1, <1>2 DEF CountInv, Past
<1>12. \A f \in Events : ctx'[f].ts # NoThread => f \in posted'
  BY DEF CountInv
<1> QED
  BY <1>9, <1>10, <1>11, <1>12 DEF CountInv

LEMMA StepCountInv ==
    ASSUME OneMonth, CountInv, NEW e \in Events, Step(e)
    PROVE  CountInv'
<1>1. /\ TypeOK /\ pc \in [Events -> Places] /\ ctx \in [Events -> Local]
      /\ cards \in [Objects -> Nat] /\ Of[e] \in Objects /\ usage \in Row
  BY TypeParts, EventAssumption, LimitAssumption DEF CountInv, Typed, Row
<1>2. TypeOK'
  BY <1>1, StepTypeOK
<1> USE DEF Running, Ended, Past, Counting
<1>3. ASSUME NEW step \in Places \ {"write"}, Goto(e, step),
             posted' = posted, sent' = sent, usage' = usage,
             \A f \in Events : ctx'[f].ts = ctx[f].ts,
             \A f \in Events : f # e => ctx'[f] = ctx[f],
             step \in Counting => pc[e] \in Counting,
             pc[e] \in Past => step \in Past \union {"failed"},
             pc[e] # "failed"
      PROVE  CountInv'
  <2>1. \A f \in Events : pc'[f] = IF f = e THEN step ELSE pc[f]
    BY <1>1, <1>3 DEF Goto
  <2> HIDE DEF Running, Ended, Past, Counting
  <2> QED
    BY <1>2, <1>3, <2>1, IdleStep
<1>4. CASE Enter(e) \/ NotForUs(e)
  BY <1>3, <1>4 DEF Enter, NotForUs, Places
<1>5. ASSUME NEW recent \in BOOLEAN, Fetch(e, recent) PROVE CountInv'
  <2>1. \A f \in Events : ctx'[f].ts = ctx[f].ts /\ (f # e => ctx'[f] = ctx[f])
    BY <1>1, <1>5 DEF Fetch, Local
  <2> QED
    BY <1>3, <1>5, <2>1 DEF Fetch, Places
<1>6. ASSUME NEW relevant \in BOOLEAN, Decide(e, relevant) PROVE CountInv'
  BY <1>3, <1>6 DEF Decide, Places
<1>7. CASE ReadTarget(e) \/ FindThread(e)
  <2>1. \A f \in Events : ctx'[f].ts = ctx[f].ts /\ (f # e => ctx'[f] = ctx[f])
    BY <1>1, <1>7 DEF ReadTarget, FindThread, Local
  <2> QED
    BY <1>3, <1>7, <2>1 DEF ReadTarget, FindThread, Places
<1>8. CASE UpdateCard(e) \/ PostCard(e)
  <2>1. PICK step \in {"record", "init"} : Goto(e, step)
    BY <1>8 DEF UpdateCard, PostCard
  <2>2. PICK ts \in Nat : Posted(e, ts)
    BY <1>1, <1>8 DEF UpdateCard, PostCard, Local
  <2>3. pc[e] = "send" /\ usage' = usage
    BY <1>8 DEF UpdateCard, PostCard
  <2> QED
    BY <1>2, <2>1, <2>2, <2>3, PostStep
<1>9. CASE SendNothing(e)
  <2>1. pc[e] = "send" /\ Goto(e, "record") /\ e \notin posted
    BY <1>9 DEF SendNothing, CountInv
  <2>2. UNCHANGED <<ctx, usage, posted, sent>>
    BY <1>9 DEF SendNothing
  <2>3. \A f \in Events : pc'[f] = IF f = e THEN "record" ELSE pc[f]
    BY <1>1, <2>1 DEF Goto
  <2>4. InFlight' = InFlight
    BY <1>1, <2>1, <2>2, <2>3 DEF InFlight, TypeOK
  <2>5. \A f \in posted' : pc'[f] \in Past \union {"failed"}
    BY <1>1, <2>1, <2>2, <2>3 DEF CountInv, TypeOK
  <2>6. \A f \in Events : pc'[f] = "write" => ctx'[f].row.n + Cardinality(InFlight') <= sent'
    BY <2>2, <2>3, <2>4 DEF CountInv
  <2> QED
    BY <1>2, <2>2, <2>4, <2>5, <2>6 DEF CountInv
<1>10. CASE InitThread(e) \/ AnnounceThread(e) \/ Record(e) \/ Finish(e)
  BY <1>3, <1>10 DEF InitThread, AnnounceThread, Record, Finish, Places
<1>11. CASE HandlerFails(e)
  BY <1>3, <1>11 DEF HandlerFails, Places
<1>12. CASE CountAtomic(e)
  BY <1>1, <1>2, <1>12, CountStep DEF CountAtomic, CountInv
<1>13. CASE WriteUsage(e)
  <2>1. ctx[e].row \in Row
    BY <1>1 DEF Local
  <2> QED
    BY <1>2, <1>13, <2>1, CountStep DEF WriteUsage, CountInv
<1>14. CASE ReadUsage(e)
  <2>1. /\ \A f \in Events : pc'[f] = IF f = e THEN "write" ELSE pc[f]
        /\ \A f \in Events : ctx'[f].ts = ctx[f].ts /\ (f # e => ctx'[f] = ctx[f])
        /\ ctx'[e].row = usage
    BY <1>1, <1>14 DEF ReadUsage, Goto, Local
  <2>2. pc[e] = "count" /\ posted' = posted /\ sent' = sent /\ usage' = usage
    BY <1>14 DEF ReadUsage
  <2> QED
    BY <1>2, <2>1, <2>2, IdleStep
<1> QED
  BY <1>4, <1>5, <1>6, <1>7, <1>8, <1>9, <1>10, <1>11, <1>12, <1>13, <1>14 DEF Step

LEMMA NextCountInv ==
    ASSUME OneMonth, CountInv, [Next]_vars
    PROVE  CountInv'
<1>1. TypeOK' /\ TypeOK
  BY NextTypeOK DEF CountInv
<1>2. ASSUME NEW e \in Events, NEW p \in Processes, Deliver(e, p) PROVE CountInv'
  <2>1. /\ pc[e] = "new" /\ UNCHANGED <<ctx, usage, posted, sent>>
        /\ \A f \in Events : pc'[f] = IF f = e THEN "queued" ELSE pc[f]
    BY <1>1, <1>2 DEF Deliver, Goto, TypeOK
  <2> QED
    BY <1>1, <2>1, IdleStep DEF Counting, Past
<1>3. CASE UNCHANGED <<pc, ctx, usage, posted, sent>>
  BY <1>1, <1>3, IdleStep
<1>4. CASE MonthTurns
  BY <1>1, <1>4 DEF MonthTurns, TypeOK, OneMonth
<1> QED
  BY <1>2, <1>3, <1>4, StepCountInv DEF Next, Expire, CloseTicket, vars

\* Within a month, and whatever raises, no card is counted that was not sent, or
\* counted twice, with or without the RPC (workspace_storage.py:130-152): with the
\* cards still being recorded the counter never exceeds what Slack got.
THEOREM CountsWereSent ==
    ASSUME OneMonth
    PROVE  Spec => []CountedWereSent
<1>1. Init => CountInv
  <2>1. ASSUME Init PROVE InFlight = {}
    BY <2>1 DEF Init, InFlight
  <2>2. ASSUME Init PROVE Cardinality(InFlight) = 0
    BY <2>1, <2>2, FS_EmptySet
  <2> QED
    BY <2>2, InitTypeOK DEF Init, CountInv, Blank
<1>2. CountInv /\ [Next]_vars => CountInv'
  BY NextCountInv
<1>3. CountInv => CountedWereSent
  BY DEF CountInv, CountedWereSent, InFlight, Counting
<1> QED
  BY <1>1, <1>2, <1>3, PTL DEF Spec

-----------------------------------------------------------------------------
\* What the last theorem excludes: a second instance, calls that raise, and
\* handlers that outlive their debounce entry.
OneInstance == (\E p : Processes = {p}) /\ ~ MayFail /\ ~ Slow

\* The debounce entry is a lock: one handler at a time notifies of an object.
Exclusive ==
    /\ \A e \in Events : pc[e] # "new" => at[e] = Processes
    /\ \A e \in Events : pc[e] \in Notifying => \A p \in Processes : Of[e] \in debounce[p]
    /\ \A e \in Events : \A f \in Events :
         Of[e] = Of[f] /\ pc[e] \in Notifying /\ pc[f] \in Notifying => e = f

\* The objects the theorem is about.
Open(o) == IsPro /\ TypeOf[o] \in {"ticket", "task"} /\ o \notin closed

\* The handler has posted the root card of its object and will map it: at once
\* for a ticket, at its end for a task.
Linking(e) ==
    /\ ctx[e].thread = NoThread /\ ctx[e].ts # NoThread
    /\ \/ TypeOf[Of[e]] = "ticket" /\ pc[e] = "init"
       \/ TypeOf[Of[e]] = "task" /\ pc[e] \in {"record", "count", "write", "finish"}

\* OneRootCard is not inductive: a card in Slack is mapped, or the handler that
\* posted it still holds the lock and will map it; and what the holder of the
\* lock has read of the mapping is still so when it sends.
Linked ==
    /\ \A e \in Events : ctx[e].closed => Of[e] \in closed
    /\ \A e \in Events : pc[e] = "init" => ctx[e].ts # NoThread
    /\ \A e \in Events : Open(Of[e]) /\ pc[e] = "send" => ctx[e].thread = mapping[Of[e]]
    /\ \A o \in Objects : Open(o) =>
         /\ cards[o] <= 1
         /\ cards[o] = 0 \/ mapping[o] # NoThread \/ \E e \in Events : Of[e] = o /\ Linking(e)

RootInv == TypeOK /\ Exclusive /\ Linked

\* A step of a handler that does not take the lock.
LEMMA ExclusiveStep ==
    ASSUME TypeOK, Exclusive, NEW e \in Events, NEW step \in Places,
           Goto(e, step), pc[e] # "new", at' = at,
           step \in Notifying => pc[e] \in Notifying,
           \A p \in Processes : debounce[p] \subseteq debounce'[p]
    PROVE  Exclusive'
<1>1. \A f \in Events : pc'[f] = IF f = e THEN step ELSE pc[f]
  BY GotoFacts, TypeParts
<1> QED
  BY <1>1 DEF Exclusive

LEMMA NextExclusive ==
    ASSUME OneInstance, TypeOK, Exclusive, [Next]_vars
    PROVE  Exclusive'
<1>1. /\ Typed /\ pc \in [Events -> Places] /\ at \in [Events -> SUBSET Processes]
      /\ debounce \in [Processes -> SUBSET Objects]
  BY TypeParts DEF Typed
<1> USE DEF Notifying, Running, Ended, Places
<1>2. ASSUME NEW e \in Events, NEW p \in Processes, Deliver(e, p) PROVE Exclusive'
  <2>1. \A f \in Events : pc'[f] = IF f = e THEN "queued" ELSE pc[f]
    BY <1>1, <1>2, GotoFacts DEF Deliver
  <2>2. Processes = {p}
    BY DEF OneInstance
  <2> QED
    BY <1>1, <1>2, <2>1, <2>2 DEF Deliver, Exclusive
<1>3. ASSUME NEW e \in Events, NEW relevant \in BOOLEAN, Decide(e, relevant) PROVE Exclusive'
  <2>1. pc[e] = "decide" /\ at' = at /\ at[e] = Processes
    BY <1>3 DEF Decide, Exclusive
  <2>2. CASE (Goto(e, "ignored") \/ Goto(e, "debounced")) /\ debounce' = debounce
    BY <2>1, <2>2, ExclusiveStep
  <2>3. CASE /\ Goto(e, "target")
             /\ ~ \E p \in at[e] : Of[e] \in debounce[p]
             /\ debounce' = [p \in Processes |->
                               IF p \in at[e] THEN debounce[p] \union {Of[e]} ELSE debounce[p]]
    <3>1. \A f \in Events : pc'[f] = IF f = e THEN "target" ELSE pc[f]
      BY <1>1, <2>3, GotoFacts
    <3>2. \A p \in Processes : debounce'[p] = debounce[p] \union {Of[e]}
      BY <2>1, <2>3
    <3>3. \A f \in Events : pc[f] \in Notifying => Of[f] # Of[e]
      BY <2>1, <2>3 DEF Exclusive, OneInstance
    <3>4. /\ \A f \in Events : pc'[f] # "new" => at'[f] = Processes
          /\ \A f \in Events : pc'[f] \in Notifying => \A p \in Processes : Of[f] \in debounce'[p]
      BY <2>1, <3>1, <3>2 DEF Exclusive
    <3>5. \A f, g \in Events :
            Of[f] = Of[g] /\ pc'[f] \in Notifying /\ pc'[g] \in Notifying => f = g
      BY <3>1, <3>3 DEF Exclusive
    <3> QED
      BY <3>4, <3>5 DEF Exclusive
  <2> QED
    BY <1>3, <2>2, <2>3 DEF Decide
<1>4. ASSUME NEW p \in Processes, NEW o \in Objects, Expire(p, o) PROVE Exclusive'
  <2>1. /\ pc' = pc /\ at' = at
        /\ \A q \in Processes : debounce'[q] = debounce[q] \ {o}
    BY <1>1, <1>4 DEF Expire, OneInstance
  <2>2. \A e \in Events : pc[e] \in Notifying => Of[e] # o
    BY <1>4 DEF Expire, Holding, OneInstance, Exclusive
  <2> QED
    BY <2>1, <2>2 DEF Exclusive
<1>5. CASE UNCHANGED <<pc, at, debounce>>
  BY <1>5 DEF Exclusive
<1>6. ASSUME NEW e \in Events, Record(e) PROVE Exclusive'
  <2>1. \A p \in Processes : debounce[p] \subseteq debounce'[p]
    BY <1>6 DEF Record
  <2> QED
    BY <1>6, <2>1, ExclusiveStep DEF Record
<1>7. ASSUME NEW e \in Events, Step(e) PROVE Exclusive'
  <2>1. ASSUME NEW step \in Places, Goto(e, step), at' = at, debounce' = debounce,
               pc[e] # "new", step \in Notifying => pc[e] \in Notifying
        PROVE  Exclusive'
    BY <2>1, ExclusiveStep
  <2>2. CASE Enter(e) \/ NotForUs(e) \/ \E recent \in BOOLEAN : Fetch(e, recent)
    BY <2>1, <2>2 DEF Enter, NotForUs, Fetch
  <2>3. CASE ReadTarget(e) \/ FindThread(e) \/ UpdateCard(e) \/ PostCard(e) \/ SendNothing(e)
    BY <2>1, <2>3 DEF ReadTarget, FindThread, UpdateCard, PostCard, SendNothing
  <2>4. CASE InitThread(e) \/ AnnounceThread(e) \/ CountAtomic(e) \/ ReadUsage(e) \/ WriteUsage(e)
             \/ Finish(e) \/ HandlerFails(e)
    BY <2>1, <2>4 DEF InitThread, AnnounceThread, CountAtomic, ReadUsage, WriteUsage, Finish,
                      HandlerFails
  <2> QED
    BY <1>3, <1>6, <1>7, <2>2, <2>3, <2>4 DEF Step
<1> QED
  BY <1>2, <1>4, <1>5, <1>7 DEF Next, CloseTicket, MonthTurns, vars

\* A step of a handler that touches neither the cards nor the mapping.
LEMMA LinkedStep ==
    ASSUME RootInv, NEW e \in Events, NEW step \in Places \ {"init"},
           Goto(e, step), UNCHANGED <<cards, mapping, closed>>,
           \A f \in Events : f # e => ctx'[f] = ctx[f],
           ctx'[e].closed => Of[e] \in closed,
           Open(Of[e]) /\ step = "send" => ctx'[e].thread = mapping[Of[e]],
           Linking(e) => Linking(e)'
    PROVE  Linked'
<1>1. \A f \in Events : pc'[f] = IF f = e THEN step ELSE pc[f]
  BY GotoFacts, TypeParts DEF RootInv
<1>2. \A o : Open(o)' <=> Open(o)
  BY DEF Open
<1>3. \A f \in Events : Linking(f) => Linking(f)'
  BY <1>1 DEF Linking
<1>4. \A o \in Objects : Open(o)' =>
         /\ cards'[o] <= 1
         /\ cards'[o] = 0 \/ mapping'[o] # NoThread \/ \E f \in Events : Of[f] = o /\ Linking(f)'
  BY <1>2, <1>3 DEF RootInv, Linked
<1>5. \A f \in Events : ctx'[f].closed => Of[f] \in closed'
  BY DEF RootInv, Linked
<1>6. \A f \in Events : pc'[f] = "init" => ctx'[f].ts # NoThread
  BY <1>1 DEF RootInv, Linked
<1>7. \A f \in Events : Open(Of[f])' /\ pc'[f] = "send" => ctx'[f].thread = mapping'[Of[f]]
  BY <1>1, <1>2 DEF RootInv, Linked
<1> QED
  BY <1>4, <1>5, <1>6, <1>7 DEF Linked
\* Sending: the holder of the lock posts a root card only where there is none.
LEMMA SendLinked ==
    ASSUME OneInstance, RootInv, NEW e \in Events, UpdateCard(e) \/ PostCard(e)
    PROVE  Linked'
<1>1. /\ ctx \in [Events -> Local] /\ cards \in [Objects -> Nat] /\ Of[e] \in Objects
      /\ mapping \in [Objects -> Nat] /\ pc \in [Events -> Places]
  BY TypeParts, EventAssumption DEF RootInv, Typed
<1>2. PICK step \in {"record", "init"} : Goto(e, step)
  BY DEF UpdateCard, PostCard
<1>3. \A f \in Events : pc'[f] = IF f = e THEN step ELSE pc[f]
  BY <1>1, <1>2 DEF Goto
<1>4. PICK ts \in Nat \ {NoThread} : Posted(e, ts)
  BY <1>1 DEF UpdateCard, PostCard, Local, NoThread
<1>5. /\ \A f \in Events : f # e => ctx'[f] = ctx[f]
      /\ ctx'[e].ts = ts /\ ctx'[e].thread = ctx[e].thread /\ ctx'[e].closed = ctx[e].closed
  BY <1>1, <1>4 DEF Posted, Local
<1>6. pc[e] = "send" /\ mapping' = mapping /\ closed' = closed
  BY DEF UpdateCard, PostCard
<1>7. \A o : Open(o)' <=> Open(o)
  BY <1>6 DEF Open
<1>8. \A f \in Events : f # e /\ Linking(f) => Linking(f)'
  BY <1>3, <1>5 DEF Linking
<1>9. \A f \in Events : Of[f] = Of[e] => ~ Linking(f)
  BY <1>6 DEF Linking, RootInv, Exclusive, Notifying, Running
<1>10. ASSUME NEW o \in Objects, Open(o)'
       PROVE  /\ cards'[o] <= 1
              /\ cards'[o] = 0 \/ mapping'[o] # NoThread \/ \E f \in Events : Of[f] = o /\ Linking(f)'
  <2>1. CASE o # Of[e]
    <3>1. cards'[o] = cards[o]
      BY <1>1, <2>1 DEF UpdateCard, PostCard
    <3>2. cards[o] = 0 \/ mapping[o] # NoThread \/ \E f \in Events : Of[f] = o /\ f # e /\ Linking(f)
      BY <1>7, <1>10, <2>1 DEF RootInv, Linked
    <3> QED
      BY <1>6, <1>7, <1>8, <1>10, <3>1, <3>2 DEF RootInv, Linked
  <2>2. CASE o = Of[e] /\ ctx[e].thread # NoThread
    <3>1. cards'[o] = cards[o]
      BY <1>1, <2>2 DEF UpdateCard, PostCard
    <3>2. mapping[o] # NoThread
      BY <1>6, <1>7, <1>10, <2>2 DEF RootInv, Linked
    <3> QED
      BY <1>6, <1>7, <1>10, <3>1, <3>2 DEF RootInv, Linked
  <2>3. CASE o = Of[e] /\ ctx[e].thread = NoThread
    <3>1. mapping[o] = NoThread /\ cards[o] = 0
      BY <1>6, <1>7, <1>9, <1>10, <2>3 DEF RootInv, Linked
    <3>2. PostCard(e)
      BY <2>3 DEF UpdateCard
    <3>3. cards'[o] = 1
      BY <1>1, <2>3, <3>1, <3>2 DEF PostCard
    <3>4. ~ ctx[e].closed /\ IsPro /\ TypeOf[o] \in {"ticket", "task"}
      BY <1>7, <1>10, <2>3 DEF RootInv, Linked, Open
    <3>5. step = IF TypeOf[o] = "ticket" THEN "init" ELSE "record"
      BY <1>1, <1>3, <2>3, <3>2, <3>4 DEF PostCard, Goto, IsTicket
    <3>6. Linking(e)'
      BY <1>3, <1>5, <2>3, <3>4, <3>5 DEF Linking
    <3> QED
      BY <2>3, <3>3, <3>6
  <2> QED
    BY <2>1, <2>2, <2>3
<1>11. \A f \in Events : ctx'[f].closed => Of[f] \in closed'
  BY <1>5, <1>6 DEF RootInv, Linked
<1>12. \A f \in Events : pc'[f] = "init" => ctx'[f].ts # NoThread
  BY <1>3, <1>5 DEF RootInv, Linked
<1>13. \A f \in Events : Open(Of[f])' /\ pc'[f] = "send" => ctx'[f].thread = mapping'[Of[f]]
  BY <1>2, <1>3, <1>5, <1>6, <1>7 DEF RootInv, Linked
<1> QED
  BY <1>10, <1>11, <1>12, <1>13 DEF Linked

\* Mapping the object, which only the holder of its lock does.
LEMMA MapLinked ==
    ASSUME RootInv, NEW e \in Events, InitThread(e) \/ Finish(e)
    PROVE  Linked'
<1>1. /\ Of[e] \in Objects /\ mapping \in [Objects -> Nat] /\ pc \in [Events -> Places]
  BY TypeParts, EventAssumption DEF RootInv, Typed
<1>2. PICK step \in {"announce", "done"} : Goto(e, step)
  BY DEF InitThread, Finish
<1>3. \A f \in Events : pc'[f] = IF f = e THEN step ELSE pc[f]
  BY <1>1, <1>2 DEF Goto
<1>4. UNCHANGED <<ctx, cards, closed>> /\ pc[e] \in {"init", "finish"}
  BY DEF InitThread, Finish
<1>5. \A o : Open(o)' <=> Open(o)
  BY <1>4 DEF Open
<1>6. \A o \in Objects : o # Of[e] => mapping'[o] = mapping[o]
  BY <1>1 DEF InitThread, Finish
<1>7. Open(Of[e]) => mapping'[Of[e]] # NoThread \/ (mapping'[Of[e]] = mapping[Of[e]] /\ ~ Linking(e))
  <2>1. CASE InitThread(e)
    BY <1>1, <2>1 DEF InitThread, RootInv, Linked
  <2>2. CASE Finish(e)
    BY <1>1, <2>2 DEF Finish, RootInv, Linked, Open, Linking, Requested, IsTicket
  <2> QED
    BY <2>1, <2>2
<1>8. \A f \in Events : f # e /\ Linking(f) => Linking(f)'
  BY <1>3, <1>4 DEF Linking
<1>9. \A f \in Events : Open(Of[f])' /\ pc'[f] = "send" => ctx'[f].thread = mapping'[Of[f]]
  <2>1. ASSUME NEW f \in Events, Open(Of[f])', pc'[f] = "send" PROVE ctx'[f].thread = mapping'[Of[f]]
    <3>1. f # e /\ pc[f] = "send"
      BY <1>2, <1>3, <2>1
    <3>2. Of[f] # Of[e]
      BY <1>4, <3>1 DEF RootInv, Exclusive, Notifying, Running
    <3>3. Of[f] \in Objects
      BY EventAssumption
    <3> QED
      BY <1>4, <1>5, <1>6, <2>1, <3>1, <3>2, <3>3 DEF RootInv, Linked
  <2> QED
    BY <2>1
<1>10. ASSUME NEW o \in Objects, Open(o)'
       PROVE  cards'[o] = 0 \/ mapping'[o] # NoThread \/ \E f \in Events : Of[f] = o /\ Linking(f)'
  <2>1. cards[o] = 0 \/ mapping[o] # NoThread \/ \E f \in Events : Of[f] = o /\ Linking(f)
    BY <1>5, <1>10 DEF RootInv, Linked
  <2>2. CASE o # Of[e]
    BY <1>4, <1>6, <1>8, <2>1, <2>2
  <2>3. CASE o = Of[e]
    BY <1>4, <1>5, <1>7, <1>8, <1>10, <2>1, <2>3
  <2> QED
    BY <2>2, <2>3
<1>11. \A o \in Objects : Open(o)' => cards'[o] <= 1
  BY <1>4, <1>5 DEF RootInv, Linked
<1>12. \A f \in Events : ctx'[f].closed => Of[f] \in closed'
  BY <1>4 DEF RootInv, Linked
<1>13. \A f \in Events : pc'[f] = "init" => ctx'[f].ts # NoThread
  BY <1>2, <1>3, <1>4 DEF RootInv, Linked
<1> QED
  BY <1>9, <1>10, <1>11, <1>12, <1>13 DEF Linked

LEMMA NextRootInv ==
    ASSUME OneInstance, RootInv, [Next]_vars
    PROVE  RootInv'
<1>1. TypeOK' /\ Exclusive'
  BY NextTypeOK, NextExclusive DEF RootInv
<1>2. /\ ctx \in [Events -> Local] /\ pc \in [Events -> Places]
  BY TypeParts DEF RootInv, Typed
<1> USE DEF Running, Ended, Places
<1>3. ASSUME NEW e \in Events, NEW step \in Places \ {"init"}, Goto(e, step),
             UNCHANGED <<cards, mapping, closed>>,
             \A f \in Events : f # e => ctx'[f] = ctx[f],
             ctx'[e].closed => Of[e] \in closed,
             Open(Of[e]) /\ step = "send" => ctx'[e].thread = mapping[Of[e]],
             Linking(e) => Linking(e)'
      PROVE  Linked'
  BY <1>3, LinkedStep
<1>4. ASSUME NEW e \in Events, NEW step \in Places \ {"init", "send"}, Goto(e, step),
             UNCHANGED <<cards, mapping, closed, ctx>>, Linking(e) => Linking(e)'
      PROVE  Linked'
  BY <1>3, <1>4 DEF RootInv, Linked
<1>5. ASSUME NEW e \in Events, Step(e) PROVE Linked'
  <2>1. CASE Enter(e) \/ NotForUs(e) \/ (\E relevant \in BOOLEAN : Decide(e, relevant))
    BY <1>4, <2>1 DEF Enter, NotForUs, Decide, Linking
  <2>2. ASSUME NEW recent \in BOOLEAN, Fetch(e, recent) PROVE Linked'
    <3>1. PICK step \in {"ignored", "decide"} : Goto(e, step)
      BY <2>2 DEF Fetch
    <3>2. /\ \A f \in Events : f # e => ctx'[f] = ctx[f]
          /\ ctx'[e].closed = (Of[e] \in closed)
      BY <1>2, <2>2 DEF Fetch, Local
    <3> QED
      BY <1>3, <2>2, <3>1, <3>2 DEF Fetch, Linking
  <2>3. CASE ReadTarget(e)
    <3>1. /\ \A f \in Events : f # e => ctx'[f] = ctx[f]
          /\ ctx'[e].closed = ctx[e].closed
      BY <1>2, <2>3 DEF ReadTarget, Local
    <3> QED
      BY <1>3, <2>3, <3>1 DEF ReadTarget, Linking, RootInv, Linked
  <2>4. CASE FindThread(e)
    <3>1. PICK step \in {"capped", "send"} : Goto(e, step)
      BY <2>4 DEF FindThread
    <3>2. /\ \A f \in Events : f # e => ctx'[f] = ctx[f]
          /\ ctx'[e].closed = ctx[e].closed
          /\ Open(Of[e]) => ctx'[e].thread = mapping[Of[e]]
      BY <1>2, <2>4 DEF FindThread, Local, Open
    <3> QED
      BY <1>3, <2>4, <3>1, <3>2 DEF FindThread, Linking, RootInv, Linked
  <2>5. CASE UpdateCard(e) \/ PostCard(e)
    BY <2>5, SendLinked
  <2>6. CASE InitThread(e) \/ Finish(e)
    BY <2>6, MapLinked
  <2>7. CASE AnnounceThread(e) \/ Record(e) \/ CountAtomic(e) \/ WriteUsage(e)
    <3>1. PICK step \in {"record", "count", "finish"} : Goto(e, step)
      BY <2>7 DEF AnnounceThread, Record, CountAtomic, WriteUsage
    <3>2. pc'[e] = step /\ UNCHANGED <<cards, mapping, closed, ctx>>
      BY <1>2, <2>7, <3>1 DEF AnnounceThread, Record, CountAtomic, WriteUsage, Goto
    <3>3. pc[e] # "init"
      BY <2>7 DEF AnnounceThread, Record, CountAtomic, WriteUsage
    <3>4. Linking(e) => Linking(e)'
      BY <3>1, <3>2, <3>3 DEF Linking
    <3> QED
      BY <1>4, <3>1, <3>2, <3>4
  <2>8. CASE ReadUsage(e)
    <3>1. /\ \A f \in Events : f # e => ctx'[f] = ctx[f]
          /\ ctx'[e].closed = ctx[e].closed /\ ctx'[e].thread = ctx[e].thread /\ ctx'[e].ts = ctx[e].ts
      BY <1>2, <2>8 DEF ReadUsage, Local
    <3>2. /\ pc[e] = "count" /\ Goto(e, "write") /\ pc'[e] = "write"
          /\ UNCHANGED <<cards, mapping, closed>>
      BY <1>2, <2>8 DEF ReadUsage, Goto
    <3>3. Linking(e) => Linking(e)'
      BY <3>1, <3>2 DEF Linking
    <3>4. ctx'[e].closed => Of[e] \in closed
      BY <3>1 DEF RootInv, Linked
    <3> QED
      BY <1>3, <3>1, <3>2, <3>3, <3>4
  <2> QED
    BY <1>5, <2>1, <2>2, <2>3, <2>4, <2>5, <2>6, <2>7, <2>8
       DEF Step, SendNothing, HandlerFails, OneInstance
<1>6. ASSUME NEW e \in Events, NEW p \in Processes, Deliver(e, p) PROVE Linked'
  BY <1>4, <1>6 DEF Deliver, Linking
<1>7. ASSUME UNCHANGED <<pc, ctx, cards, mapping>>, closed \subseteq closed' PROVE Linked'
  BY <1>7 DEF RootInv, Linked, Open, Linking
<1>8. Linked'
  BY <1>5, <1>6, <1>7 DEF Next, Expire, CloseTicket, MonthTurns, vars
<1> QED
  BY <1>1, <1>8 DEF RootInv

\* In one instance whose handlers end before their debounce entry expires and whose
\* calls do not raise, an open ticket or task of a pro workspace has at most one
\* card, for any number of its events (notification_service.py:25, 389-422).
THEOREM OneCardPerObject ==
    ASSUME OneInstance
    PROVE  Spec => []OneRootCard
<1>1. Init => RootInv
  <2> SUFFICES ASSUME Init PROVE RootInv
    OBVIOUS
  <2>1. Exclusive
    BY DEF Init, Exclusive, Notifying, Running
  <2>2. Linked
    BY DEF Init, Linked, Blank
  <2> QED
    BY <2>1, <2>2, InitTypeOK DEF RootInv
<1>2. RootInv /\ [Next]_vars => RootInv'
  BY NextRootInv
<1>3. RootInv => OneRootCard
  BY DEF RootInv, Linked, OneRootCard, Open
<1> QED
  BY <1>1, <1>2, <1>3, PTL DEF Spec
-----------------------------------------------------------------------------
\* What the theorem below takes for granted: a free workspace, a database whose
\* RPC counts, finitely many instances and events.
CountingFree ==
    /\ Plan = "free" /\ Rpc
    /\ IsFiniteSet(Processes) /\ IsFiniteSet(Events)

\* What the semaphores of all instances let run at the same time.
Room == Cardinality(Processes) * Slots

Busy == {e \in Events : pc[e] \in Running}
\* Cards that no count will follow, and handlers that the cap will let send.
Lost == {e \in posted : pc[e] = "failed"}
Eligible == {e \in Events : pc[e] \in {"thread", "send"} /\ ctx[e].row.n < Cap}
\* The count of this month.
Counted == IF usage.reset = month THEN usage.n ELSE 0

\* OverrunBounded is not inductive.  Below the cap every card sent is counted, is
\* being counted or is lost; from the moment the count reaches the cap only the
\* handlers that read it before may still send, and they share the slots of the
\* instances with those that are counting.
FreeInv ==
    /\ TypeOK
    /\ \A e \in Events : pc[e] # "new" => \E p \in Processes : at[e] = {p}
    /\ \A e \in posted : pc[e] \in Past \union {"failed"} /\ ctx[e].ts # NoThread
    /\ \A e \in Events : pc[e] = "send" => ctx[e].row.n < Cap
    /\ \A e \in Events : pc[e] # "write"
    /\ \A p \in Processes : Cardinality(Holding(p)) <= Slots
    /\ sent <= Counted + Cardinality(InFlight) + Cardinality(Lost)
    /\ Counted >= Cap => sent + Cardinality(Eligible) < Cap + Room + Cardinality(Lost)

Has(S, e) == IF e \in S THEN 1 ELSE 0

\* Two finite sets that differ at most by one element.
LEMMA Balance ==
    ASSUME NEW S, NEW T, NEW e, IsFiniteSet(S), IsFiniteSet(T), S \ {e} = T \ {e}
    PROVE  /\ Cardinality(S) \in Nat /\ Cardinality(T) \in Nat
           /\ Cardinality(T) + Has(S, e) = Cardinality(S) + Has(T, e)
<1>1. /\ Cardinality(S) \in Nat /\ Cardinality(T) \in Nat
      /\ Cardinality(S \ {e}) \in Nat
  BY FS_CardinalityType, FS_RemoveElement
<1>2. /\ Cardinality(S \ {e}) = IF e \in S THEN Cardinality(S) - 1 ELSE Cardinality(S)
      /\ Cardinality(T \ {e}) = IF e \in T THEN Cardinality(T) - 1 ELSE Cardinality(T)
  BY FS_RemoveElement
<1> QED
  BY <1>1, <1>2 DEF Has

\* What finitely many instances hold together, when none holds more than n.
LEMMA HeldTogether ==
    ASSUME NEW P, IsFiniteSet(P), NEW E, IsFiniteSet(E), NEW n \in Nat,
           NEW F \in [P -> SUBSET E], \A p \in P : Cardinality(F[p]) <= n
    PROVE  Cardinality(UNION {F[p] : p \in P}) <= Cardinality(P) * n
<1> DEFINE All(Q) == UNION {F[p] : p \in Q}
           Bad == {Q \in SUBSET P : ~ Cardinality(All(Q)) <= Cardinality(Q) * n}
<1>1. SUFFICES ASSUME Bad # {} PROVE FALSE
  OBVIOUS
<1>2. PICK Q \in Bad : \A R \in Bad : ~ <<R, Q>> \in StrictSubsetOrdering(P)
  <2>1. IsWellFoundedOn(StrictSubsetOrdering(P), FiniteSubsetsOf(P)) /\ FiniteSubsetsOf(P) = SUBSET P
    BY FS_StrictSubsetOrderingWellFounded, FS_FiniteSubsetsOfFinite
  <2>2. Bad \subseteq SUBSET P
    OBVIOUS
  <2> HIDE DEF Bad
  <2> QED
    BY <1>1, <2>1, <2>2, WFMin
<1>3. Q \in SUBSET P /\ IsFiniteSet(Q) /\ Cardinality(Q) \in Nat
  BY <1>2, FS_Subset, FS_CardinalityType
<1>4. ~ Cardinality(All(Q)) <= Cardinality(Q) * n
  BY <1>2
<1>5. PICK q \in Q : TRUE
  <2>1. All({}) = {} /\ Cardinality({}) = 0
    BY FS_EmptySet
  <2>2. ASSUME Q = {} PROVE Cardinality(All(Q)) <= Cardinality(Q) * n
    <3>1. Cardinality(All(Q)) = 0 /\ Cardinality(Q) * n = 0 * n
      BY <2>1, <2>2
    <3> QED
      BY <3>1
  <2> QED
    BY <1>4, <2>2
<1> DEFINE R == Q \ {q}
<1>6. Cardinality(R) = Cardinality(Q) - 1 /\ R \in SUBSET P
  BY <1>3, FS_RemoveElement
<1>7. Cardinality(All(R)) <= Cardinality(R) * n
  <2>1. <<R, Q>> \in StrictSubsetOrdering(P)
    BY <1>3, <1>5 DEF StrictSubsetOrdering
  <2>2. R \notin Bad
    <3> HIDE DEF Bad, R
    <3> QED
      BY <1>2, <2>1
  <2> QED
    BY <1>6, <2>2
<1>8. All(Q) = All(R) \union F[q] /\ All(R) \subseteq E /\ F[q] \subseteq E
  BY <1>3, <1>5
<1>9. /\ IsFiniteSet(All(R)) /\ IsFiniteSet(F[q])
      /\ Cardinality(All(R)) \in Nat /\ Cardinality(F[q]) \in Nat /\ Cardinality(F[q]) <= n
      /\ Cardinality(All(R) \intersect F[q]) \in Nat
  <2>1. IsFiniteSet(All(R)) /\ IsFiniteSet(F[q]) /\ IsFiniteSet(All(R) \intersect F[q])
    BY <1>8, FS_Subset
  <2> HIDE DEF R, All
  <2> QED
    BY <1>3, <1>5, <2>1, FS_CardinalityType
<1>10. Cardinality(All(Q)) = Cardinality(All(R)) + Cardinality(F[q]) - Cardinality(All(R) \intersect F[q])
  BY <1>8, <1>9, FS_Union
<1> HIDE DEF R, All
<1>11. Cardinality(All(Q)) <= (Cardinality(Q) - 1) * n + n
  BY <1>3, <1>6, <1>7, <1>9, <1>10
<1>12. (Cardinality(Q) - 1) * n + n = Cardinality(Q) * n
  BY <1>3
<1> QED
  BY <1>4, <1>11, <1>12

LEMMA FreeFinite ==
    ASSUME CountingFree, TypeOK
    PROVE  IsFiniteSet(InFlight) /\ IsFiniteSet(Lost) /\ IsFiniteSet(Eligible) /\ IsFiniteSet(Busy)
<1>1. InFlight \subseteq Events /\ Lost \subseteq Events /\ Eligible \subseteq Events /\ Busy \subseteq Events
  BY DEF InFlight, Lost, Eligible, Busy, TypeOK
<1> QED
  BY <1>1, FS_Subset DEF CountingFree

LEMMA FreeRoom ==
    ASSUME CountingFree
    PROVE  Cardinality(Processes) \in Nat /\ Room \in Nat
  BY FS_CardinalityType, LimitAssumption DEF CountingFree, Room

\* The handlers that hold a slot, in whichever instance.
LEMMA BusyFits ==
    ASSUME CountingFree, FreeInv
    PROVE  Cardinality(Busy) <= Room
<1> DEFINE F == [p \in Processes |-> Holding(p)]
<1>1. F \in [Processes -> SUBSET Events] /\ \A p \in Processes : Cardinality(F[p]) <= Slots
  BY DEF Holding, FreeInv
<1>2. Cardinality(UNION {F[p] : p \in Processes}) <= Cardinality(Processes) * Slots
  <2> HIDE DEF F
  <2> QED
    BY <1>1, HeldTogether, LimitAssumption DEF CountingFree
<1>3. Busy = UNION {F[p] : p \in Processes}
  <2>1. ASSUME NEW e \in Busy PROVE \E p \in Processes : e \in F[p]
    <3>1. e \in Events /\ pc[e] \in Running /\ pc[e] # "new"
      BY DEF Busy, Running
    <3>2. PICK p \in Processes : at[e] = {p}
      BY <3>1 DEF FreeInv
    <3> QED
      BY <3>1, <3>2 DEF Holding
  <2>2. \A p \in Processes : F[p] \subseteq Busy
    BY DEF Holding, Busy
  <2> HIDE DEF F
  <2> QED
    BY <2>1, <2>2
<1> QED
  BY <1>2, <1>3 DEF Room

\* The handlers that count and those that may still send hold different slots.
LEMMA SlotsShared ==
    ASSUME CountingFree, FreeInv
    PROVE  Cardinality(InFlight) + Cardinality(Eligible) <= Room
<1>1. InFlight \union Eligible \subseteq Busy /\ InFlight \intersect Eligible = {}
  BY DEF InFlight, Eligible, Busy, Running, Counting, FreeInv, TypeOK
<1>2. /\ IsFiniteSet(InFlight) /\ IsFiniteSet(Eligible) /\ IsFiniteSet(Busy)
      /\ Cardinality(InFlight) \in Nat /\ Cardinality(Eligible) \in Nat /\ Cardinality(Busy) \in Nat
  BY FreeFinite, FS_CardinalityType DEF FreeInv
<1>3. Cardinality(InFlight \union Eligible)
        = Cardinality(InFlight) + Cardinality(Eligible) - Cardinality(InFlight \intersect Eligible)
  BY <1>2, FS_Union
<1>4. Cardinality(InFlight \intersect Eligible) = 0
  BY <1>1, FS_EmptySet
<1>5. Cardinality(InFlight \union Eligible) <= Cardinality(Busy)
  BY <1>1, <1>2, FS_Subset
<1> QED
  BY <1>2, <1>3, <1>4, <1>5, FreeRoom, BusyFits

\* Handler e is in one instance, and takes a slot there only when one is free.
Seated(e, step) ==
    /\ \E p \in Processes : at'[e] = {p}
    /\ \A f \in Events : f # e => at'[f] = at[f]
    /\ step \in Running => /\ at'[e] = at[e]
                           /\ \/ pc[e] \in Running
                              \/ \A p \in at[e] : Cardinality(Holding(p)) < Slots

\* A step of handler e that sends s cards and counts d of them.
LEMMA FreeStep ==
    ASSUME CountingFree, FreeInv, TypeOK', NEW e \in Events, NEW step \in Places \ {"new", "write"},
           Goto(e, step), Seated(e, step),
           posted' \in {posted, posted \union {e}},
           e \in posted' => step \in Past \union {"failed"} /\ ctx'[e].ts # NoThread,
           \A f \in Events : f # e => ctx'[f] = ctx[f],
           step = "send" => ctx'[e].row.n < Cap,
           NEW d \in {0, 1}, Counted' = Counted + d,
           NEW s \in {0, 1}, sent' = sent + s,
           s + Has(InFlight, e) + Has(Lost, e) <= d + Has(InFlight', e) + Has(Lost', e),
           Counted >= Cap => s + Has(Eligible', e) + Has(Lost, e) <= Has(Eligible, e) + Has(Lost', e),
           d = 1 => /\ s = 0 /\ Has(Eligible', e) <= Has(Eligible, e)
                    /\ Has(Lost, e) <= Has(Lost', e)
    PROVE  FreeInv'
<1>1. TypeOK /\ posted \subseteq Events /\ Counted \in Nat /\ sent \in Nat
  BY DEF FreeInv, TypeOK, Counted
<1>2. \A f \in Events : pc'[f] = IF f = e THEN step ELSE pc[f]
  BY <1>1, GotoFacts, TypeParts
<1>3. /\ InFlight' \ {e} = InFlight \ {e} /\ Lost' \ {e} = Lost \ {e}
      /\ Eligible' \ {e} = Eligible \ {e}
  BY <1>1, <1>2 DEF InFlight, Lost, Eligible
<1>4. IsFiniteSet(InFlight) /\ IsFiniteSet(Lost) /\ IsFiniteSet(Eligible)
  BY <1>1, FreeFinite
<1>5. IsFiniteSet(InFlight') /\ IsFiniteSet(Lost') /\ IsFiniteSet(Eligible')
  <2>1. InFlight' \subseteq Events /\ Lost' \subseteq Events /\ Eligible' \subseteq Events
    BY <1>1 DEF InFlight, Lost, Eligible
  <2> QED
    BY <2>1, FS_Subset DEF CountingFree
<1> DEFINE f0 == Cardinality(InFlight)
           f1 == Cardinality(InFlight')
           l0 == Cardinality(Lost)
           l1 == Cardinality(Lost')
           g0 == Cardinality(Eligible)
           g1 == Cardinality(Eligible')
<1>6. /\ f0 \in Nat /\ f1 \in Nat /\ f1 + Has(InFlight, e) = f0 + Has(InFlight', e)
      /\ l0 \in Nat /\ l1 \in Nat /\ l1 + Has(Lost, e) = l0 + Has(Lost', e)
      /\ g0 \in Nat /\ g1 \in Nat /\ g1 + Has(Eligible, e) = g0 + Has(Eligible', e)
  <2>1. f0 \in Nat /\ f1 \in Nat /\ f1 + Has(InFlight, e) = f0 + Has(InFlight', e)
    BY <1>3, <1>4, <1>5, Balance
  <2>2. l0 \in Nat /\ l1 \in Nat /\ l1 + Has(Lost, e) = l0 + Has(Lost', e)
    BY <1>3, <1>4, <1>5, Balance
  <2>3. g0 \in Nat /\ g1 \in Nat /\ g1 + Has(Eligible, e) = g0 + Has(Eligible', e)
    <3>1. IsFiniteSet(Eligible) /\ IsFiniteSet(Eligible') /\ Eligible \ {e} = Eligible' \ {e}
      BY <1>3, <1>4, <1>5
    <3> HIDE DEF g0, g1
    <3>2. /\ Cardinality(Eligible) \in Nat /\ Cardinality(Eligible') \in Nat
          /\ Cardinality(Eligible') + Has(Eligible, e) = Cardinality(Eligible) + Has(Eligible', e)
      BY <3>1, Balance
    <3> QED
      BY <3>2 DEF g0, g1
  <2> QED
    BY <2>1, <2>2, <2>3
<1>7. /\ Has(InFlight, e) \in Nat /\ Has(InFlight', e) \in Nat /\ Has(Lost, e) \in Nat
      /\ Has(Lost', e) \in Nat /\ Has(Eligible, e) \in Nat /\ Has(Eligible', e) \in Nat
  BY DEF Has
<1>8. /\ sent <= Counted + f0 + l0
      /\ Counted >= Cap => sent + g0 < Cap + Room + l0
      /\ f0 + g0 <= Room /\ Room \in Nat
  BY SlotsShared, FreeRoom DEF FreeInv
<1>9. ASSUME NEW p \in Processes PROVE Cardinality(Holding(p)') <= Slots
  <2>1. Holding(p)' \ {e} = Holding(p) \ {e} /\ Holding(p)' \subseteq Events /\ Holding(p) \subseteq Events
    BY <1>2 DEF Holding, Seated
  <2>2. e \in Holding(p)' /\ e \notin Holding(p) => Cardinality(Holding(p)) < Slots
    BY <1>2 DEF Holding, Seated
  <2>3. IsFiniteSet(Holding(p)) /\ IsFiniteSet(Holding(p)')
    BY <2>1, FS_Subset DEF CountingFree
  <2>4. /\ Cardinality(Holding(p)) \in Nat /\ Cardinality(Holding(p)') \in Nat
        /\ Cardinality(Holding(p)') + Has(Holding(p), e) = Cardinality(Holding(p)) + Has(Holding(p)', e)
    <3> DEFINE S == Holding(p)
               T == Holding(p)'
    <3> HIDE DEF S, T
    <3>1. IsFiniteSet(S) /\ IsFiniteSet(T) /\ S \ {e} = T \ {e}
      BY <2>1, <2>3 DEF S, T
    <3>2. /\ Cardinality(S) \in Nat /\ Cardinality(T) \in Nat
          /\ Cardinality(T) + Has(S, e) = Cardinality(S) + Has(T, e)
      BY <3>1, Balance
    <3> QED
      BY <3>2 DEF S, T
  <2>5. Cardinality(Holding(p)) <= Slots
    BY DEF FreeInv
  <2> QED
    BY <2>2, <2>4, <2>5, LimitAssumption DEF Has
<1>15. \A f \in Events : pc'[f] # "write"
  BY <1>2 DEF FreeInv
<1> HIDE DEF f0, f1, l0, l1, g0, g1
<1>10. sent' <= Counted' + f1 + l1
  BY <1>1, <1>6, <1>7, <1>8
<1>11. Counted' >= Cap => sent' + g1 < Cap + Room + l1
  <2>1. CASE Counted >= Cap
    BY <1>1, <1>6, <1>7, <1>8, <2>1, LimitAssumption
  <2>2. CASE Counted < Cap /\ Counted' >= Cap
    <3>1. d = 1 /\ Counted = Cap - 1
      BY <1>1, <2>2, LimitAssumption
    <3>2. g1 <= g0 /\ l0 <= l1 /\ sent' = sent
      BY <1>1, <1>6, <1>7, <3>1
    <3> QED
      BY <1>1, <1>6, <1>8, <3>1, <3>2, LimitAssumption
  <2> QED
    BY <1>1, <2>1, <2>2, LimitAssumption
<1>12. \A f \in Events : pc'[f] # "new" => \E p \in Processes : at'[f] = {p}
  BY <1>2 DEF FreeInv, Seated
<1>13. \A f \in posted' : pc'[f] \in Past \union {"failed"} /\ ctx'[f].ts # NoThread
  BY <1>1, <1>2 DEF FreeInv
<1>14. \A f \in Events : pc'[f] = "send" => ctx'[f].row.n < Cap
  BY <1>2 DEF FreeInv
<1> QED
  BY <1>9, <1>10, <1>11, <1>12, <1>13, <1>14, <1>15 DEF FreeInv, Room, f1, l1, g1

\* A step of handler e that sends and counts nothing.
LEMMA FreeQuiet ==
    ASSUME CountingFree, FreeInv, TypeOK', NEW e \in Events, NEW step \in Places \ {"new", "write"},
           Goto(e, step), Seated(e, step),
           UNCHANGED <<posted, sent, usage, month>>,
           e \in posted => step \in Past \union {"failed"} /\ ctx'[e].ts # NoThread,
           \A f \in Events : f # e => ctx'[f] = ctx[f],
           step = "send" => ctx'[e].row.n < Cap,
           e \in InFlight => e \in InFlight' \/ e \in Lost',
           e \in Lost => e \in Lost',
           Counted >= Cap /\ e \in Eligible' => e \in Eligible
    PROVE  FreeInv'
<1>1. Counted' = Counted + 0 /\ sent' = sent + 0
  BY DEF Counted, FreeInv, TypeOK
<1>2. ~ (e \in InFlight /\ e \in Lost)
  BY DEF InFlight, Lost, Counting
<1>3. 0 + Has(InFlight, e) + Has(Lost, e) <= 0 + Has(InFlight', e) + Has(Lost', e)
  BY <1>2 DEF Has
<1>4. Counted >= Cap => 0 + Has(Eligible', e) + Has(Lost, e) <= Has(Eligible, e) + Has(Lost', e)
  BY DEF Has
<1>5. 0 \in {0, 1} /\ posted' \in {posted, posted \union {e}}
  OBVIOUS
<1> QED
  BY <1>1, <1>3, <1>4, <1>5, FreeStep

LEMMA StepFree ==
    ASSUME CountingFree, FreeInv, NEW e \in Events, Step(e)
    PROVE  FreeInv'
<1>1. /\ TypeOK /\ pc \in [Events -> Places] /\ ctx \in [Events -> Local] /\ usage \in Row
      /\ month \in Nat /\ sent \in Nat /\ posted \subseteq Events
      /\ cards \in [Objects -> Nat] /\ Of[e] \in Objects
  BY TypeParts, EventAssumption, LimitAssumption DEF FreeInv, Typed, Row
<1>2. TypeOK'
  BY <1>1, StepTypeOK
<1>3. pc[e] # "new" /\ at' = at /\ \E p \in Processes : at'[e] = {p}
  <2>1. pc[e] # "new" /\ at' = at
    BY DEF Step, Enter, NotForUs, Fetch, Decide, ReadTarget, FindThread, UpdateCard, PostCard,
           SendNothing, InitThread, AnnounceThread, Record, CountAtomic, ReadUsage, WriteUsage,
           Finish, HandlerFails, Running
  <2> QED
    BY <2>1 DEF FreeInv
<1>seat. ASSUME NEW step, \/ pc[e] \in Running
                         \/ \A p \in at[e] : Cardinality(Holding(p)) < Slots
       PROVE  Seated(e, step)
  BY <1>3, <1>seat DEF Seated
<1>4. \A f \in posted : pc[f] \in Past \union {"failed"} /\ ctx[f].ts # NoThread
  BY DEF FreeInv
<1>5. ASSUME NEW step \in Places \ {"new", "write"}, Goto(e, step) PROVE pc'[e] = step
  BY <1>1, <1>5 DEF Goto
<1>6. CASE Enter(e)
  <2>3. \A p \in at[e] : Cardinality(Holding(p)) < Slots
    BY <1>6 DEF Enter
  <2>4. pc[e] = "queued" /\ Goto(e, "fetch") /\ pc'[e] = "fetch"
    BY <1>5, <1>6 DEF Enter, Places, Running
  <2>5. e \notin posted /\ e \notin InFlight /\ e \notin Lost
    BY <1>4, <2>4 DEF InFlight, Lost, Past
  <2>6. e \notin Eligible'
    BY <2>4 DEF Eligible
  <2> QED
    BY <1>2, <1>seat, <1>6, <2>3, <2>4, <2>5, <2>6, FreeQuiet DEF Enter, Places, Running
<1>7. CASE NotForUs(e) \/ (\E recent \in BOOLEAN : Fetch(e, recent))
           \/ (\E relevant \in BOOLEAN : Decide(e, relevant))
  <2>1. PICK step \in {"ignored", "decide", "debounced", "target"} : Goto(e, step)
    BY <1>7 DEF NotForUs, Fetch, Decide
  <2>2. pc[e] \in {"fetch", "target", "decide"} /\ UNCHANGED <<posted, sent, usage, month>>
    BY <1>7 DEF NotForUs, Fetch, Decide
  <2>3. \A f \in Events : f # e => ctx'[f] = ctx[f]
    BY <1>1, <1>7 DEF NotForUs, Fetch, Decide
  <2>4. e \notin posted /\ e \notin InFlight /\ e \notin Lost
    BY <1>4, <2>2 DEF InFlight, Lost, Past
  <2>5. step \in Places \ {"new", "write"} /\ pc'[e] = step
    BY <1>5, <2>1 DEF Places, Running, Ended
  <2>6. e \notin Eligible'
    BY <2>1, <2>5 DEF Eligible
  <2>7. pc[e] \in Running
    BY <2>2 DEF Running
  <2> QED
    BY <1>2, <1>seat, <2>1, <2>2, <2>3, <2>4, <2>5, <2>6, <2>7, FreeQuiet
<1>8. CASE ReadTarget(e)
  <2>1. pc[e] = "target" /\ Goto(e, "thread") /\ UNCHANGED <<posted, sent, usage, month>>
    BY <1>8 DEF ReadTarget
  <2>2. (\A f \in Events : f # e => ctx'[f] = ctx[f]) /\ ctx'[e].row = usage
    BY <1>1, <1>8 DEF ReadTarget, Local
  <2>3. e \notin posted /\ e \notin InFlight /\ e \notin Lost
    BY <1>4, <2>1 DEF InFlight, Lost, Past
  <2>4. Counted >= Cap => e \notin Eligible'
    BY <1>1, <2>2, LimitAssumption DEF Eligible, Counted, Row
  <2> QED
    BY <1>2, <1>seat, <2>1, <2>2, <2>3, <2>4, FreeQuiet DEF Places, Running
<1>9. CASE FindThread(e)
  <2>1. PICK step \in {"capped", "send"} : Goto(e, step)
    BY <1>9 DEF FindThread
  <2>2. pc[e] = "thread" /\ UNCHANGED <<posted, sent, usage, month>>
    BY <1>9 DEF FindThread
  <2>3. (\A f \in Events : f # e => ctx'[f] = ctx[f]) /\ ctx'[e].row = ctx[e].row
    BY <1>1, <1>9 DEF FindThread, Local
  <2>4. step = "send" => ctx[e].row.n < Cap
    <3>1. step \in Places \ {"new", "write"} /\ pc'[e] = step
      BY <1>5, <2>1 DEF Places, Running, Ended
    <3>2. step = "send" => ~ OverCap(e)
      BY <1>1, <1>9, <3>1 DEF FindThread, Goto
    <3>3. ctx[e].row.n \in Nat
      BY <1>1 DEF Local, Row
    <3> QED
      BY <3>2, <3>3, LimitAssumption DEF OverCap, CountingFree
  <2>5. e \notin posted /\ e \notin InFlight /\ e \notin Lost
    BY <1>4, <2>2 DEF InFlight, Lost, Past
  <2>6. e \in Eligible' => e \in Eligible
    BY <2>2, <2>3 DEF Eligible
  <2> QED
    BY <1>2, <1>seat, <2>1, <2>2, <2>3, <2>4, <2>5, <2>6, FreeQuiet DEF Places, Running, Ended
<1>10. CASE UpdateCard(e) \/ PostCard(e)
  <2>1. PICK step \in {"record", "init"} : Goto(e, step)
    BY <1>10 DEF UpdateCard, PostCard
  <2>2. PICK ts \in Nat \ {NoThread} : Posted(e, ts)
    BY <1>1, <1>10 DEF UpdateCard, PostCard, Local, NoThread
  <2>3. pc[e] = "send" /\ UNCHANGED <<usage, month>> /\ pc'[e] = step
    BY <1>1, <1>10, <2>1 DEF UpdateCard, PostCard, Goto
  <2>4. /\ posted' = posted \union {e} /\ sent' = sent + 1
        /\ \A f \in Events : f # e => ctx'[f] = ctx[f]
        /\ ctx'[e].ts # NoThread
    BY <1>1, <2>2 DEF Posted, Local
  <2>5. /\ e \in Eligible /\ e \notin InFlight /\ e \notin Lost
        /\ e \notin Eligible' /\ e \in InFlight' /\ e \notin Lost'
    BY <1>4, <2>1, <2>3, <2>4 DEF Eligible, InFlight, Lost, Counting, FreeInv
  <2>6. Counted' = Counted + 0
    BY <1>1, <2>3 DEF Counted, Row
  <2>7. /\ 1 + Has(InFlight, e) + Has(Lost, e) <= 0 + Has(InFlight', e) + Has(Lost', e)
        /\ 1 + Has(Eligible', e) + Has(Lost, e) <= Has(Eligible, e) + Has(Lost', e)
    BY <2>5 DEF Has
  <2>8. step \in Places \ {"new", "write"} /\ step \in Past \union {"failed"} /\ pc[e] \in Running
    BY <2>3 DEF Places, Running, Past
  <2> QED
    BY <1>2, <1>seat, <2>1, <2>4, <2>6, <2>7, <2>8, FreeStep
<1>11. CASE SendNothing(e) \/ InitThread(e) \/ AnnounceThread(e) \/ Record(e) \/ Finish(e)
  <2>1. PICK step \in {"record", "announce", "count", "done"} : Goto(e, step)
    BY <1>11 DEF SendNothing, InitThread, AnnounceThread, Record, Finish
  <2>2. /\ pc[e] \in {"send", "init", "announce", "record", "finish"}
        /\ UNCHANGED <<ctx, posted, sent, usage, month>>
    BY <1>11 DEF SendNothing, InitThread, AnnounceThread, Record, Finish
  <2>3. step \in Places \ {"new", "write"} /\ pc'[e] = step
    BY <1>5, <2>1 DEF Places, Running, Ended
  <2>4. step = "done" => pc[e] = "finish"
    BY <1>1, <1>11, <2>3 DEF SendNothing, InitThread, AnnounceThread, Record, Finish, Goto
  <2>5. e \in InFlight => e \in InFlight'
    BY <2>1, <2>2, <2>3, <2>4 DEF InFlight, Counting
  <2>6. e \notin Lost /\ e \notin Eligible'
    BY <2>1, <2>2, <2>3 DEF Lost, Eligible
  <2>7. step \in Past \union {"failed"} /\ pc[e] \in Running
    BY <2>2 DEF Past, Running
  <2> QED
    BY <1>2, <1>seat, <1>4, <2>1, <2>2, <2>3, <2>5, <2>6, <2>7, FreeQuiet
<1>12. CASE CountAtomic(e)
  <2>1. /\ pc[e] = "count" /\ Goto(e, "finish") /\ pc'[e] = "finish"
        /\ UNCHANGED <<ctx, posted, sent, month>> /\ usage' = Incremented(usage, ctx[e].ts)
    BY <1>5, <1>12 DEF CountAtomic, Places, Running
  <2> DEFINE d == IF ctx[e].ts # NoThread THEN 1 ELSE 0
  <2>2. Counted' = Counted + d
    BY <1>1, <2>1 DEF Counted, Incremented, Row
  <2>3. d \in {0, 1} /\ (e \in InFlight => d = 1)
    BY <1>4 DEF InFlight
  <2>4. e \notin Lost /\ e \notin Lost' /\ e \notin InFlight' /\ e \notin Eligible'
    BY <2>1 DEF Lost, InFlight, Eligible, Counting
  <2> HIDE DEF d
  <2>5. /\ 0 + Has(InFlight, e) + Has(Lost, e) <= d + Has(InFlight', e) + Has(Lost', e)
        /\ 0 + Has(Eligible', e) + Has(Lost, e) <= Has(Eligible, e) + Has(Lost', e)
        /\ Has(Eligible', e) <= Has(Eligible, e) /\ Has(Lost, e) <= Has(Lost', e)
    BY <2>3, <2>4 DEF Has
  <2>6. sent' = sent + 0 /\ "finish" \in Past \union {"failed"} /\ pc[e] \in Running
        /\ "finish" \in Places \ {"new", "write"}
    BY <1>1, <2>1 DEF Past, Running, Places
  <2> QED
    BY <1>2, <1>seat, <1>4, <2>1, <2>2, <2>3, <2>5, <2>6, FreeStep
<1>13. CASE HandlerFails(e)
  <2>1. /\ pc[e] \in Running /\ Goto(e, "failed") /\ pc'[e] = "failed"
        /\ UNCHANGED <<ctx, posted, sent, usage, month>>
    BY <1>5, <1>13 DEF HandlerFails, Places, Ended
  <2>2. /\ e \notin Lost /\ e \notin Eligible'
        /\ e \in InFlight => e \in Lost'
    BY <2>1 DEF Lost, InFlight, Eligible, Running
  <2> QED
    BY <1>2, <1>seat, <1>4, <2>1, <2>2, FreeQuiet DEF Places, Ended
<1>14. ~ ReadUsage(e) /\ ~ WriteUsage(e)
  BY DEF ReadUsage, WriteUsage, CountingFree, FreeInv
<1> QED
  BY <1>6, <1>7, <1>8, <1>9, <1>10, <1>11, <1>12, <1>13, <1>14 DEF Step

LEMMA NextFree ==
    ASSUME CountingFree, FreeInv, [Next]_vars
    PROVE  FreeInv'
<1>1. /\ TypeOK /\ TypeOK' /\ pc \in [Events -> Places] /\ sent \in Nat /\ usage \in Row
      /\ at \in [Events -> SUBSET Processes]
  BY NextTypeOK, TypeParts, LimitAssumption DEF FreeInv, Typed, Row
<1>2. ASSUME NEW e \in Events, NEW p \in Processes, Deliver(e, p) PROVE FreeInv'
  <2>1. /\ pc[e] = "new" /\ Goto(e, "queued") /\ pc'[e] = "queued"
        /\ UNCHANGED <<ctx, posted, sent, usage, month>>
    BY <1>1, <1>2 DEF Deliver, Goto
  <2>2. Seated(e, "queued")
    BY <1>1, <1>2 DEF Deliver, Seated, Running
  <2>3. e \notin posted /\ e \notin InFlight /\ e \notin Lost
    BY <2>1 DEF FreeInv, InFlight, Lost, Past
  <2>4. e \notin Eligible' /\ "queued" \notin Running /\ "queued" \in Places \ {"new", "write"}
    BY <2>1 DEF Eligible, Running, Places
  <2> QED
    BY <1>1, <2>1, <2>2, <2>3, <2>4, FreeQuiet
<1>3. CASE UNCHANGED <<pc, at, ctx, posted, sent, usage, month>>
  <2>1. /\ InFlight' = InFlight /\ Lost' = Lost /\ Eligible' = Eligible /\ Counted' = Counted
        /\ \A p \in Processes : Holding(p)' = Holding(p)
    BY <1>3 DEF InFlight, Lost, Eligible, Holding, Counted
  <2> QED
    BY <1>1, <1>3, <2>1 DEF FreeInv, Room
<1>4. CASE MonthTurns
  <2>1. /\ UNCHANGED <<pc, at, ctx, posted, usage>> /\ sent' = 0
        /\ InFlight' = InFlight /\ Lost' = Lost /\ Eligible' = Eligible
        /\ \A p \in Processes : Holding(p)' = Holding(p)
    BY <1>4 DEF MonthTurns, InFlight, Lost, Eligible, Holding
  <2>2. /\ Cardinality(InFlight) \in Nat /\ Cardinality(Lost) \in Nat
        /\ Cardinality(Eligible) \in Nat
    BY <1>1, FreeFinite, FS_CardinalityType
  <2>3. Counted' \in Nat
    BY <1>1, <2>1 DEF Counted, Row
  <2>4. Cardinality(InFlight) + Cardinality(Eligible) <= Room /\ Room \in Nat
    BY SlotsShared, FreeRoom
  <2>5. sent' <= Counted' + Cardinality(InFlight') + Cardinality(Lost')
    BY <2>1, <2>2, <2>3
  <2>6. sent' + Cardinality(Eligible') < Cap + Room + Cardinality(Lost')
    BY <2>1, <2>2, <2>4, LimitAssumption
  <2> QED
    BY <1>1, <2>1, <2>5, <2>6 DEF FreeInv, Room
<1>5. ASSUME NEW e \in Events, Step(e) PROVE FreeInv'
  BY <1>5, StepFree
<1> QED
  BY <1>2, <1>3, <1>4, <1>5 DEF Next, Expire, CloseTicket, vars

\* A free workspace is sent, in any month, fewer cards than its cap, the slots of
\* the semaphores of all instances and the cards whose handler raised after
\* sending together, for any number of instances, events and objects, however the
\* handlers interleave (notification_service.py:332, 415, 535).
THEOREM OverrunIsBounded ==
    ASSUME CountingFree
    PROVE  Spec => []OverrunBounded
<1>1. Init => FreeInv
  <2> SUFFICES ASSUME Init PROVE FreeInv
    OBVIOUS
  <2>1. InFlight = {} /\ Lost = {} /\ Eligible = {} /\ \A p \in Processes : Holding(p) = {}
    BY DEF Init, InFlight, Lost, Eligible, Holding, Running
  <2>2. Cardinality({}) = 0
    BY FS_EmptySet
  <2>3. Counted = 0 /\ sent = 0
    BY DEF Init, Counted
  <2>4. /\ \A e \in Events : pc[e] = "new"
        /\ posted = {}
    BY DEF Init
  <2> QED
    BY <2>1, <2>2, <2>3, <2>4, InitTypeOK, LimitAssumption DEF FreeInv
<1>2. FreeInv /\ [Next]_vars => FreeInv'
  BY NextFree
<1>3. FreeInv => OverrunBounded
  <2> SUFFICES ASSUME FreeInv PROVE sent < Cap + Cardinality(Processes) * Slots + Cardinality(Lost)
    BY DEF OverrunBounded, Lost
  <2>1. Room \in Nat
    BY FreeRoom
  <2>2. /\ sent \in Nat /\ Counted \in Nat /\ TypeOK
    BY DEF FreeInv, TypeOK, Counted
  <2>3. /\ Cardinality(InFlight) \in Nat /\ Cardinality(Lost) \in Nat
        /\ Cardinality(Eligible) \in Nat
    BY <2>2, FreeFinite, FS_CardinalityType
  <2>4. Cardinality(InFlight) + Cardinality(Eligible) <= Room
    BY SlotsShared
  <2>5. sent < Cap + Room + Cardinality(Lost)
    BY <2>1, <2>2, <2>3, <2>4, LimitAssumption DEF FreeInv
  <2> QED
    BY <2>5 DEF Room
<1> QED
  BY <1>1, <1>2, <1>3, PTL DEF Spec
=============================================================================
