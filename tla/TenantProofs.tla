---------------------------- MODULE TenantProofs ----------------------------
(***************************************************************************)
(* What is proved of Tenant, for any requests, processes, retries and      *)
(* scenarios of the assumed shape.  The inductive invariant is Sound.  Its *)
(* first layer is control: a request keeps to the lane of its kind, and    *)
(* its stack ends in an outer label, so that no return goes nowhere        *)
(* (Framed).  The second is data: at each label, and at each label a call  *)
(* will return to, the request has in hand what the code there relies on   *)
(* (Meets): a record to write, a client, a token, a reason to drop the     *)
(* app.  Each module's steps are shown to keep both layers, first for the  *)
(* request that moves, then for the stores, then for all.  On top of it    *)
(* stands what an uninstall promises: a request is not wiping, or what it  *)
(* has wiped stays deleted (AllWiped), and who comes back from a revoked   *)
(* grant comes back to its own workspace (AllHome); and what keeps         *)
(* refreshes to one (Frugal): the client has the newest token but for the  *)
(* one its lock is held for, and whoever refreshes it holds the lock and   *)
(* knows it spent.                                                         *)
(* TenantChainProofs goes on from Sound to the chain of Slack's pairs.     *)
(***************************************************************************)
EXTENDS Tenant, SequenceTheorems, TLAPS

----------------------------------------------------------------------------
(* Control: the labels a request may be at, and those it returns to.       *)
Fields == {"kind", "p", "ws", "prov", "state", "hc", "pc", "todo", "ok", "key", "ret", "rec", "new", "src", "cl",
           "got", "spend", "goal", "tok", "sent", "tries", "mode", "uws", "old", "left"}
Looking == {"reading", "storing"}

\* Where a request is, or will be once it has looked a record up.
Place(r) == IF r.pc \in Looking THEN r.ret ELSE r.pc

\* Labels a procedure passes through, from which the request must return.
OwnInner == {"hub", "client", "proactive", "early", "send", "sent", "late", "hubrefresh", "hubanswer", "hubpersist",
             "refreshed", "slack", "pivot", "bind", "check", "rotate", "relook", "refresh", "answer", "lost",
             "redirect", "persist", "call", "revoked", "drophub", "dropslack", "revoke", "appsuninstall", "wipeall",
             "wipe", "deleting"}
Inner == OwnInner \cup {"writing", "forgetting"}
\* Labels a request returns to; from the outer ones it need not return.
Outer == {"end", "delhub", "dropclients", "merge", "savehub"}
After == Outer \cup {"dropslack", "wipeall", "wipe", "hubanswer", "refreshed", "call"}
Ends == {"done", "failed", "killed"}
\* An uninstall that has just begun, an installation that has not written
\* anything yet.
Fresh == {"uninstall", "unhub", "install", "register", "installhub", "reuse", "heal", "isolate", "share"}

\* What a request of a kind goes through: an installation in Slack, one in
\* HubSpot, and everything else.
Begins == {"slackcall", "hubcall", "uninstall", "unhub", "unslack"}
Common == {"writing", "forgetting", "end"} \cup Ends
Own == OwnInner \cup Begins \cup {"", "delhub", "delslack", "dropclients", "source"}
OfInstall == {"install", "register", "merge", "move", "save"}
OfHubInstall == {"installhub", "reuse", "heal", "isolate", "share", "savehub", "writehub"}
Lane(kind) == Common \cup (IF kind = "install" THEN OfInstall
                           ELSE IF kind = "installhub" THEN OfHubInstall ELSE Own)

Shaped(r) == /\ DOMAIN r = Fields
             /\ r.todo \in Seq(Lane(r.kind) \cap After)
             /\ r.todo # <<>> => r.todo[Len(r.todo)] \in Outer
             /\ r.goal \in {"", "check", "appsuninstall"}

Framed(r) == /\ Shaped(r)
             /\ Place(r) \in Lane(r.kind)
             /\ Place(r) \in Inner => r.todo # <<>>
             /\ Place(r) \in Fresh => r.todo = <<>>

(* A return goes to the label that was pushed last.                        *)
LEMMA Pops ==
  ASSUME NEW S, NEW s \in Seq(S), s # <<>>, s[Len(s)] \in Outer
  PROVE  /\ Head(s) \in S /\ Tail(s) \in Seq(S)
         /\ Tail(s) = <<>> => Head(s) \in Outer
         /\ Tail(s) # <<>> => Tail(s)[Len(Tail(s))] \in Outer
  OBVIOUS

\* A call pushes a label; the last one to return to stays an outer one.
LEMMA Pushes ==
  ASSUME NEW S, NEW s \in Seq(S), NEW a \in S, a \in Outer \/ s # <<>>, s # <<>> => s[Len(s)] \in Outer
  PROVE  LET t == <<a>> \o s IN t \in Seq(S) /\ t # <<>> /\ t[Len(t)] \in Outer
  OBVIOUS

\* A stack of one label.
LEMMA Singles ==
  ASSUME NEW S, NEW a \in S
  PROVE  <<a>> \in Seq(S) /\ <<a>> # <<>> /\ <<a>>[Len(<<a>>)] = a
  OBVIOUS

\* The lanes have no label of a lookup, and fresh ones are never returned to.
LEMMA Labels ==
  ASSUME NEW k
  PROVE  /\ \A l \in Lane(k) : l \notin Looking
         /\ \A l \in Ends : l \in Lane(k) /\ l \notin Inner /\ l \notin Fresh
         /\ \A l \in After : l \notin Fresh
         /\ \A l \in Outer : l \notin Inner
         /\ \A l \in Inner : l \notin Fresh
  BY DEF Lane, Looking, Ends, Inner, OwnInner, After, Outer, Common, Own, OfInstall, OfHubInstall, Begins, Fresh

(* The label a request is at tells its lane.                               *)
LEMMA Lanes ==
  ASSUME NEW k, NEW l \in Lane(k)
  PROVE  /\ l \in Own => Lane(k) = Common \cup Own
         /\ l \in OfInstall => Lane(k) = Common \cup OfInstall
         /\ l \in OfHubInstall => Lane(k) = Common \cup OfHubInstall
  BY DEF Lane, Ends, Inner, OwnInner, Common, Own, OfInstall, OfHubInstall, Begins

(* The frame of a request that is, or will be, at a label of its lane.     *)
LEMMA FramedAt ==
  ASSUME NEW k, NEW q, DOMAIN q = Fields, q.kind = k, q.goal \in {"", "check", "appsuninstall"},
         q.todo \in Seq(Lane(k) \cap After), q.todo # <<>> => q.todo[Len(q.todo)] \in Outer,
         NEW l \in Lane(k), q.pc = l \/ (q.pc \in Looking /\ q.ret = l),
         l \in Inner => q.todo # <<>>, l \in Fresh => q.todo = <<>>
  PROVE  Framed(q) /\ Place(q) = l
<1>1. l \notin Looking
  BY Labels
<1>2. Place(q) = l
  BY <1>1 DEF Place
<1>3. Shaped(q)
  BY DEF Shaped
<1> QED BY <1>2, <1>3 DEF Framed

\* A lookup changes where a request is, and nothing of its stack.
LEMMA LookupFields ==
  ASSUME NEW r, DOMAIN r = Fields, NEW k, NEW l, NEW q, q = Lookup(r, k, l)
  PROVE  /\ DOMAIN q = Fields
         /\ q.todo = r.todo /\ q.kind = r.kind /\ q.goal = r.goal
         /\ q.pc = l \/ (q.pc = "reading" /\ q.ret = l)
<1>1. CASE cache[r.p][k] # NoRow
  <2>1. q = [r EXCEPT !.key = k, !.rec = cache[r.p][k], !.pc = l]
    BY <1>1 DEF Lookup
  <2> QED BY <2>1 DEF Fields
<1>2. CASE cache[r.p][k] = NoRow
  <2>1. q = [r EXCEPT !.key = k, !.ret = l, !.pc = "reading"]
    BY <1>2 DEF Lookup
  <2> QED BY <2>1 DEF Fields
<1> QED BY <1>1, <1>2

\* Looking a record up keeps a request in its frame.
LEMMA LookupFramed ==
  ASSUME NEW r, Shaped(r), NEW k, NEW l \in Lane(r.kind), l \in Inner => r.todo # <<>>,
         l \in Fresh => r.todo = <<>>, NEW q, q = Lookup(r, k, l)
  PROVE  Framed(q)
<1>1. DOMAIN r = Fields
  BY DEF Shaped
<1>2. /\ DOMAIN q = Fields
      /\ q.todo = r.todo /\ q.kind = r.kind /\ q.goal = r.goal
      /\ q.pc = l \/ (q.pc = "reading" /\ q.ret = l)
  BY <1>1, LookupFields
<1>3. "reading" \in Looking
  BY DEF Looking
<1> QED BY <1>2, <1>3, FramedAt DEF Shaped

\* So does returning from a call,
LEMMA ReturnFramed ==
  ASSUME NEW r, Shaped(r), r.todo # <<>>, NEW ok, NEW q, q = Return(r, ok)
  PROVE  Framed(q)
<1>1. /\ DOMAIN q = Fields /\ q.todo = Tail(r.todo) /\ q.kind = r.kind /\ q.goal = r.goal
      /\ q.pc = Head(r.todo)
  BY DEF Return, Shaped, Fields
<1> DEFINE S == Lane(r.kind) \cap After
<1>2. r.todo \in Seq(S) /\ r.todo # <<>> /\ r.todo[Len(r.todo)] \in Outer
  BY DEF Shaped
<1> HIDE DEF S
<1>3. /\ q.pc \in S /\ q.todo \in Seq(S)
      /\ q.todo = <<>> => q.pc \in Outer
      /\ q.todo # <<>> => q.todo[Len(q.todo)] \in Outer
  BY <1>1, <1>2, Pops
<1> USE DEF S
<1> QED BY <1>1, <1>3, FramedAt, Labels DEF Shaped

\* and calling.
LEMMA CallFramed ==
  ASSUME NEW r, Shaped(r), NEW l \in Lane(r.kind), l \notin Fresh, NEW a \in Lane(r.kind) \cap After,
         a \in Outer \/ r.todo # <<>>, NEW q, q = Call(r, l, a)
  PROVE  Framed(q)
<1>1. /\ DOMAIN q = Fields /\ q.todo = <<a>> \o r.todo /\ q.kind = r.kind /\ q.goal = r.goal
      /\ q.pc = l
  BY DEF Call, Shaped, Fields
<1> DEFINE S == Lane(r.kind) \cap After
<1>2. r.todo \in Seq(S) /\ (r.todo # <<>> => r.todo[Len(r.todo)] \in Outer) /\ a \in S
  BY DEF Shaped
<1> HIDE DEF S
<1>3. q.todo \in Seq(S) /\ q.todo # <<>> /\ q.todo[Len(q.todo)] \in Outer
  BY <1>1, <1>2, Pushes
<1> USE DEF S
<1> QED BY <1>1, <1>3, FramedAt DEF Shaped

(* A step of a procedure.                                                  *)
LEMMA Moves ==
  ASSUME NEW r, Framed(r), r.pc \notin Looking, NEW q, DOMAIN q = Fields, q.kind = r.kind, q.todo = r.todo,
         q.goal = r.goal, q.pc \in Lane(r.kind), q.pc \in Inner => r.pc \in Inner, q.pc \notin Fresh
  PROVE  Framed(q)
<1>1. r.pc \in Inner => r.todo # <<>>
  BY DEF Framed, Place
<1> QED BY <1>1, FramedAt DEF Framed, Shaped

(* A request that ends is framed.                                          *)
LEMMA EndedFramed ==
  ASSUME NEW r, DOMAIN r = Fields, NEW l \in Ends, NEW q, q = Ended(r, l)
  PROVE  Framed(q)
<1>1. /\ DOMAIN q = Fields /\ q.kind = r.kind /\ q.todo = <<>> /\ q.goal = "" /\ q.pc = l
  BY DEF Ended, Started, Fields
<1>2. l \in Lane(r.kind) /\ l \notin Inner
  BY Labels
<1>3. <<>> \in Seq(Lane(r.kind) \cap After)
  OBVIOUS
<1> QED BY <1>1, <1>2, <1>3, FramedAt

\* The steps on records keep a request in its frame.
LEMMA RecordFramed ==
  ASSUME NEW j \in Jobs, DOMAIN job = Jobs, NEW r, r = job[j], NEW q, q = job'[j], Framed(r), RecordStep(j)
  PROVE  Framed(q)
<1>0. Shaped(r) /\ DOMAIN r = Fields
  BY DEF Framed, Shaped
<1>1. CASE ReadRow(j)
  <2>1. PICK x : q = [r EXCEPT !.rec = x, !.pc = "storing"]
    BY <1>1 DEF ReadRow, Goto
  <2>2. r.pc = "reading"
    BY <1>1 DEF ReadRow, At
  <2>3. /\ DOMAIN q = Fields /\ q.kind = r.kind /\ q.todo = r.todo /\ q.goal = r.goal /\ q.pc = "storing" /\ q.ret = r.ret
    BY <1>0, <2>1 DEF Fields
  <2>4. Place(q) = Place(r)
    BY <2>2, <2>3 DEF Place, Looking
  <2> QED BY <2>3, <2>4 DEF Framed, Shaped
<1>2. CASE StoreRecord(j)
  <2>1. q = [r EXCEPT !.pc = r.ret] /\ r.pc = "storing"
    BY <1>2 DEF StoreRecord, Goto, At
  <2>2. /\ DOMAIN q = Fields /\ q.kind = r.kind /\ q.todo = r.todo /\ q.goal = r.goal /\ q.pc = r.ret
    BY <1>0, <2>1 DEF Fields
  <2>3. Place(r) = r.ret
    BY <2>1 DEF Place, Looking
  <2>4. Place(q) = Place(r)
    BY <2>2, <2>3, Labels DEF Place, Framed
  <2> QED BY <2>2, <2>4 DEF Framed, Shaped
<1>3. CASE WriteRow(j)
  <2>1. PICK x, k : q = [r EXCEPT !.pc = "forgetting", !.new = x, !.key = k]
    BY <1>3 DEF WriteRow, Goto
  <2>2. r.pc = "writing"
    BY <1>3 DEF WriteRow, At
  <2>3. DOMAIN q = Fields /\ q.kind = r.kind /\ q.todo = r.todo /\ q.goal = r.goal /\ q.pc = "forgetting"
    BY <1>0, <2>1 DEF Fields
  <2> QED BY <2>2, <2>3, Moves DEF Lane, Common, Looking, Inner, OwnInner, Fresh
<1>4. CASE WriteFails(j)
  <2>1. q = Return(r, FALSE) /\ r.pc \in {"writing", "deleting"}
    BY <1>4 DEF WriteFails, Goto
  <2>2. r.todo # <<>>
    BY <2>1 DEF Framed, Place, Looking, Inner, OwnInner
  <2> QED BY <1>0, <2>1, <2>2, ReturnFramed
<1>5. CASE DeleteRows(j)
  <2>1. q = [r EXCEPT !.pc = "forgetting"] /\ r.pc = "deleting"
    BY <1>5 DEF DeleteRows, Goto, At
  <2>2. DOMAIN q = Fields /\ q.kind = r.kind /\ q.todo = r.todo /\ q.goal = r.goal /\ q.pc = "forgetting"
    BY <1>0, <2>1 DEF Fields
  <2> QED BY <2>1, <2>2, Moves DEF Lane, Common, Looking, Inner, OwnInner, Fresh
<1>6. CASE Forget(j)
  <2>1. PICK g : q = [Return(r, TRUE) EXCEPT !.got = g]
    BY <1>6 DEF Forget, Goto
  <2>2. r.todo # <<>>
    BY <1>6 DEF Framed, Place, Looking, Inner, OwnInner, Forget, At
  <2>3. PICK s : s = Return(r, TRUE)
    OBVIOUS
  <2>4. Framed(s)
    BY <1>0, <2>2, <2>3, ReturnFramed
  <2>5. /\ DOMAIN q = Fields /\ q.kind = s.kind /\ q.todo = s.todo /\ q.goal = s.goal /\ q.pc = s.pc /\ q.ret = s.ret
    BY <2>1, <2>3, <2>4 DEF Framed, Shaped, Fields
  <2>6. Place(q) = Place(s)
    BY <2>5 DEF Place
  <2> QED BY <2>4, <2>5, <2>6 DEF Framed, Shaped
<1> QED BY <1>1, <1>2, <1>3, <1>4, <1>5, <1>6 DEF RecordStep

\* A request that is inside a procedure keeps to one lane.
LEMMA OwnLane ==
  ASSUME NEW r, Framed(r), r.pc \in OwnInner
  PROVE  /\ Lane(r.kind) = Common \cup Own /\ OwnInner \subseteq Lane(r.kind) /\ r.pc \notin Looking
         /\ Shaped(r) /\ r.todo # <<>> /\ r.pc \in Inner
<1>1. r.pc \notin Looking
  BY DEF OwnInner, Looking
<1>2. Place(r) = r.pc
  BY <1>1 DEF Place
<1>3. r.pc \in Inner /\ r.pc \in Own
  BY DEF Inner, Own
<1>4. Lane(r.kind) = Common \cup Own
  BY <1>2, <1>3, Lanes DEF Framed
<1>5. OwnInner \subseteq Lane(r.kind)
  BY <1>4 DEF Own
<1> QED BY <1>1, <1>2, <1>3, <1>4, <1>5 DEF Framed

\* Inside a procedure a request must return.
LEMMA OwnLabels ==
  \A l \in OwnInner : l \in Inner /\ l \notin Fresh
  BY DEF OwnInner, Inner, Fresh

\* A step inside a procedure,
LEMMA OwnMoves ==
  ASSUME NEW r, Framed(r), r.pc \in OwnInner, NEW q, DOMAIN q = Fields, q.kind = r.kind, q.todo = r.todo,
         q.goal = r.goal, q.pc \in OwnInner
  PROVE  Framed(q)
  BY OwnLane, OwnLabels, Moves

\* a lookup there,
LEMMA OwnLooks ==
  ASSUME NEW r, Framed(r), r.pc \in OwnInner, NEW l \in OwnInner, NEW k, NEW q, q = Lookup(r, k, l)
  PROVE  Framed(q)
  BY OwnLane, OwnLabels, LookupFramed

\* a return,
LEMMA OwnReturns ==
  ASSUME NEW r, Framed(r), r.pc \in OwnInner, NEW ok, NEW q, q = Return(r, ok)
  PROVE  Framed(q)
  BY OwnLane, ReturnFramed

\* and a call keep the frame.
LEMMA OwnCalls ==
  ASSUME NEW r, Framed(r), r.pc \in OwnInner, NEW s, Shaped(s), s.kind = r.kind, s.todo = r.todo,
         NEW l \in Inner, NEW a \in After \cap Inner, NEW q, q = Call(s, l, a)
  PROVE  Framed(q)
<1>1. Lane(s.kind) = Common \cup Own /\ s.todo # <<>>
  BY OwnLane
<1>2. l \in Lane(s.kind) /\ a \in Lane(s.kind) \cap After
  BY <1>1 DEF Inner, Common, Own
<1> QED BY <1>1, <1>2, CallFramed, Labels

\* The steps of the Slack client keep it.
LEMMA SlackFramed ==
  ASSUME NEW j \in Jobs, DOMAIN job = Jobs, NEW r, r = job[j], NEW q, q = job'[j], Framed(r), SlackStep(j)
  PROVE  Framed(q)
<1>0. Shaped(r) /\ DOMAIN r = Fields
  BY DEF Framed, Shaped
<1>a. ASSUME r.pc \in OwnInner, NEW l \in OwnInner,
             \/ q = [r EXCEPT !.pc = l]
             \/ \E x : \/ q = [r EXCEPT !.rec = x, !.pc = l] \/ q = [r EXCEPT !.got = x, !.pc = l]
                       \/ q = [r EXCEPT !.spend = x, !.pc = l] \/ q = [r EXCEPT !.tries = x, !.pc = l]
      PROVE  Framed(q)
  <2>1. DOMAIN q = Fields /\ q.kind = r.kind /\ q.todo = r.todo /\ q.goal = r.goal /\ q.pc = l
    BY <1>0, <1>a DEF Fields
  <2> QED BY <1>a, <2>1, OwnMoves
\* A client was found or made: on to the call it is for.
<1>b. ASSUME r.pc \in OwnInner, NEW c, q = [r EXCEPT !.cl = c, !.pc = r.goal]
      PROVE  Framed(q)
  <2>1. DOMAIN q = Fields /\ q.kind = r.kind /\ q.todo = r.todo /\ q.goal = r.goal /\ q.pc = r.goal
    BY <1>0, <1>b DEF Fields
  <2>2. r.goal \in Own /\ r.goal \notin Fresh
    BY <1>0 DEF Shaped, Own, OwnInner, Fresh
  <2>3. r.goal \in Lane(r.kind) /\ r.pc \in Inner /\ r.pc \notin Looking
    BY <1>b, <2>2, OwnLane
  <2> QED BY <2>1, <2>2, <2>3, Moves
<1>1. CASE Resolve(j)
  <2>1. r.pc \in OwnInner /\ "pivot" \in OwnInner /\ "bind" \in OwnInner
    BY <1>1 DEF Resolve, At, OwnInner
  <2>2. \/ \E c : q = [r EXCEPT !.cl = c, !.pc = r.goal] \/ \E k : q = Lookup(r, k, "pivot")
        \/ q = [r EXCEPT !.rec = r.src, !.pc = "bind"]
    BY <1>1 DEF Resolve, Goto
  <2> QED BY <1>a, <1>b, <2>1, <2>2, OwnLooks
<1>2. CASE Pivot(j)
  <2>1. r.pc \in OwnInner /\ "bind" \in OwnInner
    BY <1>2 DEF Pivot, At, OwnInner
  <2>2. q = Return(r, FALSE) \/ q = [r EXCEPT !.pc = "bind"] \/ q = [r EXCEPT !.rec = r.src, !.pc = "bind"]
    BY <1>2 DEF Pivot, Goto
  <2> QED BY <1>a, <2>1, <2>2, OwnReturns
<1>3. CASE Bind(j)
  <2>1. r.pc \in OwnInner
    BY <1>3 DEF Bind, At, OwnInner
  <2>2. \E c : q = [r EXCEPT !.cl = c, !.pc = r.goal]
    BY <1>3 DEF Bind, Goto
  <2> QED BY <1>b, <2>1, <2>2
<1>4. CASE Check(j)
  <2>1. r.pc \in OwnInner /\ "rotate" \in OwnInner /\ "call" \in OwnInner
    BY <1>4 DEF Check, At, OwnInner
  <2>2. \E l \in {"rotate", "call"} : q = [r EXCEPT !.pc = l]
    BY <1>4 DEF Check, Goto
  <2> QED BY <1>a, <2>1, <2>2
<1>5. CASE TakeLock(j)
  <2>1. r.pc \in OwnInner /\ "relook" \in OwnInner
    BY <1>5 DEF TakeLock, At, OwnInner
  <2>2. \E k : q = Lookup(r, k, "relook")
    BY <1>5 DEF TakeLock, Goto
  <2> QED BY <2>1, <2>2, OwnLooks
<1>6. CASE Relook(j)
  <2>1. r.pc \in OwnInner /\ "answer" \in OwnInner /\ "refresh" \in OwnInner
    BY <1>6 DEF Relook, At, OwnInner
  <2>2. \E n : q = [r EXCEPT !.got = n, !.pc = "answer"] \/ q = [r EXCEPT !.spend = n, !.pc = "refresh"]
    BY <1>6 DEF Relook, Goto
  <2> QED BY <1>a, <2>1, <2>2
<1>7. CASE SlackRotates(j)
  <2>1. r.pc \in OwnInner /\ "answer" \in OwnInner /\ "lost" \in OwnInner
    BY <1>7 DEF SlackRotates, At, OwnInner
  <2>2. \E n : q = [r EXCEPT !.got = n, !.pc = "answer"] \/ q = [r EXCEPT !.pc = "lost"]
    BY <1>7 DEF SlackRotates, Goto
  <2> QED BY <1>a, <2>1, <2>2
<1>8. CASE TakeAnswer(j)
  <2>1. r.pc \in OwnInner /\ "call" \in OwnInner /\ "redirect" \in OwnInner
    BY <1>8 DEF TakeAnswer, At, OwnInner
  <2>2. q = [r EXCEPT !.pc = "call"] \/ \E k : q = Lookup(r, k, "redirect")
    BY <1>8 DEF TakeAnswer, Goto
  <2> QED BY <1>a, <2>1, <2>2, OwnLooks
<1>9. CASE LoseAnswer(j)
  <2>1. r.pc \in OwnInner /\ q = Return(r, FALSE)
    BY <1>9 DEF LoseAnswer, At, OwnInner, Goto
  <2> QED BY <2>1, OwnReturns
<1>10. CASE Redirect(j)
  <2>1. r.pc \in OwnInner /\ "persist" \in OwnInner
    BY <1>10 DEF Redirect, At, OwnInner
  <2>2. q = [r EXCEPT !.pc = "persist"] \/ \E k : q = Lookup(r, k, "persist")
    BY <1>10 DEF Redirect, Goto
  <2> QED BY <1>a, <2>1, <2>2, OwnLooks
<1>11. CASE Persist(j)
  <2>1. r.pc \in OwnInner /\ "call" \in OwnInner /\ "writing" \in Inner /\ "call" \in After \cap Inner
    BY <1>11 DEF Persist, At, OwnInner, Inner, After
  <2>2. CASE q = [r EXCEPT !.got = 0, !.pc = "call"]
    BY <1>a, <2>1, <2>2
  <2>3. CASE \E x : q = Upsert(r, x, "call")
    <3>1. PICK x, s : s = [r EXCEPT !.new = x] /\ q = Call(s, "writing", "call")
      BY <2>3 DEF Upsert
    <3>2. DOMAIN s = Fields /\ s.kind = r.kind /\ s.todo = r.todo /\ s.goal = r.goal
      BY <1>0, <3>1 DEF Fields
    <3>3. Shaped(s)
      BY <1>0, <3>2 DEF Shaped
    <3> QED BY <2>1, <3>1, <3>2, <3>3, OwnCalls
  <2> QED BY <1>11, <2>2, <2>3 DEF Persist, Goto
<1>12. CASE SlackCall(j)
  <2>1. r.pc \in OwnInner /\ "check" \in OwnInner
    BY <1>12 DEF SlackCall, At, OwnInner
  <2>2. (\E ok : q = Return(r, ok)) \/ q = [r EXCEPT !.tries = 1, !.pc = "check"]
    BY <1>12 DEF SlackCall, Goto
  <2> QED BY <1>a, <2>1, <2>2, OwnReturns
<1>13. CASE BeginCall(j) \/ Source(j)
  <2>1. r.pc \in Own /\ r.pc \notin Looking
    BY <1>13 DEF BeginCall, Source, At, Own, Begins, Looking
  <2>2. Lane(r.kind) = Common \cup Own
    BY <2>1, Lanes DEF Framed, Place
  <2>3. /\ "source" \in Own /\ "source" \notin Inner /\ "source" \notin Fresh
        /\ "slack" \in Own /\ "slack" \notin Fresh /\ "end" \in Common /\ "end" \in Outer /\ "end" \in After
    BY DEF Own, Inner, OwnInner, Fresh, Common, Outer, After
  <2>4. CASE \E k : q = Lookup(r, k, "source")
    BY <1>0, <2>2, <2>3, <2>4, LookupFramed
  <2>5. CASE q = Ended(r, "failed")
    BY <1>0, <2>5, EndedFramed DEF Ends
  <2>6. CASE q = UseSlack(r, r.rec, "check", "end")
    <3>1. PICK s : s = [r EXCEPT !.src = r.rec, !.goal = "check"] /\ q = Call(s, "slack", "end")
      BY <2>6 DEF UseSlack
    <3>2. DOMAIN s = Fields /\ s.kind = r.kind /\ s.todo = r.todo /\ s.goal = "check"
      BY <1>0, <3>1 DEF Fields
    <3>3. Shaped(s)
      BY <1>0, <3>2 DEF Shaped
    <3> QED BY <2>2, <2>3, <3>1, <3>2, <3>3, CallFramed
  <2> QED BY <1>13, <2>4, <2>5, <2>6 DEF BeginCall, Source, Goto
<1>14. CASE End(j)
  <2>1. \E l \in Ends : q = Ended(r, l)
    BY <1>14 DEF End, Goto, Ends
  <2> QED BY <1>0, <2>1, EndedFramed
<1> QED BY <1>1, <1>2, <1>3, <1>4, <1>5, <1>6, <1>7, <1>8, <1>9, <1>10, <1>11, <1>12, <1>13, <1>14 DEF SlackStep

\* The steps of the HubSpot client keep it.
LEMMA HubFramed ==
  ASSUME NEW j \in Jobs, DOMAIN job = Jobs, NEW r, r = job[j], NEW q, q = job'[j], Framed(r), HubStep(j)
  PROVE  Framed(q)
<1>0. Shaped(r) /\ DOMAIN r = Fields
  BY DEF Framed, Shaped
\* Most steps go from one label to the next, or return.
<1>a. ASSUME r.pc \in OwnInner, NEW l \in OwnInner,
             \/ q = [r EXCEPT !.pc = l]
             \/ \E x : \/ q = [r EXCEPT !.sent = x, !.pc = l] \/ q = [r EXCEPT !.tries = x, !.pc = l]
                       \/ q = [r EXCEPT !.tok = x, !.pc = l] \/ q = [r EXCEPT !.mode = x, !.pc = l]
                       \/ \E y : q = [r EXCEPT !.mode = x, !.sent = y, !.pc = l]
      PROVE  Framed(q)
  <2>1. DOMAIN q = Fields /\ q.kind = r.kind /\ q.todo = r.todo /\ q.goal = r.goal /\ q.pc = l
    BY <1>0, <1>a DEF Fields
  <2> QED BY <1>a, <2>1, OwnMoves
<1>1. CASE GetClient(j)
  <2>1. r.pc \in OwnInner /\ "proactive" \in OwnInner /\ "client" \in OwnInner
    BY <1>1 DEF GetClient, At, OwnInner
  <2>2. q = [r EXCEPT !.pc = "proactive"] \/ \E k : q = Lookup(r, k, "client")
    BY <1>1 DEF GetClient, Goto
  <2> QED BY <1>a, <2>1, <2>2, OwnLooks
<1>2. CASE MakeClient(j)
  <2>1. r.pc \in OwnInner /\ "proactive" \in OwnInner
    BY <1>2 DEF MakeClient, At, OwnInner
  <2>2. q = [r EXCEPT !.pc = "proactive"] \/ q = Return(r, FALSE)
    BY <1>2 DEF MakeClient, Goto
  <2> QED BY <1>a, <2>1, <2>2, OwnReturns
<1>3. CASE Proactive(j)
  <2>1. r.pc \in OwnInner /\ "early" \in OwnInner /\ "send" \in OwnInner
    BY <1>3 DEF Proactive, At, OwnInner
  <2>2. \E l \in {"early", "send"} : q = [r EXCEPT !.pc = l]
    BY <1>3 DEF Proactive, Goto
  <2> QED BY <1>a, <2>1, <2>2
<1>4. CASE LockEarly(j)
  <2>1. r.pc \in OwnInner /\ "hubrefresh" \in OwnInner /\ "send" \in OwnInner
    BY <1>4 DEF LockEarly, At, OwnInner
  <2>2. q = [r EXCEPT !.pc = "send"] \/ \E x, y : q = [r EXCEPT !.mode = x, !.sent = y, !.pc = "hubrefresh"]
    <3>1. CASE Expiring(j)
      <4>1. q = [r EXCEPT !.mode = "early", !.sent = Mine(j).n, !.pc = "hubrefresh"]
        BY <1>4, <3>1 DEF LockEarly, Goto
      <4> QED BY <4>1
    <3>2. CASE ~Expiring(j)
      BY <1>4, <3>2 DEF LockEarly, Goto
    <3> QED BY <3>1, <3>2
  <2> QED BY <1>a, <2>1, <2>2
<1>5. CASE Send(j)
  <2>1. r.pc \in OwnInner /\ "sent" \in OwnInner
    BY <1>5 DEF Send, At, OwnInner
  <2>2. \E x : q = [r EXCEPT !.sent = x, !.pc = "sent"]
    BY <1>5 DEF Send, Goto
  <2> QED BY <1>a, <2>1, <2>2
<1>6. CASE Answered(j)
  <2>1. r.pc \in OwnInner /\ "send" \in OwnInner
    BY <1>6 DEF Answered, At, OwnInner
  <2>2. q = Return(r, TRUE) \/ \E x : q = [r EXCEPT !.tries = x, !.pc = "send"]
    BY <1>6 DEF Answered, Goto
  <2> QED BY <1>a, <2>1, <2>2, OwnReturns
<1>7. CASE Errs(j)
  <2>1. r.pc \in OwnInner /\ q = Return(r, FALSE)
    BY <1>7 DEF Errs, At, OwnInner, Goto
  <2> QED BY <2>1, OwnReturns
<1>8. CASE Unauthorized(j)
  <2>1. r.pc \in OwnInner /\ "late" \in OwnInner
    BY <1>8 DEF Unauthorized, At, OwnInner
  <2>2. q = Return(r, FALSE) \/ q = [r EXCEPT !.pc = "late"]
    BY <1>8 DEF Unauthorized, Goto
  <2> QED BY <1>a, <2>1, <2>2, OwnReturns
<1>9. CASE LockLate(j)
  <2>1. r.pc \in OwnInner /\ "send" \in OwnInner /\ "hubrefresh" \in OwnInner
    BY <1>9 DEF LockLate, At, OwnInner
  <2>2. q = [r EXCEPT !.pc = "send"] \/ \E x : q = [r EXCEPT !.mode = x, !.pc = "hubrefresh"]
    BY <1>9 DEF LockLate, Goto
  <2> QED BY <1>a, <2>1, <2>2
<1>10. CASE HubRefreshes(j)
  <2>1. r.pc \in OwnInner /\ "hubanswer" \in OwnInner /\ "revoked" \in Inner /\ "hubanswer" \in After \cap Inner
    BY <1>10 DEF HubRefreshes, At, OwnInner, Inner, After
  <2>2. CASE \E x : q = [r EXCEPT !.tok = x, !.pc = "hubanswer"]
    BY <1>a, <2>1, <2>2
  <2>3. CASE \E x : q = Call([r EXCEPT !.tok = 0, !.uws = x], "revoked", "hubanswer")
    <3>1. PICK x, s : s = [r EXCEPT !.tok = 0, !.uws = x] /\ q = Call(s, "revoked", "hubanswer")
      BY <2>3
    <3>2. DOMAIN s = Fields /\ s.kind = r.kind /\ s.todo = r.todo /\ s.goal = r.goal
      BY <1>0, <3>1 DEF Fields
    <3>3. Shaped(s)
      BY <1>0, <3>2 DEF Shaped
    <3> QED BY <2>1, <3>1, <3>2, <3>3, OwnCalls
  <2> QED BY <1>10, <2>2, <2>3 DEF HubRefreshes, Goto
<1>11. CASE HubAnswer(j)
  <2>1. r.pc \in OwnInner /\ "refreshed" \in OwnInner /\ "hubpersist" \in OwnInner
    BY <1>11 DEF HubAnswer, At, OwnInner
  <2>2. PICK s : s = [r EXCEPT !.uws = r.ws] /\ (q = [s EXCEPT !.pc = "refreshed"] \/ \E k : q = Lookup(s, k, "hubpersist"))
    BY <1>11 DEF HubAnswer, Goto
  <2>3. /\ DOMAIN s = Fields /\ s.kind = r.kind /\ s.todo = r.todo /\ s.goal = r.goal /\ s.pc = r.pc
        /\ s.pc \notin Looking /\ r.pc \notin Looking
    BY <1>0, <2>1, <2>2 DEF Fields, Looking, OwnInner
  <2>4. Framed(s)
    BY <2>3 DEF Framed, Shaped, Place
  <2>5. CASE \E k : q = Lookup(s, k, "hubpersist")
    BY <2>1, <2>3, <2>4, <2>5, OwnLooks
  <2>6. CASE q = [s EXCEPT !.pc = "refreshed"]
    <3>1. q = [[r EXCEPT !.uws = r.ws] EXCEPT !.pc = "refreshed"]
      BY <2>2, <2>6
    <3>2. DOMAIN q = Fields /\ q.kind = r.kind /\ q.todo = r.todo /\ q.goal = r.goal /\ q.pc = "refreshed"
      BY <2>3, <2>6 DEF Fields
    <3> QED BY <2>1, <3>2, OwnMoves
  <2> QED BY <2>2, <2>5, <2>6
<1>12. CASE HubPersist(j)
  <2>1. r.pc \in OwnInner /\ "refreshed" \in OwnInner /\ "writing" \in Inner /\ "refreshed" \in After \cap Inner
    BY <1>12 DEF HubPersist, At, OwnInner, Inner, After
  <2>2. CASE q = [r EXCEPT !.pc = "refreshed"]
    BY <1>a, <2>1, <2>2
  <2>3. CASE \E x : q = Upsert(r, x, "refreshed")
    <3>1. PICK x, s : s = [r EXCEPT !.new = x] /\ q = Call(s, "writing", "refreshed")
      BY <2>3 DEF Upsert
    <3>2. DOMAIN s = Fields /\ s.kind = r.kind /\ s.todo = r.todo /\ s.goal = r.goal
      BY <1>0, <3>1 DEF Fields
    <3>3. Shaped(s)
      BY <1>0, <3>2 DEF Shaped
    <3> QED BY <2>1, <3>1, <3>2, <3>3, OwnCalls
  <2> QED BY <1>12, <2>2, <2>3 DEF HubPersist, Goto
<1>13. CASE Refreshed(j)
  <2>1. r.pc \in OwnInner /\ "send" \in OwnInner /\ q = [r EXCEPT !.pc = "send"]
    BY <1>13 DEF Refreshed, At, OwnInner, Goto
  <2> QED BY <1>a, <2>1
<1>14. CASE BeginHub(j)
  <2>1. r.pc = "hubcall" /\ q = Call(r, "hub", "end")
    BY <1>14 DEF BeginHub, At, Goto
  <2>2. "hubcall" \in Own /\ "hubcall" \notin Looking
    BY DEF Own, Begins, Looking
  <2>3. Lane(r.kind) = Common \cup Own
    BY <2>1, <2>2, Lanes DEF Framed, Place
  <2>4. "hub" \in Own /\ "hub" \notin Fresh /\ "end" \in Common /\ "end" \in Outer /\ "end" \in After
    BY DEF Own, OwnInner, Common, Outer, After, Fresh
  <2> QED BY <1>0, <2>1, <2>3, <2>4, CallFramed
<1> QED BY <1>1, <1>2, <1>3, <1>4, <1>5, <1>6, <1>7, <1>8, <1>9, <1>10, <1>11, <1>12, <1>13, <1>14 DEF HubStep

\* A request that starts over with a call returns to its end.
LEMMA OnlyEnd ==
  ASSUME NEW r, Shaped(r), NEW s, DOMAIN s = Fields, s.kind = r.kind, s.goal = r.goal, s.todo = <<"end">>
  PROVE  Shaped(s) /\ s.todo # <<>>
<1> DEFINE S == Lane(s.kind) \cap After
<1>1. "end" \in S /\ "end" \in Outer
  BY DEF Lane, Common, After, Outer
<1> HIDE DEF S
<1>2. s.todo \in Seq(S) /\ s.todo # <<>> /\ s.todo[Len(s.todo)] = "end"
  BY <1>1, Singles
<1> USE DEF S
<1> QED BY <1>1, <1>2 DEF Shaped

\* Writing a record keeps the frame,
LEMMA UpsertFramed ==
  ASSUME NEW r, Shaped(r), NEW a \in Lane(r.kind) \cap After, a \in Outer \/ r.todo # <<>>, NEW x, NEW q,
         q = Upsert(r, x, a)
  PROVE  Framed(q)
<1>1. PICK s : s = [r EXCEPT !.new = x]
  OBVIOUS
<1>2. DOMAIN s = Fields /\ s.kind = r.kind /\ s.todo = r.todo /\ s.goal = r.goal
  BY <1>1 DEF Shaped, Fields
<1>3. Shaped(s)
  BY <1>2 DEF Shaped
<1>4. q = Call(s, "writing", a)
  BY <1>1 DEF Upsert
<1>5. "writing" \in Lane(s.kind) /\ "writing" \notin Fresh
  BY DEF Lane, Common, Fresh
<1> QED BY <1>2, <1>3, <1>4, <1>5, CallFramed

\* and deleting records does.
LEMMA DeleteFramed ==
  ASSUME NEW r, Shaped(r), NEW a \in Lane(r.kind) \cap After, a \in Outer \/ r.todo # <<>>,
         "deleting" \in Lane(r.kind), NEW k, NEW q, q = Delete(r, k, a)
  PROVE  Framed(q)
<1>1. PICK s : s = [r EXCEPT !.todo = <<a>> \o @, !.ok = TRUE]
  OBVIOUS
<1>2. DOMAIN s = Fields /\ s.kind = r.kind /\ s.todo = <<a>> \o r.todo /\ s.goal = r.goal
  BY <1>1 DEF Shaped, Fields
<1> DEFINE S == Lane(r.kind) \cap After
<1>3. r.todo \in Seq(S) /\ (r.todo # <<>> => r.todo[Len(r.todo)] \in Outer) /\ a \in S
  BY DEF Shaped
<1> HIDE DEF S
<1>4. s.todo \in Seq(S) /\ s.todo # <<>> /\ s.todo[Len(s.todo)] \in Outer
  BY <1>2, <1>3, Pushes
<1> USE DEF S
<1>5. Shaped(s)
  BY <1>2, <1>4 DEF Shaped
<1>6. q = Lookup(s, k, "deleting") /\ "deleting" \notin Fresh
  BY <1>1 DEF Delete, Fresh
<1> QED BY <1>2, <1>4, <1>5, <1>6, LookupFramed

\* An installation in HubSpot begins with the record of the portal.
Reuses(q, s) == (\E x : q = [s EXCEPT !.pc = "reuse", !.rec = x]) \/ \E k : q = Lookup(s, k, "reuse")
LEMMA HubInstallBegins ==
  ASSUME NEW j \in Jobs, DOMAIN job = Jobs, NEW r, r = job[j], NEW q, q = job'[j], BeginHubInstall(j)
  PROVE  \E x : \E s : s = [r EXCEPT !.tok = x] /\ Reuses(q, s)
<1>1. PICK s : s = [r EXCEPT !.tok = hub.gen + 1]
  OBVIOUS
<1>2. CASE portal # ""
  <2>1. q = Lookup(s, <<portal, "hubspot">>, "reuse")
    BY <1>1, <1>2 DEF BeginHubInstall, Goto
  <2> QED BY <1>1, <2>1 DEF Reuses
<1>3. CASE portal = ""
  <2>1. \E x \in (IF Bootstrap = {} THEN {NoRow} ELSE Bootstrap) :
          Goto(j, [[job[j] EXCEPT !.tok = hub.gen + 1] EXCEPT !.pc = "reuse", !.rec = x])
    BY <1>3 DEF BeginHubInstall
  <2>2. PICK x : Goto(j, [[job[j] EXCEPT !.tok = hub.gen + 1] EXCEPT !.pc = "reuse", !.rec = x])
    BY <2>1
  <2>3. q = [s EXCEPT !.pc = "reuse", !.rec = x]
    BY <1>1, <2>2 DEF Goto
  <2>4. Reuses(q, s)
    BY <2>3 DEF Reuses
  <2> QED BY <1>1, <2>4
<1> QED BY <1>2, <1>3

\* The steps of installing and uninstalling keep it.
LEMMA LifeFramed ==
  ASSUME NEW j \in Jobs, DOMAIN job = Jobs, NEW r, r = job[j], NEW q, q = job'[j], Framed(r), LifeStep(j)
  PROVE  Framed(q)
<1>0. Shaped(r) /\ DOMAIN r = Fields
  BY DEF Framed, Shaped
<1>a. ASSUME r.pc \in OwnInner, NEW l \in OwnInner,
             q = [r EXCEPT !.pc = l] \/ \E x : q = [r EXCEPT !.pc = l, !.left = x]
      PROVE  Framed(q)
  <2>1. DOMAIN q = Fields /\ q.kind = r.kind /\ q.todo = r.todo /\ q.goal = r.goal /\ q.pc = l
    BY <1>0, <1>a DEF Fields
  <2> QED BY <1>a, <2>1, OwnMoves
\* Where a lane leads on from the label the request is at.
<1>b. /\ r.pc \in Own /\ r.pc \notin Looking => Lane(r.kind) = Common \cup Own
      /\ r.pc \in OfInstall => Lane(r.kind) = Common \cup OfInstall
      /\ r.pc \in OfHubInstall => Lane(r.kind) = Common \cup OfHubInstall
  <2>1. r.pc \in OfInstall \cup OfHubInstall => r.pc \notin Looking
    BY DEF OfInstall, OfHubInstall, Looking
  <2>2. r.pc \notin Looking => r.pc \in Lane(r.kind)
    BY DEF Framed, Place
  <2> QED BY <2>1, <2>2, Lanes
<1>c. OfInstall \cap Inner = {} /\ OfHubInstall \cap Inner = {}
  BY DEF OfInstall, OfHubInstall, Inner, OwnInner
<1>f. r.pc \in Fresh => r.todo = <<>>
  BY DEF Framed, Place, Fresh, Looking
\* An installation has nothing on its stack but the step a write goes on to.
<1>d. ASSUME NEW S \in {OfInstall, OfHubInstall}, r.pc \in S, NEW s, DOMAIN s = Fields, s.kind = r.kind,
             s.todo = r.todo, s.goal = r.goal, NEW l \in S, l \in Fresh => r.todo = <<>>,
             s.pc = l \/ (s.pc \in Looking /\ s.ret = l)
      PROVE  Framed(s)
  BY <1>0, <1>b, <1>c, <1>d, FramedAt DEF Shaped
<1>e. ASSUME NEW s, DOMAIN s = Fields, s.kind = r.kind, s.todo = r.todo, s.goal = r.goal
      PROVE  Shaped(s)
  BY <1>0, <1>e DEF Shaped
<1>1. CASE BeginUninstall(j)
  <2>1. r.pc = "uninstall"
    BY <1>1 DEF BeginUninstall, At
  <2>2. CASE q = Ended(r, "done")
    BY <1>0, <2>2, EndedFramed DEF Ends
  <2>3. CASE \E k : q = Lookup([r EXCEPT !.todo = <<"end">>], k, "drophub")
    <3>1. PICK k, s : s = [r EXCEPT !.todo = <<"end">>] /\ q = Lookup(s, k, "drophub")
      BY <2>3
    <3>2. DOMAIN s = Fields /\ s.kind = r.kind /\ s.todo = <<"end">> /\ s.goal = r.goal
      BY <1>0, <3>1 DEF Fields
    <3>3. Lane(r.kind) = Common \cup Own
      BY <1>b, <2>1 DEF Own, Begins, Looking
    <3>4. "drophub" \in Lane(s.kind) /\ "drophub" \notin Fresh /\ "end" \in Lane(s.kind) \cap After /\ "end" \in Outer
      BY <3>2, <3>3 DEF Own, OwnInner, Common, After, Outer, Fresh
    <3>5. Shaped(s)
      BY <1>0, <3>2, OnlyEnd
    <3>6. s.todo # <<>>
      BY <1>0, <3>2, OnlyEnd
    <3> QED BY <3>1, <3>4, <3>5, <3>6, LookupFramed
  <2> QED BY <1>1, <2>2, <2>3 DEF BeginUninstall, Goto
<1>2. CASE BeginRevoked(j)
  <2>1. r.pc \in OwnInner /\ "dropslack" \in OwnInner
    BY <1>2 DEF BeginRevoked, At, OwnInner
  <2>2. q = Return(r, TRUE) \/ q = [r EXCEPT !.pc = "dropslack"]
    BY <1>2 DEF BeginRevoked, Goto
  <2> QED BY <1>a, <2>1, <2>2, OwnReturns
<1>3. CASE DropHubSpot(j)
  <2>1. r.pc \in OwnInner /\ "dropslack" \in OwnInner /\ "hub" \in Inner /\ "dropslack" \in After \cap Inner
    BY <1>3 DEF DropHubSpot, At, OwnInner, Inner, After
  <2>2. q = [r EXCEPT !.pc = "dropslack"] \/ q = Call(r, "hub", "dropslack")
    BY <1>3 DEF DropHubSpot, Goto
  <2> QED BY <1>0, <1>a, <2>1, <2>2, OwnCalls
<1>4. CASE DropSlack(j)
  <2>1. r.pc \in OwnInner /\ "revoke" \in OwnInner
    BY <1>4 DEF DropSlack, At, OwnInner
  <2>2. \E k : q = Lookup(r, k, "revoke")
    BY <1>4 DEF DropSlack, Goto
  <2> QED BY <2>1, <2>2, OwnLooks
<1>5. CASE Revoke(j)
  <2>1. /\ r.pc \in OwnInner /\ "wipe" \in OwnInner /\ "appsuninstall" \in Inner /\ "slack" \in Inner
        /\ "wipeall" \in After \cap Inner
    BY <1>5 DEF Revoke, At, OwnInner, Inner, After
  <2>2. CASE q = Wipe(r)
    BY <1>a, <2>1, <2>2 DEF Wipe
  <2>3. CASE q = Call([r EXCEPT !.src = r.rec], "appsuninstall", "wipeall")
    <3>1. PICK s : s = [r EXCEPT !.src = r.rec] /\ q = Call(s, "appsuninstall", "wipeall")
      BY <2>3
    <3>2. DOMAIN s = Fields /\ s.kind = r.kind /\ s.todo = r.todo /\ s.goal = r.goal
      BY <1>0, <3>1 DEF Fields
    <3> QED BY <1>e, <2>1, <3>1, <3>2, OwnCalls
  <2>4. CASE q = UseSlack(r, r.rec, "appsuninstall", "wipeall")
    <3>1. PICK s : s = [r EXCEPT !.src = r.rec, !.goal = "appsuninstall"] /\ q = Call(s, "slack", "wipeall")
      BY <2>4 DEF UseSlack
    <3>2. DOMAIN s = Fields /\ s.kind = r.kind /\ s.todo = r.todo /\ s.goal = "appsuninstall"
      BY <1>0, <3>1 DEF Fields
    <3>3. Shaped(s)
      BY <1>0, <3>2 DEF Shaped
    <3> QED BY <2>1, <3>1, <3>2, <3>3, OwnCalls
  <2> QED BY <1>5, <2>2, <2>3, <2>4 DEF Revoke, Goto
<1>6. CASE AppsUninstall(j)
  <2>1. r.pc \in OwnInner /\ q = Return(r, TRUE)
    BY <1>6 DEF AppsUninstall, At, OwnInner, Goto
  <2> QED BY <2>1, OwnReturns
<1>7. CASE WipeAll(j)
  <2>1. r.pc \in OwnInner /\ "wipe" \in OwnInner /\ q = Wipe(r)
    BY <1>7 DEF WipeAll, At, OwnInner, Goto
  <2> QED BY <1>a, <2>1 DEF Wipe
<1>8. CASE WipeOne(j)
  <2>1. r.pc \in OwnInner /\ "deleting" \in OwnInner /\ "wipe" \in OwnInner /\ "wipe" \in After
    BY <1>8 DEF WipeOne, At, OwnInner, After
  <2>2. PICK s, k, x : s = [r EXCEPT !.left = x] /\ q = Delete(s, k, "wipe")
    BY <1>8 DEF WipeOne, Goto
  <2>3. DOMAIN s = Fields /\ s.kind = r.kind /\ s.todo = r.todo /\ s.goal = r.goal
    BY <1>0, <2>2 DEF Fields
  <2> QED BY <1>e, <2>1, <2>2, <2>3, DeleteFramed, OwnLane
<1>9. CASE WipeMappings(j)
  <2>1. r.pc \in OwnInner /\ q = Return(r, TRUE)
    BY <1>9 DEF WipeMappings, At, OwnInner, Goto
  <2> QED BY <2>1, OwnReturns
<1>10. CASE BeginUnhub(j)
  <2>1. r.pc = "unhub"
    BY <1>10 DEF BeginUnhub, At
  <2>2. PICK s : s = [r EXCEPT !.todo = <<"end">>] /\ q = Call(s, "hub", "delhub")
    BY <1>10 DEF BeginUnhub, Goto
  <2>3. DOMAIN s = Fields /\ s.kind = r.kind /\ s.todo = <<"end">> /\ s.goal = r.goal
    BY <1>0, <2>2 DEF Fields
  <2>4. Lane(r.kind) = Common \cup Own
    BY <1>b, <2>1 DEF Own, Begins, Looking
  <2>5. /\ "hub" \in Lane(s.kind) /\ "hub" \notin Fresh
        /\ "end" \in Lane(s.kind) \cap After /\ "end" \in Outer /\ "delhub" \in Lane(s.kind) \cap After /\ "delhub" \in Outer
    BY <2>3, <2>4 DEF Own, OwnInner, Common, After, Outer, Fresh
  <2>6. Shaped(s)
    BY <1>0, <2>3, OnlyEnd
  <2> QED BY <2>2, <2>5, <2>6, CallFramed
<1>11. CASE DeleteHub(j)
  <2>1. r.pc = "delhub"
    BY <1>11 DEF DeleteHub, At
  <2>2. \E k : q = Delete(r, k, "end")
    BY <1>11 DEF DeleteHub, Goto
  <2>3. Lane(r.kind) = Common \cup Own
    BY <1>b, <2>1 DEF Own, Looking
  <2>4. "deleting" \in Lane(r.kind) /\ "end" \in Lane(r.kind) \cap After /\ "end" \in Outer
    BY <2>3 DEF Own, OwnInner, Common, After, Outer
  <2> QED BY <1>0, <2>2, <2>4, DeleteFramed
<1>12. CASE BeginUnslack(j)
  <2>1. r.pc = "unslack"
    BY <1>12 DEF BeginUnslack, At
  <2>2. \E k : q = Lookup(r, k, "delslack")
    BY <1>12 DEF BeginUnslack, Goto
  <2>3. Lane(r.kind) = Common \cup Own
    BY <1>b, <2>1 DEF Own, Begins, Looking
  <2>4. "delslack" \in Lane(r.kind) /\ "delslack" \notin Inner /\ "delslack" \notin Fresh
    BY <2>3 DEF Own, OwnInner, Inner, Fresh
  <2> QED BY <1>0, <2>2, <2>4, LookupFramed
<1>13. CASE DeleteSlack(j)
  <2>1. r.pc = "delslack"
    BY <1>13 DEF DeleteSlack, At
  <2>2. PICK s, k : s = [r EXCEPT !.src = r.rec] /\ q = Delete(s, k, "dropclients")
    BY <1>13 DEF DeleteSlack, Goto
  <2>3. DOMAIN s = Fields /\ s.kind = r.kind /\ s.todo = r.todo /\ s.goal = r.goal
    BY <1>0, <2>2 DEF Fields
  <2>4. Lane(r.kind) = Common \cup Own
    BY <1>b, <2>1 DEF Own, Looking
  <2>5. "deleting" \in Lane(s.kind) /\ "dropclients" \in Lane(s.kind) \cap After /\ "dropclients" \in Outer
    BY <2>3, <2>4 DEF Own, OwnInner, Common, After, Outer
  <2> QED BY <1>e, <2>2, <2>3, <2>5, DeleteFramed
<1>14. CASE DropClients(j) \/ Conflict(j)
  <2>1. PICK l \in Ends : q = Ended(r, l)
    BY <1>14 DEF DropClients, Conflict, Goto, Ends
  <2> QED BY <1>0, <2>1, EndedFramed
<1>15. CASE BeginInstall(j)
  <2>1. r.pc = "install"
    BY <1>15 DEF BeginInstall, At
  <2>2. PICK s, k, x, ws : s = [r EXCEPT !.got = x, !.ws = ws] /\ q = Lookup(s, k, "register")
    BY <1>15 DEF BeginInstall, Goto
  <2>3. DOMAIN s = Fields /\ s.kind = r.kind /\ s.todo = r.todo /\ s.goal = r.goal
    BY <1>0, <2>2 DEF Fields
  <2>4. r.todo = <<>>
    BY <1>f, <2>1 DEF Fresh
  <2>5. "register" \in Lane(s.kind) /\ "register" \notin Inner
    BY <1>b, <2>1, <2>3 DEF OfInstall, Inner, OwnInner
  <2> QED BY <1>e, <2>2, <2>3, <2>4, <2>5, LookupFramed
<1>16. CASE Register(j)
  <2>1. r.pc \in OfInstall /\ r.pc \in Fresh /\ "merge" \in OfInstall /\ "save" \in OfInstall
    BY <1>16 DEF Register, At, OfInstall, Fresh
  <2>2. \/ \E x, y : q = [r EXCEPT !.old = x, !.pc = "merge", !.left = y]
        \/ \E x, y : q = [r EXCEPT !.old = x, !.pc = "save", !.ws = y]
    BY <1>16 DEF Register, Goto
  <2>3. DOMAIN q = Fields /\ q.kind = r.kind /\ q.todo = r.todo /\ q.goal = r.goal /\ q.pc \in {"merge", "save"}
    BY <1>0, <2>2 DEF Fields
  <2> QED BY <1>d, <1>f, <2>1, <2>3
<1>17. CASE Merge(j)
  <2>1. r.pc \in OfInstall /\ "move" \in OfInstall /\ "move" \notin Fresh
    BY <1>17 DEF Merge, At, OfInstall, Fresh
  <2>2. PICK s, k, x, y : s = [r EXCEPT !.new = x, !.left = y] /\ q = Lookup(s, k, "move")
    BY <1>17 DEF Merge, Goto
  <2>3. DOMAIN s = Fields /\ s.kind = r.kind /\ s.todo = r.todo /\ s.goal = r.goal
    BY <1>0, <2>2 DEF Fields
  <2> QED BY <1>b, <1>c, <1>e, <1>f, <2>1, <2>2, <2>3, LookupFramed
<1>18. CASE Move(j) \/ Save(j)
  <2>1. r.pc \in OfInstall
    BY <1>18 DEF Move, Save, At, OfInstall
  <2>2. \E x : \E a \in {"merge", "end"} : q = Upsert(r, x, a)
    BY <1>18 DEF Move, Save, Goto
  <2>3. \A a \in {"merge", "end"} : a \in Lane(r.kind) \cap After /\ a \in Outer
    BY <1>b, <2>1 DEF OfInstall, Common, After, Outer
  <2> QED BY <1>0, <2>2, <2>3, UpsertFramed
<1>19. CASE Merged(j)
  <2>1. r.pc \in OfInstall /\ "save" \in OfInstall /\ "save" \notin Fresh
    BY <1>19 DEF Merged, At, OfInstall, Fresh
  <2>2. \E x : q = [r EXCEPT !.pc = "save", !.ws = x]
    BY <1>19 DEF Merged, Goto
  <2>3. DOMAIN q = Fields /\ q.kind = r.kind /\ q.todo = r.todo /\ q.goal = r.goal /\ q.pc = "save"
    BY <1>0, <2>2 DEF Fields
  <2> QED BY <1>d, <1>f, <2>1, <2>3
<1>20. CASE BeginHubInstall(j)
  <2>1. r.pc \in OfHubInstall /\ "reuse" \in OfHubInstall /\ r.pc \in Fresh
    BY <1>20 DEF BeginHubInstall, At, OfHubInstall, Fresh
  <2>2. PICK z, s : s = [r EXCEPT !.tok = z] /\ Reuses(q, s)
    BY <1>20, HubInstallBegins
  <2>3. DOMAIN s = Fields /\ s.kind = r.kind /\ s.todo = r.todo /\ s.goal = r.goal
    BY <1>0, <2>2 DEF Fields
  <2>4. CASE \E y : q = [s EXCEPT !.pc = "reuse", !.rec = y]
    <3>1. DOMAIN q = Fields /\ q.kind = r.kind /\ q.todo = r.todo /\ q.goal = r.goal /\ q.pc = "reuse"
      BY <2>3, <2>4 DEF Fields
    <3> QED BY <1>d, <1>f, <2>1, <3>1
  <2>5. CASE \E k : q = Lookup(s, k, "reuse")
    BY <1>b, <1>c, <1>e, <1>f, <2>1, <2>5, <2>3, LookupFramed
  <2> QED BY <2>2, <2>4, <2>5 DEF Reuses
<1>21. CASE Reuse(j)
  <2>1. r.pc \in OfHubInstall /\ "isolate" \in OfHubInstall /\ "savehub" \in OfHubInstall /\ "heal" \in OfHubInstall /\ r.pc \in Fresh
    BY <1>21 DEF Reuse, At, OfHubInstall, Fresh
  <2>2. PICK s : /\ s = [r EXCEPT !.old = r.rec]
                 /\ (\E l \in {"isolate", "savehub"} : q = [s EXCEPT !.pc = l]) \/ \E k : q = Lookup(s, k, "heal")
    BY <1>21 DEF Reuse, Goto
  <2>3. DOMAIN s = Fields /\ s.kind = r.kind /\ s.todo = r.todo /\ s.goal = r.goal
    BY <1>0, <2>2 DEF Fields
  <2>4. CASE \E l \in {"isolate", "savehub"} : q = [s EXCEPT !.pc = l]
    <3>1. DOMAIN q = Fields /\ q.kind = r.kind /\ q.todo = r.todo /\ q.goal = r.goal /\ q.pc \in {"isolate", "savehub"}
      BY <2>3, <2>4 DEF Fields
    <3> QED BY <1>d, <1>f, <2>1, <3>1
  <2>5. CASE \E k : q = Lookup(s, k, "heal")
    BY <1>b, <1>c, <1>e, <1>f, <2>1, <2>5, <2>3, LookupFramed
  <2> QED BY <2>2, <2>4, <2>5
<1>22. CASE Heal(j) \/ Isolate(j) \/ Share(j)
  <2>1. r.pc \in OfHubInstall /\ "savehub" \in OfHubInstall /\ "share" \in OfHubInstall /\ r.pc \in Fresh
    BY <1>22 DEF Heal, Isolate, Share, At, OfHubInstall, Fresh
  <2>2. CASE \E x : q = [r EXCEPT !.old = x, !.pc = "savehub"] \/ q = [r EXCEPT !.pc = "savehub"]
    <3>1. DOMAIN q = Fields /\ q.kind = r.kind /\ q.todo = r.todo /\ q.goal = r.goal /\ q.pc = "savehub"
      BY <1>0, <2>2 DEF Fields
    <3> QED BY <1>d, <1>f, <2>1, <3>1
  <2>3. CASE \E x, y : q = Upsert([r EXCEPT !.old = x], y, "savehub")
    <3>1. PICK s, x, y : s = [r EXCEPT !.old = x] /\ q = Upsert(s, y, "savehub")
      BY <2>3
    <3>2. DOMAIN s = Fields /\ s.kind = r.kind /\ s.todo = r.todo /\ s.goal = r.goal
      BY <1>0, <3>1 DEF Fields
    <3>3. "savehub" \in Lane(s.kind) \cap After /\ "savehub" \in Outer
      BY <1>b, <2>1, <3>2 DEF After, Outer
    <3> QED BY <1>e, <3>1, <3>2, <3>3, UpsertFramed
  <2>4. CASE \E k : q = Lookup(r, k, "share")
    BY <1>0, <1>b, <1>c, <1>f, <2>1, <2>4, LookupFramed
  <2>5. CASE Heal(j)
    BY <2>2, <2>3, <2>5 DEF Heal, Goto
  <2>6. CASE Isolate(j)
    BY <2>2, <2>4, <2>6 DEF Isolate, Goto
  <2>7. CASE Share(j)
    <3>1. PICK s, x : s = [r EXCEPT !.old = x] /\ (q = [s EXCEPT !.pc = "savehub"] \/ \E y : q = Upsert(s, y, "savehub"))
      BY <2>7 DEF Share, Goto
    <3>2. CASE q = [s EXCEPT !.pc = "savehub"]
      BY <2>2, <3>1, <3>2
    <3> QED BY <2>3, <3>1, <3>2
  <2> QED BY <1>22, <2>5, <2>6, <2>7
<1>23. CASE SaveHub(j)
  <2>1. r.pc \in OfHubInstall /\ "writehub" \in OfHubInstall /\ "writehub" \notin Fresh
    BY <1>23 DEF SaveHub, At, OfHubInstall, Fresh
  <2>2. \E k : q = Lookup(r, k, "writehub")
    BY <1>23 DEF SaveHub, Goto
  <2> QED BY <1>0, <1>b, <1>c, <1>f, <2>1, <2>2, LookupFramed
<1>24. CASE WriteHub(j)
  <2>1. "end" \in Lane(r.kind) \cap After /\ "end" \in Outer
    BY DEF Lane, Common, After, Outer
  <2>2. \E x : q = Upsert(r, x, "end")
    BY <1>24 DEF WriteHub, Goto
  <2> QED BY <1>0, <2>1, <2>2, UpsertFramed
<1> QED BY <1>1, <1>2, <1>3, <1>4, <1>5, <1>6, <1>7, <1>8, <1>9, <1>10, <1>11, <1>12, <1>13, <1>14, <1>15,
           <1>16, <1>17, <1>18, <1>19, <1>20, <1>21, <1>22, <1>23, <1>24 DEF LifeStep

----------------------------------------------------------------------------
(* Data: what rows, clients and the locals of requests are, and what a     *)
(* request must have in hand at a label.  b bounds the tokens that have    *)
(* been issued, m the clients of Slack, A are the jobs whose HubSpot       *)
(* client is made, and v the tokens HubSpot has revoked.                   *)
Limit(b) == b.all \in Nat /\ b.hub \in Nat /\ b.hub <= b.all
Up(b, c) == b.all <= c.all /\ b.hub <= c.hub
Spaces == {"T", "W"}
Names == {""} \cup Spaces
Provs == {"slack", "hubspot"}
RowFields == {"id", "ws", "prov", "n", "link"}
IsRow(x, b) == /\ DOMAIN x = RowFields /\ x.ws \in Names /\ x.prov \in {""} \cup Provs /\ x.link \in Names
               /\ x.n \in 0..b.all /\ (x.prov = "hubspot" => x.n \in 1..b.hub)
Real(x, b) == IsRow(x, b) /\ x.ws # "" /\ x.prov # ""
Maybe(x, b) == x = NoRow \/ Real(x, b)
Fits(x, k) == x = NoRow \/ (x.prov = k[2] /\ (x.ws = k[1] \/ k = <<"T", "hubspot">>))

SlackIn == {"check", "rotate", "relook", "refresh", "answer", "lost", "redirect", "persist", "call"}
HubIn == {"proactive", "early", "send", "sent", "late", "hubrefresh", "hubanswer", "hubpersist", "refreshed"}
Drops == {"uninstall", "revoked", "drophub", "dropslack", "revoke", "appsuninstall", "wipeall", "wipe"}

Meets(r, l, A, v) ==
  /\ l \in {"merge", "move", "savehub", "writehub", "heal"} => r.old.ws # ""
  /\ l = "hubpersist" \/ (r.kind = "installhub" /\ l \notin {"installhub"} \cup Ends) => r.tok >= 1
  /\ l \in {"writing", "move"} => r.new # NoRow
  /\ l \in {"slack", "pivot", "bind"} => r.src # NoRow
  /\ l \in SlackIn => r.cl >= 1
  /\ l \in HubIn => r.hc \in A
  /\ l \in Drops => r.kind = "uninstall" \/ v >= 1
  /\ l = "slackcall" => r.prov # ""

Typed(r, b, m, v) ==
  /\ r.p \in Processes /\ r.ws \in Spaces /\ r.uws \in Spaces /\ r.state \in Names /\ r.prov \in {""} \cup Provs
  /\ r.hc \in Jobs /\ r.cl \in 0..m /\ r.got \in 0..b.all /\ r.tok \in 0..b.hub
  /\ Maybe(r.rec, b) /\ Maybe(r.new, b) /\ Maybe(r.src, b) /\ IsRow(r.old, b)
  /\ IF r.kind = "install" THEN \A x \in r.left : Real(x, b) ELSE r.left \subseteq Provs
  /\ r.goal = "appsuninstall" => r.kind = "uninstall" \/ v >= 1

\* The record a lookup is about, or has found.
Looked(r) ==
  IF r.pc \in Looking
  THEN /\ r.key \in Keys /\ r.ret # "bind" /\ (r.pc = "storing" => Fits(r.rec, r.key))
       /\ r.ret \in {"client", "hubpersist"} => r.key[2] = "hubspot"
       /\ r.ret \in {"redirect", "persist"} => r.key[2] = "slack"
  ELSE /\ r.pc \in {"client", "hubpersist"} => r.rec.prov # "slack"
       /\ r.pc \in {"redirect", "persist"} => r.rec.prov # "hubspot"
       /\ r.pc = "bind" => r.rec # NoRow

\* The data of a request that may go anywhere its stack leads, and of one
\* that is somewhere.
Sane(r, b, m, A, v) == Typed(r, b, m, v) /\ r.todo \in Seq({l \in After : Meets(r, l, A, v)})
Placed(r, A, v) == Looked(r) /\ Meets(r, Place(r), A, v)
Good(r, b, m, A, v) == Framed(r) /\ Sane(r, b, m, A, v) /\ Placed(r, A, v)

RowsTyped(b) == \A x \in rows : Real(x, b)
CacheTyped(b) == /\ DOMAIN cache = Processes
                 /\ \A p \in Processes : /\ DOMAIN cache[p] = Keys
                                         /\ \A k \in Keys : Maybe(cache[p][k], b) /\ Fits(cache[p][k], k)
ClientsTyped(b) == client \in Seq([n : 0..b.all, rt : 0..b.all, ws : Spaces, link : Names])
HandlesTyped == DOMAIN handle = Processes /\ \A p \in Processes : \A h \in handle[p] : h.c \in 1..Len(client)
HubsTyped(b) == /\ hclient \in [Jobs -> [n : 0..b.hub, ws : Names, cool : BOOLEAN, by : Jobs \cup {""}]]
                /\ \A i \in Jobs : hclient[i].n >= 1 => hclient[i].ws # ""
SlackTyped == /\ slack \in [gen : Nat, void : Nat, due : Nat, dead : Nat]
              /\ slack.dead <= slack.due /\ slack.due <= slack.gen /\ slack.void <= slack.gen
HubTyped == /\ hub \in [gen : Nat, void : Nat, due : Nat, dead : Nat]
            /\ hub.dead <= hub.due /\ hub.due <= hub.gen /\ hub.void <= hub.gen
SpacesTyped == homes \subseteq Spaces /\ portal \in Names

Bound == [all |-> slack.gen + hub.gen, hub |-> hub.gen]
Made == {i \in Jobs : hclient[i].n >= 1}
Sound == /\ DOMAIN job = Jobs /\ SlackTyped /\ HubTyped /\ SpacesTyped
         /\ RowsTyped(Bound) /\ CacheTyped(Bound) /\ ClientsTyped(Bound) /\ HandlesTyped /\ HubsTyped(Bound)
         /\ \A j \in Jobs : Good(job[j], Bound, Len(client), Made, hub.void)

\* Two requests that differ only in where they are and what they look up.
Alike(q, r) == /\ q.kind = r.kind /\ q.p = r.p /\ q.ws = r.ws /\ q.uws = r.uws /\ q.state = r.state
               /\ q.prov = r.prov /\ q.hc = r.hc /\ q.cl = r.cl /\ q.got = r.got /\ q.tok = r.tok
               /\ q.src = r.src /\ q.old = r.old /\ q.left = r.left /\ q.goal = r.goal

\* A sequence over a set is one over a larger set.
LEMMA Grows == ASSUME NEW S, NEW T, S \subseteq T, NEW s \in Seq(S) PROVE s \in Seq(T)
  OBVIOUS

\* Alike requests may go to the same places.
LEMMA AlikeSane ==
  ASSUME NEW b, NEW m, NEW A, NEW v, NEW r, Sane(r, b, m, A, v), NEW q, Alike(q, r),
         Maybe(q.rec, b), Maybe(q.new, b), q.todo \in Seq({l \in After : Meets(r, l, A, v)})
  PROVE  Sane(q, b, m, A, v)
<1>1. Typed(q, b, m, v)
  BY DEF Sane, Typed, Alike
<1>2. ASSUME NEW l \in After, Meets(r, l, A, v) PROVE Meets(q, l, A, v)
  <2>1. l \notin {"writing", "move"}
    BY DEF After, Outer
  <2> QED BY <1>2, <2>1 DEF Meets, Alike
<1>3. q.todo \in Seq({l \in After : Meets(q, l, A, v)})
  <2> DEFINE S == {l \in After : Meets(r, l, A, v)}
  <2> DEFINE T == {l \in After : Meets(q, l, A, v)}
  <2>1. S \subseteq T
    BY <1>2
  <2> HIDE DEF S, T
  <2>2. q.todo \in Seq(S)
    BY DEF S
  <2>3. q.todo \in Seq(T)
    BY <2>1, <2>2, Grows
  <2> QED BY <2>3 DEF T
<1> QED BY <1>1, <1>3 DEF Sane

\* Alike requests meet what a label needs, or neither does.
LEMMA AlikeMeets ==
  ASSUME NEW A, NEW v, NEW r, NEW q, Alike(q, r), q.new = r.new, NEW l, Meets(r, l, A, v)
  PROVE  Meets(q, l, A, v)
  BY DEF Meets, Alike

\* What a lookup changes: it finds the record cached, or goes to read it.
LEMMA LookupData ==
  ASSUME NEW r, DOMAIN r = Fields, NEW k, NEW l, NEW q, q = Lookup(r, k, l)
  PROVE  /\ Alike(q, r) /\ q.todo = r.todo /\ q.new = r.new /\ q.key = k
         /\ \/ q.pc = l /\ q.rec = cache[r.p][k] /\ q.rec # NoRow
            \/ q.pc = "reading" /\ q.ret = l /\ q.rec = r.rec
<1>1. CASE cache[r.p][k] # NoRow
  <2>1. q = [r EXCEPT !.key = k, !.rec = cache[r.p][k], !.pc = l]
    BY <1>1 DEF Lookup
  <2> QED BY <1>1, <2>1 DEF Fields, Alike
<1>2. CASE cache[r.p][k] = NoRow
  <2>1. q = [r EXCEPT !.key = k, !.ret = l, !.pc = "reading"]
    BY <1>2 DEF Lookup
  <2> QED BY <2>1 DEF Fields, Alike
<1> QED BY <1>1, <1>2

\* A lookup that has what its label needs keeps what a request has in hand.
LEMMA LookupGood ==
  ASSUME NEW b, NEW m, NEW A, NEW v, NEW r, DOMAIN r = Fields, Sane(r, b, m, A, v), CacheTyped(b),
         NEW k \in Keys, NEW l, Meets(r, l, A, v), l \notin Looking, l # "bind",
         l \in {"client", "hubpersist"} => k[2] = "hubspot", l \in {"redirect", "persist"} => k[2] = "slack",
         NEW q, q = Lookup(r, k, l)
  PROVE  Sane(q, b, m, A, v) /\ Placed(q, A, v)
<1>1. /\ Alike(q, r) /\ q.todo = r.todo /\ q.new = r.new /\ q.key = k
      /\ \/ q.pc = l /\ q.rec = cache[r.p][k] /\ q.rec # NoRow
         \/ q.pc = "reading" /\ q.ret = l /\ q.rec = r.rec
  BY LookupData
<1>2. Maybe(cache[r.p][k], b) /\ Fits(cache[r.p][k], k)
  BY DEF Sane, Typed, CacheTyped
<1>3. Sane(q, b, m, A, v)
  <2>1. Maybe(q.rec, b) /\ Maybe(q.new, b)
    BY <1>1, <1>2 DEF Sane, Typed
  <2>2. q.todo \in Seq({x \in After : Meets(r, x, A, v)})
    BY <1>1 DEF Sane
  <2> QED BY <1>1, <2>1, <2>2, AlikeSane
<1>4. Place(q) = l
  BY <1>1 DEF Place, Looking
<1>5. Meets(q, l, A, v)
  BY <1>1, AlikeMeets
<1>6. Looked(q)
  <2>1. CASE q.pc = "reading"
    <3>1. q.ret = l
      BY <1>1, <2>1 DEF Looking
    <3> QED BY <1>1, <2>1, <3>1 DEF Looked, Looking
  <2>2. CASE q.pc = l /\ q.rec = cache[r.p][k] /\ q.rec # NoRow
    <3>1. q.rec.prov = k[2]
      BY <1>2, <2>2 DEF Fits
    <3> QED BY <2>2, <3>1 DEF Looked
  <2> QED BY <1>1, <2>1, <2>2
<1> QED BY <1>3, <1>4, <1>5, <1>6 DEF Placed

\* A return does, to a label whose needs were met by the call.
LEMMA ReturnGood ==
  ASSUME NEW b, NEW m, NEW A, NEW v, NEW r, DOMAIN r = Fields, Sane(r, b, m, A, v), r.todo # <<>>,
         NEW ok, NEW q, q = Return(r, ok)
  PROVE  Sane(q, b, m, A, v) /\ Placed(q, A, v)
<1> DEFINE S == {l \in After : Meets(r, l, A, v)}
<1>1. /\ Alike(q, r) /\ q.todo = Tail(r.todo) /\ q.pc = Head(r.todo) /\ q.rec = NoRow /\ q.new = NoRow
  BY DEF Return, Fields, Alike
<1>2. r.todo \in Seq(S)
  BY DEF Sane
<1> HIDE DEF S
<1>3. q.pc \in S /\ q.todo \in Seq(S)
  BY <1>1, <1>2
<1> USE DEF S
<1>4. Sane(q, b, m, A, v)
  BY <1>1, <1>3, AlikeSane DEF Maybe
<1>5. q.pc \notin Looking /\ q.pc \notin {"client", "hubpersist", "redirect", "persist", "bind", "writing", "move"}
  BY <1>3 DEF After, Outer, Looking
<1>6. Looked(q)
  BY <1>5 DEF Looked
<1>7. Meets(r, q.pc, A, v)
  BY <1>3
<1>8. Meets(q, q.pc, A, v)
  BY <1>1, <1>5, <1>7 DEF Meets, Alike
<1>9. Place(q) = q.pc
  BY <1>5 DEF Place
<1> QED BY <1>4, <1>6, <1>8, <1>9 DEF Placed

\* A call does.
LEMMA CallGood ==
  ASSUME NEW b, NEW m, NEW A, NEW v, NEW r, DOMAIN r = Fields, Sane(r, b, m, A, v),
         NEW a \in After, Meets(r, a, A, v), NEW l \in {"hub", "revoked", "slack", "appsuninstall", "writing"},
         Meets(r, l, A, v), NEW q, q = Call(r, l, a)
  PROVE  Sane(q, b, m, A, v) /\ Placed(q, A, v)
<1> DEFINE S == {x \in After : Meets(r, x, A, v)}
<1>1. Alike(q, r) /\ q.todo = <<a>> \o r.todo /\ q.pc = l /\ q.rec = r.rec /\ q.new = r.new
  BY DEF Call, Fields, Alike
<1>2. r.todo \in Seq(S) /\ a \in S
  BY DEF Sane
<1> HIDE DEF S
<1>3. q.todo \in Seq(S)
  BY <1>1, <1>2
<1> USE DEF S
<1>4. Sane(q, b, m, A, v)
  <2>1. Maybe(q.rec, b) /\ Maybe(q.new, b)
    BY <1>1 DEF Sane, Typed
  <2> QED BY <1>1, <1>3, <2>1, AlikeSane
<1>5. Looked(q) /\ Place(q) = l
  BY <1>1 DEF Looked, Place, Looking
<1>6. Meets(q, l, A, v)
  BY <1>1, AlikeMeets
<1> QED BY <1>4, <1>5, <1>6 DEF Placed

\* A step that changes nothing of what a request has in hand.
LEMMA GoesGood ==
  ASSUME NEW b, NEW m, NEW A, NEW v, NEW r, Sane(r, b, m, A, v),
         NEW q, Alike(q, r), q.todo = r.todo, q.new = r.new, Maybe(q.rec, b), Meets(r, q.pc, A, v),
         q.pc \notin Looking, q.pc \in {"client", "hubpersist", "redirect", "persist", "bind"} => Looked(q)
  PROVE  Sane(q, b, m, A, v) /\ Placed(q, A, v)
<1>1. Maybe(q.new, b) /\ q.todo \in Seq({l \in After : Meets(r, l, A, v)})
  BY DEF Sane, Typed
<1>2. Sane(q, b, m, A, v)
  BY <1>1, AlikeSane
<1>3. Looked(q) /\ Place(q) = q.pc
  BY DEF Looked, Place
<1>4. Meets(q, q.pc, A, v)
  BY AlikeMeets
<1> QED BY <1>2, <1>3, <1>4 DEF Placed

\* No token at all is within any bound.
LEMMA Zero == ASSUME NEW b, Limit(b) PROVE 0 \in 0..b.all /\ 0 \in 0..b.hub
  BY DEF Limit

\* A HubSpot token that is there is one of those that were issued.
LEMMA Issued ==
  ASSUME NEW b, Limit(b), NEW n
  PROVE  /\ n \in 1..b.hub => n \in 0..b.hub /\ n \in Nat /\ n >= 1
         /\ n \in 0..b.hub /\ n >= 1 => n \in 1..b.hub /\ n \in 0..b.all
  BY DEF Limit

\* The record of a portal holds a token.
LEMMA HubRecord ==
  ASSUME NEW b, Limit(b), NEW x, Real(x, b), x.prov # "slack"
  PROVE  x.n \in 1..b.hub /\ x.n \in 0..b.hub /\ x.n \in Nat /\ x.n >= 1
<1>1. x.n \in 1..b.hub
  BY DEF Real, IsRow, Provs
<1> QED BY <1>1, Issued

\* A request that ends has nothing in hand.
LEMMA EndedGood ==
  ASSUME NEW b, Limit(b), NEW m \in Nat, NEW A, NEW v, NEW r, DOMAIN r = Fields, Typed(r, b, m, v),
         NEW l \in Ends, NEW q, q = Ended(r, l)
  PROVE  Sane(q, b, m, A, v) /\ Placed(q, A, v)
<1>1. /\ q.kind = r.kind /\ q.p = r.p /\ q.ws = r.ws /\ q.prov = r.prov /\ q.state = r.state /\ q.hc = r.hc
      /\ q.pc = l /\ q.todo = <<>> /\ q.rec = NoRow /\ q.new = NoRow /\ q.src = NoRow /\ q.cl = 0 /\ q.got = 0
      /\ q.goal = "" /\ q.tok = 0 /\ q.uws = r.ws /\ q.old = NoRow /\ q.left = {}
  BY DEF Ended, Started, Fields
<1>2. IsRow(NoRow, b)
  BY Zero DEF IsRow, NoRow, RowFields, Names
<1>3. Typed(q, b, m, v)
  <2>0. 0 \in 0..m /\ 0 \in 0..b.all /\ 0 \in 0..b.hub
    BY DEF Limit
  <2>1. q.cl \in 0..m /\ q.got \in 0..b.all /\ q.tok \in 0..b.hub
    BY <1>1, <2>0
  <2>2. IF q.kind = "install" THEN \A x \in q.left : Real(x, b) ELSE q.left \subseteq Provs
    BY <1>1
  <2> QED BY <1>1, <1>2, <2>1, <2>2 DEF Typed, Maybe
<1>4. q.todo \in Seq({x \in After : Meets(q, x, A, v)})
  <2> DEFINE S == {x \in After : Meets(q, x, A, v)}
  <2> HIDE DEF S
  <2>1. <<>> \in Seq(S)
    OBVIOUS
  <2> QED BY <1>1, <2>1 DEF S
<1>5. Looked(q) /\ Place(q) = l
  BY <1>1 DEF Looked, Place, Looking, Ends
<1>6. Meets(q, l, A, v)
  BY <1>1 DEF Meets, Ends, SlackIn, HubIn, Drops
<1> QED BY <1>3, <1>4, <1>5, <1>6 DEF Sane, Placed

\* Writing a real record keeps what a request has in hand,
LEMMA UpsertGood ==
  ASSUME NEW b, NEW m, NEW A, NEW v, NEW r, DOMAIN r = Fields, Sane(r, b, m, A, v),
         NEW a \in After, Meets(r, a, A, v), NEW x, Real(x, b), NEW q, q = Upsert(r, x, a)
  PROVE  Sane(q, b, m, A, v) /\ Placed(q, A, v)
<1>1. PICK s : s = [r EXCEPT !.new = x]
  OBVIOUS
<1>2. DOMAIN s = Fields /\ Alike(s, r) /\ s.todo = r.todo /\ s.new = x /\ s.rec = r.rec
  BY <1>1 DEF Fields, Alike
<1>3. q = Call(s, "writing", a)
  BY <1>1 DEF Upsert
<1>4. Sane(s, b, m, A, v)
  <2>1. Maybe(s.rec, b) /\ Maybe(s.new, b) /\ s.todo \in Seq({l \in After : Meets(r, l, A, v)})
    BY <1>2 DEF Sane, Typed, Maybe
  <2> QED BY <1>2, <2>1, AlikeSane
<1>5. x # NoRow
  <2>1. x.ws # "" /\ NoRow.ws = ""
    BY DEF Real, NoRow
  <2> QED BY <2>1
<1>6. Meets(s, a, A, v)
  BY <1>2, <1>5 DEF Meets, Alike
<1>7. Meets(s, "writing", A, v)
  BY <1>2, <1>5, <1>6 DEF Meets, SlackIn, HubIn, Drops, After, Outer, Ends
<1> QED BY <1>2, <1>3, <1>4, <1>6, <1>7, CallGood

\* and deleting records does.
LEMMA DeleteGood ==
  ASSUME NEW b, NEW m, NEW A, NEW v, NEW r, DOMAIN r = Fields, Sane(r, b, m, A, v), CacheTyped(b),
         NEW a \in After, Meets(r, a, A, v), NEW k \in Keys, NEW q, q = Delete(r, k, a)
  PROVE  Sane(q, b, m, A, v) /\ Placed(q, A, v)
<1> DEFINE S == {x \in After : Meets(r, x, A, v)}
<1>1. PICK s : s = [r EXCEPT !.todo = <<a>> \o @, !.ok = TRUE]
  OBVIOUS
<1>2. DOMAIN s = Fields /\ Alike(s, r) /\ s.todo = <<a>> \o r.todo /\ s.new = r.new /\ s.rec = r.rec
  BY <1>1 DEF Fields, Alike
<1>3. r.todo \in Seq(S) /\ a \in S
  BY DEF Sane
<1> HIDE DEF S
<1>4. s.todo \in Seq(S)
  BY <1>2, <1>3
<1> USE DEF S
<1>5. Sane(s, b, m, A, v)
  <2>1. Maybe(s.rec, b) /\ Maybe(s.new, b)
    BY <1>2 DEF Sane, Typed
  <2> QED BY <1>2, <1>4, <2>1, AlikeSane
<1>6. q = Lookup(s, k, "deleting")
  BY <1>1 DEF Delete
<1>7. Meets(r, "deleting", A, v)
  BY DEF Meets, SlackIn, HubIn, Drops, After, Outer, Ends
<1>8. Meets(s, "deleting", A, v)
  BY <1>2, <1>7, AlikeMeets
<1>9. "deleting" \notin Looking \cup {"bind", "client", "hubpersist", "redirect", "persist"}
  BY DEF Looking
<1> QED BY <1>2, <1>5, <1>6, <1>8, <1>9, LookupGood

\* What was good stays good while tokens are issued, clients are made and
\* HubSpot revokes.
LEMMA Widens == ASSUME NEW b, Limit(b), NEW c, Limit(c), Up(b, c), NEW n
  PROVE  (n \in 0..b.all => n \in 0..c.all) /\ (n \in 0..b.hub => n \in 0..c.hub) /\ (n \in 1..b.hub => n \in 1..c.hub)
  BY DEF Limit, Up

\* A row stays one when tokens are issued.
LEMMA RowGrows ==
  ASSUME NEW b, Limit(b), NEW c, Limit(c), Up(b, c), NEW x
  PROVE  (IsRow(x, b) => IsRow(x, c)) /\ (Real(x, b) => Real(x, c)) /\ (Maybe(x, b) => Maybe(x, c))
<1>1. (x.n \in 0..b.all => x.n \in 0..c.all) /\ (x.n \in 1..b.hub => x.n \in 1..c.hub)
  BY Widens
<1> QED BY <1>1 DEF Maybe, Real, IsRow

\* What a label needs stays met.
LEMMA MeetsGrows ==
  ASSUME NEW A, NEW B, A \subseteq B, NEW v \in Nat, NEW w \in Nat, v <= w, NEW r, NEW l, Meets(r, l, A, v)
  PROVE  Meets(r, l, B, w)
<1>1. v >= 1 => w >= 1
  OBVIOUS
<1> QED BY <1>1 DEF Meets

\* A good request stays good.
LEMMA GoodGrows ==
  ASSUME NEW b, Limit(b), NEW c, Limit(c), Up(b, c), NEW m \in Nat, NEW n \in Nat, m <= n, NEW A, NEW B, A \subseteq B,
         NEW v \in Nat, NEW w \in Nat, v <= w, NEW r, Good(r, b, m, A, v)
  PROVE  Good(r, c, n, B, w)
<1>1. Typed(r, c, n, w)
  <2>1. Maybe(r.rec, c) /\ Maybe(r.new, c) /\ Maybe(r.src, c)
    BY RowGrows DEF Good, Sane, Typed
  <2>2. IsRow(r.old, c) /\ \A x : Real(x, b) => Real(x, c)
    BY RowGrows DEF Good, Sane, Typed
  <2>3. r.cl \in 0..n /\ r.got \in 0..c.all /\ r.tok \in 0..c.hub
    <3>1. r.cl \in 0..m /\ r.got \in 0..b.all /\ r.tok \in 0..b.hub
      BY DEF Good, Sane, Typed
    <3>2. r.got \in 0..c.all /\ r.tok \in 0..c.hub
      BY <3>1, Widens
    <3> QED BY <3>1, <3>2
  <2>4. v >= 1 => w >= 1
    OBVIOUS
  <2> QED BY <2>1, <2>2, <2>3, <2>4 DEF Good, Sane, Typed
<1>2. Placed(r, B, w)
  BY MeetsGrows DEF Good, Placed
<1>3. r.todo \in Seq({l \in After : Meets(r, l, B, w)})
  <2> DEFINE S == {l \in After : Meets(r, l, A, v)}
  <2> DEFINE T == {l \in After : Meets(r, l, B, w)}
  <2>1. S \subseteq T
    BY MeetsGrows
  <2>2. r.todo \in Seq(S)
    BY DEF Good, Sane
  <2> HIDE DEF S, T
  <2>3. r.todo \in Seq(T)
    BY <2>1, <2>2, Grows
  <2> QED BY <2>3 DEF T
<1> QED BY <1>1, <1>2, <1>3 DEF Good, Sane

\* What a request may change without losing what its callers rely on.
Keeps(q, r) == /\ q.todo = r.todo /\ q.kind = r.kind /\ q.prov = r.prov /\ q.hc = r.hc
               /\ r.old.ws # "" => q.old.ws # ""
               /\ r.tok >= 1 => q.tok >= 1
               /\ r.src # NoRow => q.src # NoRow
               /\ r.cl >= 1 => q.cl >= 1

\* What is kept meets the needs of labels that need no new record,
LEMMA KeepsMeets ==
  ASSUME NEW A, NEW v, NEW r, NEW q, Keeps(q, r), NEW l, l \notin {"writing", "move"}, Meets(r, l, A, v)
  PROVE  Meets(q, l, A, v)
  BY DEF Meets, Keeps

\* so the stack can be followed.
LEMMA KeepsSane ==
  ASSUME NEW b, NEW m, NEW A, NEW v, NEW r, Sane(r, b, m, A, v), NEW q, Keeps(q, r), Typed(q, b, m, v)
  PROVE  Sane(q, b, m, A, v)
<1> DEFINE S == {l \in After : Meets(r, l, A, v)}
<1> DEFINE T == {l \in After : Meets(q, l, A, v)}
<1>1. S \subseteq T
  BY KeepsMeets DEF After, Outer
<1>2. r.todo \in Seq(S)
  BY DEF Sane
<1> HIDE DEF S, T
<1>3. q.todo \in Seq(T)
  BY <1>1, <1>2, Grows DEF Keeps
<1> USE DEF T
<1> QED BY <1>3 DEF Sane

\* An empty stack leads nowhere,
LEMMA EmptySane ==
  ASSUME NEW b, NEW m, NEW A, NEW v, NEW q, Typed(q, b, m, v), q.todo = <<>>
  PROVE  Sane(q, b, m, A, v)
<1> DEFINE S == {x \in After : Meets(q, x, A, v)}
<1> HIDE DEF S
<1>1. <<>> \in Seq(S)
  OBVIOUS
<1> USE DEF S
<1> QED BY <1>1 DEF Sane

\* a stack of one label to that label.
LEMMA SingleSane ==
  ASSUME NEW b, NEW m, NEW A, NEW v, NEW q, Typed(q, b, m, v), NEW l \in After, q.todo = <<l>>, Meets(q, l, A, v)
  PROVE  Sane(q, b, m, A, v)
<1> DEFINE S == {x \in After : Meets(q, x, A, v)}
<1>1. l \in S
  OBVIOUS
<1> HIDE DEF S
<1>2. <<l>> \in Seq(S)
  BY <1>1
<1> USE DEF S
<1> QED BY <1>2 DEF Sane

\* Arriving at a label whose needs are met.
LEMMA ArrivesGood ==
  ASSUME NEW b, NEW m, NEW A, NEW v, NEW q, Sane(q, b, m, A, v), q.pc \notin Looking, Meets(q, q.pc, A, v),
         q.pc \in {"client", "hubpersist", "redirect", "persist", "bind"} => Looked(q)
  PROVE  Sane(q, b, m, A, v) /\ Placed(q, A, v)
<1>1. Looked(q) /\ Place(q) = q.pc
  BY DEF Looked, Place
<1> QED BY <1>1 DEF Placed

\* At a label at which no record is being looked up.
LEMMA At1 ==
  ASSUME NEW A, NEW v, NEW r, Framed(r), Placed(r, A, v), r.pc \notin Looking
  PROVE  Place(r) = r.pc /\ Meets(r, r.pc, A, v) /\ r.pc \in Lane(r.kind) /\ DOMAIN r = Fields
         /\ (r.pc \in Inner => r.todo # <<>>) /\ (r.pc \in Fresh => r.todo = <<>>)
  BY DEF Framed, Placed, Place, Shaped

\* What a step on records leaves its request with.
LEMMA RecordGood ==
  ASSUME NEW j \in Jobs, DOMAIN job = Jobs, NEW r, r = job[j], NEW q, q = job'[j],
         NEW b, Limit(b), NEW m, NEW A, NEW v, Good(r, b, m, A, v), RowsTyped(b), CacheTyped(b), RecordStep(j)
  PROVE  Sane(q, b, m, A, v) /\ Placed(q, A, v)
<1>0. Framed(r) /\ Shaped(r) /\ DOMAIN r = Fields /\ Sane(r, b, m, A, v) /\ Placed(r, A, v)
      /\ Maybe(r.rec, b) /\ Maybe(r.new, b) /\ r.got \in 0..b.all
  BY DEF Good, Framed, Shaped, Sane, Typed
<1>1. CASE ReadRow(j)
  <2>1. PICK x \in Answers(r.key) : q = [r EXCEPT !.rec = x, !.pc = "storing"]
    BY <1>1 DEF ReadRow, Goto
  <2>2. r.pc = "reading" /\ r.key \in Keys /\ Looked(r) /\ Place(r) = r.ret
    BY <1>0, <1>1 DEF ReadRow, At, Placed, Looked, Looking, Place
  <2>3. x = NoRow \/ x \in rows
    BY DEF Answers, Matching, Bridged
  <2>4. Maybe(x, b)
    BY <2>3 DEF Maybe, RowsTyped
  <2>5. Fits(x, r.key)
    <3>1. CASE x \in Matching(r.key)
      BY <3>1 DEF Fits, Matching
    <3>2. CASE x \in Bridged(r.key)
      <4>1. r.key[2] = "hubspot" /\ r.key[1] # "W" /\ x.prov = "hubspot"
        BY <3>2 DEF Bridged
      <4>2. r.key = <<"T", "hubspot">>
        BY <2>2, <4>1 DEF Keys
      <4> QED BY <4>1, <4>2 DEF Fits
    <3>3. CASE x = NoRow
      BY <3>3 DEF Fits
    <3> QED BY <3>1, <3>2, <3>3 DEF Answers
  <2>6. Alike(q, r) /\ q.todo = r.todo /\ q.new = r.new /\ q.rec = x /\ q.pc = "storing" /\ q.key = r.key /\ q.ret = r.ret
    BY <1>0, <2>1 DEF Fields, Alike
  <2>7. Sane(q, b, m, A, v)
    <3>1. Maybe(q.new, b) /\ Maybe(q.rec, b) /\ q.todo \in Seq({l \in After : Meets(r, l, A, v)})
      BY <1>0, <2>4, <2>6 DEF Sane
    <3> QED BY <1>0, <2>6, <3>1, AlikeSane
  <2>8. Looked(q)
    BY <2>2, <2>5, <2>6 DEF Looked, Looking
  <2>9. Place(q) = r.ret
    BY <2>6 DEF Place, Looking
  <2>10. Meets(q, r.ret, A, v)
    BY <1>0, <2>2, <2>6, AlikeMeets DEF Placed
  <2> QED BY <2>7, <2>8, <2>9, <2>10 DEF Placed
<1>2. CASE StoreRecord(j)
  <2>1. q = [r EXCEPT !.pc = r.ret] /\ r.pc = "storing"
    BY <1>2 DEF StoreRecord, Goto, At
  <2>2. Looked(r) /\ Place(r) = r.ret /\ r.ret \in Lane(r.kind)
    BY <1>0, <2>1 DEF Placed, Looking, Place, Framed
  <2>3. Alike(q, r) /\ q.todo = r.todo /\ q.new = r.new /\ q.rec = r.rec /\ q.pc = r.ret
    BY <1>0, <2>1 DEF Fields, Alike
  <2>4. r.ret \notin Looking
    BY <2>2, Labels
  <2>5. Looked(q)
    <3>1. r.rec = NoRow \/ r.rec.prov = r.key[2]
      BY <2>1, <2>2 DEF Looked, Looking, Fits
    <3>2. NoRow.prov = ""
      BY DEF NoRow
    <3> QED BY <2>1, <2>2, <2>3, <2>4, <3>1, <3>2 DEF Looked, Looking
  <2>6. Meets(r, q.pc, A, v)
    BY <1>0, <2>2, <2>3 DEF Placed
  <2> QED BY <1>0, <2>3, <2>4, <2>5, <2>6, GoesGood
<1>3. CASE WriteRow(j)
  <2>1. PICK x, k : x = WithId(j, r.new) /\ q = [r EXCEPT !.pc = "forgetting", !.new = x, !.key = k]
    BY <1>3 DEF WriteRow, Goto
  <2>2. r.pc = "writing" /\ r.pc \notin Looking
    BY <1>3 DEF WriteRow, At, Looking
  <2>3. Meets(r, "writing", A, v)
    BY <1>0, <2>2, At1
  <2>4. Real(r.new, b)
    BY <1>0, <2>3 DEF Meets, Maybe
  <2>5. Real(x, b)
    BY <2>1, <2>4 DEF WithId, Real, IsRow, RowFields
  <2>6. /\ Alike(q, r) /\ q.todo = r.todo /\ q.new = x /\ q.rec = r.rec /\ q.pc = "forgetting"
    BY <1>0, <2>1 DEF Fields, Alike
  <2>7. Sane(q, b, m, A, v)
    <3>1. Maybe(q.new, b) /\ Maybe(q.rec, b) /\ q.todo \in Seq({l \in After : Meets(r, l, A, v)})
      BY <1>0, <2>5, <2>6 DEF Sane, Maybe
    <3> QED BY <1>0, <2>6, <3>1, AlikeSane
  <2>8. Meets(q, "forgetting", A, v)
    BY <2>3, <2>6 DEF Meets, Alike, SlackIn, HubIn, Drops, Ends
  <2> QED BY <2>6, <2>7, <2>8, ArrivesGood DEF Looking
<1>4. CASE WriteFails(j)
  <2>1. q = Return(r, FALSE) /\ r.pc \in {"writing", "deleting"}
    BY <1>4 DEF WriteFails, Goto
  <2>2. r.todo # <<>>
    BY <1>0, <2>1 DEF Framed, Place, Looking, Inner, OwnInner
  <2> QED BY <1>0, <2>1, <2>2, ReturnGood
<1>5. CASE DeleteRows(j)
  <2>1. q = [r EXCEPT !.pc = "forgetting"] /\ r.pc = "deleting" /\ r.pc \notin Looking
    BY <1>5 DEF DeleteRows, Goto, At, Looking
  <2>2. Alike(q, r) /\ q.todo = r.todo /\ q.new = r.new /\ q.rec = r.rec /\ q.pc = "forgetting"
    BY <1>0, <2>1 DEF Fields, Alike
  <2>3. Meets(r, "deleting", A, v)
    BY <1>0, <2>1, At1
  <2>4. Meets(r, "forgetting", A, v)
    BY <2>3 DEF Meets, SlackIn, HubIn, Drops, Ends
  <2> QED BY <1>0, <2>2, <2>4, GoesGood DEF Looking
<1>6. CASE Forget(j)
  <2>1. PICK s : s = Return(r, TRUE)
    OBVIOUS
  <2>2. PICK g \in {0, s.got} : q = [s EXCEPT !.got = g]
    <3>1. PICK g : /\ q = [Return(r, TRUE) EXCEPT !.got = g]
                   /\ g = IF r.new.prov = "slack" /\ r.new.n = Return(r, TRUE).got THEN 0 ELSE Return(r, TRUE).got
      BY <1>6 DEF Forget, Goto
    <3> QED BY <2>1, <3>1
  <2>3. r.todo # <<>>
    BY <1>0, <1>6 DEF Framed, Place, Looking, Inner, OwnInner, Forget, At
  <2>4. Sane(s, b, m, A, v) /\ Placed(s, A, v) /\ Framed(s)
    BY <1>0, <2>1, <2>3, ReturnGood, ReturnFramed
  <2>5. DOMAIN s = Fields /\ s.pc = Head(r.todo) /\ s.got = r.got
    BY <1>0, <2>1 DEF Return, Fields
  <2>6. g \in 0..b.all
    BY <1>0, <2>2, <2>5, Zero
  <2>7. /\ q.kind = s.kind /\ q.p = s.p /\ q.ws = s.ws /\ q.uws = s.uws /\ q.state = s.state
        /\ q.prov = s.prov /\ q.hc = s.hc /\ q.cl = s.cl /\ q.tok = s.tok /\ q.got = g
        /\ q.src = s.src /\ q.old = s.old /\ q.left = s.left /\ q.goal = s.goal /\ q.todo = s.todo
        /\ q.new = s.new /\ q.rec = s.rec /\ q.pc = s.pc /\ q.key = s.key /\ q.ret = s.ret
    BY <2>2, <2>5 DEF Fields
  <2>8. Typed(q, b, m, v)
    BY <2>4, <2>6, <2>7 DEF Sane, Typed
  <2>9. Sane(q, b, m, A, v)
    BY <2>4, <2>7, <2>8, KeepsSane DEF Keeps
  <2>10. Looked(q) /\ Place(q) = Place(s)
    BY <2>4, <2>7 DEF Placed, Looked, Place
  <2>11. Meets(q, Place(s), A, v)
    BY <2>4, <2>7 DEF Placed, Meets
  <2> QED BY <2>9, <2>10, <2>11 DEF Placed
<1> QED BY <1>1, <1>2, <1>3, <1>4, <1>5, <1>6 DEF RecordStep

(* The rows and the caches stay typed.                                     *)
LEMMA RecordStores ==
  ASSUME NEW j \in Jobs, DOMAIN job = Jobs, NEW b, Limit(b), NEW m, NEW A, NEW v, Good(job[j], b, m, A, v),
         RowsTyped(b), CacheTyped(b), RecordStep(j)
  PROVE  RowsTyped(b)' /\ CacheTyped(b)'
<1>1. PICK r : r = job[j]
  OBVIOUS
<1>2. Framed(r) /\ Placed(r, A, v) /\ r.p \in Processes /\ Maybe(r.rec, b) /\ Maybe(r.new, b)
  BY <1>1 DEF Good, Sane, Typed
<1>3. NoRow = NoRow /\ Maybe(NoRow, b) /\ \A k : Fits(NoRow, k)
  BY DEF Maybe, Fits
<1>4. CASE ReadRow(j)
  BY <1>4 DEF ReadRow, RowsTyped, CacheTyped
<1>5. CASE StoreRecord(j)
  <2>1. r.pc = "storing" /\ Looked(r) /\ r.pc \in Looking
    BY <1>1, <1>2, <1>5 DEF StoreRecord, At, Placed, Looking
  <2>2. r.key \in Keys /\ Fits(r.rec, r.key)
    BY <2>1 DEF Looked
  <2>3. rows' = rows /\ cache' = IF r.rec = NoRow THEN cache ELSE [cache EXCEPT ![r.p][r.key] = r.rec]
    BY <1>1, <1>5 DEF StoreRecord
  <2> QED BY <1>2, <2>2, <2>3 DEF RowsTyped, CacheTyped
<1>6. CASE WriteRow(j)
  <2>1. r.pc = "writing" /\ r.pc \notin Looking
    BY <1>1, <1>6 DEF WriteRow, At, Looking
  <2>2. Real(r.new, b)
    BY <1>2, <2>1, At1 DEF Meets, Maybe
  <2>3. PICK x : x = WithId(j, r.new)
    OBVIOUS
  <2>4. Real(x, b)
    BY <2>2, <2>3 DEF WithId, Real, IsRow, RowFields
  <2>5. rows' = {y \in rows : y.id # x.id} \union {x} /\ cache' = cache
    BY <1>1, <1>6, <2>3 DEF WriteRow
  <2> QED BY <2>4, <2>5 DEF RowsTyped, CacheTyped
<1>7. CASE WriteFails(j)
  BY <1>7 DEF WriteFails, RowsTyped, CacheTyped
<1>8. CASE DeleteRows(j)
  BY <1>8 DEF DeleteRows, RowsTyped, CacheTyped, Matching
<1>9. CASE Forget(j)
  <2>1. rows' = rows /\ cache' = [cache EXCEPT ![r.p][r.key] = NoRow]
    BY <1>1, <1>9 DEF Forget
  <2> QED BY <1>2, <1>3, <2>1 DEF RowsTyped, CacheTyped
<1> QED BY <1>4, <1>5, <1>6, <1>7, <1>8, <1>9 DEF RecordStep

\* The elements of a sequence over a set are in it.
LEMMA Elements == ASSUME NEW S, NEW s \in Seq(S) PROVE Len(s) \in Nat /\ \A i \in 1..Len(s) : s[i] \in S
  OBVIOUS

(* What a step of a client of Slack leaves its request with.               *)
LEMMA SlackGood ==
  ASSUME NEW j \in Jobs, DOMAIN job = Jobs, NEW r, r = job[j], NEW q, q = job'[j],
         NEW b, Limit(b), NEW A, NEW v, SlackTyped, slack'.gen \in 0..b.all, ClientsTyped(b), HandlesTyped,
         NEW m, m = Len(client'), Good(r, b, m, A, v), r.cl <= Len(client), CacheTyped(b), SlackStep(j)
  PROVE  Sane(q, b, m, A, v) /\ Placed(q, A, v)
<1>0. Framed(r) /\ DOMAIN r = Fields /\ Sane(r, b, m, A, v) /\ Placed(r, A, v) /\ Typed(r, b, m, v)
  BY DEF Good, Framed, Shaped, Sane
<1>t. /\ Maybe(r.rec, b) /\ Maybe(r.new, b) /\ Maybe(r.src, b) /\ r.got \in 0..b.all /\ r.ws \in Spaces /\ r.p \in Processes
      /\ r.prov \in {""} \cup Provs /\ NoRow.n = 0 /\ NoRow.prov = "" /\ NoRow.ws = "" /\ NoRow.link = ""
      /\ r.goal \in {"", "check", "appsuninstall"}
  BY <1>0 DEF Typed, NoRow, Framed, Shaped
\* The record of a client, in its lock or in its cache.
<1>k. \A x, y : x \in Spaces /\ y \in Provs => <<x, y>> \in Keys
  BY DEF Spaces, Provs, Keys
<1>c. ASSUME r.cl >= 1 PROVE client[r.cl] \in [n : 0..b.all, rt : 0..b.all, ws : Spaces, link : Names]
  <2> DEFINE C == [n : 0..b.all, rt : 0..b.all, ws : Spaces, link : Names]
  <2>1. client \in Seq(C)
    BY DEF ClientsTyped
  <2> HIDE DEF C
  <2>2. Len(client) \in Nat /\ \A i \in 1..Len(client) : client[i] \in C
    BY <2>1, Elements
  <2>3. r.cl \in 0..m
    BY <1>0 DEF Typed
  <2>4. r.cl \in 1..Len(client)
    BY <1>c, <2>2, <2>3
  <2>5. client[r.cl] \in C
    BY <2>2, <2>4
  <2> QED BY <2>5 DEF C
<1>a. ASSUME r.pc \in OwnInner, NEW l, Meets(r, l, A, v), l \notin Looking \cup {"client", "hubpersist", "redirect", "persist"},
             \/ q = [r EXCEPT !.pc = l] /\ l # "bind"
             \/ \E x : \/ q = [r EXCEPT !.rec = x, !.pc = l] /\ Maybe(x, b) /\ (l = "bind" => x # NoRow)
                       \/ q = [r EXCEPT !.spend = x, !.pc = l] /\ l # "bind"
                       \/ q = [r EXCEPT !.tries = x, !.pc = l] /\ l # "bind"
      PROVE  Sane(q, b, m, A, v) /\ Placed(q, A, v)
  <2>a. CASE q = [r EXCEPT !.pc = l] /\ l # "bind"
    <3>1. Alike(q, r) /\ q.todo = r.todo /\ q.new = r.new /\ q.pc = l /\ q.rec = r.rec
      BY <1>0, <2>a DEF Fields, Alike
    <3> QED BY <1>0, <1>a, <1>t, <2>a, <3>1, GoesGood
  <2>b. ASSUME NEW x, q = [r EXCEPT !.rec = x, !.pc = l], Maybe(x, b), l = "bind" => x # NoRow
        PROVE  Sane(q, b, m, A, v) /\ Placed(q, A, v)
    <3>1. Alike(q, r) /\ q.todo = r.todo /\ q.new = r.new /\ q.pc = l /\ q.rec = x
      BY <1>0, <2>b DEF Fields, Alike
    <3>2. l = "bind" => Looked(q)
      BY <2>b, <3>1 DEF Looked, Looking
    <3> QED BY <1>0, <1>a, <2>b, <3>1, <3>2, GoesGood
  <2>c. ASSUME NEW x, l # "bind", q = [r EXCEPT !.spend = x, !.pc = l]
        PROVE  Sane(q, b, m, A, v) /\ Placed(q, A, v)
    <3>1. Alike(q, r) /\ q.todo = r.todo /\ q.new = r.new /\ q.pc = l /\ q.rec = r.rec
      BY <1>0, <2>c DEF Fields, Alike
    <3> QED BY <1>0, <1>a, <1>t, <2>c, <3>1, GoesGood
  <2>d. ASSUME NEW x, l # "bind", q = [r EXCEPT !.tries = x, !.pc = l]
        PROVE  Sane(q, b, m, A, v) /\ Placed(q, A, v)
    <3>1. Alike(q, r) /\ q.todo = r.todo /\ q.new = r.new /\ q.pc = l /\ q.rec = r.rec
      BY <1>0, <2>d DEF Fields, Alike
    <3> QED BY <1>0, <1>a, <1>t, <2>d, <3>1, GoesGood
  <2> QED BY <1>a, <2>a, <2>b, <2>c, <2>d
\* The step takes, or drops, a pair of tokens.
<1>g. ASSUME r.pc \in OwnInner, NEW l, Meets(r, l, A, v), NEW g \in 0..b.all, q = [r EXCEPT !.got = g, !.pc = l],
             l \notin Looking \cup {"client", "hubpersist", "redirect", "persist", "bind", "writing", "move"}
      PROVE  Sane(q, b, m, A, v) /\ Placed(q, A, v)
  <2>1. /\ q.kind = r.kind /\ q.p = r.p /\ q.ws = r.ws /\ q.uws = r.uws /\ q.state = r.state
        /\ q.prov = r.prov /\ q.hc = r.hc /\ q.cl = r.cl /\ q.tok = r.tok /\ q.got = g
        /\ q.src = r.src /\ q.old = r.old /\ q.left = r.left /\ q.goal = r.goal /\ q.todo = r.todo
        /\ q.new = r.new /\ q.rec = r.rec /\ q.pc = l
    BY <1>0, <1>g DEF Fields
  <2>2. Typed(q, b, m, v) /\ Keeps(q, r)
    BY <1>0, <2>1 DEF Typed, Keeps
  <2>3. Sane(q, b, m, A, v)
    BY <1>0, <2>2, KeepsSane
  <2>4. Meets(q, l, A, v)
    BY <1>g, <2>2, KeepsMeets
  <2> QED BY <1>g, <2>1, <2>3, <2>4, ArrivesGood
\* A client was found or made: on to the call it is for.
<1>b. ASSUME r.pc \in {"slack", "bind"}, NEW c \in 1..m, q = [r EXCEPT !.cl = c, !.pc = r.goal]
      PROVE  Sane(q, b, m, A, v) /\ Placed(q, A, v)
  <2>1. /\ q.kind = r.kind /\ q.p = r.p /\ q.ws = r.ws /\ q.uws = r.uws /\ q.state = r.state
        /\ q.prov = r.prov /\ q.hc = r.hc /\ q.cl = c /\ q.tok = r.tok /\ q.got = r.got
        /\ q.src = r.src /\ q.old = r.old /\ q.left = r.left /\ q.goal = r.goal /\ q.todo = r.todo
        /\ q.new = r.new /\ q.rec = r.rec /\ q.pc = r.goal
    BY <1>0, <1>b DEF Fields
  <2>2. c \in 0..m /\ c >= 1
    BY <1>b
  <2>3. Typed(q, b, m, v)
    BY <1>0, <2>1, <2>2 DEF Typed
  <2>4. Keeps(q, r)
    BY <2>1, <2>2 DEF Keeps
  <2>5. Sane(q, b, m, A, v)
    BY <1>0, <2>3, <2>4, KeepsSane
  <2>6. Meets(r, r.pc, A, v)
    BY <1>0, <1>b, At1 DEF Looking
  <2>7. Meets(q, r.goal, A, v)
    BY <1>0, <1>b, <1>t, <2>1, <2>2, <2>6 DEF Meets, Typed, SlackIn, HubIn, Drops, Ends
  <2> QED BY <1>t, <2>1, <2>5, <2>7, ArrivesGood DEF Looking
<1>l. ASSUME NEW k \in Keys, NEW l, Meets(r, l, A, v), l \notin Looking, l # "bind", q = Lookup(r, k, l),
             l \in {"client", "hubpersist"} => k[2] = "hubspot", l \in {"redirect", "persist"} => k[2] = "slack"
      PROVE  Sane(q, b, m, A, v) /\ Placed(q, A, v)
  BY <1>0, <1>l, LookupGood
<1>r. ASSUME NEW ok, q = Return(r, ok), r.pc \in OwnInner
      PROVE  Sane(q, b, m, A, v) /\ Placed(q, A, v)
  BY <1>0, <1>r, OwnLane, ReturnGood
<1>p. ASSUME r.pc \notin Looking PROVE Meets(r, r.pc, A, v)
  BY <1>0, <1>p, At1
<1>1. CASE Resolve(j)
  <2>1. r.pc = "slack" /\ r.pc \in OwnInner /\ r.pc \notin Looking
    BY <1>1 DEF Resolve, At, OwnInner, Looking
  <2>2. Meets(r, "slack", A, v)
    BY <1>p, <2>1
  <2>3. Meets(r, "pivot", A, v) /\ Meets(r, "bind", A, v) /\ r.src # NoRow
    BY <2>2 DEF Meets, SlackIn, HubIn, Drops, Ends
  <2>4. r.src.ws \in Spaces /\ (r.src.link # "" => r.src.link \in Spaces)
    BY <1>t, <2>3 DEF Maybe, Real, IsRow, Names
  <2>5. PICK hit : hit = Cached(r.p, "source", r.src.id)
    OBVIOUS
  <2>6. CASE hit # {}
    <3>1. PICK h \in hit : q = [r EXCEPT !.cl = h.c, !.pc = r.goal]
      BY <1>1, <2>5, <2>6 DEF Resolve, Goto
    <3>2. h \in handle[r.p]
      BY <2>5 DEF Cached
    <3>3. h.c \in 1..Len(client)
      BY <1>t, <3>2 DEF HandlesTyped
    <3>4. Len(client) = m
      BY <1>1 DEF Resolve, slackVars
    <3> QED BY <1>b, <2>1, <3>1, <3>3, <3>4
  <2>7. CASE hit = {} /\ ~HasToken(r.src) /\ r.src.link # ""
    <3>1. q = Lookup(r, <<r.src.link, "slack">>, "pivot")
      BY <1>1, <2>5, <2>7 DEF Resolve, Goto
    <3>2. <<r.src.link, "slack">> \in Keys
      BY <2>4, <2>7, <1>k DEF Provs
    <3> QED BY <1>l, <2>3, <3>1, <3>2 DEF Looking
  <2>8. CASE hit = {} /\ ~(~HasToken(r.src) /\ r.src.link # "") /\ r.src.prov = "hubspot"
    <3>1. q = Lookup(r, <<r.src.ws, "slack">>, "pivot")
      BY <1>1, <2>5, <2>8 DEF Resolve, Goto
    <3>2. <<r.src.ws, "slack">> \in Keys
      BY <2>4, <1>k DEF Provs
    <3> QED BY <1>l, <2>3, <3>1, <3>2 DEF Looking
  <2>9. CASE hit = {} /\ ~(~HasToken(r.src) /\ r.src.link # "") /\ r.src.prov # "hubspot"
    <3>1. q = [r EXCEPT !.rec = r.src, !.pc = "bind"]
      BY <1>1, <2>5, <2>9 DEF Resolve, Goto
    <3> QED BY <1>a, <1>t, <2>1, <2>3, <3>1 DEF Looking
  <2> QED BY <2>6, <2>7, <2>8, <2>9
<1>2. CASE Pivot(j)
  <2>1. r.pc = "pivot" /\ r.pc \in OwnInner /\ r.pc \notin Looking
    BY <1>2 DEF Pivot, At, OwnInner, Looking
  <2>2. Meets(r, "bind", A, v) /\ r.src # NoRow
    BY <1>p, <2>1 DEF Meets, SlackIn, HubIn, Drops, Ends
  <2>3. HasToken(r.rec) => r.rec # NoRow
    BY <1>t DEF HasToken
  <2>4. \/ q = Return(r, FALSE) \/ (q = [r EXCEPT !.pc = "bind"] /\ HasToken(r.rec))
        \/ q = [r EXCEPT !.rec = r.src, !.pc = "bind"]
    BY <1>2 DEF Pivot, Goto
  <2>5. q = [r EXCEPT !.pc = "bind"] => q = [r EXCEPT !.rec = r.rec, !.pc = "bind"]
    BY <1>0 DEF Fields
  <2>6. CASE q = Return(r, FALSE)
    BY <1>r, <2>1, <2>6
  <2>7. CASE q # Return(r, FALSE)
    <3>1. \E x : q = [r EXCEPT !.rec = x, !.pc = "bind"] /\ Maybe(x, b) /\ x # NoRow
      BY <1>t, <2>2, <2>3, <2>4, <2>5, <2>7
    <3> QED BY <1>a, <2>1, <2>2, <3>1 DEF Looking
  <2> QED BY <2>6, <2>7
<1>3. CASE Bind(j)
  <2>1. r.pc \in {"slack", "bind"}
    BY <1>3 DEF Bind, At
  <2>2. PICK hit : hit = Cached(r.p, "target", r.rec.id)
    OBVIOUS
  <2>3. CASE hit # {}
    <3>1. PICK h \in hit : q = [r EXCEPT !.cl = h.c, !.pc = r.goal] /\ client' = client
      BY <1>3, <2>2, <2>3 DEF Bind, Goto
    <3>2. h \in handle[r.p]
      BY <2>2 DEF Cached
    <3>3. h.c \in 1..m
      BY <1>t, <3>1, <3>2 DEF HandlesTyped
    <3> QED BY <1>b, <2>1, <3>1, <3>3
  <2>4. CASE hit = {}
    <3>1. PICK x : q = [r EXCEPT !.cl = Len(client) + 1, !.pc = r.goal] /\ client' = Append(client, x)
      BY <1>3, <2>2, <2>4 DEF Bind, Goto
    <3>2. Len(client) \in Nat /\ m = Len(client) + 1
      BY <3>1 DEF ClientsTyped
    <3>3. Len(client) + 1 \in 1..m
      BY <3>2
    <3> QED BY <1>b, <2>1, <3>1, <3>3
  <2> QED BY <2>3, <2>4
<1>4. CASE Check(j)
  <2>1. r.pc = "check" /\ r.pc \in OwnInner /\ r.pc \notin Looking
    BY <1>4 DEF Check, At, OwnInner, Looking
  <2>2. PICK l \in {"rotate", "call"} : q = [r EXCEPT !.pc = l]
    BY <1>4 DEF Check, Goto
  <2>3. Meets(r, l, A, v)
    BY <1>p, <2>1 DEF Meets, SlackIn, HubIn, Drops, Ends
  <2> QED BY <1>a, <2>1, <2>2, <2>3 DEF Looking
<1>5. CASE TakeLock(j)
  <2>1. r.pc = "rotate" /\ r.pc \in OwnInner /\ r.pc \notin Looking
    BY <1>5 DEF TakeLock, At, OwnInner, Looking
  <2>2. Meets(r, "relook", A, v) /\ r.cl >= 1
    BY <1>p, <2>1 DEF Meets, SlackIn, HubIn, Drops, Ends
  <2>3. Identity(client[r.cl]) \in Spaces
    BY <1>c, <2>2 DEF Identity, Names
  <2>4. q = Lookup(r, <<Identity(client[r.cl]), "slack">>, "relook")
    BY <1>5 DEF TakeLock, Goto, TheClient
  <2>5. <<Identity(client[r.cl]), "slack">> \in Keys
    BY <1>k, <2>3 DEF Provs
  <2> QED BY <1>l, <2>2, <2>4, <2>5 DEF Looking
<1>6. CASE Relook(j)
  <2>1. r.pc = "relook" /\ r.pc \in OwnInner /\ r.pc \notin Looking
    BY <1>6 DEF Relook, At, OwnInner, Looking
  <2>2. Meets(r, "answer", A, v) /\ Meets(r, "refresh", A, v)
    BY <1>p, <2>1 DEF Meets, SlackIn, HubIn, Drops, Ends
  <2>3. \/ q = [r EXCEPT !.got = r.rec.n, !.pc = "answer"] /\ r.rec # NoRow
        \/ \E n : q = [r EXCEPT !.spend = n, !.pc = "refresh"]
    BY <1>6 DEF Relook, Goto
  <2>4. r.rec # NoRow => r.rec.n \in 0..b.all
    BY <1>t DEF Maybe, Real, IsRow
  <2> QED BY <1>a, <1>g, <2>1, <2>2, <2>3, <2>4 DEF Looking
<1>7. CASE SlackRotates(j)
  <2>1. r.pc = "refresh" /\ r.pc \in OwnInner /\ r.pc \notin Looking
    BY <1>7 DEF SlackRotates, At, OwnInner, Looking
  <2>2. Meets(r, "answer", A, v) /\ Meets(r, "lost", A, v)
    BY <1>p, <2>1 DEF Meets, SlackIn, HubIn, Drops, Ends
  <2>3. PICK good : good = (r.spend = slack.gen /\ slack.gen > slack.void)
    OBVIOUS
  <2>4. /\ slack' = IF good THEN [slack EXCEPT !.gen = @ + 1] ELSE slack
        /\ \/ q = [r EXCEPT !.got = IF good THEN slack.gen + 1 ELSE 0, !.pc = "answer"]
           \/ q = [r EXCEPT !.pc = "lost"]
    BY <1>7, <2>3 DEF SlackRotates, Goto
  <2>5. good => slack.gen + 1 \in 0..b.all
    BY <2>4 DEF SlackTyped
  <2>6. PICK g : g = IF good THEN slack.gen + 1 ELSE 0
    OBVIOUS
  <2>7. g \in 0..b.all
    BY <2>5, <2>6 DEF Limit
  <2>8. CASE q = [r EXCEPT !.got = g, !.pc = "answer"]
    BY <1>g, <2>1, <2>2, <2>7, <2>8 DEF Looking
  <2>9. CASE q = [r EXCEPT !.pc = "lost"]
    BY <1>a, <2>1, <2>2, <2>9 DEF Looking
  <2> QED BY <2>4, <2>6, <2>8, <2>9
<1>8. CASE TakeAnswer(j)
  <2>1. r.pc = "answer" /\ r.pc \in OwnInner /\ r.pc \notin Looking
    BY <1>8 DEF TakeAnswer, At, OwnInner, Looking
  <2>2. Meets(r, "call", A, v) /\ Meets(r, "redirect", A, v) /\ r.cl >= 1
    BY <1>p, <2>1 DEF Meets, SlackIn, HubIn, Drops, Ends
  <2>3. q = [r EXCEPT !.pc = "call"] \/ q = Lookup(r, <<client[r.cl].ws, "slack">>, "redirect")
    BY <1>8 DEF TakeAnswer, Goto, TheClient
  <2>4. <<client[r.cl].ws, "slack">> \in Keys
    BY <1>c, <1>k, <2>2 DEF Provs
  <2>5. CASE q = [r EXCEPT !.pc = "call"]
    BY <1>a, <2>1, <2>2, <2>5 DEF Looking
  <2>6. CASE q = Lookup(r, <<client[r.cl].ws, "slack">>, "redirect")
    BY <1>l, <2>2, <2>4, <2>6 DEF Looking
  <2> QED BY <2>3, <2>5, <2>6
<1>9. CASE LoseAnswer(j)
  <2>1. r.pc \in OwnInner /\ q = Return(r, FALSE)
    BY <1>9 DEF LoseAnswer, At, OwnInner, Goto
  <2> QED BY <1>r, <2>1
<1>10. CASE Redirect(j)
  <2>1. r.pc = "redirect" /\ r.pc \notin Looking
    BY <1>10 DEF Redirect, At, Looking
  <2>2. Meets(r, "persist", A, v)
    BY <1>p, <2>1 DEF Meets, SlackIn, HubIn, Drops, Ends
  <2>3. CASE r.rec # NoRow /\ r.rec.link # ""
    <3>1. q = Lookup(r, <<r.rec.link, "slack">>, "persist")
      BY <1>10, <2>3 DEF Redirect, Goto
    <3>2. r.rec.link \in Spaces
      BY <1>t, <2>3 DEF Maybe, Real, IsRow, Names
    <3>3. <<r.rec.link, "slack">> \in Keys
      BY <1>k, <3>2 DEF Provs
    <3> QED BY <1>l, <2>2, <3>1, <3>3 DEF Looking
  <2>4. CASE ~(r.rec # NoRow /\ r.rec.link # "")
    <3>1. q = [r EXCEPT !.pc = "persist"]
      BY <1>10, <2>4 DEF Redirect, Goto
    <3>2. Alike(q, r) /\ q.todo = r.todo /\ q.new = r.new /\ q.pc = "persist" /\ q.rec = r.rec
      BY <1>0, <3>1 DEF Fields, Alike
    <3>3. r.rec.prov # "hubspot"
      BY <1>0, <2>1 DEF Placed, Looked
    <3>4. Looked(q)
      BY <3>2, <3>3 DEF Looked, Looking
    <3> QED BY <1>0, <1>t, <2>2, <3>2, <3>4, GoesGood DEF Looking
  <2> QED BY <2>3, <2>4
<1>11. CASE Persist(j)
  <2>1. r.pc = "persist" /\ r.pc \in OwnInner /\ r.pc \notin Looking
    BY <1>11 DEF Persist, At, OwnInner, Looking
  <2>2. Meets(r, "call", A, v)
    BY <1>p, <2>1 DEF Meets, SlackIn, HubIn, Drops, Ends
  <2>3. CASE r.rec = NoRow
    <3>1. q = [r EXCEPT !.got = 0, !.pc = "call"] /\ 0 \in 0..b.all
      BY <1>11, <2>3 DEF Persist, Goto, Limit
    <3> QED BY <1>g, <2>1, <2>2, <3>1 DEF Looking
  <2>4. CASE r.rec # NoRow
    <3>1. PICK x : x = [r.rec EXCEPT !.n = r.got]
      OBVIOUS
    <3>2. q = Upsert(r, x, "call")
      BY <1>11, <2>4, <3>1 DEF Persist, Goto
    <3>3. r.rec.prov # "hubspot"
      BY <1>0, <2>1 DEF Placed, Looked, Looking
    <3>4. Real(x, b)
      BY <1>t, <2>4, <3>1, <3>3 DEF Maybe, Real, IsRow, RowFields
    <3> QED BY <1>0, <2>2, <3>2, <3>4, UpsertGood DEF After
  <2> QED BY <2>3, <2>4
<1>12. CASE SlackCall(j)
  <2>1. r.pc = "call" /\ r.pc \in OwnInner /\ r.pc \notin Looking
    BY <1>12 DEF SlackCall, At, OwnInner, Looking
  <2>2. Meets(r, "check", A, v)
    BY <1>p, <2>1 DEF Meets, SlackIn, HubIn, Drops, Ends
  <2>3. q = Return(r, TRUE) \/ q = Return(r, FALSE) \/ q = [r EXCEPT !.tries = 1, !.pc = "check"]
    BY <1>12 DEF SlackCall, Goto
  <2> QED BY <1>a, <1>r, <2>1, <2>2, <2>3 DEF Looking
<1>13. CASE BeginCall(j)
  <2>1. r.pc = "slackcall" /\ r.pc \notin Looking
    BY <1>13 DEF BeginCall, At, Looking
  <2>2. Meets(r, "source", A, v) /\ r.prov # ""
    BY <1>p, <2>1 DEF Meets, SlackIn, HubIn, Drops, Ends
  <2>3. <<r.ws, r.prov>> \in Keys
    BY <1>k, <1>t, <2>2
  <2>4. q = Lookup(r, <<r.ws, r.prov>>, "source")
    BY <1>13 DEF BeginCall, Goto
  <2> QED BY <1>l, <2>2, <2>3, <2>4 DEF Looking
<1>14. CASE Source(j)
  <2>1. r.pc = "source" /\ r.pc \notin Looking
    BY <1>14 DEF Source, At, Looking
  <2>2. CASE r.rec = NoRow
    <3>1. q = Ended(r, "failed")
      BY <1>14, <2>2 DEF Source, Goto
    <3>2. m \in Nat
      BY <1>14 DEF Source, slackVars, ClientsTyped
    <3> QED BY <1>0, <3>1, <3>2, EndedGood DEF Ends
  <2>3. CASE r.rec # NoRow
    <3>1. PICK s : s = [r EXCEPT !.src = r.rec, !.goal = "check"]
      OBVIOUS
    <3>2. q = Call(s, "slack", "end")
      BY <1>14, <2>3, <3>1 DEF Source, Goto, UseSlack
    <3>3. /\ s.kind = r.kind /\ s.p = r.p /\ s.ws = r.ws /\ s.uws = r.uws /\ s.state = r.state
          /\ s.prov = r.prov /\ s.hc = r.hc /\ s.cl = r.cl /\ s.tok = r.tok /\ s.got = r.got
          /\ s.src = r.rec /\ s.old = r.old /\ s.left = r.left /\ s.goal = "check" /\ s.todo = r.todo
          /\ s.new = r.new /\ s.rec = r.rec /\ DOMAIN s = Fields
      BY <1>0, <3>1 DEF Fields
    <3>4. Typed(s, b, m, v) /\ Keeps(s, r)
      BY <1>0, <2>3, <3>3 DEF Typed, Keeps
    <3>5. Sane(s, b, m, A, v)
      BY <1>0, <3>4, KeepsSane
    <3>6. Meets(s, "slack", A, v) /\ Meets(s, "end", A, v)
      BY <1>p, <2>1, <2>3, <3>3 DEF Meets, SlackIn, HubIn, Drops, Ends
    <3>7. "end" \in After
      BY DEF After, Outer
    <3> QED BY <3>2, <3>3, <3>5, <3>6, <3>7, CallGood
  <2> QED BY <2>2, <2>3
<1>15. CASE End(j)
  <2>1. \E l \in Ends : q = Ended(r, l)
    BY <1>15 DEF End, Goto, Ends
  <2>2. m \in Nat
    BY <1>15 DEF End, slackVars, ClientsTyped
  <2> QED BY <1>0, <2>1, <2>2, EndedGood
<1> QED BY <1>1, <1>2, <1>3, <1>4, <1>5, <1>6, <1>7, <1>8, <1>9, <1>10, <1>11, <1>12, <1>13, <1>14, <1>15 DEF SlackStep

\* Slack issues pairs and takes none back; clients are made and not unmade.
LEMMA SlackGrows ==
  ASSUME NEW j \in Jobs, DOMAIN job = Jobs, NEW b, Limit(b), SlackTyped, ClientsTyped(b),
         NEW A, NEW v, Good(job[j], b, Len(client), A, v), SlackStep(j)
  PROVE  /\ SlackTyped' /\ slack.gen \in Nat /\ slack'.gen \in Nat /\ slack.gen <= slack'.gen
         /\ Len(client) \in Nat /\ Len(client') \in Nat /\ Len(client) <= Len(client')
<1> DEFINE C == [n : 0..b.all, rt : 0..b.all, ws : Spaces, link : Names]
<1>1. client \in Seq(C)
  BY DEF ClientsTyped
<1> HIDE DEF C
<1>2. Len(client) \in Nat
  BY <1>1, Elements
<1>3. SlackTyped' /\ slack.gen \in Nat /\ slack'.gen \in Nat /\ slack.gen <= slack'.gen
  <2>1. CASE slack' = slack
    BY <2>1 DEF SlackTyped
  <2>2. CASE slack' = [slack EXCEPT !.gen = @ + 1]
    BY <2>2 DEF SlackTyped
  <2> QED BY <2>1, <2>2 DEF SlackStep, Resolve, Pivot, Bind, Check, TakeLock, Relook, SlackRotates, TakeAnswer,
             LoseAnswer, Redirect, Persist, SlackCall, BeginCall, Source, End, slackVars
<1>4. Len(client') \in Nat /\ Len(client) <= Len(client')
  <2>1. CASE client' = client
    BY <1>2, <2>1
  <2>2. CASE Bind(j)
    <3>1. PICK x : client' \in {client, Append(client, x)}
      BY <2>2 DEF Bind
    <3>2. Len(Append(client, x)) = Len(client) + 1
      BY <1>1
    <3> QED BY <1>2, <3>1, <3>2
  <2>3. CASE TakeAnswer(j)
    <3>1. PICK i, x : client' = [client EXCEPT ![i] = x]
      BY <2>3 DEF TakeAnswer
    <3>2. Len(client') = Len(client)
      BY <1>1, <3>1
    <3> QED BY <1>2, <3>2
  <2> QED BY <2>1, <2>2, <2>3 DEF SlackStep, Resolve, Pivot, Check, TakeLock, Relook, SlackRotates,
             LoseAnswer, Redirect, Persist, SlackCall, BeginCall, Source, End, slackVars
<1> QED BY <1>2, <1>3, <1>4

(* The clients and the handles to them stay typed.                         *)
LEMMA SlackStores ==
  ASSUME NEW j \in Jobs, DOMAIN job = Jobs, NEW b, Limit(b), NEW m, NEW A, NEW v, NEW r, r = job[j],
         Good(r, b, m, A, v), r.cl <= Len(client), ClientsTyped(b), HandlesTyped, SlackStep(j)
  PROVE  ClientsTyped(b)' /\ HandlesTyped'
<1>0. Framed(r) /\ Placed(r, A, v) /\ Typed(r, b, m, v) /\ r.p \in Processes /\ Maybe(r.rec, b) /\ r.got \in 0..b.all /\ r.cl \in 0..m
  BY DEF Good, Sane, Typed
<1> DEFINE C == [n : 0..b.all, rt : 0..b.all, ws : Spaces, link : Names]
<1>1. client \in Seq(C)
  BY DEF ClientsTyped
<1> HIDE DEF C
<1>2. Len(client) \in Nat /\ \A i \in 1..Len(client) : client[i] \in C
  BY <1>1, Elements
<1>3. CASE client' = client /\ handle' = handle
  BY <1>3 DEF ClientsTyped, HandlesTyped
<1>4. CASE Bind(j)
  <2>1. r.pc = "bind" /\ r.pc \notin Looking
    BY <1>4 DEF Bind, At, Looking
  <2>2. Real(r.rec, b)
    BY <1>0, <2>1 DEF Placed, Looked, Maybe
  <2>3. PICK hit : hit = Cached(r.p, "target", r.rec.id)
    OBVIOUS
  <2>4. PICK c : /\ c = IF hit # {} THEN (CHOOSE h \in hit : TRUE).c ELSE Len(client) + 1
                 /\ client' = IF hit # {} THEN client
                      ELSE Append(client, [n |-> r.rec.n, rt |-> r.rec.n, ws |-> r.rec.ws, link |-> r.rec.link])
                 /\ Keep(r.p, {Entry("source", r.src.id, c), Entry("target", r.rec.id, c)})
    BY <1>4, <2>3 DEF Bind
  <2>5. client' \in Seq(C) /\ Len(client) <= Len(client') /\ c \in 1..Len(client')
    <3>1. CASE hit # {}
      <4>1. PICK h \in hit : c = h.c
        BY <2>4, <3>1
      <4>2. h \in handle[r.p]
        BY <2>3 DEF Cached
      <4>3. c \in 1..Len(client)
        BY <1>0, <4>1, <4>2 DEF HandlesTyped
      <4> QED BY <1>1, <1>2, <2>4, <3>1, <4>3
    <3>2. CASE hit = {}
      <4>1. PICK x : x = [n |-> r.rec.n, rt |-> r.rec.n, ws |-> r.rec.ws, link |-> r.rec.link]
        OBVIOUS
      <4>2. x \in C
        BY <2>2, <4>1 DEF C, Real, IsRow, Names
      <4>3. client' = Append(client, x) /\ c = Len(client) + 1
        BY <2>4, <3>2, <4>1
      <4>4. client' \in Seq(C) /\ Len(client') = Len(client) + 1
        BY <1>1, <4>2, <4>3, AppendProperties
      <4> QED BY <1>2, <4>3, <4>4
    <3> QED BY <3>1, <3>2
  <2>6. PICK S : handle' = [handle EXCEPT ![r.p] = S]
                 /\ \A h \in S : h \in handle[r.p] \/ h \in {Entry("source", r.src.id, c), Entry("target", r.rec.id, c)}
    <3>1. PICK es : es = {Entry("source", r.src.id, c), Entry("target", r.rec.id, c)}
      OBVIOUS
    <3>2. PICK S : S = {h \in handle[r.p] : \A e \in es : h.role # e.role \/ h.id # e.id} \union es
      OBVIOUS
    <3>3. handle' = [handle EXCEPT ![r.p] = S]
      BY <2>4, <3>1, <3>2 DEF Keep
    <3>4. \A h \in S : h \in handle[r.p] \/ h \in es
      BY <3>2
    <3> QED BY <3>1, <3>3, <3>4
  <2>7. \A h \in S : h.c \in 1..Len(client')
    <3> SUFFICES ASSUME NEW h \in S PROVE h.c \in 1..Len(client')
      OBVIOUS
    <3>1. CASE h \in handle[r.p]
      <4>1. h.c \in 1..Len(client)
        BY <1>0, <3>1 DEF HandlesTyped
      <4>2. Len(client') \in Nat
        BY <2>5, Elements
      <4> QED BY <1>2, <2>5, <4>1, <4>2
    <3>2. CASE h \in {Entry("source", r.src.id, c), Entry("target", r.rec.id, c)}
      BY <2>5, <3>2 DEF Entry
    <3> QED BY <2>6, <3>1, <3>2
  <2>8. HandlesTyped'
    <3>1. DOMAIN handle' = Processes
      BY <2>6 DEF HandlesTyped
    <3>2. ASSUME NEW p \in Processes, NEW h \in handle'[p] PROVE h.c \in 1..Len(client')
      <4>1. CASE p = r.p
        BY <2>6, <2>7, <3>2, <4>1 DEF HandlesTyped
      <4>2. CASE p # r.p
        <5>1. h \in handle[p]
          BY <2>6, <3>2, <4>2 DEF HandlesTyped
        <5>2. h.c \in 1..Len(client)
          BY <5>1 DEF HandlesTyped
        <5>3. Len(client') \in Nat
          BY <2>5, Elements
        <5> QED BY <1>2, <2>5, <5>2, <5>3
      <4> QED BY <4>1, <4>2
    <3> QED BY <3>1, <3>2 DEF HandlesTyped
  <2>9. ClientsTyped(b)'
    BY <2>5 DEF ClientsTyped, C
  <2> QED BY <2>8, <2>9
<1>5. CASE TakeAnswer(j)
  <2>1. r.pc = "answer" /\ r.pc \notin Looking
    BY <1>5 DEF TakeAnswer, At, Looking
  <2>2. r.cl >= 1
    BY <1>0, <2>1, At1 DEF Meets, SlackIn
  <2>3. r.cl \in 1..Len(client)
    BY <1>0, <1>2, <2>2
  <2>4. PICK c : c = client[r.cl]
    OBVIOUS
  <2>5. PICK x : x = IF r.got = 0 THEN [c EXCEPT !.rt = 0] ELSE [c EXCEPT !.n = r.got, !.rt = r.got]
    OBVIOUS
  <2>6. client' = [client EXCEPT ![r.cl] = x] /\ handle' = handle
    BY <1>5, <2>4, <2>5 DEF TakeAnswer
  <2>7. c \in C
    BY <1>2, <2>3, <2>4
  <2>8. x \in C
    BY <1>0, <2>5, <2>7 DEF C
  <2>9. client' \in Seq(C) /\ Len(client') = Len(client)
    BY <1>1, <2>3, <2>6, <2>8, ExceptSeq
  <2> QED BY <2>6, <2>9 DEF ClientsTyped, HandlesTyped, C
<1> QED BY <1>3, <1>4, <1>5 DEF SlackStep, Resolve, Pivot, Check, TakeLock, Relook, SlackRotates,
           LoseAnswer, Redirect, Persist, SlackCall, BeginCall, Source, End, slackVars

\* A request of these labels installs nothing.
LEMMA OwnKind ==
  ASSUME NEW k, NEW l \in Lane(k), l \in Own PROVE k # "install" /\ k # "installhub"
  BY DEF Lane, Ends, Common, Own, OwnInner, Begins, OfInstall, OfHubInstall

\* HubSpot issues tokens, and what it has revoked stays revoked.
LEMMA HubGrows ==
  ASSUME NEW j \in Jobs, HubTyped, HubStep(j)
  PROVE  /\ HubTyped' /\ hub.gen \in Nat /\ hub'.gen \in Nat /\ hub.gen <= hub'.gen
         /\ hub.void \in Nat /\ hub'.void \in Nat /\ hub.void <= hub'.void
<1>1. CASE hub' = hub
  BY <1>1 DEF HubTyped
<1>2. CASE hub' = [hub EXCEPT !.gen = @ + 1]
  BY <1>2 DEF HubTyped
<1>3. CASE hub' = [hub EXCEPT !.void = hub.gen]
  BY <1>3 DEF HubTyped
<1> QED BY <1>1, <1>2, <1>3 DEF HubStep, GetClient, MakeClient, Proactive, LockEarly, Send, Answered, Errs, Unauthorized,
           LockLate, HubRefreshes, HubAnswer, HubPersist, Refreshed, BeginHub, hubVars

(* The clients of HubSpot stay typed, and a client that was made stays.    *)
LEMMA HubStores ==
  ASSUME NEW j \in Jobs, DOMAIN job = Jobs, NEW b, Limit(b), NEW m, NEW A, A = Made, NEW v, NEW r, r = job[j],
         Good(r, b, m, A, v), HubsTyped(b), HubStep(j)
  PROVE  HubsTyped(b)' /\ Made \subseteq Made'
<1> DEFINE C == [n : 0..b.hub, ws : Names, cool : BOOLEAN, by : Jobs \cup {""}]
<1>0. /\ Framed(r) /\ Placed(r, A, v) /\ r.hc \in Jobs /\ Maybe(r.rec, b) /\ r.tok \in 0..b.hub
      /\ hclient \in [Jobs -> C] /\ \A i \in Jobs : hclient[i].n >= 1 => hclient[i].ws # ""
  BY DEF Good, Sane, Typed, HubsTyped
<1>a. ASSUME NEW x \in C, hclient' = [hclient EXCEPT ![r.hc] = x], x.n >= 1 => x.ws # "",
             hclient[r.hc].n >= 1 => x.n >= 1
      PROVE  HubsTyped(b)' /\ Made \subseteq Made'
  <2>1. hclient' \in [Jobs -> C]
    BY <1>0, <1>a
  <2>2. \A i \in Jobs : hclient'[i] = IF i = r.hc THEN x ELSE hclient[i]
    BY <1>0, <1>a
  <2> HIDE DEF C
  <2>3. \A i \in Jobs : hclient'[i].n >= 1 => hclient'[i].ws # ""
    BY <1>0, <1>a, <2>2
  <2>4. Made \subseteq Made'
    BY <1>a, <2>2 DEF Made
  <2> QED BY <2>1, <2>3, <2>4 DEF HubsTyped, C
<1>1. PICK c : c = hclient[r.hc]
  OBVIOUS
<1>2. c \in C /\ (c.n >= 1 => c.ws # "") /\ c.n \in 0..b.hub
  BY <1>0, <1>1
<1>b. ASSUME NEW y \in Jobs \cup {""}, hclient' = [hclient EXCEPT ![r.hc].by = y]
      PROVE  HubsTyped(b)' /\ Made \subseteq Made'
  <2>1. PICK x : x = [c EXCEPT !.by = y]
    OBVIOUS
  <2>2. x \in C /\ x.n = c.n /\ x.ws = c.ws
    BY <1>2, <1>b, <2>1
  <2>3. hclient' = [hclient EXCEPT ![r.hc] = x]
    BY <1>1, <1>b, <2>1
  <2> QED BY <1>1, <1>2, <1>a, <2>2, <2>3
<1>3. CASE hclient' = hclient
  BY <1>3 DEF HubsTyped, Made
<1>4. CASE Lock(j)
  BY <1>4, <1>b DEF Lock
<1>5. CASE Unlock(j)
  <2>1. hclient' = [hclient EXCEPT ![r.hc].by = IF c.by = j THEN "" ELSE c.by]
    BY <1>1, <1>5 DEF Unlock
  <2>2. (IF c.by = j THEN "" ELSE c.by) \in Jobs \cup {""}
    BY <1>2
  <2> QED BY <1>b, <2>1, <2>2
<1>6. CASE MakeClient(j)
  <2>1. CASE hclient' # hclient
    <3>1. r.rec # NoRow /\ hclient[r.hc].n = 0 /\ r.pc = "client" /\ r.pc \notin Looking
      BY <1>6, <2>1 DEF MakeClient, Mine, At, Looking
    <3>2. Real(r.rec, b) /\ r.rec.prov # "slack"
      BY <1>0, <3>1 DEF Maybe, Placed, Looked
    <3>3. r.rec.n \in 0..b.hub /\ r.rec.n >= 1 /\ r.rec.ws \in Names /\ r.rec.ws # ""
      BY <3>2, HubRecord DEF Real, IsRow
    <3>4. PICK x : x = [NoClient EXCEPT !.n = r.rec.n, !.ws = r.rec.ws]
      OBVIOUS
    <3>5. x \in C /\ x.n >= 1 /\ x.ws # ""
      BY <3>3, <3>4 DEF NoClient
    <3>6. hclient' = [hclient EXCEPT ![r.hc] = x]
      BY <1>6, <2>1, <3>4 DEF MakeClient
    <3> QED BY <1>a, <3>5, <3>6
  <2> QED BY <1>3, <2>1
<1>7. CASE HubAnswer(j)
  <2>1. PICK x : x = IF r.tok = 0 THEN [c EXCEPT !.cool = TRUE] ELSE [c EXCEPT !.n = r.tok, !.cool = FALSE]
    OBVIOUS
  <2>2. hclient' = [hclient EXCEPT ![r.hc] = x]
    BY <1>1, <1>7, <2>1 DEF HubAnswer
  <2>3. r.pc = "hubanswer" /\ r.pc \notin Looking
    BY <1>7 DEF HubAnswer, At, Looking
  <2>4. c.ws # ""
    <3>0. Framed(r) /\ Placed(r, A, v)
      BY <1>0
    <3>1. Meets(r, "hubanswer", A, v)
      BY <2>3, <3>0, At1
    <3>2. r.hc \in Made
      BY <3>1 DEF Meets, HubIn
    <3> QED BY <1>1, <1>2, <3>2 DEF Made
  <2>5. x \in C /\ x.ws = c.ws /\ (c.n >= 1 => x.n >= 1)
    <3>1. CASE r.tok = 0
      BY <1>2, <2>1, <3>1
    <3>2. CASE r.tok # 0
      <4>0. r.tok \in 0..b.hub
        BY <1>0
      <4>1. r.tok \in 0..b.hub /\ r.tok >= 1
        BY <4>0, <3>2
      <4>2. x = [c EXCEPT !.n = r.tok, !.cool = FALSE]
        BY <2>1, <3>2
      <4>3. x \in C /\ x.n = r.tok /\ x.ws = c.ws
        BY <1>2, <4>1, <4>2
      <4> QED BY <4>1, <4>3
    <3> QED BY <3>1, <3>2
  <2> QED BY <1>1, <1>2, <1>a, <2>2, <2>4, <2>5
<1> QED BY <1>3, <1>4, <1>5, <1>6, <1>7 DEF HubStep, GetClient, Proactive, LockEarly, Send, Answered, Errs, Unauthorized,
           LockLate, HubRefreshes, HubPersist, Refreshed, BeginHub, hubVars

\* The tokens of a request that installs nothing are its own affair.
LEMMA TokSane ==
  ASSUME NEW b, NEW m, NEW A, NEW v, NEW r, Sane(r, b, m, A, v), r.kind # "installhub", NEW q, Typed(q, b, m, v),
         q.todo = r.todo, q.kind = r.kind, q.prov = r.prov, q.hc = r.hc, q.old = r.old, q.src = r.src, q.cl = r.cl
  PROVE  /\ Sane(q, b, m, A, v)
         /\ \A l : l \notin {"writing", "move", "hubpersist"} /\ Meets(r, l, A, v) => Meets(q, l, A, v)
<1> DEFINE S == {l \in After : Meets(r, l, A, v)}
<1> DEFINE T == {l \in After : Meets(q, l, A, v)}
<1>0. ASSUME NEW l, l \notin {"writing", "move", "hubpersist"}, Meets(r, l, A, v) PROVE Meets(q, l, A, v)
  BY <1>0 DEF Meets
<1>1. S \subseteq T
  BY <1>0 DEF After, Outer
<1>2. r.todo \in Seq(S)
  BY DEF Sane
<1> HIDE DEF S, T
<1>3. q.todo \in Seq(T)
  BY <1>1, <1>2, Grows
<1> USE DEF T
<1> QED BY <1>0, <1>3 DEF Sane

(* What a step of a client of HubSpot leaves its request with.             *)
LEMMA HubGood ==
  ASSUME NEW j \in Jobs, DOMAIN job = Jobs, NEW r, r = job[j], NEW q, q = job'[j],
         NEW b, Limit(b), NEW m, NEW A, A = Made', NEW v \in Nat, v = hub'.void, hub.void \in Nat, hub.void <= v,
         HubTyped, hub'.gen \in 0..b.hub,
         Good(r, b, m, A, v), HubsTyped(b), HubsTyped(b)', Made \subseteq A, CacheTyped(b), HubStep(j)
  PROVE  Sane(q, b, m, A, v) /\ Placed(q, A, v)
<1>0. Framed(r) /\ DOMAIN r = Fields /\ Sane(r, b, m, A, v) /\ Placed(r, A, v) /\ Typed(r, b, m, v)
  BY DEF Good, Framed, Shaped, Sane
<1>t. /\ Maybe(r.rec, b) /\ r.tok \in 0..b.hub /\ r.ws \in Spaces /\ r.p \in Processes /\ r.hc \in Jobs
  BY <1>0 DEF Typed
<1>p. ASSUME r.pc \notin Looking PROVE Meets(r, r.pc, A, v)
  BY <1>0, <1>p, At1
<1>k. \A x \in Spaces : <<x, "hubspot">> \in Keys /\ <<x, "hubspot">>[2] = "hubspot"
  BY DEF Spaces, Keys
<1>h. Mine(j) = hclient[r.hc] /\ hclient[r.hc].n \in 0..b.hub
  BY <1>t DEF Mine, HubsTyped
<1>w. hclient[r.hc].n >= 1 => hclient[r.hc].ws \in Spaces
  BY <1>t DEF HubsTyped, Names
<1>a. ASSUME NEW l, Meets(r, l, A, v), l \notin Looking \cup {"client", "hubpersist", "redirect", "persist", "bind"},
             Alike(q, r), q.todo = r.todo, q.new = r.new, q.rec = r.rec, q.pc = l
      PROVE  Sane(q, b, m, A, v) /\ Placed(q, A, v)
  BY <1>0, <1>a, <1>t, GoesGood
<1>r. ASSUME NEW ok, q = Return(r, ok), r.pc \in OwnInner
      PROVE  Sane(q, b, m, A, v) /\ Placed(q, A, v)
  BY <1>0, <1>r, OwnLane, ReturnGood
\* The labels of a client that is made.
<1>m. ASSUME r.pc \in HubIn PROVE /\ r.hc \in A /\ r.pc \in OwnInner /\ r.pc \notin Looking
                                  /\ \A l \in HubIn \ {"hubpersist"} : Meets(r, l, A, v)
  <2>1. r.pc \in OwnInner /\ r.pc \notin Looking
    BY <1>m DEF HubIn, OwnInner, Looking
  <2> QED BY <1>m, <1>p, <2>1 DEF Meets, SlackIn, HubIn, Drops, Ends
<1>n. ASSUME NEW l \in HubIn \ {"hubpersist"}, r.pc \in HubIn,
             \/ q = [r EXCEPT !.pc = l] \/ (\E x : q = [r EXCEPT !.sent = x, !.pc = l])
             \/ (\E x : q = [r EXCEPT !.mode = x, !.pc = l]) \/ (\E x : q = [r EXCEPT !.tries = x, !.pc = l])
      PROVE  Sane(q, b, m, A, v) /\ Placed(q, A, v)
  <2>1. Meets(r, l, A, v) /\ l \notin Looking \cup {"client", "hubpersist", "redirect", "persist", "bind"}
    BY <1>m, <1>n DEF HubIn, Looking
  <2>2. CASE q = [r EXCEPT !.pc = l]
    <3>1. Alike(q, r) /\ q.todo = r.todo /\ q.new = r.new /\ q.rec = r.rec /\ q.pc = l
      BY <1>0, <2>2 DEF Fields, Alike
    <3> QED BY <1>a, <2>1, <3>1
  <2>3. ASSUME NEW x, q = [r EXCEPT !.sent = x, !.pc = l] PROVE Sane(q, b, m, A, v) /\ Placed(q, A, v)
    <3>1. Alike(q, r) /\ q.todo = r.todo /\ q.new = r.new /\ q.rec = r.rec /\ q.pc = l
      BY <1>0, <2>3 DEF Fields, Alike
    <3> QED BY <1>a, <2>1, <3>1
  <2>4. ASSUME NEW x, q = [r EXCEPT !.mode = x, !.pc = l] PROVE Sane(q, b, m, A, v) /\ Placed(q, A, v)
    <3>1. Alike(q, r) /\ q.todo = r.todo /\ q.new = r.new /\ q.rec = r.rec /\ q.pc = l
      BY <1>0, <2>4 DEF Fields, Alike
    <3> QED BY <1>a, <2>1, <3>1
  <2>5. ASSUME NEW x, q = [r EXCEPT !.tries = x, !.pc = l] PROVE Sane(q, b, m, A, v) /\ Placed(q, A, v)
    <3>1. Alike(q, r) /\ q.todo = r.todo /\ q.new = r.new /\ q.rec = r.rec /\ q.pc = l
      BY <1>0, <2>5 DEF Fields, Alike
    <3> QED BY <1>a, <2>1, <3>1
  <2> QED BY <1>n, <2>2, <2>3, <2>4, <2>5
<1>1. CASE GetClient(j)
  <2>1. r.pc = "hub" /\ r.pc \notin Looking
    BY <1>1 DEF GetClient, At, Looking
  <2>2. CASE hclient[r.hc].n # 0
    <3>1. q = [r EXCEPT !.pc = "proactive"]
      BY <1>1, <1>h, <2>2 DEF GetClient, Goto
    <3>2. r.hc \in A
      BY <1>h, <1>t, <2>2 DEF Made
    <3>3. Meets(r, "proactive", A, v)
      BY <1>p, <2>1, <3>2 DEF Meets, SlackIn, HubIn, Drops, Ends
    <3>4. Alike(q, r) /\ q.todo = r.todo /\ q.new = r.new /\ q.rec = r.rec /\ q.pc = "proactive"
      BY <1>0, <3>1 DEF Fields, Alike
    <3> QED BY <1>a, <3>3, <3>4 DEF Looking
  <2>3. CASE hclient[r.hc].n = 0
    <3>1. q = Lookup(r, <<r.ws, "hubspot">>, "client")
      BY <1>1, <1>h, <2>3 DEF GetClient, Goto
    <3>2. Meets(r, "client", A, v)
      BY <1>p, <2>1 DEF Meets, SlackIn, HubIn, Drops, Ends
    <3>3. PICK k \in Keys : k = <<r.ws, "hubspot">> /\ k[2] = "hubspot"
      BY <1>k, <1>t
    <3> QED BY <1>0, <3>1, <3>2, <3>3, LookupGood DEF Looking
  <2> QED BY <2>2, <2>3
<1>2. CASE MakeClient(j)
  <2>1. r.pc = "client" /\ r.pc \in OwnInner /\ r.pc \notin Looking
    BY <1>2 DEF MakeClient, At, OwnInner, Looking
  <2>2. CASE r.rec = NoRow
    BY <1>2, <1>r, <2>1, <2>2 DEF MakeClient, Goto
  <2>3. CASE r.rec # NoRow
    <3>1. q = [r EXCEPT !.pc = "proactive"]
      BY <1>2, <2>3 DEF MakeClient, Goto
    <3>2. r.rec.prov # "slack" /\ Real(r.rec, b)
      BY <1>0, <1>t, <2>1, <2>3 DEF Placed, Looked, Maybe
    <3>3. r.rec.n >= 1
      BY <3>2, HubRecord
    <3>4. hclient' = IF hclient[r.hc].n # 0 THEN hclient
                     ELSE [hclient EXCEPT ![r.hc] = [NoClient EXCEPT !.n = r.rec.n, !.ws = r.rec.ws]]
      BY <1>2, <1>h, <2>3 DEF MakeClient
    <3>5. hclient'[r.hc].n >= 1
      <4>1. CASE hclient[r.hc].n # 0
        BY <1>h, <3>4, <4>1
      <4>2. CASE hclient[r.hc].n = 0
        <5>1. DOMAIN hclient = Jobs
          BY DEF HubsTyped
        <5>2. hclient'[r.hc] = [NoClient EXCEPT !.n = r.rec.n, !.ws = r.rec.ws]
          BY <1>t, <3>4, <4>2, <5>1
        <5> QED BY <3>3, <5>2 DEF NoClient
      <4> QED BY <4>1, <4>2
    <3>6. r.hc \in A
      BY <1>t, <3>5 DEF Made
    <3>7. Meets(r, "proactive", A, v)
      BY <1>p, <2>1, <3>6 DEF Meets, SlackIn, HubIn, Drops, Ends
    <3>8. Alike(q, r) /\ q.todo = r.todo /\ q.new = r.new /\ q.rec = r.rec /\ q.pc = "proactive"
      BY <1>0, <3>1 DEF Fields, Alike
    <3> QED BY <1>a, <3>7, <3>8 DEF Looking
  <2> QED BY <2>2, <2>3
<1>3. CASE Proactive(j)
  <2>1. r.pc \in HubIn /\ \E l \in HubIn \ {"hubpersist"} : q = [r EXCEPT !.pc = l]
    BY <1>3 DEF Proactive, At, Goto, HubIn
  <2> QED BY <1>n, <2>1
<1>4. CASE LockEarly(j)
  <2>1. r.pc \in HubIn /\ "hubrefresh" \in HubIn \ {"hubpersist"} /\ "send" \in HubIn \ {"hubpersist"}
    BY <1>4 DEF LockEarly, At, HubIn
  <2>2. CASE Expiring(j)
    <3>1. q = [r EXCEPT !.mode = "early", !.sent = Mine(j).n, !.pc = "hubrefresh"]
      BY <1>4, <2>2 DEF LockEarly, Goto
    <3>2. Alike(q, r) /\ q.todo = r.todo /\ q.new = r.new /\ q.rec = r.rec /\ q.pc = "hubrefresh"
      BY <1>0, <3>1 DEF Fields, Alike
    <3> QED BY <1>a, <1>m, <2>1, <3>2 DEF Looking
  <2>3. CASE ~Expiring(j)
    <3>1. q = [r EXCEPT !.pc = "send"]
      BY <1>4, <2>3 DEF LockEarly, Goto
    <3> QED BY <1>n, <2>1, <3>1
  <2> QED BY <2>2, <2>3
<1>5. CASE Send(j)
  <2>1. r.pc \in HubIn /\ "sent" \in HubIn \ {"hubpersist"} /\ \E x : q = [r EXCEPT !.sent = x, !.pc = "sent"]
    BY <1>5 DEF Send, At, Goto, HubIn
  <2> QED BY <1>n, <2>1
<1>6. CASE Answered(j)
  <2>1. r.pc \in HubIn /\ "send" \in HubIn \ {"hubpersist"} /\ r.pc \in OwnInner
    BY <1>6 DEF Answered, At, HubIn, OwnInner
  <2>2. q = Return(r, TRUE) \/ \E x : q = [r EXCEPT !.tries = x, !.pc = "send"]
    BY <1>6 DEF Answered, Goto
  <2> QED BY <1>n, <1>r, <2>1, <2>2
<1>7. CASE Errs(j)
  <2>1. r.pc \in OwnInner /\ q = Return(r, FALSE)
    BY <1>7 DEF Errs, At, OwnInner, Goto
  <2> QED BY <1>r, <2>1
<1>8. CASE Unauthorized(j)
  <2>1. r.pc \in HubIn /\ "late" \in HubIn \ {"hubpersist"} /\ r.pc \in OwnInner
    BY <1>8 DEF Unauthorized, At, HubIn, OwnInner
  <2>2. q = Return(r, FALSE) \/ q = [r EXCEPT !.pc = "late"]
    BY <1>8 DEF Unauthorized, Goto
  <2> QED BY <1>n, <1>r, <2>1, <2>2
<1>9. CASE LockLate(j)
  <2>1. r.pc \in HubIn /\ "hubrefresh" \in HubIn \ {"hubpersist"} /\ "send" \in HubIn \ {"hubpersist"}
    BY <1>9 DEF LockLate, At, HubIn
  <2>2. q = [r EXCEPT !.pc = "send"] \/ \E x : q = [r EXCEPT !.mode = x, !.pc = "hubrefresh"]
    BY <1>9 DEF LockLate, Goto
  <2> QED BY <1>n, <2>1, <2>2
<1>10. CASE HubRefreshes(j)
  <2>1. r.pc \in HubIn /\ r.pc = "hubrefresh" /\ r.pc \in OwnInner
    BY <1>10 DEF HubRefreshes, At, HubIn, OwnInner
  <2>2. r.hc \in A /\ r.pc \notin Looking /\ Meets(r, "hubanswer", A, v)
    BY <1>m, <2>1 DEF HubIn
  <2>3. r.kind # "install" /\ r.kind # "installhub"
    <3>1. r.pc \in Own /\ r.pc \in Lane(r.kind)
      BY <1>0, <2>1, <2>2, At1 DEF Own
    <3> QED BY <3>1, OwnKind
  <2>4. ASSUME NEW x \in 0..b.hub, q = [r EXCEPT !.tok = x, !.pc = "hubanswer"]
        PROVE  Sane(q, b, m, A, v) /\ Placed(q, A, v)
    <3>1. /\ q.kind = r.kind /\ q.p = r.p /\ q.ws = r.ws /\ q.uws = r.uws /\ q.state = r.state
          /\ q.prov = r.prov /\ q.hc = r.hc /\ q.cl = r.cl /\ q.tok = x /\ q.got = r.got
          /\ q.src = r.src /\ q.old = r.old /\ q.left = r.left /\ q.goal = r.goal /\ q.todo = r.todo
          /\ q.new = r.new /\ q.rec = r.rec /\ q.pc = "hubanswer"
      BY <1>0, <2>4 DEF Fields
    <3>2. Typed(q, b, m, v)
      BY <1>0, <3>1 DEF Typed
    <3>3. Sane(q, b, m, A, v) /\ Meets(q, "hubanswer", A, v)
      BY <1>0, <2>2, <2>3, <3>1, <3>2, TokSane
    <3> QED BY <3>1, <3>3, ArrivesGood DEF Looking
  <2>5. ASSUME hclient[r.hc].n <= hub.void, hub' = hub,
               q = Call([r EXCEPT !.tok = 0, !.uws = hclient[r.hc].ws], "revoked", "hubanswer")
        PROVE  Sane(q, b, m, A, v) /\ Placed(q, A, v)
    <3>1. hclient[r.hc].n >= 1
      <4>1. HubStep(j) /\ hclient' = hclient
        BY <1>10 DEF HubRefreshes
      <4> QED BY <2>2, <4>1 DEF Made
    <3>2. v >= 1
      BY <1>h, <2>5, <3>1
    <3>3. PICK u \in Spaces : u = hclient[r.hc].ws
      BY <1>w, <3>1
    <3>4. PICK s : s = [r EXCEPT !.tok = 0, !.uws = u] /\ q = Call(s, "revoked", "hubanswer")
      BY <2>5, <3>3
    <3>5. /\ s.kind = r.kind /\ s.p = r.p /\ s.ws = r.ws /\ s.uws = u /\ s.state = r.state
          /\ s.prov = r.prov /\ s.hc = r.hc /\ s.cl = r.cl /\ s.tok = 0 /\ s.got = r.got
          /\ s.src = r.src /\ s.old = r.old /\ s.left = r.left /\ s.goal = r.goal /\ s.todo = r.todo
          /\ s.new = r.new /\ s.rec = r.rec /\ DOMAIN s = Fields
      BY <1>0, <3>4 DEF Fields
    <3>6. 0 \in 0..b.hub
      BY Zero
    <3>7. Typed(s, b, m, v)
      BY <1>0, <3>5, <3>6 DEF Typed
    <3>8. Meets(r, "revoked", A, v)
      BY <2>2, <3>2 DEF Meets, SlackIn, HubIn, Drops, Ends
    <3>9. Sane(s, b, m, A, v) /\ Meets(s, "hubanswer", A, v) /\ Meets(s, "revoked", A, v)
      BY <1>0, <2>2, <2>3, <3>5, <3>7, <3>8, TokSane
    <3>10. "hubanswer" \in After /\ "revoked" \in {"hub", "revoked", "slack", "appsuninstall", "writing"}
      BY DEF After
    <3>11. DOMAIN s = Fields /\ q = Call(s, "revoked", "hubanswer")
      BY <3>4, <3>5
    <3> QED BY <3>9, <3>10, <3>11, CallGood
  <2>6. \/ q = [r EXCEPT !.tok = hub.gen + 1, !.pc = "hubanswer"] /\ hub' = [hub EXCEPT !.gen = @ + 1]
        \/ q = [r EXCEPT !.tok = 0, !.pc = "hubanswer"]
        \/ /\ hclient[r.hc].n <= hub.void /\ hub' = hub
           /\ q = Call([r EXCEPT !.tok = 0, !.uws = hclient[r.hc].ws], "revoked", "hubanswer")
    BY <1>10, <1>h DEF HubRefreshes, Goto
  <2>7. CASE q = [r EXCEPT !.tok = hub.gen + 1, !.pc = "hubanswer"] /\ hub' = [hub EXCEPT !.gen = @ + 1]
    <3>1. hub.gen + 1 \in 0..b.hub
      BY <2>7 DEF HubTyped
    <3> QED BY <2>4, <2>7, <3>1
  <2>8. CASE q = [r EXCEPT !.tok = 0, !.pc = "hubanswer"]
    <3>1. 0 \in 0..b.hub
      BY Zero
    <3> QED BY <2>4, <2>8, <3>1
  <2> QED BY <2>5, <2>6, <2>7, <2>8
<1>11. CASE HubAnswer(j)
  <2>1. r.pc \in HubIn /\ r.pc = "hubanswer" /\ "refreshed" \in HubIn \ {"hubpersist"}
    BY <1>11 DEF HubAnswer, At, HubIn
  <2>2. PICK s : s = [r EXCEPT !.uws = r.ws]
    OBVIOUS
  <2>3. /\ s.kind = r.kind /\ s.p = r.p /\ s.ws = r.ws /\ s.uws = r.ws /\ s.state = r.state
        /\ s.prov = r.prov /\ s.hc = r.hc /\ s.cl = r.cl /\ s.tok = r.tok /\ s.got = r.got
        /\ s.src = r.src /\ s.old = r.old /\ s.left = r.left /\ s.goal = r.goal /\ s.todo = r.todo
        /\ s.new = r.new /\ s.rec = r.rec /\ DOMAIN s = Fields
    BY <1>0, <2>2 DEF Fields
  <2>4. Typed(s, b, m, v)
    BY <1>0, <2>3 DEF Typed
  <2>5. r.kind # "install" /\ r.kind # "installhub"
    <3>1. r.pc \in Own /\ r.pc \in Lane(r.kind)
      BY <1>0, <1>m, <2>1, At1 DEF Own
    <3> QED BY <3>1, OwnKind
  <2>6. /\ Sane(s, b, m, A, v)
        /\ \A l : l \notin {"writing", "move", "hubpersist"} /\ Meets(r, l, A, v) => Meets(s, l, A, v)
    BY <1>0, <2>3, <2>4, <2>5, TokSane
  <2>7. CASE q = [s EXCEPT !.pc = "refreshed"]
    <3>1. Alike(q, s) /\ q.todo = s.todo /\ q.new = s.new /\ q.rec = s.rec /\ q.pc = "refreshed"
      BY <2>3, <2>7 DEF Fields, Alike
    <3>2. Meets(s, "refreshed", A, v)
      BY <1>m, <2>1, <2>6
    <3> QED BY <1>t, <2>3, <2>6, <3>1, <3>2, GoesGood DEF Looking
  <2>8. CASE r.tok # 0 /\ q = Lookup(s, <<hclient[r.hc].ws, "hubspot">>, "hubpersist")
    <3>1. Meets(r, "hubanswer", A, v) /\ r.tok >= 1
      BY <1>p, <1>t, <2>1, <2>8 DEF Looking
    <3>2. Meets(s, "hubanswer", A, v)
      BY <2>6, <3>1
    <3>3. Meets(s, "hubpersist", A, v)
      BY <2>3, <3>1, <3>2 DEF Meets, SlackIn, HubIn, Drops, Ends
    <3>4. hclient'[r.hc].ws \in Spaces
      <4>1. hclient'[r.hc].n >= 1
        BY <3>1 DEF Meets, HubIn, Made
      <4> QED BY <1>t, <4>1 DEF HubsTyped, Names
    <3>5. hclient[r.hc].ws \in Spaces
      <4>1. PICK c : c = hclient[r.hc]
        OBVIOUS
      <4>2. hclient' = [hclient EXCEPT ![r.hc] = [c EXCEPT !.n = r.tok, !.cool = FALSE]]
        BY <1>11, <2>8, <4>1 DEF HubAnswer
      <4>3. c \in [n : 0..b.hub, ws : Names, cool : BOOLEAN, by : Jobs \cup {""}] /\ DOMAIN hclient = Jobs
        BY <1>t, <4>1 DEF HubsTyped
      <4>4. hclient'[r.hc].ws = c.ws
        BY <1>t, <4>2, <4>3
      <4> QED BY <3>4, <4>1, <4>4
    <3>6. PICK k \in Keys : k = <<hclient[r.hc].ws, "hubspot">> /\ k[2] = "hubspot"
      BY <1>k, <3>5
    <3> QED BY <2>3, <2>6, <2>8, <3>3, <3>6, LookupGood DEF Looking
  <2> QED BY <1>11, <1>h, <2>2, <2>7, <2>8 DEF HubAnswer, Goto
<1>12. CASE HubPersist(j)
  <2>1. r.pc \in HubIn /\ r.pc = "hubpersist" /\ "refreshed" \in HubIn \ {"hubpersist"} /\ r.pc \notin Looking
    BY <1>12 DEF HubPersist, At, HubIn, Looking
  <2>2. CASE r.rec = NoRow
    <3>1. q = [r EXCEPT !.pc = "refreshed"]
      BY <1>12, <2>2 DEF HubPersist, Goto
    <3> QED BY <1>n, <2>1, <3>1
  <2>3. CASE r.rec # NoRow
    <3>1. PICK x : x = [r.rec EXCEPT !.n = r.tok]
      OBVIOUS
    <3>2. q = Upsert(r, x, "refreshed")
      BY <1>12, <2>3, <3>1 DEF HubPersist, Goto
    <3>3. r.tok >= 1
      BY <1>p, <2>1 DEF Meets
    <3>4. Real(x, b)
      <4>1. r.tok \in 1..b.hub /\ r.tok \in 0..b.all
        BY <1>t, <3>3, Issued
      <4>2. Real(r.rec, b)
        BY <1>t, <2>3 DEF Maybe
      <4> QED BY <3>1, <4>1, <4>2 DEF Real, IsRow, RowFields
    <3>5. Meets(r, "refreshed", A, v)
      BY <1>m, <2>1
    <3> QED BY <1>0, <3>2, <3>4, <3>5, UpsertGood DEF After
  <2> QED BY <2>2, <2>3
<1>13. CASE Refreshed(j)
  <2>1. r.pc \in HubIn /\ "send" \in HubIn \ {"hubpersist"} /\ q = [r EXCEPT !.pc = "send"]
    BY <1>13 DEF Refreshed, At, HubIn, Goto
  <2> QED BY <1>n, <2>1
<1>14. CASE BeginHub(j)
  <2>1. r.pc = "hubcall" /\ r.pc \notin Looking /\ q = Call(r, "hub", "end")
    BY <1>14 DEF BeginHub, At, Goto, Looking
  <2>2. Meets(r, "hub", A, v) /\ Meets(r, "end", A, v)
    BY <1>p, <2>1 DEF Meets, SlackIn, HubIn, Drops, Ends
  <2>3. "end" \in After
    BY DEF After, Outer
  <2> QED BY <1>0, <2>1, <2>2, <2>3, CallGood
<1> QED BY <1>1, <1>2, <1>3, <1>4, <1>5, <1>6, <1>7, <1>8, <1>9, <1>10, <1>11, <1>12, <1>13, <1>14 DEF HubStep

\* A request that is about to call nothing may look at any record.
LEMMA SrcSane ==
  ASSUME NEW b, NEW m, NEW A, NEW v, NEW r, Sane(r, b, m, A, v), NEW q, Typed(q, b, m, v),
         q.todo = r.todo, q.kind = r.kind, q.prov = r.prov, q.hc = r.hc, q.old = r.old, q.cl = r.cl, q.tok = r.tok
  PROVE  Sane(q, b, m, A, v)
<1> DEFINE S == {l \in After : Meets(r, l, A, v)}
<1> DEFINE T == {l \in After : Meets(q, l, A, v)}
<1>1. \A l \in After : l \notin {"writing", "move", "slack", "pivot", "bind"}
  BY DEF After, Outer
<1>2. S \subseteq T
  BY <1>1 DEF Meets
<1>3. r.todo \in Seq(S)
  BY DEF Sane
<1> HIDE DEF S, T
<1>4. q.todo \in Seq(T)
  BY <1>2, <1>3, Grows
<1> USE DEF T
<1> QED BY <1>4 DEF Sane

\* A shell is a record.
LEMMA ShellReal ==
  ASSUME NEW b, Limit(b), NEW x \in Names, x # "", NEW y \in Names, NEW z, z = Shell(x, y)
  PROVE  Real(z, b)
<1>1. DOMAIN z = RowFields /\ z.ws = x /\ z.prov = "slack" /\ z.link = y /\ z.n = 0
  BY DEF Shell, NoRow, RowFields
<1>2. 0 \in 0..b.all
  BY Zero
<1> QED BY <1>1, <1>2 DEF Real, IsRow, Provs

\* What an installation, in Slack or in HubSpot, is.
LEMMA InstallKind ==
  ASSUME NEW k, NEW l \in Lane(k)
  PROVE  (l \in OfInstall => k = "install") /\ (l \in OfHubInstall => k = "installhub")
  BY DEF Lane, Ends, Common, Own, OwnInner, Begins, OfInstall, OfHubInstall

(* What a step of an installation or an uninstall leaves its request with. *)
LEMMA LifeGood ==
  ASSUME NEW j \in Jobs, DOMAIN job = Jobs, NEW r, r = job[j], NEW q, q = job'[j],
         NEW b, Limit(b), NEW m \in Nat, NEW A, NEW v, SlackTyped, HubTyped, slack'.gen \in 0..b.all, hub'.gen \in 0..b.hub,
         RowsTyped(b), CacheTyped(b), SpacesTyped, Good(r, b, m, A, v), LifeStep(j)
  PROVE  Sane(q, b, m, A, v) /\ Placed(q, A, v)
<1>0. Framed(r) /\ DOMAIN r = Fields /\ Sane(r, b, m, A, v) /\ Placed(r, A, v) /\ Typed(r, b, m, v)
  BY DEF Good, Framed, Shaped, Sane
<1>t. /\ Maybe(r.rec, b) /\ Maybe(r.new, b) /\ IsRow(r.old, b) /\ r.tok \in 0..b.hub /\ r.got \in 0..b.all
      /\ r.ws \in Spaces /\ r.uws \in Spaces /\ r.p \in Processes /\ r.state \in Names
  BY <1>0 DEF Typed
<1>f. Framed(r) /\ Placed(r, A, v)
  BY <1>0
<1>p. ASSUME r.pc \notin Looking
      PROVE  /\ Meets(r, r.pc, A, v) /\ r.pc \in Lane(r.kind) /\ (r.pc \in Inner => r.todo # <<>>)
             /\ (r.pc \in Fresh => r.todo = <<>>)
  BY <1>f, <1>p, At1
<1>o. ASSUME r.pc \notin Looking, r.pc \in Own PROVE r.kind # "install" /\ r.kind # "installhub"
  BY <1>o, <1>p, OwnKind
<1>i. ASSUME r.pc \notin Looking
      PROVE  (r.pc \in OfInstall => r.kind = "install") /\ (r.pc \in OfHubInstall => r.kind = "installhub")
  BY <1>i, <1>p, InstallKind
<1>k. \A x \in Spaces, y \in Provs : <<x, y>> \in Keys
  BY DEF Spaces, Provs, Keys
<1>n. IsRow(NoRow, b) /\ NoRow.ws = "" /\ 0 \in 0..b.all
  <2>1. 0 \in 0..b.all
    BY Zero
  <2> QED BY <2>1 DEF IsRow, NoRow, RowFields, Names
<1>m. \A x : (Maybe(x, b) => IsRow(x, b)) /\ (Maybe(x, b) /\ x # NoRow => x.ws \in Spaces /\ x.prov \in Provs)
  BY <1>n DEF Maybe, Real, IsRow, Names
<1>e. "end" \in After /\ \A s : s.kind # "installhub" => Meets(s, "end", A, v)
  BY DEF After, Outer, Meets, SlackIn, HubIn, Drops
<1>a. ASSUME NEW l, Meets(r, l, A, v), l \notin Looking \cup {"client", "hubpersist", "redirect", "persist", "bind"},
             q = [r EXCEPT !.pc = l]
      PROVE  Sane(q, b, m, A, v) /\ Placed(q, A, v)
  <2>1. Alike(q, r) /\ q.todo = r.todo /\ q.new = r.new /\ q.rec = r.rec /\ q.pc = l
    BY <1>0, <1>a DEF Fields, Alike
  <2> QED BY <1>0, <1>a, <1>t, <2>1, GoesGood
<1>r. ASSUME NEW ok, q = Return(r, ok), r.pc \in OwnInner
      PROVE  Sane(q, b, m, A, v) /\ Placed(q, A, v)
  BY <1>0, <1>r, OwnLane, ReturnGood
<1>l. ASSUME NEW s, DOMAIN s = Fields, Sane(s, b, m, A, v), NEW x \in Spaces, NEW y \in Provs, NEW l, Meets(s, l, A, v),
             l \notin Looking \cup {"client", "hubpersist", "redirect", "persist", "bind"}, q = Lookup(s, <<x, y>>, l)
      PROVE  Sane(q, b, m, A, v) /\ Placed(q, A, v)
  <2>1. PICK k \in Keys : k = <<x, y>>
    BY <1>k
  <2>2. q = Lookup(s, k, l)
    BY <1>l, <2>1
  <2> QED BY <1>l, <2>2, LookupGood
<1>d. ASSUME NEW s, DOMAIN s = Fields, Sane(s, b, m, A, v), NEW x \in Spaces, NEW y \in Provs, NEW l \in After,
             Meets(s, l, A, v), q = Delete(s, <<x, y>>, l)
      PROVE  Sane(q, b, m, A, v) /\ Placed(q, A, v)
  <2>1. PICK k \in Keys : k = <<x, y>>
    BY <1>k
  <2>2. q = Delete(s, k, l)
    BY <1>d, <2>1
  <2> QED BY <1>d, <2>2, DeleteGood
<1>w. ASSUME q = Wipe(r), r.pc \in OwnInner, r.pc \notin Looking, Meets(r, "wipe", A, v)
      PROVE  Sane(q, b, m, A, v) /\ Placed(q, A, v)
  <2>1. /\ q.kind = r.kind /\ q.p = r.p /\ q.ws = r.ws /\ q.uws = r.uws /\ q.state = r.state /\ q.prov = r.prov
        /\ q.hc = r.hc /\ q.cl = r.cl /\ q.tok = r.tok /\ q.got = r.got /\ q.src = r.src /\ q.old = r.old
        /\ q.left = {"hubspot", "slack"} /\ q.goal = r.goal /\ q.todo = r.todo /\ q.new = r.new /\ q.rec = r.rec /\ q.pc = "wipe"
    BY <1>0, <1>w DEF Fields, Wipe
  <2>2. r.kind # "install" /\ {"hubspot", "slack"} \subseteq Provs
    BY <1>o, <1>w DEF Own, Provs
  <2>3. Typed(q, b, m, v) /\ Keeps(q, r)
    BY <1>0, <2>1, <2>2 DEF Typed, Keeps
  <2>4. Sane(q, b, m, A, v) /\ Meets(q, "wipe", A, v)
    BY <1>0, <1>w, <2>3, KeepsSane, KeepsMeets
  <2> QED BY <2>1, <2>4, ArrivesGood DEF Looking
<1>1. CASE BeginUninstall(j)
  <2>1. r.pc = "uninstall" /\ r.pc \notin Looking /\ r.pc \in Own
    BY <1>1 DEF BeginUninstall, At, Looking, Own, Begins
  <2>2. CASE q = Ended(r, "done")
    BY <1>0, <2>2, EndedGood DEF Ends
  <2>3. ASSUME NEW s, s = [r EXCEPT !.todo = <<"end">>], q = Lookup(s, <<r.ws, "hubspot">>, "drophub")
        PROVE  Sane(q, b, m, A, v) /\ Placed(q, A, v)
    <3>1. /\ s.kind = r.kind /\ s.p = r.p /\ s.ws = r.ws /\ s.uws = r.uws /\ s.state = r.state /\ s.prov = r.prov
          /\ s.hc = r.hc /\ s.cl = r.cl /\ s.tok = r.tok /\ s.got = r.got /\ s.src = r.src /\ s.old = r.old
          /\ s.left = r.left /\ s.goal = r.goal /\ s.todo = <<"end">> /\ s.new = r.new /\ s.rec = r.rec /\ DOMAIN s = Fields
      BY <1>0, <2>3 DEF Fields
    <3>2. Typed(s, b, m, v)
      BY <1>0, <3>1 DEF Typed
    <3>3. Meets(s, "end", A, v) /\ "end" \in After
      BY <1>e, <1>o, <2>1, <3>1
    <3>4. Sane(s, b, m, A, v)
      BY <3>1, <3>2, <3>3, SingleSane
    <3>5. Meets(s, "drophub", A, v)
      BY <1>o, <1>p, <2>1, <3>1 DEF Meets, SlackIn, HubIn, Drops, Ends
    <3> QED BY <1>l, <1>t, <2>3, <3>1, <3>4, <3>5 DEF Looking, Provs
  <2> QED BY <1>1, <2>2, <2>3 DEF BeginUninstall, Goto
<1>2. CASE BeginRevoked(j)
  <2>1. r.pc = "revoked" /\ r.pc \notin Looking /\ r.pc \in OwnInner
    BY <1>2 DEF BeginRevoked, At, Looking, OwnInner
  <2>2. Meets(r, "dropslack", A, v)
    BY <1>p, <2>1 DEF Meets, SlackIn, HubIn, Drops, Ends
  <2>3. q = Return(r, TRUE) \/ q = [r EXCEPT !.pc = "dropslack"]
    BY <1>2 DEF BeginRevoked, Goto
  <2> QED BY <1>a, <1>r, <2>1, <2>2, <2>3 DEF Looking
<1>3. CASE DropHubSpot(j)
  <2>1. r.pc = "drophub" /\ r.pc \notin Looking
    BY <1>3 DEF DropHubSpot, At, Looking
  <2>2. Meets(r, "dropslack", A, v) /\ Meets(r, "hub", A, v)
    BY <1>p, <2>1 DEF Meets, SlackIn, HubIn, Drops, Ends
  <2>3. CASE q = [r EXCEPT !.pc = "dropslack"]
    BY <1>a, <2>2, <2>3 DEF Looking
  <2>4. CASE q = Call(r, "hub", "dropslack")
    BY <1>0, <2>2, <2>4, CallGood DEF After
  <2> QED BY <1>3, <2>3, <2>4 DEF DropHubSpot, Goto
<1>4. CASE DropSlack(j)
  <2>1. r.pc = "dropslack" /\ r.pc \notin Looking
    BY <1>4 DEF DropSlack, At, Looking
  <2>2. Meets(r, "revoke", A, v)
    BY <1>p, <2>1 DEF Meets, SlackIn, HubIn, Drops, Ends
  <2>3. q = Lookup(r, <<r.uws, "slack">>, "revoke")
    BY <1>4 DEF DropSlack, Goto
  <2> QED BY <1>0, <1>l, <1>t, <2>2, <2>3 DEF Looking, Provs
<1>5. CASE Revoke(j)
  <2>1. r.pc = "revoke" /\ r.pc \notin Looking /\ r.pc \in OwnInner
    BY <1>5 DEF Revoke, At, Looking, OwnInner
  <2>2. Meets(r, "wipe", A, v) /\ Meets(r, "wipeall", A, v) /\ Meets(r, "appsuninstall", A, v)
        /\ (r.kind = "uninstall" \/ v >= 1)
    BY <1>p, <2>1 DEF Meets, SlackIn, HubIn, Drops, Ends
  <2>3. "wipeall" \in After /\ {"appsuninstall", "slack"} \subseteq {"hub", "revoked", "slack", "appsuninstall", "writing"}
    BY DEF After
  <2>4. CASE r.rec = NoRow
    BY <1>5, <1>w, <2>1, <2>2, <2>4 DEF Revoke, Goto
  <2>5. CASE r.rec # NoRow /\ HasToken(r.rec)
    <3>1. PICK s : s = [r EXCEPT !.src = r.rec]
      OBVIOUS
    <3>2. /\ s.kind = r.kind /\ s.p = r.p /\ s.ws = r.ws /\ s.uws = r.uws /\ s.state = r.state /\ s.prov = r.prov
          /\ s.hc = r.hc /\ s.cl = r.cl /\ s.tok = r.tok /\ s.got = r.got /\ s.src = r.rec /\ s.old = r.old
          /\ s.left = r.left /\ s.goal = r.goal /\ s.todo = r.todo /\ s.new = r.new /\ s.rec = r.rec /\ DOMAIN s = Fields
      BY <1>0, <3>1 DEF Fields
    <3>3. Typed(s, b, m, v) /\ Keeps(s, r)
      BY <1>0, <1>t, <2>5, <3>2 DEF Typed, Keeps
    <3>4. Sane(s, b, m, A, v) /\ Meets(s, "appsuninstall", A, v) /\ Meets(s, "wipeall", A, v)
      BY <1>0, <2>2, <3>3, KeepsSane, KeepsMeets
    <3>5. DOMAIN s = Fields /\ q = Call(s, "appsuninstall", "wipeall")
      BY <1>5, <2>5, <3>1, <3>2 DEF Revoke, Goto
    <3> QED BY <2>3, <3>4, <3>5, CallGood
  <2>6. CASE r.rec # NoRow /\ ~HasToken(r.rec)
    <3>1. PICK s : s = [r EXCEPT !.src = r.rec, !.goal = "appsuninstall"]
      OBVIOUS
    <3>2. /\ s.kind = r.kind /\ s.p = r.p /\ s.ws = r.ws /\ s.uws = r.uws /\ s.state = r.state /\ s.prov = r.prov
          /\ s.hc = r.hc /\ s.cl = r.cl /\ s.tok = r.tok /\ s.got = r.got /\ s.src = r.rec /\ s.old = r.old
          /\ s.left = r.left /\ s.goal = "appsuninstall" /\ s.todo = r.todo /\ s.new = r.new /\ s.rec = r.rec /\ DOMAIN s = Fields
      BY <1>0, <3>1 DEF Fields
    <3>3. Typed(s, b, m, v) /\ Keeps(s, r)
      BY <1>0, <1>t, <2>2, <2>6, <3>2 DEF Typed, Keeps
    <3>4. Sane(s, b, m, A, v) /\ Meets(s, "wipeall", A, v)
      BY <1>0, <2>2, <3>3, KeepsSane, KeepsMeets
    <3>5. Meets(s, "slack", A, v)
      BY <2>2, <2>6, <3>2 DEF Meets, SlackIn, HubIn, Drops, Ends
    <3>6. DOMAIN s = Fields /\ q = Call(s, "slack", "wipeall")
      BY <1>5, <2>6, <3>1, <3>2 DEF Revoke, Goto, UseSlack
    <3> QED BY <2>3, <3>4, <3>5, <3>6, CallGood
  <2> QED BY <2>4, <2>5, <2>6
<1>6. CASE AppsUninstall(j)
  <2>1. r.pc \in OwnInner /\ q = Return(r, TRUE)
    BY <1>6 DEF AppsUninstall, At, OwnInner, Goto
  <2> QED BY <1>r, <2>1
<1>7. CASE WipeAll(j)
  <2>1. r.pc = "wipeall" /\ r.pc \notin Looking /\ r.pc \in OwnInner /\ q = Wipe(r)
    BY <1>7 DEF WipeAll, At, Looking, OwnInner, Goto
  <2>2. Meets(r, "wipe", A, v)
    BY <1>p, <2>1 DEF Meets, SlackIn, HubIn, Drops, Ends
  <2> QED BY <1>w, <2>1, <2>2
<1>8. CASE WipeOne(j)
  <2>1. r.pc = "wipe" /\ r.pc \notin Looking /\ r.pc \in Own
    BY <1>8 DEF WipeOne, At, Looking, OwnInner, Own
  <2>2. Meets(r, "wipe", A, v) /\ r.kind # "install" /\ r.left \subseteq Provs
    BY <1>0, <1>o, <1>p, <2>1 DEF Typed
  <2>3. PICK u \in r.left : q = Delete([r EXCEPT !.left = r.left \ {u}], <<r.uws, u>>, "wipe")
    BY <1>8 DEF WipeOne, Goto
  <2>4. PICK s : s = [r EXCEPT !.left = r.left \ {u}]
    OBVIOUS
  <2>5. /\ s.kind = r.kind /\ s.p = r.p /\ s.ws = r.ws /\ s.uws = r.uws /\ s.state = r.state /\ s.prov = r.prov
        /\ s.hc = r.hc /\ s.cl = r.cl /\ s.tok = r.tok /\ s.got = r.got /\ s.src = r.src /\ s.old = r.old
        /\ s.left = r.left \ {u} /\ s.goal = r.goal /\ s.todo = r.todo /\ s.new = r.new /\ s.rec = r.rec /\ DOMAIN s = Fields
    BY <1>0, <2>4 DEF Fields
  <2>6. Typed(s, b, m, v) /\ Keeps(s, r)
    BY <1>0, <2>2, <2>5 DEF Typed, Keeps
  <2>7. Sane(s, b, m, A, v) /\ Meets(s, "wipe", A, v)
    BY <1>0, <2>2, <2>6, KeepsSane, KeepsMeets
  <2>8. q = Delete(s, <<r.uws, u>>, "wipe") /\ DOMAIN s = Fields /\ u \in Provs /\ "wipe" \in After
    BY <2>2, <2>3, <2>4, <2>5 DEF After
  <2> QED BY <1>d, <1>t, <2>7, <2>8
<1>9. CASE WipeMappings(j)
  <2>1. r.pc \in OwnInner /\ q = Return(r, TRUE)
    BY <1>9 DEF WipeMappings, At, OwnInner, Goto
  <2> QED BY <1>r, <2>1
<1>10. CASE BeginUnhub(j)
  <2>1. r.pc = "unhub" /\ r.pc \notin Looking /\ r.pc \in Own
    BY <1>10 DEF BeginUnhub, At, Looking, Own, Begins
  <2>2. PICK s : s = [r EXCEPT !.todo = <<"end">>]
    OBVIOUS
  <2>3. /\ s.kind = r.kind /\ s.p = r.p /\ s.ws = r.ws /\ s.uws = r.uws /\ s.state = r.state /\ s.prov = r.prov
        /\ s.hc = r.hc /\ s.cl = r.cl /\ s.tok = r.tok /\ s.got = r.got /\ s.src = r.src /\ s.old = r.old
        /\ s.left = r.left /\ s.goal = r.goal /\ s.todo = <<"end">> /\ s.new = r.new /\ s.rec = r.rec /\ DOMAIN s = Fields
    BY <1>0, <2>2 DEF Fields
  <2>4. Typed(s, b, m, v)
    BY <1>0, <2>3 DEF Typed
  <2>5. Meets(s, "end", A, v) /\ "end" \in After
    BY <1>e, <1>o, <2>1, <2>3
  <2>6. Sane(s, b, m, A, v)
    BY <2>3, <2>4, <2>5, SingleSane
  <2>7. Meets(s, "hub", A, v) /\ Meets(s, "delhub", A, v) /\ "delhub" \in After
    BY <1>o, <2>1, <2>3 DEF Meets, SlackIn, HubIn, Drops, Ends, After, Outer
  <2>8. q = Call(s, "hub", "delhub") /\ DOMAIN s = Fields
    BY <1>10, <2>2, <2>3 DEF BeginUnhub, Goto
  <2> QED BY <2>6, <2>7, <2>8, CallGood
<1>11. CASE DeleteHub(j)
  <2>1. r.pc = "delhub" /\ r.pc \notin Looking /\ r.pc \in Own
    BY <1>11 DEF DeleteHub, At, Looking, Own
  <2>2. Meets(r, "end", A, v) /\ "end" \in After
    BY <1>e, <1>o, <2>1
  <2>3. q = Delete(r, <<r.ws, "hubspot">>, "end")
    BY <1>11 DEF DeleteHub, Goto
  <2> QED BY <1>0, <1>d, <1>t, <2>2, <2>3 DEF Provs
<1>12. CASE BeginUnslack(j)
  <2>1. r.pc = "unslack" /\ r.pc \notin Looking
    BY <1>12 DEF BeginUnslack, At, Looking
  <2>2. Meets(r, "delslack", A, v)
    BY <1>p, <2>1 DEF Meets, SlackIn, HubIn, Drops, Ends
  <2>3. q = Lookup(r, <<r.ws, "slack">>, "delslack")
    BY <1>12 DEF BeginUnslack, Goto
  <2> QED BY <1>0, <1>l, <1>t, <2>2, <2>3 DEF Looking, Provs
<1>13. CASE DeleteSlack(j)
  <2>1. r.pc = "delslack" /\ r.pc \notin Looking /\ r.pc \in Own
    BY <1>13 DEF DeleteSlack, At, Looking, Own
  <2>2. PICK s : s = [r EXCEPT !.src = r.rec]
    OBVIOUS
  <2>3. /\ s.kind = r.kind /\ s.p = r.p /\ s.ws = r.ws /\ s.uws = r.uws /\ s.state = r.state /\ s.prov = r.prov
        /\ s.hc = r.hc /\ s.cl = r.cl /\ s.tok = r.tok /\ s.got = r.got /\ s.src = r.rec /\ s.old = r.old
        /\ s.left = r.left /\ s.goal = r.goal /\ s.todo = r.todo /\ s.new = r.new /\ s.rec = r.rec /\ DOMAIN s = Fields
    BY <1>0, <2>2 DEF Fields
  <2>4. Typed(s, b, m, v)
    BY <1>0, <1>t, <2>3 DEF Typed
  <2>5. r.kind # "installhub"
    BY <1>o, <2>1
  <2>6. Sane(s, b, m, A, v)
    BY <1>0, <2>3, <2>4, SrcSane
  <2>7. Meets(s, "dropclients", A, v) /\ "dropclients" \in After
    BY <2>3, <2>5 DEF Meets, SlackIn, HubIn, Drops, Ends, After, Outer
  <2>8. q = Delete(s, <<r.ws, "slack">>, "dropclients") /\ DOMAIN s = Fields
    BY <1>13, <2>2, <2>3 DEF DeleteSlack, Goto
  <2> QED BY <1>d, <1>t, <2>6, <2>7, <2>8 DEF Provs
<1>14. CASE DropClients(j) \/ Conflict(j)
  <2>1. PICK l \in Ends : q = Ended(r, l)
    BY <1>14 DEF DropClients, Conflict, Goto, Ends
  <2> QED BY <1>0, <2>1, EndedGood
<1>15. CASE BeginInstall(j)
  <2>1. r.pc = "install" /\ r.pc \notin Looking /\ r.pc \in OfInstall /\ r.pc \in Fresh
    BY <1>15 DEF BeginInstall, At, Looking, OfInstall, Fresh
  <2>2. r.kind = "install" /\ r.todo = <<>>
    BY <1>i, <1>p, <2>1
  <2>3. slack.gen + 1 \in 0..b.all
    BY <1>15 DEF BeginInstall, SlackTyped
  <2>4. PICK w \in Spaces : q = Lookup([r EXCEPT !.got = slack.gen + 1, !.ws = w], <<w, "slack">>, "register")
    BY <1>15 DEF BeginInstall, Goto, SpacesTyped, Spaces
  <2>5. PICK s : s = [r EXCEPT !.got = slack.gen + 1, !.ws = w]
    OBVIOUS
  <2>6. /\ s.kind = r.kind /\ s.p = r.p /\ s.ws = w /\ s.uws = r.uws /\ s.state = r.state /\ s.prov = r.prov
        /\ s.hc = r.hc /\ s.cl = r.cl /\ s.tok = r.tok /\ s.got = slack.gen + 1 /\ s.src = r.src /\ s.old = r.old
        /\ s.left = r.left /\ s.goal = r.goal /\ s.todo = r.todo /\ s.new = r.new /\ s.rec = r.rec /\ DOMAIN s = Fields
    BY <1>0, <2>5 DEF Fields
  <2>7. Typed(s, b, m, v)
    BY <1>0, <2>3, <2>6 DEF Typed
  <2>8. Sane(s, b, m, A, v)
    BY <2>2, <2>6, <2>7, EmptySane
  <2>9. Meets(s, "register", A, v)
    BY <2>2, <2>6 DEF Meets, SlackIn, HubIn, Drops, Ends
  <2>10. q = Lookup(s, <<w, "slack">>, "register") /\ DOMAIN s = Fields
    BY <2>4, <2>5, <2>6
  <2> QED BY <1>l, <2>8, <2>9, <2>10 DEF Looking, Provs
<1>16. CASE Register(j)
  <2>1. r.pc = "register" /\ r.pc \notin Looking /\ r.pc \in OfInstall /\ r.pc \in Fresh
    BY <1>16 DEF Register, At, Looking, OfInstall, Fresh
  <2>2. r.kind = "install" /\ r.todo = <<>>
    BY <1>i, <1>p, <2>1
  <2>3. CASE r.state # "" /\ r.rec # NoRow /\ r.rec.ws # r.state
    <3>1. PICK S : S = {y \in rows : y.ws = r.state}
      OBVIOUS
    <3>2. PICK s : s = [r EXCEPT !.old = r.rec]
      OBVIOUS
    <3>3. q = [s EXCEPT !.pc = "merge", !.left = S]
      BY <1>16, <2>3, <3>1, <3>2 DEF Register, Goto
    <3>4. /\ q.kind = r.kind /\ q.p = r.p /\ q.ws = r.ws /\ q.uws = r.uws /\ q.state = r.state /\ q.prov = r.prov
          /\ q.hc = r.hc /\ q.cl = r.cl /\ q.tok = r.tok /\ q.got = r.got /\ q.src = r.src /\ q.old = r.rec
          /\ q.left = S /\ q.goal = r.goal /\ q.todo = r.todo /\ q.new = r.new /\ q.rec = r.rec /\ q.pc = "merge"
      BY <1>0, <3>2, <3>3 DEF Fields
    <3>5. \A x \in S : Real(x, b)
      BY <3>1 DEF RowsTyped
    <3>6. Typed(q, b, m, v)
      BY <1>0, <1>m, <1>t, <2>2, <3>4, <3>5 DEF Typed
    <3>7. Sane(q, b, m, A, v)
      BY <2>2, <3>4, <3>6, EmptySane
    <3>8. r.rec.ws # ""
      BY <1>m, <1>t, <2>3 DEF Spaces
    <3>9. Meets(q, "merge", A, v)
      BY <2>2, <3>4, <3>8 DEF Meets, SlackIn, HubIn, Drops, Ends
    <3> QED BY <3>4, <3>7, <3>9, ArrivesGood DEF Looking
  <2>4. CASE ~(r.state # "" /\ r.rec # NoRow /\ r.rec.ws # r.state)
    <3>1. PICK w : w = IF r.state # "" THEN r.state ELSE r.ws
      OBVIOUS
    <3>2. PICK s : s = [r EXCEPT !.old = r.rec]
      OBVIOUS
    <3>3. q = [s EXCEPT !.pc = "save", !.ws = w]
      BY <1>16, <2>4, <3>1, <3>2 DEF Register, Goto
    <3>4. /\ q.kind = r.kind /\ q.p = r.p /\ q.ws = w /\ q.uws = r.uws /\ q.state = r.state /\ q.prov = r.prov
          /\ q.hc = r.hc /\ q.cl = r.cl /\ q.tok = r.tok /\ q.got = r.got /\ q.src = r.src /\ q.old = r.rec
          /\ q.left = r.left /\ q.goal = r.goal /\ q.todo = r.todo /\ q.new = r.new /\ q.rec = r.rec /\ q.pc = "save"
      BY <1>0, <3>2, <3>3 DEF Fields
    <3>5. w \in Spaces
      BY <1>t, <3>1 DEF Names
    <3>6. Typed(q, b, m, v)
      BY <1>0, <1>m, <1>t, <3>4, <3>5 DEF Typed
    <3>7. Sane(q, b, m, A, v)
      BY <2>2, <3>4, <3>6, EmptySane
    <3>8. Meets(q, "save", A, v)
      BY <2>2, <3>4 DEF Meets, SlackIn, HubIn, Drops, Ends
    <3> QED BY <3>4, <3>7, <3>8, ArrivesGood DEF Looking
  <2> QED BY <2>3, <2>4
<1>17. CASE Merge(j)
  <2>1. r.pc = "merge" /\ r.pc \notin Looking /\ r.pc \in OfInstall
    BY <1>17 DEF Merge, At, Looking, OfInstall
  <2>2. r.kind = "install" /\ r.old.ws # ""
    BY <1>i, <1>p, <2>1 DEF Meets
  <2>3. r.old.ws \in Spaces
    BY <1>t, <2>2 DEF IsRow, Names
  <2>4. PICK x \in r.left : q = Lookup([r EXCEPT !.new = x, !.left = r.left \ {x}], <<r.old.ws, x.prov>>, "move")
    BY <1>17 DEF Merge, Goto
  <2>5. Real(x, b) /\ \A y \in r.left : Real(y, b)
    BY <1>0, <2>2 DEF Typed
  <2>6. x.prov \in Provs /\ x # NoRow /\ Maybe(x, b)
    BY <1>n, <2>5 DEF Real, IsRow, Maybe
  <2>7. PICK s : s = [r EXCEPT !.new = x, !.left = r.left \ {x}]
    OBVIOUS
  <2>8. /\ s.kind = r.kind /\ s.p = r.p /\ s.ws = r.ws /\ s.uws = r.uws /\ s.state = r.state /\ s.prov = r.prov
        /\ s.hc = r.hc /\ s.cl = r.cl /\ s.tok = r.tok /\ s.got = r.got /\ s.src = r.src /\ s.old = r.old
        /\ s.left = r.left \ {x} /\ s.goal = r.goal /\ s.todo = r.todo /\ s.new = x /\ s.rec = r.rec /\ DOMAIN s = Fields
    BY <1>0, <2>7 DEF Fields
  <2>9. Typed(s, b, m, v) /\ Keeps(s, r)
    BY <1>0, <2>2, <2>5, <2>6, <2>8 DEF Typed, Keeps
  <2>10. Sane(s, b, m, A, v)
    BY <1>0, <2>9, KeepsSane
  <2>11. Meets(s, "move", A, v)
    BY <2>2, <2>6, <2>8 DEF Meets, SlackIn, HubIn, Drops, Ends
  <2>12. q = Lookup(s, <<r.old.ws, x.prov>>, "move") /\ DOMAIN s = Fields
    BY <2>4, <2>7, <2>8
  <2> QED BY <1>l, <2>3, <2>6, <2>10, <2>11, <2>12 DEF Looking
<1>18. CASE Move(j)
  <2>1. r.pc = "move" /\ r.pc \notin Looking /\ r.pc \in OfInstall
    BY <1>18 DEF Move, At, Looking, OfInstall
  <2>2. r.kind = "install" /\ r.old.ws # "" /\ r.new # NoRow
    BY <1>i, <1>p, <2>1 DEF Meets
  <2>3. PICK x : x = [r.new EXCEPT !.ws = r.old.ws]
    OBVIOUS
  <2>4. q = Upsert(r, x, "merge")
    BY <1>18, <2>3 DEF Move, Goto
  <2>5. Real(x, b)
    BY <1>t, <2>2, <2>3 DEF Maybe, Real, IsRow, RowFields
  <2>6. Meets(r, "merge", A, v) /\ "merge" \in After
    BY <2>2 DEF Meets, SlackIn, HubIn, Drops, Ends, After, Outer
  <2> QED BY <1>0, <2>4, <2>5, <2>6, UpsertGood
<1>19. CASE Merged(j)
  <2>1. r.pc = "merge" /\ r.pc \notin Looking /\ r.pc \in OfInstall
    BY <1>19 DEF Merged, At, Looking, OfInstall
  <2>2. r.kind = "install" /\ r.old.ws # ""
    BY <1>i, <1>p, <2>1 DEF Meets
  <2>3. r.old.ws \in Spaces
    BY <1>t, <2>2 DEF IsRow, Names
  <2>4. q = [r EXCEPT !.pc = "save", !.ws = r.old.ws]
    BY <1>19 DEF Merged, Goto
  <2>5. /\ q.kind = r.kind /\ q.p = r.p /\ q.ws = r.old.ws /\ q.uws = r.uws /\ q.state = r.state /\ q.prov = r.prov
        /\ q.hc = r.hc /\ q.cl = r.cl /\ q.tok = r.tok /\ q.got = r.got /\ q.src = r.src /\ q.old = r.old
        /\ q.left = r.left /\ q.goal = r.goal /\ q.todo = r.todo /\ q.new = r.new /\ q.rec = r.rec /\ q.pc = "save"
    BY <1>0, <2>4 DEF Fields
  <2>6. Typed(q, b, m, v) /\ Keeps(q, r)
    BY <1>0, <2>3, <2>5 DEF Typed, Keeps
  <2>7. Sane(q, b, m, A, v)
    BY <1>0, <2>6, KeepsSane
  <2>8. Meets(q, "save", A, v)
    BY <2>2, <2>5 DEF Meets, SlackIn, HubIn, Drops, Ends
  <2> QED BY <2>5, <2>7, <2>8, ArrivesGood DEF Looking
<1>20. CASE Save(j)
  <2>1. r.pc = "save" /\ r.pc \notin Looking /\ r.pc \in OfInstall
    BY <1>20 DEF Save, At, Looking, OfInstall
  <2>2. r.kind = "install"
    BY <1>i, <2>1
  <2>3. PICK x : x = [id |-> r.old.id, ws |-> r.ws, prov |-> "slack", n |-> r.got, link |-> r.old.link]
    OBVIOUS
  <2>4. q = Upsert(r, x, "end")
    BY <1>20, <2>3 DEF Save, Goto
  <2>5. Real(x, b)
    BY <1>t, <2>3 DEF Real, IsRow, RowFields, Spaces, Names, Provs
  <2> QED BY <1>0, <1>e, <2>2, <2>4, <2>5, UpsertGood
<1>21. CASE BeginHubInstall(j)
  <2>1. r.pc = "installhub" /\ r.pc \notin Looking /\ r.pc \in OfHubInstall /\ r.pc \in Fresh
    BY <1>21 DEF BeginHubInstall, At, Looking, OfHubInstall, Fresh
  <2>2. r.kind = "installhub" /\ r.todo = <<>>
    BY <1>i, <1>p, <2>1
  <2>3. hub.gen + 1 \in 0..b.hub /\ hub.gen + 1 >= 1
    <3>1. hub' = [hub EXCEPT !.gen = @ + 1]
      BY <1>21 DEF BeginHubInstall
    <3>2. hub.gen \in Nat /\ hub'.gen = hub.gen + 1
      BY <3>1 DEF HubTyped
    <3> QED BY <3>2
  <2>4. PICK s : s = [r EXCEPT !.tok = hub.gen + 1]
    OBVIOUS
  <2>5. /\ s.kind = r.kind /\ s.p = r.p /\ s.ws = r.ws /\ s.uws = r.uws /\ s.state = r.state /\ s.prov = r.prov
        /\ s.hc = r.hc /\ s.cl = r.cl /\ s.tok = hub.gen + 1 /\ s.got = r.got /\ s.src = r.src /\ s.old = r.old
        /\ s.left = r.left /\ s.goal = r.goal /\ s.todo = r.todo /\ s.new = r.new /\ s.rec = r.rec /\ DOMAIN s = Fields
    BY <1>0, <2>4 DEF Fields
  <2>6. Typed(s, b, m, v)
    BY <1>0, <2>3, <2>5 DEF Typed
  <2>7. CASE portal = ""
    <3>1. PICK x : (x = NoRow \/ x \in rows) /\ q = [s EXCEPT !.pc = "reuse", !.rec = x]
      BY <1>21, <2>4, <2>7 DEF BeginHubInstall, Goto, Bootstrap
    <3>2. /\ q.kind = r.kind /\ q.p = r.p /\ q.ws = r.ws /\ q.uws = r.uws /\ q.state = r.state /\ q.prov = r.prov
          /\ q.hc = r.hc /\ q.cl = r.cl /\ q.tok = hub.gen + 1 /\ q.got = r.got /\ q.src = r.src /\ q.old = r.old
          /\ q.left = r.left /\ q.goal = r.goal /\ q.todo = r.todo /\ q.new = r.new /\ q.rec = x /\ q.pc = "reuse"
      BY <2>5, <3>1 DEF Fields
    <3>3. Typed(q, b, m, v)
      BY <1>0, <2>3, <3>1, <3>2 DEF Typed, Maybe, RowsTyped
    <3>4. Sane(q, b, m, A, v)
      BY <2>2, <3>2, <3>3, EmptySane
    <3>5. Meets(q, "reuse", A, v)
      BY <2>2, <2>3, <3>2 DEF Meets, SlackIn, HubIn, Drops, Ends
    <3> QED BY <3>2, <3>4, <3>5, ArrivesGood DEF Looking
  <2>8. CASE portal # ""
    <3>1. q = Lookup(s, <<portal, "hubspot">>, "reuse") /\ DOMAIN s = Fields /\ portal \in Spaces
      BY <1>21, <2>4, <2>5, <2>8 DEF BeginHubInstall, Goto, SpacesTyped, Names
    <3>2. Sane(s, b, m, A, v)
      BY <2>2, <2>5, <2>6, EmptySane
    <3>3. Meets(s, "reuse", A, v)
      BY <2>2, <2>3, <2>5 DEF Meets, SlackIn, HubIn, Drops, Ends
    <3> QED BY <1>l, <3>1, <3>2, <3>3 DEF Looking, Provs
  <2> QED BY <2>7, <2>8
<1>22. CASE Reuse(j)
  <2>1. r.pc = "reuse" /\ r.pc \notin Looking /\ r.pc \in OfHubInstall /\ r.pc \in Fresh
    BY <1>22 DEF Reuse, At, Looking, OfHubInstall, Fresh
  <2>2. r.kind = "installhub" /\ r.todo = <<>> /\ r.tok >= 1
    BY <1>i, <1>p, <2>1 DEF Meets, Ends
  <2>3. PICK s : s = [r EXCEPT !.old = r.rec]
    OBVIOUS
  <2>4. /\ s.kind = r.kind /\ s.p = r.p /\ s.ws = r.ws /\ s.uws = r.uws /\ s.state = r.state /\ s.prov = r.prov
        /\ s.hc = r.hc /\ s.cl = r.cl /\ s.tok = r.tok /\ s.got = r.got /\ s.src = r.src /\ s.old = r.rec
        /\ s.left = r.left /\ s.goal = r.goal /\ s.todo = r.todo /\ s.new = r.new /\ s.rec = r.rec /\ DOMAIN s = Fields
    BY <1>0, <2>3 DEF Fields
  <2>5. r.rec # NoRow => r.rec.ws # ""
    BY <1>m, <1>t DEF Spaces
  <2>6. CASE \E l \in {"isolate", "savehub"} : q = [s EXCEPT !.pc = l] /\ (l = "savehub" => r.rec # NoRow)
    <3>1. PICK l \in {"isolate", "savehub"} : q = [s EXCEPT !.pc = l] /\ (l = "savehub" => r.rec # NoRow)
      BY <2>6
    <3>2. /\ q.kind = r.kind /\ q.p = r.p /\ q.ws = r.ws /\ q.uws = r.uws /\ q.state = r.state /\ q.prov = r.prov
          /\ q.hc = r.hc /\ q.cl = r.cl /\ q.tok = r.tok /\ q.got = r.got /\ q.src = r.src /\ q.old = r.rec
          /\ q.left = r.left /\ q.goal = r.goal /\ q.todo = r.todo /\ q.new = r.new /\ q.rec = r.rec /\ q.pc = l
      BY <2>4, <3>1 DEF Fields
    <3>3. Typed(q, b, m, v)
      BY <1>0, <1>m, <1>t, <3>2 DEF Typed
    <3>4. Sane(q, b, m, A, v)
      BY <2>2, <3>2, <3>3, EmptySane
    <3>5. Meets(q, l, A, v)
      BY <2>2, <2>5, <3>1, <3>2 DEF Meets, SlackIn, HubIn, Drops, Ends
    <3> QED BY <3>1, <3>2, <3>4, <3>5, ArrivesGood DEF Looking
  <2>7. CASE r.rec # NoRow /\ \E w \in homes : q = Lookup(s, <<w, "slack">>, "heal")
    <3>1. PICK w \in Spaces : q = Lookup(s, <<w, "slack">>, "heal")
      BY <2>7 DEF SpacesTyped
    <3>2. Typed(s, b, m, v)
      BY <1>0, <1>m, <1>t, <2>4 DEF Typed
    <3>3. Sane(s, b, m, A, v)
      BY <2>2, <2>4, <3>2, EmptySane
    <3>4. Meets(s, "heal", A, v)
      BY <2>2, <2>4, <2>5, <2>7 DEF Meets, SlackIn, HubIn, Drops, Ends
    <3>5. DOMAIN s = Fields
      BY <2>4
    <3> QED BY <1>l, <3>1, <3>3, <3>4, <3>5 DEF Looking, Provs
  <2>8. CASE r.rec = NoRow
    <3>1. q = [s EXCEPT !.pc = "isolate"]
      BY <1>22, <2>3, <2>8 DEF Reuse, Goto
    <3> QED BY <2>6, <3>1
  <2>9. CASE r.rec # NoRow /\ (r.state = "" \/ homes = {})
    <3>1. q = [s EXCEPT !.pc = "savehub"]
      BY <1>22, <2>3, <2>9 DEF Reuse, Goto
    <3> QED BY <2>6, <2>9, <3>1
  <2>10. CASE r.rec # NoRow /\ ~(r.state = "" \/ homes = {})
    <3>1. \E w \in homes : q = Lookup(s, <<w, "slack">>, "heal")
      BY <1>22, <2>3, <2>10 DEF Reuse, Goto
    <3> QED BY <2>7, <2>10, <3>1
  <2> QED BY <2>8, <2>9, <2>10
<1>23. CASE Heal(j)
  <2>1. r.pc = "heal" /\ r.pc \notin Looking /\ r.pc \in OfHubInstall
    BY <1>23 DEF Heal, At, Looking, OfHubInstall
  <2>2. r.kind = "installhub" /\ r.tok >= 1 /\ r.old.ws # ""
    BY <1>i, <1>p, <2>1 DEF Meets, Ends
  <2>3. CASE r.rec = NoRow \/ r.rec.ws = r.old.link
    <3>1. q = [r EXCEPT !.pc = "savehub"]
      BY <1>23, <2>3 DEF Heal, Goto
    <3>2. Meets(r, "savehub", A, v)
      BY <2>2 DEF Meets, SlackIn, HubIn, Drops, Ends
    <3> QED BY <1>a, <3>1, <3>2 DEF Looking
  <2>4. CASE ~(r.rec = NoRow \/ r.rec.ws = r.old.link)
    <3>1. PICK x : x = [r.old EXCEPT !.link = r.rec.ws]
      OBVIOUS
    <3>2. r.rec.ws \in Spaces
      BY <1>m, <1>t, <2>4
    <3>3. IsRow(x, b) /\ x.ws # ""
      BY <1>t, <2>2, <3>1, <3>2 DEF IsRow, RowFields, Names
    <3>4. PICK s : s = [r EXCEPT !.old = x]
      OBVIOUS
    <3>5. /\ s.kind = r.kind /\ s.p = r.p /\ s.ws = r.ws /\ s.uws = r.uws /\ s.state = r.state /\ s.prov = r.prov
          /\ s.hc = r.hc /\ s.cl = r.cl /\ s.tok = r.tok /\ s.got = r.got /\ s.src = r.src /\ s.old = x
          /\ s.left = r.left /\ s.goal = r.goal /\ s.todo = r.todo /\ s.new = r.new /\ s.rec = r.rec /\ DOMAIN s = Fields
      BY <1>0, <3>4 DEF Fields
    <3>6. Typed(s, b, m, v) /\ Keeps(s, r)
      BY <1>0, <3>3, <3>5 DEF Typed, Keeps
    <3>7. Sane(s, b, m, A, v)
      BY <1>0, <3>6, KeepsSane
    <3>8. Meets(s, "savehub", A, v) /\ "savehub" \in After
      BY <2>2, <3>3, <3>5 DEF Meets, SlackIn, HubIn, Drops, Ends, After, Outer
    <3>9. PICK y : y = Shell(r.old.ws, r.rec.ws)
      OBVIOUS
    <3>10. Real(y, b)
      BY <1>t, <1>n, <2>2, <3>2, <3>9, ShellReal DEF IsRow, Names
    <3>11. q = Upsert(s, y, "savehub") /\ DOMAIN s = Fields
      BY <1>23, <2>4, <3>1, <3>4, <3>5, <3>9 DEF Heal, Goto
    <3> QED BY <3>7, <3>8, <3>10, <3>11, UpsertGood
  <2> QED BY <2>3, <2>4
<1>24. CASE Isolate(j)
  <2>1. r.pc = "isolate" /\ r.pc \notin Looking /\ r.pc \in OfHubInstall /\ r.pc \in Fresh
    BY <1>24 DEF Isolate, At, Looking, OfHubInstall, Fresh
  <2>2. r.kind = "installhub" /\ r.tok >= 1 /\ r.todo = <<>>
    BY <1>i, <1>p, <2>1 DEF Meets, Ends
  <2>3. CASE r.state = ""
    <3>1. PICK x : x = [NoRow EXCEPT !.ws = "W"]
      OBVIOUS
    <3>2. IsRow(x, b) /\ x.ws # ""
      BY <1>n, <3>1 DEF IsRow, NoRow, RowFields, Names, Spaces
    <3>3. q = [r EXCEPT !.old = x, !.pc = "savehub"]
      BY <1>24, <2>3, <3>1 DEF Isolate, Goto
    <3>4. /\ q.kind = r.kind /\ q.p = r.p /\ q.ws = r.ws /\ q.uws = r.uws /\ q.state = r.state /\ q.prov = r.prov
          /\ q.hc = r.hc /\ q.cl = r.cl /\ q.tok = r.tok /\ q.got = r.got /\ q.src = r.src /\ q.old = x
          /\ q.left = r.left /\ q.goal = r.goal /\ q.todo = r.todo /\ q.new = r.new /\ q.rec = r.rec /\ q.pc = "savehub"
      BY <1>0, <3>3 DEF Fields
    <3>5. Typed(q, b, m, v)
      BY <1>0, <3>2, <3>4 DEF Typed
    <3>6. Sane(q, b, m, A, v)
      BY <2>2, <3>4, <3>5, EmptySane
    <3>7. Meets(q, "savehub", A, v)
      BY <2>2, <3>2, <3>4 DEF Meets, SlackIn, HubIn, Drops, Ends
    <3> QED BY <3>4, <3>6, <3>7, ArrivesGood DEF Looking
  <2>4. CASE r.state # ""
    <3>1. q = Lookup(r, <<r.state, "slack">>, "share") /\ r.state \in Spaces
      BY <1>24, <1>t, <2>4 DEF Isolate, Goto, Names
    <3>2. Meets(r, "share", A, v)
      BY <2>2 DEF Meets, SlackIn, HubIn, Drops, Ends
    <3> QED BY <1>0, <1>l, <3>1, <3>2 DEF Looking, Provs
  <2> QED BY <2>3, <2>4
<1>25. CASE Share(j)
  <2>1. r.pc = "share" /\ r.pc \notin Looking /\ r.pc \in OfHubInstall /\ r.pc \in Fresh
    BY <1>25 DEF Share, At, Looking, OfHubInstall, Fresh
  <2>2. r.kind = "installhub" /\ r.tok >= 1 /\ r.todo = <<>>
    BY <1>i, <1>p, <2>1 DEF Meets, Ends
  <2>3. PICK x : x = [NoRow EXCEPT !.ws = "W", !.link = r.rec.ws]
    OBVIOUS
  <2>4. r.rec.ws \in Names
    BY <1>m, <1>t DEF IsRow
  <2>5. IsRow(x, b) /\ x.ws # ""
    BY <1>n, <2>3, <2>4 DEF IsRow, NoRow, RowFields, Names, Spaces
  <2>6. PICK s : s = [r EXCEPT !.old = x]
    OBVIOUS
  <2>7. /\ s.kind = r.kind /\ s.p = r.p /\ s.ws = r.ws /\ s.uws = r.uws /\ s.state = r.state /\ s.prov = r.prov
        /\ s.hc = r.hc /\ s.cl = r.cl /\ s.tok = r.tok /\ s.got = r.got /\ s.src = r.src /\ s.old = x
        /\ s.left = r.left /\ s.goal = r.goal /\ s.todo = r.todo /\ s.new = r.new /\ s.rec = r.rec /\ DOMAIN s = Fields
    BY <1>0, <2>6 DEF Fields
  <2>8. Typed(s, b, m, v)
    BY <1>0, <2>5, <2>7 DEF Typed
  <2>9. Sane(s, b, m, A, v)
    BY <2>2, <2>7, <2>8, EmptySane
  <2>10. Meets(s, "savehub", A, v) /\ "savehub" \in After
    BY <2>2, <2>5, <2>7 DEF Meets, SlackIn, HubIn, Drops, Ends, After, Outer
  <2>11. CASE r.rec = NoRow \/ r.rec.ws = "W"
    <3>1. q = [s EXCEPT !.pc = "savehub"]
      BY <1>25, <2>3, <2>6, <2>11 DEF Share, Goto
    <3>2. Alike(q, s) /\ q.todo = s.todo /\ q.new = s.new /\ q.rec = s.rec /\ q.pc = "savehub" /\ Maybe(q.rec, b)
      BY <1>t, <2>7, <3>1 DEF Fields, Alike
    <3> QED BY <2>9, <2>10, <3>2, GoesGood DEF Looking
  <2>12. CASE ~(r.rec = NoRow \/ r.rec.ws = "W")
    <3>1. PICK y : y = Shell("W", r.rec.ws)
      OBVIOUS
    <3>2. Real(y, b)
      BY <1>n, <2>4, <3>1, ShellReal DEF Names, Spaces
    <3>3. q = Upsert(s, y, "savehub") /\ DOMAIN s = Fields
      BY <1>25, <2>3, <2>6, <2>7, <2>12, <3>1 DEF Share, Goto
    <3> QED BY <2>9, <2>10, <3>2, <3>3, UpsertGood
  <2> QED BY <2>11, <2>12
<1>26. CASE SaveHub(j)
  <2>1. r.pc = "savehub" /\ r.pc \notin Looking /\ r.pc \in OfHubInstall
    BY <1>26 DEF SaveHub, At, Looking, OfHubInstall
  <2>2. r.kind = "installhub" /\ r.tok >= 1 /\ r.old.ws # ""
    BY <1>i, <1>p, <2>1 DEF Meets, Ends
  <2>3. q = Lookup(r, <<r.old.ws, "hubspot">>, "writehub")
    BY <1>26 DEF SaveHub, Goto
  <2>4. r.old.ws \in Spaces
    BY <1>t, <2>2 DEF IsRow, Names
  <2>5. Meets(r, "writehub", A, v)
    BY <2>2 DEF Meets, SlackIn, HubIn, Drops, Ends
  <2> QED BY <1>0, <1>l, <2>3, <2>4, <2>5 DEF Looking, Provs
<1>27. CASE WriteHub(j)
  <2>1. r.pc = "writehub" /\ r.pc \notin Looking /\ r.pc \in OfHubInstall
    BY <1>27 DEF WriteHub, At, Looking, OfHubInstall
  <2>2. r.kind = "installhub" /\ r.tok >= 1 /\ r.old.ws # ""
    BY <1>i, <1>p, <2>1 DEF Meets, Ends
  <2>3. PICK x : x = [id |-> r.rec.id, ws |-> r.old.ws, prov |-> "hubspot", n |-> r.tok, link |-> r.old.link]
    OBVIOUS
  <2>4. q = Upsert(r, x, "end")
    BY <1>27, <2>3 DEF WriteHub, Goto
  <2>5. Real(x, b)
    <3>1. r.tok \in 1..b.hub /\ r.tok \in 0..b.all
      BY <1>t, <2>2, Issued
    <3> QED BY <1>t, <2>2, <2>3, <3>1 DEF Real, IsRow, RowFields, Provs
  <2>6. Meets(r, "end", A, v)
    BY <2>2 DEF Meets, SlackIn, HubIn, Drops, Ends
  <2> QED BY <1>0, <1>e, <2>4, <2>5, <2>6, UpsertGood
<1> QED BY <1>1, <1>2, <1>3, <1>4, <1>5, <1>6, <1>7, <1>8, <1>9, <1>10, <1>11, <1>12, <1>13, <1>14,
           <1>15, <1>16, <1>17, <1>18, <1>19, <1>20, <1>21, <1>22, <1>23, <1>24, <1>25, <1>26, <1>27 DEF LifeStep

(* What the platforms know after a step of an installation or an uninstall. *)
LEMMA LifeGrows ==
  ASSUME NEW j \in Jobs, SlackTyped, HubTyped, LifeStep(j)
  PROVE  /\ SlackTyped' /\ slack.gen \in Nat /\ slack'.gen \in Nat /\ slack.gen <= slack'.gen
         /\ HubTyped' /\ hub.gen \in Nat /\ hub'.gen \in Nat /\ hub.gen <= hub'.gen
         /\ hub.void \in Nat /\ hub'.void \in Nat /\ hub.void <= hub'.void
<1>1. SlackTyped' /\ slack.gen \in Nat /\ slack'.gen \in Nat /\ slack.gen <= slack'.gen
  <2>1. CASE slack' = slack
    BY <2>1 DEF SlackTyped
  <2>2. CASE slack' = [slack EXCEPT !.gen = @ + 1, !.void = slack.gen]
    <3>1. slack' = [gen |-> slack.gen + 1, void |-> slack.gen, due |-> slack.due, dead |-> slack.dead]
      BY <2>2 DEF SlackTyped
    <3>2. slack.gen \in Nat /\ slack.due \in Nat /\ slack.dead \in Nat /\ slack.dead <= slack.due /\ slack.due <= slack.gen
      BY DEF SlackTyped
    <3> QED BY <3>1, <3>2 DEF SlackTyped
  <2>3. CASE slack' = [slack EXCEPT !.void = slack.gen]
    BY <2>3 DEF SlackTyped
  <2> QED BY <2>1, <2>2, <2>3 DEF LifeStep, Others, slackVars, BeginUninstall, BeginRevoked, DropHubSpot, DropSlack,
             Revoke, AppsUninstall, WipeAll, WipeOne, WipeMappings, BeginUnhub, DeleteHub, BeginUnslack, DeleteSlack,
             DropClients, BeginInstall, Register, Merge, Move, Conflict, Merged, Save, BeginHubInstall, Reuse, Heal,
             Isolate, Share, SaveHub, WriteHub
<1>2. HubTyped' /\ hub.gen \in Nat /\ hub'.gen \in Nat /\ hub.gen <= hub'.gen
      /\ hub.void \in Nat /\ hub'.void \in Nat /\ hub.void <= hub'.void
  <2>1. CASE hub' = hub
    BY <2>1 DEF HubTyped
  <2>2. CASE hub' = [hub EXCEPT !.gen = @ + 1]
    BY <2>2 DEF HubTyped
  <2> QED BY <2>1, <2>2 DEF LifeStep, Others, hubVars, BeginUninstall, BeginRevoked, DropHubSpot, DropSlack,
             Revoke, AppsUninstall, WipeAll, WipeOne, WipeMappings, BeginUnhub, DeleteHub, BeginUnslack, DeleteSlack,
             DropClients, BeginInstall, Register, Merge, Move, Conflict, Merged, Save, BeginHubInstall, Reuse, Heal,
             Isolate, Share, SaveHub, WriteHub
<1> QED BY <1>1, <1>2

(* The rows, the caches and the workspaces stay typed; no client is made.  *)
LEMMA LifeStores ==
  ASSUME NEW j \in Jobs, NEW b, NEW m, NEW A, NEW v, NEW r, r = job[j], Good(r, b, m, A, v),
         SpacesTyped, RowsTyped(b), HandlesTyped, LifeStep(j)
  PROVE  SpacesTyped' /\ RowsTyped(b)' /\ HandlesTyped' /\ cache' = cache /\ client' = client /\ hclient' = hclient
<1>1. cache' = cache /\ client' = client /\ hclient' = hclient
  BY DEF LifeStep, Others, slackVars, hubVars, BeginUninstall, BeginRevoked, DropHubSpot, DropSlack,
         Revoke, AppsUninstall, WipeAll, WipeOne, WipeMappings, BeginUnhub, DeleteHub, BeginUnslack, DeleteSlack,
         DropClients, BeginInstall, Register, Merge, Move, Conflict, Merged, Save, BeginHubInstall, Reuse, Heal,
         Isolate, Share, SaveHub, WriteHub
<1>2. rows' \subseteq rows
  BY DEF LifeStep, Others, BeginUninstall, BeginRevoked, DropHubSpot, DropSlack,
         Revoke, AppsUninstall, WipeAll, WipeOne, WipeMappings, BeginUnhub, DeleteHub, BeginUnslack, DeleteSlack,
         DropClients, BeginInstall, Register, Merge, Move, Conflict, Merged, Save, BeginHubInstall, Reuse, Heal,
         Isolate, Share, SaveHub, WriteHub
<1>3. RowsTyped(b)'
  BY <1>2 DEF RowsTyped
<1>4. r.ws \in Spaces /\ r.p \in Processes
  BY DEF Good, Sane, Typed
<1>5. SpacesTyped'
  <2>1. homes' \subseteq homes \cup {r.ws, "W"}
    BY DEF LifeStep, Others, lifeVars, BeginUninstall, BeginRevoked, DropHubSpot, DropSlack,
         Revoke, AppsUninstall, WipeAll, WipeOne, WipeMappings, BeginUnhub, DeleteHub, BeginUnslack, DeleteSlack,
         DropClients, BeginInstall, Register, Merge, Move, Conflict, Merged, Save, BeginHubInstall, Reuse, Heal,
         Isolate, Share, SaveHub, WriteHub
  <2>2. portal' \in {portal, "", "W"}
    BY DEF LifeStep, Others, lifeVars, BeginUninstall, BeginRevoked, DropHubSpot, DropSlack,
         Revoke, AppsUninstall, WipeAll, WipeOne, WipeMappings, BeginUnhub, DeleteHub, BeginUnslack, DeleteSlack,
         DropClients, BeginInstall, Register, Merge, Move, Conflict, Merged, Save, BeginHubInstall, Reuse, Heal,
         Isolate, Share, SaveHub, WriteHub
  <2> QED BY <1>4, <2>1, <2>2 DEF SpacesTyped, Spaces, Names
<1>6. HandlesTyped'
  <2>1. CASE handle' = handle
    BY <1>1, <2>1 DEF HandlesTyped
  <2>2. ASSUME NEW i, handle' = [handle EXCEPT ![r.p] = {h \in @ : h.id # i}] PROVE HandlesTyped'
    BY <1>1, <1>4, <2>2 DEF HandlesTyped
  <2>3. CASE DropClients(j)
    BY <2>1, <2>2, <2>3 DEF DropClients
  <2>4. CASE Save(j)
    BY <2>1, <2>2, <2>4 DEF Save
  <2> QED BY <2>1, <2>3, <2>4 DEF LifeStep, Others, slackVars, BeginUninstall, BeginRevoked, DropHubSpot, DropSlack,
             Revoke, AppsUninstall, WipeAll, WipeOne, WipeMappings, BeginUnhub, DeleteHub, BeginUnslack, DeleteSlack,
             BeginInstall, Register, Merge, Move, Conflict, Merged, BeginHubInstall, Reuse, Heal,
             Isolate, Share, SaveHub, WriteHub
<1> QED BY <1>1, <1>3, <1>5, <1>6

(* The stores stay typed when tokens are issued and clients are made.      *)
LEMMA StoresGrow ==
  ASSUME NEW b, Limit(b), NEW c, Limit(c), Up(b, c), RowsTyped(b), CacheTyped(b), ClientsTyped(b), HubsTyped(b)
  PROVE  RowsTyped(c) /\ CacheTyped(c) /\ ClientsTyped(c) /\ HubsTyped(c)
<1>1. RowsTyped(c) /\ CacheTyped(c)
  BY RowGrows DEF RowsTyped, CacheTyped
<1>2. (\A n \in 0..b.all : n \in 0..c.all) /\ (\A n \in 0..b.hub : n \in 0..c.hub)
  BY Widens
<1>3. HubsTyped(c)
  <2>1. [n : 0..b.hub, ws : Names, cool : BOOLEAN, by : Jobs \cup {""}] \subseteq [n : 0..c.hub, ws : Names, cool : BOOLEAN, by : Jobs \cup {""}]
    BY <1>2
  <2> QED BY <2>1 DEF HubsTyped
<1>4. ClientsTyped(c)
  <2> DEFINE S == [n : 0..b.all, rt : 0..b.all, ws : Spaces, link : Names]
  <2> DEFINE T == [n : 0..c.all, rt : 0..c.all, ws : Spaces, link : Names]
  <2>1. S \subseteq T
    BY <1>2
  <2>2. client \in Seq(S)
    BY DEF ClientsTyped
  <2> HIDE DEF S, T
  <2>3. client \in Seq(T)
    BY <2>1, <2>2, Grows
  <2> QED BY <2>3 DEF T, ClientsTyped
<1> QED BY <1>1, <1>3, <1>4

(* A step of a request is a step of no other.                              *)
LEMMA OnlyOwn ==
  ASSUME NEW j \in Jobs, DOMAIN job = Jobs, RequestStep(j)
  PROVE  DOMAIN job' = Jobs /\ \A k \in Jobs : k # j => job'[k] = job[k]
<1>1. \E r : Goto(j, r)
  <2>1. CASE RecordStep(j)
    BY <2>1 DEF RecordStep, ReadRow, StoreRecord, WriteRow, WriteFails, DeleteRows, Forget
  <2>2. CASE SlackStep(j)
    BY <2>2 DEF SlackStep, Resolve, Pivot, Bind, Check, TakeLock, Relook, SlackRotates, TakeAnswer, LoseAnswer, Redirect, Persist,
    SlackCall, BeginCall, Source, End
  <2>3. CASE HubStep(j)
    BY <2>3 DEF HubStep, GetClient, MakeClient, Proactive, LockEarly, Send, Answered, Errs, Unauthorized, LockLate, HubRefreshes,
    HubAnswer, HubPersist, Refreshed, BeginHub
  <2>4. CASE LifeStep(j)
    BY <2>4 DEF LifeStep, BeginUninstall, BeginRevoked, DropHubSpot, DropSlack, Revoke, AppsUninstall, WipeAll, WipeOne,
    WipeMappings, BeginUnhub, DeleteHub, BeginUnslack, DeleteSlack, DropClients, BeginInstall, Register,
    Merge, Move, Conflict, Merged, Save, BeginHubInstall, Reuse, Heal, Isolate, Share, SaveHub, WriteHub
  <2> QED BY <2>1, <2>2, <2>3, <2>4 DEF RequestStep
<1> QED BY <1>1 DEF Goto

(* The bounds of a state, and that they only grow.                         *)
LEMMA Bounds ==
  ASSUME SlackTyped, HubTyped, ClientsTyped(Bound)
  PROVE  /\ slack.gen \in Nat /\ hub.gen \in Nat /\ hub.void \in Nat /\ Limit(Bound) /\ Len(client) \in Nat
         /\ slack.gen \in 0..Bound.all /\ hub.gen \in 0..Bound.hub
<1>1. slack.gen \in Nat /\ hub.gen \in Nat /\ hub.void \in Nat
  BY DEF SlackTyped, HubTyped
<1>2. Limit(Bound) /\ slack.gen \in 0..Bound.all /\ hub.gen \in 0..Bound.hub
  BY <1>1 DEF Bound, Limit
<1>3. Len(client) \in Nat
  BY Elements DEF ClientsTyped
<1> QED BY <1>1, <1>2, <1>3

(* Every step of a request keeps what is sound.                            *)
LEMMA RequestSound ==
  ASSUME NEW j \in Jobs, Sound, RequestStep(j)
  PROVE  Sound'
<1>0. /\ DOMAIN job = Jobs /\ SlackTyped /\ HubTyped /\ SpacesTyped
      /\ RowsTyped(Bound) /\ CacheTyped(Bound) /\ ClientsTyped(Bound) /\ HandlesTyped /\ HubsTyped(Bound)
      /\ \A k \in Jobs : Good(job[k], Bound, Len(client), Made, hub.void)
  BY DEF Sound
<1>1. DOMAIN job' = Jobs /\ \A k \in Jobs : k # j => job'[k] = job[k]
  BY <1>0, OnlyOwn
<1>2. PICK b, m, A, v : b = Bound /\ m = Len(client) /\ A = Made /\ v = hub.void
  OBVIOUS
<1>3. /\ slack.gen \in Nat /\ hub.gen \in Nat /\ v \in Nat /\ Limit(b) /\ m \in Nat
      /\ slack.gen \in 0..b.all /\ hub.gen \in 0..b.hub
  BY <1>0, <1>2, Bounds
<1>4. PICK r, q : r = job[j] /\ q = job'[j]
  OBVIOUS
<1>5. Good(r, b, m, A, v) /\ Framed(r) /\ r.cl \in 0..m
  BY <1>0, <1>2, <1>4 DEF Good, Sane, Typed
<1>6. CASE RecordStep(j) /\ UNCHANGED <<slackVars, hubVars, lifeVars>>
  <2>1. Framed(q)
    BY <1>0, <1>4, <1>5, <1>6, RecordFramed
  <2>2. Sane(q, b, m, A, v) /\ Placed(q, A, v)
    BY <1>0, <1>2, <1>3, <1>4, <1>5, <1>6, RecordGood
  <2>3. RowsTyped(b)' /\ CacheTyped(b)'
    BY <1>0, <1>2, <1>3, <1>4, <1>5, <1>6, RecordStores
  <2>4. Good(q, b, m, A, v)
    BY <2>1, <2>2 DEF Good
  <2>5. \A k \in Jobs : Good(job'[k], b, m, A, v)
    BY <1>0, <1>1, <1>2, <1>4, <2>4
  <2>6. Bound' = b /\ Len(client') = m /\ Made' = A /\ hub'.void = v
    BY <1>2, <1>6 DEF slackVars, hubVars, Bound, Made
  <2>7. SlackTyped' /\ HubTyped' /\ SpacesTyped' /\ ClientsTyped(b)' /\ HandlesTyped' /\ HubsTyped(b)'
    BY <1>0, <1>2, <1>6 DEF slackVars, hubVars, lifeVars, SlackTyped, HubTyped, SpacesTyped, ClientsTyped, HandlesTyped, HubsTyped
  <2> QED BY <1>1, <2>3, <2>5, <2>6, <2>7 DEF Sound, RowsTyped, CacheTyped, ClientsTyped, HubsTyped
<1>7. CASE SlackStep(j) /\ UNCHANGED <<hubVars, lifeVars>>
  <2>1. PICK c, n : c = Bound' /\ n = Len(client')
    OBVIOUS
  <2>2. /\ SlackTyped' /\ slack'.gen \in Nat /\ slack.gen <= slack'.gen
        /\ Len(client') \in Nat /\ Len(client) <= Len(client')
    BY <1>0, <1>2, <1>3, <1>4, <1>5, <1>7, SlackGrows
  <2>3. UNCHANGED <<rows, cache>> /\ hub' = hub /\ hclient' = hclient /\ Made' = A /\ hub'.void = v
    BY <1>2, <1>7 DEF hubVars, lifeVars, Made, SlackStep, Resolve, Pivot, Bind, Check, TakeLock, Relook, SlackRotates,
           TakeAnswer, LoseAnswer, Redirect, Persist, SlackCall, BeginCall, Source, End
  <2>4. Limit(c) /\ Up(b, c) /\ n \in Nat /\ m <= n /\ slack'.gen \in 0..c.all
    BY <1>2, <1>3, <2>1, <2>2, <2>3 DEF Bound, Limit, Up
  <2>5. RowsTyped(c) /\ CacheTyped(c) /\ ClientsTyped(c) /\ HubsTyped(c)
    BY <1>0, <1>2, <1>3, <2>4, StoresGrow
  <2>6. Good(r, c, n, A, v)
    <3>1. v <= v
      BY <1>3
    <3> QED BY <1>3, <1>5, <2>4, <3>1, GoodGrows
  <2>7. r.cl <= Len(client)
    BY <1>2, <1>3, <1>5
  <2>8. Framed(q)
    BY <1>0, <1>4, <1>5, <1>7, SlackFramed
  <2>9. Sane(q, c, n, A, v) /\ Placed(q, A, v)
    BY <1>0, <1>4, <1>7, <2>1, <2>4, <2>5, <2>6, <2>7, SlackGood
  <2>10. ClientsTyped(c)' /\ HandlesTyped'
    BY <1>0, <1>4, <1>7, <2>4, <2>5, <2>6, <2>7, SlackStores
  <2>11. Good(q, c, n, A, v)
    BY <2>8, <2>9 DEF Good
  <2>12. \A k \in Jobs : Good(job'[k], c, n, A, v)
    <3> SUFFICES ASSUME NEW k \in Jobs PROVE Good(job'[k], c, n, A, v)
      OBVIOUS
    <3>1. CASE k = j
      BY <1>4, <3>1, <2>11
    <3>2. CASE k # j
      <4>1. Good(job[k], b, m, A, v)
        BY <1>0, <1>2
      <4>2. {m, n, v} \subseteq Nat /\ Limit(b) /\ Limit(c) /\ Up(b, c) /\ m <= n /\ v <= v /\ A \subseteq A
        BY <1>3, <2>4
      <4>3. Good(job[k], c, n, A, v)
        BY <4>1, <4>2, GoodGrows
      <4> QED BY <1>1, <3>2, <4>3
    <3> QED BY <3>1, <3>2
  <2>13. HubTyped' /\ SpacesTyped' /\ RowsTyped(c)' /\ CacheTyped(c)' /\ HubsTyped(c)'
    BY <1>0, <1>7, <2>3, <2>5 DEF lifeVars, HubTyped, SpacesTyped, RowsTyped, CacheTyped, HubsTyped
  <2> QED BY <1>1, <2>1, <2>2, <2>3, <2>10, <2>12, <2>13 DEF Sound, RowsTyped, CacheTyped, ClientsTyped, HubsTyped
<1>8. CASE HubStep(j) /\ UNCHANGED <<slackVars, lifeVars>>
  <2>1. PICK c, B, w : c = Bound' /\ B = Made' /\ w = hub'.void
    OBVIOUS
  <2>2. /\ HubTyped' /\ hub'.gen \in Nat /\ hub.gen <= hub'.gen
        /\ hub'.void \in Nat /\ hub.void <= hub'.void
    BY <1>0, <1>8, HubGrows
  <2>3. UNCHANGED <<rows, cache>> /\ slack' = slack /\ client' = client /\ handle' = handle
    BY <1>8 DEF slackVars, HubStep, GetClient, MakeClient, Proactive, LockEarly, Send, Answered, Errs, Unauthorized,
           LockLate, HubRefreshes, HubAnswer, HubPersist, Refreshed, BeginHub
  <2>4. Limit(c) /\ Up(b, c) /\ w \in Nat /\ v <= w /\ hub'.gen \in 0..c.hub
    BY <1>2, <1>3, <2>1, <2>2, <2>3 DEF Bound, Limit, Up
  <2>5. RowsTyped(c) /\ CacheTyped(c) /\ ClientsTyped(c) /\ HubsTyped(c)
    BY <1>0, <1>2, <1>3, <2>4, StoresGrow
  <2>6. Good(r, c, m, A, w)
    <3>1. m <= m
      BY <1>3
    <3> QED BY <1>3, <1>5, <2>4, <3>1, GoodGrows
  <2>7. HubsTyped(c)' /\ A \subseteq B
    BY <1>0, <1>2, <1>4, <1>8, <2>1, <2>4, <2>5, <2>6, HubStores
  <2>8. Good(r, c, m, B, w)
    <3>1. m <= m /\ Up(c, c) /\ w <= w
      BY <1>3, <2>4 DEF Limit, Up
    <3> QED BY <1>3, <2>4, <2>6, <2>7, <3>1, GoodGrows
  <2>9. Framed(q)
    BY <1>0, <1>4, <1>5, <1>8, HubFramed
  <2>10. Sane(q, c, m, B, w) /\ Placed(q, B, w)
    <3>1. hub.void \in Nat /\ hub.void <= w /\ Made \subseteq B
      BY <1>2, <1>3, <2>1, <2>2, <2>7
    <3> QED BY <1>0, <1>4, <1>8, <2>1, <2>4, <2>5, <2>7, <2>8, <3>1, HubGood
  <2>11. Good(q, c, m, B, w)
    BY <2>9, <2>10 DEF Good
  <2>12. \A k \in Jobs : Good(job'[k], c, m, B, w)
    <3> SUFFICES ASSUME NEW k \in Jobs PROVE Good(job'[k], c, m, B, w)
      OBVIOUS
    <3>1. CASE k = j
      BY <1>4, <3>1, <2>11
    <3>2. CASE k # j
      <4>1. Good(job[k], b, m, A, v)
        BY <1>0, <1>2
      <4>2. {m, v, w} \subseteq Nat /\ Limit(b) /\ Limit(c) /\ Up(b, c) /\ m <= m /\ v <= w /\ A \subseteq B
        BY <1>3, <2>4, <2>7
      <4>3. Good(job[k], c, m, B, w)
        BY <4>1, <4>2, GoodGrows
      <4> QED BY <1>1, <3>2, <4>3
    <3> QED BY <3>1, <3>2
  <2>13. SlackTyped' /\ SpacesTyped' /\ RowsTyped(c)' /\ CacheTyped(c)' /\ ClientsTyped(c)' /\ HandlesTyped'
    BY <1>0, <1>8, <2>3, <2>5 DEF lifeVars, SlackTyped, SpacesTyped, RowsTyped, CacheTyped, ClientsTyped, HandlesTyped
  <2>14. Len(client') = m
    BY <1>2, <2>3
  <2> QED BY <1>1, <2>1, <2>2, <2>7, <2>12, <2>13, <2>14 DEF Sound, RowsTyped, CacheTyped, ClientsTyped, HubsTyped
<1>9. CASE LifeStep(j)
  <2>1. PICK c, w : c = Bound' /\ w = hub'.void
    OBVIOUS
  <2>2. /\ SlackTyped' /\ slack'.gen \in Nat /\ slack.gen <= slack'.gen
        /\ HubTyped' /\ hub'.gen \in Nat /\ hub.gen <= hub'.gen
        /\ hub'.void \in Nat /\ hub.void <= hub'.void
    BY <1>0, <1>9, LifeGrows
  <2>3. Limit(c) /\ Up(b, c) /\ w \in Nat /\ v <= w /\ slack'.gen \in 0..c.all /\ hub'.gen \in 0..c.hub
    BY <1>2, <1>3, <2>1, <2>2 DEF Bound, Limit, Up
  <2>4. RowsTyped(c) /\ CacheTyped(c) /\ ClientsTyped(c) /\ HubsTyped(c)
    BY <1>0, <1>2, <1>3, <2>3, StoresGrow
  <2>5. Good(r, c, m, A, w)
    <3>1. m <= m
      BY <1>3
    <3> QED BY <1>3, <1>5, <2>3, <3>1, GoodGrows
  <2>6. SpacesTyped' /\ RowsTyped(c)' /\ HandlesTyped' /\ cache' = cache /\ client' = client /\ hclient' = hclient
    BY <1>0, <1>4, <1>9, <2>4, <2>5, LifeStores
  <2>7. Framed(q)
    BY <1>0, <1>4, <1>5, <1>9, LifeFramed
  <2>8. Sane(q, c, m, A, w) /\ Placed(q, A, w)
    BY <1>0, <1>3, <1>4, <1>9, <2>3, <2>4, <2>5, LifeGood
  <2>9. Good(q, c, m, A, w)
    BY <2>7, <2>8 DEF Good
  <2>10. \A k \in Jobs : Good(job'[k], c, m, A, w)
    <3> SUFFICES ASSUME NEW k \in Jobs PROVE Good(job'[k], c, m, A, w)
      OBVIOUS
    <3>1. CASE k = j
      BY <1>4, <3>1, <2>9
    <3>2. CASE k # j
      <4>1. Good(job[k], b, m, A, v)
        BY <1>0, <1>2
      <4>2. {m, v, w} \subseteq Nat /\ Limit(b) /\ Limit(c) /\ Up(b, c) /\ m <= m /\ v <= w /\ A \subseteq A
        BY <1>3, <2>3
      <4>3. Good(job[k], c, m, A, w)
        BY <4>1, <4>2, GoodGrows
      <4> QED BY <1>1, <3>2, <4>3
    <3> QED BY <3>1, <3>2
  <2>11. CacheTyped(c)' /\ ClientsTyped(c)' /\ HubsTyped(c)' /\ Made' = A /\ Len(client') = m
    BY <1>2, <2>4, <2>6 DEF CacheTyped, ClientsTyped, HubsTyped, Made
  <2> QED BY <1>1, <2>1, <2>2, <2>6, <2>10, <2>11 DEF Sound, RowsTyped, CacheTyped, ClientsTyped, HubsTyped
<1> QED BY <1>6, <1>7, <1>8, <1>9 DEF RequestStep

(* What the platforms, time and a recycled instance do keeps it too.       *)
LEMMA EnvironmentSound ==
  ASSUME Sound, Environment
  PROVE  Sound'
<1>0. /\ DOMAIN job = Jobs /\ SlackTyped /\ HubTyped /\ SpacesTyped
      /\ RowsTyped(Bound) /\ CacheTyped(Bound) /\ ClientsTyped(Bound) /\ HandlesTyped /\ HubsTyped(Bound)
      /\ \A k \in Jobs : Good(job[k], Bound, Len(client), Made, hub.void)
  BY DEF Sound
<1>2. PICK b, m, A, v : b = Bound /\ m = Len(client) /\ A = Made /\ v = hub.void
  OBVIOUS
<1>3. slack.gen \in Nat /\ hub.gen \in Nat /\ v \in Nat /\ Limit(b) /\ m \in Nat
  BY <1>0, <1>2, Bounds
<1>a. ASSUME DOMAIN job' = Jobs, rows' = rows, client' = client, hclient' = hclient, homes' = homes, portal' = portal,
             slack'.gen = slack.gen, hub'.gen = hub.gen, SlackTyped', HubTyped', HandlesTyped', CacheTyped(b)',
             \A k \in Jobs : Good(job'[k], b, m, A, hub'.void)
      PROVE  Sound'
  <2>1. Bound' = b /\ Len(client') = m /\ Made' = A
    BY <1>2, <1>a DEF Bound, Made
  <2>2. SpacesTyped' /\ RowsTyped(b)' /\ ClientsTyped(b)' /\ HubsTyped(b)'
    BY <1>0, <1>2, <1>a DEF SpacesTyped, RowsTyped, ClientsTyped, HubsTyped
  <2> QED BY <1>a, <2>1, <2>2 DEF Sound, RowsTyped, CacheTyped, ClientsTyped, HubsTyped
<1>b. ASSUME hub'.void \in Nat, hub.void <= hub'.void PROVE \A k \in Jobs : Good(job[k], b, m, A, hub'.void)
  <2>1. Up(b, b) /\ m <= m /\ A \subseteq A
    BY <1>3 DEF Limit, Up
  <2> QED BY <1>0, <1>2, <1>3, <1>b, <2>1, GoodGrows
<1>c. hub' = hub => \A k \in Jobs : Good(job[k], b, m, A, hub'.void)
  BY <1>0, <1>2
<1>4. ASSUME NEW p \in Processes, NEW k \in Keys, RecordExpires(p, k), UNCHANGED <<slackVars, hubVars, lifeVars>>
      PROVE  Sound'
  <2>1. CacheTyped(b)'
    <3>1. Maybe(NoRow, b) /\ \A x : Fits(NoRow, x)
      BY DEF Maybe, Fits
    <3> QED BY <1>0, <1>2, <1>4, <3>1 DEF RecordExpires, CacheTyped
  <2>2. /\ DOMAIN job' = Jobs /\ rows' = rows /\ client' = client /\ hclient' = hclient /\ homes' = homes /\ portal' = portal
        /\ slack' = slack /\ hub' = hub /\ handle' = handle /\ job' = job
    BY <1>0, <1>4 DEF RecordExpires, slackVars, hubVars, lifeVars
  <2>3. SlackTyped' /\ HubTyped' /\ HandlesTyped'
    BY <1>0, <2>2 DEF SlackTyped, HubTyped, HandlesTyped
  <2> QED BY <1>a, <1>c, <2>1, <2>2, <2>3
<1>5. ASSUME NEW p \in Processes, HandleExpires(p), UNCHANGED <<hubVars, lifeVars>>
      PROVE  Sound'
  <2>1. /\ DOMAIN job' = Jobs /\ rows' = rows /\ client' = client /\ hclient' = hclient /\ homes' = homes /\ portal' = portal
        /\ slack' = slack /\ hub' = hub /\ cache' = cache /\ job' = job
    BY <1>0, <1>5 DEF HandleExpires, recordVars, hubVars, lifeVars
  <2>2. PICK h : handle' = [handle EXCEPT ![p] = @ \ {h}]
    BY <1>5 DEF HandleExpires
  <2>3. HandlesTyped'
    BY <1>0, <2>1, <2>2 DEF HandlesTyped
  <2>4. SlackTyped' /\ HubTyped' /\ CacheTyped(b)'
    BY <1>0, <1>2, <2>1 DEF SlackTyped, HubTyped, CacheTyped
  <2> QED BY <1>a, <1>c, <2>1, <2>3, <2>4
<1>6. ASSUME SlackTyped', slack'.gen = slack.gen, UNCHANGED <<recordVars, client, handle, hubVars, lifeVars>>
      PROVE  Sound'
  <2>1. /\ DOMAIN job' = Jobs /\ rows' = rows /\ client' = client /\ hclient' = hclient /\ homes' = homes /\ portal' = portal
        /\ handle' = handle /\ hub' = hub /\ cache' = cache /\ job' = job
    BY <1>0, <1>6 DEF recordVars, hubVars, lifeVars
  <2>2. HandlesTyped' /\ HubTyped' /\ CacheTyped(b)'
    BY <1>0, <1>2, <2>1 DEF HandlesTyped, HubTyped, CacheTyped
  <2> QED BY <1>a, <1>c, <1>6, <2>1, <2>2
<1>7. ASSUME HubTyped', hub'.gen = hub.gen, hub.void <= hub'.void, UNCHANGED <<recordVars, slackVars, hclient, lifeVars>>
      PROVE  Sound'
  <2>1. /\ DOMAIN job' = Jobs /\ rows' = rows /\ client' = client /\ hclient' = hclient /\ homes' = homes /\ portal' = portal
        /\ handle' = handle /\ slack' = slack /\ cache' = cache /\ job' = job
    BY <1>0, <1>7 DEF recordVars, slackVars, lifeVars
  <2>2. HandlesTyped' /\ SlackTyped' /\ CacheTyped(b)' /\ hub'.void \in Nat
    BY <1>0, <1>2, <1>7, <2>1 DEF HandlesTyped, SlackTyped, CacheTyped, HubTyped
  <2> QED BY <1>a, <1>b, <1>7, <2>1, <2>2
<1>8. CASE PairDue /\ UNCHANGED <<hubVars, lifeVars>>
  <2>1. slack' = [slack EXCEPT !.due = slack.gen]
    BY <1>8 DEF PairDue
  <2>2. SlackTyped' /\ slack'.gen = slack.gen
    BY <1>0, <2>1 DEF SlackTyped
  <2> QED BY <1>6, <1>8, <2>2 DEF PairDue
<1>9. CASE PairDies /\ UNCHANGED <<hubVars, lifeVars>>
  <2>1. slack' = [slack EXCEPT !.dead = slack.due]
    BY <1>9 DEF PairDies
  <2>2. SlackTyped' /\ slack'.gen = slack.gen
    BY <1>0, <2>1 DEF SlackTyped
  <2> QED BY <1>6, <1>9, <2>2 DEF PairDies
<1>10. CASE RemoveFromSlack
  <2>1. slack' = [slack EXCEPT !.void = slack.gen]
    BY <1>10 DEF RemoveFromSlack
  <2>2. SlackTyped' /\ slack'.gen = slack.gen
    BY <1>0, <2>1 DEF SlackTyped
  <2> QED BY <1>6, <1>10, <2>2 DEF RemoveFromSlack
<1>11. CASE TokenDue /\ UNCHANGED <<slackVars, lifeVars>>
  <2>1. hub' = [hub EXCEPT !.due = hub.gen]
    BY <1>11 DEF TokenDue
  <2>2. HubTyped' /\ hub'.gen = hub.gen /\ hub.void <= hub'.void
    BY <1>0, <2>1 DEF HubTyped
  <2> QED BY <1>7, <1>11, <2>2 DEF TokenDue
<1>12. CASE TokenDies /\ UNCHANGED <<slackVars, lifeVars>>
  <2>1. hub' = [hub EXCEPT !.dead = hub.due]
    BY <1>12 DEF TokenDies
  <2>2. HubTyped' /\ hub'.gen = hub.gen /\ hub.void <= hub'.void
    BY <1>0, <2>1 DEF HubTyped
  <2> QED BY <1>7, <1>12, <2>2 DEF TokenDies
<1>13. CASE RemoveFromHubSpot
  <2>1. hub' = [hub EXCEPT !.void = hub.gen]
    BY <1>13 DEF RemoveFromHubSpot
  <2>2. HubTyped' /\ hub'.gen = hub.gen /\ hub.void <= hub'.void
    BY <1>0, <2>1 DEF HubTyped
  <2> QED BY <1>7, <1>13, <2>2 DEF RemoveFromHubSpot
<1>14. ASSUME NEW p \in Processes, Crash(p) PROVE Sound'
  <2>1. /\ DOMAIN job' = Jobs /\ rows' = rows /\ client' = client /\ hclient' = hclient /\ homes' = homes /\ portal' = portal
        /\ slack' = slack /\ hub' = hub
    BY <1>14 DEF Crash, hubVars, lifeVars
  <2>2. SlackTyped' /\ HubTyped'
    BY <1>0, <2>1 DEF SlackTyped, HubTyped
  <2>3. HandlesTyped'
    <3>1. handle' = [handle EXCEPT ![p] = {}]
      BY <1>14 DEF Crash
    <3> QED BY <1>0, <2>1, <3>1 DEF HandlesTyped
  <2>4. CacheTyped(b)'
    <3>1. Maybe(NoRow, b) /\ \A x : Fits(NoRow, x)
      BY DEF Maybe, Fits
    <3>2. cache' = [cache EXCEPT ![p] = [k \in Keys |-> NoRow]]
      BY <1>14 DEF Crash
    <3> QED BY <1>0, <1>2, <3>1, <3>2 DEF CacheTyped
  <2>5. ASSUME NEW k \in Jobs PROVE Good(job'[k], b, m, A, v)
    <3>1. Good(job[k], b, m, A, v) /\ DOMAIN job[k] = Fields /\ Typed(job[k], b, m, v)
      BY <1>0, <1>2 DEF Good, Framed, Shaped, Sane
    <3>2. job'[k] = job[k] \/ job'[k] = Ended(job[k], "killed")
      BY <1>14 DEF Crash
    <3>3. CASE job'[k] = Ended(job[k], "killed")
      <4>1. "killed" \in Ends
        BY DEF Ends
      <4>2. Framed(job'[k])
        BY <3>1, <3>3, <4>1, EndedFramed
      <4>3. Sane(job'[k], b, m, A, v) /\ Placed(job'[k], A, v)
        BY <1>3, <3>1, <3>3, <4>1, EndedGood
      <4> QED BY <4>2, <4>3 DEF Good
    <3> QED BY <3>1, <3>2, <3>3
  <2>6. \A k \in Jobs : Good(job'[k], b, m, A, hub'.void)
    BY <1>2, <2>1, <2>5
  <2> QED BY <1>a, <2>1, <2>2, <2>3, <2>4, <2>6
<1> QED BY <1>4, <1>5, <1>8, <1>9, <1>10, <1>11, <1>12, <1>13, <1>14 DEF Environment

(* A scenario starts sound.                                                *)
First == [all |-> 2, hub |-> 1]
LEMMA InitSound ==
  ASSUME Init
  PROVE  Sound
<1>1. PICK s \in Scenarios : RecordInit(s) /\ SlackInit(s) /\ HubInit(s) /\ LifeInit(s)
  BY DEF Init
<1>2. slack = [gen |-> 1, void |-> 0, due |-> s.due, dead |-> 0] /\ hub = [gen |-> 1, void |-> 0, due |-> s.due, dead |-> 0]
  BY <1>1 DEF SlackInit, HubInit
<1>3. s.due \in 0..1 /\ s.homes \subseteq Spaces /\ s.portal \in Names
  BY ScenariosAssumption DEF ScenariosTyped, Spaces, Names
<1>4. SlackTyped /\ HubTyped /\ Bound = First /\ Limit(First) /\ hub.void = 0
  BY <1>2, <1>3 DEF SlackTyped, HubTyped, Bound, First, Limit
<1>5. SpacesTyped
  BY <1>1, <1>3 DEF SpacesTyped, LifeInit
<1>6. client = <<>> /\ Len(client) = 0 /\ HandlesTyped /\ Made = {} /\ HubsTyped(First)
  <2>1. client = <<>> /\ Len(client) = 0 /\ HandlesTyped
    BY <1>1 DEF SlackInit, HandlesTyped
  <2>2. hclient = [j \in Jobs |-> [n |-> 0, ws |-> "", cool |-> FALSE, by |-> ""]]
    BY <1>1 DEF HubInit, NoClient
  <2> DEFINE C == [n : 0..1, ws : Names, cool : BOOLEAN, by : Jobs \cup {""}]
  <2>3. [n |-> 0, ws |-> "", cool |-> FALSE, by |-> ""] \in C
    <3>1. 0 \in 0..1 /\ "" \in Names /\ FALSE \in BOOLEAN /\ "" \in Jobs \cup {""}
      BY DEF Names
    <3> QED BY <3>1
  <2> HIDE DEF C
  <2>4. hclient \in [Jobs -> C] /\ \A i \in Jobs : hclient[i].n = 0
    BY <2>2, <2>3
  <2> USE DEF C
  <2>5. HubsTyped(First) /\ Made = {}
    <3>0. \A i \in Jobs : ~(hclient[i].n >= 1)
      <4>1. ~(0 >= 1)
        OBVIOUS
      <4>2. \A i \in Jobs : hclient[i].n = 0
        BY <2>4, Zenon
      <4> QED BY <4>1, <4>2, Zenon
    <3>1. Made = {}
      BY <3>0, Zenon DEF Made
    <3>2. \A i \in Jobs : hclient[i].n >= 1 => hclient[i].ws # ""
      BY <3>0, Zenon
    <3> QED BY <2>4, <3>1, <3>2 DEF HubsTyped, First
  <2> QED BY <2>1, <2>5
<1>7. ClientsTyped(First)
  <2> DEFINE C == [n : 0..2, rt : 0..2, ws : Spaces, link : Names]
  <2> HIDE DEF C
  <2>1. client \in Seq(C)
    BY <1>6
  <2> QED BY <2>1 DEF C, ClientsTyped, First
<1>8. CacheTyped(First)
  <2>1. Maybe(NoRow, First) /\ \A k : Fits(NoRow, k)
    BY DEF Maybe, Fits
  <2> QED BY <1>1, <2>1 DEF RecordInit, CacheTyped
<1>9. RowsTyped(First)
  <2>1. rows = s.rows
    BY <1>1 DEF RecordInit
  <2>2. ASSUME NEW x \in rows PROVE Real(x, First)
    <3>1. /\ DOMAIN x = DOMAIN NoRow /\ x.ws \in {"T", "W"} /\ x.link \in {"", "T", "W"} /\ x.n \in 0..1
          /\ x.prov = "slack" \/ (x.prov = "hubspot" /\ x.n = 1)
      BY <2>1, <2>2, ScenariosAssumption DEF ScenariosTyped
    <3>2. DOMAIN x = RowFields
      BY <3>1 DEF NoRow, RowFields
    <3>3. x.n \in 0..First.all /\ (x.prov = "hubspot" => x.n \in 1..First.hub)
      <4>1. First.all = 2 /\ First.hub = 1
        BY DEF First
      <4>2. x.n \in 0..1 /\ (x.prov = "hubspot" => x.n = 1)
        BY <3>1
      <4> QED BY <4>1, <4>2
    <3>4. x.ws \in Names /\ x.ws # "" /\ x.link \in Names /\ x.prov \in Provs /\ x.prov # ""
      BY <3>1 DEF Names, Spaces, Provs
    <3> QED BY <3>2, <3>3, <3>4 DEF Real, IsRow
  <2> QED BY <2>2 DEF RowsTyped
<1>10. ASSUME NEW j \in Jobs PROVE Good(job[j], First, 0, {}, 0)
  <2>1. PICK w : w = s.work[j]
    OBVIOUS
  <2>2. /\ w.kind \in {"slackcall", "hubcall", "uninstall", "unhub", "unslack", "install", "installhub"}
        /\ w.p \in Processes /\ w.ws \in {"T", "W"} /\ w.state \in {"", "T", "W"} /\ w.hc \in Jobs
        /\ w.prov \in {"slack", "hubspot"} \/ (w.prov = "" /\ w.kind # "slackcall")
    BY <2>1, ScenariosAssumption DEF ScenariosTyped
  <2>3. PICK r : r = job[j]
    OBVIOUS
  <2>4. r = Started(w)
    BY <1>1, <2>1, <2>3 DEF RecordInit
  <2>5. /\ DOMAIN r = Fields /\ r.kind = w.kind /\ r.pc = w.kind /\ r.todo = <<>> /\ r.goal = "" /\ r.p = w.p /\ r.ws = w.ws
        /\ r.uws = w.ws /\ r.state = w.state /\ r.prov = w.prov /\ r.hc = w.hc /\ r.cl = 0 /\ r.got = 0 /\ r.tok = 0
        /\ r.rec = NoRow /\ r.new = NoRow /\ r.src = NoRow /\ r.old = NoRow /\ r.left = {}
    BY <2>4 DEF Started, Fields
  <2>6. Framed(r)
    <3>1. r.pc \in Lane(r.kind) /\ r.pc \notin Inner
      BY <2>2, <2>5 DEF Lane, Own, Begins, OfInstall, OfHubInstall, Inner, OwnInner
    <3>2. <<>> \in Seq(Lane(r.kind) \cap After)
      OBVIOUS
    <3> QED BY <2>5, <3>1, <3>2, FramedAt
  <2>7. Typed(r, First, 0, 0)
    <3>1. IsRow(NoRow, First) /\ Maybe(NoRow, First)
      BY <1>4, Zero DEF IsRow, Maybe, NoRow, RowFields, Names
    <3>2. r.p \in Processes /\ r.ws \in Spaces /\ r.uws \in Spaces /\ r.state \in Names /\ r.prov \in {""} \cup Provs /\ r.hc \in Jobs
      BY <2>2, <2>5 DEF Names, Spaces, Provs
    <3>3. r.cl \in 0..0 /\ r.got \in 0..First.all /\ r.tok \in 0..First.hub
      <4>1. 0 \in 0..First.all /\ 0 \in 0..First.hub
        BY <1>4, Zero
      <4>2. 0 \in 0..0
        OBVIOUS
      <4>3. r.cl = 0 /\ r.got = 0 /\ r.tok = 0
        BY <2>5
      <4> QED BY <4>1, <4>2, <4>3
    <3>4. Maybe(r.rec, First) /\ Maybe(r.new, First) /\ Maybe(r.src, First) /\ IsRow(r.old, First)
      BY <2>5, <3>1
    <3> QED BY <2>5, <3>2, <3>3, <3>4 DEF Typed
  <2>8. Sane(r, First, 0, {}, 0)
    BY <2>5, <2>7, EmptySane
  <2>9. r.pc \notin Looking /\ r.pc \notin {"client", "hubpersist", "redirect", "persist", "bind"}
    BY <2>2, <2>5 DEF Looking
  <2>10. Meets(r, r.pc, {}, 0)
    BY <2>2, <2>5 DEF Meets, SlackIn, HubIn, Drops, Ends
  <2> QED BY <2>3, <2>6, <2>8, <2>9, <2>10, ArrivesGood DEF Good
<1>11. DOMAIN job = Jobs
  BY <1>1 DEF RecordInit
<1>12. \A j \in Jobs : Good(job[j], Bound, Len(client), Made, hub.void)
  BY <1>4, <1>6, <1>10
<1> QED BY <1>4, <1>5, <1>6, <1>7, <1>8, <1>9, <1>11, <1>12 DEF Sound

(* A step that changes nothing changes nothing.                            *)
LEMMA StutterSound ==
  ASSUME Sound, UNCHANGED tenantVars
  PROVE  Sound'
<1>1. /\ job' = job /\ rows' = rows /\ cache' = cache /\ slack' = slack /\ client' = client /\ handle' = handle
      /\ hub' = hub /\ hclient' = hclient /\ homes' = homes /\ portal' = portal
  BY DEF tenantVars, recordVars, slackVars, hubVars, lifeVars
<1>2. Bound' = Bound /\ Made' = Made
  BY <1>1 DEF Bound, Made
<1> QED BY <1>1, <1>2 DEF Sound, SlackTyped, HubTyped, SpacesTyped, RowsTyped, CacheTyped, ClientsTyped, HandlesTyped, HubsTyped

(* Requests keep to their lanes and have in hand what each label needs.    *)
THEOREM StaysSound == Spec => []Sound
<1>1. Init => Sound
  BY InitSound
<1>2. Sound /\ [Next]_tenantVars => Sound'
  BY RequestSound, EnvironmentSound, StutterSound DEF Next
<1> QED BY <1>1, <1>2, PTL DEF Spec

(* The type invariant of the run.                                          *)
THEOREM TypesKept == Spec => []TypeOK
<1>1. Sound => TypeOK
  <2> SUFFICES ASSUME Sound PROVE TypeOK
    OBVIOUS
  <2>0. DOMAIN job = Jobs /\ SlackTyped /\ HubTyped /\ RowsTyped(Bound) /\ CacheTyped(Bound)
        /\ \A k \in Jobs : Good(job[k], Bound, Len(client), Made, hub.void)
    BY DEF Sound
  <2>1. \A j \in Jobs : job[j].p \in Processes /\ job[j].cl \in 0..Len(client)
    BY <2>0 DEF Good, Sane, Typed
  <2>2. \A x \in rows : x.ws \in {"T", "W"} /\ x.prov \in {"slack", "hubspot"} /\ x.n \in 0..slack.gen + hub.gen
    BY <2>0 DEF RowsTyped, Real, IsRow, Names, Spaces, Provs, Bound
  <2>3. ASSUME NEW p \in Processes, NEW k \in Keys, cache[p][k] # NoRow
        PROVE  <<cache[p][k].ws, cache[p][k].prov>> = k \/ k = <<"T", "hubspot">>
    BY <2>0, <2>3 DEF CacheTyped, Fits, Keys
  <2>4. /\ slack.dead <= slack.due /\ slack.due <= slack.gen /\ slack.void <= slack.gen
        /\ hub.dead <= hub.due /\ hub.due <= hub.gen /\ hub.void <= hub.gen
    BY <2>0 DEF SlackTyped, HubTyped
  <2> QED BY <2>1, <2>2, <2>3, <2>4 DEF TypeOK
<1> QED BY <1>1, StaysSound, PTL

(* Slack is told to drop the app only by an uninstall, or once HubSpot has *)
(* revoked a grant: whoever gets that far was sent there by one of these.  *)
THEOREM SlackLeftAlone == Spec => SlackIsLeftAlone
<1>1. ASSUME Sound, Next, NEW j \in Jobs, At(j, "appsuninstall"), slack' # slack
      PROVE  job[j].kind = "uninstall" \/ hub.void > 0
  <2>1. PICK r : r = job[j]
    OBVIOUS
  <2>2. Framed(r) /\ Placed(r, Made, hub.void) /\ HubTyped
    BY <1>1, <2>1 DEF Sound, Good
  <2>3. r.pc = "appsuninstall" /\ r.pc \notin Looking
    BY <1>1, <2>1 DEF At, Looking
  <2>4. Meets(r, "appsuninstall", Made, hub.void)
    BY <2>2, <2>3, At1
  <2>5. r.kind = "uninstall" \/ hub.void >= 1
    BY <2>4 DEF Meets, Drops
  <2> QED BY <2>1, <2>2, <2>5 DEF HubTyped
<1>2. Sound /\ [Next]_tenantVars =>
        [\A j \in Jobs : At(j, "appsuninstall") /\ slack' # slack => job[j].kind = "uninstall" \/ hub.void > 0]_tenantVars
  BY <1>1
<1> QED BY <1>2, StaysSound, PTL DEF Spec, SlackIsLeftAlone

----------------------------------------------------------------------------
(* Uninstalling: while a workspace is wiped its records stay deleted.      *)
Quiet(t) == After \ {t}
Turns == {"wipe", "hubanswer", "hubrefresh", "late"}

\* A request that is not at t and will not return to it,
Calm(r, t) == r.todo \in Seq(Quiet(t)) /\ Place(r) # t
\* and what a step of one relies on: its fields, its call of Slack and, inside
\* a procedure, a label to return to.
Able(r, t) == /\ DOMAIN r = Fields /\ r.todo \in Seq(Quiet(t))
              /\ r.pc \in Inner => r.todo # <<>>
              /\ r.goal \in {"", "check", "appsuninstall"}

\* A step that leaves the stack alone.
LEMMA MoveCalm ==
  ASSUME NEW t \in Turns, NEW q, q.todo \in Seq(Quiet(t)), q.pc \notin Looking, q.pc # t
  PROVE  Calm(q, t)
  BY DEF Calm, Place

\* A lookup.
LEMMA LookCalm ==
  ASSUME NEW t \in Turns, NEW r, DOMAIN r = Fields, r.todo \in Seq(Quiet(t)), NEW k, NEW l, l \notin Looking, l # t
  PROVE  Calm(Lookup(r, k, l), t)
<1>1. PICK q : q = Lookup(r, k, l)
  OBVIOUS
<1>2. q.todo = r.todo /\ (q.pc = l \/ (q.pc = "reading" /\ q.ret = l))
  BY <1>1, LookupFields
<1>3. Place(q) = l
  BY <1>2 DEF Place, Looking, Turns
<1> QED BY <1>1, <1>2, <1>3 DEF Calm

\* A return.
LEMMA ReturnCalm ==
  ASSUME NEW t \in Turns, NEW r, DOMAIN r = Fields, r.todo \in Seq(Quiet(t)), r.todo # <<>>, NEW ok
  PROVE  Calm(Return(r, ok), t)
<1>1. PICK q : q = Return(r, ok)
  OBVIOUS
<1>2. q.todo = Tail(r.todo) /\ q.pc = Head(r.todo)
  BY <1>1 DEF Return, Fields
<1>3. Head(r.todo) \in Quiet(t) /\ Tail(r.todo) \in Seq(Quiet(t))
  OBVIOUS
<1>4. q.pc \notin Looking /\ q.pc # t
  BY <1>2, <1>3 DEF Quiet, After, Outer, Looking, Turns
<1> QED BY <1>1, <1>2, <1>3, <1>4, MoveCalm

\* A call.
LEMMA CallCalm ==
  ASSUME NEW t \in Turns, NEW r, DOMAIN r = Fields, r.todo \in Seq(Quiet(t)), NEW l, l \notin Looking, l # t, NEW a \in Quiet(t)
  PROVE  Calm(Call(r, l, a), t)
<1>1. PICK q : q = Call(r, l, a)
  OBVIOUS
<1>2. q.todo = <<a>> \o r.todo /\ q.pc = l
  BY <1>1 DEF Call, Fields
<1>3. q.todo \in Seq(Quiet(t))
  BY <1>2
<1> QED BY <1>1, <1>2, <1>3, MoveCalm

\* The end.
LEMMA EndedCalm ==
  ASSUME NEW t \in Turns, NEW r, NEW l \in Ends
  PROVE  Calm(Ended(r, l), t)
<1>1. PICK q : q = Ended(r, l)
  OBVIOUS
<1>2. q.todo = <<>> /\ q.pc = l
  BY <1>1 DEF Ended, Started
<1>3. q.todo \in Seq(Quiet(t)) /\ l \notin Looking /\ l # t
  BY <1>2 DEF Ends, Looking, Turns
<1> QED BY <1>1, <1>2, <1>3, MoveCalm

\* Slack's client does nothing of the kind.
LEMMA SlackCalm ==
  ASSUME NEW t \in Turns, NEW j \in Jobs, DOMAIN job = Jobs, NEW r, r = job[j], NEW q, q = job'[j], Able(r, t), r.pc # t, SlackStep(j)
  PROVE  Calm(q, t)
<1>0. /\ DOMAIN r = Fields /\ r.todo \in Seq(Quiet(t)) /\ (r.pc \in Inner => r.todo # <<>>)
      /\ r.goal \in {"", "check", "appsuninstall"}
  BY DEF Able
<1>1. CASE Resolve(j)
  BY <1>0, <1>1, MoveCalm, LookCalm
     DEF Resolve, Goto, At, Fields, Looking, Turns
<1>2. CASE Pivot(j)
  BY <1>0, <1>2, MoveCalm, ReturnCalm
     DEF Pivot, Goto, At, Fields, Inner, OwnInner, Looking, Turns
<1>3. CASE Bind(j)
  <2>1. PICK c : q = [r EXCEPT !.cl = c, !.pc = r.goal]
    BY <1>3 DEF Bind, Goto
  <2>2. q.todo = r.todo /\ q.pc = r.goal /\ r.goal \notin Looking /\ r.goal # t
    BY <1>0, <2>1 DEF Fields, Looking, Turns
  <2> QED BY <1>0, <2>2, MoveCalm
<1>4. CASE Check(j)
  BY <1>0, <1>4, MoveCalm
     DEF Check, Goto, At, Fields, Looking, Turns
<1>5. CASE TakeLock(j)
  BY <1>0, <1>5, MoveCalm, LookCalm
     DEF TakeLock, Goto, At, Fields, Looking, Turns
<1>6. CASE Relook(j)
  BY <1>0, <1>6, MoveCalm
     DEF Relook, Goto, At, Fields, Looking, Turns
<1>7. CASE SlackRotates(j)
  <2>1. (\E n : q = [r EXCEPT !.got = n, !.pc = "answer"]) \/ q = [r EXCEPT !.pc = "lost"]
    BY <1>7 DEF SlackRotates, Goto
  <2>2. q.todo = r.todo /\ q.pc \in {"answer", "lost"}
    BY <1>0, <2>1 DEF Fields
  <2> QED BY <1>0, <2>2, MoveCalm DEF Looking, Turns
<1>8. CASE TakeAnswer(j)
  BY <1>0, <1>8, MoveCalm, LookCalm
     DEF TakeAnswer, Goto, At, Fields, Looking, Turns
<1>9. CASE LoseAnswer(j)
  BY <1>0, <1>9, ReturnCalm
     DEF LoseAnswer, Goto, At, Inner, OwnInner, Looking, Turns
<1>10. CASE Redirect(j)
  BY <1>0, <1>10, MoveCalm, LookCalm
     DEF Redirect, Goto, At, Fields, Looking, Turns
<1>11. CASE Persist(j)
  BY <1>0, <1>11, MoveCalm, CallCalm
     DEF Persist, Goto, At, Fields, Quiet, After, Outer, Upsert, Looking, Turns
<1>12. CASE SlackCall(j)
  <2>1. q \in {Return(r, TRUE), Return(r, FALSE)} \/ q = [r EXCEPT !.tries = 1, !.pc = "check"]
    BY <1>12 DEF SlackCall, Goto
  <2>2. CASE q \in {Return(r, TRUE), Return(r, FALSE)}
    BY <1>0, <1>12, <2>2, ReturnCalm DEF SlackCall, At, Inner, OwnInner
  <2>3. CASE q = [r EXCEPT !.tries = 1, !.pc = "check"]
    <3>1. q.todo = r.todo /\ q.pc = "check"
      BY <1>0, <2>3 DEF Fields
    <3> QED BY <1>0, <3>1, MoveCalm DEF Looking, Turns
  <2> QED BY <2>1, <2>2, <2>3
<1>13. CASE BeginCall(j)
  BY <1>0, <1>13, LookCalm
     DEF BeginCall, Goto, At, Looking, Turns
<1>14. CASE Source(j)
  BY <1>0, <1>14, MoveCalm, CallCalm, EndedCalm
     DEF Source, Goto, At, Fields, Quiet, After, Outer, Ends, UseSlack, Looking, Turns
<1>15. CASE End(j)
  BY <1>0, <1>15, EndedCalm
     DEF End, Goto, At, Ends, Looking, Turns
<1> QED BY <1>1, <1>2, <1>3, <1>4, <1>5, <1>6, <1>7, <1>8, <1>9, <1>10, <1>11, <1>12, <1>13, <1>14, <1>15 DEF SlackStep

\* HubSpot's does not wipe.
LEMMA HubCalm ==
  ASSUME NEW t \in Turns, t = "wipe", NEW j \in Jobs, DOMAIN job = Jobs, NEW r, r = job[j], NEW q, q = job'[j], Able(r, t), r.pc # t, HubStep(j)
  PROVE  Calm(q, t)
<1>0. /\ DOMAIN r = Fields /\ r.todo \in Seq(Quiet(t)) /\ (r.pc \in Inner => r.todo # <<>>)
      /\ r.goal \in {"", "check", "appsuninstall"}
  BY DEF Able
<1>1. CASE GetClient(j)
  BY <1>0, <1>1, MoveCalm, LookCalm
     DEF GetClient, Goto, At, Fields, Looking, Turns
<1>2. CASE MakeClient(j)
  <2>1. q = Return(r, FALSE) \/ q = [r EXCEPT !.pc = "proactive"]
    BY <1>2 DEF MakeClient, Goto
  <2>2. CASE q = Return(r, FALSE)
    <3>1. r.pc = "client"
      BY <1>2 DEF MakeClient, At
    <3>2. r.todo # <<>>
      BY <1>0, <3>1 DEF Inner, OwnInner
    <3> QED BY <1>0, <2>2, <3>2, ReturnCalm
  <2>3. CASE q = [r EXCEPT !.pc = "proactive"]
    <3>1. q.todo = r.todo /\ q.pc = "proactive"
      BY <1>0, <2>3 DEF Fields
    <3> QED BY <1>0, <3>1, MoveCalm DEF Looking, Turns
  <2> QED BY <2>1, <2>2, <2>3
<1>3. CASE Proactive(j)
  BY <1>0, <1>3, MoveCalm
     DEF Proactive, Goto, At, Fields, Looking, Turns
<1>4. CASE LockEarly(j)
  <2>1. (\E n : q = [r EXCEPT !.mode = "early", !.sent = n, !.pc = "hubrefresh"]) \/ q = [r EXCEPT !.pc = "send"]
    BY <1>4 DEF LockEarly, Goto
  <2>2. q.todo = r.todo /\ q.pc \in {"hubrefresh", "send"}
    BY <1>0, <2>1 DEF Fields
  <2> QED BY <1>0, <2>2, MoveCalm DEF Looking, Turns
<1>5. CASE Send(j)
  BY <1>0, <1>5, MoveCalm
     DEF Send, Goto, At, Fields, Looking, Turns
<1>6. CASE Answered(j)
  <2>1. q = Return(r, TRUE) \/ \E n : q = [r EXCEPT !.tries = n, !.pc = "send"]
    BY <1>6 DEF Answered, Goto
  <2>2. CASE q = Return(r, TRUE)
    BY <1>0, <1>6, <2>2, ReturnCalm DEF Answered, At, Inner, OwnInner
  <2>3. CASE \E n : q = [r EXCEPT !.tries = n, !.pc = "send"]
    <3>1. q.todo = r.todo /\ q.pc = "send"
      BY <1>0, <2>3 DEF Fields
    <3> QED BY <1>0, <3>1, MoveCalm DEF Looking, Turns
  <2> QED BY <2>1, <2>2, <2>3
<1>7. CASE Errs(j)
  BY <1>0, <1>7, ReturnCalm
     DEF Errs, Goto, At, Inner, OwnInner, Looking, Turns
<1>8. CASE Unauthorized(j)
  <2>1. q = Return(r, FALSE) \/ q = [r EXCEPT !.pc = "late"]
    BY <1>8 DEF Unauthorized, Goto
  <2>2. CASE q = Return(r, FALSE)
    BY <1>0, <1>8, <2>2, ReturnCalm DEF Unauthorized, At, Inner, OwnInner
  <2>3. CASE q = [r EXCEPT !.pc = "late"]
    <3>1. q.todo = r.todo /\ q.pc = "late"
      BY <1>0, <2>3 DEF Fields
    <3> QED BY <1>0, <3>1, MoveCalm DEF Looking, Turns
  <2> QED BY <2>1, <2>2, <2>3
<1>9. CASE LockLate(j)
  BY <1>0, <1>9, MoveCalm
     DEF LockLate, Goto, At, Fields, Looking, Turns
<1>10. CASE HubRefreshes(j)
  <2>1. \/ \E n : q = [r EXCEPT !.tok = n, !.pc = "hubanswer"]
        \/ \E w : q = Call([r EXCEPT !.tok = 0, !.uws = w], "revoked", "hubanswer")
    BY <1>10 DEF HubRefreshes, Goto
  <2>2. CASE \E n : q = [r EXCEPT !.tok = n, !.pc = "hubanswer"]
    <3>1. q.todo = r.todo /\ q.pc = "hubanswer"
      BY <1>0, <2>2 DEF Fields
    <3> QED BY <1>0, <3>1, MoveCalm DEF Looking, Turns
  <2>3. CASE \E w : q = Call([r EXCEPT !.tok = 0, !.uws = w], "revoked", "hubanswer")
    <3>1. PICK w, s : s = [r EXCEPT !.tok = 0, !.uws = w] /\ q = Call(s, "revoked", "hubanswer")
      BY <2>3
    <3>2. DOMAIN s = Fields /\ s.todo \in Seq(Quiet(t))
      BY <1>0, <3>1 DEF Fields
    <3>3. "revoked" \notin Looking /\ "hubanswer" \in Quiet(t)
      BY DEF Looking, Quiet, After, Turns
    <3> QED BY <3>1, <3>2, <3>3, CallCalm
  <2> QED BY <2>1, <2>2, <2>3
<1>11. CASE HubAnswer(j)
  <2>1. PICK s : s = [r EXCEPT !.uws = r.ws] /\ (q = [s EXCEPT !.pc = "refreshed"] \/ \E k : q = Lookup(s, k, "hubpersist"))
    BY <1>11 DEF HubAnswer, Goto
  <2>2. DOMAIN s = Fields /\ s.todo \in Seq(Quiet(t))
    BY <1>0, <2>1 DEF Fields
  <2>3. CASE \E k : q = Lookup(s, k, "hubpersist")
    BY <2>2, <2>3, LookCalm DEF Looking, Turns
  <2>4. CASE q = [s EXCEPT !.pc = "refreshed"]
    <3>1. q.todo = s.todo /\ q.pc = "refreshed"
      BY <2>2, <2>4 DEF Fields
    <3> QED BY <2>2, <3>1, MoveCalm DEF Looking, Turns
  <2> QED BY <2>1, <2>3, <2>4
<1>12. CASE HubPersist(j)
  BY <1>0, <1>12, MoveCalm, CallCalm
     DEF HubPersist, Goto, At, Fields, Quiet, After, Outer, Upsert, Looking, Turns
<1>13. CASE Refreshed(j)
  BY <1>0, <1>13, MoveCalm
     DEF Refreshed, Goto, At, Fields, Looking, Turns
<1>14. CASE BeginHub(j)
  BY <1>0, <1>14, CallCalm
     DEF BeginHub, Goto, At, Quiet, After, Outer, Looking, Turns
<1> QED BY <1>1, <1>2, <1>3, <1>4, <1>5, <1>6, <1>7, <1>8, <1>9, <1>10, <1>11, <1>12, <1>13, <1>14 DEF HubStep

\* A deletion, but for the one that wipes.
LEMMA DeleteCalm ==
  ASSUME NEW t \in Turns, NEW r, DOMAIN r = Fields, r.todo \in Seq(Quiet(t)), NEW k, NEW a \in Quiet(t)
  PROVE  Calm(Delete(r, k, a), t)
<1>1. PICK s : s = [r EXCEPT !.todo = <<a>> \o @, !.ok = TRUE]
  OBVIOUS
<1>2. DOMAIN s = Fields /\ s.todo = <<a>> \o r.todo
  BY <1>1 DEF Fields
<1>3. s.todo \in Seq(Quiet(t))
  BY <1>2
<1>4. Calm(Lookup(s, k, "deleting"), t)
  BY <1>2, <1>3, LookCalm DEF Looking, Turns
<1> QED BY <1>1, <1>4 DEF Delete

\* Of the lifecycle's steps, two begin to wipe.
LEMMA LifeCalm ==
  ASSUME NEW t \in Turns, NEW j \in Jobs, DOMAIN job = Jobs, NEW r, r = job[j], NEW q, q = job'[j], Able(r, t), r.pc # t, LifeStep(j)
  PROVE  Calm(q, t) \/ q = Wipe(r)
<1>0. /\ DOMAIN r = Fields /\ r.todo \in Seq(Quiet(t)) /\ (r.pc \in Inner => r.todo # <<>>)
      /\ r.goal \in {"", "check", "appsuninstall"}
  BY DEF Able
<1>1. CASE BeginUninstall(j)
  <2>1. PICK s : s = [r EXCEPT !.todo = <<"end">>]
    OBVIOUS
  <2>2. DOMAIN s = Fields /\ s.todo = <<"end">>
    BY <1>0, <2>1 DEF Fields
  <2>3. "end" \in Quiet(t)
    BY DEF Quiet, After, Outer, Turns
  <2>4. s.todo \in Seq(Quiet(t))
    BY <2>2, <2>3
  <2>5. q = Ended(r, "done") \/ \E k : q = Lookup(s, k, "drophub")
    BY <1>1, <2>1 DEF BeginUninstall, Goto
  <2> QED BY <2>2, <2>4, <2>5, LookCalm, EndedCalm DEF Looking, Ends, Turns
<1>2. CASE BeginRevoked(j)
  BY <1>0, <1>2, MoveCalm, ReturnCalm
     DEF BeginRevoked, Goto, At, Fields, Inner, OwnInner, Looking, Turns
<1>3. CASE DropHubSpot(j)
  BY <1>0, <1>3, MoveCalm, CallCalm
     DEF DropHubSpot, Goto, At, Fields, Quiet, After, Outer, Looking, Turns
<1>4. CASE DropSlack(j)
  BY <1>0, <1>4, LookCalm
     DEF DropSlack, Goto, At, Looking, Turns
<1>5. CASE AppsUninstall(j)
  BY <1>0, <1>5, MoveCalm, ReturnCalm
     DEF AppsUninstall, Goto, At, Fields, Inner, OwnInner, Looking, Turns
<1>6. CASE BeginUnhub(j)
  <2>1. PICK s : s = [r EXCEPT !.todo = <<"end">>] /\ q = Call(s, "hub", "delhub")
    BY <1>6 DEF BeginUnhub, Goto
  <2>2. DOMAIN s = Fields /\ s.todo = <<"end">>
    BY <1>0, <2>1 DEF Fields
  <2>3. "end" \in Quiet(t) /\ "delhub" \in Quiet(t)
    BY DEF Quiet, After, Outer, Turns
  <2>4. s.todo \in Seq(Quiet(t))
    BY <2>2, <2>3
  <2> QED BY <2>1, <2>2, <2>3, <2>4, CallCalm DEF Looking, Turns
<1>7. CASE DeleteHub(j)
  BY <1>0, <1>7, DeleteCalm
     DEF DeleteHub, Goto, Fields, Quiet, After, Outer, Turns
<1>8. CASE BeginUnslack(j)
  BY <1>0, <1>8, LookCalm
     DEF BeginUnslack, Goto, At, Looking, Turns
<1>9. CASE DeleteSlack(j)
  BY <1>0, <1>9, DeleteCalm
     DEF DeleteSlack, Goto, Fields, Quiet, After, Outer, Turns
<1>10. CASE DropClients(j)
  BY <1>0, <1>10, MoveCalm, EndedCalm
     DEF DropClients, Goto, At, Fields, Ends, Looking, Turns
<1>11. CASE BeginInstall(j)
  <2>1. PICK n, w, k : q = Lookup([r EXCEPT !.got = n, !.ws = w], k, "register")
    BY <1>11 DEF BeginInstall, Goto
  <2>2. PICK s : s = [r EXCEPT !.got = n, !.ws = w]
    OBVIOUS
  <2>3. DOMAIN s = Fields /\ s.todo \in Seq(Quiet(t))
    BY <1>0, <2>2 DEF Fields
  <2>4. q = Lookup(s, k, "register")
    BY <2>1, <2>2
  <2> QED BY <2>3, <2>4, LookCalm DEF Looking, Turns
<1>12. CASE Register(j)
  BY <1>0, <1>12, MoveCalm
     DEF Register, Goto, At, Fields, Looking, Turns
<1>13. CASE Merge(j)
  <2>1. PICK x, y, k : q = Lookup([r EXCEPT !.new = x, !.left = y], k, "move")
    BY <1>13 DEF Merge, Goto
  <2>2. PICK s : s = [r EXCEPT !.new = x, !.left = y]
    OBVIOUS
  <2>3. DOMAIN s = Fields /\ s.todo \in Seq(Quiet(t))
    BY <1>0, <2>2 DEF Fields
  <2>4. q = Lookup(s, k, "move")
    BY <2>1, <2>2
  <2> QED BY <2>3, <2>4, LookCalm DEF Looking, Turns
<1>14. CASE Move(j)
  BY <1>0, <1>14, MoveCalm, CallCalm
     DEF Move, Goto, At, Fields, Quiet, After, Outer, Upsert, Looking, Turns
<1>15. CASE Conflict(j)
  BY <1>0, <1>15, EndedCalm
     DEF Conflict, Goto, At, Ends, Looking, Turns
<1>16. CASE Merged(j)
  BY <1>0, <1>16, MoveCalm
     DEF Merged, Goto, At, Fields, Looking, Turns
<1>17. CASE Save(j)
  BY <1>0, <1>17, MoveCalm, CallCalm
     DEF Save, Goto, At, Fields, Quiet, After, Outer, Upsert, Looking, Turns
<1>18. CASE BeginHubInstall(j)
  <2>1. PICK z, s : s = [r EXCEPT !.tok = z] /\ Reuses(q, s)
    BY <1>18, HubInstallBegins
  <2>2. DOMAIN s = Fields /\ s.todo \in Seq(Quiet(t))
    BY <1>0, <2>1 DEF Fields
  <2>3. CASE \E k : q = Lookup(s, k, "reuse")
    BY <2>2, <2>3, LookCalm DEF Looking, Turns
  <2>4. CASE \E x : q = [s EXCEPT !.pc = "reuse", !.rec = x]
    <3>1. q.todo = s.todo /\ q.pc = "reuse"
      BY <2>2, <2>4 DEF Fields
    <3> QED BY <2>2, <3>1, MoveCalm DEF Looking, Turns
  <2> QED BY <2>1, <2>3, <2>4 DEF Reuses
<1>19. CASE Reuse(j)
  <2>1. PICK s : s = [r EXCEPT !.old = r.rec]
    OBVIOUS
  <2>2. DOMAIN s = Fields /\ s.todo \in Seq(Quiet(t))
    BY <1>0, <2>1 DEF Fields
  <2>3. q = [s EXCEPT !.pc = "isolate"] \/ q = [s EXCEPT !.pc = "savehub"] \/ \E k : q = Lookup(s, k, "heal")
    BY <1>19, <2>1 DEF Reuse, Goto
  <2>4. CASE q = [s EXCEPT !.pc = "isolate"] \/ q = [s EXCEPT !.pc = "savehub"]
    <3>1. q.todo = s.todo /\ q.pc \in {"isolate", "savehub"}
      BY <2>2, <2>4 DEF Fields
    <3> QED BY <2>2, <3>1, MoveCalm DEF Looking, Turns
  <2>5. CASE \E k : q = Lookup(s, k, "heal")
    BY <2>2, <2>5, LookCalm DEF Looking, Turns
  <2> QED BY <2>3, <2>4, <2>5
<1>20. CASE Heal(j)
  BY <1>0, <1>20, MoveCalm, CallCalm
     DEF Heal, Goto, At, Fields, Quiet, After, Outer, Upsert, Looking, Turns
<1>21. CASE Isolate(j)
  BY <1>0, <1>21, MoveCalm, LookCalm
     DEF Isolate, Goto, At, Fields, Looking, Turns
<1>22. CASE Share(j)
  BY <1>0, <1>22, MoveCalm, CallCalm
     DEF Share, Goto, At, Fields, Quiet, After, Outer, Upsert, Looking, Turns
<1>23. CASE SaveHub(j)
  BY <1>0, <1>23, LookCalm
     DEF SaveHub, Goto, At, Looking, Turns
<1>24. CASE WriteHub(j)
  BY <1>0, <1>24, MoveCalm, CallCalm
     DEF WriteHub, Goto, At, Fields, Quiet, After, Outer, Upsert, Looking, Turns
<1>25. CASE Revoke(j)
  BY <1>0, <1>25, CallCalm DEF Revoke, Goto, UseSlack, Fields, Looking, Quiet, After, Turns
<1>26. CASE WipeAll(j)
  BY <1>26 DEF WipeAll, Goto
<1>27. CASE t = "wipe" /\ (WipeOne(j) \/ WipeMappings(j))
  BY <1>27 DEF WipeOne, WipeMappings, At
<1>28. CASE t # "wipe" /\ WipeOne(j)
  <2>1. PICK v, s : s = [r EXCEPT !.left = @ \ {v}] /\ q = Delete(s, <<r.uws, v>>, "wipe")
    BY <1>28 DEF WipeOne, Goto
  <2>2. DOMAIN s = Fields /\ s.todo \in Seq(Quiet(t))
    BY <1>0, <2>1 DEF Fields
  <2>3. "wipe" \in Quiet(t)
    BY <1>28 DEF Quiet, After
  <2>4. Calm(Delete(s, <<r.uws, v>>, "wipe"), t)
    BY <2>2, <2>3, DeleteCalm
  <2> QED BY <2>1, <2>4
<1>29. CASE t # "wipe" /\ WipeMappings(j)
  BY <1>0, <1>29, ReturnCalm DEF WipeMappings, Goto, At, Inner, OwnInner
<1> QED BY <1>1, <1>2, <1>3, <1>4, <1>5, <1>6, <1>7, <1>8, <1>9, <1>10, <1>11, <1>12, <1>13, <1>14, <1>15, <1>16, <1>17, <1>18, <1>19, <1>20, <1>21, <1>22, <1>23, <1>24, <1>25, <1>26, <1>27, <1>28, <1>29 DEF LifeStep

\* The steps on records leave a calm request calm.
LEMMA RecordCalm ==
  ASSUME NEW t \in Turns, NEW j \in Jobs, DOMAIN job = Jobs, NEW r, r = job[j], NEW q, q = job'[j], Framed(r), Calm(r, t), RecordStep(j)
  PROVE  Calm(q, t)
<1>0. DOMAIN r = Fields /\ r.todo \in Seq(Quiet(t)) /\ Place(r) # t
  BY DEF Framed, Shaped, Calm
<1>1. CASE ReadRow(j)
  <2>1. PICK x : q = [r EXCEPT !.rec = x, !.pc = "storing"]
    BY <1>1 DEF ReadRow, Goto
  <2>2. q.todo = r.todo /\ q.pc = "storing" /\ q.ret = r.ret /\ r.pc = "reading"
    BY <1>0, <1>1, <2>1 DEF Fields, ReadRow, At
  <2> QED BY <1>0, <2>2 DEF Calm, Place, Looking
<1>2. CASE StoreRecord(j)
  <2>1. q = [r EXCEPT !.pc = r.ret] /\ r.pc = "storing"
    BY <1>2 DEF StoreRecord, Goto, At
  <2>2. q.todo = r.todo /\ q.pc = Place(r)
    BY <1>0, <2>1 DEF Fields, Place, Looking, Turns
  <2> QED BY <1>0, <2>2, MoveCalm, Labels DEF Framed
<1>3. CASE WriteRow(j) \/ DeleteRows(j)
  <2>1. q.todo = r.todo /\ q.pc = "forgetting"
    BY <1>0, <1>3 DEF WriteRow, DeleteRows, Goto, Fields
  <2> QED BY <1>0, <2>1, MoveCalm DEF Looking, Turns
<1>4. CASE WriteFails(j)
  <2>1. q = Return(r, FALSE) /\ r.todo # <<>>
    BY <1>4 DEF WriteFails, Goto, Framed, Place, Looking, Inner, OwnInner, Turns
  <2> QED BY <1>0, <2>1, ReturnCalm
<1>5. CASE Forget(j)
  <2>1. PICK g : q = [Return(r, TRUE) EXCEPT !.got = g]
    BY <1>5 DEF Forget, Goto
  <2>2. r.todo # <<>>
    BY <1>5 DEF Forget, At, Framed, Place, Looking, Inner, OwnInner, Turns
  <2>3. PICK s : s = Return(r, TRUE)
    OBVIOUS
  <2>4. Calm(s, t) /\ DOMAIN s = Fields
    BY <1>0, <2>2, <2>3, ReturnCalm DEF Return
  <2>5. q.todo = s.todo /\ q.pc = s.pc /\ q.ret = s.ret
    BY <2>1, <2>3, <2>4 DEF Fields
  <2> QED BY <2>4, <2>5 DEF Calm, Place
<1> QED BY <1>1, <1>2, <1>3, <1>4, <1>5 DEF RecordStep

(* What is left of a workspace that is being wiped: of a provider that is  *)
(* done with there is no record, unless its deletion raised or a write     *)
(* came in between.                                                        *)
Erases(r) == r.pc = "wipe" /\ r.todo \in Seq(Quiet("wipe"))
Deleting(r) == /\ Place(r) \in {"deleting", "forgetting"}
              /\ r.todo # <<>> /\ Head(r.todo) = "wipe" /\ Tail(r.todo) \in Seq(Quiet("wipe"))
Gone(ws, v) == \A x \in rows : ~(x.ws = ws /\ x.prov = v)
Excused == "late" \in faults
Cleared(r) == \A v \in Provs : \/ v \in r.left \/ Gone(r.uws, v) \/ v \in faults
                               \/ Place(r) = "deleting" /\ r.key = <<r.uws, v>>
Wiped(r) == Calm(r, "wipe") \/ ((Erases(r) \/ Deleting(r)) /\ (Excused \/ Cleared(r)))

\* A deletion of a wipe goes on to the next one.
LEMMA RecordWiped ==
  ASSUME NEW j \in Jobs, DOMAIN job = Jobs, NEW r, r = job[j], NEW q, q = job'[j], Framed(r), Deleting(r),
         Excused \/ Cleared(r), RecordStep(j)
  PROVE  (Erases(q) \/ Deleting(q)) /\ (Excused' \/ Cleared(q)')
<1>0. /\ DOMAIN r = Fields
      /\ Place(r) \in {"deleting", "forgetting"}
      /\ r.todo # <<>> /\ Head(r.todo) = "wipe" /\ Tail(r.todo) \in Seq(Quiet("wipe"))
  BY DEF Framed, Shaped, Deleting
<1>1. CASE ReadRow(j) \/ StoreRecord(j)
  <2>1. rows' = rows /\ faults' = faults
    BY <1>1 DEF ReadRow, StoreRecord
  <2>2. r.pc \in Looking
    BY <1>1 DEF ReadRow, StoreRecord, At, Looking
  <2>3. q.todo = r.todo /\ q.left = r.left /\ q.uws = r.uws /\ q.key = r.key
    BY <1>0, <1>1 DEF ReadRow, StoreRecord, Goto, Fields
  <2>4. (q.pc = "storing" /\ q.ret = r.ret) \/ q.pc = r.ret
    BY <1>0, <1>1 DEF ReadRow, StoreRecord, Goto, Fields
  <2>5. Place(q) = Place(r)
    BY <1>0, <2>2, <2>4 DEF Place, Looking
  <2>6. Deleting(q) /\ (Excused \/ Cleared(q))
    BY <1>0, <2>3, <2>5 DEF Deleting, Cleared
  <2> QED BY <2>1, <2>6 DEF Excused, Cleared, Gone
<1>2. ~WriteRow(j)
  BY <1>0 DEF WriteRow, At, Place, Looking
<1>3. CASE WriteFails(j)
  <2>1. /\ q = Return(r, FALSE) /\ faults \subseteq faults' /\ rows' = rows
        /\ r.pc = "deleting" => r.key[2] \in faults'
    BY <1>3 DEF WriteFails, Goto, At
  <2>2. q.todo = Tail(r.todo) /\ q.pc = Head(r.todo) /\ q.left = r.left /\ q.uws = r.uws
    BY <1>0, <2>1 DEF Return, Fields
  <2>3. Erases(q)
    BY <1>0, <2>2 DEF Erases
  <2>4. Place(r) = "deleting" => r.pc = "deleting"
    BY <1>3 DEF WriteFails, Place, Looking
  <2>5. ASSUME Cleared(r) PROVE Cleared(q)'
    <3> SUFFICES ASSUME NEW v \in Provs PROVE v \in q.left \/ Gone(q.uws, v)' \/ v \in faults'
      BY DEF Cleared
    <3>1. CASE v \in r.left \/ v \in faults
      BY <2>1, <2>2, <3>1
    <3>2. CASE Gone(r.uws, v)
      BY <2>1, <2>2, <3>2 DEF Gone
    <3>3. CASE Place(r) = "deleting" /\ r.key = <<r.uws, v>>
      <4>1. r.key[2] = v /\ r.key[2] \in faults'
        BY <2>1, <2>4, <3>3
      <4> QED BY <4>1
    <3> QED BY <2>5, <3>1, <3>2, <3>3 DEF Cleared
  <2> QED BY <2>1, <2>3, <2>5 DEF Excused
<1>4. CASE DeleteRows(j)
  <2>1. /\ rows' = {x \in rows : ~(x.ws = r.key[1] /\ x.prov = r.key[2])}
        /\ faults' = faults /\ r.pc = "deleting"
    BY <1>4 DEF DeleteRows, At, Matching
  <2>2. /\ q.todo = r.todo /\ q.left = r.left /\ q.uws = r.uws /\ q.key = r.key /\ q.pc = "forgetting"
    BY <1>0, <1>4 DEF DeleteRows, Goto, Fields
  <2>3. Deleting(q)
    BY <1>0, <2>2 DEF Deleting, Place, Looking
  <2>4. ASSUME Cleared(r) PROVE Cleared(q)'
    <3> SUFFICES ASSUME NEW v \in Provs PROVE v \in q.left \/ Gone(q.uws, v)' \/ v \in faults'
      BY DEF Cleared
    <3>1. CASE v \in r.left \/ v \in faults
      BY <2>1, <2>2, <3>1
    <3>2. CASE Gone(r.uws, v)
      BY <2>1, <2>2, <3>2 DEF Gone
    <3>3. CASE r.key = <<r.uws, v>>
      BY <2>1, <2>2, <3>3 DEF Gone
    <3> QED BY <2>4, <3>1, <3>2, <3>3 DEF Cleared
  <2> QED BY <2>1, <2>3, <2>4 DEF Excused
<1>5. CASE Forget(j)
  <2>1. PICK g : q = [Return(r, TRUE) EXCEPT !.got = g]
    BY <1>5 DEF Forget, Goto
  <2>2. rows' = rows /\ faults' = faults /\ r.pc = "forgetting"
    BY <1>5 DEF Forget, At
  <2>3. q.todo = Tail(r.todo) /\ q.pc = Head(r.todo) /\ q.left = r.left /\ q.uws = r.uws
    BY <1>0, <2>1 DEF Return, Fields
  <2>4. Erases(q)
    BY <1>0, <2>3 DEF Erases
  <2>5. Excused \/ Cleared(q)
    BY <2>2, <2>3 DEF Cleared, Place, Looking
  <2>6. Place(q) = "wipe"
    BY <2>4 DEF Erases, Place, Looking
  <2> QED BY <2>2, <2>4, <2>5, <2>6 DEF Excused, Cleared, Gone
<1> QED BY <1>1, <1>2, <1>3, <1>4, <1>5 DEF RecordStep

\* So does the wipe itself, until it returns.
LEMMA LifeWiped ==
  ASSUME NEW j \in Jobs, DOMAIN job = Jobs, NEW r, r = job[j], NEW q, q = job'[j], Framed(r), Erases(r),
         Excused \/ Cleared(r), LifeStep(j)
  PROVE  Calm(q, "wipe") \/ (Deleting(q) /\ (Excused' \/ Cleared(q)'))
<1>0. DOMAIN r = Fields /\ r.pc = "wipe" /\ r.todo \in Seq(Quiet("wipe")) /\ r.todo # <<>>
  BY DEF Framed, Shaped, Erases, Place, Looking, Inner, OwnInner
<1>1. WipeOne(j) \/ WipeMappings(j)
  BY <1>0 DEF LifeStep, BeginUninstall, BeginRevoked, DropHubSpot, DropSlack, Revoke, AppsUninstall, WipeAll,
     BeginUnhub, DeleteHub, BeginUnslack, DeleteSlack, DropClients, BeginInstall, Register,
     Merge, Move, Conflict, Merged, Save, BeginHubInstall, Reuse, Heal, Isolate, Share, SaveHub, WriteHub, At
<1>2. CASE WipeMappings(j)
  <2>1. q = Return(r, TRUE)
    BY <1>2 DEF WipeMappings, Goto
  <2> QED BY <1>0, <2>1, ReturnCalm DEF Turns
<1>3. CASE WipeOne(j)
  <2>1. PICK v \in r.left : q = Delete([r EXCEPT !.left = @ \ {v}], <<r.uws, v>>, "wipe")
    BY <1>3 DEF WipeOne, Goto
  <2>2. PICK s : s = [[r EXCEPT !.left = @ \ {v}] EXCEPT !.todo = <<"wipe">> \o @, !.ok = TRUE]
    OBVIOUS
  <2>3. /\ DOMAIN s = Fields /\ s.todo = <<"wipe">> \o r.todo /\ s.left = r.left \ {v} /\ s.uws = r.uws /\ s.p = r.p
    BY <1>0, <2>2 DEF Fields
  <2>4. q = Lookup(s, <<r.uws, v>>, "deleting")
    BY <2>1, <2>2 DEF Delete
  <2>5. /\ q.todo = s.todo /\ q.left = s.left /\ q.uws = s.uws /\ q.key = <<r.uws, v>>
        /\ q.pc = "deleting" \/ (q.pc = "reading" /\ q.ret = "deleting")
    BY <2>3, <2>4 DEF Lookup, Fields
  <2>6. Place(q) = "deleting"
    BY <2>5 DEF Place, Looking
  <2>7. q.todo # <<>> /\ Head(q.todo) = "wipe" /\ Tail(q.todo) = r.todo
    BY <1>0, <2>3, <2>5
  <2>8. Deleting(q)
    BY <1>0, <2>6, <2>7 DEF Deleting
  <2>9. rows' = rows /\ faults' = faults
    BY <1>3 DEF WipeOne, Others
  <2>10. ASSUME Cleared(r) PROVE Cleared(q)'
    <3> SUFFICES ASSUME NEW w \in Provs, w \notin q.left, ~Gone(q.uws, w)', w \notin faults' PROVE w = v
      BY <2>5, <2>6, <2>3 DEF Cleared
    <3>1. ~Gone(r.uws, w)
      BY <2>3, <2>5, <2>9 DEF Gone
    <3>2. Place(r) = "wipe"
      BY <1>0 DEF Place, Looking
    <3>3. w \in r.left
      BY <2>9, <2>10, <3>1, <3>2 DEF Cleared
    <3> QED BY <2>3, <2>5, <3>3
  <2> QED BY <2>8, <2>9, <2>10 DEF Excused
<1> QED BY <1>1, <1>2, <1>3

\* Where the steps of the clients and of the lifecycle begin.
LEMMA Elsewhere ==
  ASSUME NEW j \in Jobs, SlackStep(j) \/ HubStep(j) \/ LifeStep(j)
  PROVE  /\ job[j].pc \notin Looking /\ job[j].pc \notin {"deleting", "forgetting"}
         /\ job[j].pc = "wipe" => LifeStep(j)
<1>1. CASE SlackStep(j)
  BY <1>1 DEF SlackStep, Resolve, Pivot, Bind, Check, TakeLock, Relook, SlackRotates, TakeAnswer, LoseAnswer, Redirect, Persist,
     SlackCall, BeginCall, Source, End, At, Looking
<1>2. CASE HubStep(j)
  BY <1>2 DEF HubStep, GetClient, MakeClient, Proactive, LockEarly, Send, Answered, Errs, Unauthorized, LockLate, HubRefreshes,
     HubAnswer, HubPersist, Refreshed, BeginHub, At, Looking
<1>3. CASE LifeStep(j)
  BY <1>3 DEF LifeStep, BeginUninstall, BeginRevoked, DropHubSpot, DropSlack, Revoke, AppsUninstall, WipeAll, WipeOne,
     WipeMappings, BeginUnhub, DeleteHub, BeginUnslack, DeleteSlack, DropClients, BeginInstall, Register,
     Merge, Move, Conflict, Merged, Save, BeginHubInstall, Reuse, Heal, Isolate, Share, SaveHub, WriteHub, At, Looking
<1> QED BY <1>1, <1>2, <1>3

\* Of all steps only a write adds a row, and no fault is forgotten.
LEMMA OnlyWrites ==
  ASSUME NEW j \in Jobs, RequestStep(j), ~WriteRow(j)
  PROVE  rows' \subseteq rows /\ faults \subseteq faults'
<1>1. CASE RecordStep(j)
  BY <1>1 DEF RecordStep, ReadRow, StoreRecord, WriteFails, DeleteRows, Forget
<1>2. CASE SlackStep(j)
  BY <1>2 DEF SlackStep, Resolve, Pivot, Bind, Check, TakeLock, Relook, SlackRotates, TakeAnswer, LoseAnswer, Redirect, Persist,
     SlackCall, BeginCall, Source, End
<1>3. CASE HubStep(j)
  BY <1>3 DEF HubStep, GetClient, MakeClient, Proactive, LockEarly, Send, Answered, Errs, Unauthorized, LockLate, HubRefreshes,
     HubAnswer, HubPersist, Refreshed, BeginHub
<1>4. CASE LifeStep(j)
  BY <1>4 DEF LifeStep, BeginUninstall, BeginRevoked, DropHubSpot, DropSlack, Revoke, AppsUninstall, WipeAll, WipeOne,
     WipeMappings, BeginUnhub, DeleteHub, BeginUnslack, DeleteSlack, DropClients, BeginInstall, Register,
     Merge, Move, Conflict, Merged, Save, BeginHubInstall, Reuse, Heal, Isolate, Share, SaveHub, WriteHub, Others
<1> QED BY <1>1, <1>2, <1>3, <1>4 DEF RequestStep

\* What others do to a request that stays where it is.
LEMMA StaysWiped ==
  ASSUME NEW r, Wiped(r), faults \subseteq faults',
         \A x \in rows' : x \in rows \/ (r.uws = x.ws /\ ~Calm(r, "wipe") => "late" \in faults')
  PROVE  Wiped(r)'
<1>1. Calm(r, "wipe")' <=> Calm(r, "wipe")
  BY DEF Calm, Place
<1> QED BY <1>1 DEF Wiped, Erases, Deleting, Place, Excused, Cleared, Gone

(* Every request is calm, or wipes and leaves nothing behind.              *)
AllWiped == \A j \in Jobs : Wiped(job[j])

\* A step of a request,
LEMMA RequestWiped ==
  ASSUME NEW j \in Jobs, Sound, AllWiped, RequestStep(j)
  PROVE  AllWiped'
<1>0. DOMAIN job = Jobs /\ \A k \in Jobs : Framed(job[k]) /\ Wiped(job[k])
  BY DEF Sound, Good, AllWiped
<1>1. \A k \in Jobs : k # j => job'[k] = job[k]
  BY <1>0, OnlyOwn
<1>2. PICK r, q : r = job[j] /\ q = job'[j]
  OBVIOUS
<1>3. Framed(r) /\ Wiped(r) /\ DOMAIN r = Fields
  BY <1>0, <1>2 DEF Framed, Shaped
<1>4. Wiped(q)'
  <2>1. CASE Calm(r, "wipe") /\ RecordStep(j)
    BY <1>0, <1>2, <1>3, <2>1, RecordCalm DEF Wiped, Calm, Place, Turns
  <2>2. CASE Calm(r, "wipe") /\ ~RecordStep(j)
    <3>1. r.pc \notin Looking /\ r.pc # "wipe" /\ Able(r, "wipe")
      <4>1. r.pc \notin Looking
        BY <1>2, <2>2, Elsewhere DEF RequestStep
      <4> QED BY <1>3, <2>2, <4>1 DEF Able, Calm, Place, Framed, Shaped
    <3>2. Calm(q, "wipe") \/ q = Wipe(r)
      BY <1>0, <1>2, <2>2, <3>1, SlackCalm, HubCalm, LifeCalm DEF RequestStep, Turns
    <3>3. ASSUME q = Wipe(r) PROVE Erases(q) /\ Cleared(q)'
      <4>1. q.pc = "wipe" /\ q.todo = r.todo /\ q.left = {"hubspot", "slack"}
        BY <1>3, <3>3 DEF Wipe, Fields
      <4> QED BY <2>2, <4>1 DEF Erases, Cleared, Provs, Calm
    <3> QED BY <3>2, <3>3 DEF Wiped, Calm, Place, Erases
  <2>3. CASE Deleting(r) /\ (Excused \/ Cleared(r))
    <3>1. RecordStep(j)
      BY <1>2, <2>3, Elsewhere DEF RequestStep, Deleting, Place
    <3>2. (Erases(q) \/ Deleting(q)) /\ (Excused' \/ Cleared(q)')
      BY <1>0, <1>2, <1>3, <2>3, <3>1, RecordWiped
    <3> QED BY <3>2 DEF Wiped, Erases, Deleting, Place
  <2>4. CASE Erases(r) /\ (Excused \/ Cleared(r))
    <3>1. LifeStep(j)
      BY <1>2, <2>4, Elsewhere DEF RequestStep, Erases, RecordStep, ReadRow, StoreRecord, WriteRow, WriteFails, DeleteRows,
         Forget, At
    <3>2. Calm(q, "wipe") \/ (Deleting(q) /\ (Excused' \/ Cleared(q)'))
      BY <1>0, <1>2, <1>3, <2>4, <3>1, LifeWiped
    <3> QED BY <3>2 DEF Wiped, Calm, Deleting, Place
  <2> QED BY <1>3, <2>1, <2>2, <2>3, <2>4 DEF Wiped
<1>5. ASSUME NEW k \in Jobs, k # j PROVE Wiped(job[k])'
  <2>1. PICK s : s = job[k]
    OBVIOUS
  <2>2. Wiped(s) /\ job'[k] = s
    BY <1>0, <1>1, <1>5, <2>1
  <2>3. CASE ~WriteRow(j)
    <3>1. rows' \subseteq rows /\ faults \subseteq faults'
      BY <2>3, OnlyWrites
    <3>2. Wiped(s)'
      BY <2>2, <3>1, StaysWiped
    <3> QED BY <2>2, <3>2
  <2>4. CASE WriteRow(j)
    <3>1. PICK x : /\ rows' = {y \in rows : y.id # x.id} \cup {x}
                   /\ faults' = IF Wiping(x.ws) THEN faults \cup {"late"} ELSE faults
      BY <2>4 DEF WriteRow
    <3>2. ASSUME s.uws = x.ws, ~Calm(s, "wipe") PROVE Wiping(x.ws)
      <4>1. CASE Erases(s)
        BY <2>1, <3>2, <4>1 DEF Erases, Wiping, At
      <4>2. CASE Deleting(s)
        <5>1. PICK t : t = Tail(s.todo)
          OBVIOUS
        <5>2. s.todo # <<>> /\ Head(s.todo) = "wipe" /\ s.todo \in Seq(After)
          <6>1. s.todo \in Seq(Lane(s.kind) \cap After)
            BY <1>0, <2>1 DEF Framed, Shaped
          <6> QED BY <4>2, <6>1 DEF Deleting
        <5>3. 1 \in 1..Len(s.todo) /\ s.todo[1] = "wipe"
          BY <5>2
        <5> QED BY <2>1, <3>2, <5>3 DEF Wiping
      <4> QED BY <2>2, <3>2, <4>1, <4>2 DEF Wiped
    <3>3. /\ faults \subseteq faults'
          /\ \A y \in rows' : y \in rows \/ (s.uws = y.ws /\ ~Calm(s, "wipe") => "late" \in faults')
      BY <3>1, <3>2
    <3>4. Wiped(s)'
      BY <2>2, <3>3, StaysWiped
    <3> QED BY <2>2, <3>4
  <2> QED BY <2>3, <2>4
<1> QED BY <1>2, <1>4, <1>5 DEF AllWiped

\* and of the environment.
LEMMA EnvironmentWiped ==
  ASSUME Sound, AllWiped, Environment \/ UNCHANGED tenantVars
  PROVE  AllWiped'
<1>1. rows' = rows /\ faults \subseteq faults'
  BY DEF Environment, RecordExpires, HandleExpires, PairDue, PairDies, TokenDue, TokenDies, RemoveFromHubSpot, RemoveFromSlack,
     Crash, recordVars, tenantVars
<1>2. ASSUME NEW k \in Jobs PROVE job'[k] = job[k] \/ job'[k] = Ended(job[k], "killed")
  BY DEF Environment, RecordExpires, HandleExpires, PairDue, PairDies, TokenDue, TokenDies, RemoveFromHubSpot, RemoveFromSlack,
     Crash, recordVars, tenantVars
<1>3. ASSUME NEW k \in Jobs PROVE Wiped(job[k])'
  <2>1. PICK s : s = job[k]
    OBVIOUS
  <2>2. Wiped(s)
    BY <2>1 DEF AllWiped
  <2>3. CASE job'[k] = s
    <3>1. Wiped(s)'
      BY <1>1, <2>2, StaysWiped
    <3> QED BY <2>3, <3>1
  <2>4. CASE job'[k] = Ended(s, "killed")
    <3>1. PICK q : q = Ended(s, "killed")
      OBVIOUS
    <3>2. Calm(q, "wipe")
      BY <3>1, EndedCalm DEF Ends, Turns
    <3>3. Wiped(q)'
      BY <3>2 DEF Wiped, Calm, Place
    <3> QED BY <2>4, <3>1, <3>3
  <2> QED BY <1>2, <2>1, <2>3, <2>4
<1> QED BY <1>3 DEF AllWiped

(* What a request carries along on its way: its kind, the client it uses,  *)
(* the new token of its refresh and the one its last call was sent with,   *)
(* until it ends.                                                          *)
Bears(q, r) == /\ q.kind = r.kind /\ q.hc = r.hc
               /\ q.tok \in {r.tok, 0} /\ q.sent \in {r.sent, 0}

\* The ways to move on change none of it: a lookup,
LEMMA BearsLook ==
  ASSUME NEW r, DOMAIN r = Fields, NEW s, DOMAIN s = Fields, Bears(s, r), NEW k, NEW l
  PROVE  Bears(Lookup(s, k, l), r) /\ DOMAIN Lookup(s, k, l) = Fields
  BY DEF Bears, Lookup, Fields

\* a return,
LEMMA BearsReturn ==
  ASSUME NEW r, DOMAIN r = Fields, NEW ok
  PROVE  Bears(Return(r, ok), r) /\ DOMAIN Return(r, ok) = Fields
  BY DEF Bears, Return, Fields

\* a call,
LEMMA BearsCall ==
  ASSUME NEW r, DOMAIN r = Fields, NEW s, DOMAIN s = Fields, Bears(s, r), NEW l, NEW a
  PROVE  Bears(Call(s, l, a), r) /\ DOMAIN Call(s, l, a) = Fields
  BY DEF Bears, Call, Fields

\* a write,
LEMMA BearsUpsert ==
  ASSUME NEW r, DOMAIN r = Fields, NEW s, DOMAIN s = Fields, Bears(s, r), NEW x, NEW a
  PROVE  Bears(Upsert(s, x, a), r)
<1>1. PICK t : t = [s EXCEPT !.new = x]
  OBVIOUS
<1>2. DOMAIN t = Fields /\ Bears(t, r)
  BY <1>1 DEF Bears, Fields
<1> QED BY <1>1, <1>2, BearsCall DEF Upsert

\* a deletion and
LEMMA BearsDelete ==
  ASSUME NEW r, DOMAIN r = Fields, NEW s, DOMAIN s = Fields, Bears(s, r), NEW k, NEW a
  PROVE  Bears(Delete(s, k, a), r)
<1>1. PICK t : t = [s EXCEPT !.todo = <<a>> \o @, !.ok = TRUE]
  OBVIOUS
<1>2. DOMAIN t = Fields /\ Bears(t, r)
  BY <1>1 DEF Bears, Fields
<1> QED BY <1>1, <1>2, BearsLook DEF Delete

\* the end.
LEMMA BearsEnded ==
  ASSUME NEW r, DOMAIN r = Fields, NEW l
  PROVE  Bears(Ended(r, l), r)
  BY DEF Bears, Ended, Started, Fields
\* Of the steps, those on records,
LEMMA RecordBears ==
  ASSUME NEW j \in Jobs, DOMAIN job = Jobs, NEW r, r = job[j], DOMAIN r = Fields, NEW q, q = job'[j], RecordStep(j)
  PROVE  Bears(q, r)
<1>0. Bears(r, r)
  BY DEF Bears
<1>1. CASE ReadRow(j)
  BY <1>0, <1>1 DEF ReadRow, Goto, Bears, Fields
<1>2. CASE StoreRecord(j)
  BY <1>0, <1>2 DEF StoreRecord, Goto, Bears, Fields
<1>3. CASE WriteRow(j)
  BY <1>0, <1>3 DEF WriteRow, Goto, Bears, Fields
<1>4. CASE WriteFails(j)
  BY <1>0, <1>4, BearsReturn DEF WriteFails, Goto, Bears, Fields
<1>5. CASE DeleteRows(j)
  BY <1>0, <1>5 DEF DeleteRows, Goto, Bears, Fields
<1>6. CASE Forget(j)
  BY <1>0, <1>6, BearsReturn DEF Forget, Goto, Bears, Fields
<1> QED BY <1>1, <1>2, <1>3, <1>4, <1>5, <1>6 DEF RecordStep

\* those of Slack's client
LEMMA SlackBears ==
  ASSUME NEW j \in Jobs, DOMAIN job = Jobs, NEW r, r = job[j], DOMAIN r = Fields, NEW q, q = job'[j], SlackStep(j)
  PROVE  Bears(q, r)
<1>0. Bears(r, r)
  BY DEF Bears
<1>1. CASE Resolve(j)
  <2>1. \/ \E c, l : q = [r EXCEPT !.cl = c, !.pc = l]
        \/ \E x : q = [r EXCEPT !.rec = x, !.pc = "bind"]
        \/ \E k : q = Lookup(r, k, "pivot")
    BY <1>1 DEF Resolve, Goto
  <2>2. CASE \E c, l : q = [r EXCEPT !.cl = c, !.pc = l]
    BY <1>0, <2>2 DEF Bears, Fields
  <2>3. CASE \E x : q = [r EXCEPT !.rec = x, !.pc = "bind"]
    BY <1>0, <2>3 DEF Bears, Fields
  <2>4. CASE \E k : q = Lookup(r, k, "pivot")
    <3>1. Bears(q, r)
      BY <1>0, <2>4, BearsLook
    <3> QED BY <3>1 DEF Bears
  <2> QED BY <2>1, <2>2, <2>3, <2>4
<1>2. CASE Pivot(j)
  BY <1>0, <1>2, BearsReturn DEF Pivot, Goto, Bears, Fields
<1>3. CASE Bind(j)
  BY <1>0, <1>3 DEF Bind, Goto, Bears, Fields
<1>4. CASE Check(j)
  BY <1>0, <1>4 DEF Check, Goto, Bears, Fields
<1>5. CASE TakeLock(j)
  BY <1>0, <1>5, BearsLook DEF TakeLock, Goto, Bears, Fields
<1>6. CASE Relook(j)
  BY <1>0, <1>6 DEF Relook, Goto, Bears, Fields
<1>7. CASE SlackRotates(j)
  BY <1>0, <1>7 DEF SlackRotates, Goto, Bears, Fields
<1>8. CASE TakeAnswer(j)
  BY <1>0, <1>8, BearsLook DEF TakeAnswer, Goto, Bears, Fields
<1>9. CASE LoseAnswer(j)
  BY <1>0, <1>9, BearsReturn DEF LoseAnswer, Goto, Bears, Fields
<1>10. CASE Redirect(j)
  <2>1. \/ q = [r EXCEPT !.pc = "persist"]
        \/ \E k : q = Lookup(r, k, "persist")
    BY <1>10 DEF Redirect, Goto
  <2>2. CASE q = [r EXCEPT !.pc = "persist"]
    BY <1>0, <2>2 DEF Bears, Fields
  <2>3. CASE \E k : q = Lookup(r, k, "persist")
    <3>1. Bears(q, r)
      BY <1>0, <2>3, BearsLook
    <3> QED BY <3>1 DEF Bears
  <2> QED BY <2>1, <2>2, <2>3
<1>11. CASE Persist(j)
  BY <1>0, <1>11, BearsUpsert DEF Persist, Goto, Bears, Fields
<1>12. CASE SlackCall(j)
  <2>1. \/ q = [r EXCEPT !.tries = 1, !.pc = "check"]
        \/ \E ok : q = Return(r, ok)
    BY <1>12 DEF SlackCall, Goto
  <2>2. CASE q = [r EXCEPT !.tries = 1, !.pc = "check"]
    BY <1>0, <2>2 DEF Bears, Fields
  <2>3. CASE \E ok : q = Return(r, ok)
    <3>1. Bears(q, r)
      BY <1>0, <2>3, BearsReturn
    <3> QED BY <3>1 DEF Bears
  <2> QED BY <2>1, <2>2, <2>3
<1>13. CASE BeginCall(j)
  BY <1>0, <1>13, BearsLook DEF BeginCall, Goto, Bears, Fields
<1>14. CASE Source(j)
  <2>1. q = Ended(r, "failed") \/ \E x, s : s = [r EXCEPT !.src = x, !.goal = "check"] /\ q = Call(s, "slack", "end")
    BY <1>14 DEF Source, Goto, UseSlack
  <2>2. CASE \E x, s : s = [r EXCEPT !.src = x, !.goal = "check"] /\ q = Call(s, "slack", "end")
    <3>1. PICK x, s : s = [r EXCEPT !.src = x, !.goal = "check"] /\ q = Call(s, "slack", "end")
      BY <2>2
    <3>2. DOMAIN s = Fields /\ Bears(s, r)
      BY <3>1 DEF Bears, Fields
    <3>3. q = Call(s, "slack", "end")
      BY <3>1
    <3>4. Bears(q, r)
      BY <3>2, <3>3, BearsCall
    <3> QED BY <3>4
  <2> QED BY <2>1, <2>2, BearsEnded
<1>15. CASE End(j)
  BY <1>0, <1>15, BearsEnded DEF End, Goto, Bears, Fields
<1> QED BY <1>1, <1>2, <1>3, <1>4, <1>5, <1>6, <1>7, <1>8, <1>9, <1>10, <1>11, <1>12, <1>13, <1>14, <1>15 DEF SlackStep

\* and of the lifecycle change none of it either, but for an installation;
LEMMA LifeBears ==
  ASSUME NEW j \in Jobs, DOMAIN job = Jobs, NEW r, r = job[j], DOMAIN r = Fields, NEW q, q = job'[j], LifeStep(j)
  PROVE  Bears(q, r) \/ (BeginHubInstall(j) /\ q.kind = r.kind /\ q.hc = r.hc)
<1>0. Bears(r, r)
  BY DEF Bears
<1>1. CASE BeginUninstall(j)
  BY <1>0, <1>1, BearsLook, BearsEnded DEF BeginUninstall, Goto, Bears, Fields
<1>2. CASE BeginRevoked(j)
  BY <1>0, <1>2, BearsReturn DEF BeginRevoked, Goto, Bears, Fields
<1>3. CASE DropHubSpot(j)
  BY <1>0, <1>3, BearsCall DEF DropHubSpot, Goto, Bears, Fields
<1>4. CASE DropSlack(j)
  BY <1>0, <1>4, BearsLook DEF DropSlack, Goto, Bears, Fields
<1>5. CASE Revoke(j)
  <2>1. \/ q = Wipe(r)
        \/ \E x, s : s = [r EXCEPT !.src = x] /\ q = Call(s, "appsuninstall", "wipeall")
        \/ \E x, s : s = [r EXCEPT !.src = x, !.goal = "appsuninstall"] /\ q = Call(s, "slack", "wipeall")
    BY <1>5 DEF Revoke, Goto, UseSlack
  <2>2. CASE q = Wipe(r)
    BY <2>2 DEF Wipe, Bears, Fields
  <2>3. CASE \E x, s : s = [r EXCEPT !.src = x] /\ q = Call(s, "appsuninstall", "wipeall")
    <3>1. PICK x, s : s = [r EXCEPT !.src = x] /\ q = Call(s, "appsuninstall", "wipeall")
      BY <2>3
    <3>2. DOMAIN s = Fields /\ Bears(s, r)
      BY <3>1 DEF Bears, Fields
    <3> QED BY <3>1, <3>2, BearsCall
  <2>4. CASE \E x, s : s = [r EXCEPT !.src = x, !.goal = "appsuninstall"] /\ q = Call(s, "slack", "wipeall")
    <3>1. PICK x, s : s = [r EXCEPT !.src = x, !.goal = "appsuninstall"] /\ q = Call(s, "slack", "wipeall")
      BY <2>4
    <3>2. DOMAIN s = Fields /\ Bears(s, r)
      BY <3>1 DEF Bears, Fields
    <3>3. q = Call(s, "slack", "wipeall")
      BY <3>1
    <3>4. Bears(q, r)
      BY <3>2, <3>3, BearsCall
    <3> QED BY <3>4
  <2> QED BY <2>1, <2>2, <2>3, <2>4
<1>6. CASE AppsUninstall(j)
  BY <1>0, <1>6, BearsReturn DEF AppsUninstall, Goto, Bears, Fields
<1>7. CASE WipeAll(j)
  BY <1>0, <1>7 DEF WipeAll, Goto, Wipe, Bears, Fields
<1>8. CASE WipeOne(j)
  BY <1>0, <1>8, BearsDelete DEF WipeOne, Goto, Bears, Fields
<1>9. CASE WipeMappings(j)
  BY <1>0, <1>9, BearsReturn DEF WipeMappings, Goto, Bears, Fields
<1>10. CASE BeginUnhub(j)
  BY <1>0, <1>10, BearsCall DEF BeginUnhub, Goto, Bears, Fields
<1>11. CASE DeleteHub(j)
  BY <1>0, <1>11, BearsDelete DEF DeleteHub, Goto, Bears, Fields
<1>12. CASE BeginUnslack(j)
  BY <1>0, <1>12, BearsLook DEF BeginUnslack, Goto, Bears, Fields
<1>13. CASE DeleteSlack(j)
  BY <1>0, <1>13, BearsDelete DEF DeleteSlack, Goto, Bears, Fields
<1>14. CASE DropClients(j)
  BY <1>0, <1>14, BearsEnded DEF DropClients, Goto, Bears, Fields
<1>15. CASE BeginInstall(j)
  <2>1. PICK n, w, k : q = Lookup([r EXCEPT !.got = n, !.ws = w], k, "register")
    BY <1>15 DEF BeginInstall, Goto
  <2>2. PICK s : s = [r EXCEPT !.got = n, !.ws = w]
    OBVIOUS
  <2>3. DOMAIN s = Fields /\ Bears(s, r)
    BY <2>2 DEF Bears, Fields
  <2>4. q = Lookup(s, k, "register")
    BY <2>1, <2>2
  <2> QED BY <2>3, <2>4, BearsLook
<1>16. CASE Register(j)
  BY <1>0, <1>16 DEF Register, Goto, Bears, Fields
<1>17. CASE Merge(j)
  <2>1. PICK x, y, k : q = Lookup([r EXCEPT !.new = x, !.left = y], k, "move")
    BY <1>17 DEF Merge, Goto
  <2>2. PICK s : s = [r EXCEPT !.new = x, !.left = y]
    OBVIOUS
  <2>3. DOMAIN s = Fields /\ Bears(s, r)
    BY <2>2 DEF Bears, Fields
  <2>4. q = Lookup(s, k, "move")
    BY <2>1, <2>2
  <2> QED BY <2>3, <2>4, BearsLook
<1>18. CASE Move(j)
  BY <1>0, <1>18, BearsUpsert DEF Move, Goto, Bears, Fields
<1>19. CASE Conflict(j)
  BY <1>0, <1>19, BearsEnded DEF Conflict, Goto, Bears, Fields
<1>20. CASE Merged(j)
  BY <1>0, <1>20 DEF Merged, Goto, Bears, Fields
<1>21. CASE Save(j)
  BY <1>0, <1>21, BearsUpsert DEF Save, Goto, Bears, Fields
<1>22. CASE BeginHubInstall(j)
  <2>1. PICK z, s : s = [r EXCEPT !.tok = z] /\ Reuses(q, s)
    BY <1>22, HubInstallBegins
  <2>2. DOMAIN s = Fields /\ s.kind = r.kind /\ s.hc = r.hc /\ Bears(s, s)
    BY <2>1 DEF Bears, Fields
  <2>3. CASE \E k : q = Lookup(s, k, "reuse")
    BY <1>22, <2>2, <2>3, BearsLook DEF Bears
  <2>4. CASE \E x : q = [s EXCEPT !.pc = "reuse", !.rec = x]
    <3>1. q.kind = s.kind /\ q.hc = s.hc
      BY <2>2, <2>4 DEF Fields
    <3> QED BY <1>22, <2>2, <3>1
  <2> QED BY <2>1, <2>3, <2>4 DEF Reuses
<1>23. CASE Reuse(j)
  <2>1. PICK s : s = [r EXCEPT !.old = r.rec]
    OBVIOUS
  <2>2. DOMAIN s = Fields /\ Bears(s, r)
    BY <2>1 DEF Bears, Fields
  <2>3. q = [s EXCEPT !.pc = "isolate"] \/ q = [s EXCEPT !.pc = "savehub"] \/ \E k : q = Lookup(s, k, "heal")
    BY <1>23, <2>1 DEF Reuse, Goto
  <2> QED BY <2>2, <2>3, BearsLook DEF Bears, Fields
<1>24. CASE Heal(j)
  BY <1>0, <1>24, BearsUpsert DEF Heal, Goto, Bears, Fields
<1>25. CASE Isolate(j)
  <2>1. \/ \E x : q = [r EXCEPT !.old = x, !.pc = "savehub"]
        \/ \E k : q = Lookup(r, k, "share")
    BY <1>25 DEF Isolate, Goto
  <2>2. CASE \E x : q = [r EXCEPT !.old = x, !.pc = "savehub"]
    BY <1>0, <2>2 DEF Bears, Fields
  <2>3. CASE \E k : q = Lookup(r, k, "share")
    <3>1. Bears(q, r)
      BY <1>0, <2>3, BearsLook
    <3> QED BY <3>1 DEF Bears
  <2> QED BY <2>1, <2>2, <2>3
<1>26. CASE Share(j)
  BY <1>0, <1>26, BearsUpsert DEF Share, Goto, Bears, Fields
<1>27. CASE SaveHub(j)
  BY <1>0, <1>27, BearsLook DEF SaveHub, Goto, Bears, Fields
<1>28. CASE WriteHub(j)
  BY <1>0, <1>28, BearsUpsert DEF WriteHub, Goto, Bears, Fields
<1> QED BY <1>1, <1>2, <1>3, <1>4, <1>5, <1>6, <1>7, <1>8, <1>9, <1>10, <1>11, <1>12, <1>13, <1>14, <1>15, <1>16, <1>17, <1>18, <1>19, <1>20, <1>21, <1>22, <1>23, <1>24, <1>25, <1>26, <1>27, <1>28 DEF LifeStep

\* HubSpot's client leaves the kind and the client as they are.
LEMMA HubBears ==
  ASSUME NEW j \in Jobs, DOMAIN job = Jobs, NEW r, r = job[j], DOMAIN r = Fields, NEW q, q = job'[j], HubStep(j)
  PROVE  q.kind = r.kind /\ q.hc = r.hc
<1>0. Bears(r, r)
  BY DEF Bears
<1>1. CASE GetClient(j)
  BY <1>0, <1>1, BearsLook DEF GetClient, Goto, Bears, Fields
<1>2. CASE MakeClient(j)
  <2>1. \/ q = [r EXCEPT !.pc = "proactive"]
        \/ q = Return(r, FALSE)
    BY <1>2 DEF MakeClient, Goto
  <2>2. CASE q = [r EXCEPT !.pc = "proactive"]
    BY <1>0, <2>2 DEF Bears, Fields
  <2>3. CASE q = Return(r, FALSE)
    <3>1. Bears(q, r)
      BY <1>0, <2>3, BearsReturn
    <3> QED BY <3>1 DEF Bears
  <2> QED BY <2>1, <2>2, <2>3
<1>3. CASE Proactive(j)
  BY <1>0, <1>3 DEF Proactive, Goto, Bears, Fields
<1>4. CASE LockEarly(j)
  BY <1>0, <1>4 DEF LockEarly, Goto, Bears, Fields
<1>5. CASE Send(j)
  BY <1>0, <1>5 DEF Send, Goto, Bears, Fields
<1>6. CASE Answered(j)
  <2>1. \/ \E n : q = [r EXCEPT !.tries = n, !.pc = "send"]
        \/ q = Return(r, TRUE)
    BY <1>6 DEF Answered, Goto
  <2>2. CASE \E n : q = [r EXCEPT !.tries = n, !.pc = "send"]
    BY <1>0, <2>2 DEF Bears, Fields
  <2>3. CASE q = Return(r, TRUE)
    <3>1. Bears(q, r)
      BY <1>0, <2>3, BearsReturn
    <3> QED BY <3>1 DEF Bears
  <2> QED BY <2>1, <2>2, <2>3
<1>7. CASE Errs(j)
  BY <1>0, <1>7, BearsReturn DEF Errs, Goto, Bears, Fields
<1>8. CASE Unauthorized(j)
  <2>1. \/ q = [r EXCEPT !.pc = "late"]
        \/ q = Return(r, FALSE)
    BY <1>8 DEF Unauthorized, Goto
  <2>2. CASE q = [r EXCEPT !.pc = "late"]
    BY <1>0, <2>2 DEF Bears, Fields
  <2>3. CASE q = Return(r, FALSE)
    <3>1. Bears(q, r)
      BY <1>0, <2>3, BearsReturn
    <3> QED BY <3>1 DEF Bears
  <2> QED BY <2>1, <2>2, <2>3
<1>9. CASE LockLate(j)
  BY <1>0, <1>9 DEF LockLate, Goto, Bears, Fields
<1>10. CASE HubRefreshes(j)
  <2>1. \/ \E n : q = [r EXCEPT !.tok = n, !.pc = "hubanswer"]
        \/ \E w : q = Call([r EXCEPT !.tok = 0, !.uws = w], "revoked", "hubanswer")
    BY <1>10 DEF HubRefreshes, Goto
  <2>3. CASE \E n : q = [r EXCEPT !.tok = n, !.pc = "hubanswer"]
    BY <2>3 DEF Fields
  <2>4. CASE \E w : q = Call([r EXCEPT !.tok = 0, !.uws = w], "revoked", "hubanswer")
    <3>1. PICK w, s : s = [r EXCEPT !.tok = 0, !.uws = w] /\ q = Call(s, "revoked", "hubanswer")
      BY <2>4
    <3>2. DOMAIN s = Fields /\ Bears(s, r)
      BY <3>1 DEF Bears, Fields
    <3>3. q = Call(s, "revoked", "hubanswer")
      BY <3>1
    <3>4. Bears(q, r)
      BY <3>2, <3>3, BearsCall
    <3> QED BY <3>4 DEF Bears
  <2> QED BY <2>1, <2>3, <2>4
<1>11. CASE HubAnswer(j)
  <2>1. PICK s : s = [r EXCEPT !.uws = r.ws] /\ (q = [s EXCEPT !.pc = "refreshed"] \/ \E k : q = Lookup(s, k, "hubpersist"))
    BY <1>11 DEF HubAnswer, Goto
  <2>2. DOMAIN s = Fields /\ s.kind = r.kind /\ s.hc = r.hc /\ Bears(s, s)
    BY <2>1 DEF Bears, Fields
  <2>3. CASE \E k : q = Lookup(s, k, "hubpersist")
    BY <2>2, <2>3, BearsLook DEF Bears
  <2>4. CASE q = [s EXCEPT !.pc = "refreshed"]
    <3>1. q.kind = s.kind /\ q.hc = s.hc
      BY <2>2, <2>4 DEF Fields
    <3> QED BY <2>2, <3>1
  <2> QED BY <2>1, <2>3, <2>4
<1>12. CASE HubPersist(j)
  BY <1>0, <1>12, BearsUpsert DEF HubPersist, Goto, Bears, Fields
<1>13. CASE Refreshed(j)
  BY <1>0, <1>13 DEF Refreshed, Goto, Bears, Fields
<1>14. CASE BeginHub(j)
  BY <1>0, <1>14, BearsCall DEF BeginHub, Goto, Bears, Fields
<1> QED BY <1>1, <1>2, <1>3, <1>4, <1>5, <1>6, <1>7, <1>8, <1>9, <1>10, <1>11, <1>12, <1>13, <1>14 DEF HubStep

----------------------------------------------------------------------------
(* Refreshing a token may come across a revoked grant and uninstall its    *)
(* workspace on the way; whoever asked for the token goes on with its own. *)
Awaits(todo) == \E i \in 1..Len(todo) : todo[i] = "hubanswer"
Stays(r) == r.kind \in {"install", "installhub"} \/ r.uws = r.ws \/ Awaits(r.todo)
Homeward(r) == r.todo \in Seq(After) /\ Stays(r) /\ (r.pc \in {"uninstall", "unhub"} => r.todo = <<>>)
Home(r) == r.pc = "hubanswer" \/ Stays(r)

\* A label on top keeps those below.
LEMMA AwaitsOn ==
  ASSUME NEW s \in Seq(After), NEW a, Awaits(s)
  PROVE  Awaits(<<a>> \o s)
<1>1. PICK i \in 1..Len(s) : s[i] = "hubanswer"
  BY DEF Awaits
<1>2. PICK u : u = <<a>> \o s
  OBVIOUS
<1>3. i + 1 \in 1..Len(u) /\ u[i + 1] = s[i]
  BY <1>2
<1> QED BY <1>1, <1>2, <1>3 DEF Awaits

\* The ways to move on: a lookup,
LEMMA HomeLook ==
  ASSUME NEW s, DOMAIN s = Fields, Homeward(s), NEW k, NEW l
  PROVE  Home(Lookup(s, k, l))
  BY DEF Home, Stays, Homeward, Lookup, Fields

\* a return,
LEMMA HomeReturn ==
  ASSUME NEW s, DOMAIN s = Fields, Homeward(s), NEW ok
  PROVE  Home(Return(s, ok))
<1>1. PICK q : q = Return(s, ok)
  OBVIOUS
<1>2. q.pc = Head(s.todo) /\ q.todo = Tail(s.todo) /\ q.kind = s.kind /\ q.ws = s.ws /\ q.uws = s.uws
  BY <1>1 DEF Return, Fields
<1>3. ASSUME Awaits(s.todo) PROVE Head(s.todo) = "hubanswer" \/ Awaits(Tail(s.todo))
  <2>1. PICK i \in 1..Len(s.todo) : s.todo[i] = "hubanswer"
    BY <1>3 DEF Awaits
  <2>2. CASE i = 1
    BY <2>1, <2>2
  <2>3. CASE i # 1
    <3>1. PICK u : u = Tail(s.todo)
      OBVIOUS
    <3>2. s.todo \in Seq(After) /\ s.todo # <<>>
      BY <2>1 DEF Homeward
    <3>3. i - 1 \in 1..Len(u) /\ u[i - 1] = s.todo[i]
      BY <2>3, <3>1, <3>2
    <3> QED BY <2>1, <3>1, <3>3 DEF Awaits
  <2> QED BY <2>2, <2>3
<1>4. Home(q)
  BY <1>2, <1>3 DEF Home, Stays, Homeward
<1> QED BY <1>1, <1>4

\* a call,
LEMMA HomeCall ==
  ASSUME NEW s, DOMAIN s = Fields, Homeward(s), NEW l, NEW a
  PROVE  Home(Call(s, l, a))
<1>1. PICK q : q = Call(s, l, a)
  OBVIOUS
<1>2. q.todo = <<a>> \o s.todo /\ q.kind = s.kind /\ q.ws = s.ws /\ q.uws = s.uws
  BY <1>1 DEF Call, Fields
<1>3. Home(q)
  BY <1>2, AwaitsOn DEF Home, Stays, Homeward
<1> QED BY <1>1, <1>3

\* a write,
LEMMA HomeUpsert ==
  ASSUME NEW s, DOMAIN s = Fields, Homeward(s), NEW x, NEW a
  PROVE  Home(Upsert(s, x, a))
<1>1. PICK t : t = [s EXCEPT !.new = x]
  OBVIOUS
<1>2. DOMAIN t = Fields /\ Homeward(t)
  BY <1>1 DEF Homeward, Stays, Fields
<1> QED BY <1>1, <1>2, HomeCall DEF Upsert

\* a deletion and
LEMMA HomeDelete ==
  ASSUME NEW s, DOMAIN s = Fields, Homeward(s), NEW k, NEW a \in After
  PROVE  Home(Delete(s, k, a))
<1>1. PICK t : t = [s EXCEPT !.todo = <<a>> \o @, !.ok = TRUE]
  OBVIOUS
<1>2. DOMAIN t = Fields /\ t.todo = <<a>> \o s.todo /\ t.kind = s.kind /\ t.ws = s.ws /\ t.uws = s.uws
  BY <1>1 DEF Fields
<1>3. Stays(t)
  BY <1>2, AwaitsOn DEF Homeward, Stays
<1>4. PICK q : q = Lookup(t, k, "deleting")
  OBVIOUS
<1>5. q.todo = t.todo /\ q.kind = t.kind /\ q.ws = t.ws /\ q.uws = t.uws
  BY <1>2, <1>4 DEF Lookup, Fields
<1> QED BY <1>1, <1>3, <1>4, <1>5 DEF Delete, Home, Stays

\* the end.
LEMMA HomeEnded ==
  ASSUME NEW r, DOMAIN r = Fields, NEW l
  PROVE  Home(Ended(r, l))
  BY DEF Home, Stays, Ended, Started, Fields

\* Of the steps, those on records,
LEMMA RecordHome ==
  ASSUME NEW j \in Jobs, DOMAIN job = Jobs, NEW r, r = job[j], DOMAIN r = Fields, Homeward(r), NEW q, q = job'[j], RecordStep(j)
  PROVE  Home(q)
<1>0. Homeward(r)
  OBVIOUS
<1>1. CASE ReadRow(j)
  BY <1>0, <1>1 DEF ReadRow, Goto, Home, Stays, Homeward, Fields
<1>2. CASE StoreRecord(j)
  BY <1>0, <1>2 DEF StoreRecord, Goto, Home, Stays, Homeward, Fields
<1>3. CASE WriteRow(j)
  BY <1>0, <1>3 DEF WriteRow, Goto, Home, Stays, Homeward, Fields
<1>4. CASE WriteFails(j)
  BY <1>0, <1>4, HomeReturn DEF WriteFails, Goto, Home, Stays, Homeward, Fields
<1>5. CASE DeleteRows(j)
  BY <1>0, <1>5 DEF DeleteRows, Goto, Home, Stays, Homeward, Fields
<1>6. CASE Forget(j)
  <2>1. PICK g : q = [Return(r, TRUE) EXCEPT !.got = g]
    BY <1>6 DEF Forget, Goto
  <2>2. PICK s : s = Return(r, TRUE)
    OBVIOUS
  <2>3. Home(s) /\ DOMAIN s = Fields
    BY <1>0, <2>2, HomeReturn DEF Return
  <2>4. q.pc = s.pc /\ q.todo = s.todo /\ q.kind = s.kind /\ q.ws = s.ws /\ q.uws = s.uws
    BY <2>1, <2>2, <2>3 DEF Fields
  <2> QED BY <2>3, <2>4 DEF Home, Stays
<1> QED BY <1>1, <1>2, <1>3, <1>4, <1>5, <1>6 DEF RecordStep

\* those of Slack's client
LEMMA SlackHome ==
  ASSUME NEW j \in Jobs, DOMAIN job = Jobs, NEW r, r = job[j], DOMAIN r = Fields, Homeward(r), NEW q, q = job'[j], SlackStep(j)
  PROVE  Home(q)
<1>0. Homeward(r)
  OBVIOUS
<1>1. CASE Resolve(j)
  <2>1. \/ \E c, l : q = [r EXCEPT !.cl = c, !.pc = l]
        \/ \E x : q = [r EXCEPT !.rec = x, !.pc = "bind"]
        \/ \E k : q = Lookup(r, k, "pivot")
    BY <1>1 DEF Resolve, Goto
  <2>2. CASE \E c, l : q = [r EXCEPT !.cl = c, !.pc = l]
    BY <1>0, <2>2 DEF Home, Stays, Homeward, Fields
  <2>3. CASE \E x : q = [r EXCEPT !.rec = x, !.pc = "bind"]
    BY <1>0, <2>3 DEF Home, Stays, Homeward, Fields
  <2>4. CASE \E k : q = Lookup(r, k, "pivot")
    <3>1. Home(q)
      BY <1>0, <2>4, HomeLook
    <3> QED BY <3>1 DEF Home, Stays, Homeward
  <2> QED BY <2>1, <2>2, <2>3, <2>4
<1>2. CASE Pivot(j)
  BY <1>0, <1>2, HomeReturn DEF Pivot, Goto, Home, Stays, Homeward, Fields
<1>3. CASE Bind(j)
  BY <1>0, <1>3 DEF Bind, Goto, Home, Stays, Homeward, Fields
<1>4. CASE Check(j)
  BY <1>0, <1>4 DEF Check, Goto, Home, Stays, Homeward, Fields
<1>5. CASE TakeLock(j)
  BY <1>0, <1>5, HomeLook DEF TakeLock, Goto, Home, Stays, Homeward, Fields
<1>6. CASE Relook(j)
  BY <1>0, <1>6 DEF Relook, Goto, Home, Stays, Homeward, Fields
<1>7. CASE SlackRotates(j)
  BY <1>0, <1>7 DEF SlackRotates, Goto, Home, Stays, Homeward, Fields
<1>8. CASE TakeAnswer(j)
  BY <1>0, <1>8, HomeLook DEF TakeAnswer, Goto, Home, Stays, Homeward, Fields
<1>9. CASE LoseAnswer(j)
  BY <1>0, <1>9, HomeReturn DEF LoseAnswer, Goto, Home, Stays, Homeward, Fields
<1>10. CASE Redirect(j)
  <2>1. \/ q = [r EXCEPT !.pc = "persist"]
        \/ \E k : q = Lookup(r, k, "persist")
    BY <1>10 DEF Redirect, Goto
  <2>2. CASE q = [r EXCEPT !.pc = "persist"]
    BY <1>0, <2>2 DEF Home, Stays, Homeward, Fields
  <2>3. CASE \E k : q = Lookup(r, k, "persist")
    <3>1. Home(q)
      BY <1>0, <2>3, HomeLook
    <3> QED BY <3>1 DEF Home, Stays, Homeward
  <2> QED BY <2>1, <2>2, <2>3
<1>11. CASE Persist(j)
  BY <1>0, <1>11, HomeUpsert DEF Persist, Goto, Home, Stays, Homeward, Fields
<1>12. CASE SlackCall(j)
  <2>1. \/ q = [r EXCEPT !.tries = 1, !.pc = "check"]
        \/ \E ok : q = Return(r, ok)
    BY <1>12 DEF SlackCall, Goto
  <2>2. CASE q = [r EXCEPT !.tries = 1, !.pc = "check"]
    BY <1>0, <2>2 DEF Home, Stays, Homeward, Fields
  <2>3. CASE \E ok : q = Return(r, ok)
    <3>1. Home(q)
      BY <1>0, <2>3, HomeReturn
    <3> QED BY <3>1 DEF Home, Stays, Homeward
  <2> QED BY <2>1, <2>2, <2>3
<1>13. CASE BeginCall(j)
  BY <1>0, <1>13, HomeLook DEF BeginCall, Goto, Home, Stays, Homeward, Fields
<1>14. CASE Source(j)
  <2>1. q = Ended(r, "failed") \/ \E x, s : s = [r EXCEPT !.src = x, !.goal = "check"] /\ q = Call(s, "slack", "end")
    BY <1>14 DEF Source, Goto, UseSlack
  <2>2. CASE \E x, s : s = [r EXCEPT !.src = x, !.goal = "check"] /\ q = Call(s, "slack", "end")
    <3>1. PICK x, s : s = [r EXCEPT !.src = x, !.goal = "check"] /\ q = Call(s, "slack", "end")
      BY <2>2
    <3>2. DOMAIN s = Fields /\ Homeward(s)
      BY <3>1 DEF Home, Stays, Homeward, Fields
    <3>3. q = Call(s, "slack", "end")
      BY <3>1
    <3>4. Home(q)
      BY <3>2, <3>3, HomeCall
    <3> QED BY <3>4
  <2> QED BY <2>1, <2>2, HomeEnded
<1>15. CASE End(j)
  BY <1>0, <1>15, HomeEnded DEF End, Goto, Home, Stays, Homeward, Fields
<1> QED BY <1>1, <1>2, <1>3, <1>4, <1>5, <1>6, <1>7, <1>8, <1>9, <1>10, <1>11, <1>12, <1>13, <1>14, <1>15 DEF SlackStep

\* and of the lifecycle change none of it either, but for an installation;
LEMMA LifeHome ==
  ASSUME NEW j \in Jobs, DOMAIN job = Jobs, NEW r, r = job[j], DOMAIN r = Fields, Homeward(r), NEW q, q = job'[j], LifeStep(j)
  PROVE  Home(q) \/ r.pc \in OfInstall
<1>0. Homeward(r)
  OBVIOUS
<1>1. CASE BeginUninstall(j)
  <2>1. PICK s : s = [r EXCEPT !.todo = <<"end">>]
    OBVIOUS
  <2>2. q = Lookup(s, <<r.ws, "hubspot">>, "drophub") \/ q = Ended(r, "done")
    BY <1>1, <2>1 DEF BeginUninstall, Goto
  <2>3. r.todo = <<>> /\ s.todo = <<"end">> /\ DOMAIN s = Fields /\ s.kind = r.kind /\ s.uws = r.uws /\ s.ws = r.ws /\ s.pc = r.pc
    BY <1>0, <1>1, <2>1 DEF Homeward, BeginUninstall, At, Fields
  <2>4. Stays(s)
    BY <1>0, <2>3 DEF Homeward, Stays, Awaits
  <2>5. CASE q = Ended(r, "done")
    BY <2>5, HomeEnded
  <2>6. CASE q = Lookup(s, <<r.ws, "hubspot">>, "drophub")
    <3>1. q.kind = s.kind /\ q.uws = s.uws /\ q.ws = s.ws /\ q.todo = s.todo
      BY <2>3, <2>6 DEF Lookup, Fields
    <3> QED BY <2>4, <3>1 DEF Home, Stays
  <2> QED BY <2>2, <2>5, <2>6
<1>2. CASE BeginRevoked(j)
  BY <1>0, <1>2, HomeReturn DEF BeginRevoked, Goto, Home, Stays, Homeward, Fields
<1>3. CASE DropHubSpot(j)
  BY <1>0, <1>3, HomeCall DEF DropHubSpot, Goto, Home, Stays, Homeward, Fields
<1>4. CASE DropSlack(j)
  BY <1>0, <1>4, HomeLook DEF DropSlack, Goto, Home, Stays, Homeward, Fields
<1>5. CASE Revoke(j)
  <2>1. \/ q = Wipe(r)
        \/ \E x, s : s = [r EXCEPT !.src = x] /\ q = Call(s, "appsuninstall", "wipeall")
        \/ \E x, s : s = [r EXCEPT !.src = x, !.goal = "appsuninstall"] /\ q = Call(s, "slack", "wipeall")
    BY <1>5 DEF Revoke, Goto, UseSlack
  <2>2. CASE q = Wipe(r)
    BY <2>2 DEF Wipe, Home, Stays, Homeward, Fields
  <2>3. CASE \E x, s : s = [r EXCEPT !.src = x] /\ q = Call(s, "appsuninstall", "wipeall")
    <3>1. PICK x, s : s = [r EXCEPT !.src = x] /\ q = Call(s, "appsuninstall", "wipeall")
      BY <2>3
    <3>2. DOMAIN s = Fields /\ Homeward(s)
      BY <3>1 DEF Home, Stays, Homeward, Fields
    <3> QED BY <3>1, <3>2, HomeCall
  <2>4. CASE \E x, s : s = [r EXCEPT !.src = x, !.goal = "appsuninstall"] /\ q = Call(s, "slack", "wipeall")
    <3>1. PICK x, s : s = [r EXCEPT !.src = x, !.goal = "appsuninstall"] /\ q = Call(s, "slack", "wipeall")
      BY <2>4
    <3>2. DOMAIN s = Fields /\ Homeward(s)
      BY <3>1 DEF Home, Stays, Homeward, Fields
    <3>3. q = Call(s, "slack", "wipeall")
      BY <3>1
    <3>4. Home(q)
      BY <3>2, <3>3, HomeCall
    <3> QED BY <3>4
  <2> QED BY <2>1, <2>2, <2>3, <2>4
<1>6. CASE AppsUninstall(j)
  BY <1>0, <1>6, HomeReturn DEF AppsUninstall, Goto, Home, Stays, Homeward, Fields
<1>7. CASE WipeAll(j)
  BY <1>0, <1>7 DEF WipeAll, Goto, Wipe, Home, Stays, Homeward, Fields
<1>8. CASE WipeOne(j)
  <2>1. PICK v, s : s = [r EXCEPT !.left = @ \ {v}] /\ q = Delete(s, <<r.uws, v>>, "wipe")
    BY <1>8 DEF WipeOne, Goto
  <2>2. DOMAIN s = Fields /\ Homeward(s)
    BY <1>0, <2>1 DEF Stays, Homeward, Fields
  <2> QED BY <2>1, <2>2, HomeDelete DEF After
<1>9. CASE WipeMappings(j)
  BY <1>0, <1>9, HomeReturn DEF WipeMappings, Goto, Home, Stays, Homeward, Fields
<1>10. CASE BeginUnhub(j)
  <2>1. PICK s : s = [r EXCEPT !.todo = <<"end">>]
    OBVIOUS
  <2>2. q = Call(s, "hub", "delhub")
    BY <1>10, <2>1 DEF BeginUnhub, Goto
  <2>3. r.todo = <<>> /\ s.todo = <<"end">> /\ DOMAIN s = Fields /\ s.kind = r.kind /\ s.uws = r.uws /\ s.ws = r.ws
    BY <1>0, <1>10, <2>1 DEF Homeward, BeginUnhub, At, Fields
  <2>4. s.kind \in {"install", "installhub"} \/ s.uws = s.ws
    BY <1>0, <2>3 DEF Homeward, Stays, Awaits
  <2>5. q.kind = s.kind /\ q.uws = s.uws /\ q.ws = s.ws
    BY <2>2, <2>3 DEF Call, Fields
  <2> QED BY <2>4, <2>5 DEF Home, Stays
<1>11. CASE DeleteHub(j)
  <2>1. q = Delete(r, <<r.ws, "hubspot">>, "end")
    BY <1>11 DEF DeleteHub, Goto
  <2> QED BY <1>0, <2>1, HomeDelete DEF After, Outer
<1>12. CASE BeginUnslack(j)
  BY <1>0, <1>12, HomeLook DEF BeginUnslack, Goto, Home, Stays, Homeward, Fields
<1>13. CASE DeleteSlack(j)
  <2>1. PICK s : s = [r EXCEPT !.src = r.rec] /\ q = Delete(s, <<r.ws, "slack">>, "dropclients")
    BY <1>13 DEF DeleteSlack, Goto
  <2>2. DOMAIN s = Fields /\ Homeward(s)
    BY <1>0, <2>1 DEF Stays, Homeward, Fields
  <2> QED BY <2>1, <2>2, HomeDelete DEF After, Outer
<1>14. CASE DropClients(j)
  BY <1>0, <1>14, HomeEnded DEF DropClients, Goto, Home, Stays, Homeward, Fields
<1>15. CASE r.pc \in OfInstall
  BY <1>15
<1>22. CASE BeginHubInstall(j)
  <2>1. PICK z, s : s = [r EXCEPT !.tok = z] /\ Reuses(q, s)
    BY <1>22, HubInstallBegins
  <2>2. DOMAIN s = Fields /\ Homeward(s)
    BY <1>0, <2>1 DEF Stays, Homeward, Fields
  <2>3. CASE \E k : q = Lookup(s, k, "reuse")
    BY <2>2, <2>3, HomeLook
  <2>4. CASE \E x : q = [s EXCEPT !.pc = "reuse", !.rec = x]
    BY <2>2, <2>4 DEF Home, Stays, Homeward, Fields
  <2> QED BY <2>1, <2>3, <2>4 DEF Reuses
<1>23. CASE Reuse(j)
  <2>1. PICK s : s = [r EXCEPT !.old = r.rec]
    OBVIOUS
  <2>2. DOMAIN s = Fields /\ Homeward(s)
    BY <2>1 DEF Home, Stays, Homeward, Fields
  <2>3. q = [s EXCEPT !.pc = "isolate"] \/ q = [s EXCEPT !.pc = "savehub"] \/ \E k : q = Lookup(s, k, "heal")
    BY <1>23, <2>1 DEF Reuse, Goto
  <2> QED BY <2>2, <2>3, HomeLook DEF Home, Stays, Homeward, Fields
<1>24. CASE Heal(j)
  BY <1>0, <1>24, HomeUpsert DEF Heal, Goto, Home, Stays, Homeward, Fields
<1>25. CASE Isolate(j)
  <2>1. \/ \E x : q = [r EXCEPT !.old = x, !.pc = "savehub"]
        \/ \E k : q = Lookup(r, k, "share")
    BY <1>25 DEF Isolate, Goto
  <2>2. CASE \E x : q = [r EXCEPT !.old = x, !.pc = "savehub"]
    BY <1>0, <2>2 DEF Home, Stays, Homeward, Fields
  <2>3. CASE \E k : q = Lookup(r, k, "share")
    <3>1. Home(q)
      BY <1>0, <2>3, HomeLook
    <3> QED BY <3>1 DEF Home, Stays, Homeward
  <2> QED BY <2>1, <2>2, <2>3
<1>26. CASE Share(j)
  BY <1>0, <1>26, HomeUpsert DEF Share, Goto, Home, Stays, Homeward, Fields
<1>27. CASE SaveHub(j)
  BY <1>0, <1>27, HomeLook DEF SaveHub, Goto, Home, Stays, Homeward, Fields
<1>28. CASE WriteHub(j)
  BY <1>0, <1>28, HomeUpsert DEF WriteHub, Goto, Home, Stays, Homeward, Fields
<1>16. BeginInstall(j) \/ Register(j) \/ Merge(j) \/ Move(j) \/ Conflict(j) \/ Merged(j) \/ Save(j) => r.pc \in OfInstall
  BY DEF BeginInstall, Register, Merge, Move, Conflict, Merged, Save, At, OfInstall
<1> QED BY <1>1, <1>2, <1>3, <1>4, <1>5, <1>6, <1>7, <1>8, <1>9, <1>10, <1>11, <1>12, <1>13, <1>14, <1>15, <1>16, <1>22, <1>23, <1>24, <1>25, <1>26, <1>27, <1>28 DEF LifeStep

\* HubSpot's client leaves the kind and the client as they are.
LEMMA HubHome ==
  ASSUME NEW j \in Jobs, DOMAIN job = Jobs, NEW r, r = job[j], DOMAIN r = Fields, Homeward(r), r.pc # "hubanswer", NEW q, q = job'[j], HubStep(j)
  PROVE  Home(q)
<1>0. Homeward(r)
  OBVIOUS
<1>1. CASE GetClient(j)
  BY <1>0, <1>1, HomeLook DEF GetClient, Goto, Home, Stays, Homeward, Fields
<1>2. CASE MakeClient(j)
  <2>1. \/ q = [r EXCEPT !.pc = "proactive"]
        \/ q = Return(r, FALSE)
    BY <1>2 DEF MakeClient, Goto
  <2>2. CASE q = [r EXCEPT !.pc = "proactive"]
    BY <1>0, <2>2 DEF Home, Stays, Homeward, Fields
  <2>3. CASE q = Return(r, FALSE)
    <3>1. Home(q)
      BY <1>0, <2>3, HomeReturn
    <3> QED BY <3>1 DEF Home, Stays, Homeward
  <2> QED BY <2>1, <2>2, <2>3
<1>3. CASE Proactive(j)
  BY <1>0, <1>3 DEF Proactive, Goto, Home, Stays, Homeward, Fields
<1>4. CASE LockEarly(j)
  BY <1>0, <1>4 DEF LockEarly, Goto, Home, Stays, Homeward, Fields
<1>5. CASE Send(j)
  BY <1>0, <1>5 DEF Send, Goto, Home, Stays, Homeward, Fields
<1>6. CASE Answered(j)
  <2>1. \/ \E n : q = [r EXCEPT !.tries = n, !.pc = "send"]
        \/ q = Return(r, TRUE)
    BY <1>6 DEF Answered, Goto
  <2>2. CASE \E n : q = [r EXCEPT !.tries = n, !.pc = "send"]
    BY <1>0, <2>2 DEF Home, Stays, Homeward, Fields
  <2>3. CASE q = Return(r, TRUE)
    <3>1. Home(q)
      BY <1>0, <2>3, HomeReturn
    <3> QED BY <3>1 DEF Home, Stays, Homeward
  <2> QED BY <2>1, <2>2, <2>3
<1>7. CASE Errs(j)
  BY <1>0, <1>7, HomeReturn DEF Errs, Goto, Home, Stays, Homeward, Fields
<1>8. CASE Unauthorized(j)
  <2>1. \/ q = [r EXCEPT !.pc = "late"]
        \/ q = Return(r, FALSE)
    BY <1>8 DEF Unauthorized, Goto
  <2>2. CASE q = [r EXCEPT !.pc = "late"]
    BY <1>0, <2>2 DEF Home, Stays, Homeward, Fields
  <2>3. CASE q = Return(r, FALSE)
    <3>1. Home(q)
      BY <1>0, <2>3, HomeReturn
    <3> QED BY <3>1 DEF Home, Stays, Homeward
  <2> QED BY <2>1, <2>2, <2>3
<1>9. CASE LockLate(j)
  BY <1>0, <1>9 DEF LockLate, Goto, Home, Stays, Homeward, Fields
<1>10. CASE HubRefreshes(j)
  <2>1. \/ \E n : q = [r EXCEPT !.tok = n, !.pc = "hubanswer"]
        \/ \E w : q = Call([r EXCEPT !.tok = 0, !.uws = w], "revoked", "hubanswer")
    BY <1>10 DEF HubRefreshes, Goto
  <2>2. CASE \E n : q = [r EXCEPT !.tok = n, !.pc = "hubanswer"]
    BY <2>2 DEF Home, Fields
  <2>3. CASE \E w : q = Call([r EXCEPT !.tok = 0, !.uws = w], "revoked", "hubanswer")
    <3>1. PICK w, s : s = [r EXCEPT !.tok = 0, !.uws = w] /\ q = Call(s, "revoked", "hubanswer")
      BY <2>3
    <3>2. DOMAIN s = Fields /\ s.todo = r.todo
      BY <3>1 DEF Fields
    <3>3. q.todo = <<"hubanswer">> \o r.todo
      BY <3>1, <3>2 DEF Call, Fields
    <3>4. PICK u : u = q.todo
      OBVIOUS
    <3>5. 1 \in 1..Len(u) /\ u[1] = "hubanswer"
      BY <1>0, <3>3, <3>4 DEF Homeward
    <3> QED BY <3>4, <3>5 DEF Home, Stays, Awaits
  <2> QED BY <2>1, <2>2, <2>3
<1>11. CASE HubAnswer(j)
  BY <1>11 DEF HubAnswer, At
<1>12. CASE HubPersist(j)
  BY <1>0, <1>12, HomeUpsert DEF HubPersist, Goto, Home, Stays, Homeward, Fields
<1>13. CASE Refreshed(j)
  BY <1>0, <1>13 DEF Refreshed, Goto, Home, Stays, Homeward, Fields
<1>14. CASE BeginHub(j)
  BY <1>0, <1>14, HomeCall DEF BeginHub, Goto, Home, Stays, Homeward, Fields
<1> QED BY <1>1, <1>2, <1>3, <1>4, <1>5, <1>6, <1>7, <1>8, <1>9, <1>10, <1>11, <1>12, <1>13, <1>14 DEF HubStep

AllHome == \A j \in Jobs : Home(job[j])

\* A step of a request,
LEMMA RequestHome ==
  ASSUME NEW j \in Jobs, Sound, AllHome, RequestStep(j)
  PROVE  AllHome'
<1>0. DOMAIN job = Jobs /\ \A k \in Jobs : Framed(job[k]) /\ Home(job[k])
  BY DEF Sound, Good, AllHome
<1>1. \A k \in Jobs : k # j => job'[k] = job[k]
  BY <1>0, OnlyOwn
<1>2. PICK r, q : r = job[j] /\ q = job'[j]
  OBVIOUS
<1>3. Framed(r) /\ Home(r) /\ DOMAIN r = Fields
  BY <1>0, <1>2 DEF Framed, Shaped
<1>4. r.todo \in Seq(After)
  <2>1. r.todo \in Seq(Lane(r.kind) \cap After)
    BY <1>3 DEF Framed, Shaped
  <2> QED BY <2>1
<1>5. CASE r.pc = "hubanswer"
  <2>1. HubStep(j)
    BY <1>2, <1>5 DEF RequestStep, RecordStep, ReadRow, StoreRecord, WriteRow, WriteFails, DeleteRows, Forget,
       SlackStep, Resolve, Pivot, Bind, Check, TakeLock, Relook, SlackRotates, TakeAnswer, LoseAnswer, Redirect, Persist,
       SlackCall, BeginCall, Source, End,
       LifeStep, BeginUninstall, BeginRevoked, DropHubSpot, DropSlack, Revoke, AppsUninstall, WipeAll, WipeOne,
       WipeMappings, BeginUnhub, DeleteHub, BeginUnslack, DeleteSlack, DropClients, BeginInstall, Register,
       Merge, Move, Conflict, Merged, Save, BeginHubInstall, Reuse, Heal, Isolate, Share, SaveHub, WriteHub, At
  <2>2. HubAnswer(j)
    BY <1>2, <1>5, <2>1 DEF HubStep, GetClient, MakeClient, Proactive, LockEarly, Send, Answered, Errs, Unauthorized, LockLate,
       HubRefreshes, HubPersist, Refreshed, BeginHub, At
  <2>3. PICK s : s = [r EXCEPT !.uws = r.ws] /\ (q = [s EXCEPT !.pc = "refreshed"] \/ \E k : q = Lookup(s, k, "hubpersist"))
    BY <1>0, <1>2, <2>2 DEF HubAnswer, Goto
  <2>4. DOMAIN s = Fields /\ Homeward(s)
    BY <1>3, <1>4, <1>5, <2>3 DEF Homeward, Stays, Fields
  <2>5. Home(q)
    BY <2>3, <2>4, HomeLook DEF Home, Stays, Homeward, Fields
  <2> QED BY <1>0, <1>1, <1>2, <2>5 DEF AllHome
<1>6. CASE r.pc # "hubanswer"
  <2>1. Homeward(r)
    <3>1. r.pc \in {"uninstall", "unhub"} => r.todo = <<>>
      BY <1>3 DEF Framed, Place, Fresh, Looking
    <3> QED BY <1>3, <1>4, <1>6, <3>1 DEF Home, Homeward
  <2>2. CASE r.pc \in OfInstall
    <3>1. r.pc \notin Looking
      BY <2>2 DEF OfInstall, Looking
    <3>2. r.kind = "install"
      BY <1>3, <2>2, <3>1, InstallKind DEF Framed, Place
    <3>3. q.kind = r.kind
      BY <1>0, <1>2, <1>3, RecordBears, SlackBears, HubBears, LifeBears DEF RequestStep, Bears
    <3>4. Home(q)
      BY <3>2, <3>3 DEF Home, Stays
    <3> QED BY <1>0, <1>1, <1>2, <3>4 DEF AllHome
  <2>3. CASE r.pc \notin OfInstall
    <3>1. Home(q)
      BY <1>0, <1>2, <1>3, <1>6, <2>1, <2>3, RecordHome, SlackHome, HubHome, LifeHome DEF RequestStep
    <3> QED BY <1>0, <1>1, <1>2, <3>1 DEF AllHome
  <2> QED BY <2>2, <2>3
<1> QED BY <1>5, <1>6

\* and of the environment.
LEMMA EnvironmentHome ==
  ASSUME Sound, AllHome, Environment \/ UNCHANGED tenantVars
  PROVE  AllHome'
<1>1. ASSUME NEW k \in Jobs PROVE job'[k] = job[k] \/ job'[k] = Ended(job[k], "killed")
  BY DEF Environment, RecordExpires, HandleExpires, PairDue, PairDies, TokenDue, TokenDies, RemoveFromHubSpot, RemoveFromSlack,
     Crash, recordVars, tenantVars
<1>2. ASSUME NEW k \in Jobs PROVE Home(job'[k])
  <2>1. PICK r : r = job[k]
    OBVIOUS
  <2>2. Home(r) /\ DOMAIN r = Fields
    BY <2>1 DEF AllHome, Sound, Good, Framed, Shaped
  <2> QED BY <1>1, <2>1, <2>2, HomeEnded
<1> QED BY <1>2 DEF AllHome, Home, Stays, Awaits

(* When uninstall_workspace ends, whatever failed and even if it uninstalled *)
(* another workspace on its way, no mapping and no record of its own is    *)
(* left but those whose own deletion failed and what was written in the    *)
(* meantime.                                                               *)
THEOREM UninstallsCompletely == Spec => UninstallComplete
<1>1. Init => AllWiped
  <2> SUFFICES ASSUME Init, NEW j \in Jobs PROVE Wiped(job[j])
    BY DEF AllWiped
  <2>1. PICK s \in Scenarios : job = [k \in Jobs |-> Started(s.work[k])]
    BY DEF Init, RecordInit
  <2>2. PICK r : r = Started(s.work[j])
    OBVIOUS
  <2>3. r.todo = <<>> /\ r.pc = s.work[j].kind
    BY <2>2 DEF Started
  <2>4. r.pc \in {"slackcall", "hubcall", "uninstall", "unhub", "unslack", "install", "installhub"}
    BY <2>3, ScenariosAssumption DEF ScenariosTyped
  <2>5. Calm(r, "wipe")
    <3>1. r.todo \in Seq(Quiet("wipe"))
      BY <2>3
    <3>2. r.pc \notin Looking /\ r.pc # "wipe"
      BY <2>3, <2>4 DEF Looking
    <3> QED BY <3>1, <3>2, MoveCalm DEF Turns
  <2> QED BY <2>1, <2>2, <2>5 DEF Wiped
<1>2. Sound /\ AllWiped /\ [Next]_tenantVars => AllWiped'
  BY RequestWiped, EnvironmentWiped DEF Next
<1>3. ASSUME Sound, AllWiped, AllHome, Next, NEW j \in Jobs, At(j, "wipe"), job[j].left = {}, job'[j].pc \notin {"wipe", "killed"}
      PROVE  /\ "mappings" \in faults' \/ Asked(j) \notin maps'
             /\ \A x \in rows : x.ws = Asked(j) => "late" \in faults \/ x.prov \in faults
  <2>0. /\ DOMAIN job = Jobs /\ Wiped(job[j]) /\ \A x \in rows : x.prov \in Provs
    BY <1>3 DEF Sound, AllWiped, RowsTyped, Real, IsRow
  <2>1. WipeMappings(j)
    <3>1. PICK k \in Jobs : RequestStep(k)
      <4>1. ASSUME Environment PROVE job'[j] = job[j] \/ job'[j] = Ended(job[j], "killed")
        BY <4>1, <2>0 DEF Environment, RecordExpires, HandleExpires, PairDue, PairDies, TokenDue, TokenDies,
           RemoveFromHubSpot, RemoveFromSlack, Crash, recordVars
      <4>2. Ended(job[j], "killed").pc = "killed"
        BY DEF Ended, Started
      <4> QED BY <1>3, <4>1, <4>2 DEF Next, At
    <3>2. k = j
      BY <1>3, <2>0, <3>1, OnlyOwn DEF At
    <3>3. LifeStep(j)
      BY <1>3, <3>1, <3>2, Elsewhere DEF RequestStep, RecordStep, ReadRow, StoreRecord, WriteRow, WriteFails, DeleteRows,
         Forget, At
    <3> QED BY <1>3, <3>3 DEF LifeStep, BeginUninstall, BeginRevoked, DropHubSpot, DropSlack, Revoke, AppsUninstall, WipeAll,
       WipeOne, BeginUnhub, DeleteHub, BeginUnslack, DeleteSlack, DropClients, BeginInstall, Register,
       Merge, Move, Conflict, Merged, Save, BeginHubInstall, Reuse, Heal, Isolate, Share, SaveHub, WriteHub, At
  <2>2. "mappings" \in faults' \/ job[j].uws \notin maps'
    BY <2>1 DEF WipeMappings
  <2>3. Excused \/ Cleared(job[j])
    BY <1>3, <2>0 DEF Wiped, Calm, Place, Looking, At
  <2>4. Place(job[j]) = "wipe"
    BY <1>3 DEF Place, Looking, At
  <2>5. Asked(j) = job[j].uws
    <3>1. PICK r : r = job[j]
      OBVIOUS
    <3>2. Framed(r) /\ Home(r) /\ r.pc = "wipe" /\ Place(r) = "wipe"
      BY <1>3, <2>4, <3>1 DEF Sound, Good, AllHome, At
    <3>3. ASSUME Len(r.todo) = 1 PROVE r.uws = r.ws
      <4>1. r.todo \in Seq(Lane(r.kind) \cap After)
        BY <3>2 DEF Framed, Shaped
      <4>2. r.todo # <<>>
        BY <3>2 DEF Framed, Inner, OwnInner
      <4>3. r.todo[1] \in Outer
        BY <3>2, <3>3, <4>2 DEF Framed, Shaped
      <4>4. ~Awaits(r.todo)
        BY <3>3, <4>3 DEF Awaits, Outer
      <4>5. r.kind # "install" /\ r.kind # "installhub"
        BY <3>2, OwnKind DEF Framed, Own, OwnInner
      <4> QED BY <3>2, <4>4, <4>5 DEF Home, Stays
    <3> QED BY <3>1, <3>3 DEF Asked
  <2>6. ASSUME NEW x \in rows, x.ws = Asked(j) PROVE "late" \in faults \/ x.prov \in faults
    <3>1. ~Gone(job[j].uws, x.prov)
      BY <2>5, <2>6 DEF Gone
    <3> QED BY <1>3, <2>0, <2>3, <2>4, <3>1 DEF Excused, Cleared
  <2> QED BY <2>2, <2>5, <2>6
<1>4. Sound /\ AllWiped /\ AllHome /\ [Next]_tenantVars =>
        [\A j \in Jobs : At(j, "wipe") /\ job[j].left = {} /\ job'[j].pc \notin {"wipe", "killed"} =>
           /\ "mappings" \in faults' \/ Asked(j) \notin maps'
           /\ \A x \in rows : x.ws = Asked(j) => "late" \in faults \/ x.prov \in faults]_tenantVars
  BY <1>3
<1>5. Spec => []AllWiped
  BY <1>1, <1>2, StaysSound, PTL DEF Spec
<1>6. Init => AllHome
  <2> SUFFICES ASSUME Init, NEW j \in Jobs PROVE Home(job[j])
    BY DEF AllHome
  <2>1. PICK s \in Scenarios : job = [k \in Jobs |-> Started(s.work[k])]
    BY DEF Init, RecordInit
  <2>2. Home(Started(s.work[j]))
    BY DEF Home, Stays, Started
  <2> QED BY <2>1, <2>2
<1>7. Sound /\ AllHome /\ [Next]_tenantVars => AllHome'
  BY RequestHome, EnvironmentHome DEF Next
<1>8. Spec => []AllHome
  BY <1>6, <1>7, StaysSound, PTL DEF Spec
<1> QED BY <1>4, <1>5, <1>8, StaysSound, PTL DEF Spec, UninstallComplete

----------------------------------------------------------------------------
(* Refreshing: the branches of one request share a client, and of those    *)
(* that see its token expire one refreshes it.                             *)

(* The client h that all requests share, and what a request knows of it.   *)
(* A token that has been seen to expire, or is revoked;                    *)
Spent(n) == n \in 0..hub.due \/ n \in 0..hub.void
\* a refresh token that HubSpot has refused, for all who ask;
Refused(h) == /\ hclient[h].n \in 1..hub.void
              /\ \A k \in Jobs : Place(job[k]) = "hubanswer" => job[k].tok = 0
\* the lock of the client;
Holds(k, h) == hclient[h].by = k /\ hclient[h].n >= 1
\* a token newer than the client's, in the hands of the request that holds
\* the lock, or lost with it.
Newer(k, h) == hclient[h].by = k /\ (job[k].pc = "killed" \/ (Place(job[k]) = "hubanswer" /\ job[k].tok = hub.gen))

\* A request refreshes a token that is spent, and under the lock; a refusal,
\* during which it uninstalls the workspace, is one for all.
Heeds(k, h) ==
  LET r == job[k] IN
  /\ r.sent \in Nat
  /\ Place(r) = "hubrefresh" => Holds(k, h) /\ Spent(hclient[h].n)
  /\ Place(r) = "hubanswer" => \/ r.tok = hub.gen /\ Holds(k, h)
                               \/ r.tok = 0 /\ (Refused(h) \/ (Holds(k, h) /\ Spent(hclient[h].n)))
  /\ r.todo \in Seq(Quiet("hubanswer")) \/ (r.tok = 0 /\ Refused(h))
  /\ Place(r) = "late" => Spent(r.sent)

\* The client has the newest token, but for the one its lock is held for.
Once(h) == /\ hub.gen >= 1
           /\ hclient[h].n = 0 => hub.gen = 1
           /\ hclient[h].n # 0 => hclient[h].n = hub.gen \/ \E k \in Jobs : Newer(k, h)
           /\ hclient[h].cool => Spent(hclient[h].n)
           /\ \A k \in Jobs : Heeds(k, h)

\* What is known of the numbers, the client and the requests of a sound state.
LEMMA Numbers ==
  ASSUME Sound, NEW h \in Jobs
  PROVE  /\ DOMAIN job = Jobs /\ hub.gen \in Nat /\ hub.due \in Nat /\ hub.void \in Nat /\ hub.dead \in Nat
         /\ hub.dead <= hub.due /\ hub.due <= hub.gen /\ hub.void <= hub.gen
         /\ hclient \in [Jobs -> [n : 0..hub.gen, ws : Names, cool : BOOLEAN, by : Jobs \cup {""}]]
         /\ hclient[h].n \in Nat /\ hclient[h].by \in Jobs \cup {""} /\ "" \notin Jobs
         /\ \A k \in Jobs : Framed(job[k]) /\ DOMAIN job[k] = Fields /\ job[k].tok \in Nat
<1>1. /\ DOMAIN job = Jobs /\ HubTyped /\ HubsTyped(Bound)
      /\ \A k \in Jobs : Good(job[k], Bound, Len(client), Made, hub.void)
  BY DEF Sound
<1>2. /\ hub.gen \in Nat /\ hub.due \in Nat /\ hub.void \in Nat /\ hub.dead \in Nat
      /\ hub.dead <= hub.due /\ hub.due <= hub.gen /\ hub.void <= hub.gen
  BY <1>1 DEF HubTyped
<1>3. hclient \in [Jobs -> [n : 0..hub.gen, ws : Names, cool : BOOLEAN, by : Jobs \cup {""}]]
  BY <1>1 DEF HubsTyped, Bound
<1>4. hclient[h].n \in 0..hub.gen /\ hclient[h].by \in Jobs \cup {""}
  BY <1>3
<1>5. ASSUME NEW k \in Jobs PROVE Framed(job[k]) /\ DOMAIN job[k] = Fields /\ job[k].tok \in Nat
  <2>1. Framed(job[k]) /\ DOMAIN job[k] = Fields /\ job[k].tok \in 0..Bound.hub
    BY <1>1 DEF Good, Sane, Typed, Framed, Shaped
  <2> QED BY <1>2, <2>1 DEF Bound
<1>6. hclient[h].n \in Nat
  <2>1. PICK n, g : n = hclient[h].n /\ g = hub.gen
    OBVIOUS
  <2>2. g \in Nat /\ n \in 0..g
    BY <1>2, <1>4, <2>1
  <2> QED BY <2>1, <2>2
<1> QED BY <1>1, <1>2, <1>3, <1>4, <1>5, <1>6, FreeAssumption

\* What is spent stays spent.
LEMMA SpentStays ==
  ASSUME hub.due \in Nat, hub'.due \in Nat, hub.due <= hub'.due, hub.void \in Nat, hub'.void \in Nat, hub.void <= hub'.void,
         NEW n, Spent(n)
  PROVE  Spent(n)'
  BY DEF Spent

\* What is revoked stays revoked.
LEMMA Widen ==
  ASSUME NEW v \in Nat, NEW w \in Nat, v <= w, NEW n \in 1..v
  PROVE  n \in 1..w
  OBVIOUS

\* What a token that is not revoked, and spent, tells of HubSpot.
LEMMA Fresher ==
  ASSUME NEW n \in Nat, NEW v \in Nat, NEW u \in Nat, n > v
  PROVE  /\ n \notin 0..v /\ n \notin 1..v
         /\ n \in 0..u => n <= u /\ n + 1 >= 1 /\ n + 1 <= u + 1
  OBVIOUS

\* What makes a number one of a token that is revoked.
LEMMA Between == ASSUME NEW n \in Nat, NEW v \in Nat, n >= 1, n <= v PROVE n \in 1..v
  OBVIOUS

\* A token that comes due later leaves as much to be refreshed.
LEMMA Later == ASSUME NEW g \in Nat, NEW u \in Nat, NEW w \in Nat, g <= u + 1, u <= w PROVE g <= w + 1
  OBVIOUS

\* Three ways to know that a token is spent.
LEMMA SpentBy ==
  ASSUME hub.due \in Nat, hub.void \in Nat, hub.dead \in Nat, hub.dead <= hub.due, NEW n \in Nat,
         n <= hub.due \/ n \in 1..hub.void \/ ~Accepted(n)
  PROVE  Spent(n)
<1>1. PICK u, v, e : u = hub.due /\ v = hub.void /\ e = hub.dead
  OBVIOUS
<1>2. u \in Nat /\ v \in Nat /\ e \in Nat /\ e <= u
  BY <1>1
<1>3. n <= u \/ n <= v \/ n <= e
  BY <1>1, <1>2 DEF Accepted
<1>4. n \in 0..u \/ n \in 0..v
  BY <1>2, <1>3
<1> QED BY <1>1, <1>4 DEF Spent

\* What HubSpot does at a request's step: nothing, or it revokes the grant.
LEMMA Revoked ==
  ASSUME HubTyped, hub' = hub \/ hub' = [hub EXCEPT !.void = hub.gen]
  PROVE  /\ hub'.gen = hub.gen /\ hub'.due = hub.due /\ hub'.due \in Nat /\ hub.due <= hub'.due
         /\ hub'.void \in Nat /\ hub.void <= hub'.void
<1>1. PICK g, u, v : g = hub.gen /\ u = hub.due /\ v = hub.void
  OBVIOUS
<1>2. g \in Nat /\ u \in Nat /\ v \in Nat /\ v <= g
  BY <1>1 DEF HubTyped
<1>3. u <= u /\ v <= v
  BY <1>2
<1>4. hub'.gen = g /\ hub'.due = u /\ hub'.void \in {v, g}
  BY <1>1 DEF HubTyped
<1> QED BY <1>1, <1>2, <1>3, <1>4

\* What a request knows stays so while it does nothing.
LEMMA Waits ==
  ASSUME NEW h, NEW k \in Jobs, Heeds(k, h), job'[k] = job[k], hub'.gen = hub.gen,
         Holds(k, h) => Holds(k, h)', Refused(h) => Refused(h)',
         Holds(k, h) /\ Spent(hclient[h].n) => Spent(hclient[h].n)', \A n : Spent(n) => Spent(n)'
  PROVE  Heeds(k, h)'
<1>1. PICK s : s = job[k] /\ job'[k] = s
  OBVIOUS
<1>2. /\ s.sent \in Nat
      /\ Place(s) = "hubrefresh" => Holds(k, h) /\ Spent(hclient[h].n)
      /\ Place(s) = "hubanswer" => \/ s.tok = hub.gen /\ Holds(k, h)
                                   \/ s.tok = 0 /\ (Refused(h) \/ (Holds(k, h) /\ Spent(hclient[h].n)))
      /\ s.todo \in Seq(Quiet("hubanswer")) \/ (s.tok = 0 /\ Refused(h))
      /\ Place(s) = "late" => Spent(s.sent)
  BY <1>1 DEF Heeds
<1>3. Place(s)' = Place(s)
  BY DEF Place
<1>4. Spent(s.sent) => Spent(s.sent)'
  OBVIOUS
<1> QED BY <1>1, <1>2, <1>3, <1>4 DEF Heeds, Place

\* Nor does it mind another client or another token of HubSpot, while it has
\* nothing to do with a refresh.
LEMMA Idles ==
  ASSUME NEW h, NEW k \in Jobs, Heeds(k, h), job'[k] = job[k], ~Holds(k, h), ~Refused(h), \A n : Spent(n) => Spent(n)'
  PROVE  Heeds(k, h)' /\ Place(job[k]) \notin {"hubrefresh", "hubanswer"}
<1>1. PICK s : s = job[k] /\ job'[k] = s
  OBVIOUS
<1>2. /\ s.sent \in Nat /\ Place(s) # "hubrefresh" /\ Place(s) # "hubanswer"
      /\ s.todo \in Seq(Quiet("hubanswer"))
      /\ Place(s) = "late" => Spent(s.sent)
  BY <1>1 DEF Heeds
<1>3. Place(s)' = Place(s)
  BY DEF Place
<1>4. Spent(s.sent) => Spent(s.sent)'
  OBVIOUS
<1>5. Heeds(k, h)'
  BY <1>1, <1>2, <1>3, <1>4 DEF Heeds, Place, Quiet
<1> QED BY <1>1, <1>2, <1>5

\* A step of a request that leaves the client its token, and at most takes
\* the lock or gives it back.
LEMMA Rests ==
  ASSUME Sound, NEW h \in Jobs, Once(h), NEW j \in Jobs, \A k \in Jobs : k # j => job'[k] = job[k],
         NEW r, r = job[j], NEW q, q = job'[j],
         hub'.gen = hub.gen, hub'.due \in Nat, hub.due <= hub'.due, hub'.void \in Nat, hub.void <= hub'.void,
         hclient'[h].n = hclient[h].n, hclient'[h].cool = hclient[h].cool,
         hclient'[h].by = hclient[h].by \/ hclient[h].by \in {j, ""},
         Place(r) # "hubanswer", r.pc # "killed", q.tok \in {r.tok, 0}, q.sent \in Nat,
         r.todo \in Seq(Quiet("hubanswer")) => Calm(q, "hubanswer"),
         Place(q) = "hubrefresh" => Holds(j, h)' /\ Spent(hclient[h].n),
         Place(q) = "late" => Spent(q.sent)
  PROVE  Once(h)'
<1>0. /\ hub.gen \in Nat /\ hub.due \in Nat /\ hub.void \in Nat /\ hclient[h].n \in Nat /\ "" \notin Jobs
  BY Numbers
<1>1. \A n : Spent(n) => Spent(n)'
  BY <1>0, SpentStays
<1>2. /\ hub.gen >= 1 /\ (hclient[h].n = 0 => hub.gen = 1)
      /\ hclient[h].n # 0 => hclient[h].n = hub.gen \/ \E k \in Jobs : Newer(k, h)
      /\ hclient[h].cool => Spent(hclient[h].n)
      /\ \A k \in Jobs : Heeds(k, h)
  BY DEF Once
<1>3. r.todo \in Seq(Quiet("hubanswer")) \/ (r.tok = 0 /\ Refused(h))
  BY <1>2 DEF Heeds
<1>4. Refused(h) => Refused(h)'
  <2>1. Place(q) = "hubanswer" => q.tok = 0
    BY <1>3 DEF Calm
  <2>2. hclient[h].n \in 1..hub.void => hclient[h].n \in 1..hub'.void
    BY <1>0, Widen
  <2>3. Place(q)' = Place(q)
    BY DEF Place
  <2>4. \A k \in Jobs : k # j => Place(job[k])' = Place(job[k])
    BY DEF Place
  <2> QED BY <2>1, <2>2, <2>3, <2>4 DEF Refused, Place
<1>5. \A k \in Jobs : Newer(k, h) => Newer(k, h)'
  <2> SUFFICES ASSUME NEW k \in Jobs, Newer(k, h) PROVE Newer(k, h)'
    OBVIOUS
  <2>1. k # j
    BY DEF Newer
  <2> QED BY <1>0, <2>1 DEF Newer, Place
<1>6. \A k \in Jobs : k # j /\ Holds(k, h) => Holds(k, h)'
  BY <1>0 DEF Holds
<1>7. \A k \in Jobs : k # j => Heeds(k, h)'
  <2> SUFFICES ASSUME NEW k \in Jobs, k # j PROVE Heeds(k, h)'
    OBVIOUS
  <2>1. PICK s : s = job[k] /\ job'[k] = s
    OBVIOUS
  <2>2. /\ s.sent \in Nat
        /\ Place(s) = "hubrefresh" => Holds(k, h) /\ Spent(hclient[h].n)
        /\ Place(s) = "hubanswer" => \/ s.tok = hub.gen /\ Holds(k, h)
                                     \/ s.tok = 0 /\ (Refused(h) \/ (Holds(k, h) /\ Spent(hclient[h].n)))
        /\ s.todo \in Seq(Quiet("hubanswer")) \/ (s.tok = 0 /\ Refused(h))
        /\ Place(s) = "late" => Spent(s.sent)
    BY <1>2, <2>1 DEF Heeds
  <2>3. Place(s)' = Place(s)
    BY DEF Place
  <2>4. Spent(hclient[h].n) => Spent(hclient[h].n)'
    BY <1>1 DEF Spent
  <2>5. Spent(s.sent) => Spent(s.sent)'
    BY <1>1
  <2>6. Holds(k, h) => Holds(k, h)'
    BY <1>6
  <2> QED BY <1>4, <2>1, <2>2, <2>3, <2>4, <2>5, <2>6 DEF Heeds, Place
<1>8. Heeds(j, h)'
  <2>1. q.todo \in Seq(Quiet("hubanswer")) \/ (q.tok = 0 /\ Refused(h)')
    BY <1>3, <1>4 DEF Calm
  <2>2. Place(q) = "hubanswer" => q.tok = 0 /\ Refused(h)'
    BY <1>3, <1>4 DEF Calm
  <2>3. Place(q) = "hubrefresh" => Holds(j, h)' /\ Spent(hclient[h].n)'
    BY <1>1 DEF Spent
  <2>4. Place(q) = "late" => Spent(q.sent)'
    BY <1>1
  <2> QED BY <2>1, <2>2, <2>3, <2>4 DEF Heeds, Place
<1>9. hclient'[h].n # 0 => hclient'[h].n = hub'.gen \/ \E k \in Jobs : Newer(k, h)'
  BY <1>2, <1>5
<1>10. hclient'[h].cool => Spent(hclient[h].n)'
  BY <1>1, <1>2 DEF Spent
<1> QED BY <1>2, <1>7, <1>8, <1>9, <1>10 DEF Once

\* Where the steps begin that are not those of HubSpot's client.
LEMMA Apart ==
  ASSUME NEW j \in Jobs, \/ WriteRow(j) \/ WriteFails(j) \/ DeleteRows(j) \/ Forget(j)
                         \/ SlackStep(j) \/ LifeStep(j)
  PROVE  job[j].pc \notin Looking \cup {"hubanswer", "hubrefresh", "late", "killed"}
<1>1. CASE SlackStep(j)
  BY <1>1 DEF SlackStep, Resolve, Pivot, Bind, Check, TakeLock, Relook, SlackRotates, TakeAnswer, LoseAnswer, Redirect, Persist,
     SlackCall, BeginCall, Source, End, At, Looking
<1>2. CASE LifeStep(j)
  BY <1>2 DEF LifeStep, BeginUninstall, BeginRevoked, DropHubSpot, DropSlack, Revoke, AppsUninstall, WipeAll, WipeOne,
     WipeMappings, BeginUnhub, DeleteHub, BeginUnslack, DeleteSlack, DropClients, BeginInstall, Register,
     Merge, Move, Conflict, Merged, Save, BeginHubInstall, Reuse, Heal, Isolate, Share, SaveHub, WriteHub, At, Looking
<1>3. CASE WriteRow(j) \/ WriteFails(j) \/ DeleteRows(j) \/ Forget(j)
  BY <1>3 DEF WriteRow, WriteFails, DeleteRows, Forget, At, Looking
<1> QED BY <1>1, <1>2, <1>3

\* A request that is not at a label is calm about it, if its stack is.
LEMMA OthersCalm ==
  ASSUME NEW j \in Jobs, DOMAIN job = Jobs, NEW r, r = job[j], NEW q, q = job'[j], Framed(r),
         NEW t \in {"hubanswer", "hubrefresh", "late"}, r.todo \in Seq(Quiet(t)),
         \/ RecordStep(j) /\ ~ReadRow(j) /\ ~StoreRecord(j)
         \/ SlackStep(j)
         \/ LifeStep(j)
  PROVE  Calm(q, t)
<1>1. r.pc \notin Looking \cup {"hubanswer", "hubrefresh", "late", "killed"} /\ Place(r) = r.pc /\ Place(r) # t
  BY Apart DEF RecordStep, Place
<1>2. t \in Turns /\ t # "wipe"
  BY DEF Turns
<1>3. Able(r, t) /\ DOMAIN r = Fields
  BY <1>1 DEF Able, Framed, Shaped
<1>4. CASE RecordStep(j)
  BY <1>1, <1>2, <1>4, RecordCalm DEF Calm
<1>5. CASE SlackStep(j)
  BY <1>1, <1>2, <1>3, <1>5, SlackCalm
<1>6. CASE LifeStep(j)
  <2>1. Calm(q, t) \/ q = Wipe(r)
    BY <1>1, <1>2, <1>3, <1>6, LifeCalm
  <2>2. ASSUME q = Wipe(r) PROVE Calm(q, t)
    <3>1. q.todo = r.todo /\ q.pc = "wipe"
      BY <1>3, <2>2 DEF Wipe, Fields
    <3> QED BY <1>2, <3>1, MoveCalm DEF Looking
  <2> QED BY <2>1, <2>2
<1> QED BY <1>4, <1>5, <1>6

\* A step that is not one of HubSpot's client leaves the tokens alone.
LEMMA OthersOnce ==
  ASSUME Sound, NEW h \in Jobs, Once(h), NEW j \in Jobs, RequestStep(j), ~HubStep(j), ~BeginHubInstall(j)
  PROVE  Once(h)' /\ hub' = hub
<1>0. /\ DOMAIN job = Jobs /\ hub.gen \in Nat /\ hub.due \in Nat /\ hub.void \in Nat
      /\ \A k \in Jobs : Framed(job[k]) /\ DOMAIN job[k] = Fields /\ Heeds(k, h)
  BY Numbers DEF Once
<1>1. \A k \in Jobs : k # j => job'[k] = job[k]
  BY <1>0, OnlyOwn
<1>2. hub' = hub /\ hclient' = hclient
  <2>1. CASE LifeStep(j)
    BY <2>1 DEF LifeStep, BeginUninstall, BeginRevoked, DropHubSpot, DropSlack, Revoke, AppsUninstall, WipeAll, WipeOne,
       WipeMappings, BeginUnhub, DeleteHub, BeginUnslack, DeleteSlack, DropClients, BeginInstall, Register,
       Merge, Move, Conflict, Merged, Save, Reuse, Heal, Isolate, Share, SaveHub, WriteHub, Others, hubVars
  <2> QED BY <2>1 DEF RequestStep, hubVars
<1>3. PICK r, q : r = job[j] /\ q = job'[j]
  OBVIOUS
<1>4. Framed(r) /\ DOMAIN r = Fields /\ Heeds(j, h) /\ r.sent \in Nat
  BY <1>0, <1>3 DEF Heeds
<1>5. CASE ReadRow(j) \/ StoreRecord(j)
  <2>1. Place(q) = Place(r) /\ q.todo = r.todo /\ q.tok = r.tok /\ q.sent = r.sent /\ r.pc # "killed"
    <3>1. CASE ReadRow(j)
      <4>1. PICK x : q = [r EXCEPT !.rec = x, !.pc = "storing"]
        BY <1>0, <1>3, <3>1 DEF ReadRow, Goto
      <4> QED BY <1>3, <1>4, <3>1, <4>1 DEF Fields, ReadRow, At, Place, Looking
    <3>2. CASE StoreRecord(j)
      <4>1. q = [r EXCEPT !.pc = r.ret] /\ r.pc = "storing"
        BY <1>0, <1>3, <3>2 DEF StoreRecord, Goto, At
      <4>2. Place(r) \notin Looking /\ Place(r) = r.ret
        BY <1>4, <4>1, Labels DEF Framed, Place, Looking
      <4> QED BY <1>4, <4>1, <4>2 DEF Fields, Place
    <3> QED BY <1>5, <3>1, <3>2
  <2>2. \A k \in Jobs : /\ Place(job'[k]) = Place(job[k]) /\ job'[k].todo = job[k].todo
                        /\ job'[k].tok = job[k].tok /\ job'[k].sent = job[k].sent
                        /\ job[k].pc = "killed" => job'[k].pc = "killed"
    BY <1>1, <1>3, <2>1
  <2>3. \A s : Place(s)' = Place(s)
    BY DEF Place
  <2>4. Refused(h) => Refused(h)'
    BY <1>2, <2>2 DEF Refused, Place
  <2>5. \A k \in Jobs : Newer(k, h) => Newer(k, h)'
    BY <1>2, <2>2 DEF Newer, Place
  <2>6. \A k \in Jobs : Heeds(k, h) => Heeds(k, h)'
    BY <1>2, <2>2, <2>4 DEF Heeds, Holds, Spent, Place, Quiet
  <2> QED BY <1>2, <2>5, <2>6 DEF Once, Spent
<1>6. CASE ~ReadRow(j) /\ ~StoreRecord(j)
  <2>1. /\ RecordStep(j) \/ SlackStep(j) \/ LifeStep(j)
        /\ r.pc \notin Looking \cup {"hubanswer", "hubrefresh", "late", "killed"} /\ Place(r) = r.pc
    BY <1>3, <1>6, Apart DEF RequestStep, RecordStep, Place
  <2>2. Bears(q, r)
    BY <1>0, <1>3, <1>4, <2>1, RecordBears, SlackBears, LifeBears
  <2>3. \A t \in {"hubanswer", "hubrefresh", "late"} : r.todo \in Seq(Quiet(t)) => Calm(q, t)
    BY <1>0, <1>3, <1>4, <1>6, <2>1, OthersCalm
  <2>4. r.todo \in Seq(Quiet("hubrefresh")) /\ r.todo \in Seq(Quiet("late"))
    <3>1. After \subseteq Quiet("hubrefresh") /\ After \subseteq Quiet("late")
      BY DEF Quiet, After, Outer
    <3>2. r.todo \in Seq(Lane(r.kind) \cap After)
      BY <1>4 DEF Framed, Shaped
    <3>3. Lane(r.kind) \cap After \subseteq Quiet("hubrefresh") /\ Lane(r.kind) \cap After \subseteq Quiet("late")
      BY <3>1
    <3> QED BY <3>2, <3>3, Grows
  <2>5. Place(q) # "hubrefresh" /\ Place(q) # "late"
    BY <2>3, <2>4 DEF Calm
  <2>6. q.tok \in {r.tok, 0} /\ q.sent \in Nat
    BY <1>4, <2>2 DEF Bears
  <2>7. Place(r) # "hubanswer" /\ r.pc # "killed"
    BY <2>1
  <2>8. hub'.due = hub.due /\ hub'.void = hub.void /\ hub'.gen = hub.gen /\ hub.due <= hub.due /\ hub.void <= hub.void
    BY <1>0, <1>2
  <2> QED BY <1>0, <1>1, <1>2, <1>3, <2>3, <2>5, <2>6, <2>7, <2>8, Rests
<1> QED BY <1>2, <1>5, <1>6

\* A token is refreshed once it is spent, by the holder of the lock.
LEMMA HubOnce ==
  ASSUME Sound, NEW h \in Jobs, Once(h), \A k \in Jobs : job[k].hc = h, hub.gen <= hub.due + 1,
         NEW j \in Jobs, HubStep(j), RequestStep(j)
  PROVE  "unheard" \in faults' \/ (Once(h)' /\ hub'.gen <= hub'.due + 1)
<1>0. /\ DOMAIN job = Jobs /\ hub.gen \in Nat /\ hub.due \in Nat /\ hub.void \in Nat /\ hub.dead \in Nat
      /\ hub.dead <= hub.due /\ hub.due <= hub.gen /\ hub.void <= hub.gen
      /\ DOMAIN hclient = Jobs /\ DOMAIN hclient[h] = {"n", "ws", "cool", "by"} /\ hclient[h].n \in Nat /\ hclient[h].by \in Jobs \cup {""} /\ "" \notin Jobs
      /\ \A k \in Jobs : Framed(job[k]) /\ DOMAIN job[k] = Fields /\ job[k].tok \in Nat
  BY Numbers
<1>1. \A k \in Jobs : k # j => job'[k] = job[k]
  BY <1>0, OnlyOwn
<1>2. PICK r, q, c, d : r = job[j] /\ q = job'[j] /\ c = hclient[h] /\ d = hclient'[h]
  OBVIOUS
<1>3. Framed(r) /\ DOMAIN r = Fields /\ r.tok \in Nat /\ r.hc = h /\ DOMAIN c = {"n", "ws", "cool", "by"} /\ c.n \in Nat
  BY <1>0, <1>2
<1>4. r.pc \notin Looking /\ Place(r) = r.pc /\ r.pc # "killed"
  <2>1. r.pc \notin Looking
    BY <1>2, Elsewhere
  <2>2. r.pc # "killed"
    BY <1>2 DEF HubStep, GetClient, MakeClient, Proactive, LockEarly, Send, Answered, Errs, Unauthorized, LockLate, HubRefreshes,
       HubAnswer, HubPersist, Refreshed, BeginHub, At
  <2> QED BY <2>1, <2>2 DEF Place
<1>5. /\ hub.gen >= 1 /\ (c.n = 0 => hub.gen = 1)
      /\ c.n # 0 => c.n = hub.gen \/ \E k \in Jobs : Newer(k, h)
      /\ c.cool => Spent(c.n)
      /\ \A k \in Jobs : Heeds(k, h)
  BY <1>2 DEF Once
<1>6. /\ r.sent \in Nat
      /\ r.pc = "hubrefresh" => Holds(j, h) /\ Spent(c.n)
      /\ r.pc = "hubanswer" => \/ r.tok = hub.gen /\ Holds(j, h)
                               \/ r.tok = 0 /\ (Refused(h) \/ (Holds(j, h) /\ Spent(c.n)))
      /\ r.todo \in Seq(Quiet("hubanswer")) \/ (r.tok = 0 /\ Refused(h))
      /\ r.pc = "late" => Spent(r.sent)
  <2>1. Heeds(j, h)
    BY <1>5
  <2> QED BY <1>2, <1>4, <2>1 DEF Heeds
<1>7. r.todo \in Seq(After) /\ r.todo \in Seq(Quiet("hubrefresh")) /\ r.todo \in Seq(Quiet("late"))
  <2>1. After \subseteq Quiet("hubrefresh") /\ After \subseteq Quiet("late")
    BY DEF Quiet, After, Outer
  <2>2. r.todo \in Seq(Lane(r.kind) \cap After)
    BY <1>3 DEF Framed, Shaped
  <2>3. /\ Lane(r.kind) \cap After \subseteq Quiet("hubrefresh") /\ Lane(r.kind) \cap After \subseteq Quiet("late")
        /\ Lane(r.kind) \cap After \subseteq After
    BY <2>1
  <2> QED BY <2>2, <2>3, Grows
<1>8. r.pc \in Inner => r.todo # <<>>
  BY <1>3, <1>4 DEF Framed
<1>9. r.pc \in HubIn => c.n >= 1
  <2>1. Placed(r, Made, hub.void)
    BY <1>2 DEF Sound, Good
  <2>2. r.pc \in HubIn => r.hc \in Made
    BY <1>4, <2>1 DEF Placed, Meets
  <2> QED BY <1>2, <1>3, <2>2 DEF Made
<1>u. ASSUME Unlock(j) PROVE d.n = c.n /\ d.cool = c.cool /\ (d.by = c.by \/ c.by \in {j, ""})
  <2>1. hclient' = [hclient EXCEPT ![h].by = IF @ = j THEN "" ELSE @]
    BY <1>2, <1>3, <1>u DEF Unlock
  <2> QED BY <1>0, <1>2, <2>1
<1>l. ASSUME Lock(j) PROVE d.n = c.n /\ d.cool = c.cool /\ d.by = j
  <2>1. hclient' = [hclient EXCEPT ![h].by = j]
    BY <1>2, <1>3, <1>l DEF Lock
  <2> QED BY <1>0, <1>2, <2>1
<1>s. hclient' = hclient => d.n = c.n /\ d.cool = c.cool /\ d.by = c.by
  BY <1>2
<1>g. ASSUME hub' = hub \/ hub' = [hub EXCEPT !.void = hub.gen],
             d.n = c.n, d.cool = c.cool, d.by = c.by \/ c.by \in {j, ""},
             r.pc # "hubanswer", q.tok \in {r.tok, 0}, q.sent \in Nat,
             r.todo \in Seq(Quiet("hubanswer")) => Calm(q, "hubanswer"),
             Place(q) = "hubrefresh" => d.by = j /\ c.n >= 1 /\ Spent(c.n),
             Place(q) = "late" => Spent(q.sent)
      PROVE  Once(h)' /\ hub'.gen <= hub'.due + 1
  <2>1. /\ hub'.gen = hub.gen /\ hub'.due = hub.due /\ hub'.due \in Nat /\ hub.due <= hub'.due
        /\ hub'.void \in Nat /\ hub.void <= hub'.void
    BY <1>g, Revoked DEF Sound
  <2>2. Place(q) = "hubrefresh" => Holds(j, h)' /\ Spent(hclient[h].n)
    BY <1>2, <1>g DEF Holds
  <2>3. Place(r) # "hubanswer" /\ r.pc # "killed"
    BY <1>4, <1>g
  <2>4. hclient'[h].n = hclient[h].n /\ hclient'[h].cool = hclient[h].cool /\ (hclient'[h].by = hclient[h].by \/ hclient[h].by \in {j, ""})
    BY <1>2, <1>g
  <2>5. Once(h)'
    BY <1>1, <1>2, <1>g, <2>1, <2>2, <2>3, <2>4, Rests
  <2>6. hub'.gen <= hub'.due + 1
    BY <2>1
  <2> QED BY <2>5, <2>6
\* A step to another label of the procedure, and a return.
<1>m. ASSUME NEW l, l \notin Looking \cup {"hubanswer", "hubrefresh", "late"}, q.pc = l \/ (q.pc = "reading" /\ q.ret = l),
             q.todo = r.todo, q.tok = r.tok, q.sent \in Nat, hub' = hub,
             d.n = c.n, d.cool = c.cool, d.by = c.by \/ c.by \in {j, ""}, r.pc # "hubanswer"
      PROVE  Once(h)' /\ hub'.gen <= hub'.due + 1
  <2>1. Place(q) = l
    BY <1>m DEF Place, Looking
  <2> QED BY <1>g, <1>m, <2>1 DEF Calm
<1>r. ASSUME NEW ok, q = Return(r, ok), r.todo # <<>>, hub' = hub \/ hub' = [hub EXCEPT !.void = hub.gen],
             d.n = c.n, d.cool = c.cool, d.by = c.by \/ c.by \in {j, ""}, r.pc # "hubanswer"
      PROVE  Once(h)' /\ hub'.gen <= hub'.due + 1
  <2>1. Bears(q, r)
    BY <1>3, <1>r, BearsReturn
  <2>2. r.todo \in Seq(Quiet("hubanswer")) => Calm(q, "hubanswer")
    BY <1>3, <1>r, ReturnCalm DEF Turns
  <2>3. Calm(q, "hubrefresh") /\ Calm(q, "late")
    BY <1>3, <1>7, <1>r, ReturnCalm DEF Turns
  <2>4. q.tok \in {r.tok, 0} /\ q.sent \in Nat
    BY <1>6, <2>1 DEF Bears
  <2> QED BY <1>g, <1>r, <2>2, <2>3, <2>4 DEF Calm
<1>c. ASSUME NEW s, DOMAIN s = Fields, s.todo = r.todo, s.tok = r.tok, s.sent = r.sent, NEW a \in Quiet("hubanswer"),
             NEW l, l \notin Looking \cup {"hubanswer", "hubrefresh", "late"}, q = Call(s, l, a), hub' = hub, hclient' = hclient,
             r.pc # "hubanswer"
      PROVE  Once(h)' /\ hub'.gen <= hub'.due + 1
  <2>1. r.todo \in Seq(Quiet("hubanswer")) => Calm(q, "hubanswer")
    BY <1>c, CallCalm DEF Turns
  <2>2. q.pc = l /\ q.tok = r.tok /\ q.sent = r.sent
    BY <1>c DEF Call, Fields
  <2>3. Place(q) = l
    BY <1>c, <2>2 DEF Place
  <2> QED BY <1>6, <1>g, <1>s, <1>c, <2>1, <2>2, <2>3
<1>10. CASE GetClient(j)
  <2>1. hub' = hub /\ hclient' = hclient /\ r.pc = "hub"
    BY <1>2, <1>10 DEF GetClient, hubVars, At
  <2>2. q = [r EXCEPT !.pc = "proactive"] \/ \E k : q = Lookup(r, k, "client")
    BY <1>0, <1>2, <1>10 DEF GetClient, Goto
  <2>3. CASE q = [r EXCEPT !.pc = "proactive"]
    <3>1. q.pc = "proactive" /\ q.todo = r.todo /\ q.tok = r.tok /\ q.sent = r.sent
      BY <1>3, <2>3 DEF Fields
    <3> QED BY <1>6, <1>m, <1>s, <2>1, <3>1 DEF Looking
  <2>4. CASE \E k : q = Lookup(r, k, "client")
    <3>1. (q.pc = "client" \/ (q.pc = "reading" /\ q.ret = "client")) /\ q.todo = r.todo /\ q.tok = r.tok /\ q.sent = r.sent
      BY <1>3, <2>4 DEF Lookup, Fields
    <3> QED BY <1>6, <1>m, <1>s, <2>1, <3>1 DEF Looking
  <2> QED BY <2>2, <2>3, <2>4
<1>11. CASE Proactive(j)
  <2>1. hub' = hub /\ hclient' = hclient /\ r.pc = "proactive"
    BY <1>2, <1>11 DEF Proactive, hubVars, At
  <2>2. q.pc \in {"early", "send"} /\ q.todo = r.todo /\ q.tok = r.tok /\ q.sent = r.sent
    BY <1>0, <1>2, <1>3, <1>11 DEF Proactive, Goto, Fields
  <2> QED BY <1>6, <1>m, <1>s, <2>1, <2>2 DEF Looking
<1>12. CASE LockEarly(j)
  <2>1. hub' = hub /\ r.pc = "early" /\ c.by = "" /\ c.n >= 1
    BY <1>2, <1>3, <1>9, <1>12 DEF LockEarly, At, Mine, HubIn
  <2>2. CASE Lock(j) /\ Expiring(j) /\ q = [r EXCEPT !.mode = "early", !.sent = c.n, !.pc = "hubrefresh"]
    <3>1. q.pc = "hubrefresh" /\ q.todo = r.todo /\ q.tok = r.tok /\ q.sent = c.n
      BY <1>3, <2>2 DEF Fields
    <3>2. Spent(c.n)
      <4>1. c.cool \/ c.n <= hub.due
        BY <1>2, <1>3, <2>2 DEF Expiring, Mine
      <4> QED BY <1>0, <1>3, <1>5, <4>1, SpentBy
    <3>3. Place(q) = "hubrefresh"
      BY <3>1 DEF Place, Looking
    <3> QED BY <1>3, <1>g, <1>l, <2>1, <2>2, <3>1, <3>2, <3>3 DEF Calm
  <2>3. CASE hclient' = hclient /\ q = [r EXCEPT !.pc = "send"]
    <3>1. q.pc = "send" /\ q.todo = r.todo /\ q.tok = r.tok /\ q.sent = r.sent
      BY <1>3, <2>3 DEF Fields
    <3> QED BY <1>6, <1>m, <1>s, <2>1, <2>3, <3>1 DEF Looking
  <2> QED BY <1>0, <1>2, <1>3, <1>12, <2>2, <2>3 DEF LockEarly, Goto, Mine
<1>13. CASE Send(j)
  <2>1. hub' = hub /\ hclient' = hclient /\ r.pc = "send"
    BY <1>2, <1>13 DEF Send, hubVars, At
  <2>2. q = [r EXCEPT !.sent = c.n, !.pc = "sent"]
    BY <1>0, <1>2, <1>3, <1>13 DEF Send, Goto, Mine
  <2>3. q.pc = "sent" /\ q.todo = r.todo /\ q.tok = r.tok /\ q.sent = c.n
    BY <1>3, <2>2 DEF Fields
  <2> QED BY <1>3, <1>m, <1>s, <2>1, <2>3 DEF Looking
<1>14. CASE Answered(j)
  <2>1. r.pc = "sent" /\ (hub' = hub \/ hub' = [hub EXCEPT !.void = hub.gen]) /\ r.todo # <<>>
    BY <1>2, <1>8, <1>14 DEF Answered, At, Inner, OwnInner
  <2>2. CASE Unlock(j) /\ q = Return(r, TRUE)
    BY <1>r, <1>u, <2>1, <2>2
  <2>3. CASE hclient' = hclient /\ \E n : q = [r EXCEPT !.tries = n, !.pc = "send"]
    <3>1. q.pc = "send" /\ q.todo = r.todo /\ q.tok = r.tok /\ q.sent = r.sent
      BY <1>3, <2>3 DEF Fields
    <3>2. Place(q) = "send"
      BY <3>1 DEF Place, Looking
    <3> QED BY <1>6, <1>g, <1>s, <2>1, <2>3, <3>1, <3>2 DEF Calm
  <2> QED BY <1>0, <1>2, <1>14, <2>2, <2>3 DEF Answered, Goto
<1>15. CASE Errs(j)
  <2>1. r.pc = "sent" /\ hub' = hub /\ r.todo # <<>> /\ Unlock(j) /\ q = Return(r, FALSE)
    BY <1>0, <1>2, <1>8, <1>15 DEF Errs, At, Goto, Inner, OwnInner
  <2> QED BY <1>r, <1>u, <2>1
<1>16. CASE Unauthorized(j)
  <2>1. r.pc = "sent" /\ hub' = hub /\ r.todo # <<>> /\ ~Accepted(r.sent)
    BY <1>2, <1>8, <1>16 DEF Unauthorized, At, Inner, OwnInner
  <2>2. CASE Unlock(j) /\ q = Return(r, FALSE)
    BY <1>r, <1>u, <2>1, <2>2
  <2>3. CASE hclient' = hclient /\ q = [r EXCEPT !.pc = "late"]
    <3>1. q.pc = "late" /\ q.todo = r.todo /\ q.tok = r.tok /\ q.sent = r.sent
      BY <1>3, <2>3 DEF Fields
    <3>2. Place(q) = "late"
      BY <3>1 DEF Place, Looking
    <3>3. Spent(r.sent)
      BY <1>0, <1>6, <2>1, SpentBy
    <3> QED BY <1>6, <1>g, <1>s, <2>1, <2>3, <3>1, <3>2, <3>3 DEF Calm
  <2> QED BY <1>0, <1>2, <1>16, <2>2, <2>3 DEF Unauthorized, Goto
<1>17. CASE LockLate(j)
  <2>1. r.pc = "late" /\ hub' = hub /\ c.by = "" /\ Lock(j) /\ c.n >= 1
    BY <1>2, <1>3, <1>9, <1>17 DEF LockLate, At, Mine, HubIn
  <2>2. CASE q = [r EXCEPT !.pc = "send"]
    <3>1. q.pc = "send" /\ q.todo = r.todo /\ q.tok = r.tok /\ q.sent = r.sent
      BY <1>3, <2>2 DEF Fields
    <3> QED BY <1>6, <1>m, <1>l, <2>1, <3>1 DEF Looking
  <2>3. CASE r.sent = c.n /\ q = [r EXCEPT !.mode = "late", !.pc = "hubrefresh"]
    <3>1. q.pc = "hubrefresh" /\ q.todo = r.todo /\ q.tok = r.tok /\ q.sent = r.sent
      BY <1>3, <2>3 DEF Fields
    <3>2. Place(q) = "hubrefresh"
      BY <3>1 DEF Place, Looking
    <3> QED BY <1>6, <1>g, <1>l, <2>1, <2>3, <3>1, <3>2 DEF Calm
  <2> QED BY <1>0, <1>2, <1>3, <1>17, <2>2, <2>3 DEF LockLate, Goto, Mine
<1>18. CASE HubPersist(j)
  <2>1. hub' = hub /\ hclient' = hclient /\ r.pc = "hubpersist"
    BY <1>2, <1>18 DEF HubPersist, hubVars, At
  <2>2. q = [r EXCEPT !.pc = "refreshed"] \/ \E x : q = Upsert(r, x, "refreshed")
    BY <1>0, <1>2, <1>18 DEF HubPersist, Goto
  <2>3. CASE q = [r EXCEPT !.pc = "refreshed"]
    <3>1. q.pc = "refreshed" /\ q.todo = r.todo /\ q.tok = r.tok /\ q.sent = r.sent
      BY <1>3, <2>3 DEF Fields
    <3> QED BY <1>6, <1>m, <1>s, <2>1, <3>1 DEF Looking
  <2>4. CASE \E x : q = Upsert(r, x, "refreshed")
    <3>1. PICK x, s : s = [r EXCEPT !.new = x] /\ q = Call(s, "writing", "refreshed")
      BY <2>4 DEF Upsert
    <3>2. DOMAIN s = Fields /\ s.todo = r.todo /\ s.tok = r.tok /\ s.sent = r.sent
      BY <1>3, <3>1 DEF Fields
    <3>3. "refreshed" \in Quiet("hubanswer") /\ "writing" \notin Looking \cup {"hubanswer", "hubrefresh", "late"} /\ r.pc # "hubanswer"
      BY <2>1 DEF Quiet, After, Looking
    <3> QED BY <1>c, <2>1, <3>1, <3>2, <3>3
  <2> QED BY <2>2, <2>3, <2>4
<1>19. CASE Refreshed(j)
  <2>1. hub' = hub /\ r.pc = "refreshed" /\ q = [r EXCEPT !.pc = "send"] /\ (Unlock(j) \/ hclient' = hclient)
    BY <1>0, <1>2, <1>19 DEF Refreshed, At, Goto
  <2>2. q.pc = "send" /\ q.todo = r.todo /\ q.tok = r.tok /\ q.sent = r.sent
    BY <1>3, <2>1 DEF Fields
  <2> QED BY <1>6, <1>m, <1>s, <1>u, <2>1, <2>2 DEF Looking
<1>20. CASE BeginHub(j)
  <2>1. hub' = hub /\ hclient' = hclient /\ r.pc = "hubcall" /\ q = Call(r, "hub", "end")
    BY <1>0, <1>2, <1>20 DEF BeginHub, hubVars, At, Goto
  <2>2. "end" \in Quiet("hubanswer") /\ "hub" \notin Looking \cup {"hubanswer", "hubrefresh", "late"} /\ r.pc # "hubanswer"
    BY <2>1 DEF Quiet, After, Outer, Looking
  <2> QED BY <1>3, <1>c, <2>1, <2>2
<1>21. CASE MakeClient(j)
  <2>1. hub' = hub /\ r.pc = "client" /\ r.todo # <<>>
    BY <1>2, <1>8, <1>21 DEF MakeClient, At, Inner, OwnInner
  <2>2. CASE hclient' = hclient /\ q = Return(r, FALSE)
    BY <1>r, <1>s, <2>1, <2>2
  <2>3. CASE hclient' = hclient /\ q = [r EXCEPT !.pc = "proactive"]
    <3>1. q.pc = "proactive" /\ q.todo = r.todo /\ q.tok = r.tok /\ q.sent = r.sent
      BY <1>3, <2>3 DEF Fields
    <3> QED BY <1>6, <1>m, <1>s, <2>1, <2>3, <3>1 DEF Looking
  <2>4. CASE /\ r.rec # NoRow /\ c.n = 0 /\ q = [r EXCEPT !.pc = "proactive"]
             /\ hclient' = [hclient EXCEPT ![h] = [NoClient EXCEPT !.n = r.rec.n, !.ws = r.rec.ws]]
    <3>1. r.rec.n = 1 /\ hub.gen = 1
      <4>1. Maybe(r.rec, Bound) /\ r.rec.prov # "slack"
        BY <1>2, <2>1 DEF Sound, Good, Sane, Placed, Typed, Looked, Looking
      <4>2. Real(r.rec, Bound) /\ Limit(Bound)
        BY <2>4, <4>1, Bounds DEF Maybe, Sound
      <4>3. r.rec.n \in 1..hub.gen /\ hub.gen = 1
        BY <1>5, <2>4, <4>1, <4>2, HubRecord DEF Bound
      <4> QED BY <4>3
    <3>2. d.n = 1 /\ d.cool = FALSE
      BY <1>0, <1>2, <2>4, <3>1 DEF NoClient
    <3>3. q.pc = "proactive" /\ q.todo = r.todo /\ q.sent = r.sent
      BY <1>3, <2>4 DEF Fields
    <3>4. ~Refused(h) /\ \A k \in Jobs : ~Holds(k, h)
      BY <1>2, <2>4 DEF Refused, Holds
    <3>5. \A n : Spent(n) => Spent(n)'
      BY <2>1 DEF Spent
    <3>6. \A k \in Jobs : k # j => Heeds(k, h)'
      BY <1>1, <1>5, <3>4, <3>5, Idles
    <3>7. r.todo \in Seq(Quiet("hubanswer")) /\ Place(q) = "proactive"
      BY <1>6, <3>3, <3>4 DEF Place, Looking
    <3>8. Heeds(j, h)'
      BY <1>2, <1>6, <3>3, <3>7 DEF Heeds, Place, Quiet
    <3> QED BY <1>2, <2>1, <3>1, <3>2, <3>6, <3>8 DEF Once
  <2> QED BY <1>0, <1>2, <1>3, <1>21, <2>2, <2>3, <2>4 DEF MakeClient, Goto, Mine
<1>22. CASE HubRefreshes(j)
  <2>1. /\ r.pc = "hubrefresh" /\ hclient' = hclient /\ d = c
        /\ Holds(j, h) /\ Spent(c.n) /\ c.by = j /\ c.n >= 1
    BY <1>2, <1>6, <1>22 DEF HubRefreshes, At, Holds
  <2>2. c.n = hub.gen
    BY <1>2, <1>4, <1>5, <2>1 DEF Newer
  <2>3. \A k \in Jobs : k # j => ~Holds(k, h)
    BY <1>2, <2>1 DEF Holds
  <2>4. CASE /\ c.n > hub.void /\ hub' = [hub EXCEPT !.gen = @ + 1]
             /\ q = [r EXCEPT !.tok = hub.gen + 1, !.pc = "hubanswer"]
    <3>1. hub'.gen = hub.gen + 1 /\ hub'.due = hub.due /\ hub'.void = hub.void
      BY <2>4 DEF Sound, HubTyped
    <3>2. c.n \notin 0..hub.void /\ c.n \notin 1..hub.void
      BY <1>0, <1>3, <2>4, Fresher
    <3>3. hub.gen + 1 >= 1 /\ hub.gen + 1 <= hub.due + 1
      <4>1. c.n \in 0..hub.due
        BY <2>1, <3>2 DEF Spent
      <4> QED BY <1>0, <1>3, <2>2, <2>4, <4>1, Fresher
    <3>4. ~Refused(h)
      BY <1>2, <3>2 DEF Refused
    <3>5. \A n : Spent(n) => Spent(n)'
      BY <3>1 DEF Spent
    <3>6. \A k \in Jobs : k # j => Heeds(k, h)'
      BY <1>1, <1>5, <2>3, <3>4, <3>5, Idles
    <3>7. q.pc = "hubanswer" /\ q.todo = r.todo /\ q.sent = r.sent /\ q.tok = hub'.gen
      BY <1>3, <2>4, <3>1 DEF Fields
    <3>8. Place(q) = "hubanswer" /\ r.todo \in Seq(Quiet("hubanswer"))
      BY <1>6, <3>4, <3>7 DEF Place, Looking
    <3>9. Holds(j, h)' /\ Newer(j, h)'
      BY <1>2, <2>1, <3>7, <3>8 DEF Holds, Newer, Place
    <3>10. Heeds(j, h)'
      BY <1>2, <1>6, <3>7, <3>8, <3>9 DEF Heeds, Place, Quiet
    <3>11. hub'.gen >= 1 /\ hub'.gen <= hub'.due + 1
      BY <3>1, <3>3
    <3>12. (d.cool => Spent(d.n)') /\ d.n # 0
      BY <1>5, <2>1, <3>5 DEF Spent
    <3> QED BY <1>2, <3>6, <3>9, <3>10, <3>11, <3>12 DEF Once
  <2>5. CASE hub' = hub /\ q = [r EXCEPT !.tok = 0, !.pc = "hubanswer"]
    <3>1. q.pc = "hubanswer" /\ q.todo = r.todo /\ q.sent = r.sent /\ q.tok = 0
      BY <1>3, <2>5 DEF Fields
    <3>2. Place(q) = "hubanswer"
      BY <3>1 DEF Place, Looking
    <3>3. \A s : Place(s)' = Place(s)
      BY DEF Place
    <3>4. Refused(h) => Refused(h)'
      <4>1. \A k \in Jobs : k # j => Place(job[k])' = Place(job[k])
        BY <1>1 DEF Place
      <4>2. Place(job[j])' = "hubanswer" /\ job'[j].tok = 0
        BY <1>2, <3>1, <3>2 DEF Place
      <4> QED BY <1>1, <2>1, <2>5, <4>1, <4>2 DEF Refused
    <3>5. \A n : Spent(n) => Spent(n)'
      BY <2>5 DEF Spent
    <3>6. \A k \in Jobs : Holds(k, h) => Holds(k, h)'
      BY <2>1 DEF Holds
    <3>7. \A k \in Jobs : k # j => Heeds(k, h)'
      <4>1. Spent(hclient[h].n) => Spent(hclient[h].n)'
        BY <2>1, <2>5 DEF Spent
      <4> SUFFICES ASSUME NEW k \in Jobs, k # j PROVE Heeds(k, h)'
        OBVIOUS
      <4>3. Heeds(k, h) /\ job'[k] = job[k] /\ hub'.gen = hub.gen
        BY <1>1, <1>5, <2>5
      <4>4. Holds(k, h) => Holds(k, h)'
        BY <3>6
      <4> QED BY <4>1, <4>3, <4>4, <3>4, <3>5, Waits
    <3>8. Heeds(j, h)'
      BY <1>2, <1>6, <2>1, <2>5, <3>1, <3>2, <3>4, <3>5, <3>6 DEF Heeds, Place, Quiet, Spent
    <3> QED BY <1>2, <1>5, <2>1, <2>2, <2>5, <3>7, <3>8 DEF Once, Spent
  <2>6. CASE /\ c.n <= hub.void /\ hub' = hub
             /\ \E u : q = Call([r EXCEPT !.tok = 0, !.uws = u], "revoked", "hubanswer")
    <3>1. PICK u, s : s = [r EXCEPT !.tok = 0, !.uws = u] /\ q = Call(s, "revoked", "hubanswer")
      BY <2>6
    <3>2. DOMAIN s = Fields /\ s.tok = 0 /\ s.sent = r.sent
      BY <1>3, <3>1 DEF Fields
    <3>3. q.pc = "revoked" /\ q.tok = 0 /\ q.sent = r.sent
      BY <3>1, <3>2 DEF Call, Fields
    <3>4. Place(q) = "revoked"
      BY <3>3 DEF Place, Looking
    <3>5. \A t : Place(t)' = Place(t)
      BY DEF Place
    <3>6. \A k \in Jobs : k # j => (Place(job[k]) = "hubanswer" => job[k].tok = 0)
      BY <1>5, <2>3 DEF Heeds
    <3>7. c.n \in 1..hub.void
      BY <1>0, <1>3, <2>1, <2>6, Between
    <3>8. Refused(h)'
      BY <1>1, <1>2, <2>1, <2>6, <3>4, <3>5, <3>6, <3>7 DEF Refused, Place
    <3>9. \A n : Spent(n) => Spent(n)'
      BY <2>6 DEF Spent
    <3>10. \A k \in Jobs : k # j => Heeds(k, h)'
      <4>1. Spent(hclient[h].n) => Spent(hclient[h].n)'
        BY <2>1, <2>6 DEF Spent
      <4>2. \A k \in Jobs : Holds(k, h) => Holds(k, h)'
        BY <2>1 DEF Holds
      <4> SUFFICES ASSUME NEW k \in Jobs, k # j PROVE Heeds(k, h)'
        OBVIOUS
      <4>3. Heeds(k, h) /\ job'[k] = job[k] /\ hub'.gen = hub.gen
        BY <1>1, <1>5, <2>6
      <4>4. Holds(k, h) => Holds(k, h)'
        BY <4>2
      <4> QED BY <4>1, <4>3, <4>4, <3>8, <3>9, Waits
    <3>11. Heeds(j, h)'
      BY <1>2, <1>6, <3>3, <3>4, <3>8 DEF Heeds, Place, Quiet
    <3> QED BY <1>2, <1>5, <2>1, <2>2, <2>6, <3>10, <3>11 DEF Once, Spent
  <2>7. CASE "unheard" \in faults'
    BY <2>7
  <2> QED BY <1>0, <1>2, <1>3, <1>22, <2>4, <2>5, <2>6, <2>7 DEF HubRefreshes, Goto, Mine
<1>23. CASE HubAnswer(j)
  <2>1. hub' = hub /\ r.pc = "hubanswer"
    BY <1>2, <1>23 DEF HubAnswer, At
  <2>2. \A n : Spent(n) => Spent(n)'
    BY <2>1 DEF Spent
  <2>0. PICK z : z = [r EXCEPT !.uws = r.ws]
    OBVIOUS
  <2>9. DOMAIN z = Fields /\ z.todo = r.todo /\ z.sent = r.sent /\ z.tok = r.tok
    BY <1>3, <2>0 DEF Fields
  <2>3. CASE /\ r.tok = 0 /\ q = [z EXCEPT !.pc = "refreshed"]
             /\ hclient' = [hclient EXCEPT ![h] = [@ EXCEPT !.cool = TRUE]]
    <3>1. d.n = c.n /\ d.by = c.by
      BY <1>0, <1>2, <2>3
    <3>2. q.pc = "refreshed" /\ q.todo = r.todo /\ q.sent = r.sent /\ q.tok = 0
      BY <2>9, <2>3 DEF Fields
    <3>3. Place(q) = "refreshed"
      BY <3>2 DEF Place, Looking
    <3>4. \A s : Place(s)' = Place(s)
      BY DEF Place
    <3>5. Refused(h) => Refused(h)'
      BY <1>1, <1>2, <2>1, <3>1, <3>3, <3>4 DEF Refused, Place
    <3>6. \A k \in Jobs : Holds(k, h) => Holds(k, h)'
      BY <1>2, <3>1 DEF Holds
    <3>7. Spent(c.n) /\ Spent(c.n)'
      <4>1. Refused(h) \/ Spent(c.n)
        BY <1>6, <2>1, <2>3, <1>5
      <4>2. Refused(h) => Spent(c.n)
        BY <1>0, <1>2, <1>3, SpentBy DEF Refused
      <4> QED BY <2>1, <4>1, <4>2 DEF Spent
    <3>8. \A k \in Jobs : k # j => Heeds(k, h)'
      <4>1. Spent(hclient[h].n)'
        BY <1>2, <3>1, <3>7 DEF Spent
      <4> SUFFICES ASSUME NEW k \in Jobs, k # j PROVE Heeds(k, h)'
        OBVIOUS
      <4>3. Heeds(k, h) /\ job'[k] = job[k] /\ hub'.gen = hub.gen
        BY <1>1, <1>5, <2>1
      <4>4. Holds(k, h) => Holds(k, h)'
        BY <3>6
      <4> QED BY <4>1, <4>3, <4>4, <2>2, <3>5, Waits
    <3>9. Heeds(j, h)'
      BY <1>2, <1>6, <3>2, <3>3, <3>5 DEF Heeds, Place, Quiet
    <3>10. \A k \in Jobs : Newer(k, h) => Newer(k, h)'
      <4> SUFFICES ASSUME NEW k \in Jobs, Newer(k, h) PROVE Newer(k, h)'
        OBVIOUS
      <4>1. k # j
        <5>1. r.tok # hub.gen
          BY <1>5, <2>3
        <5> QED BY <1>2, <1>4, <5>1 DEF Newer
      <4> QED BY <1>1, <1>2, <2>1, <3>1, <4>1 DEF Newer, Place
    <3>11. d.cool => Spent(d.n)'
      BY <3>1, <3>7 DEF Spent
    <3> QED BY <1>2, <1>5, <2>1, <3>1, <3>8, <3>9, <3>10, <3>11 DEF Once
  <2>4. CASE /\ r.tok # 0 /\ \E k : q = Lookup(z, k, "hubpersist")
             /\ hclient' = [hclient EXCEPT ![h] = [@ EXCEPT !.n = r.tok, !.cool = FALSE]]
    <3>1. r.tok = hub.gen /\ Holds(j, h)
      BY <1>6, <2>1, <2>4
    <3>2. d.n = hub.gen /\ d.cool = FALSE
      BY <1>0, <1>2, <1>3, <2>4, <3>1
    <3>3. Place(q) = "hubpersist" /\ q.todo = r.todo /\ q.sent = r.sent
      BY <2>4, <2>9 DEF Lookup, Fields, Place, Looking
    <3>4. ~Refused(h) /\ \A k \in Jobs : k # j => ~Holds(k, h)
      BY <1>2, <1>4, <2>1, <2>4, <3>1 DEF Refused, Holds
    <3>5. \A k \in Jobs : k # j => Heeds(k, h)'
      BY <1>1, <1>5, <2>2, <3>4, Idles
    <3>6. r.todo \in Seq(Quiet("hubanswer"))
      BY <1>6, <3>4
    <3>7. Heeds(j, h)'
      BY <1>2, <1>6, <3>3, <3>6 DEF Heeds, Place, Quiet
    <3> QED BY <1>2, <1>5, <2>1, <3>2, <3>5, <3>7 DEF Once
  <2> QED BY <1>0, <1>2, <1>3, <1>23, <2>0, <2>3, <2>4 DEF HubAnswer, Goto, Mine
<1> QED BY <1>10, <1>11, <1>12, <1>13, <1>14, <1>15, <1>16, <1>17, <1>18, <1>19, <1>20, <1>21, <1>22, <1>23 DEF HubStep
\* Nor do the environment's steps count: a token comes due or is revoked, and
\* a request that is killed takes the token it was waiting for with it.
LEMMA EnvironmentHub ==
  ASSUME Sound, Environment \/ UNCHANGED tenantVars
  PROVE  /\ hclient' = hclient /\ hub'.gen = hub.gen
         /\ hub'.due \in Nat /\ hub.due <= hub'.due /\ hub'.void \in Nat /\ hub.void <= hub'.void
         /\ \A k \in Jobs : job'[k] = job[k] \/ job'[k] = Ended(job[k], "killed")
<1>1. hclient' = hclient
  BY DEF Environment, RecordExpires, HandleExpires, PairDue, PairDies, TokenDue, TokenDies, RemoveFromHubSpot, RemoveFromSlack,
     Crash, tenantVars, hubVars
<1>2. ASSUME NEW k \in Jobs PROVE job'[k] = job[k] \/ job'[k] = Ended(job[k], "killed")
  BY DEF Environment, RecordExpires, HandleExpires, PairDue, PairDies, TokenDue, TokenDies, RemoveFromHubSpot, RemoveFromSlack,
     Crash, recordVars, tenantVars
<1>3. PICK g, u, v : g = hub.gen /\ u = hub.due /\ v = hub.void
  OBVIOUS
<1>4. HubTyped /\ g \in Nat /\ u \in Nat /\ v \in Nat /\ v <= g /\ u <= g
  BY <1>3 DEF Sound, HubTyped
<1>5. \/ hub' = hub \/ hub' = [hub EXCEPT !.void = hub.gen]
      \/ hub' = [hub EXCEPT !.due = hub.gen] \/ \E n : hub' = [hub EXCEPT !.dead = n]
  BY DEF Environment, RecordExpires, HandleExpires, PairDue, PairDies, TokenDue, TokenDies, RemoveFromHubSpot, RemoveFromSlack,
     Crash, tenantVars, hubVars
<1>6. hub'.gen = g /\ hub'.due \in {u, g} /\ hub'.void \in {v, g}
  BY <1>3, <1>4, <1>5 DEF HubTyped
<1>7. u <= u /\ v <= v
  BY <1>4
<1> QED BY <1>1, <1>2, <1>3, <1>4, <1>6, <1>7

\* What the client and the requests know outlives it.
LEMMA EnvironmentOnce ==
  ASSUME Sound, NEW h \in Jobs, Once(h), Environment \/ UNCHANGED tenantVars
  PROVE  Once(h)'
<1>0. /\ hclient' = hclient /\ hub'.gen = hub.gen
      /\ hub.due \in Nat /\ hub'.due \in Nat /\ hub.due <= hub'.due
      /\ hub.void \in Nat /\ hub'.void \in Nat /\ hub.void <= hub'.void
      /\ \A k \in Jobs : job'[k] = job[k] \/ job'[k] = Ended(job[k], "killed")
  BY Numbers, EnvironmentHub
<1>1. \A n : Spent(n) => Spent(n)'
  BY <1>0, SpentStays
<1>2. \A s : Place(s)' = Place(s)
  BY DEF Place
<1>3. \A s : /\ Ended(s, "killed").pc = "killed" /\ Place(Ended(s, "killed")) = "killed"
             /\ Ended(s, "killed").sent = 0 /\ Ended(s, "killed").todo = <<>>
  BY DEF Ended, Started, Place, Looking
<1>4. /\ hub.gen >= 1 /\ (hclient[h].n = 0 => hub.gen = 1)
      /\ hclient[h].n # 0 => hclient[h].n = hub.gen \/ \E k \in Jobs : Newer(k, h)
      /\ hclient[h].cool => Spent(hclient[h].n)
      /\ \A k \in Jobs : Heeds(k, h)
  BY DEF Once
<1>5. \A k \in Jobs : Place(job[k])' = "hubanswer" => job'[k] = job[k] /\ Place(job[k]) = "hubanswer"
  BY <1>0, <1>2, <1>3 DEF Place
<1>6. Refused(h) => Refused(h)'
  <2>1. hclient[h].n \in 1..hub.void => hclient[h].n \in 1..hub'.void
    BY <1>0, Widen
  <2> QED BY <1>0, <1>5, <2>1 DEF Refused
<1>7. ASSUME NEW k \in Jobs PROVE Heeds(k, h)'
  <2>1. CASE job'[k] = job[k]
    <3>1. Heeds(k, h) /\ hub'.gen = hub.gen
      BY <1>0, <1>4
    <3>2. Holds(k, h) => Holds(k, h)'
      BY <1>0 DEF Holds
    <3>3. Spent(hclient[h].n) => Spent(hclient[h].n)'
      BY <1>0, <1>1 DEF Spent
    <3> QED BY <1>1, <1>6, <2>1, <3>1, <3>2, <3>3, Waits
  <2>2. CASE job'[k] = Ended(job[k], "killed")
    <3>1. PICK q : q = job'[k] /\ q = Ended(job[k], "killed")
      BY <2>2
    <3>2. q.sent = 0 /\ q.todo = <<>> /\ Place(q) = "killed"
      BY <1>3, <3>1
    <3>3. q.sent \in Nat /\ q.todo \in Seq(Quiet("hubanswer"))
      BY <3>2
    <3> QED BY <3>1, <3>2, <3>3 DEF Heeds, Place, Quiet
  <2> QED BY <1>0, <2>1, <2>2
<1>8. ASSUME NEW k \in Jobs, Newer(k, h) PROVE Newer(k, h)'
  <2>1. CASE job'[k] = job[k]
    BY <1>0, <1>8, <2>1 DEF Newer, Place
  <2>2. CASE job'[k] = Ended(job[k], "killed")
    BY <1>0, <1>3, <1>8, <2>2 DEF Newer
  <2> QED BY <1>0, <2>1, <2>2
<1>9. hclient'[h].cool => Spent(hclient[h].n)'
  BY <1>0, <1>1, <1>4 DEF Spent
<1> QED BY <1>0, <1>4, <1>7, <1>8, <1>9 DEF Once

(* The invariant: unless something is installed, a new token was lost on   *)
(* its way or the requests are not the branches of one, no token is        *)
(* refreshed ahead of time.                                                *)
Frugal == \/ Installs \/ "unheard" \in faults
          \/ \E j, k \in Jobs : job[j].hc # job[k].hc
          \/ hub.gen <= hub.due + 1 /\ \A h \in Jobs : (\A j \in Jobs : job[j].hc = h) => Once(h)

\* No step changes what a request is, nor the client it uses.
LEMMA KindKept ==
  ASSUME Sound, [Next]_tenantVars, NEW k \in Jobs
  PROVE  job'[k].kind = job[k].kind /\ job'[k].hc = job[k].hc
<1>0. DOMAIN job = Jobs /\ DOMAIN job[k] = Fields
  BY Numbers
<1>1. ASSUME Environment \/ UNCHANGED tenantVars PROVE job'[k].kind = job[k].kind /\ job'[k].hc = job[k].hc
  <2>1. Bears(Ended(job[k], "killed"), job[k])
    BY <1>0, BearsEnded
  <2> QED BY <1>1, <2>1, EnvironmentHub DEF Bears
<1>2. ASSUME NEW j \in Jobs, RequestStep(j) PROVE job'[k].kind = job[k].kind /\ job'[k].hc = job[k].hc
  <2>1. CASE k # j
    BY <1>0, <1>2, <2>1, OnlyOwn
  <2>2. CASE k = j
    <3>1. PICK r, q : r = job[k] /\ q = job'[k]
      OBVIOUS
    <3>2. q.kind = r.kind /\ q.hc = r.hc
      BY <1>0, <1>2, <2>2, <3>1, RecordBears, SlackBears, HubBears, LifeBears DEF RequestStep, Bears
    <3> QED BY <3>1, <3>2
  <2> QED BY <2>1, <2>2
<1> QED BY <1>1, <1>2 DEF Next

\* Every step keeps it.
LEMMA StaysFrugal ==
  ASSUME Sound, Frugal, [Next]_tenantVars
  PROVE  Frugal'
<1>0. DOMAIN job = Jobs /\ \A k \in Jobs : job'[k].kind = job[k].kind /\ job'[k].hc = job[k].hc
  BY KindKept DEF Sound
<1>1. Installs => Installs'
  BY <1>0 DEF Installs
<1>2. (\E j, k \in Jobs : job[j].hc # job[k].hc) => (\E j, k \in Jobs : job[j].hc # job[k].hc)'
  BY <1>0
<1>4. CASE "unheard" \in faults
  <2>1. CASE Environment \/ UNCHANGED tenantVars
    BY <1>4, <2>1 DEF Frugal, Environment, RecordExpires, HandleExpires, PairDue, PairDies, TokenDue, TokenDies,
       RemoveFromHubSpot, RemoveFromSlack, Crash, recordVars, tenantVars
  <2>2. ASSUME NEW j \in Jobs, RequestStep(j) PROVE Frugal'
    <3>1. CASE WriteRow(j)
      BY <1>4, <3>1 DEF Frugal, WriteRow
    <3>2. CASE ~WriteRow(j)
      BY <1>4, <2>2, <3>2, OnlyWrites DEF Frugal
    <3> QED BY <3>1, <3>2
  <2> QED BY <2>1, <2>2 DEF Next
<1>3. CASE /\ ~Installs /\ \A j, k \in Jobs : job[j].hc = job[k].hc
           /\ hub.gen <= hub.due + 1 /\ \A h \in Jobs : (\A j \in Jobs : job[j].hc = h) => Once(h)
  <2>1. CASE Environment \/ UNCHANGED tenantVars
    <3>1. hub'.gen <= hub'.due + 1
      <4>1. hub'.gen = hub.gen /\ hub.due <= hub'.due /\ hub.gen \in Nat /\ hub.due \in Nat /\ hub'.due \in Nat
        BY <2>1, EnvironmentHub DEF Sound, HubTyped
      <4> QED BY <1>3, <4>1, Later
    <3>2. ASSUME NEW h \in Jobs, \A j \in Jobs : job'[j].hc = h PROVE Once(h)'
      <4>1. Once(h)
        BY <1>0, <1>3, <3>2
      <4> QED BY <2>1, <4>1, EnvironmentOnce
    <3> QED BY <3>1, <3>2 DEF Frugal
  <2>2. ASSUME NEW j \in Jobs, RequestStep(j) PROVE Frugal'
    <3>1. PICK h : h = job[j].hc
      OBVIOUS
    <3>2. h \in Jobs /\ Framed(job[j])
      BY <3>1 DEF Sound, Good, Sane, Typed
    <3>3. Once(h) /\ \A k \in Jobs : job[k].hc = h
      BY <1>3, <3>1, <3>2
    <3>4. ~BeginHubInstall(j)
      <4>1. job[j].pc = "installhub" => job[j].kind = "installhub"
        BY <3>2 DEF Framed, Place, Looking, Lane, Common, Ends, Own, OwnInner, Begins, OfInstall, OfHubInstall
      <4> QED BY <1>3, <4>1 DEF Installs, BeginHubInstall, At
    <3>5. "unheard" \in faults' \/ (Once(h)' /\ hub'.gen <= hub'.due + 1)
      <4>1. CASE HubStep(j)
        BY <1>3, <2>2, <3>2, <3>3, <4>1, HubOnce
      <4>2. CASE ~HubStep(j)
        BY <1>3, <2>2, <3>2, <3>3, <3>4, <4>2, OthersOnce
      <4> QED BY <4>1, <4>2
    <3>6. \A i \in Jobs : (\A k \in Jobs : job'[k].hc = i) => i = h
      BY <1>0, <3>1
    <3> QED BY <3>5, <3>6 DEF Frugal
  <2> QED BY <2>1, <2>2 DEF Next
<1> QED BY <1>1, <1>2, <1>3, <1>4 DEF Frugal

\* Nothing has been refreshed at first, and no client has been made.
LEMMA InitFrugal ==
  ASSUME Init
  PROVE  Frugal
<1>1. PICK s \in Scenarios : RecordInit(s) /\ SlackInit(s) /\ HubInit(s) /\ LifeInit(s)
  BY DEF Init
<1>2. hub.gen = 1 /\ hub.gen <= hub.due + 1
  <2>1. s.due \in 0..1
    BY ScenariosAssumption DEF ScenariosTyped
  <2>2. hub.gen = 1 /\ hub.due = s.due
    BY <1>1 DEF HubInit
  <2> QED BY <2>1, <2>2
<1>3. ASSUME NEW h \in Jobs PROVE Once(h)
  <2>1. hclient[h].n = 0 /\ hclient[h].cool = FALSE
    BY <1>1 DEF HubInit, NoClient
  <2>2. ASSUME NEW k \in Jobs PROVE Heeds(k, h)
    <3>1. PICK r : r = job[k]
      OBVIOUS
    <3>2. r.sent = 0 /\ r.todo = <<>> /\ r.pc = r.kind /\ r.kind = s.work[k].kind
      BY <1>1, <3>1 DEF RecordInit, Started
    <3>3. r.kind \in {"slackcall", "hubcall", "uninstall", "unhub", "unslack", "install", "installhub"}
      BY <3>2, ScenariosAssumption DEF ScenariosTyped
    <3>4. Place(r) \notin {"hubrefresh", "hubanswer", "late"}
      BY <3>2, <3>3 DEF Place, Looking
    <3> QED BY <3>1, <3>2, <3>4 DEF Heeds
  <2> QED BY <1>2, <2>1, <2>2 DEF Once
<1> QED BY <1>2, <1>3 DEF Frugal

(* The branches of a request, which share a client, refresh an access      *)
(* token once: whoever waited for the lock looks again before it asks for  *)
(* a new one, and a refresh that fails leaves the token it was about.      *)
THEOREM RefreshesOnce == Spec => []RefreshedOnce
<1>1. Init => Frugal
  BY InitFrugal
<1>2. Sound /\ Sound' /\ Frugal /\ [Next]_tenantVars => Frugal'
  BY StaysFrugal
<1>3. Frugal => RefreshedOnce
  BY DEF Frugal, RefreshedOnce
<1> QED BY <1>1, <1>2, <1>3, StaysSound, PTL DEF Spec
=============================================================================
