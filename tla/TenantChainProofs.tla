-------------------------- MODULE TenantChainProofs --------------------------
(***************************************************************************)
(* The chain of Slack's single-use pairs in Tenant, for any instances that *)
(* two calls of Slack each meet in: the newest pair is not lost (ChainKept)*)
(* and one that comes due is rotated once (RotatedOnce), however calls,    *)
(* expiries, lost answers, restarts, caches and handles interleave.  The   *)
(* inductive invariant is ChainInv, on top of Sound.                       *)
(*   Ordered  Every copy of a record, in a cache, a client or a request,   *)
(*            is of a row that is there; a linked one leads to one that is *)
(*            not; and the lock of an identity has one holder (Locks).     *)
(*   Owned    A client is of one process.                                  *)
(*   Tracked  The newest pair has one place: a row that is not linked, or  *)
(*            a request that is taking it there (Kept, Reached).  Who is   *)
(*            about to rotate a pair that is not due waits for the request *)
(*            that has just got it, or finds it in the record (Warned).    *)
(*   Astray   Or an answer of Slack was lost: then nobody has the newest   *)
(*            pair, and nobody can spend the one before.                   *)
(* Three calls in an instance are one too many: what the third read before *)
(* the first has written it may store after the first has made the cache   *)
(* forget, and the second then rotates a pair that is not due.             *)
(***************************************************************************)
EXTENDS TenantProofs

----------------------------------------------------------------------------
(* The chain of single-use pairs: which requests hold one, and where.      *)
Resolving == {"slack", "pivot", "bind"}
Storing == {"writing", "forgetting"}
Locked == {"relook", "refresh", "answer", "lost"}
Keeping == {"redirect", "persist"} \cup Storing

\* A call of Slack goes one way, and returns to where it came from.
Straight(r) ==
  /\ Place(r) \in {"slackcall", "source", "end"} \cup Ends \cup Resolving \cup SlackIn \cup Storing
  /\ Place(r) \in {"slackcall", "source"} => r.todo = <<>>
  /\ Place(r) \in Resolving \cup SlackIn => r.todo = <<"end">>
  /\ Place(r) \in Storing => r.todo = <<"call", "end">>
  /\ Place(r) \in Resolving => r.goal = "check"
  /\ r.pc \in Looking => r.ret \in {"source", "pivot", "relook", "redirect", "persist"}

\* Copies of a Slack record differ from its row in the pair alone, and a
\* linked one that has a pair leads to a record that is not linked.
Same(x, y) == x.id = y.id /\ x.ws = y.ws /\ x.prov = y.prov /\ x.link = y.link
Root(w) == \E y \in rows : y.prov = "slack" /\ y.ws = w /\ y.link = ""
Rooted(n, link) == n > 0 /\ link # "" => Root(link)
Copy(x, h) == x.prov = "slack" => /\ x.n \in 0..h /\ Rooted(x.n, x.link)
                                  /\ \E y \in rows : Same(x, y)
Single == \A x, y \in rows : x.id # <<>> /\ (x.id = y.id \/ (x.ws = y.ws /\ x.prov = y.prov) => x = y)
Client(c, h) == /\ c.n \in 0..h /\ c.rt \in {0, c.n} /\ Rooted(c.n, c.link)
                /\ \E y \in rows : y.prov = "slack" /\ y.ws = c.ws /\ y.link = c.link
World(h) == /\ slack.gen \in Nat /\ slack.due \in Nat /\ h \in Nat /\ h <= slack.gen
            /\ Single /\ (\A x \in rows : Copy(x, h))
            /\ (\A p \in Processes : \A k \in Keys : Copy(cache[p][k], h))
            /\ Len(client) \in Nat /\ \A i \in 1..Len(client) : Client(client[i], h)

\* What a request of client c has in hand.
Of(x, w) == x.prov = "slack" /\ x.ws = w
InHand(r, c) ==
  /\ Place(r) \in {"rotate"} \cup Locked \cup Keeping => c.n > 0
  /\ r.pc \in Looking =>
       /\ r.ret = "relook" => r.key = <<Identity(c), "slack">>
       /\ r.ret = "redirect" => r.key = <<c.ws, "slack">>
       /\ r.ret = "persist" => c.link # "" /\ r.key = <<c.link, "slack">>
       /\ r.pc = "storing" /\ r.ret \in {"relook", "redirect", "persist"} => Of(r.rec, r.key[1])
  /\ r.pc \in {"relook", "persist"} => Of(r.rec, Identity(c))
  /\ r.pc = "redirect" => Of(r.rec, c.ws)
  /\ r.pc \in Storing => Of(r.new, Identity(c)) /\ r.new.n = r.got /\ r.new.link = ""
  /\ r.pc = "forgetting" => r.key = <<Identity(c), "slack">>
Numbered(r, h) == Copy(r.rec, h) /\ Copy(r.src, h) /\ Copy(r.new, h) /\ r.got \in 0..h /\ r.spend \in 0..h
Fit(r, h) == /\ Straight(r) /\ Numbered(r, h) /\ (r.pc = "bind" => r.rec.prov = "slack")
             /\ Place(r) \in SlackIn \cup Storing => r.cl \in 1..Len(client) /\ InHand(r, client[r.cl])

\* No two requests hold the lock of an identity in one process.
Locks == /\ DOMAIN lock = Processes
         /\ \A j \in Jobs : Place(job[j]) \in Locked => Identity(TheClient(j)) \in lock[job[j].p]
         /\ \A i, j \in Jobs : Place(job[i]) \in Locked /\ Place(job[j]) \in Locked /\ job[i].p = job[j].p
              /\ Identity(TheClient(i)) = Identity(TheClient(j)) => i = j

Ordered(h) == World(h) /\ Locks /\ \A j \in Jobs : Fit(job[j], h)

\* What no step takes away: the rows but for their pairs, the clients.
Lasts == /\ \A y \in rows : \E z \in rows' : Same(y, z)
         /\ Len(client') \in Nat /\ Len(client) <= Len(client')
         /\ \A i \in 1..Len(client) : /\ client'[i].ws = client[i].ws /\ client'[i].link = client[i].link
                                      /\ client[i].n > 0 => client'[i].n > 0

\* A pair that leads to a record that is not linked still does.
LEMMA RootedLasts ==
  ASSUME Lasts, NEW n, NEW link, Rooted(n, link)
  PROVE  Rooted(n, link)'
  BY DEF Rooted, Root, Lasts, Same

\* A copy of a row is still one,
LEMMA CopyLasts ==
  ASSUME NEW h, World(h), Lasts, NEW x, Copy(x, h)
  PROVE  Copy(x, h)'
<1>1. CASE x.prov = "slack"
  <2>1. x.n \in 0..h
    BY <1>1 DEF World, Lasts, Copy
  <2>2. Rooted(x.n, x.link)'
    BY <1>1, RootedLasts DEF Copy
  <2>3. \E y \in rows' : Same(x, y)
    <3>1. PICK y \in rows : Same(x, y)
      BY <1>1 DEF Copy
    <3>2. PICK z \in rows' : Same(y, z)
      BY DEF Lasts
    <3> QED BY <3>1, <3>2 DEF Same
  <2> QED BY <2>1, <2>2, <2>3 DEF Copy, Same
<1>2. CASE x.prov # "slack"
  BY <1>2 DEF Copy
<1> QED BY <1>1, <1>2

\* a client is still one of a workspace that has a row,
LEMMA ClientLasts ==
  ASSUME NEW h, World(h), Lasts, NEW c, Client(c, h)
  PROVE  Client(c, h)'
<1>1. c.n \in 0..h
  BY DEF World, Lasts, Client
<1>2. Rooted(c.n, c.link)'
  BY RootedLasts DEF Client
<1>3. \E y \in rows' : y.prov = "slack" /\ y.ws = c.ws /\ y.link = c.link
  <2>1. PICK y \in rows : y.prov = "slack" /\ y.ws = c.ws /\ y.link = c.link
    BY DEF Client
  <2>2. PICK z \in rows' : Same(y, z)
    BY DEF Lasts
  <2> QED BY <2>1, <2>2 DEF Same
<1> QED BY <1>1, <1>2, <1>3 DEF Client

\* What a request has in hand depends on the client's identity alone.
LEMMA InHandLasts ==
  ASSUME NEW r, NEW c, NEW d, d.ws = c.ws, d.link = c.link, c.n > 0 => d.n > 0, InHand(r, c)
  PROVE  InHand(r, d)
<1>1. Identity(d) = Identity(c)
  BY DEF Identity
<1> QED BY <1>1 DEF InHand

\* and a request that does not move is still in order.
LEMMA FitLasts ==
  ASSUME NEW h, World(h), Lasts, NEW r, Fit(r, h)
  PROVE  Fit(r, h)'
<1>1. Numbered(r, h)'
  <2>1. Copy(r.rec, h)' /\ Copy(r.src, h)' /\ Copy(r.new, h)'
    BY CopyLasts DEF Fit, Numbered
  <2>2. r.got \in 0..h /\ r.spend \in 0..h
    BY DEF Fit, Numbered, World, Lasts
  <2> QED BY <2>1, <2>2 DEF Numbered
<1>2. ASSUME Place(r) \in SlackIn \cup Storing PROVE r.cl \in 1..Len(client') /\ InHand(r, client'[r.cl])
  <2>1. r.cl \in 1..Len(client) /\ InHand(r, client[r.cl])
    BY <1>2 DEF Fit
  <2>2. r.cl \in 1..Len(client')
    BY <2>1 DEF Lasts, World
  <2>3. PICK c, d : c = client[r.cl] /\ d = client'[r.cl]
    OBVIOUS
  <2>4. d.ws = c.ws /\ d.link = c.link /\ (c.n > 0 => d.n > 0)
    BY <2>1, <2>3 DEF Lasts
  <2>5. InHand(r, d)
    BY <2>1, <2>3, <2>4, InHandLasts
  <2> QED BY <2>2, <2>3, <2>5
<1> QED BY <1>1, <1>2 DEF Fit, Straight, InHand, Of, Identity, Place

\* What is known of a request, its client and its process before a step.
Knows(r) == /\ DOMAIN r = Fields /\ r.p \in Processes /\ r.kind = "slackcall" /\ r.ws \in Spaces /\ r.prov \in {""} \cup Provs
            /\ (r.pc \in Looking => r.key \in Keys) /\ (r.pc = "storing" => Fits(r.rec, r.key))
            /\ (Place(r) \in Resolving => r.src # NoRow)
            /\ (r.src # NoRow => r.src.ws \in Spaces /\ r.src.link \in Names /\ r.src.prov \in Provs)
            /\ (Place(r) = "slackcall" => r.prov # "") /\ (r.rec # NoRow => r.rec.ws \in Spaces /\ r.rec.link \in Names /\ DOMAIN r.rec = RowFields)
            /\ \A p \in Processes : \A k \in Keys : Fits(cache[p][k], k)

\* Sound says all that Knows says.
LEMMA Known ==
  ASSUME Sound, NEW j \in Jobs, job[j].kind = "slackcall"
  PROVE  Knows(job[j])
<1>1. PICK b, m, A, v : b = Bound /\ m = Len(client) /\ A = Made /\ v = hub.void
  OBVIOUS
<1>2. PICK r : r = job[j]
  OBVIOUS
<1>3. Good(r, b, m, A, v) /\ CacheTyped(b)
  BY <1>1, <1>2 DEF Sound
<1>4. /\ DOMAIN r = Fields /\ Typed(r, b, m, v) /\ Looked(r) /\ Meets(r, Place(r), A, v)
  BY <1>3 DEF Good, Framed, Shaped, Sane, Placed
<1>5. \A x : Maybe(x, b) /\ x # NoRow => x.ws \in Spaces /\ x.link \in Names /\ DOMAIN x = RowFields /\ x.prov \in Provs
  BY DEF Maybe, Real, IsRow, Names
<1>6. /\ r.p \in Processes /\ r.ws \in Spaces /\ r.prov \in {""} \cup Provs
      /\ r.src # NoRow => r.src.ws \in Spaces /\ r.src.link \in Names /\ r.src.prov \in Provs
      /\ r.rec # NoRow => r.rec.ws \in Spaces /\ r.rec.link \in Names /\ DOMAIN r.rec = RowFields
  BY <1>4, <1>5 DEF Typed
<1>7. (r.pc \in Looking => r.key \in Keys) /\ (r.pc = "storing" => Fits(r.rec, r.key))
  BY <1>4 DEF Looked, Looking
<1>8. (Place(r) \in Resolving => r.src # NoRow) /\ (Place(r) = "slackcall" => r.prov # "")
  BY <1>4 DEF Meets, Resolving
<1>9. \A p \in Processes : \A k \in Keys : Fits(cache[p][k], k)
  BY <1>3 DEF CacheTyped
<1> QED BY <1>2, <1>4, <1>6, <1>7, <1>8, <1>9 DEF Knows

\* The clients name workspaces.
LEMMA Named ==
  ASSUME Sound, NEW i \in 1..Len(client)
  PROVE  client[i].ws \in Spaces /\ client[i].link \in Names /\ Identity(client[i]) \in Spaces
<1> DEFINE C == [n : 0..Bound.all, rt : 0..Bound.all, ws : Spaces, link : Names]
<1>1. client \in Seq(C)
  BY DEF Sound, ClientsTyped
<1> HIDE DEF C
<1>2. client[i] \in C
  BY <1>1, Elements
<1> USE DEF C
<1>3. client[i].ws \in Spaces /\ client[i].link \in Names
  BY <1>2
<1> QED BY <1>3 DEF Identity, Names

\* A lookup finds a copy in the cache, or goes to read the row.
LEMMA LookFinds ==
  ASSUME NEW h, World(h), NEW r, DOMAIN r = Fields, r.p \in Processes, Numbered(r, h), NEW k \in Keys, NEW l, l \notin Looking,
         \A p \in Processes : \A i \in Keys : Fits(cache[p][i], i), NEW q, q = Lookup(r, k, l)
  PROVE  /\ Numbered(q, h) /\ Place(q) = l /\ q.todo = r.todo /\ q.cl = r.cl /\ q.goal = r.goal /\ q.key = k
         /\ q.got = r.got /\ q.new = r.new /\ q.spend = r.spend /\ q.p = r.p /\ q.kind = r.kind
         /\ \/ q.pc = l /\ q.rec = cache[r.p][k] /\ q.rec # NoRow /\ (k[2] = "slack" => Of(q.rec, k[1]))
            \/ q.pc = "reading" /\ q.ret = l
<1>0. Copy(cache[r.p][k], h)
  BY DEF World
<1>1. CASE cache[r.p][k] # NoRow
  <2>1. q = [r EXCEPT !.key = k, !.rec = cache[r.p][k], !.pc = l]
    BY <1>1 DEF Lookup
  <2>2. /\ q.todo = r.todo /\ q.cl = r.cl /\ q.goal = r.goal /\ q.key = k /\ q.got = r.got /\ q.new = r.new /\ q.spend = r.spend
        /\ q.src = r.src /\ q.pc = l /\ q.rec = cache[r.p][k] /\ q.p = r.p /\ q.kind = r.kind
    BY <2>1 DEF Fields
  <2>3. k[2] = "slack" => Of(q.rec, k[1])
    BY <1>1, <2>2 DEF Fits, Of
  <2> QED BY <1>0, <1>1, <2>2, <2>3 DEF Numbered, Place, Looking
<1>2. CASE cache[r.p][k] = NoRow
  <2>1. q = [r EXCEPT !.key = k, !.ret = l, !.pc = "reading"]
    BY <1>2 DEF Lookup
  <2>2. /\ q.todo = r.todo /\ q.cl = r.cl /\ q.goal = r.goal /\ q.key = k /\ q.got = r.got /\ q.new = r.new /\ q.spend = r.spend
        /\ q.src = r.src /\ q.pc = "reading" /\ q.ret = l /\ q.rec = r.rec /\ q.p = r.p /\ q.kind = r.kind
    BY <2>1 DEF Fields
  <2> QED BY <2>2 DEF Numbered, Place, Looking
<1> QED BY <1>1, <1>2

\* The row a client is persisted to is there, and is not linked.
Leads(k, c) == \/ k = <<c.ws, "slack">>
               \/ c.n > 0 /\ (k = <<Identity(c), "slack">> \/ (c.link # "" /\ k = <<c.link, "slack">>))

\* Its key leads to a row, and a copy of that row is linked as the client is.
LEMMA RowThere ==
  ASSUME NEW h, World(h), NEW c, Client(c, h)
  PROVE  /\ \A k : Leads(k, c) => Matching(k) # {} /\ k[2] = "slack"
         /\ \A x : Copy(x, h) /\ Of(x, c.ws) => x.link = c.link
         /\ \A x : Copy(x, h) /\ Of(x, Identity(c)) /\ c.n > 0 => x.link = ""
<1>1. PICK y \in rows : y.prov = "slack" /\ y.ws = c.ws /\ y.link = c.link
  BY DEF Client
<1>2. ASSUME c.n > 0, c.link # "" PROVE \E z \in rows : z.prov = "slack" /\ z.ws = c.link /\ z.link = ""
  BY <1>2 DEF Client, Rooted, Root
<1>3. ASSUME NEW x, Copy(x, h), NEW z \in rows, Of(x, z.ws), z.prov = "slack" PROVE x.link = z.link
  <2>1. PICK u \in rows : Same(x, u)
    BY <1>3 DEF Copy, Of
  <2>2. u = z
    BY <1>3, <2>1 DEF World, Single, Same, Of
  <2> QED BY <2>1, <2>2 DEF Same
<1>4. ASSUME NEW k, Leads(k, c) PROVE Matching(k) # {} /\ k[2] = "slack"
  <2>1. ASSUME NEW w, NEW z \in rows, z.prov = "slack", z.ws = w, k = <<w, "slack">>
        PROVE  Matching(k) # {} /\ k[2] = "slack"
    <3>1. k[1] = w /\ k[2] = "slack"
      BY <2>1
    <3>2. z \in Matching(k)
      BY <2>1, <3>1 DEF Matching
    <3> QED BY <3>1, <3>2
  <2>2. CASE k = <<c.ws, "slack">>
    BY <1>1, <2>1, <2>2
  <2>3. CASE c.n > 0 /\ c.link # "" /\ k = <<c.link, "slack">>
    BY <1>2, <2>1, <2>3
  <2>4. CASE c.n > 0 /\ k = <<Identity(c), "slack">>
    BY <2>2, <2>3, <2>4 DEF Identity
  <2> QED BY <1>4, <2>2, <2>3, <2>4 DEF Leads
<1>5. \A x : Copy(x, h) /\ Of(x, c.ws) => x.link = c.link
  BY <1>1, <1>3
<1>6. ASSUME NEW x, Copy(x, h), Of(x, Identity(c)), c.n > 0 PROVE x.link = ""
  <2>1. CASE c.link = ""
    BY <1>5, <1>6, <2>1 DEF Identity
  <2>2. CASE c.link # ""
    BY <1>2, <1>3, <1>6, <2>2 DEF Identity
  <2> QED BY <2>1, <2>2
<1> QED BY <1>4, <1>5, <1>6

\* What a step leaves alone of a request.
Same5(q, r) == q.p = r.p /\ q.kind = r.kind /\ q.cl = r.cl /\ q.got = r.got /\ q.spend = r.spend

\* What each step does to its request.  A read finds a row of the key, a
\* relook the row its client is persisted to.
LEMMA ReadGoes ==
  ASSUME NEW h, World(h), NEW j \in Jobs, DOMAIN job = Jobs, NEW r, r = job[j], Fit(r, h), Knows(r), NEW q, q = job'[j], ReadRow(j)
  PROVE  /\ Fit(q, h) /\ Same5(q, r) /\ r.pc = "reading" /\ q.pc = "storing" /\ q.ret = r.ret /\ q.key = r.key /\ q.new = r.new
         /\ q.rec \in Answers(r.key)
         /\ r.ret = "relook" => q.rec \in Matching(r.key)
<1>1. PICK x \in Answers(r.key) : q = [r EXCEPT !.rec = x, !.pc = "storing"]
  BY DEF ReadRow, Goto
<1>2. r.pc = "reading" /\ Place(r) = r.ret
  BY DEF ReadRow, At, Place, Looking
<1>3. /\ Same5(q, r) /\ q.pc = "storing" /\ q.ret = r.ret /\ q.key = r.key /\ q.new = r.new /\ q.rec = x /\ q.src = r.src
      /\ q.todo = r.todo /\ q.goal = r.goal
  BY <1>1 DEF Knows, Same5, Fields
<1>4. Place(q) = r.ret
  BY <1>3 DEF Place, Looking
<1>5. Copy(x, h)
  <2>1. x \in rows \/ x = NoRow
    BY DEF Answers, Matching, Bridged
  <2>2. Copy(NoRow, h)
    BY DEF Copy, NoRow
  <2>3. \A y \in rows : Copy(y, h)
    BY DEF World
  <2> QED BY <2>1, <2>2, <2>3
<1>6. Numbered(q, h)
  BY <1>3, <1>5 DEF Fit, Numbered, Same5
<1>7. Straight(q)
  BY <1>2, <1>3, <1>4 DEF Fit, Straight, Looking
<1>8. ASSUME r.ret \in {"relook", "redirect", "persist"} PROVE x \in Matching(r.key) /\ Of(x, r.key[1])
  <2>1. r.cl \in 1..Len(client) /\ InHand(r, client[r.cl]) /\ Client(client[r.cl], h)
    BY <1>2, <1>8 DEF Fit, SlackIn, World
  <2>2. PICK c : c = client[r.cl]
    OBVIOUS
  <2>3. Client(c, h) /\ Leads(r.key, c)
    BY <1>2, <1>8, <2>1, <2>2 DEF InHand, Locked, Keeping, Looking, Leads
  <2>4. Matching(r.key) # {} /\ r.key[2] = "slack"
    BY <2>3, RowThere
  <2>5. x \in Matching(r.key)
    BY <2>4 DEF Answers
  <2> QED BY <2>4, <2>5 DEF Matching, Of
<1>9. ASSUME Place(q) \in SlackIn \cup Storing PROVE q.cl \in 1..Len(client) /\ InHand(q, client[q.cl])
  <2>1. r.cl \in 1..Len(client) /\ InHand(r, client[r.cl])
    BY <1>2, <1>4, <1>9 DEF Fit
  <2> QED BY <1>2, <1>3, <1>4, <1>8, <2>1 DEF InHand, Same5, Looking, Storing
<1> QED BY <1>1, <1>2, <1>3, <1>6, <1>7, <1>8, <1>9 DEF Fit

\* The parts of a key.
LEMMA Firsts == ASSUME NEW k, NEW w, k = <<w, "slack">> PROVE k[1] = w /\ k[2] = "slack"
  OBVIOUS

\* What was read is put into the cache, and the request goes on with it.
LEMMA StoreGoes ==
  ASSUME NEW h, World(h), NEW j \in Jobs, DOMAIN job = Jobs, NEW r, r = job[j], Fit(r, h), Knows(r), NEW q, q = job'[j], StoreRecord(j)
  PROVE  Fit(q, h) /\ Same5(q, r) /\ r.pc = "storing" /\ q.pc = r.ret /\ Place(q) = Place(r) /\ q.rec = r.rec /\ q.new = r.new
<1>1. q = [r EXCEPT !.pc = r.ret] /\ r.pc = "storing" /\ Place(r) = r.ret
  BY DEF StoreRecord, Goto, At, Place, Looking
<1>2. /\ Same5(q, r) /\ q.pc = r.ret /\ q.key = r.key /\ q.new = r.new /\ q.rec = r.rec /\ q.src = r.src
      /\ q.todo = r.todo /\ q.goal = r.goal
  BY <1>1 DEF Knows, Same5, Fields
<1>3. r.ret \notin Looking /\ r.ret \in {"source", "pivot", "relook", "redirect", "persist"}
  BY <1>1 DEF Fit, Straight, Looking
<1>4. Place(q) = r.ret
  BY <1>2, <1>3 DEF Place
<1>5. Numbered(q, h) /\ Straight(q)
  BY <1>1, <1>2, <1>3, <1>4 DEF Fit, Numbered, Straight, Same5
<1>6. ASSUME Place(q) \in SlackIn \cup Storing PROVE q.cl \in 1..Len(client) /\ InHand(q, client[q.cl])
  <2>1. r.cl \in 1..Len(client) /\ InHand(r, client[r.cl])
    BY <1>1, <1>4, <1>6 DEF Fit
  <2>2. PICK c : c = client[r.cl]
    OBVIOUS
  <2>3. /\ r.ret \in {"relook", "redirect", "persist"} => Of(r.rec, r.key[1])
        /\ r.ret = "relook" => r.key = <<Identity(c), "slack">>
        /\ r.ret = "redirect" => r.key = <<c.ws, "slack">>
        /\ r.ret = "persist" => c.link # "" /\ r.key = <<c.link, "slack">>
        /\ Place(r) \in Locked \cup Keeping => c.n > 0
    BY <1>1, <2>1, <2>2 DEF InHand, Looking
  <2>4. /\ r.ret = "relook" => Of(r.rec, Identity(c))
        /\ r.ret = "redirect" => Of(r.rec, c.ws)
        /\ r.ret = "persist" => Of(r.rec, Identity(c))
    BY <2>3, Firsts DEF Identity
  <2>6. InHand(q, c)
    BY <1>1, <1>2, <1>3, <1>4, <2>3, <2>4 DEF InHand, Looking, Storing
  <2> QED BY <1>2, <2>1, <2>2, <2>6 DEF Same5
<1> QED BY <1>1, <1>2, <1>3, <1>4, <1>5, <1>6 DEF Fit

\* The row of the record is replaced.
LEMMA WriteGoes ==
  ASSUME NEW h, World(h), NEW j \in Jobs, DOMAIN job = Jobs, NEW r, r = job[j], Fit(r, h), Knows(r), NEW q, q = job'[j], WriteRow(j)
  PROVE  /\ Fit(q, h) /\ Same5(q, r) /\ r.pc = "writing" /\ q.pc = "forgetting" /\ q.new = r.new /\ q.rec = r.rec
         /\ rows' = {y \in rows : y.id # r.new.id} \cup {r.new}
<1>1. r.pc = "writing" /\ Place(r) = "writing"
  BY DEF WriteRow, At, Place, Looking
<1>2. r.cl \in 1..Len(client) /\ InHand(r, client[r.cl]) /\ Numbered(r, h)
  BY <1>1 DEF Fit, Storing
<1>3. r.new.prov = "slack" /\ r.new.ws = Identity(client[r.cl])
  BY <1>1, <1>2 DEF InHand, Storing, Of
<1>4. r.new.id # <<>>
  <2>1. PICK y \in rows : Same(r.new, y)
    BY <1>2, <1>3 DEF Numbered, Copy
  <2> QED BY <2>1 DEF Same, World, Single
<1>5. WithId(j, r.new) = r.new
  BY <1>4 DEF WithId
<1>6. /\ rows' = {y \in rows : y.id # r.new.id} \cup {r.new}
      /\ q = [r EXCEPT !.pc = "forgetting", !.new = r.new, !.key = <<r.new.ws, r.new.prov>>]
  BY <1>5 DEF WriteRow, Goto
<1>7. /\ Same5(q, r) /\ q.pc = "forgetting" /\ q.key = <<r.new.ws, "slack">> /\ q.new = r.new /\ q.rec = r.rec /\ q.src = r.src
      /\ q.todo = r.todo /\ q.goal = r.goal
  <2>1. DOMAIN r = Fields
    BY DEF Knows
  <2>2. PICK k : k = <<r.new.ws, r.new.prov>>
    OBVIOUS
  <2>3. q = [r EXCEPT !.pc = "forgetting", !.new = r.new, !.key = k]
    BY <1>6, <2>2
  <2>4. /\ Same5(q, r) /\ q.pc = "forgetting" /\ q.key = k /\ q.new = r.new /\ q.rec = r.rec /\ q.src = r.src
        /\ q.todo = r.todo /\ q.goal = r.goal
    BY <2>1, <2>3 DEF Same5, Fields
  <2> QED BY <1>3, <2>2, <2>4
<1>8. Place(q) = "forgetting"
  BY <1>7 DEF Place, Looking
<1>9. Numbered(q, h) /\ Straight(q)
  <2>1. Numbered(q, h)
    BY <1>2, <1>7 DEF Numbered, Same5
  <2>2. r.todo = <<"call", "end">>
    BY <1>1 DEF Fit, Straight, Storing
  <2>3. Straight(q)
    BY <1>7, <1>8, <2>2 DEF Straight, Storing, Looking, SlackIn, Resolving
  <2> QED BY <2>1, <2>3
<1>10. InHand(q, client[q.cl])
  BY <1>1, <1>2, <1>3, <1>7, <1>8 DEF InHand, Looking, Storing, Keeping, Locked, Of, Same5
<1> QED BY <1>1, <1>2, <1>6, <1>7, <1>9, <1>10 DEF Fit, Same5

\* The cache forgets the record; the request has no pair in hand any more.
LEMMA ForgetGoes ==
  ASSUME NEW h, World(h), NEW j \in Jobs, DOMAIN job = Jobs, NEW r, r = job[j], Fit(r, h), Knows(r), NEW q, q = job'[j], Forget(j)
  PROVE  /\ Fit(q, h) /\ q.p = r.p /\ q.kind = r.kind /\ q.cl = r.cl /\ q.got = 0 /\ q.spend = r.spend /\ q.pc = "call"
         /\ r.pc = "forgetting" /\ q.rec = NoRow /\ q.new = NoRow
<1>1. r.pc = "forgetting" /\ Place(r) = "forgetting"
  BY DEF Forget, At, Place, Looking
<1>2. r.cl \in 1..Len(client) /\ InHand(r, client[r.cl]) /\ Numbered(r, h) /\ r.todo = <<"call", "end">>
  BY <1>1 DEF Fit, Storing, Straight
<1>3. r.new.prov = "slack" /\ r.new.n = r.got
  BY <1>1, <1>2 DEF InHand, Storing, Of
<1>4. q = [Return(r, TRUE) EXCEPT !.got = IF r.new.prov = "slack" /\ r.new.n = @ THEN 0 ELSE @]
  BY DEF Forget, Goto
<1>5. Head(r.todo) = "call" /\ Tail(r.todo) = <<"end">>
  BY <1>2
<1>6. /\ q.p = r.p /\ q.kind = r.kind /\ q.cl = r.cl /\ q.got = 0 /\ q.spend = r.spend /\ q.pc = "call" /\ q.todo = <<"end">>
      /\ q.rec = NoRow /\ q.new = NoRow /\ q.src = r.src /\ q.goal = r.goal
  BY <1>3, <1>4, <1>5 DEF Knows, Fields, Return
<1>7. Place(q) = "call"
  BY <1>6 DEF Place, Looking
<1>8. Copy(NoRow, h) /\ 0 \in 0..h
  BY DEF Copy, NoRow, World
<1>9. Numbered(q, h) /\ Straight(q)
  BY <1>2, <1>6, <1>7, <1>8 DEF Numbered, Straight, Looking, SlackIn, Resolving, Storing
<1>10. InHand(q, client[q.cl])
  BY <1>6, <1>7 DEF InHand, Looking, Storing, Keeping, Locked
<1> QED BY <1>1, <1>2, <1>6, <1>9, <1>10 DEF Fit

\* A request that goes on without a client, or with one.
LEMMA Early ==
  ASSUME NEW h, World(h), NEW q, Numbered(q, h), q.pc \notin Looking \/ q.ret \in {"source", "pivot"},
         q.pc = "bind" => q.rec.prov = "slack",
         \/ Place(q) \in {"slackcall", "source"} /\ q.todo = <<>>
         \/ Place(q) \in {"end"} \cup Ends
         \/ Place(q) \in Resolving /\ q.todo = <<"end">> /\ q.goal = "check"
  PROVE  Fit(q, h)
<1>1. Place(q) \notin SlackIn \cup Storing
  BY DEF SlackIn, Storing, Ends, Resolving
<1>2. Straight(q)
  BY DEF Straight, Ends, Resolving, SlackIn, Storing
<1> QED BY <1>1, <1>2 DEF Fit

\* A client for the record: one that is there, or one to be made.
LEMMA ResolveGoes ==
  ASSUME NEW h, World(h), HandlesTyped, NEW j \in Jobs, DOMAIN job = Jobs, NEW r, r = job[j], Fit(r, h), Knows(r), NEW q, q = job'[j],
         Resolve(j)
  PROVE  /\ Fit(q, h) /\ q.p = r.p /\ q.kind = r.kind /\ q.got = r.got /\ q.spend = r.spend
         /\ r.pc = "slack" /\ Place(q) \in {"check", "pivot", "bind"} /\ q.new = r.new
         /\ q.pc \notin Looking \/ q.pc = "reading"
<1>1. r.pc = "slack" /\ Place(r) = "slack"
  BY DEF Resolve, At, Place, Looking
<1>2. r.todo = <<"end">> /\ r.goal = "check" /\ Numbered(r, h)
  BY <1>1 DEF Fit, Straight, Resolving
<1>3. DOMAIN r = Fields /\ r.p \in Processes /\ \A p \in Processes : \A i \in Keys : Fits(cache[p][i], i)
  BY DEF Knows
<1>4. r.src.ws \in Spaces /\ r.src.link \in Names
  BY <1>1 DEF Knows, Resolving
<1>a. CASE \E c \in 1..Len(client) : q = [r EXCEPT !.cl = c, !.pc = "check"]
  <2>1. PICK c \in 1..Len(client) : q = [r EXCEPT !.cl = c, !.pc = "check"]
    BY <1>a
  <2>2. /\ q.p = r.p /\ q.kind = r.kind /\ q.got = r.got /\ q.spend = r.spend /\ q.cl = c /\ q.pc = "check" /\ q.new = r.new
        /\ q.todo = r.todo /\ q.src = r.src /\ q.rec = r.rec
    BY <1>3, <2>1 DEF Fields
  <2>3. Place(q) = "check"
    BY <2>2 DEF Place, Looking
  <2>4. Numbered(q, h)
    BY <1>2, <2>2 DEF Numbered
  <2>5. Straight(q) /\ InHand(q, client[q.cl])
    BY <1>2, <2>2, <2>3 DEF Straight, InHand, SlackIn, Resolving, Storing, Looking, Locked, Keeping
  <2> QED BY <1>1, <2>2, <2>3, <2>4, <2>5 DEF Fit, Looking
<1>b. CASE \E k \in Keys : q = Lookup(r, k, "pivot")
  <2>1. PICK k \in Keys : q = Lookup(r, k, "pivot")
    BY <1>b
  <2>2. /\ Numbered(q, h) /\ Place(q) = "pivot" /\ q.todo = r.todo /\ q.goal = r.goal /\ q.got = r.got /\ q.new = r.new
        /\ q.spend = r.spend /\ q.p = r.p /\ q.kind = r.kind /\ (q.pc = "pivot" \/ (q.pc = "reading" /\ q.ret = "pivot"))
    BY <1>2, <1>3, <2>1, LookFinds DEF Looking
  <2>3. Fit(q, h)
    BY <1>2, <2>2, Early DEF Resolving, Looking
  <2> QED BY <1>1, <2>2, <2>3 DEF Looking
<1>c. CASE r.src.prov = "slack" /\ q = [r EXCEPT !.rec = r.src, !.pc = "bind"]
  <2>1. /\ q.p = r.p /\ q.kind = r.kind /\ q.got = r.got /\ q.spend = r.spend /\ q.pc = "bind" /\ q.new = r.new
        /\ q.todo = r.todo /\ q.goal = r.goal /\ q.src = r.src /\ q.rec = r.src
    BY <1>3, <1>c DEF Fields
  <2>2. Place(q) = "bind" /\ Numbered(q, h)
    BY <1>2, <2>1 DEF Place, Looking, Numbered
  <2>3. Fit(q, h)
    BY <1>2, <1>c, <2>1, <2>2, Early DEF Resolving, Looking
  <2> QED BY <1>1, <2>1, <2>2, <2>3 DEF Looking
<1>5. \/ \E e \in handle[r.p] : q = [r EXCEPT !.cl = e.c, !.pc = r.goal]
      \/ r.src.link # "" /\ q = Lookup(r, <<r.src.link, "slack">>, "pivot")
      \/ q = Lookup(r, <<r.src.ws, "slack">>, "pivot")
      \/ r.src.prov = "slack" /\ q = [r EXCEPT !.rec = r.src, !.pc = "bind"]
  <2> DEFINE hit == Cached(r.p, "source", r.src.id)
  <2>1. q = IF hit # {} THEN [r EXCEPT !.cl = (CHOOSE e \in hit : TRUE).c, !.pc = r.goal]
             ELSE IF ~HasToken(r.src) /\ r.src.link # "" THEN Lookup(r, <<r.src.link, "slack">>, "pivot")
             ELSE IF r.src.prov = "hubspot" THEN Lookup(r, <<r.src.ws, "slack">>, "pivot")
             ELSE [r EXCEPT !.rec = r.src, !.pc = "bind"]
    BY DEF Resolve, Goto
  <2>2. hit # {} => (CHOOSE e \in hit : TRUE) \in handle[r.p]
    BY DEF Cached
  <2>3. r.src.prov # "hubspot" => r.src.prov = "slack"
    BY <1>1 DEF Knows, Resolving, Provs
  <2> QED BY <2>1, <2>2, <2>3
<1>6. \A e \in handle[r.p] : e.c \in 1..Len(client)
  BY <1>3 DEF HandlesTyped
<1>7. /\ <<r.src.ws, "slack">> \in Keys
      /\ r.src.link # "" => <<r.src.link, "slack">> \in Keys
  BY <1>4 DEF Keys, Names, Spaces
<1> QED BY <1>2, <1>5, <1>6, <1>7, <1>a, <1>b, <1>c

\* A linked record hands the request on to the one that is not.
LEMMA PivotGoes ==
  ASSUME NEW h, World(h), NEW j \in Jobs, DOMAIN job = Jobs, NEW r, r = job[j], Fit(r, h), Knows(r), NEW q, q = job'[j], Pivot(j)
  PROVE  /\ Fit(q, h) /\ Same5(q, r) /\ r.pc = "pivot" /\ q.pc \in {"bind", "end"} /\ q.new \in {r.new, NoRow}
<1>1. r.pc = "pivot" /\ Place(r) = "pivot"
  BY DEF Pivot, At, Place, Looking
<1>2. r.todo = <<"end">> /\ r.goal = "check" /\ Numbered(r, h)
  BY <1>1 DEF Fit, Straight, Resolving
<1>3. DOMAIN r = Fields
  BY DEF Knows
<1>4. Copy(NoRow, h)
  BY DEF Copy, NoRow
<1>5. \/ \E x \in {r.rec, r.src} : x.prov = "slack" /\ q = [r EXCEPT !.rec = x, !.pc = "bind"]
      \/ q = Return(r, FALSE)
  <2>1. q = IF HasToken(r.rec) THEN [r EXCEPT !.pc = "bind"]
             ELSE IF r.src.prov = "hubspot" THEN Return(r, FALSE)
             ELSE [r EXCEPT !.rec = r.src, !.pc = "bind"]
    BY DEF Pivot, Goto
  <2>2. [r EXCEPT !.pc = "bind"] = [r EXCEPT !.rec = r.rec, !.pc = "bind"]
    BY <1>3 DEF Fields
  <2>3. r.src.prov # "hubspot" => r.src.prov = "slack"
    BY <1>1 DEF Knows, Resolving, Provs
  <2>4. HasToken(r.rec) => r.rec.prov = "slack"
    BY DEF HasToken
  <2> QED BY <2>1, <2>2, <2>3, <2>4
<1>6. CASE \E x \in {r.rec, r.src} : x.prov = "slack" /\ q = [r EXCEPT !.rec = x, !.pc = "bind"]
  <2>1. PICK x \in {r.rec, r.src} : x.prov = "slack" /\ q = [r EXCEPT !.rec = x, !.pc = "bind"]
    BY <1>6
  <2>2. /\ Same5(q, r) /\ q.pc = "bind" /\ q.new = r.new /\ q.todo = r.todo /\ q.goal = r.goal /\ q.src = r.src /\ q.rec = x
    BY <1>3, <2>1 DEF Fields, Same5
  <2>3. Place(q) = "bind" /\ Numbered(q, h)
    BY <1>2, <2>2 DEF Place, Looking, Numbered, Same5
  <2>4. Fit(q, h)
    BY <1>2, <2>1, <2>2, <2>3, Early DEF Resolving, Looking
  <2> QED BY <1>1, <2>2, <2>4
<1>7. CASE q = Return(r, FALSE)
  <2>1. Head(r.todo) = "end"
    BY <1>2
  <2>2. /\ Same5(q, r) /\ q.pc = "end" /\ q.new = NoRow /\ q.src = r.src /\ q.rec = NoRow
    BY <1>3, <1>7, <2>1 DEF Fields, Same5, Return
  <2>3. Place(q) = "end" /\ Numbered(q, h)
    BY <1>2, <1>4, <2>2 DEF Place, Looking, Numbered, Same5
  <2>4. Fit(q, h)
    BY <2>2, <2>3, Early DEF Looking
  <2> QED BY <1>1, <2>2, <2>4
<1> QED BY <1>5, <1>6, <1>7

\* Only a pair that is near its end is rotated.
LEMMA CheckGoes ==
  ASSUME NEW h, World(h), NEW j \in Jobs, DOMAIN job = Jobs, NEW r, r = job[j], Fit(r, h), Knows(r), NEW q, q = job'[j], Check(j)
  PROVE  /\ Fit(q, h) /\ Same5(q, r) /\ r.pc = "check" /\ q.pc \in {"rotate", "call"} /\ q.new = r.new
         /\ q.pc = "rotate" => Near(client[r.cl].n) /\ client[r.cl].rt = client[r.cl].n
<1>1. r.pc = "check" /\ Place(r) = "check"
  BY DEF Check, At, Place, Looking
<1>2. r.todo = <<"end">> /\ Numbered(r, h) /\ r.cl \in 1..Len(client) /\ Client(client[r.cl], h)
  BY <1>1 DEF Fit, Straight, SlackIn, World
<1>3. DOMAIN r = Fields
  BY DEF Knows
<1>4. PICK c : c = client[r.cl]
  OBVIOUS
<1>5. q = [r EXCEPT !.pc = IF c.rt # 0 /\ Near(c.n) THEN "rotate" ELSE "call"]
  BY <1>4 DEF Check, Goto, TheClient
<1>6. /\ Same5(q, r) /\ q.new = r.new /\ q.todo = r.todo /\ q.src = r.src /\ q.rec = r.rec
      /\ q.pc = IF c.rt # 0 /\ Near(c.n) THEN "rotate" ELSE "call"
  BY <1>3, <1>5 DEF Fields, Same5
<1>7. q.pc = "rotate" => Near(c.n) /\ c.rt = c.n /\ c.n > 0
  BY <1>2, <1>4, <1>6 DEF Client, World
<1>8. q.pc \in {"rotate", "call"} /\ Place(q) = q.pc
  BY <1>6 DEF Place, Looking
<1>9. Numbered(q, h)
  BY <1>2, <1>6 DEF Numbered, Same5
<1>10. Straight(q)
  BY <1>2, <1>6, <1>8 DEF Straight, SlackIn, Resolving, Storing, Looking
<1>11. InHand(q, c)
  BY <1>7, <1>8 DEF InHand, Looking, Storing, Locked, Keeping
<1> QED BY <1>1, <1>2, <1>4, <1>6, <1>7, <1>8, <1>9, <1>10, <1>11 DEF Fit, Same5

\* Where a request of client c stands once it has looked a record up there.
LEMMA LookFit ==
  ASSUME NEW h, World(h), NEW r, Numbered(r, h), r.todo = <<"end">>, r.cl \in 1..Len(client), NEW c, c = client[r.cl],
         c.n > 0, NEW l, NEW w,
         \/ l = "relook" /\ w = Identity(c)
         \/ l = "redirect" /\ w = c.ws
         \/ l = "persist" /\ c.link # "" /\ w = c.link,
         NEW k, k = <<w, "slack">>,
         NEW q, Numbered(q, h), Place(q) = l, q.todo = r.todo, q.cl = r.cl, q.key = k,
         \/ q.pc = l /\ Of(q.rec, w)
         \/ q.pc = "reading" /\ q.ret = l
  PROVE  Fit(q, h)
<1>1. Straight(q)
  BY DEF Straight, Looking, SlackIn, Resolving, Storing
<1>2. l = "persist" => Identity(c) = w
  BY DEF Identity
<1>3. InHand(q, c)
  BY <1>2 DEF InHand, Looking, Storing, Locked, Keeping
<1> QED BY <1>1, <1>3 DEF Fit

\* The lock of an identity is taken when it is free, and the record is looked
\* up once more.
LEMMA TakeGoes ==
  ASSUME NEW h, World(h), Sound, NEW j \in Jobs, DOMAIN job = Jobs, NEW r, r = job[j], Fit(r, h), Knows(r), NEW q, q = job'[j], TakeLock(j)
  PROVE  /\ Fit(q, h) /\ Same5(q, r) /\ r.pc = "rotate" /\ Place(q) = "relook" /\ q.new = r.new
         /\ r.cl \in 1..Len(client) /\ q.key = <<Identity(client[r.cl]), "slack">> /\ q.key \in Keys
         /\ \/ q.pc = "relook" /\ q.rec = cache[r.p][q.key] /\ q.rec # NoRow
            \/ q.pc = "reading" /\ q.ret = "relook"
         /\ Identity(client[r.cl]) \notin lock[r.p]
         /\ lock' = [lock EXCEPT ![r.p] = @ \cup {Identity(client[r.cl])}]
<1>1. r.pc = "rotate" /\ Place(r) = "rotate"
  BY DEF TakeLock, At, Place, Looking
<1>2. r.todo = <<"end">> /\ Numbered(r, h) /\ r.cl \in 1..Len(client) /\ InHand(r, client[r.cl])
  BY <1>1 DEF Fit, Straight, SlackIn
<1>3. DOMAIN r = Fields /\ r.p \in Processes /\ \A p \in Processes : \A i \in Keys : Fits(cache[p][i], i)
  BY DEF Knows
<1>4. PICK c, w, k : c = client[r.cl] /\ w = Identity(c) /\ k = <<w, "slack">>
  OBVIOUS
<1>5. w \in Spaces /\ c.n > 0
  BY <1>1, <1>2, <1>4, Named DEF InHand
<1>6. k \in Keys /\ k[1] = w /\ k[2] = "slack"
  BY <1>4, <1>5 DEF Keys, Spaces
<1>7. q = Lookup(r, k, "relook")
  BY <1>4 DEF TakeLock, Goto, TheClient
<1>8. /\ Numbered(q, h) /\ Place(q) = "relook" /\ q.todo = r.todo /\ q.cl = r.cl /\ q.goal = r.goal /\ q.key = k
      /\ q.got = r.got /\ q.new = r.new /\ q.spend = r.spend /\ q.p = r.p /\ q.kind = r.kind
      /\ \/ q.pc = "relook" /\ q.rec = cache[r.p][k] /\ q.rec # NoRow /\ Of(q.rec, w)
         \/ q.pc = "reading" /\ q.ret = "relook"
  BY <1>2, <1>3, <1>6, <1>7, LookFinds DEF Looking
<1>9. Fit(q, h)
  <2>1. PICK l : l = "relook"
    OBVIOUS
  <2>2. Place(q) = l /\ ((q.pc = l /\ Of(q.rec, w)) \/ (q.pc = "reading" /\ q.ret = l))
    BY <1>8, <2>1
  <2>3. q.todo = r.todo /\ q.cl = r.cl /\ q.key = k /\ Numbered(q, h)
    BY <1>8
  <2> QED BY <1>2, <1>4, <1>5, <2>1, <2>2, <2>3, LookFit
<1>10. w \notin lock[r.p] /\ lock' = [lock EXCEPT ![r.p] = @ \cup {w}]
  BY <1>4 DEF TakeLock, TheClient
<1> QED BY <1>1, <1>2, <1>4, <1>6, <1>8, <1>9, <1>10 DEF Same5

\* A record with a pair that is not due gives it away; else the client's is
\* spent.
LEMMA RelookGoes ==
  ASSUME NEW h, World(h), NEW j \in Jobs, DOMAIN job = Jobs, NEW r, r = job[j], Fit(r, h), Knows(r), NEW q, q = job'[j], Relook(j)
  PROVE  /\ Fit(q, h) /\ q.p = r.p /\ q.kind = r.kind /\ q.cl = r.cl /\ r.pc = "relook" /\ q.new = r.new /\ q.rec = r.rec
         /\ r.rec.prov = "slack" /\ r.cl \in 1..Len(client)
         /\ \/ q.pc = "answer" /\ q.got = r.rec.n /\ q.got > slack.due /\ q.spend = r.spend
            \/ q.pc = "refresh" /\ q.spend = client[r.cl].rt /\ q.got = r.got /\ (r.rec.n = 0 \/ Near(r.rec.n))
<1>1. r.pc = "relook" /\ Place(r) = "relook"
  BY DEF Relook, At, Place, Looking
<1>2. r.todo = <<"end">> /\ Numbered(r, h) /\ r.cl \in 1..Len(client) /\ InHand(r, client[r.cl]) /\ Client(client[r.cl], h)
  BY <1>1 DEF Fit, Straight, SlackIn, World
<1>3. DOMAIN r = Fields
  BY DEF Knows
<1>4. PICK c, x : c = client[r.cl] /\ x = r.rec
  OBVIOUS
<1>5. x.prov = "slack" /\ x # NoRow /\ x.n \in 0..h /\ c.n > 0
  <2>1. x.prov = "slack" /\ c.n > 0
    BY <1>1, <1>2, <1>4 DEF InHand, Of, Locked
  <2>2. NoRow.prov = ""
    BY DEF NoRow
  <2> QED BY <1>2, <1>4, <2>1, <2>2 DEF Numbered, Copy
<1>6. CASE x.n > 0 /\ ~Near(x.n)
  <2>1. q = [r EXCEPT !.got = x.n, !.pc = "answer"]
    BY <1>4, <1>5, <1>6 DEF Relook, Goto
  <2>2. /\ q.p = r.p /\ q.kind = r.kind /\ q.cl = r.cl /\ q.spend = r.spend /\ q.new = r.new /\ q.rec = r.rec /\ q.src = r.src
        /\ q.todo = r.todo /\ q.got = x.n /\ q.pc = "answer"
    BY <1>3, <2>1 DEF Fields
  <2>3. Place(q) = "answer" /\ Numbered(q, h) /\ q.got > slack.due
    BY <1>2, <1>5, <1>6, <2>2 DEF Place, Looking, Numbered, Near, World
  <2>4. Straight(q) /\ InHand(q, c)
    BY <1>2, <1>5, <2>2, <2>3 DEF Straight, InHand, Looking, SlackIn, Resolving, Storing
  <2> QED BY <1>1, <1>2, <1>4, <1>5, <2>2, <2>3, <2>4 DEF Fit
<1>7. CASE ~(x.n > 0 /\ ~Near(x.n))
  <2>1. q = [r EXCEPT !.spend = c.rt, !.pc = "refresh"]
    BY <1>4, <1>5, <1>7 DEF Relook, Goto, TheClient
  <2>2. /\ q.p = r.p /\ q.kind = r.kind /\ q.cl = r.cl /\ q.got = r.got /\ q.new = r.new /\ q.rec = r.rec /\ q.src = r.src
        /\ q.todo = r.todo /\ q.spend = c.rt /\ q.pc = "refresh"
    BY <1>3, <2>1 DEF Fields
  <2>3. c.rt \in 0..h
    BY <1>2, <1>4 DEF Client, World
  <2>4. Place(q) = "refresh" /\ Numbered(q, h) /\ (x.n = 0 \/ Near(x.n))
    BY <1>2, <1>5, <1>7, <2>2, <2>3 DEF Place, Looking, Numbered
  <2>5. Straight(q) /\ InHand(q, c)
    BY <1>2, <1>5, <2>2, <2>4 DEF Straight, InHand, Looking, SlackIn, Resolving, Storing
  <2> QED BY <1>1, <1>2, <1>4, <1>5, <2>2, <2>4, <2>5 DEF Fit
<1> QED BY <1>6, <1>7

\* An answer releases the lock, and a pair is taken to its record.
LEMMA AnswerGoes ==
  ASSUME NEW h, World(h), Sound, NEW j \in Jobs, DOMAIN job = Jobs, NEW r, r = job[j], Fit(r, h), Knows(r), NEW q, q = job'[j], TakeAnswer(j)
  PROVE  /\ Fit(q, h) /\ Same5(q, r) /\ r.pc = "answer" /\ r.cl \in 1..Len(client) /\ q.new = r.new
         /\ \/ r.got = 0 /\ q.pc = "call"
            \/ /\ r.got # 0 /\ Place(q) = "redirect"
               /\ q.pc = "reading" \/ (q.pc = "redirect" /\ \E k \in Keys : q.rec = cache[r.p][k])
         /\ lock' = [lock EXCEPT ![r.p] = @ \ {Identity(client[r.cl])}]
<1>1. r.pc = "answer" /\ Place(r) = "answer"
  BY DEF TakeAnswer, At, Place, Looking
<1>2. r.todo = <<"end">> /\ Numbered(r, h) /\ r.cl \in 1..Len(client) /\ InHand(r, client[r.cl])
  BY <1>1 DEF Fit, Straight, SlackIn
<1>3. DOMAIN r = Fields /\ r.p \in Processes /\ \A p \in Processes : \A i \in Keys : Fits(cache[p][i], i)
  BY DEF Knows
<1>4. PICK c, w, k : c = client[r.cl] /\ w = c.ws /\ k = <<w, "slack">>
  OBVIOUS
<1>5. w \in Spaces /\ c.n > 0
  BY <1>1, <1>2, <1>4, Named DEF InHand, Locked
<1>6. k \in Keys /\ k[1] = w /\ k[2] = "slack"
  BY <1>4, <1>5 DEF Keys, Spaces
<1>7. lock' = [lock EXCEPT ![r.p] = @ \ {Identity(client[r.cl])}]
  BY DEF TakeAnswer, Released, TheClient
<1>8. CASE r.got = 0
  <2>1. q = [r EXCEPT !.pc = "call"] /\ client' = [client EXCEPT ![r.cl] = [@ EXCEPT !.rt = 0]]
    BY <1>8 DEF TakeAnswer, Goto
  <2>2. /\ Same5(q, r) /\ q.new = r.new /\ q.rec = r.rec /\ q.src = r.src /\ q.todo = r.todo /\ q.pc = "call"
    BY <1>3, <2>1 DEF Fields, Same5
  <2>3. Place(q) = "call" /\ Numbered(q, h)
    BY <1>2, <2>2 DEF Place, Looking, Numbered, Same5
  <2>4. Straight(q) /\ InHand(q, c)
    BY <1>2, <2>2, <2>3 DEF Straight, InHand, Looking, SlackIn, Resolving, Storing, Locked, Keeping
  <2> QED BY <1>1, <1>2, <1>4, <1>7, <1>8, <2>1, <2>2, <2>3, <2>4 DEF Fit, Same5
<1>9. CASE r.got # 0
  <2>1. q = Lookup(r, k, "redirect") /\ client' = [client EXCEPT ![r.cl] = [@ EXCEPT !.n = r.got, !.rt = r.got]]
    BY <1>4, <1>9 DEF TakeAnswer, Goto, TheClient
  <2>2. /\ Numbered(q, h) /\ Place(q) = "redirect" /\ q.todo = r.todo /\ q.cl = r.cl /\ q.goal = r.goal /\ q.key = k
        /\ q.got = r.got /\ q.new = r.new /\ q.spend = r.spend /\ q.p = r.p /\ q.kind = r.kind
        /\ \/ q.pc = "redirect" /\ q.rec = cache[r.p][k] /\ q.rec # NoRow /\ Of(q.rec, w)
           \/ q.pc = "reading" /\ q.ret = "redirect"
    BY <1>2, <1>3, <1>6, <2>1, LookFinds DEF Looking
  <2>3. Fit(q, h)
    <3>1. PICK l : l = "redirect"
      OBVIOUS
    <3>2. Place(q) = l /\ ((q.pc = l /\ Of(q.rec, w)) \/ (q.pc = "reading" /\ q.ret = l))
      BY <2>2, <3>1
    <3>3. q.todo = r.todo /\ q.cl = r.cl /\ q.key = k /\ Numbered(q, h)
      BY <2>2
    <3> QED BY <1>2, <1>4, <1>5, <3>1, <3>2, <3>3, LookFit
  <2> QED BY <1>1, <1>2, <1>6, <1>7, <1>9, <2>1, <2>2, <2>3 DEF Same5
<1> QED BY <1>8, <1>9

\* Slack answers with the next pair, or refuses, or its answer is lost.
LEMMA RotateGoes ==
  ASSUME NEW h, World(h), NEW j \in Jobs, DOMAIN job = Jobs, NEW r, r = job[j], Fit(r, h), Knows(r), NEW q, q = job'[j], SlackRotates(j)
  PROVE  /\ q.p = r.p /\ q.kind = r.kind /\ q.cl = r.cl /\ q.spend = r.spend /\ q.new = r.new /\ q.rec = r.rec /\ q.src = r.src
         /\ r.pc = "refresh" /\ r.cl \in 1..Len(client) /\ Straight(q) /\ InHand(q, client[r.cl])
         /\ \/ q.pc = "answer" /\ q.got = IF r.spend = slack.gen /\ slack.gen > slack.void THEN slack.gen + 1 ELSE 0
            \/ q.pc = "lost" /\ q.got = r.got /\ "answer" \in faults'
         /\ slack' = IF r.spend = slack.gen /\ slack.gen > slack.void THEN [slack EXCEPT !.gen = @ + 1] ELSE slack
<1>1. r.pc = "refresh" /\ Place(r) = "refresh"
  BY DEF SlackRotates, At, Place, Looking
<1>2. r.todo = <<"end">> /\ Numbered(r, h) /\ r.cl \in 1..Len(client) /\ InHand(r, client[r.cl])
  BY <1>1 DEF Fit, Straight, SlackIn
<1>3. DOMAIN r = Fields
  BY DEF Knows
<1>4. PICK c, g : c = client[r.cl] /\ g = IF r.spend = slack.gen /\ slack.gen > slack.void THEN slack.gen + 1 ELSE 0
  OBVIOUS
<1>5. c.n > 0
  BY <1>1, <1>2, <1>4 DEF InHand, Locked
<1>6. /\ \/ q = [r EXCEPT !.got = g, !.pc = "answer"]
         \/ q = [r EXCEPT !.pc = "lost"] /\ "answer" \in faults'
      /\ slack' = IF r.spend = slack.gen /\ slack.gen > slack.void THEN [slack EXCEPT !.gen = @ + 1] ELSE slack
  BY <1>4 DEF SlackRotates, Goto
<1>7. /\ q.p = r.p /\ q.kind = r.kind /\ q.cl = r.cl /\ q.spend = r.spend /\ q.new = r.new /\ q.rec = r.rec /\ q.src = r.src
      /\ q.todo = r.todo
      /\ \/ q.pc = "answer" /\ q.got = g
         \/ q.pc = "lost" /\ q.got = r.got /\ "answer" \in faults'
  BY <1>3, <1>6 DEF Fields
<1>8. Place(q) \in {"answer", "lost"} /\ Place(q) = q.pc
  BY <1>7 DEF Place, Looking
<1>9. Straight(q) /\ InHand(q, c)
  BY <1>2, <1>5, <1>7, <1>8 DEF Straight, InHand, Looking, SlackIn, Resolving, Storing
<1> QED BY <1>1, <1>2, <1>4, <1>6, <1>7, <1>9

\* A lost answer ends the call and releases the lock.
LEMMA LoseGoes ==
  ASSUME NEW h, World(h), NEW j \in Jobs, DOMAIN job = Jobs, NEW r, r = job[j], Fit(r, h), Knows(r), NEW q, q = job'[j], LoseAnswer(j)
  PROVE  /\ Fit(q, h) /\ Same5(q, r) /\ r.pc = "lost" /\ q.pc = "end" /\ q.rec = NoRow /\ q.new = NoRow /\ r.cl \in 1..Len(client)
         /\ lock' = [lock EXCEPT ![r.p] = @ \ {Identity(client[r.cl])}]
<1>1. r.pc = "lost" /\ Place(r) = "lost"
  BY DEF LoseAnswer, At, Place, Looking
<1>2. r.todo = <<"end">> /\ Numbered(r, h) /\ r.cl \in 1..Len(client)
  BY <1>1 DEF Fit, Straight, SlackIn
<1>3. DOMAIN r = Fields
  BY DEF Knows
<1>4. Copy(NoRow, h) /\ Head(r.todo) = "end"
  BY <1>2 DEF Copy, NoRow
<1>5. q = Return(r, FALSE) /\ lock' = [lock EXCEPT ![r.p] = @ \ {Identity(client[r.cl])}]
  BY DEF LoseAnswer, Goto, Released, TheClient
<1>6. /\ Same5(q, r) /\ q.pc = "end" /\ q.new = NoRow /\ q.rec = NoRow /\ q.src = r.src
  BY <1>3, <1>4, <1>5 DEF Fields, Same5, Return
<1>7. Place(q) = "end" /\ Numbered(q, h)
  BY <1>2, <1>4, <1>6 DEF Place, Looking, Numbered, Same5
<1>8. Fit(q, h)
  BY <1>6, <1>7, Early DEF Looking
<1> QED BY <1>1, <1>2, <1>5, <1>6, <1>8

\* The pair goes to the record the request's is linked to.
LEMMA RedirectGoes ==
  ASSUME NEW h, World(h), NEW j \in Jobs, DOMAIN job = Jobs, NEW r, r = job[j], Fit(r, h), Knows(r), NEW q, q = job'[j], Redirect(j)
  PROVE  /\ Fit(q, h) /\ Same5(q, r) /\ r.pc = "redirect" /\ Place(q) = "persist" /\ q.new = r.new
         /\ q.pc = "reading" \/ (q.pc = "persist" /\ (q.rec = r.rec \/ \E k \in Keys : q.rec = cache[r.p][k]))
<1>1. r.pc = "redirect" /\ Place(r) = "redirect"
  BY DEF Redirect, At, Place, Looking
<1>2. r.todo = <<"end">> /\ Numbered(r, h) /\ r.cl \in 1..Len(client) /\ InHand(r, client[r.cl]) /\ Client(client[r.cl], h)
  BY <1>1 DEF Fit, Straight, SlackIn, World
<1>3. DOMAIN r = Fields /\ r.p \in Processes /\ (\A p \in Processes : \A i \in Keys : Fits(cache[p][i], i))
      /\ (r.rec # NoRow => r.rec.ws \in Spaces /\ r.rec.link \in Names)
  BY DEF Knows
<1>4. PICK c, x, w, k : c = client[r.cl] /\ x = r.rec /\ w = c.link /\ k = <<w, "slack">>
  OBVIOUS
<1>5. Of(x, c.ws) /\ c.n > 0 /\ Copy(x, h)
  BY <1>1, <1>2, <1>4 DEF InHand, Keeping, Numbered
<1>6. NoRow.prov = ""
  BY DEF NoRow
<1>7. x # NoRow /\ x.link = w
  <2>1. x.link = c.link
    <3>1. Client(c, h)
      BY <1>2, <1>4
    <3>2. \A u : Copy(u, h) /\ Of(u, c.ws) => u.link = c.link
      BY <3>1, RowThere
    <3> QED BY <1>5, <3>2
  <2> QED BY <1>4, <1>5, <1>6, <2>1 DEF Of
<1>8. CASE w # ""
  <2>1. q = Lookup(r, k, "persist")
    BY <1>4, <1>7, <1>8 DEF Redirect, Goto
  <2>2. k \in Keys /\ k[1] = w /\ k[2] = "slack"
    BY <1>3, <1>4, <1>7, <1>8 DEF Keys, Names, Spaces
  <2>3. /\ Numbered(q, h) /\ Place(q) = "persist" /\ q.todo = r.todo /\ q.cl = r.cl /\ q.goal = r.goal /\ q.key = k
        /\ q.got = r.got /\ q.new = r.new /\ q.spend = r.spend /\ q.p = r.p /\ q.kind = r.kind
        /\ \/ q.pc = "persist" /\ q.rec = cache[r.p][k] /\ q.rec # NoRow /\ Of(q.rec, w)
           \/ q.pc = "reading" /\ q.ret = "persist"
    BY <1>2, <1>3, <2>1, <2>2, LookFinds DEF Looking
  <2>4. Fit(q, h)
    <3>1. PICK l : l = "persist"
      OBVIOUS
    <3>2. Place(q) = l /\ ((q.pc = l /\ Of(q.rec, w)) \/ (q.pc = "reading" /\ q.ret = l))
      BY <2>3, <3>1
    <3>3. q.todo = r.todo /\ q.cl = r.cl /\ q.key = k /\ Numbered(q, h)
      BY <2>3
    <3> QED BY <1>2, <1>4, <1>5, <1>8, <3>1, <3>2, <3>3, LookFit
  <2> QED BY <1>1, <2>2, <2>3, <2>4 DEF Same5
<1>9. CASE w = ""
  <2>1. q = [r EXCEPT !.pc = "persist"]
    BY <1>4, <1>7, <1>9 DEF Redirect, Goto
  <2>2. /\ Same5(q, r) /\ q.new = r.new /\ q.rec = r.rec /\ q.src = r.src /\ q.todo = r.todo /\ q.pc = "persist"
    BY <1>3, <2>1 DEF Fields, Same5
  <2>3. Place(q) = "persist" /\ Numbered(q, h)
    BY <1>2, <2>2 DEF Place, Looking, Numbered, Same5
  <2>4. Of(q.rec, Identity(c))
    BY <1>4, <1>5, <1>9, <2>2 DEF Identity
  <2>5. Straight(q) /\ InHand(q, c)
    BY <1>2, <1>5, <2>2, <2>3, <2>4 DEF Straight, InHand, Looking, SlackIn, Resolving, Storing
  <2> QED BY <1>1, <1>2, <1>4, <2>2, <2>3, <2>5 DEF Fit, Same5
<1> QED BY <1>8, <1>9

\* Pushing a label on a stack of one.
LEMMA Stacked ==
  ASSUME NEW S, NEW a \in S, NEW b \in S, NEW s, s = <<b>>, NEW t, t = <<a>> \o s
  PROVE  t = <<a, b>>
<1>1. s \in Seq(S) /\ <<a>> \in Seq(S) /\ Len(s) = 1 /\ s[1] = b
  OBVIOUS
<1>2. t \in Seq(S) /\ Len(t) = 2 /\ t[1] = a /\ t[2] = b
  BY <1>1
<1>3. PICK u : u = <<a, b>>
  OBVIOUS
<1>4. u \in Seq(S) /\ Len(u) = 2 /\ u[1] = a /\ u[2] = b
  BY <1>3
<1>5. 1..Len(t) = {1, 2}
  BY <1>2
<1>6. \A i \in 1..Len(t) : t[i] = u[i]
  BY <1>2, <1>4, <1>5
<1>7. t = u
  BY <1>2, <1>4, <1>6, SeqEqual
<1> QED BY <1>3, <1>7

\* What is written is the pair in hand, into a record that is not linked.
LEMMA PersistGoes ==
  ASSUME NEW h, World(h), NEW j \in Jobs, DOMAIN job = Jobs, NEW r, r = job[j], Fit(r, h), Knows(r), NEW q, q = job'[j], Persist(j)
  PROVE  /\ Fit(q, h) /\ Same5(q, r) /\ r.pc = "persist" /\ q.pc = "writing" /\ q.rec = r.rec /\ q.new.n = r.got
<1>1. r.pc = "persist" /\ Place(r) = "persist"
  BY DEF Persist, At, Place, Looking
<1>2. r.todo = <<"end">> /\ Numbered(r, h) /\ r.cl \in 1..Len(client) /\ InHand(r, client[r.cl]) /\ Client(client[r.cl], h)
  BY <1>1 DEF Fit, Straight, SlackIn, World
<1>3. DOMAIN r = Fields
  BY DEF Knows
<1>4. PICK c, x, y : c = client[r.cl] /\ x = r.rec /\ y = [x EXCEPT !.n = r.got]
  OBVIOUS
<1>5. Of(x, Identity(c)) /\ c.n > 0 /\ Copy(x, h)
  BY <1>1, <1>2, <1>4 DEF InHand, Keeping, Numbered
<1>6. NoRow.prov = ""
  BY DEF NoRow
<1>7. x # NoRow /\ x.link = "" /\ x.prov = "slack" /\ DOMAIN x = RowFields
  <2>1. x.link = ""
    <3>1. Client(c, h)
      BY <1>2, <1>4
    <3>2. \A u : Copy(u, h) /\ Of(u, Identity(c)) /\ c.n > 0 => u.link = ""
      BY <3>1, RowThere
    <3> QED BY <1>5, <3>2
  <2>2. x.prov = "slack" /\ x # NoRow
    BY <1>5, <1>6 DEF Of
  <2> QED BY <1>4, <2>1, <2>2 DEF Knows
<1>8. y.n = r.got /\ y.prov = "slack" /\ y.link = "" /\ y.ws = Identity(c) /\ Same(y, x)
  BY <1>4, <1>5, <1>7 DEF RowFields, Of, Same
<1>9. Copy(y, h)
  <2>1. PICK z \in rows : Same(x, z)
    BY <1>5, <1>7 DEF Copy
  <2>2. Same(y, z)
    BY <1>8, <2>1 DEF Same
  <2>3. y.n \in 0..h /\ Rooted(y.n, y.link)
    BY <1>2, <1>8 DEF Numbered, Rooted
  <2> QED BY <2>2, <2>3 DEF Copy
<1>10. q = Call([r EXCEPT !.new = y], "writing", "call")
  BY <1>4, <1>7, <1>6 DEF Persist, Goto, Upsert
<1>11. /\ Same5(q, r) /\ q.new = y /\ q.rec = r.rec /\ q.src = r.src /\ q.todo = <<"call">> \o r.todo /\ q.pc = "writing"
  BY <1>3, <1>10 DEF Fields, Same5, Call
<1>12. Place(q) = "writing" /\ Numbered(q, h) /\ q.todo = <<"call", "end">>
  <2>1. Place(q) = "writing"
    BY <1>11 DEF Place, Looking
  <2>2. Numbered(q, h)
    BY <1>2, <1>9, <1>11 DEF Numbered, Same5
  <2>3. PICK a, b, S, s, t : a = "call" /\ b = "end" /\ S = {a, b} /\ s = r.todo /\ t = q.todo
    OBVIOUS
  <2>4. a \in S /\ b \in S /\ s = <<b>> /\ t = <<a>> \o s
    BY <1>2, <1>11, <2>3
  <2>5. t = <<a, b>>
    BY <2>4, Stacked
  <2>6. q.todo = <<"call", "end">>
    BY <2>3, <2>5
  <2> QED BY <2>1, <2>2, <2>6
<1>13. Straight(q)
  BY <1>11, <1>12 DEF Straight, SlackIn, Resolving, Storing, Looking
<1>14. InHand(q, c)
  BY <1>5, <1>8, <1>11, <1>12 DEF InHand, Looking, Storing, Of, Same5
<1> QED BY <1>1, <1>2, <1>4, <1>8, <1>11, <1>12, <1>13, <1>14 DEF Fit, Same5

\* Slack does what is asked, or the token has expired.
LEMMA SlackCallGoes ==
  ASSUME NEW h, World(h), NEW j \in Jobs, DOMAIN job = Jobs, NEW r, r = job[j], Fit(r, h), Knows(r), NEW q, q = job'[j], SlackCall(j)
  PROVE  /\ Fit(q, h) /\ Same5(q, r) /\ r.pc = "call" /\ q.pc \in {"check", "end"} /\ q.new \in {r.new, NoRow} /\ q.rec \in {r.rec, NoRow}
<1>1. r.pc = "call" /\ Place(r) = "call"
  BY DEF SlackCall, At, Place, Looking
<1>2. r.todo = <<"end">> /\ Numbered(r, h) /\ r.cl \in 1..Len(client)
  BY <1>1 DEF Fit, Straight, SlackIn
<1>3. DOMAIN r = Fields
  BY DEF Knows
<1>4. Copy(NoRow, h) /\ Head(r.todo) = "end"
  BY <1>2 DEF Copy, NoRow
<1>5. \/ \E ok : q = Return(r, ok)
      \/ q = [r EXCEPT !.tries = 1, !.pc = "check"]
  BY DEF SlackCall, Goto
<1>6. CASE \E ok : q = Return(r, ok)
  <2>1. /\ Same5(q, r) /\ q.pc = "end" /\ q.new = NoRow /\ q.rec = NoRow /\ q.src = r.src
    BY <1>3, <1>4, <1>6 DEF Fields, Same5, Return
  <2>2. Place(q) = "end" /\ Numbered(q, h)
    BY <1>2, <1>4, <2>1 DEF Place, Looking, Numbered, Same5
  <2>3. Fit(q, h)
    BY <2>1, <2>2, Early DEF Looking
  <2> QED BY <1>1, <2>1, <2>3
<1>7. CASE q = [r EXCEPT !.tries = 1, !.pc = "check"]
  <2>1. /\ Same5(q, r) /\ q.pc = "check" /\ q.new = r.new /\ q.rec = r.rec /\ q.src = r.src /\ q.todo = r.todo
    BY <1>3, <1>7 DEF Fields, Same5
  <2>2. Place(q) = "check" /\ Numbered(q, h)
    BY <1>2, <2>1 DEF Place, Looking, Numbered, Same5
  <2>3. Straight(q) /\ InHand(q, client[r.cl])
    BY <1>2, <2>1, <2>2 DEF Straight, InHand, Looking, SlackIn, Resolving, Storing, Locked, Keeping
  <2> QED BY <1>1, <1>2, <2>1, <2>2, <2>3 DEF Fit, Same5
<1> QED BY <1>5, <1>6, <1>7

\* What a request that ends leaves behind.
LEMMA EndFit ==
  ASSUME NEW h, World(h), NEW r, DOMAIN r = Fields, NEW l \in Ends, NEW q, q = Ended(r, l)
  PROVE  Fit(q, h) /\ q.p = r.p /\ q.kind = r.kind /\ q.pc = l /\ q.got = 0 /\ q.spend = 0 /\ q.new = NoRow /\ q.rec = NoRow
         /\ Place(q) = l
<1>1. Copy(NoRow, h)
  BY DEF Copy, NoRow
<1>2. /\ q.p = r.p /\ q.kind = r.kind /\ q.pc = l /\ q.got = 0 /\ q.spend = 0 /\ q.new = NoRow /\ q.rec = NoRow
      /\ q.src = NoRow
  BY DEF Ended, Started, Fields
<1>3. Place(q) = l /\ Numbered(q, h)
  BY <1>1, <1>2 DEF Place, Looking, Ends, Numbered, World
<1>4. Fit(q, h)
  BY <1>2, <1>3, Early DEF Looking, Ends
<1> QED BY <1>2, <1>3, <1>4

\* A call begins by looking its record up,
LEMMA BeginGoes ==
  ASSUME NEW h, World(h), NEW j \in Jobs, DOMAIN job = Jobs, NEW r, r = job[j], Fit(r, h), Knows(r), NEW q, q = job'[j], BeginCall(j)
  PROVE  /\ Fit(q, h) /\ Same5(q, r) /\ r.pc = "slackcall" /\ Place(q) = "source" /\ q.new = r.new
         /\ q.pc = "source" \/ q.pc = "reading"
<1>1. r.pc = "slackcall" /\ Place(r) = "slackcall"
  BY DEF BeginCall, At, Place, Looking
<1>2. r.todo = <<>> /\ Numbered(r, h)
  BY <1>1 DEF Fit, Straight
<1>3. DOMAIN r = Fields /\ r.p \in Processes /\ (\A p \in Processes : \A i \in Keys : Fits(cache[p][i], i))
      /\ r.ws \in Spaces /\ r.prov \in Provs
  BY <1>1 DEF Knows
<1>4. PICK k : k = <<r.ws, r.prov>>
  OBVIOUS
<1>5. k \in Keys
  BY <1>3, <1>4 DEF Keys, Spaces, Provs
<1>6. q = Lookup(r, k, "source")
  BY <1>4 DEF BeginCall, Goto
<1>7. /\ Numbered(q, h) /\ Place(q) = "source" /\ q.todo = r.todo /\ q.cl = r.cl
      /\ q.got = r.got /\ q.new = r.new /\ q.spend = r.spend /\ q.p = r.p /\ q.kind = r.kind
      /\ (q.pc = "source" \/ (q.pc = "reading" /\ q.ret = "source"))
  BY <1>2, <1>3, <1>5, <1>6, LookFinds DEF Looking
<1>8. Fit(q, h)
  BY <1>2, <1>7, Early DEF Looking
<1> QED BY <1>1, <1>7, <1>8 DEF Same5

\* fails if there is none,
LEMMA SourceGoes ==
  ASSUME NEW h, World(h), NEW j \in Jobs, DOMAIN job = Jobs, NEW r, r = job[j], Fit(r, h), Knows(r), NEW q, q = job'[j], Source(j)
  PROVE  /\ Fit(q, h) /\ q.p = r.p /\ q.kind = r.kind /\ r.pc = "source" /\ q.pc \in {"failed", "slack"} /\ q.got \in {0, r.got}
         /\ q.spend \in {0, r.spend} /\ q.new \in {r.new, NoRow} /\ q.rec \in {r.rec, NoRow}
<1>1. r.pc = "source" /\ Place(r) = "source"
  BY DEF Source, At, Place, Looking
<1>2. r.todo = <<>> /\ Numbered(r, h)
  BY <1>1 DEF Fit, Straight
<1>3. DOMAIN r = Fields
  BY DEF Knows
<1>4. q = Ended(r, "failed") \/ q = Call([r EXCEPT !.src = r.rec, !.goal = "check"], "slack", "end")
  BY DEF Source, Goto, UseSlack
<1>5. CASE q = Ended(r, "failed")
  BY <1>1, <1>3, <1>5, EndFit DEF Ends
<1>6. CASE q = Call([r EXCEPT !.src = r.rec, !.goal = "check"], "slack", "end")
  <2>1. /\ Same5(q, r) /\ q.pc = "slack" /\ q.new = r.new /\ q.rec = r.rec /\ q.src = r.rec /\ q.goal = "check"
        /\ q.todo = <<"end">> \o r.todo
    BY <1>3, <1>6 DEF Fields, Same5, Call
  <2>2. q.todo = <<"end">>
    BY <1>2, <2>1
  <2>3. Place(q) = "slack"
    BY <2>1 DEF Place, Looking
  <2>4. Numbered(q, h)
    BY <1>2, <2>1 DEF Numbered, Same5
  <2>5. Fit(q, h)
    BY <2>1, <2>2, <2>3, <2>4, Early DEF Looking, Resolving
  <2> QED BY <1>1, <2>1, <2>5 DEF Same5
<1> QED BY <1>4, <1>5, <1>6

\* and ends with nothing in hand.
LEMMA EndGoes ==
  ASSUME NEW h, World(h), NEW j \in Jobs, DOMAIN job = Jobs, NEW r, r = job[j], Fit(r, h), Knows(r), NEW q, q = job'[j], End(j)
  PROVE  /\ Fit(q, h) /\ q.p = r.p /\ q.kind = r.kind /\ r.pc = "end" /\ q.pc \in {"done", "failed"} /\ q.got = 0
         /\ q.spend = 0 /\ q.new = NoRow /\ q.rec = NoRow
<1>1. r.pc = "end" /\ DOMAIN r = Fields
  BY DEF End, At, Knows
<1>2. \E l \in {"done", "failed"} : q = Ended(r, l)
  BY DEF End, Goto
<1> QED BY <1>1, <1>2, EndFit DEF Ends

\* A client that is shared, or a new one.
LEMMA BindGoes ==
  ASSUME NEW h, World(h), HandlesTyped, NEW j \in Jobs, DOMAIN job = Jobs, NEW r, r = job[j], Fit(r, h), Knows(r), NEW q, q = job'[j], Bind(j)
  PROVE  /\ q.p = r.p /\ q.kind = r.kind /\ q.got = r.got /\ q.spend = r.spend /\ r.pc = "bind" /\ q.pc = "check" /\ q.new = r.new
         /\ q.rec = r.rec /\ q.src = r.src /\ Straight(q) /\ \A c : InHand(q, c)
         /\ \/ client' = client /\ q.cl \in 1..Len(client)
            \/ /\ client' = Append(client, [n |-> r.rec.n, rt |-> r.rec.n, ws |-> r.rec.ws, link |-> r.rec.link])
               /\ q.cl = Len(client) + 1
<1>1. r.pc = "bind" /\ Place(r) = "bind"
  BY DEF Bind, At, Place, Looking
<1>2. r.todo = <<"end">> /\ r.goal = "check" /\ Numbered(r, h)
  BY <1>1 DEF Fit, Straight, Resolving
<1>3. DOMAIN r = Fields /\ r.p \in Processes
  BY DEF Knows
<1>4. PICK c : /\ q = [r EXCEPT !.cl = c, !.pc = r.goal]
               /\ \/ client' = client /\ c \in 1..Len(client)
                  \/ /\ client' = Append(client, [n |-> r.rec.n, rt |-> r.rec.n, ws |-> r.rec.ws, link |-> r.rec.link])
                     /\ c = Len(client) + 1
  <2> DEFINE hit == Cached(r.p, "target", r.rec.id)
  <2>1. PICK c : /\ c = IF hit # {} THEN (CHOOSE e \in hit : TRUE).c ELSE Len(client) + 1
                 /\ q = [r EXCEPT !.cl = c, !.pc = r.goal]
                 /\ client' = IF hit # {} THEN client
                     ELSE Append(client, [n |-> r.rec.n, rt |-> r.rec.n, ws |-> r.rec.ws, link |-> r.rec.link])
    BY DEF Bind, Goto
  <2>2. hit # {} => (CHOOSE e \in hit : TRUE) \in handle[r.p]
    BY DEF Cached
  <2>3. \A e \in handle[r.p] : e.c \in 1..Len(client)
    BY <1>3 DEF HandlesTyped
  <2> QED BY <2>1, <2>2, <2>3
<1>5. /\ q.p = r.p /\ q.kind = r.kind /\ q.got = r.got /\ q.spend = r.spend /\ q.pc = "check" /\ q.new = r.new
      /\ q.rec = r.rec /\ q.src = r.src /\ q.todo = r.todo /\ q.cl = c
  BY <1>2, <1>3, <1>4 DEF Fields
<1>6. Place(q) = "check"
  BY <1>5 DEF Place, Looking
<1>7. Straight(q) /\ \A d : InHand(q, d)
  BY <1>2, <1>5, <1>6 DEF Straight, InHand, Looking, SlackIn, Resolving, Storing, Locked, Keeping
<1> QED BY <1>1, <1>4, <1>5, <1>7

\* Which steps a call of Slack takes.
LEMMA OnlyCallSteps ==
  ASSUME NEW j \in Jobs, Straight(job[j]), RequestStep(j), ~WriteFails(j)
  PROVE  \/ ReadRow(j) \/ StoreRecord(j) \/ WriteRow(j) \/ Forget(j)
         \/ SlackStep(j)
<1>1. PICK r : r = job[j]
  OBVIOUS
<1>2. r.pc \in Looking \cup {"slackcall", "source", "end"} \cup Ends \cup Resolving \cup SlackIn \cup Storing
  BY <1>1 DEF Straight, Place
<1>3. ~DeleteRows(j)
  BY <1>1, <1>2 DEF DeleteRows, At, Looking, Ends, Resolving, SlackIn, Storing
<1>4. ~HubStep(j)
  BY <1>1, <1>2 DEF HubStep, GetClient, MakeClient, Proactive, LockEarly, Send, Answered, Errs, Unauthorized, LockLate, HubRefreshes,
     HubAnswer, HubPersist, Refreshed, BeginHub, At, Looking, Ends, Resolving, SlackIn, Storing
<1>5. ~LifeStep(j)
  BY <1>1, <1>2 DEF LifeStep, BeginUninstall, BeginRevoked, DropHubSpot, DropSlack, Revoke, AppsUninstall, WipeAll, WipeOne,
     WipeMappings, BeginUnhub, DeleteHub, BeginUnslack, DeleteSlack, DropClients, BeginInstall, Register,
     Merge, Move, Conflict, Merged, Save, BeginHubInstall, Reuse, Heal, Isolate, Share, SaveHub, WriteHub, At, Looking, Ends,
     Resolving, SlackIn, Storing
<1> QED BY <1>3, <1>4, <1>5 DEF RequestStep, RecordStep

\* The world when a step changes none of it, or the cache alone,
LEMMA WorldStays ==
  ASSUME NEW h, World(h), rows' = rows, client' = client, slack'.gen \in Nat, slack'.due \in Nat, h <= slack'.gen,
         \A p \in Processes : \A k \in Keys : Copy(cache'[p][k], h)
  PROVE  World(h)' /\ Lasts
<1>1. Lasts
  BY DEF Lasts, World, Same
<1>2. ASSUME NEW p \in Processes, NEW k \in Keys PROVE Copy(cache[p][k], h)'
  <2>1. PICK x : x = cache'[p][k]
    OBVIOUS
  <2>2. Copy(x, h)'
    BY <1>1, <2>1, CopyLasts DEF World
  <2> QED BY <2>1, <2>2
<1>3. \A x \in rows' : Copy(x, h)'
  BY <1>1, CopyLasts DEF World
<1>4. ASSUME NEW i \in 1..Len(client') PROVE Client(client[i], h)'
  <2>1. PICK c : c = client'[i]
    OBVIOUS
  <2>2. Client(c, h)'
    BY <1>1, <2>1, ClientLasts DEF World
  <2> QED BY <2>1, <2>2
<1>5. h \in Nat /\ h <= slack'.gen /\ Single' /\ Len(client') \in Nat
  BY DEF World, Single
<1> QED BY <1>1, <1>2, <1>3, <1>4, <1>5 DEF World

\* when a row gets another pair,
LEMMA WorldWrites ==
  ASSUME NEW h, World(h), NEW x, x.prov = "slack", Copy(x, h), rows' = {y \in rows : y.id # x.id} \cup {x},
         client' = client, slack' = slack, cache' = cache
  PROVE  World(h)' /\ Lasts /\ \A z \in rows' : z = x \/ (z \in rows /\ z.ws # x.ws) \/ (z \in rows /\ z.prov # x.prov)
<1>1. PICK y \in rows : Same(x, y)
  BY DEF Copy
<1>2. \A z \in rows : z.id = x.id => z = y
  BY <1>1 DEF World, Single, Same
<1>3. Lasts
  <2>1. \A z \in rows : \E u \in rows' : Same(z, u)
    BY <1>1, <1>2 DEF Same
  <2> QED BY <2>1 DEF Lasts, World
<1>4. Single'
  <2>1. \A z \in rows : z.id # <<>>
    BY DEF World, Single
  <2>2. \A z, u \in rows : z.id = u.id \/ (z.ws = u.ws /\ z.prov = u.prov) => z = u
    BY DEF World, Single
  <2>3. ASSUME NEW z \in rows', NEW u \in rows' PROVE z.id # <<>> /\ (z.id = u.id \/ (z.ws = u.ws /\ z.prov = u.prov) => z = u)
    <3>1. CASE z \in rows /\ u \in rows
      BY <2>1, <2>2, <3>1
    <3>2. CASE z = x /\ u = x
      BY <1>1, <2>1, <3>2 DEF Same
    <3>3. CASE z = x /\ u # x
      BY <1>1, <2>1, <2>2, <3>3 DEF Same
    <3>4. CASE u = x /\ z # x
      BY <1>1, <2>1, <2>2, <3>4 DEF Same
    <3> QED BY <3>1, <3>2, <3>3, <3>4
  <2> QED BY <2>3 DEF Single
<1>5. \A z \in rows' : Copy(z, h)'
  <2>1. \A z \in rows' : Copy(z, h)
    BY DEF World
  <2> QED BY <1>3, <2>1, CopyLasts
<1>6. ASSUME NEW p \in Processes, NEW k \in Keys PROVE Copy(cache[p][k], h)'
  <2>1. PICK z : z = cache'[p][k]
    OBVIOUS
  <2>2. Copy(z, h)'
    BY <1>3, <2>1, CopyLasts DEF World
  <2> QED BY <2>1, <2>2
<1>7. ASSUME NEW i \in 1..Len(client') PROVE Client(client[i], h)'
  <2>1. PICK c : c = client'[i]
    OBVIOUS
  <2>2. Client(c, h)'
    BY <1>3, <2>1, ClientLasts DEF World
  <2> QED BY <2>1, <2>2
<1>8. slack'.gen \in Nat /\ slack'.due \in Nat /\ h \in Nat /\ h <= slack'.gen /\ Len(client') \in Nat
  BY DEF World
<1>9. ASSUME NEW z \in rows', z # x PROVE z \in rows /\ (z.ws # x.ws \/ z.prov # x.prov)
  BY <1>1, <1>9 DEF World, Single, Same
<1> QED BY <1>3, <1>4, <1>5, <1>6, <1>7, <1>8, <1>9 DEF World

\* and when a client is made, or gets another pair.
LEMMA WorldBinds ==
  ASSUME NEW h, World(h), rows' = rows, slack' = slack, cache' = cache, Len(client') \in Nat, Len(client) <= Len(client'),
         \A i \in 1..Len(client') : Client(client'[i], h),
         \A i \in 1..Len(client) : /\ client'[i].ws = client[i].ws /\ client'[i].link = client[i].link
                                   /\ client[i].n > 0 => client'[i].n > 0
  PROVE  World(h)' /\ Lasts
<1>1. Lasts
  BY DEF Lasts, World, Same
<1>2. ASSUME NEW p \in Processes, NEW k \in Keys PROVE Copy(cache[p][k], h)'
  <2>1. PICK x : x = cache'[p][k]
    OBVIOUS
  <2>2. Copy(x, h)'
    BY <1>1, <2>1, CopyLasts DEF World
  <2> QED BY <2>1, <2>2
<1>3. \A x \in rows' : Copy(x, h)'
  <2>1. \A x \in rows' : Copy(x, h)
    BY DEF World
  <2> QED BY <1>1, <2>1, CopyLasts
<1>4. ASSUME NEW i \in 1..Len(client') PROVE Client(client[i], h)'
  <2>1. PICK c : c = client'[i]
    OBVIOUS
  <2>2. Client(c, h)'
    BY <1>1, <2>1, ClientLasts DEF World
  <2> QED BY <2>1, <2>2
<1>5. slack'.gen \in Nat /\ slack'.due \in Nat /\ h \in Nat /\ h <= slack'.gen /\ Single'
  BY DEF World, Single
<1> QED BY <1>1, <1>2, <1>3, <1>4, <1>5 DEF World

\* The locks when the request that moves takes none and releases none,
LEMMA LocksStay ==
  ASSUME NEW h, Ordered(h), Lasts, NEW j \in Jobs, \A k \in Jobs : k # j => job'[k] = job[k], lock' = lock,
         NEW r, r = job[j], NEW q, q = job'[j], q.p = r.p, Place(q) \in Locked => Place(r) \in Locked /\ q.cl = r.cl
  PROVE  Locks'
<1>1. ASSUME NEW k \in Jobs, Place(job'[k]) \in Locked
      PROVE  /\ Place(job[k]) \in Locked /\ job'[k].cl = job[k].cl /\ job'[k].p = job[k].p
             /\ Identity(client'[job'[k].cl]) = Identity(client[job[k].cl])
  <2>1. Place(job[k]) \in Locked /\ job'[k].cl = job[k].cl /\ job'[k].p = job[k].p
    BY <1>1
  <2>2. job[k].cl \in 1..Len(client)
    BY <2>1 DEF Ordered, Fit, Locked, SlackIn
  <2> QED BY <2>1, <2>2 DEF Lasts, Identity
<1>2. Locks
  BY DEF Ordered
<1>3. PICK L, C : L = lock' /\ C = client'
  OBVIOUS
<1>4. ASSUME NEW k \in Jobs, Place(job'[k]) \in Locked PROVE Identity(C[job'[k].cl]) \in L[job'[k].p]
  BY <1>1, <1>2, <1>3, <1>4 DEF Locks, TheClient
<1>5. ASSUME NEW i \in Jobs, NEW k \in Jobs, Place(job'[i]) \in Locked, Place(job'[k]) \in Locked, job'[i].p = job'[k].p,
             Identity(C[job'[i].cl]) = Identity(C[job'[k].cl])
      PROVE  i = k
  BY <1>1, <1>2, <1>3, <1>5 DEF Locks, TheClient
<1> QED BY <1>2, <1>3, <1>4, <1>5 DEF Locks, TheClient, Place, Identity

\* takes one that is free,
LEMMA LocksTaken ==
  ASSUME NEW h, Ordered(h), Lasts, NEW j \in Jobs, \A k \in Jobs : k # j => job'[k] = job[k],
         NEW r, r = job[j], NEW q, q = job'[j], q.p = r.p, r.p \in Processes, q.cl = r.cl, r.cl \in 1..Len(client),
         Identity(client[r.cl]) \notin lock[r.p], lock' = [lock EXCEPT ![r.p] = @ \cup {Identity(client[r.cl])}]
  PROVE  Locks'
<1>0. Locks /\ DOMAIN lock = Processes
  BY DEF Ordered, Locks
<1>1. PICK C, c : C = client' /\ c = Identity(client[r.cl])
  OBVIOUS
<1>2. lock' = [lock EXCEPT ![r.p] = lock[r.p] \cup {c}] /\ c \notin lock[r.p]
  BY <1>1
<1>3. Identity(C[q.cl]) = c /\ c \in lock'[r.p] /\ DOMAIN lock' = Processes
  <2>1. c \in lock'[r.p] /\ DOMAIN lock' = Processes
    BY <1>0, <1>2
  <2> QED BY <1>1, <2>1 DEF Lasts, Identity
<1>4. ASSUME NEW k \in Jobs, k # j, Place(job'[k]) \in Locked
      PROVE  /\ job'[k] = job[k] /\ Identity(C[job'[k].cl]) = Identity(TheClient(k))
             /\ Identity(TheClient(k)) \in lock[job[k].p] /\ Identity(TheClient(k)) \in lock'[job[k].p]
  <2>1. job'[k] = job[k] /\ job[k].cl \in 1..Len(client)
    BY <1>4 DEF Ordered, Fit, Locked, SlackIn
  <2>2. Identity(C[job'[k].cl]) = Identity(TheClient(k))
    BY <1>1, <2>1 DEF Lasts, Identity, TheClient
  <2>3. Identity(TheClient(k)) \in lock[job[k].p]
    BY <1>0, <1>4, <2>1 DEF Locks
  <2>4. Identity(TheClient(k)) \in lock'[job[k].p]
    BY <1>0, <1>2, <2>3
  <2> QED BY <2>1, <2>2, <2>3, <2>4
<1>5. ASSUME NEW k \in Jobs, Place(job'[k]) \in Locked PROVE Identity(C[job'[k].cl]) \in lock'[job'[k].p]
  BY <1>3, <1>4, <1>5
<1>6. ASSUME NEW i \in Jobs, NEW k \in Jobs, Place(job'[i]) \in Locked, Place(job'[k]) \in Locked, job'[i].p = job'[k].p,
             Identity(C[job'[i].cl]) = Identity(C[job'[k].cl])
      PROVE  i = k
  <2>1. CASE i # j /\ k # j
    BY <1>0, <1>4, <1>6, <2>1 DEF Locks
  <2>2. CASE i = j /\ k # j
    BY <1>2, <1>3, <1>4, <1>6, <2>2
  <2>3. CASE i # j /\ k = j
    BY <1>2, <1>3, <1>4, <1>6, <2>3
  <2> QED BY <2>1, <2>2, <2>3
<1> QED BY <1>1, <1>3, <1>5, <1>6 DEF Locks, TheClient, Place, Identity

\* or releases its own.
LEMMA LocksReleased ==
  ASSUME NEW h, Ordered(h), Lasts, NEW j \in Jobs, \A k \in Jobs : k # j => job'[k] = job[k],
         NEW r, r = job[j], NEW q, q = job'[j], Place(r) \in Locked, Place(q) \notin Locked,
         lock' = [lock EXCEPT ![r.p] = @ \ {Identity(client[r.cl])}]
  PROVE  Locks'
<1>0. Locks /\ DOMAIN lock = Processes
  BY DEF Ordered, Locks
<1>1. PICK C, c : C = client' /\ c = Identity(client[r.cl])
  OBVIOUS
<1>2. lock' = [lock EXCEPT ![r.p] = lock[r.p] \ {c}] /\ c = Identity(TheClient(j)) /\ DOMAIN lock' = Processes
  BY <1>0, <1>1 DEF TheClient
<1>4. ASSUME NEW k \in Jobs, Place(job'[k]) \in Locked
      PROVE  /\ k # j /\ job'[k] = job[k] /\ Identity(C[job'[k].cl]) = Identity(TheClient(k))
             /\ Identity(TheClient(k)) \in lock'[job[k].p]
  <2>1. k # j /\ job'[k] = job[k] /\ job[k].cl \in 1..Len(client)
    BY <1>4 DEF Ordered, Fit, Locked, SlackIn
  <2>2. Identity(C[job'[k].cl]) = Identity(TheClient(k))
    BY <1>1, <2>1 DEF Lasts, Identity, TheClient
  <2>3. Identity(TheClient(k)) \in lock[job[k].p] /\ (job[k].p = r.p => Identity(TheClient(k)) # c)
    BY <1>0, <1>2, <1>4, <2>1 DEF Locks
  <2>4. Identity(TheClient(k)) \in lock'[job[k].p]
    BY <1>0, <1>2, <2>3
  <2> QED BY <2>1, <2>2, <2>4
<1>5. ASSUME NEW k \in Jobs, Place(job'[k]) \in Locked PROVE Identity(C[job'[k].cl]) \in lock'[job'[k].p]
  BY <1>4, <1>5
<1>6. ASSUME NEW i \in Jobs, NEW k \in Jobs, Place(job'[i]) \in Locked, Place(job'[k]) \in Locked, job'[i].p = job'[k].p,
             Identity(C[job'[i].cl]) = Identity(C[job'[k].cl])
      PROVE  i = k
  BY <1>0, <1>4, <1>6 DEF Locks
<1> QED BY <1>1, <1>2, <1>5, <1>6 DEF Locks, TheClient, Place, Identity

\* A client lives in one process.
Using == SlackIn \cup Storing
OwnedBy(o) == /\ \A p \in Processes : \A e \in handle[p] : o[e.c] = p
              /\ \A j \in Jobs : Place(job[j]) \in Using => o[job[j].cl] = job[j].p
Owned == \E o \in [1..Len(client) -> Processes] : OwnedBy(o)

\* Clients stay in their process when none is made,
LEMMA OwnedStays ==
  ASSUME Owned, NEW j \in Jobs, \A k \in Jobs : k # j => job'[k] = job[k], Len(client') = Len(client),
         NEW r, r = job[j], NEW q, q = job'[j], q.p = r.p, r.p \in Processes, handle' = handle,
         Place(q) \in Using => (Place(r) \in Using /\ q.cl = r.cl) \/ \E e \in handle[r.p] : q.cl = e.c
  PROVE  Owned'
<1>1. PICK o \in [1..Len(client) -> Processes] : OwnedBy(o)
  BY DEF Owned
<1>2. \A p \in Processes : \A e \in handle'[p] : o[e.c] = p
  BY <1>1 DEF OwnedBy
<1>3. ASSUME NEW k \in Jobs, Place(job'[k]) \in Using PROVE o[job'[k].cl] = job'[k].p
  BY <1>1, <1>3 DEF OwnedBy
<1>4. OwnedBy(o)'
  BY <1>2, <1>3 DEF OwnedBy, Place
<1> QED BY <1>1, <1>4 DEF Owned

\* and a new one belongs to the process of its request.
LEMMA OwnedBinds ==
  ASSUME NEW h, Ordered(h), Owned, HandlesTyped, NEW j \in Jobs, \A k \in Jobs : k # j => job'[k] = job[k],
         NEW r, r = job[j], NEW q, q = job'[j], NEW p \in Processes, q.p = p, NEW c, q.cl = c,
         \A u \in Processes : \A e \in handle'[u] : e \in handle[u] \/ (u = p /\ e.c = c),
         \/ c \in 1..Len(client) /\ Len(client') = Len(client) /\ \E e \in handle[p] : e.c = c
         \/ c = Len(client) + 1 /\ Len(client') = c
  PROVE  Owned'
<1>1. PICK o \in [1..Len(client) -> Processes] : OwnedBy(o)
  BY DEF Owned
<1>2. PICK m, n : m = Len(client) /\ n = Len(client') /\ m \in Nat /\ n \in Nat /\ n \in {m, m + 1}
  BY DEF Ordered, World
<1>3. PICK w : w = [i \in 1..n |-> IF i \in 1..m THEN o[i] ELSE p]
  OBVIOUS
<1>4. w \in [1..n -> Processes] /\ \A i \in 1..m : i \in 1..n /\ w[i] = o[i]
  BY <1>1, <1>2, <1>3
<1>5. c \in 1..n /\ w[c] = p
  BY <1>1, <1>2, <1>3, <1>4 DEF OwnedBy
<1>6. ASSUME NEW u \in Processes, NEW e \in handle'[u] PROVE w[e.c] = u
  <2>1. CASE e \in handle[u]
    BY <1>1, <1>2, <1>4, <2>1 DEF OwnedBy, HandlesTyped
  <2>2. CASE u = p /\ e.c = c
    BY <1>5, <2>2
  <2> QED BY <2>1, <2>2
<1>7. ASSUME NEW k \in Jobs, Place(job'[k]) \in Using PROVE w[job'[k].cl] = job'[k].p
  <2>1. CASE k = j
    BY <1>5, <2>1
  <2>2. CASE k # j
    <3>1. job'[k] = job[k] /\ job[k].cl \in 1..m
      BY <1>2, <1>7, <2>2 DEF Ordered, Fit, Using
    <3> QED BY <1>1, <1>4, <1>7, <3>1 DEF OwnedBy
  <2> QED BY <2>1, <2>2
<1>8. OwnedBy(w)'
  BY <1>6, <1>7 DEF OwnedBy, Place
<1> QED BY <1>2, <1>4, <1>8 DEF Owned

\* What is in order up to some pair is in order up to a later one.
LEMMA WorldGrows ==
  ASSUME NEW h, NEW i \in Nat, h <= i, World(h)', i <= slack'.gen
  PROVE  World(i)' /\ \A r : Fit(r, h)' => Fit(r, i)'
<1>1. \A n \in 0..h : n \in 0..i
  BY DEF World
<1>2. \A x : Copy(x, h)' => Copy(x, i)'
  BY <1>1 DEF Copy
<1>3. \A c : Client(c, h)' => Client(c, i)'
  BY <1>1 DEF Client
<1>4. \A r : Fit(r, h)' => Fit(r, i)'
  <2>1. \A r : Numbered(r, h)' => Numbered(r, i)'
    BY <1>1, <1>2 DEF Numbered
  <2> QED BY <2>1 DEF Fit, Straight, InHand, Place, Of, Identity
<1>5. World(i)'
  BY <1>2, <1>3 DEF World
<1> QED BY <1>4, <1>5

\* All is in order again once the request that has moved is.
LEMMA OrderedAgain ==
  ASSUME NEW h, Ordered(h), World(h)', Lasts, Locks', NEW j \in Jobs, \A k \in Jobs : k # j => job'[k] = job[k], Fit(job[j], h)'
  PROVE  Ordered(h)'
<1>1. ASSUME NEW k \in Jobs PROVE Fit(job[k], h)'
  <2>1. PICK s : s = job[k]
    OBVIOUS
  <2>2. Fit(s, h)'
    BY <2>1, FitLasts DEF Ordered
  <2> QED BY <2>1, <2>2
<1> QED BY <1>1 DEF Ordered

\* What every step of a call starts from.
LEMMA Starts ==
  ASSUME NEW h, Sound, Ordered(h), NEW j \in Jobs, job[j].kind = "slackcall", RequestStep(j), NEW r, r = job[j]
  PROVE  /\ DOMAIN job = Jobs /\ World(h) /\ Locks /\ HandlesTyped /\ Fit(r, h) /\ Knows(r) /\ r.p \in Processes
         /\ (\A k \in Jobs : k # j => job'[k] = job[k])
         /\ DOMAIN cache = Processes /\ (\A p \in Processes : DOMAIN cache[p] = Keys)
         /\ client \in Seq([n : 0..Bound.all, rt : 0..Bound.all, ws : Spaces, link : Names])
<1>1. DOMAIN job = Jobs /\ HandlesTyped /\ CacheTyped(Bound) /\ ClientsTyped(Bound)
  BY DEF Sound
<1>2. Knows(r)
  BY Known
<1>3. \A k \in Jobs : k # j => job'[k] = job[k]
  BY <1>1, OnlyOwn
<1>4. DOMAIN cache = Processes /\ \A p \in Processes : DOMAIN cache[p] = Keys
  BY <1>1 DEF CacheTyped
<1> QED BY <1>1, <1>2, <1>3, <1>4 DEF Ordered, Knows, ClientsTyped

\* Steps that change the request alone.
Inside(j) == \/ ReadRow(j) \/ Resolve(j) \/ Pivot(j) \/ Check(j) \/ Relook(j) \/ Redirect(j) \/ Persist(j) \/ SlackCall(j)
             \/ BeginCall(j) \/ Source(j) \/ End(j)

\* Such a step leaves the request in order, in its process, with its client.
LEMMA InsideGoes ==
  ASSUME NEW h, World(h), HandlesTyped, NEW j \in Jobs, DOMAIN job = Jobs, NEW r, r = job[j], Fit(r, h), Knows(r),
         NEW q, q = job'[j], Inside(j)
  PROVE  /\ Fit(q, h) /\ q.p = r.p
         /\ Place(q) \in Locked => Place(r) \in Locked /\ q.cl = r.cl
         /\ Place(q) \in Using => (Place(r) \in Using /\ q.cl = r.cl) \/ \E e \in handle[r.p] : q.cl = e.c
<1> USE DEF Using, SlackIn, Storing, Locked, Resolving, Looking
<1>1. CASE ReadRow(j)
  <2>1. Fit(q, h) /\ Same5(q, r) /\ Place(q) = Place(r)
    BY <1>1, ReadGoes DEF Place
  <2> QED BY <2>1 DEF Same5
<1>2. CASE Resolve(j)
  <2>1. Fit(q, h) /\ q.p = r.p /\ Place(q) \in {"check", "pivot", "bind"}
    BY <1>2, ResolveGoes
  <2>2. Place(q) = "check" => \E e \in handle[r.p] : q.cl = e.c
    <3>0. DOMAIN r = Fields /\ (r.pc = "slack" => r.goal = "check")
      BY DEF Knows, Fit, Straight, Place
    <3> DEFINE hit == Cached(r.p, "source", r.src.id)
    <3>1. q = IF hit # {} THEN [r EXCEPT !.cl = (CHOOSE e \in hit : TRUE).c, !.pc = r.goal]
               ELSE IF ~HasToken(r.src) /\ r.src.link # "" THEN Lookup(r, <<r.src.link, "slack">>, "pivot")
               ELSE IF r.src.prov = "hubspot" THEN Lookup(r, <<r.src.ws, "slack">>, "pivot")
               ELSE [r EXCEPT !.rec = r.src, !.pc = "bind"]
      BY <1>2 DEF Resolve, Goto
    <3>2. hit # {} => (CHOOSE e \in hit : TRUE) \in handle[r.p]
      BY DEF Cached
    <3>3. ASSUME NEW k, q = Lookup(r, k, "pivot") PROVE Place(q) = "pivot"
      <4>1. q.pc = "pivot" \/ (q.pc = "reading" /\ q.ret = "pivot")
        BY <3>0, <3>3, LookupFields
      <4> QED BY <4>1 DEF Place
    <3>4. ASSUME q = [r EXCEPT !.rec = r.src, !.pc = "bind"] PROVE Place(q) = "bind"
      BY <3>0, <3>4 DEF Place, Fields
    <3>5. CASE hit # {}
      BY <3>0, <3>1, <3>2, <3>5 DEF Fields
    <3> QED BY <3>1, <3>3, <3>4, <3>5
  <2> QED BY <2>1, <2>2
<1>3. CASE Pivot(j)
  <2>1. Fit(q, h) /\ Same5(q, r) /\ Place(q) \notin Using
    BY <1>3, PivotGoes DEF Place
  <2> QED BY <2>1 DEF Same5
<1>4. CASE Check(j)
  <2>1. Fit(q, h) /\ Same5(q, r) /\ Place(q) \in {"rotate", "call"} /\ Place(r) = "check"
    BY <1>4, CheckGoes DEF Place
  <2> QED BY <2>1 DEF Same5
<1>5. CASE Relook(j)
  <2>1. Fit(q, h) /\ q.p = r.p /\ q.cl = r.cl /\ Place(r) = "relook"
    BY <1>5, RelookGoes DEF Place
  <2> QED BY <2>1
<1>6. CASE Redirect(j)
  <2>1. Fit(q, h) /\ Same5(q, r) /\ Place(q) = "persist" /\ Place(r) = "redirect"
    BY <1>6, RedirectGoes DEF Place
  <2> QED BY <2>1 DEF Same5
<1>7. CASE Persist(j)
  <2>1. Fit(q, h) /\ Same5(q, r) /\ Place(q) = "writing" /\ Place(r) = "persist"
    BY <1>7, PersistGoes DEF Place
  <2> QED BY <2>1 DEF Same5
<1>8. CASE SlackCall(j)
  <2>1. Fit(q, h) /\ Same5(q, r) /\ Place(q) \in {"check", "end"} /\ Place(r) = "call"
    BY <1>8, SlackCallGoes DEF Place
  <2> QED BY <2>1 DEF Same5
<1>9. CASE BeginCall(j)
  <2>1. Fit(q, h) /\ Same5(q, r) /\ Place(q) = "source"
    BY <1>9, BeginGoes
  <2> QED BY <2>1 DEF Same5
<1>10. CASE Source(j)
  <2>1. Fit(q, h) /\ q.p = r.p /\ Place(q) \in {"failed", "slack"}
    BY <1>10, SourceGoes DEF Place
  <2> QED BY <2>1
<1>11. CASE End(j)
  <2>1. Fit(q, h) /\ q.p = r.p /\ Place(q) \in {"done", "failed"}
    BY <1>11, EndGoes DEF Place
  <2> QED BY <2>1
<1> QED BY <1>1, <1>2, <1>3, <1>4, <1>5, <1>6, <1>7, <1>8, <1>9, <1>10, <1>11 DEF Inside

\* A step on the records is no other step.
LEMMA Recording ==
  ASSUME NEW j \in Jobs, ReadRow(j) \/ StoreRecord(j) \/ WriteRow(j) \/ Forget(j)
  PROVE  RecordStep(j) /\ ~SlackStep(j) /\ ~HubStep(j) /\ ~LifeStep(j)
<1>1. CASE WriteRow(j)
  <2>1. job[j].pc = "writing"
    BY <1>1 DEF WriteRow, At
  <2>2. ~SlackStep(j)
    BY <2>1 DEF SlackStep, Resolve, Pivot, Bind, Check, TakeLock, Relook, SlackRotates, TakeAnswer, LoseAnswer, Redirect, Persist,
       SlackCall, BeginCall, Source, End, At
  <2>3. ~HubStep(j)
    BY <2>1 DEF HubStep, GetClient, MakeClient, Proactive, LockEarly, Send, Answered, Errs, Unauthorized, LockLate, HubRefreshes,
       HubAnswer, HubPersist, Refreshed, BeginHub, At
  <2>4. ~LifeStep(j)
    BY <2>1 DEF LifeStep, BeginUninstall, BeginRevoked, DropHubSpot, DropSlack, Revoke, AppsUninstall, WipeAll, WipeOne,
       WipeMappings, BeginUnhub, DeleteHub, BeginUnslack, DeleteSlack, DropClients, BeginInstall, Register,
       Merge, Move, Conflict, Merged, Save, BeginHubInstall, Reuse, Heal, Isolate, Share, SaveHub, WriteHub, At
  <2> QED BY <1>1, <2>2, <2>3, <2>4 DEF RecordStep
<1>2. CASE ReadRow(j) \/ StoreRecord(j) \/ Forget(j)
  BY <1>2, Elsewhere DEF RecordStep, ReadRow, StoreRecord, Forget, At, Looking
<1> QED BY <1>1, <1>2

(* Every step of a call but the answer of Slack keeps all in order.        *)
LEMMA InsideOrdered ==
  ASSUME NEW h, Sound, Ordered(h), Owned, NEW j \in Jobs, job[j].kind = "slackcall", RequestStep(j), Inside(j)
  PROVE  Ordered(h)' /\ Owned' /\ Lasts
<1>1. PICK r, q : r = job[j] /\ q = job'[j]
  OBVIOUS
<1>2. /\ DOMAIN job = Jobs /\ World(h) /\ HandlesTyped /\ Fit(r, h) /\ Knows(r) /\ r.p \in Processes
      /\ (\A k \in Jobs : k # j => job'[k] = job[k])
  BY <1>1, Starts
<1>3. /\ Fit(q, h) /\ q.p = r.p
      /\ Place(q) \in Locked => Place(r) \in Locked /\ q.cl = r.cl
      /\ Place(q) \in Using => (Place(r) \in Using /\ q.cl = r.cl) \/ \E e \in handle[r.p] : q.cl = e.c
  BY <1>1, <1>2, InsideGoes
<1>4. rows' = rows /\ cache' = cache /\ client' = client /\ slack' = slack /\ lock' = lock /\ handle' = handle
  <2>1. CASE ReadRow(j)
    <3>1. RecordStep(j) /\ ~SlackStep(j) /\ ~HubStep(j) /\ ~LifeStep(j)
      BY <2>1, Recording
    <3> QED BY <2>1, <3>1 DEF RequestStep, ReadRow, slackVars
  <2>2. CASE ~ReadRow(j)
    BY <2>2 DEF Inside, Resolve, Pivot, Check, Relook, Redirect, Persist, SlackCall, BeginCall, Source, End, slackVars
  <2> QED BY <2>1, <2>2
<1>5. World(h)' /\ Lasts
  BY <1>2, <1>4, WorldStays DEF World
<1>6. Locks'
  BY <1>1, <1>2, <1>3, <1>4, <1>5, LocksStay
<1>7. Fit(q, h)'
  BY <1>2, <1>3, <1>5, FitLasts
<1>8. Ordered(h)'
  BY <1>1, <1>2, <1>5, <1>6, <1>7, OrderedAgain
<1>9. Owned'
  BY <1>1, <1>2, <1>3, <1>4, OwnedStays
<1> QED BY <1>5, <1>8, <1>9

\* What goes into the cache, and what it forgets, leave all in order.
LEMMA CacheOrdered ==
  ASSUME NEW h, Sound, Ordered(h), Owned, NEW j \in Jobs, job[j].kind = "slackcall", RequestStep(j), StoreRecord(j) \/ Forget(j)
  PROVE  Ordered(h)' /\ Owned' /\ Lasts
<1>1. PICK r, q : r = job[j] /\ q = job'[j]
  OBVIOUS
<1>2. /\ DOMAIN job = Jobs /\ World(h) /\ Fit(r, h) /\ Knows(r) /\ r.p \in Processes
      /\ (\A k \in Jobs : k # j => job'[k] = job[k])
      /\ DOMAIN cache = Processes /\ (\A p \in Processes : DOMAIN cache[p] = Keys)
  BY <1>1, Starts
<1>3. /\ Fit(q, h) /\ q.p = r.p /\ q.cl = r.cl
      /\ Place(q) \in Locked => Place(r) \in Locked
      /\ Place(q) \in Using => Place(r) \in Using
  <2>1. CASE StoreRecord(j)
    BY <1>1, <1>2, <2>1, StoreGoes DEF Same5
  <2>2. CASE Forget(j)
    <3>1. Fit(q, h) /\ q.p = r.p /\ q.cl = r.cl /\ q.pc = "call" /\ r.pc = "forgetting"
      BY <1>1, <1>2, <2>2, ForgetGoes
    <3>2. Place(q) = "call" /\ Place(r) = "forgetting"
      BY <3>1 DEF Place, Looking
    <3> QED BY <3>1, <3>2 DEF Using, SlackIn, Storing, Locked
  <2> QED BY <2>1, <2>2
<1>4. rows' = rows /\ client' = client /\ slack' = slack /\ lock' = lock /\ handle' = handle
  <2>1. RecordStep(j) /\ ~SlackStep(j) /\ ~HubStep(j) /\ ~LifeStep(j)
    BY Recording
  <2> QED BY <2>1 DEF RequestStep, StoreRecord, Forget, slackVars
<1>5. \A p \in Processes : \A k \in Keys : Copy(cache'[p][k], h)
  <2>1. cache' = cache \/ \E x \in {r.rec, NoRow} : cache' = [cache EXCEPT ![r.p][r.key] = x]
    BY <1>1 DEF StoreRecord, Forget
  <2>2. Copy(r.rec, h) /\ Copy(NoRow, h)
    BY <1>2 DEF Fit, Numbered, Copy, NoRow
  <2>3. \A p \in Processes : \A k \in Keys : Copy(cache[p][k], h)
    BY <1>2 DEF World
  <2>4. ASSUME NEW x \in {r.rec, NoRow}, cache' = [cache EXCEPT ![r.p][r.key] = x], NEW p \in Processes, NEW k \in Keys
        PROVE  cache'[p][k] = x \/ cache'[p][k] = cache[p][k]
    BY <1>2, <2>4
  <2>5. ASSUME NEW p \in Processes, NEW k \in Keys PROVE Copy(cache'[p][k], h)
    <3>1. cache'[p][k] \in {r.rec, NoRow, cache[p][k]}
      BY <2>1, <2>4
    <3> QED BY <2>2, <2>3, <3>1
  <2> QED BY <2>5
<1>6. World(h)' /\ Lasts
  <2>1. slack'.gen \in Nat /\ slack'.due \in Nat /\ h <= slack'.gen
    BY <1>2, <1>4 DEF World
  <2> QED BY <1>2, <1>4, <1>5, <2>1, WorldStays
<1>7. Locks'
  BY <1>1, <1>2, <1>3, <1>4, <1>6, LocksStay
<1>8. Fit(q, h)'
  BY <1>2, <1>3, <1>6, FitLasts
<1>9. Ordered(h)'
  BY <1>1, <1>2, <1>6, <1>7, <1>8, OrderedAgain
<1>10. Owned'
  BY <1>1, <1>2, <1>3, <1>4, OwnedStays
<1> QED BY <1>6, <1>9, <1>10

\* So does the write of a row, which differs from the row before in its pair;
LEMMA WriteOrdered ==
  ASSUME NEW h, Sound, Ordered(h), Owned, NEW j \in Jobs, job[j].kind = "slackcall", RequestStep(j), WriteRow(j)
  PROVE  /\ Ordered(h)' /\ Owned' /\ Lasts
         /\ \A z \in rows' : z = job[j].new \/ (z \in rows /\ z.ws # job[j].new.ws) \/ (z \in rows /\ z.prov # job[j].new.prov)
<1>1. PICK r, q : r = job[j] /\ q = job'[j]
  OBVIOUS
<1>2. /\ DOMAIN job = Jobs /\ World(h) /\ Fit(r, h) /\ Knows(r) /\ r.p \in Processes
      /\ (\A k \in Jobs : k # j => job'[k] = job[k])
  BY <1>1, Starts
<1>3. /\ Fit(q, h) /\ q.p = r.p /\ q.cl = r.cl /\ Place(q) = "forgetting" /\ Place(r) = "writing" /\ q.new = r.new
      /\ rows' = {y \in rows : y.id # r.new.id} \cup {r.new}
  BY <1>1, <1>2, WriteGoes DEF Same5, Place, Looking
<1>4. client' = client /\ slack' = slack /\ lock' = lock /\ handle' = handle /\ cache' = cache
  <2>1. RecordStep(j) /\ ~SlackStep(j) /\ ~HubStep(j) /\ ~LifeStep(j)
    BY Recording
  <2> QED BY <2>1 DEF RequestStep, WriteRow, slackVars
<1>5. r.new.prov = "slack" /\ Copy(r.new, h)
  <2>1. r.pc = "writing"
    BY <1>1 DEF WriteRow, At
  <2>2. PICK c : c = client[r.cl]
    OBVIOUS
  <2>3. InHand(r, c)
    BY <1>2, <1>3, <2>2 DEF Fit, Storing
  <2>4. r.new.prov = "slack"
    BY <2>1, <2>3 DEF InHand, Storing, Of
  <2>5. Copy(r.new, h)
    BY <1>2 DEF Fit, Numbered
  <2> QED BY <2>4, <2>5
<1>6. World(h)' /\ Lasts /\ \A z \in rows' : z = r.new \/ (z \in rows /\ z.ws # r.new.ws) \/ (z \in rows /\ z.prov # r.new.prov)
  BY <1>2, <1>3, <1>4, <1>5, WorldWrites
<1>7. Locks'
  BY <1>1, <1>2, <1>3, <1>4, <1>6, LocksStay DEF Locked
<1>8. Fit(q, h)'
  BY <1>2, <1>3, <1>6, FitLasts
<1>9. Ordered(h)'
  BY <1>1, <1>2, <1>6, <1>7, <1>8, OrderedAgain
<1>10. Owned'
  BY <1>1, <1>2, <1>3, <1>4, OwnedStays DEF Using, Storing
<1> QED BY <1>1, <1>6, <1>9, <1>10

\* A client that is given another pair.
LEMMA ClientSet ==
  ASSUME NEW S, client \in Seq(S), NEW i \in 1..Len(client), NEW d, client' = [client EXCEPT ![i] = d]
  PROVE  Len(client') = Len(client) /\ client'[i] = d /\ \A k \in 1..Len(client) : k # i => client'[k] = client[k]
<1>1. DOMAIN client = 1..Len(client) /\ Len(client) \in Nat /\ client = [k \in 1..Len(client) |-> client[k]]
  OBVIOUS
<1>2. client' = [k \in 1..Len(client) |-> IF k = i THEN d ELSE client[k]]
  BY <1>1
<1>3. DOMAIN client' = 1..Len(client)
  BY <1>2
<1>4. \A k \in 1..Len(client) : client'[k] = IF k = i THEN d ELSE client[k]
  BY <1>2
<1>5. Len(client') = Len(client)
  BY <1>1, <1>2, <1>3
<1> QED BY <1>4, <1>5

\* so does the lock, which nobody else holds;
LEMMA TakeOrdered ==
  ASSUME NEW h, Sound, Ordered(h), Owned, NEW j \in Jobs, job[j].kind = "slackcall", RequestStep(j), TakeLock(j)
  PROVE  Ordered(h)' /\ Owned' /\ Lasts
<1>1. PICK r, q : r = job[j] /\ q = job'[j]
  OBVIOUS
<1>2. /\ DOMAIN job = Jobs /\ World(h) /\ Fit(r, h) /\ Knows(r) /\ r.p \in Processes
      /\ (\A k \in Jobs : k # j => job'[k] = job[k])
  BY <1>1, Starts
<1>3. /\ Fit(q, h) /\ Same5(q, r) /\ r.pc = "rotate" /\ Place(q) = "relook" /\ r.cl \in 1..Len(client)
      /\ Identity(client[r.cl]) \notin lock[r.p]
      /\ lock' = [lock EXCEPT ![r.p] = @ \cup {Identity(client[r.cl])}]
  BY <1>1, <1>2, TakeGoes
<1>4. rows' = rows /\ cache' = cache /\ client' = client /\ slack' = slack /\ handle' = handle
  BY DEF TakeLock
<1>5. World(h)' /\ Lasts
  BY <1>2, <1>4, WorldStays DEF World
<1>6. q.p = r.p /\ q.cl = r.cl
  BY <1>3 DEF Same5
<1>7. Locks'
  BY <1>1, <1>2, <1>3, <1>5, <1>6, LocksTaken
<1>8. Fit(q, h)'
  BY <1>2, <1>3, <1>5, FitLasts
<1>9. Ordered(h)'
  BY <1>1, <1>2, <1>5, <1>7, <1>8, OrderedAgain
<1>10. Place(r) \in Using
  BY <1>3 DEF Place, Looking, Using, SlackIn
<1>11. Owned'
  BY <1>1, <1>2, <1>4, <1>6, <1>10, OwnedStays
<1> QED BY <1>5, <1>9, <1>11

\* so does its release with a lost answer,
LEMMA LoseOrdered ==
  ASSUME NEW h, Sound, Ordered(h), Owned, NEW j \in Jobs, job[j].kind = "slackcall", RequestStep(j), LoseAnswer(j)
  PROVE  Ordered(h)' /\ Owned' /\ Lasts
<1>1. PICK r, q : r = job[j] /\ q = job'[j]
  OBVIOUS
<1>2. /\ DOMAIN job = Jobs /\ World(h) /\ Fit(r, h) /\ Knows(r) /\ r.p \in Processes
      /\ (\A k \in Jobs : k # j => job'[k] = job[k])
  BY <1>1, Starts
<1>3. /\ Fit(q, h) /\ Same5(q, r) /\ r.pc = "lost" /\ q.pc = "end"
      /\ lock' = [lock EXCEPT ![r.p] = @ \ {Identity(client[r.cl])}]
  BY <1>1, <1>2, LoseGoes
<1>4. rows' = rows /\ cache' = cache /\ client' = client /\ slack' = slack /\ handle' = handle
  BY DEF LoseAnswer
<1>5. World(h)' /\ Lasts
  BY <1>2, <1>4, WorldStays DEF World
<1>6. Place(r) \in Locked /\ Place(q) \notin Locked /\ Place(q) \notin Using /\ q.p = r.p
  BY <1>3 DEF Place, Looking, Locked, Using, SlackIn, Storing, Same5
<1>7. Locks'
  BY <1>1, <1>2, <1>3, <1>5, <1>6, LocksReleased
<1>8. Fit(q, h)'
  BY <1>2, <1>3, <1>5, FitLasts
<1>9. Ordered(h)'
  BY <1>1, <1>2, <1>5, <1>7, <1>8, OrderedAgain
<1>10. Owned'
  BY <1>1, <1>2, <1>4, <1>6, OwnedStays
<1> QED BY <1>5, <1>9, <1>10

\* or with one that arrives and gives the client its pair;
LEMMA AnswerOrdered ==
  ASSUME NEW h, Sound, Ordered(h), Owned, NEW j \in Jobs, job[j].kind = "slackcall", RequestStep(j), TakeAnswer(j)
  PROVE  Ordered(h)' /\ Owned' /\ Lasts
<1>r. PICK r, q : r = job[j] /\ q = job'[j]
  OBVIOUS
<1>1. PICK c, d : r = job[j] /\ q = job'[j] /\ c = client[r.cl] /\ d = client'[r.cl]
  BY <1>r
<1>2. /\ DOMAIN job = Jobs /\ World(h) /\ Fit(r, h) /\ Knows(r) /\ r.p \in Processes
      /\ (\A k \in Jobs : k # j => job'[k] = job[k])
  BY <1>r, Starts
<1>s. client \in Seq([n : 0..Bound.all, rt : 0..Bound.all, ws : Spaces, link : Names])
  BY DEF Sound, ClientsTyped
<1>3. /\ Fit(q, h) /\ Same5(q, r) /\ r.pc = "answer" /\ r.cl \in 1..Len(client)
      /\ \/ r.got = 0 /\ q.pc = "call" /\ client' = [client EXCEPT ![r.cl] = [@ EXCEPT !.rt = 0]]
         \/ r.got # 0 /\ Place(q) = "redirect" /\ client' = [client EXCEPT ![r.cl] = [@ EXCEPT !.n = r.got, !.rt = r.got]]
      /\ lock' = [lock EXCEPT ![r.p] = @ \ {Identity(client[r.cl])}]
  <2>1. /\ Fit(q, h) /\ Same5(q, r) /\ r.pc = "answer" /\ r.cl \in 1..Len(client) /\ q.new = r.new
        /\ \/ r.got = 0 /\ q.pc = "call"
           \/ /\ r.got # 0 /\ Place(q) = "redirect"
              /\ q.pc = "reading" \/ (q.pc = "redirect" /\ \E k \in Keys : q.rec = cache[r.p][k])
        /\ lock' = [lock EXCEPT ![r.p] = @ \ {Identity(client[r.cl])}]
    BY <1>r, <1>2, AnswerGoes
  <2>2. client' = [client EXCEPT ![r.cl] = IF r.got = 0 THEN [@ EXCEPT !.rt = 0] ELSE [@ EXCEPT !.n = r.got, !.rt = r.got]]
    BY <1>r DEF TakeAnswer
  <2> QED BY <2>1, <2>2
<1>4. rows' = rows /\ cache' = cache /\ slack' = slack /\ handle' = handle
  BY DEF TakeAnswer
<1>5. Place(r) \in Locked /\ Place(r) \in Using /\ q.p = r.p /\ q.cl = r.cl /\ Place(q) \notin Locked
  BY <1>3 DEF Place, Looking, Locked, Using, SlackIn, Storing, Same5
<1>6. c.n > 0 /\ Client(c, h) /\ r.got \in 0..h
  <2>1. InHand(r, c)
    BY <1>1, <1>2, <1>5 DEF Fit, Using
  <2> QED BY <1>1, <1>2, <1>3, <1>5, <2>1 DEF Fit, Numbered, World, InHand
<1>7. c \in [n : 0..Bound.all, rt : 0..Bound.all, ws : Spaces, link : Names]
  BY <1>1, <1>s, <1>3, Elements
<1>8. /\ \/ r.got = 0 /\ client' = [client EXCEPT ![r.cl] = [c EXCEPT !.rt = 0]]
         \/ r.got # 0 /\ client' = [client EXCEPT ![r.cl] = [c EXCEPT !.n = r.got, !.rt = r.got]]
  BY <1>1, <1>3
<1>9. Len(client') = Len(client) /\ \A k \in 1..Len(client) : k # r.cl => client'[k] = client[k]
  BY <1>s, <1>3, <1>8, ClientSet
<1>10. \/ r.got = 0 /\ d = [c EXCEPT !.rt = 0]
       \/ r.got # 0 /\ d = [c EXCEPT !.n = r.got, !.rt = r.got]
  BY <1>1, <1>s, <1>3, <1>8, ClientSet
<1>11. d.ws = c.ws /\ d.link = c.link /\ d.n \in 0..h /\ d.rt \in {0, d.n} /\ d.n > 0
  <2>1. h \in Nat /\ c.n \in 0..h
    BY <1>2, <1>6 DEF Client, World
  <2>2. CASE r.got = 0 /\ d = [c EXCEPT !.rt = 0]
    <3>1. d.ws = c.ws /\ d.link = c.link /\ d.n = c.n /\ d.rt = 0
      BY <1>7, <2>2
    <3> QED BY <1>6, <2>1, <3>1
  <2>3. CASE r.got # 0 /\ d = [c EXCEPT !.n = r.got, !.rt = r.got]
    <3>1. d.ws = c.ws /\ d.link = c.link /\ d.n = r.got /\ d.rt = r.got
      BY <1>7, <2>3
    <3> QED BY <1>6, <2>1, <2>3, <3>1
  <2> QED BY <1>10, <2>2, <2>3
<1>12. Client(d, h)
  BY <1>6, <1>11 DEF Client, Rooted
<1>13. \A i \in 1..Len(client') : Client(client'[i], h)
  BY <1>1, <1>2, <1>9, <1>12 DEF World
<1>14. World(h)' /\ Lasts
  <2>1. Len(client) \in Nat
    BY <1>2 DEF World
  <2>2. \A i \in 1..Len(client) : /\ client'[i].ws = client[i].ws /\ client'[i].link = client[i].link
                                  /\ client[i].n > 0 => client'[i].n > 0
    BY <1>1, <1>9, <1>11
  <2> QED BY <1>2, <1>4, <1>9, <1>13, <2>1, <2>2, WorldBinds
<1>15. Locks'
  BY <1>1, <1>2, <1>3, <1>5, <1>14, LocksReleased
<1>16. Fit(q, h)'
  BY <1>2, <1>3, <1>14, FitLasts
<1>17. Ordered(h)'
  BY <1>1, <1>2, <1>14, <1>15, <1>16, OrderedAgain
<1>18. Owned'
  BY <1>1, <1>2, <1>4, <1>5, <1>9, OwnedStays
<1> QED BY <1>14, <1>17, <1>18

\* so does a new client, which is of its request's process.
LEMMA BindOrdered ==
  ASSUME NEW h, Sound, Ordered(h), Owned, NEW j \in Jobs, job[j].kind = "slackcall", RequestStep(j), Bind(j)
  PROVE  Ordered(h)' /\ Owned' /\ Lasts
<1>r. PICK r, q : r = job[j] /\ q = job'[j]
  OBVIOUS
<1>1. PICK x : r = job[j] /\ q = job'[j] /\ x = r.rec
  BY <1>r
<1>2. /\ DOMAIN job = Jobs /\ World(h) /\ HandlesTyped /\ Fit(r, h) /\ Knows(r) /\ r.p \in Processes
      /\ (\A k \in Jobs : k # j => job'[k] = job[k])
  BY <1>r, Starts
<1>s. client \in Seq([n : 0..Bound.all, rt : 0..Bound.all, ws : Spaces, link : Names])
  BY DEF Sound, ClientsTyped
<1>3. /\ q.p = r.p /\ q.got = r.got /\ q.spend = r.spend /\ r.pc = "bind" /\ q.pc = "check" /\ q.new = r.new
      /\ q.rec = r.rec /\ q.src = r.src /\ Straight(q) /\ (\A c : InHand(q, c))
      /\ \/ client' = client /\ q.cl \in 1..Len(client)
         \/ /\ client' = Append(client, [n |-> r.rec.n, rt |-> r.rec.n, ws |-> r.rec.ws, link |-> r.rec.link])
            /\ q.cl = Len(client) + 1
  <2>1. /\ q.p = r.p /\ q.kind = r.kind /\ q.got = r.got /\ q.spend = r.spend /\ r.pc = "bind" /\ q.pc = "check" /\ q.new = r.new
        /\ q.rec = r.rec /\ q.src = r.src /\ Straight(q) /\ \A c : InHand(q, c)
        /\ \/ client' = client /\ q.cl \in 1..Len(client)
           \/ /\ client' = Append(client, [n |-> r.rec.n, rt |-> r.rec.n, ws |-> r.rec.ws, link |-> r.rec.link])
              /\ q.cl = Len(client) + 1
    BY <1>r, <1>2, BindGoes
  <2> QED BY <2>1, Zenon
<1>4. rows' = rows /\ cache' = cache /\ slack' = slack /\ lock' = lock
  BY DEF Bind
<1>5. Place(q) = "check" /\ Place(r) = "bind"
  BY <1>3 DEF Place, Looking
<1>6. PICK d : d = [n |-> x.n, rt |-> x.n, ws |-> x.ws, link |-> x.link]
  OBVIOUS
<1>7. x.prov = "slack" /\ Copy(x, h) /\ Client(d, h)
  <2>1. x.prov = "slack" /\ Copy(x, h)
    BY <1>1, <1>2, <1>3 DEF Fit, Numbered
  <2>2. d.n = x.n /\ d.rt = x.n /\ d.ws = x.ws /\ d.link = x.link
    BY <1>6
  <2> QED BY <2>1, <2>2 DEF Copy, Client, Same
<1>8. Len(client) \in Nat /\ \A i \in 1..Len(client) : Client(client[i], h)
  BY <1>2 DEF World
<1>9. /\ Len(client') \in Nat /\ Len(client) <= Len(client') /\ (\A i \in 1..Len(client) : client'[i] = client[i])
      /\ (\A i \in 1..Len(client') : Client(client'[i], h)) /\ q.cl \in 1..Len(client')
      /\ \/ q.cl \in 1..Len(client) /\ Len(client') = Len(client)
         \/ q.cl = Len(client) + 1 /\ Len(client') = q.cl
  <2>1. CASE client' = client /\ q.cl \in 1..Len(client)
    BY <1>8, <2>1
  <2>2. CASE client' = Append(client, d) /\ q.cl = Len(client) + 1
    <3>1. Len(client') = Len(client) + 1 /\ client'[Len(client) + 1] = d /\ \A i \in 1..Len(client) : client'[i] = client[i]
      BY <1>s, <2>2
    <3>2. \A i \in 1..Len(client') : i \in 1..Len(client) \/ i = Len(client) + 1
      BY <1>8, <3>1
    <3>3. \A i \in 1..Len(client') : Client(client'[i], h)
      BY <1>7, <1>8, <3>1, <3>2
    <3> QED BY <1>8, <2>2, <3>1, <3>3
  <2> QED BY <1>1, <1>3, <1>6, <2>1, <2>2
<1>10. World(h)' /\ Lasts
  BY <1>2, <1>4, <1>9, WorldBinds
<1>11. Locks'
  BY <1>1, <1>2, <1>3, <1>4, <1>5, <1>10, LocksStay DEF Locked
<1>12. Fit(q, h)'
  <2>1. Numbered(q, h)
    BY <1>2, <1>3 DEF Fit, Numbered
  <2>2. Numbered(q, h)'
    <3>1. Copy(q.rec, h)' /\ Copy(q.src, h)' /\ Copy(q.new, h)'
      BY <1>2, <1>10, <2>1, CopyLasts DEF Numbered
    <3> QED BY <2>1, <3>1 DEF Numbered
  <2>3. Straight(q)' /\ \A c : InHand(q, c)'
    BY <1>3 DEF Straight, InHand, Place, Of, Identity
  <2>4. q.cl \in 1..Len(client') /\ (q.pc # "bind")
    BY <1>3, <1>9
  <2> QED BY <2>2, <2>3, <2>4 DEF Fit, Place
<1>13. Ordered(h)'
  BY <1>1, <1>2, <1>10, <1>11, <1>12, OrderedAgain
<1>14. Owned'
  <2>1. PICK p, c, a, b : p = r.p /\ c = q.cl /\ a = Entry("source", r.src.id, c) /\ b = Entry("target", x.id, c)
    OBVIOUS
  <2> DEFINE hit == Cached(p, "target", x.id)
  <2>2. /\ c = IF hit # {} THEN (CHOOSE e \in hit : TRUE).c ELSE Len(client) + 1
        /\ client' = IF hit # {} THEN client ELSE Append(client, d)
        /\ Keep(p, {a, b})
    <3>0. DOMAIN r = Fields
      BY <1>2 DEF Knows
    <3>1. PICK i : /\ i = IF hit # {} THEN (CHOOSE e \in hit : TRUE).c ELSE Len(client) + 1
                   /\ q = [r EXCEPT !.cl = i, !.pc = r.goal]
                   /\ client' = IF hit # {} THEN client ELSE Append(client, d)
                   /\ Keep(p, {Entry("source", r.src.id, i), Entry("target", x.id, i)})
      BY <1>1, <1>2, <1>6, <2>1 DEF Bind, Goto
    <3>2. q.cl = i
      BY <3>0, <3>1 DEF Fields
    <3> QED BY <2>1, <3>1, <3>2
  <2>3. a.c = c /\ b.c = c
    BY <2>1 DEF Entry
  <2>4. DOMAIN handle = Processes
    BY <1>2 DEF HandlesTyped
  <2>5. \A u \in Processes : \A e \in handle'[u] : e \in handle[u] \/ (u = p /\ e.c = c)
    BY <1>2, <2>1, <2>2, <2>3, <2>4 DEF Keep
  <2>6. hit # {} => \E e \in handle[p] : e.c = c
    BY <2>2 DEF Cached
  <2>7. \/ c \in 1..Len(client) /\ Len(client') = Len(client) /\ \E e \in handle[p] : e.c = c
        \/ c = Len(client) + 1 /\ Len(client') = c
    <3>1. CASE hit # {}
      BY <1>2, <1>9, <2>1, <2>2, <2>6, <3>1 DEF HandlesTyped
    <3>2. CASE hit = {}
      BY <1>9, <1>8, <2>1, <2>2, <3>2
    <3> QED BY <3>1, <3>2
  <2> HIDE DEF hit
  <2>8. p \in Processes /\ q.p = p /\ q.cl = c
    BY <1>2, <1>3, <2>1
  <2> QED BY <1>1, <1>2, <2>5, <2>7, <2>8, OwnedBinds
<1> QED BY <1>10, <1>13, <1>14

\* The answer of Slack leaves all in order up to the pair it has issued.
LEMMA RotateOrdered ==
  ASSUME NEW h, Sound, Ordered(h), Owned, NEW j \in Jobs, job[j].kind = "slackcall", RequestStep(j), SlackRotates(j),
         NEW i \in Nat, h <= i, i <= slack'.gen, job'[j].got \in 0..i
  PROVE  Ordered(i)' /\ Owned' /\ Lasts
<1>1. PICK r, q : r = job[j] /\ q = job'[j]
  OBVIOUS
<1>2. /\ DOMAIN job = Jobs /\ World(h) /\ Fit(r, h) /\ Knows(r) /\ r.p \in Processes
      /\ (\A k \in Jobs : k # j => job'[k] = job[k])
  BY <1>1, Starts
<1>3. /\ q.p = r.p /\ q.cl = r.cl /\ q.spend = r.spend /\ q.new = r.new /\ q.rec = r.rec /\ q.src = r.src
      /\ r.pc = "refresh" /\ r.cl \in 1..Len(client) /\ Straight(q) /\ InHand(q, client[r.cl]) /\ q.pc \in {"answer", "lost"}
  BY <1>1, <1>2, RotateGoes
<1>4. rows' = rows /\ cache' = cache /\ client' = client /\ lock' = lock /\ handle' = handle
  BY DEF SlackRotates
<1>5. slack'.gen \in Nat /\ slack'.due \in Nat /\ h <= slack'.gen
  <2>1. PICK g, d : g = slack.gen /\ d = slack.due
    OBVIOUS
  <2>2. slack \in [gen : Nat, void : Nat, due : Nat, dead : Nat] /\ g \in Nat /\ d \in Nat /\ h \in Nat /\ h <= g
    BY <1>2, <2>1 DEF Sound, SlackTyped, World
  <2>3. slack' = slack \/ slack' = [slack EXCEPT !.gen = g + 1]
    BY <2>1 DEF SlackRotates
  <2>4. slack'.gen \in {g, g + 1} /\ slack'.due = d
    BY <2>1, <2>2, <2>3
  <2> QED BY <2>2, <2>4
<1>6. World(h)' /\ Lasts
  BY <1>2, <1>4, <1>5, WorldStays DEF World
<1>7. Place(r) = "refresh" /\ Place(q) \in {"answer", "lost"}
  BY <1>3 DEF Place, Looking
<1>8. Locks'
  BY <1>1, <1>2, <1>3, <1>4, <1>6, <1>7, LocksStay DEF Locked
<1>9. World(i)' /\ \A s : Fit(s, h)' => Fit(s, i)'
  BY <1>6, WorldGrows
<1>10. ASSUME NEW k \in Jobs, k # j PROVE Fit(job[k], i)'
  <2>1. PICK s : s = job[k]
    OBVIOUS
  <2>2. Fit(s, h)
    BY <2>1 DEF Ordered
  <2>3. Fit(s, h)'
    BY <1>2, <1>6, <2>2, FitLasts
  <2>4. Fit(s, i)' /\ s = job'[k]
    BY <1>2, <1>9, <1>10, <2>1, <2>3
  <2> QED BY <2>4
<1>11. Fit(q, i)'
  <2>1. Numbered(r, h) /\ Numbered(q, i)'
    <3>1. Numbered(r, h) /\ Fit(r, h)'
      BY <1>2, <1>6, FitLasts DEF Fit
    <3>2. Numbered(r, i)'
      BY <1>9, <3>1 DEF Fit
    <3> QED BY <1>1, <1>3, <3>1, <3>2 DEF Numbered
  <2>2. Straight(q)' /\ q.pc # "bind"
    BY <1>3 DEF Straight, Place
  <2>3. q.cl \in 1..Len(client') /\ InHand(q, client'[q.cl])
    BY <1>3, <1>4
  <2> QED BY <2>1, <2>2, <2>3 DEF Fit, InHand, Place, Of, Identity
<1>12. Ordered(i)'
  <2>1. ASSUME NEW k \in Jobs PROVE Fit(job[k], i)'
    BY <1>1, <1>10, <1>11
  <2> QED BY <1>8, <1>9, <2>1 DEF Ordered
<1>13. Owned'
  BY <1>1, <1>2, <1>3, <1>4, <1>7, OwnedStays DEF Using, SlackIn
<1> QED BY <1>6, <1>12, <1>13

\* Time, and what happens on the platforms.
LEMMA EnvironmentChain ==
  ASSUME Sound, (Environment /\ ~\E p \in Processes : Crash(p)) \/ UNCHANGED tenantVars
  PROVE  /\ rows' = rows /\ job' = job /\ client' = client /\ lock' = lock /\ faults' = faults
         /\ slack'.gen = slack.gen /\ slack'.due \in {slack.due, slack.gen} /\ slack'.due \in Nat
         /\ \A p \in Processes : handle'[p] \subseteq handle[p]
         /\ \A p \in Processes : \A k \in Keys : cache'[p][k] = cache[p][k] \/ cache'[p][k] = NoRow
<1>1. rows' = rows /\ job' = job /\ client' = client /\ lock' = lock /\ faults' = faults
  BY DEF Environment, RecordExpires, HandleExpires, PairDue, PairDies, TokenDue, TokenDies, RemoveFromHubSpot,
     RemoveFromSlack, tenantVars, recordVars, slackVars, hubVars, lifeVars
<1>2. slack'.gen = slack.gen /\ slack'.due \in {slack.due, slack.gen} /\ slack'.due \in Nat
  <2>1. PICK g, d : g = slack.gen /\ d = slack.due
    OBVIOUS
  <2>2. slack \in [gen : Nat, void : Nat, due : Nat, dead : Nat] /\ g \in Nat /\ d \in Nat
    BY <2>1 DEF Sound, SlackTyped
  <2>3. \/ slack' = slack \/ slack' = [slack EXCEPT !.due = g]
        \/ \E n : slack' = [slack EXCEPT !.dead = n] \/ slack' = [slack EXCEPT !.void = n]
    BY <2>1 DEF Environment, RecordExpires, HandleExpires, PairDue, PairDies, TokenDue, TokenDies, RemoveFromHubSpot,
     RemoveFromSlack, tenantVars, recordVars, slackVars, hubVars, lifeVars
  <2>4. slack'.gen = g /\ slack'.due \in {d, g}
    BY <2>1, <2>2, <2>3
  <2> QED BY <2>1, <2>2, <2>4
<1>3. DOMAIN handle = Processes /\ DOMAIN cache = Processes /\ \A p \in Processes : DOMAIN cache[p] = Keys
  BY DEF Sound, HandlesTyped, CacheTyped
<1>4. \A p \in Processes : handle'[p] \subseteq handle[p]
  <2>1. handle' = handle \/ \E p \in Processes : \E e : handle' = [handle EXCEPT ![p] = @ \ {e}]
    BY DEF Environment, RecordExpires, HandleExpires, PairDue, PairDies, TokenDue, TokenDies, RemoveFromHubSpot,
     RemoveFromSlack, tenantVars, recordVars, slackVars, hubVars, lifeVars
  <2> QED BY <1>3, <2>1
<1>5. \A p \in Processes : \A k \in Keys : cache'[p][k] = cache[p][k] \/ cache'[p][k] = NoRow
  <2>1. cache' = cache \/ \E p \in Processes : \E k \in Keys : cache' = [cache EXCEPT ![p][k] = NoRow]
    BY DEF Environment, RecordExpires, HandleExpires, PairDue, PairDies, TokenDue, TokenDies, RemoveFromHubSpot,
     RemoveFromSlack, tenantVars, recordVars, slackVars, hubVars, lifeVars
  <2> QED BY <1>3, <2>1
<1> QED BY <1>1, <1>2, <1>4, <1>5

\* They leave all in order too.
LEMMA EnvironmentOrdered ==
  ASSUME NEW h, Ordered(h), Owned, rows' = rows, job' = job, client' = client, lock' = lock,
         slack'.gen = slack.gen, slack'.due \in Nat, \A p \in Processes : handle'[p] \subseteq handle[p],
         \A p \in Processes : \A k \in Keys : cache'[p][k] = cache[p][k] \/ cache'[p][k] = NoRow
  PROVE  Ordered(h)' /\ Owned' /\ Lasts
<1>1. World(h) /\ Locks
  BY DEF Ordered
<1>2. ASSUME NEW p \in Processes, NEW k \in Keys PROVE Copy(cache'[p][k], h)
  <2>1. Copy(NoRow, h)
    BY DEF Copy, NoRow
  <2>2. Copy(cache[p][k], h)
    BY <1>1 DEF World
  <2>3. PICK x : x = cache'[p][k]
    OBVIOUS
  <2>4. x = cache[p][k] \/ x = NoRow
    BY <2>3
  <2>5. Copy(x, h)
    BY <2>1, <2>2, <2>4
  <2> QED BY <2>3, <2>5
<1>3. World(h)' /\ Lasts
  <2>1. slack'.gen \in Nat /\ h <= slack'.gen
    BY <1>1 DEF World
  <2> QED BY <1>1, <1>2, <2>1, WorldStays
<1>4. Locks'
  BY <1>1 DEF Locks, TheClient
<1>5. ASSUME NEW k \in Jobs PROVE Fit(job[k], h)'
  <2>1. PICK s : s = job[k]
    OBVIOUS
  <2>2. Fit(s, h)
    BY <2>1 DEF Ordered
  <2>3. Fit(s, h)' /\ s = job'[k]
    BY <1>1, <1>3, <2>1, <2>2, FitLasts
  <2> QED BY <2>3
<1>6. Owned'
  <2>1. PICK o \in [1..Len(client) -> Processes] : OwnedBy(o)
    BY DEF Owned
  <2>2. OwnedBy(o)'
    BY <2>1 DEF OwnedBy
  <2> QED BY <2>1, <2>2 DEF Owned
<1> QED BY <1>3, <1>4, <1>5, <1>6 DEF Ordered

----------------------------------------------------------------------------
(* Who has the newest pair, and who may still believe that it is his to    *)
(* rotate.                                                                 *)
OnlyCalls == /\ \A j \in Jobs : job[j].kind = "slackcall"
             /\ \A i, j, k \in Jobs : job[i].p = job[j].p /\ job[j].p = job[k].p => i = j \/ j = k \/ i = k
Mishap == faults \cap {"overlap", "write", "crash"} # {}
Newest(x) == x.n = slack.gen

\* A pair is under way from the answer of Slack until the row has it.
Kept(r) ==
  /\ r.got \in {0, slack.gen}
  /\ r.got # 0 => r.pc = "answer" \/ Place(r) \in Keeping
  /\ Place(r) \in Keeping => r.got # 0
  /\ r.pc = "refresh" /\ r.spend = slack.gen => slack.gen <= slack.due
  /\ r.pc = "forgetting" => \E y \in rows : Same(r.new, y) /\ Newest(y)

\* A lookup of the record finds the newest pair.
Clean(p, k) ==
  /\ \A x \in Matching(k) : Newest(x)
  /\ cache[p][k] = NoRow \/ Newest(cache[p][k])
  /\ \A i \in Jobs : job[i].p = p /\ job[i].pc = "storing" /\ job[i].key = k => Newest(job[i].rec)

\* Who is about to rotate a pair that is not due waits for the request that
\* has just got it, or will find it when it looks again.
Waiting(j) == /\ job[j].pc = "rotate"
              /\ \E i \in Jobs \ {j} : job[i].p = job[j].p /\ job[i].cl = job[j].cl /\ Place(job[i]) \in Keeping
Finding(j) == /\ Clean(job[j].p, <<Identity(TheClient(j)), "slack">>)
              /\ job[j].pc \in {"storing", "relook"} => Newest(job[j].rec)
Warned(j) == Place(job[j]) \in {"rotate", "relook"} /\ TheClient(j).rt = slack.gen /\ slack.gen > slack.due
               => Waiting(j) \/ Finding(j)

\* The newest pair is in a record that is not linked, or on its way there.
Reached == \/ \A x \in rows : x.prov = "slack" => x.n = 0
           \/ \E x \in rows : HasToken(x) /\ x.link = "" /\ Newest(x)
           \/ \E j \in Jobs : job[j].got = slack.gen
Tracked == /\ \A j \in Jobs : Kept(job[j]) /\ Warned(j)
           /\ faults \subseteq {"late", "unheard", "mappings"} => Reached

\* A record that is clean stays so while nothing but the newest is put in it.
LEMMA CleanStays ==
  ASSUME NEW j \in Jobs, \A k \in Jobs : k # j => job'[k] = job[k], NEW q, q = job'[j],
         NEW p, NEW k, Clean(p, k), slack'.gen = slack.gen, \A x \in rows' : x \in rows \/ Newest(x),
         cache'[p][k] \in {cache[p][k], NoRow} \/ Newest(cache'[p][k]),
         q.p = p /\ q.pc = "storing" /\ q.key = k => Newest(q.rec)
  PROVE  Clean(p, k)'
<1>1. \A x \in rows' : x.ws = k[1] /\ x.prov = k[2] => x.n = slack.gen
  BY DEF Clean, Matching, Newest
<1>2. cache'[p][k] = NoRow \/ cache'[p][k].n = slack.gen
  <2>1. PICK x, y : x = cache'[p][k] /\ y = cache[p][k]
    OBVIOUS
  <2>2. y = NoRow \/ y.n = slack.gen
    BY <2>1 DEF Clean, Newest
  <2>3. x \in {y, NoRow} \/ x.n = slack.gen
    BY <2>1 DEF Newest
  <2> QED BY <2>1, <2>2, <2>3
<1>3. ASSUME NEW i \in Jobs, job'[i].p = p, job'[i].pc = "storing", job'[i].key = k PROVE job'[i].rec.n = slack.gen
  <2>1. CASE i = j
    BY <1>3, <2>1 DEF Newest
  <2>2. CASE i # j
    BY <1>3, <2>2 DEF Clean, Newest
  <2> QED BY <2>1, <2>2
<1> QED BY <1>1, <1>2, <1>3 DEF Clean, Matching, Newest

\* A request that does not move stays warned.
LEMMA WarnedStays ==
  ASSUME NEW k \in Jobs, Warned(k), job'[k] = job[k], slack'.gen = slack.gen, slack'.due \in Nat, slack.due \in Nat, slack.gen \in Nat,
         slack.due <= slack'.due,
         NEW c, c = client[job[k].cl], Place(job[k]) \in {"rotate", "relook"} => client'[job[k].cl] = c,
         \A i \in Jobs : Place(job[i]) \in Keeping => Place(job'[i]) \in Keeping /\ job'[i].p = job[i].p /\ job'[i].cl = job[i].cl,
         NEW y, y = <<Identity(c), "slack">>, Place(job[k]) \in {"rotate", "relook"} /\ Clean(job[k].p, y) => Clean(job[k].p, y)'
  PROVE  Warned(k)'
<1> SUFFICES ASSUME Place(job'[k]) \in {"rotate", "relook"}, client'[job'[k].cl].rt = slack'.gen, slack'.gen > slack'.due
             PROVE  Waiting(k)' \/ Finding(k)'
  BY DEF Warned, Place, TheClient
<1>1. PICK r : r = job[k] /\ r = job'[k]
  OBVIOUS
<1>2. Place(r) \in {"rotate", "relook"} /\ c.rt = slack.gen /\ slack.gen > slack.due /\ client'[r.cl] = c /\ client[r.cl] = c
  BY <1>1
<1>3. CASE Waiting(k)
  <2>1. PICK i \in Jobs \ {k} : job[i].p = job[k].p /\ job[i].cl = job[k].cl /\ Place(job[i]) \in Keeping
    BY <1>3 DEF Waiting
  <2>2. Place(job'[i]) \in Keeping /\ job'[i].p = job'[k].p /\ job'[i].cl = job'[k].cl
    BY <2>1
  <2>3. job'[k].pc = "rotate"
    BY <1>3 DEF Waiting
  <2> QED BY <2>1, <2>2, <2>3 DEF Waiting, Place
<1>4. CASE Finding(k)
  <2>1. Clean(r.p, y)' /\ (r.pc \in {"storing", "relook"} => r.rec.n = slack'.gen)
    BY <1>1, <1>2, <1>4 DEF Finding, TheClient, Newest
  <2>2. y = <<Identity(client'[r.cl]), "slack">>
    BY <1>2
  <2>3. Clean(r.p, <<Identity(client[r.cl]), "slack">>)'
    <3>1. PICK z : z = <<Identity(client'[r.cl]), "slack">>
      OBVIOUS
    <3>2. Clean(r.p, z)'
      BY <2>1, <2>2, <3>1
    <3> QED BY <3>1, <3>2 DEF Identity
  <2> QED BY <1>1, <2>1, <2>3 DEF Finding, TheClient, Newest
<1> QED BY <1>1, <1>2, <1>3, <1>4 DEF Warned, TheClient

\* What a request has under way stays the newest.
LEMMA KeptStays ==
  ASSUME NEW r, Kept(r), slack'.gen = slack.gen, slack.gen \in Nat, slack.due \in Nat, slack'.due \in Nat, slack.due <= slack'.due,
         \A y \in rows : Newest(y) => \E z \in rows' : Same(y, z) /\ Newest(z)
  PROVE  Kept(r)'
<1>1. ASSUME r.pc = "forgetting" PROVE \E z \in rows' : Same(r.new, z) /\ z.n = slack'.gen
  <2>1. PICK y \in rows : Same(r.new, y) /\ Newest(y)
    BY <1>1 DEF Kept
  <2>2. PICK z \in rows' : Same(y, z) /\ Newest(z)
    BY <2>1
  <2> QED BY <2>1, <2>2 DEF Same, Newest
<1>2. ASSUME r.pc = "refresh", r.spend = slack'.gen PROVE slack'.gen <= slack'.due
  BY <1>2 DEF Kept
<1>3. r.got \in {0, slack'.gen} /\ (r.got # 0 => r.pc = "answer" \/ Place(r) \in Keeping) /\ (Place(r) \in Keeping => r.got # 0)
  BY DEF Kept
<1> QED BY <1>1, <1>2, <1>3 DEF Kept, Newest, Same, Place

\* Requests that do not move stay warned if their clients and records do.
LEMMA OthersWarned ==
  ASSUME Tracked, Ordered(slack.gen), NEW j \in Jobs, \A k \in Jobs : k # j => job'[k] = job[k], NEW r, r = job[j], NEW q, q = job'[j],
         slack'.gen = slack.gen, slack'.due \in Nat, slack.due <= slack'.due,
         Place(r) \in Keeping => Place(q) \in Keeping /\ q.p = r.p /\ q.cl = r.cl,
         NEW k \in Jobs, k # j,
         NEW c, c = TheClient(k), Place(job[k]) \in {"rotate", "relook"} => client'[job[k].cl] = c,
         NEW y, y = <<Identity(c), "slack">>, Place(job[k]) \in {"rotate", "relook"} /\ Clean(job[k].p, y) => Clean(job[k].p, y)'
  PROVE  Warned(k)'
<1>1. Warned(k) /\ job'[k] = job[k] /\ slack.gen \in Nat /\ slack.due \in Nat /\ c = client[job[k].cl]
  BY DEF Tracked, Ordered, World, TheClient
<1>2. \A i \in Jobs : Place(job[i]) \in Keeping => Place(job'[i]) \in Keeping /\ job'[i].p = job[i].p /\ job'[i].cl = job[i].cl
  OBVIOUS
<1> QED BY <1>1, <1>2, WarnedStays

\* All is tracked again once the request that has moved is.
LEMMA TrackedAgain ==
  ASSUME Tracked, Ordered(slack.gen), NEW j \in Jobs, \A k \in Jobs : k # j => job'[k] = job[k], NEW q, q = job'[j],
         slack'.gen = slack.gen, slack'.due \in Nat, slack.due <= slack'.due,
         \A y \in rows : Newest(y) => \E z \in rows' : Same(y, z) /\ Newest(z),
         \A k \in Jobs : k # j => Warned(k)',
         Kept(q)', Warned(j)', faults' \subseteq {"late", "unheard", "mappings"} => Reached'
  PROVE  Tracked'
<1>1. slack.gen \in Nat /\ slack.due \in Nat
  BY DEF Ordered, World
<1>2. ASSUME NEW k \in Jobs PROVE Kept(job[k])' /\ Warned(k)'
  <2>1. CASE k = j
    BY <2>1
  <2>2. CASE k # j
    <3>1. PICK s : s = job[k]
      OBVIOUS
    <3>2. Kept(s)
      BY <3>1 DEF Tracked
    <3>3. Kept(s)' /\ s = job'[k]
      BY <1>1, <2>2, <3>1, <3>2, KeptStays
    <3> QED BY <2>2, <3>3
  <2> QED BY <2>1, <2>2
<1> QED BY <1>2 DEF Tracked

\* Nothing but the request and its client has changed.
LEMMA TrackedPlain ==
  ASSUME Tracked, Ordered(slack.gen), NEW j \in Jobs, \A k \in Jobs : k # j => job'[k] = job[k],
         NEW r, r = job[j], NEW q, q = job'[j], rows' = rows, cache' = cache, slack' = slack, faults \subseteq faults',
         \A i \in 1..Len(client) : client'[i] = client[i],
         q.pc # "storing", Place(r) \in Keeping => Place(q) \in Keeping /\ q.p = r.p /\ q.cl = r.cl,
         Kept(q), r.got # 0 => q.got = r.got, Place(q) \in {"rotate", "relook"} => Warned(j)'
  PROVE  Tracked'
<1>1. slack.gen \in Nat /\ slack.due \in Nat
  BY DEF Ordered, World
<1>2. Kept(q)'
  BY DEF Kept, Newest, Same, Place
<1>3. ASSUME NEW k \in Jobs, k # j PROVE Warned(k)'
  <2>1. PICK c, y, s, p : c = TheClient(k) /\ y = <<Identity(c), "slack">> /\ s = job[k] /\ p = s.p
    OBVIOUS
  <2>2. Place(s) \in {"rotate", "relook"} => client'[s.cl] = c
    <3>1. Place(s) \in {"rotate", "relook"} => s.cl \in 1..Len(client)
      BY <2>1 DEF Ordered, Fit, SlackIn
    <3> QED BY <2>1, <3>1 DEF TheClient
  <2>3. ASSUME Clean(p, y) PROVE Clean(p, y)'
    BY <1>3, <2>3, CleanStays
  <2> QED BY <1>1, <1>3, <2>1, <2>2, <2>3, OthersWarned
<1>4. Warned(j)'
  BY DEF Warned, Place
<1>5. Reached => Reached'
  <2>1. \A k \in Jobs : job[k].got = slack.gen => job'[k].got = slack.gen
    <3>1. \E n \in Nat : n = slack.gen
      BY <1>1
    <3>2. r.got = slack.gen /\ r.got = 0 => q.got = slack.gen
      BY DEF Kept
    <3>3. ASSUME NEW k \in Jobs, job[k].got = slack.gen PROVE job'[k].got = slack.gen
      BY <3>2, <3>3
    <3> QED BY <3>3
  <2> QED BY <2>1 DEF Reached, HasToken, Newest
<1>6. \A y \in rows : Newest(y) => \E z \in rows' : Same(y, z) /\ Newest(z)
  BY DEF Same
<1>7. faults' \subseteq {"late", "unheard", "mappings"} => Reached'
  BY <1>5 DEF Tracked
<1>8. slack'.gen = slack.gen /\ slack'.due \in Nat /\ slack.due <= slack'.due
  BY <1>1
<1> QED BY <1>2, <1>3, <1>4, <1>6, <1>7, <1>8, TrackedAgain

\* A request that has no pair in hand keeps nothing,
LEMMA KeptLight ==
  ASSUME NEW q, q.got = 0, Place(q) \notin Keeping, q.pc # "refresh"
  PROVE  Kept(q)
  BY DEF Kept, Place, Keeping, Storing, Looking

\* and one that keeps nothing has none in hand.
LEMMA Light ==
  ASSUME NEW r, Kept(r), r.pc # "answer", Place(r) \notin Keeping
  PROVE  r.got = 0
  BY DEF Kept

\* A step inside a request keeps the pair it has,
LEMMA InsideKept ==
  ASSUME NEW h, h = slack.gen, h <= slack.due + 1, World(h), HandlesTyped, NEW j \in Jobs, DOMAIN job = Jobs, NEW r, r = job[j], Fit(r, h), Knows(r),
         Kept(r), Warned(j), NEW q, q = job'[j], Inside(j), ~ReadRow(j)
  PROVE  /\ Kept(q) /\ q.pc # "storing" /\ (Place(r) \in Keeping => Place(q) \in Keeping /\ q.p = r.p /\ q.cl = r.cl)
         /\ r.got # 0 => q.got = r.got
         /\ Place(q) \in {"rotate", "relook"} => Place(q) = "rotate" /\ Near(client[q.cl].n) /\ client[q.cl].rt = client[q.cl].n
<1> USE DEF Storing, Keeping, Looking
<1>2. CASE Resolve(j)
  <2>1. r.pc = "slack" /\ q.got = r.got /\ Place(q) \in {"check", "pivot", "bind"} /\ (q.pc \notin Looking \/ q.pc = "reading")
    BY <1>2, ResolveGoes
  <2>2. Place(r) = "slack" /\ q.pc # "storing" /\ q.pc # "refresh"
    BY <2>1 DEF Place
  <2>3. q.got = 0
    BY <2>1, <2>2, Light
  <2> QED BY <2>1, <2>2, <2>3, KeptLight
<1>3. CASE Pivot(j)
  <2>1. r.pc = "pivot" /\ q.got = r.got /\ q.pc \in {"bind", "end"}
    BY <1>3, PivotGoes DEF Same5
  <2>2. Place(r) = "pivot" /\ Place(q) = q.pc
    BY <2>1 DEF Place
  <2>3. q.got = 0
    BY <2>1, <2>2, Light
  <2> QED BY <2>1, <2>2, <2>3, KeptLight
<1>4. CASE Check(j)
  <2>1. r.pc = "check" /\ q.got = r.got /\ q.cl = r.cl /\ q.pc \in {"rotate", "call"}
        /\ (q.pc = "rotate" => Near(client[r.cl].n) /\ client[r.cl].rt = client[r.cl].n)
    BY <1>4, CheckGoes DEF Same5
  <2>2. Place(r) = "check" /\ Place(q) = q.pc
    BY <2>1 DEF Place
  <2>3. q.got = 0
    BY <2>1, <2>2, Light
  <2> QED BY <2>1, <2>2, <2>3, KeptLight
<1>5. CASE Relook(j)
  <2>1. /\ r.pc = "relook" /\ r.rec.prov = "slack" /\ r.cl \in 1..Len(client) /\ q.cl = r.cl
        /\ \/ q.pc = "answer" /\ q.got = r.rec.n /\ q.got > slack.due
           \/ q.pc = "refresh" /\ q.spend = client[r.cl].rt /\ q.got = r.got /\ (r.rec.n = 0 \/ Near(r.rec.n))
    BY <1>5, RelookGoes
  <2>2. Place(r) = "relook" /\ Place(q) = q.pc /\ r.got = 0
    <3>1. Place(r) = "relook" /\ Place(q) = q.pc
      BY <2>1 DEF Place
    <3> QED BY <2>1, <3>1, Light
  <2>3. PICK n, g, d : n = r.rec.n /\ g = slack.gen /\ d = slack.due
    OBVIOUS
  <2>4. n \in 0..g /\ g \in Nat /\ d \in Nat
    BY <2>1, <2>3 DEF Fit, Numbered, Copy, World
  <2>5. CASE q.pc = "answer" /\ q.got = r.rec.n /\ q.got > slack.due
    <3>1. q.got = g
      BY <2>3, <2>4, <2>5
    <3> QED BY <2>2, <2>3, <2>5, <3>1 DEF Kept
  <2>6. CASE q.pc = "refresh" /\ q.spend = client[r.cl].rt /\ q.got = r.got /\ (r.rec.n = 0 \/ Near(r.rec.n))
    <3>1. ASSUME q.spend = g, ~(g <= d) PROVE FALSE
      <4>1. Waiting(j) \/ Finding(j)
        BY <2>2, <2>3, <2>4, <2>6, <3>1 DEF Warned, TheClient
      <4>2. n = g
        BY <2>1, <2>3, <4>1 DEF Waiting, Finding, Newest
      <4> QED BY <2>3, <2>4, <2>6, <3>1, <4>2 DEF Near
    <3> QED BY <2>2, <2>3, <2>6, <3>1 DEF Kept
  <2> QED BY <2>1, <2>5, <2>6
<1>6. CASE Redirect(j)
  <2>1. Same5(q, r) /\ r.pc = "redirect" /\ Place(q) = "persist" /\ (q.pc = "reading" \/ q.pc = "persist")
    BY <1>6, RedirectGoes
  <2>2. Place(r) = "redirect"
    BY <2>1 DEF Place
  <2> QED BY <2>1, <2>2 DEF Kept, Same5
<1>7. CASE Persist(j)
  <2>1. Same5(q, r) /\ r.pc = "persist" /\ q.pc = "writing"
    BY <1>7, PersistGoes
  <2>2. Place(r) = "persist" /\ Place(q) = "writing"
    BY <2>1 DEF Place
  <2> QED BY <2>1, <2>2 DEF Kept, Same5
<1>8. CASE SlackCall(j)
  <2>1. r.pc = "call" /\ q.got = r.got /\ q.pc \in {"check", "end"}
    BY <1>8, SlackCallGoes DEF Same5
  <2>2. Place(r) = "call" /\ Place(q) = q.pc
    BY <2>1 DEF Place
  <2>3. q.got = 0
    BY <2>1, <2>2, Light
  <2> QED BY <2>1, <2>2, <2>3, KeptLight
<1>9. CASE BeginCall(j)
  <2>1. r.pc = "slackcall" /\ q.got = r.got /\ Place(q) = "source" /\ (q.pc = "source" \/ q.pc = "reading")
    BY <1>9, BeginGoes DEF Same5
  <2>2. Place(r) = "slackcall"
    BY <2>1 DEF Place
  <2>3. q.got = 0
    BY <2>1, <2>2, Light
  <2> QED BY <2>1, <2>2, <2>3, KeptLight
<1>10. CASE Source(j)
  <2>1. r.pc = "source" /\ q.got \in {0, r.got} /\ q.pc \in {"failed", "slack"}
    BY <1>10, SourceGoes
  <2>2. Place(r) = "source" /\ Place(q) = q.pc
    BY <2>1 DEF Place
  <2>3. q.got = 0 /\ r.got = 0
    BY <2>1, <2>2, Light
  <2> QED BY <2>1, <2>2, <2>3, KeptLight
<1>11. CASE End(j)
  <2>1. r.pc = "end" /\ q.got = 0 /\ q.pc \in {"done", "failed"}
    BY <1>11, EndGoes
  <2>2. Place(r) = "end" /\ Place(q) = q.pc
    BY <2>1 DEF Place
  <2>3. r.got = 0
    BY <2>1, <2>2, Light
  <2> QED BY <2>1, <2>2, <2>3, KeptLight
<1> QED BY <1>2, <1>3, <1>4, <1>5, <1>6, <1>7, <1>8, <1>9, <1>10, <1>11 DEF Inside

\* and all is tracked.
LEMMA InsideTracked ==
  ASSUME Sound, Ordered(slack.gen), slack.gen <= slack.due + 1, Tracked, NEW j \in Jobs, job[j].kind = "slackcall", RequestStep(j),
         Inside(j), ~ReadRow(j)
  PROVE  Tracked'
<1>1. PICK h, r, q : h = slack.gen /\ r = job[j] /\ q = job'[j]
  OBVIOUS
<1>2. /\ DOMAIN job = Jobs /\ World(h) /\ HandlesTyped /\ Fit(r, h) /\ Knows(r)
      /\ (\A k \in Jobs : k # j => job'[k] = job[k])
  BY <1>1, Starts
<1>3. Kept(r) /\ Warned(j)
  BY <1>1 DEF Tracked
<1>4. /\ Kept(q) /\ q.pc # "storing" /\ (Place(r) \in Keeping => Place(q) \in Keeping /\ q.p = r.p /\ q.cl = r.cl)
      /\ r.got # 0 => q.got = r.got
      /\ Place(q) \in {"rotate", "relook"} => Place(q) = "rotate" /\ Near(client[q.cl].n) /\ client[q.cl].rt = client[q.cl].n
  BY <1>1, <1>2, <1>3, InsideKept
<1>5. rows' = rows /\ cache' = cache /\ slack' = slack /\ client' = client /\ faults' = faults
  BY DEF Inside, Resolve, Pivot, Check, Relook, Redirect, Persist, SlackCall, BeginCall, Source, End, slackVars
<1>6. Place(q) \in {"rotate", "relook"} => Warned(j)'
  <2>1. PICK c : c = client[q.cl]
    OBVIOUS
  <2>2. slack.gen \in Nat /\ slack.due \in Nat
    BY <1>1, <1>2 DEF World
  <2>3. ASSUME Place(q) \in {"rotate", "relook"} PROVE ~(c.rt = slack.gen /\ slack.gen > slack.due)
    BY <1>4, <2>1, <2>2, <2>3 DEF Near
  <2> QED BY <1>1, <1>5, <2>1, <2>3 DEF Warned, TheClient
<1> QED BY <1>1, <1>2, <1>4, <1>5, <1>6, TrackedPlain

\* It is tracked when a client is bound,
LEMMA BindTracked ==
  ASSUME Sound, Ordered(slack.gen), Tracked, NEW j \in Jobs, job[j].kind = "slackcall", RequestStep(j), Bind(j)
  PROVE  Tracked'
<1>1. PICK h, r, q : h = slack.gen /\ r = job[j] /\ q = job'[j]
  OBVIOUS
<1>2. /\ DOMAIN job = Jobs /\ World(h) /\ HandlesTyped /\ Fit(r, h) /\ Knows(r)
      /\ (\A k \in Jobs : k # j => job'[k] = job[k])
  BY <1>1, Starts
<1>3. Kept(r)
  BY <1>1 DEF Tracked
<1>4. /\ q.got = r.got /\ r.pc = "bind" /\ q.pc = "check"
      /\ \/ client' = client
         \/ client' = Append(client, [n |-> r.rec.n, rt |-> r.rec.n, ws |-> r.rec.ws, link |-> r.rec.link])
  BY <1>1, <1>2, BindGoes
<1>5. Place(r) = "bind" /\ Place(q) = "check"
  BY <1>4 DEF Place, Looking
<1>6. Kept(q) /\ r.got = 0
  BY <1>3, <1>4, <1>5, KeptLight, Light DEF Keeping, Storing
<1>7. rows' = rows /\ cache' = cache /\ slack' = slack /\ faults' = faults
  BY DEF Bind
<1>8. \A i \in 1..Len(client) : client'[i] = client[i]
  <2>1. client \in Seq([n : 0..Bound.all, rt : 0..Bound.all, ws : Spaces, link : Names])
    BY DEF Sound, ClientsTyped
  <2> QED BY <1>4, <2>1
<1>9. q.pc # "storing" /\ Place(r) \notin Keeping /\ Place(q) \notin {"rotate", "relook"}
  BY <1>4, <1>5 DEF Keeping, Storing
<1> QED BY <1>1, <1>2, <1>6, <1>7, <1>8, <1>9, TrackedPlain

\* when an answer is lost,
LEMMA LoseTracked ==
  ASSUME Sound, Ordered(slack.gen), Tracked, NEW j \in Jobs, job[j].kind = "slackcall", RequestStep(j), LoseAnswer(j)
  PROVE  Tracked'
<1>1. PICK h, r, q : h = slack.gen /\ r = job[j] /\ q = job'[j]
  OBVIOUS
<1>2. /\ DOMAIN job = Jobs /\ World(h) /\ Fit(r, h) /\ Knows(r)
      /\ (\A k \in Jobs : k # j => job'[k] = job[k])
  BY <1>1, Starts
<1>3. Kept(r)
  BY <1>1 DEF Tracked
<1>4. q.got = r.got /\ r.pc = "lost" /\ q.pc = "end"
  BY <1>1, <1>2, LoseGoes DEF Same5
<1>5. Place(r) = "lost" /\ Place(q) = "end"
  BY <1>4 DEF Place, Looking
<1>6. Kept(q) /\ r.got = 0
  BY <1>3, <1>4, <1>5, KeptLight, Light DEF Keeping, Storing
<1>7. rows' = rows /\ cache' = cache /\ slack' = slack /\ faults' = faults /\ client' = client
  BY DEF LoseAnswer
<1>8. q.pc # "storing" /\ Place(r) \notin Keeping /\ Place(q) \notin {"rotate", "relook"}
  BY <1>4, <1>5 DEF Keeping, Storing
<1> QED BY <1>1, <1>2, <1>6, <1>7, <1>8, TrackedPlain

\* when the lock is taken: whoever takes it finds the newest pair,
LEMMA TakeTracked ==
  ASSUME Sound, Ordered(slack.gen), Tracked, NEW j \in Jobs, job[j].kind = "slackcall", RequestStep(j), TakeLock(j)
  PROVE  Mishap' \/ Tracked'
<1>1. PICK h, r, q : h = slack.gen /\ r = job[j] /\ q = job'[j]
  OBVIOUS
<1>2. /\ DOMAIN job = Jobs /\ World(h) /\ Fit(r, h) /\ Knows(r) /\ r.p \in Processes
      /\ (\A k \in Jobs : k # j => job'[k] = job[k])
  BY <1>1, Starts
<1>3. /\ Same5(q, r) /\ r.pc = "rotate" /\ Place(q) = "relook" /\ r.cl \in 1..Len(client)
      /\ q.key = <<Identity(client[r.cl]), "slack">>
      /\ \/ q.pc = "relook" /\ q.rec = cache[r.p][q.key] /\ q.rec # NoRow
         \/ q.pc = "reading" /\ q.ret = "relook"
  BY <1>1, <1>2, TakeGoes
<1>4. rows' = rows /\ cache' = cache /\ slack' = slack /\ client' = client /\ faults' = faults \cup Overlap
  BY DEF TakeLock
<1>5. CASE \E k \in Jobs : Carries(k)
  BY <1>4, <1>5 DEF Overlap, Mishap
<1>6. CASE ~\E k \in Jobs : Carries(k)
  <2>1. Place(r) = "rotate" /\ q.pc \in {"relook", "reading"}
    BY <1>3 DEF Place, Looking
  <2>2. Kept(r) /\ r.got = 0 /\ Kept(q)
    <3>1. Kept(r)
      BY <1>1 DEF Tracked
    <3>2. r.got = 0
      BY <1>3, <2>1, <3>1, Light DEF Keeping, Storing
    <3> QED BY <1>3, <2>1, <3>1, <3>2, KeptLight DEF Keeping, Storing, Same5
  <2>3. Warned(j)'
    <3> SUFFICES ASSUME client'[q.cl].rt = slack'.gen, slack'.gen > slack'.due PROVE Finding(j)'
      BY <1>1 DEF Warned, TheClient
    <3>1. PICK c, y : c = client[r.cl] /\ y = <<Identity(c), "slack">>
      OBVIOUS
    <3>2. c.rt = slack.gen /\ slack.gen > slack.due /\ q.p = r.p /\ q.cl = r.cl
      BY <1>3, <1>4, <3>1 DEF Same5
    <3>3. Waiting(j) \/ Finding(j)
      BY <1>1, <2>1, <3>1, <3>2 DEF Tracked, Warned, TheClient
    <3>4. ~Waiting(j)
      BY <1>6 DEF Waiting, Tracked, Kept, Carries
    <3>5. Clean(r.p, y)
      BY <1>1, <3>1, <3>3, <3>4 DEF Finding, TheClient
    <3>6. Clean(r.p, y)'
      BY <1>1, <1>2, <1>4, <2>1, <3>5, CleanStays
    <3>7. q.pc \in {"storing", "relook"} => q.rec.n = slack.gen
      BY <1>3, <2>1, <3>1, <3>5 DEF Clean, Newest
    <3>8. Clean(r.p, <<Identity(client[r.cl]), "slack">>)'
      <4>1. PICK z : z = <<Identity(client'[r.cl]), "slack">>
        OBVIOUS
      <4>2. z = y
        BY <1>4, <3>1, <4>1
      <4>3. Clean(r.p, z)'
        BY <3>6, <4>2
      <4> QED BY <4>1, <4>3 DEF Identity
    <3> QED BY <1>1, <1>4, <3>2, <3>7, <3>8 DEF Finding, TheClient, Newest
  <2>4. q.pc # "storing" /\ Place(r) \notin Keeping
    BY <2>1 DEF Keeping, Storing
  <2>5. Tracked'
    BY <1>1, <1>2, <1>4, <2>2, <2>3, <2>4, TrackedPlain
  <2> QED BY <2>5
<1> QED BY <1>5, <1>6

\* The client of a request that is about to rotate.
LEMMA Rotates ==
  ASSUME Sound, NEW h, Ordered(h), NEW k \in Jobs, Place(job[k]) \in {"rotate", "relook"}, NEW c, c = TheClient(k),
         NEW y, y = <<Identity(c), "slack">>
  PROVE  /\ job[k].cl \in 1..Len(client) /\ c = client[job[k].cl] /\ c.n > 0 /\ Matching(y) # {}
         /\ y \in Keys /\ job[k].p \in Processes
<1>1. PICK s : s = job[k]
  OBVIOUS
<1>2. s.cl \in 1..Len(client) /\ c = client[s.cl] /\ InHand(s, c)
  BY <1>1 DEF Ordered, Fit, SlackIn, TheClient
<1>3. c.n > 0
  BY <1>1, <1>2 DEF InHand, Locked
<1>4. World(h) /\ Client(c, h)
  BY <1>2 DEF Ordered, World
<1>5. \A z : Leads(z, c) => Matching(z) # {}
  BY <1>4, RowThere
<1>6. Leads(y, c)
  BY <1>3 DEF Leads
<1>7. Identity(c) \in Spaces
  BY <1>2, Named
<1>8. y \in Keys
  BY <1>7 DEF Keys, Spaces
<1>9. s.p \in Processes
  BY <1>1 DEF Sound, Good, Sane, Typed
<1> QED BY <1>1, <1>2, <1>3, <1>5, <1>6, <1>8, <1>9

\* when a row is read, for what is clean is read clean,
LEMMA ReadTracked ==
  ASSUME Sound, Ordered(slack.gen), Tracked, NEW j \in Jobs, job[j].kind = "slackcall", RequestStep(j), ReadRow(j)
  PROVE  Tracked'
<1>1. PICK h, r, q : h = slack.gen /\ r = job[j] /\ q = job'[j]
  OBVIOUS
<1>2. /\ DOMAIN job = Jobs /\ World(h) /\ Fit(r, h) /\ Knows(r) /\ r.p \in Processes
      /\ (\A k \in Jobs : k # j => job'[k] = job[k])
  BY <1>1, Starts
<1>3. /\ Same5(q, r) /\ r.pc = "reading" /\ q.pc = "storing" /\ q.ret = r.ret /\ q.key = r.key /\ q.new = r.new
      /\ q.rec \in Answers(r.key)
  BY <1>1, <1>2, ReadGoes
<1>4. rows' = rows /\ cache' = cache /\ slack' = slack /\ client' = client /\ faults' = faults
  <2>1. RecordStep(j) /\ ~SlackStep(j) /\ ~HubStep(j) /\ ~LifeStep(j)
    BY Recording
  <2> QED BY <2>1 DEF RequestStep, ReadRow, slackVars
<1>5. slack'.gen = slack.gen /\ slack'.due \in Nat /\ slack.due <= slack'.due
  BY <1>1, <1>2, <1>4 DEF World
<1>6. Place(q) = r.ret /\ Place(r) = r.ret /\ r.ret # "rotate"
  BY <1>2, <1>3 DEF Place, Looking, Fit, Straight
<1>7. \A p, y : Clean(p, y) /\ Matching(y) # {} => Clean(p, y)' /\ (q.key = y => Newest(q.rec))
  <2>1. ASSUME NEW p, NEW y, Clean(p, y), Matching(y) # {} PROVE Clean(p, y)' /\ (q.key = y => Newest(q.rec))
    <3>1. q.key = y => Newest(q.rec)
      BY <1>3, <2>1 DEF Answers, Clean
    <3>2. Clean(p, y)'
      BY <1>1, <1>2, <1>4, <1>5, <2>1, <3>1, CleanStays
    <3> QED BY <3>1, <3>2
  <2> QED BY <2>1
<1>8. ASSUME NEW k \in Jobs, k # j PROVE Warned(k)'
  <2>1. PICK c, y : c = TheClient(k) /\ y = <<Identity(c), "slack">>
    OBVIOUS
  <2>2. Place(job[k]) \in {"rotate", "relook"} => client'[job[k].cl] = c
    BY <1>4, <2>1 DEF TheClient
  <2>3. Place(job[k]) \in {"rotate", "relook"} /\ Clean(job[k].p, y) => Clean(job[k].p, y)'
    <3>1. ASSUME Place(job[k]) \in {"rotate", "relook"} PROVE Matching(y) # {}
      BY <2>1, <3>1, Rotates
    <3>2. PICK p : p = job[k].p /\ p = job'[k].p
      BY <1>2, <1>8
    <3>3. Place(job[k]) \in {"rotate", "relook"} /\ Clean(p, y) => Clean(p, y)'
      BY <1>7, <3>1
    <3> QED BY <3>2, <3>3
  <2>4. Place(r) \in Keeping => Place(q) \in Keeping /\ q.p = r.p /\ q.cl = r.cl
    BY <1>3, <1>6 DEF Same5
  <2> QED BY <1>1, <1>2, <1>5, <1>8, <2>1, <2>2, <2>3, <2>4, OthersWarned
<1>9. Warned(j)'
  <2> SUFFICES ASSUME Place(q) \in {"rotate", "relook"}, client'[q.cl].rt = slack'.gen, slack'.gen > slack'.due PROVE Finding(j)'
    BY <1>1 DEF Warned, TheClient, Place
  <2>1. PICK c, y : c = client[r.cl] /\ y = <<Identity(c), "slack">>
    OBVIOUS
  <2>2. Place(r) = "relook" /\ c = TheClient(j) /\ c.rt = slack.gen /\ slack.gen > slack.due /\ q.p = r.p /\ q.cl = r.cl
    BY <1>1, <1>3, <1>4, <1>6, <2>1 DEF Same5, TheClient
  <2>3. Finding(j)
    BY <1>1, <1>3, <2>2 DEF Tracked, Warned, Waiting
  <2>4. Clean(r.p, y) /\ Matching(y) # {}
    BY <1>1, <2>1, <2>2, <2>3, Rotates DEF Finding
  <2>5. Clean(r.p, y)' /\ (q.key = y => Newest(q.rec))
    BY <1>7, <2>4
  <2>6. q.key = y
    <3>1. InHand(r, c)
      BY <1>2, <2>1, <2>2 DEF Fit, SlackIn
    <3> QED BY <1>3, <1>6, <2>1, <2>2, <3>1 DEF InHand, Looking
  <2>7. Clean(r.p, <<Identity(client[r.cl]), "slack">>)'
    <3>1. PICK z : z = <<Identity(client'[r.cl]), "slack">>
      OBVIOUS
    <3>2. z = y
      BY <1>4, <2>1, <3>1
    <3>3. Clean(r.p, z)'
      BY <2>5, <3>2
    <3> QED BY <3>1, <3>3 DEF Identity
  <2> QED BY <1>1, <1>4, <2>2, <2>5, <2>6, <2>7 DEF Finding, TheClient, Newest
<1>10. Kept(q)'
  <2>1. Kept(r)
    BY <1>1 DEF Tracked
  <2>2. Kept(q)
    BY <1>3, <1>6, <2>1 DEF Kept, Same5
  <2> QED BY <1>4, <2>2 DEF Kept, Newest, Same, Place
<1>11. faults' \subseteq {"late", "unheard", "mappings"} => Reached'
  <2>1. \A k \in Jobs : job'[k].got = job[k].got
    BY <1>1, <1>2, <1>3 DEF Same5
  <2> QED BY <1>4, <2>1 DEF Tracked, Reached, HasToken, Newest
<1>12. \A y \in rows : Newest(y) => \E z \in rows' : Same(y, z) /\ Newest(z)
  BY <1>4 DEF Same
<1> QED BY <1>1, <1>2, <1>5, <1>8, <1>9, <1>10, <1>11, <1>12, TrackedAgain

\* when the cache takes what was read,
LEMMA StoreTracked ==
  ASSUME Sound, Ordered(slack.gen), Tracked, NEW j \in Jobs, job[j].kind = "slackcall", RequestStep(j), StoreRecord(j)
  PROVE  Tracked'
<1>1. PICK h, r, q : h = slack.gen /\ r = job[j] /\ q = job'[j]
  OBVIOUS
<1>2. /\ DOMAIN job = Jobs /\ World(h) /\ Fit(r, h) /\ Knows(r) /\ r.p \in Processes
      /\ (\A k \in Jobs : k # j => job'[k] = job[k])
      /\ DOMAIN cache = Processes /\ (\A p \in Processes : DOMAIN cache[p] = Keys)
  BY <1>1, Starts
<1>3. Same5(q, r) /\ r.pc = "storing" /\ q.pc = r.ret /\ Place(q) = Place(r) /\ q.rec = r.rec /\ q.new = r.new
  BY <1>1, <1>2, StoreGoes
<1>4. /\ rows' = rows /\ slack' = slack /\ client' = client /\ faults' = faults
      /\ cache' = cache \/ cache' = [cache EXCEPT ![r.p][r.key] = r.rec]
  <2>1. RecordStep(j) /\ ~SlackStep(j) /\ ~HubStep(j) /\ ~LifeStep(j)
    BY Recording
  <2> QED BY <1>1, <2>1 DEF RequestStep, StoreRecord, slackVars
<1>5. slack'.gen = slack.gen /\ slack'.due \in Nat /\ slack.due <= slack'.due
  BY <1>1, <1>2, <1>4 DEF World
<1>6. q.pc # "storing" /\ Place(r) = r.ret /\ r.ret # "rotate"
  BY <1>2, <1>3 DEF Place, Looking, Fit, Straight
<1>7. ASSUME NEW p \in Processes, NEW y \in Keys, Clean(p, y) PROVE Clean(p, y)'
  <2>1. cache'[p][y] = cache[p][y] \/ (p = r.p /\ y = r.key /\ cache'[p][y] = r.rec)
    BY <1>2, <1>4
  <2>2. p = r.p /\ y = r.key => Newest(r.rec)
    BY <1>1, <1>3, <1>7 DEF Clean
  <2>3. cache'[p][y] \in {cache[p][y], NoRow} \/ Newest(cache'[p][y])
    BY <2>1, <2>2
  <2> QED BY <1>1, <1>2, <1>4, <1>5, <1>6, <1>7, <2>3, CleanStays
<1>8. ASSUME NEW k \in Jobs, k # j PROVE Warned(k)'
  <2>1. PICK c, y : c = TheClient(k) /\ y = <<Identity(c), "slack">>
    OBVIOUS
  <2>2. Place(job[k]) \in {"rotate", "relook"} => client'[job[k].cl] = c
    BY <1>4, <2>1 DEF TheClient
  <2>3. Place(job[k]) \in {"rotate", "relook"} /\ Clean(job[k].p, y) => Clean(job[k].p, y)'
    <3>1. ASSUME Place(job[k]) \in {"rotate", "relook"} PROVE y \in Keys /\ job[k].p \in Processes
      BY <2>1, <3>1, Rotates
    <3>2. PICK p : p = job[k].p /\ p = job'[k].p
      BY <1>2, <1>8
    <3>3. Place(job[k]) \in {"rotate", "relook"} /\ Clean(p, y) => Clean(p, y)'
      BY <1>7, <3>1, <3>2
    <3> QED BY <3>2, <3>3
  <2>4. Place(r) \in Keeping => Place(q) \in Keeping /\ q.p = r.p /\ q.cl = r.cl
    BY <1>3 DEF Same5
  <2> QED BY <1>1, <1>2, <1>5, <1>8, <2>1, <2>2, <2>3, <2>4, OthersWarned
<1>9. Warned(j)'
  <2> SUFFICES ASSUME Place(q) \in {"rotate", "relook"}, client'[q.cl].rt = slack'.gen, slack'.gen > slack'.due PROVE Finding(j)'
    BY <1>1 DEF Warned, TheClient, Place
  <2>1. PICK c, y : c = client[r.cl] /\ y = <<Identity(c), "slack">>
    OBVIOUS
  <2>2. Place(r) = "relook" /\ c = TheClient(j) /\ c.rt = slack.gen /\ slack.gen > slack.due /\ q.p = r.p /\ q.cl = r.cl
    BY <1>1, <1>3, <1>4, <1>6, <2>1 DEF Same5, TheClient
  <2>3. Finding(j)
    BY <1>1, <1>3, <2>2 DEF Tracked, Warned, Waiting
  <2>4. Clean(r.p, y) /\ Newest(r.rec) /\ y \in Keys
    BY <1>1, <1>3, <2>1, <2>2, <2>3, Rotates DEF Finding
  <2>5. Clean(r.p, y)'
    BY <1>2, <1>7, <2>4
  <2>7. Clean(r.p, <<Identity(client[r.cl]), "slack">>)'
    <3>1. PICK z : z = <<Identity(client'[r.cl]), "slack">>
      OBVIOUS
    <3>2. z = y
      BY <1>4, <2>1, <3>1
    <3>3. Clean(r.p, z)'
      BY <2>5, <3>2
    <3> QED BY <3>1, <3>3 DEF Identity
  <2> QED BY <1>1, <1>3, <1>4, <2>2, <2>4, <2>7 DEF Finding, TheClient, Newest
<1>10. Kept(q)'
  <2>1. Kept(r)
    BY <1>1 DEF Tracked
  <2>2. r.got # 0 => Place(r) \in Keeping
    BY <1>3, <2>1 DEF Kept
  <2>3. q.pc # "refresh" /\ q.pc # "forgetting" /\ q.got = r.got
    BY <1>2, <1>3 DEF Fit, Straight, Looking, Same5
  <2>4. Kept(q)
    BY <1>3, <2>1, <2>2, <2>3 DEF Kept
  <2> QED BY <1>4, <2>4 DEF Kept, Newest, Same, Place
<1>11. faults' \subseteq {"late", "unheard", "mappings"} => Reached'
  <2>1. \A k \in Jobs : job'[k].got = job[k].got
    BY <1>1, <1>2, <1>3 DEF Same5
  <2> QED BY <1>4, <2>1 DEF Tracked, Reached, HasToken, Newest
<1>12. \A y \in rows : Newest(y) => \E z \in rows' : Same(y, z) /\ Newest(z)
  BY <1>4 DEF Same
<1> QED BY <1>1, <1>2, <1>5, <1>8, <1>9, <1>10, <1>11, <1>12, TrackedAgain

\* when the row gets the newest pair,
LEMMA WriteTracked ==
  ASSUME Sound, Ordered(slack.gen), Tracked, NEW j \in Jobs, job[j].kind = "slackcall", RequestStep(j), WriteRow(j)
  PROVE  Tracked'
<1>1. PICK h, r, q : h = slack.gen /\ r = job[j] /\ q = job'[j]
  OBVIOUS
<1>2. /\ DOMAIN job = Jobs /\ World(h) /\ Fit(r, h) /\ Knows(r) /\ r.p \in Processes
      /\ (\A k \in Jobs : k # j => job'[k] = job[k])
  BY <1>1, Starts
<1>3. /\ Same5(q, r) /\ r.pc = "writing" /\ q.pc = "forgetting" /\ q.new = r.new
      /\ rows' = {y \in rows : y.id # r.new.id} \cup {r.new}
  BY <1>1, <1>2, WriteGoes
<1>4. cache' = cache /\ slack' = slack /\ client' = client
  <2>1. RecordStep(j) /\ ~SlackStep(j) /\ ~HubStep(j) /\ ~LifeStep(j)
    BY Recording
  <2> QED BY <2>1 DEF RequestStep, WriteRow, slackVars
<1>5. slack'.gen = slack.gen /\ slack'.due \in Nat /\ slack.due <= slack'.due
  BY <1>1, <1>2, <1>4 DEF World
<1>6. Place(r) = "writing" /\ Place(q) = "forgetting"
  BY <1>3 DEF Place, Looking
<1>7. r.got = slack.gen /\ r.got # 0 /\ slack.gen > 0 /\ r.new.n = slack.gen /\ r.new.prov = "slack" /\ r.new.link = "" /\ Copy(r.new, h)
  <2>1. Kept(r)
    BY <1>1 DEF Tracked
  <2>2. PICK c : c = client[r.cl]
    OBVIOUS
  <2>3. InHand(r, c)
    BY <1>2, <1>6, <2>2 DEF Fit, Storing
  <2>4. r.got # 0 /\ r.got = slack.gen
    BY <1>6, <2>1 DEF Kept, Keeping, Storing
  <2>5. slack.gen \in Nat
    BY <1>1, <1>2 DEF World
  <2>6. Copy(r.new, h)
    BY <1>2 DEF Fit, Numbered
  <2>7. r.pc = "writing"
    BY <1>3
  <2>8. Of(r.new, Identity(c)) /\ r.new.n = r.got /\ r.new.link = ""
    BY <2>3, <2>7 DEF InHand, Storing
  <2>9. r.new.prov = "slack"
    BY <2>8 DEF Of
  <2>10. slack.gen > 0
    <3>1. PICK g : g = slack.gen
      OBVIOUS
    <3>2. g # 0 /\ g \in Nat
      BY <2>4, <2>5, <3>1
    <3>3. g > 0
      BY <3>2
    <3> QED BY <3>1, <3>3
  <2> QED BY <2>4, <2>6, <2>8, <2>9, <2>10
<1>8. \A y \in rows : Newest(y) => \E z \in rows' : Same(y, z) /\ Newest(z)
  <2>1. PICK u \in rows : Same(r.new, u)
    BY <1>7 DEF Copy
  <2>2. \A y \in rows : y.id = r.new.id => y = u
    BY <1>2, <2>1 DEF World, Single, Same
  <2>3. ASSUME NEW y \in rows, Newest(y) PROVE \E z \in rows' : Same(y, z) /\ Newest(z)
    BY <1>3, <1>7, <2>1, <2>2, <2>3 DEF Same, Newest
  <2> QED BY <2>3
<1>9. ASSUME NEW k \in Jobs, k # j PROVE Warned(k)'
  <2>1. PICK c, y, p : c = TheClient(k) /\ y = <<Identity(c), "slack">> /\ p = job[k].p /\ p = job'[k].p
    BY <1>2, <1>9
  <2>2. client'[job[k].cl] = c
    BY <1>4, <2>1 DEF TheClient
  <2>3. Clean(p, y) => Clean(p, y)'
    <3>1. \A x \in rows' : x \in rows \/ Newest(x)
      BY <1>3, <1>7 DEF Newest
    <3> QED BY <1>1, <1>2, <1>3, <1>4, <1>5, <3>1, CleanStays
  <2>4. Place(r) \in Keeping => Place(q) \in Keeping /\ q.p = r.p /\ q.cl = r.cl
    BY <1>3, <1>6 DEF Same5, Keeping, Storing
  <2> QED BY <1>1, <1>2, <1>5, <1>9, <2>1, <2>2, <2>3, <2>4, OthersWarned
<1>10. Warned(j)'
  BY <1>1, <1>6 DEF Warned, Place
<1>11. Kept(q)'
  <2>0. q.got = r.got
    BY <1>3 DEF Same5
  <2>1. q.got = slack'.gen /\ q.got # 0 /\ Place(q) \in Keeping /\ q.pc # "refresh"
    <3>1. q.got = slack'.gen /\ q.got # 0
      BY <1>5, <1>7, <2>0
    <3> QED BY <1>3, <1>6, <3>1 DEF Keeping, Storing
  <2>2. q.new \in rows' /\ Same(q.new, q.new) /\ q.new.n = slack'.gen
    BY <1>3, <1>4, <1>7 DEF Same
  <2> QED BY <2>1, <2>2 DEF Kept, Newest, Same, Place
<1>12. Reached'
  BY <1>3, <1>4, <1>7 DEF Reached, HasToken, Newest
<1> QED BY <1>1, <1>2, <1>5, <1>8, <1>9, <1>10, <1>11, <1>12, TrackedAgain

\* when the cache forgets what was stale: the one other request of the
\* instance waits, or has nothing stale in hand,
LEMMA ForgetTracked ==
  ASSUME Sound, Ordered(slack.gen), OnlyCalls, Tracked, NEW j \in Jobs, job[j].kind = "slackcall", RequestStep(j), Forget(j)
  PROVE  Tracked'
<1>1. PICK h, r, q : h = slack.gen /\ r = job[j] /\ q = job'[j]
  OBVIOUS
<1>2. /\ DOMAIN job = Jobs /\ World(h) /\ Fit(r, h) /\ Knows(r) /\ r.p \in Processes
      /\ (\A k \in Jobs : k # j => job'[k] = job[k])
      /\ DOMAIN cache = Processes /\ (\A p \in Processes : DOMAIN cache[p] = Keys)
  BY <1>1, Starts
<1>3. q.p = r.p /\ q.cl = r.cl /\ q.got = 0 /\ q.pc = "call" /\ r.pc = "forgetting"
  BY <1>1, <1>2, ForgetGoes
<1>4. /\ rows' = rows /\ slack' = slack /\ client' = client /\ faults' = faults
      /\ cache' = [cache EXCEPT ![r.p][r.key] = NoRow]
  <2>1. RecordStep(j) /\ ~SlackStep(j) /\ ~HubStep(j) /\ ~LifeStep(j)
    BY Recording
  <2> QED BY <1>1, <2>1 DEF RequestStep, Forget, slackVars
<1>5. slack'.gen = slack.gen /\ slack'.due \in Nat /\ slack.due <= slack'.due /\ slack.gen \in Nat
  BY <1>1, <1>2, <1>4 DEF World
<1>6. Place(r) = "forgetting" /\ Place(q) = "call"
  BY <1>3 DEF Place, Looking
<1>7. PICK c, y : c = client[r.cl] /\ y = <<Identity(c), "slack">>
  OBVIOUS
<1>8. r.key = y /\ r.cl \in 1..Len(client) /\ Of(r.new, Identity(c)) /\ r.new.link = ""
  <2>1. InHand(r, c) /\ r.cl \in 1..Len(client)
    BY <1>2, <1>6, <1>7 DEF Fit, Storing
  <2> QED BY <1>3, <1>7, <2>1 DEF InHand, Storing
<1>9. PICK x \in rows : Same(r.new, x) /\ Newest(x)
  BY <1>1, <1>3 DEF Tracked, Kept
<1>10. x.prov = "slack" /\ x.ws = Identity(c) /\ x.link = ""
  BY <1>8, <1>9 DEF Of, Same
<1>11. ASSUME NEW p \in Processes, NEW z \in Keys, Clean(p, z) PROVE Clean(p, z)'
  <2>1. cache'[p][z] \in {cache[p][z], NoRow}
    BY <1>2, <1>4
  <2> QED BY <1>1, <1>2, <1>3, <1>4, <1>5, <1>11, <2>1, CleanStays
<1>12. ASSUME NEW k \in Jobs, k # j PROVE Warned(k)'
  <2> SUFFICES ASSUME Place(job'[k]) \in {"rotate", "relook"}, client'[job'[k].cl].rt = slack'.gen, slack'.gen > slack'.due
               PROVE  Waiting(k)' \/ Finding(k)'
    BY DEF Warned, Place, TheClient
  <2>1. PICK s, d, z, p : s = job[k] /\ s = job'[k] /\ d = TheClient(k) /\ z = <<Identity(d), "slack">> /\ p = s.p
    BY <1>2, <1>12
  <2>2. Place(s) \in {"rotate", "relook"} /\ d.rt = slack.gen /\ slack.gen > slack.due /\ d = client'[s.cl] /\ d = client[s.cl]
    BY <1>4, <2>1 DEF TheClient
  <2>3. Waiting(k) \/ Finding(k)
    BY <2>1, <2>2 DEF Tracked, Warned
  <2>4. z \in Keys /\ p \in Processes
    BY <2>1, <2>2, Rotates
  <2>5. ASSUME Clean(p, z)', s.pc \in {"storing", "relook"} => s.rec.n = slack.gen PROVE Finding(k)'
    <3>1. Clean(p, <<Identity(client[s.cl]), "slack">>)'
      <4>1. PICK u : u = <<Identity(client'[s.cl]), "slack">>
        OBVIOUS
      <4>2. u = z
        BY <2>1, <2>2, <4>1
      <4>3. Clean(p, u)'
        BY <2>5, <4>2
      <4> QED BY <4>1, <4>3 DEF Identity
    <3> QED BY <1>5, <2>1, <2>5, <3>1 DEF Finding, TheClient, Newest
  <2>6. CASE Finding(k)
    <3>1. Clean(p, z) /\ (s.pc \in {"storing", "relook"} => s.rec.n = slack.gen)
      BY <2>1, <2>6 DEF Finding, Newest
    <3> QED BY <1>11, <2>4, <2>5, <3>1
  <2>7. CASE Waiting(k)
    <3>1. s.pc = "rotate"
      BY <2>1, <2>7 DEF Waiting
    <3>2. PICK i \in Jobs \ {k} : job[i].p = s.p /\ job[i].cl = s.cl /\ Place(job[i]) \in Keeping
      BY <2>1, <2>7 DEF Waiting
    <3>3. CASE i # j
      <4>1. job'[i] = job[i] /\ job'[k] = s
        BY <1>2, <2>1, <3>2, <3>3
      <4> QED BY <3>1, <3>2, <4>1 DEF Waiting, Place
    <3>4. CASE i = j
      <4>1. z = y /\ p = r.p
        BY <1>1, <1>7, <2>1, <2>2, <3>2, <3>4
      <4>2. \A u \in rows' : u.ws = z[1] /\ u.prov = z[2] => u.n = slack'.gen
        <5>1. z[1] = x.ws /\ z[2] = "slack"
          BY <1>7, <1>10, <4>1
        <5> QED BY <1>2, <1>4, <1>9, <1>10, <5>1 DEF World, Single, Newest
      <4>3. cache'[p][z] = NoRow
        BY <1>2, <1>4, <1>8, <2>4, <4>1
      <4>4. \A l \in Jobs : job'[l].p = p => job'[l].pc # "storing"
        <5>1. \A l \in Jobs : job'[l].p = p => l = j \/ l = k
          <6>1. \A l \in Jobs : job'[l].p = p => job[l].p = p
            BY <1>1, <1>2, <1>3
          <6>2. job[j].p = p /\ job[k].p = p
            BY <1>1, <2>1, <4>1
          <6> QED BY <1>12, <6>1, <6>2 DEF OnlyCalls
        <5> QED BY <1>1, <1>3, <2>1, <3>1, <5>1
      <4>5. Clean(p, z)'
        BY <4>2, <4>3, <4>4 DEF Clean, Matching, Newest
      <4> QED BY <2>5, <3>1, <4>5
    <3> QED BY <3>3, <3>4
  <2> QED BY <2>3, <2>6, <2>7
<1>13. Warned(j)'
  BY <1>1, <1>6 DEF Warned, Place
<1>14. Kept(q)'
  <2>1. Kept(q)
    BY <1>3, <1>6, KeptLight DEF Keeping, Storing
  <2> QED BY <1>4, <2>1 DEF Kept, Newest, Same, Place
<1>15. faults' \subseteq {"late", "unheard", "mappings"} => Reached'
  <2>1. CASE slack.gen = 0
    <3>1. \A u \in rows : u.prov = "slack" => u.n = 0
      BY <1>1, <1>2, <2>1 DEF World, Copy
    <3> QED BY <1>4, <3>1 DEF Reached
  <2>2. CASE slack.gen > 0
    <3>1. HasToken(x) /\ x.n = slack'.gen
      BY <1>5, <1>9, <1>10, <2>2 DEF HasToken, Newest
    <3> QED BY <1>4, <1>9, <1>10, <3>1 DEF Reached, HasToken, Newest
  <2> QED BY <1>5, <2>1, <2>2
<1>16. \A u \in rows : Newest(u) => \E z \in rows' : Same(u, z) /\ Newest(z)
  BY <1>4 DEF Same
<1> QED BY <1>1, <1>2, <1>5, <1>12, <1>13, <1>14, <1>15, <1>16, TrackedAgain

\* and when the client gets the newest pair.
LEMMA AnswerTracked ==
  ASSUME Sound, Ordered(slack.gen), slack.gen >= 1, Owned, Tracked, NEW j \in Jobs, job[j].kind = "slackcall", RequestStep(j), TakeAnswer(j)
  PROVE  Tracked'
<1>1. PICK h, r, q : h = slack.gen /\ r = job[j] /\ q = job'[j]
  OBVIOUS
<1>2. /\ DOMAIN job = Jobs /\ World(h) /\ Locks /\ Fit(r, h) /\ Knows(r) /\ r.p \in Processes
      /\ (\A k \in Jobs : k # j => job'[k] = job[k])
  BY <1>1, Starts
<1>s. client \in Seq([n : 0..Bound.all, rt : 0..Bound.all, ws : Spaces, link : Names])
  BY DEF Sound, ClientsTyped
<1>3. /\ Same5(q, r) /\ r.pc = "answer" /\ r.cl \in 1..Len(client)
      /\ \/ r.got = 0 /\ q.pc = "call"
         \/ /\ r.got # 0 /\ Place(q) = "redirect"
            /\ q.pc \in {"reading", "redirect"}
  BY <1>1, <1>2, AnswerGoes
<1>4. rows' = rows /\ cache' = cache /\ slack' = slack /\ faults' = faults
  BY DEF TakeAnswer
<1>5. slack'.gen = slack.gen /\ slack'.due \in Nat /\ slack.due <= slack'.due /\ slack.gen \in Nat
  BY <1>1, <1>2, <1>4 DEF World
<1>6. Place(r) = "answer" /\ r.got \in {0, slack.gen}
  <2>1. Kept(r)
    BY <1>1 DEF Tracked
  <2> QED BY <1>3, <2>1 DEF Place, Looking, Kept
<1>7. /\ \A i \in 1..Len(client) : i # r.cl => client'[i] = client[i]
      /\ r.got = 0 => client'[r.cl].rt = 0
  <2>1. PICK c, d : c = client[r.cl] /\ d = IF r.got = 0 THEN [c EXCEPT !.rt = 0] ELSE [c EXCEPT !.n = r.got, !.rt = r.got]
    OBVIOUS
  <2>2. client' = [client EXCEPT ![r.cl] = d]
    BY <1>1, <2>1 DEF TakeAnswer
  <2>3. c \in [n : 0..Bound.all, rt : 0..Bound.all, ws : Spaces, link : Names]
    BY <1>s, <1>3, <2>1, Elements
  <2>4. client'[r.cl] = d /\ \A i \in 1..Len(client) : i # r.cl => client'[i] = client[i]
    BY <1>s, <1>3, <2>2, ClientSet
  <2>5. r.got = 0 => d.rt = 0
    BY <2>1, <2>3
  <2> QED BY <2>4, <2>5
<1>8. ASSUME NEW p, NEW y, Clean(p, y) PROVE Clean(p, y)'
  <2>1. q.pc # "storing"
    BY <1>3
  <2> QED BY <1>1, <1>2, <1>4, <1>5, <1>8, <2>1, CleanStays
<1>9. ASSUME NEW k \in Jobs, k # j PROVE Warned(k)'
  <2> SUFFICES ASSUME Place(job'[k]) \in {"rotate", "relook"}, client'[job'[k].cl].rt = slack'.gen PROVE Warned(k)'
    BY DEF Warned, Place, TheClient
  <2>1. PICK s, c, y, p : s = job[k] /\ s = job'[k] /\ c = TheClient(k) /\ y = <<Identity(c), "slack">> /\ p = s.p
    BY <1>2, <1>9
  <2>2. s.cl \in 1..Len(client) /\ c = client[s.cl]
    BY <2>1, Rotates
  <2>3. CASE s.cl # r.cl
    <3>1. client'[job[k].cl] = c
      BY <1>7, <2>1, <2>2, <2>3
    <3>2. Place(r) \notin Keeping
      BY <1>6 DEF Keeping, Storing
    <3> QED BY <1>1, <1>2, <1>5, <1>8, <1>9, <2>1, <3>1, <3>2, OthersWarned
  <2>4. CASE s.cl = r.cl
    <3>1. r.got # 0
      BY <1>5, <1>7, <2>1, <2>4
    <3>2. p = r.p
      <4>1. PICK o \in [1..Len(client) -> Processes] : OwnedBy(o)
        BY DEF Owned
      <4>2. Place(s) \in Using /\ Place(r) \in Using
        BY <1>6, <2>1 DEF Using, SlackIn
      <4> QED BY <1>1, <2>1, <2>4, <4>1, <4>2 DEF OwnedBy
    <3>3. Place(s) # "relook"
      <4>1. ASSUME Place(s) = "relook" PROVE FALSE
        <5>1. Place(job[k]) \in Locked /\ Place(job[j]) \in Locked /\ job[k].p = job[j].p /\ TheClient(k) = TheClient(j)
          BY <1>1, <1>6, <2>1, <2>4, <3>2, <4>1 DEF Locked, TheClient
        <5>2. k = j
          BY <1>2, <5>1 DEF Locks
        <5> QED BY <1>9, <5>2
      <4> QED BY <4>1
    <3>4. s.pc = "rotate"
      <4>1. Fit(s, h)
        BY <1>1, <2>1 DEF Ordered
      <4> QED BY <2>1, <3>3, <4>1 DEF Fit, Straight, Place, Looking
    <3>5. job'[j].p = job'[k].p /\ job'[j].cl = job'[k].cl /\ Place(job'[j]) \in Keeping /\ job'[k].pc = "rotate"
      BY <1>1, <1>3, <2>1, <2>4, <3>1, <3>2, <3>4 DEF Same5, Keeping
    <3>6. Waiting(k)'
      BY <1>9, <3>5 DEF Waiting, Place
    <3> QED BY <3>6 DEF Warned, TheClient
  <2> QED BY <2>3, <2>4
<1>10. Place(q) \notin {"rotate", "relook"} /\ q.got = r.got /\ q.pc # "refresh" /\ q.pc # "forgetting"
       /\ (r.got = 0 => Place(q) \notin Keeping) /\ (r.got # 0 => Place(q) \in Keeping)
  BY <1>3 DEF Place, Looking, Same5, Keeping, Storing
<1>11. Warned(j)'
  BY <1>1, <1>10 DEF Warned, Place
<1>12. Kept(q)'
  <2>1. Kept(q)
    BY <1>6, <1>10 DEF Kept
  <2> QED BY <1>4, <2>1 DEF Kept, Newest, Same, Place
<1>13. faults' \subseteq {"late", "unheard", "mappings"} => Reached'
  <2>1. \A k \in Jobs : job'[k].got = job[k].got
    BY <1>1, <1>2, <1>10
  <2> QED BY <1>4, <2>1 DEF Tracked, Reached, HasToken, Newest
<1>14. \A y \in rows : Newest(y) => \E z \in rows' : Same(y, z) /\ Newest(z)
  BY <1>4 DEF Same
<1> QED BY <1>1, <1>2, <1>5, <1>9, <1>11, <1>12, <1>13, <1>14, TrackedAgain

\* Slack rotates: the chain grows, or its answer is lost,
LEMMA RotateTracked ==
  ASSUME Sound, Ordered(slack.gen), slack.gen >= 1, Tracked, NEW j \in Jobs, job[j].kind = "slackcall", RequestStep(j), SlackRotates(j),
         job[j].spend = slack.gen, slack.gen > slack.void
  PROVE  /\ slack.gen <= slack.due /\ slack'.gen = slack.gen + 1 /\ slack'.due = slack.due
         /\ \/ job'[j].pc = "lost" /\ job'[j].got = 0 /\ "answer" \in faults'
            \/ job'[j].got = slack'.gen /\ (Mishap' \/ Tracked')
<1>1. PICK h, r, q : h = slack.gen /\ r = job[j] /\ q = job'[j]
  OBVIOUS
<1>2. /\ DOMAIN job = Jobs /\ World(h) /\ Fit(r, h) /\ Knows(r)
      /\ (\A k \in Jobs : k # j => job'[k] = job[k])
  BY <1>1, Starts
<1>3. /\ r.pc = "refresh"
      /\ \/ q.pc = "answer" /\ q.got = IF r.spend = slack.gen /\ slack.gen > slack.void THEN slack.gen + 1 ELSE 0
         \/ q.pc = "lost" /\ q.got = r.got /\ "answer" \in faults'
      /\ slack' = IF r.spend = slack.gen /\ slack.gen > slack.void THEN [slack EXCEPT !.gen = @ + 1] ELSE slack
  BY <1>1, <1>2, RotateGoes
<1>4. Kept(r) /\ Place(r) = "refresh" /\ r.got = 0 /\ slack.gen <= slack.due
  <2>1. Kept(r)
    BY <1>1 DEF Tracked
  <2>2. Place(r) = "refresh"
    BY <1>3 DEF Place, Looking
  <2>3. r.got = 0
    BY <1>3, <2>1, <2>2, Light DEF Keeping, Storing
  <2> QED BY <1>1, <1>3, <2>1, <2>2, <2>3 DEF Kept
<1>5. PICK g : g = slack.gen /\ g \in Nat
  BY <1>1, <1>2 DEF World
<1>6. slack'.gen = g + 1 /\ slack'.due = slack.due
  <2>1. slack \in [gen : Nat, void : Nat, due : Nat, dead : Nat]
    BY DEF Sound, SlackTyped
  <2>2. slack' = [slack EXCEPT !.gen = g + 1]
    BY <1>1, <1>3, <1>5
  <2> QED BY <2>1, <2>2
<1>7. CASE q.pc = "lost" /\ q.got = r.got /\ "answer" \in faults'
  BY <1>1, <1>4, <1>5, <1>6, <1>7
<1>8. CASE q.pc = "answer" /\ q.got = g + 1
  <2>1. rows' = rows /\ client' = client
    BY DEF SlackRotates
  <2>2. faults' = faults \cup Overlap
    <3>1. q # [r EXCEPT !.pc = "lost"]
      <4>1. "pc" \in DOMAIN r
        BY <1>2 DEF Knows, Fields
      <4> QED BY <1>8, <4>1
    <3> QED BY <1>1, <1>2, <3>1 DEF SlackRotates, Goto
  <2>3. CASE \E k \in Jobs : Carries(k)
    <3>1. Mishap'
      BY <2>2, <2>3 DEF Overlap, Mishap
    <3> QED BY <1>1, <1>4, <1>5, <1>6, <1>8, <3>1
  <2>4. CASE ~\E k \in Jobs : Carries(k)
    <3>1. ASSUME NEW k \in Jobs, k # j PROVE Kept(job[k])' /\ Warned(k)'
      <4>1. PICK s : s = job[k] /\ s = job'[k]
        BY <1>2, <3>1
      <4>2. Kept(s) /\ Fit(s, g) /\ s.got = 0
        BY <1>5, <2>4, <4>1 DEF Tracked, Ordered, Carries
      <4>3. s.spend # slack'.gen
        BY <1>5, <1>6, <4>2 DEF Fit, Numbered
      <4>4. Place(s) \notin Keeping /\ s.pc # "forgetting"
        <5>1. Place(s) \notin Keeping
          BY <4>2 DEF Kept
        <5> QED BY <5>1 DEF Place, Looking, Keeping, Storing
      <4>5. Kept(s)'
        BY <4>2, <4>3, <4>4 DEF Kept, Place
      <4>6. Place(s) \in {"rotate", "relook"} => client'[s.cl].rt # slack'.gen
        <5>1. ASSUME Place(s) \in {"rotate", "relook"} PROVE client'[s.cl].rt # slack'.gen
          <6>1. s.cl \in 1..Len(client)
            BY <4>2, <5>1 DEF Fit, SlackIn
          <6>2. PICK c : c = client[s.cl] /\ c = client'[s.cl]
            BY <2>1
          <6>3. Client(c, g)
            BY <1>1, <1>2, <1>5, <6>1, <6>2 DEF World
          <6>4. c.rt \in 0..g
            BY <1>5, <6>3 DEF Client
          <6> QED BY <1>5, <1>6, <6>2, <6>4
        <5> QED BY <5>1
      <4>7. Warned(k)'
        BY <4>1, <4>6 DEF Warned, TheClient, Place
      <4> QED BY <4>1, <4>5, <4>7
    <3>2. Place(q) = "answer"
      BY <1>8 DEF Place, Looking
    <3>3. Kept(q)'
      BY <1>5, <1>6, <1>8, <3>2 DEF Kept, Place, Keeping, Storing
    <3>4. Warned(j)'
      BY <1>1, <3>2 DEF Warned, Place
    <3>5. Reached'
      BY <1>1, <1>6, <1>8 DEF Reached
    <3>6. \A k \in Jobs : Kept(job[k])' /\ Warned(k)'
      BY <1>1, <3>1, <3>3, <3>4
    <3>7. Tracked'
      BY <3>5, <3>6 DEF Tracked
    <3> QED BY <1>1, <1>4, <1>5, <1>6, <1>8, <3>7
  <2> QED BY <2>3, <2>4
<1> QED BY <1>1, <1>3, <1>5, <1>7, <1>8

\* or it refuses.
LEMMA RefuseTracked ==
  ASSUME Sound, Ordered(slack.gen), Tracked, NEW j \in Jobs, job[j].kind = "slackcall", RequestStep(j), SlackRotates(j),
         ~(job[j].spend = slack.gen /\ slack.gen > slack.void)
  PROVE  slack' = slack /\ job'[j].got = 0 /\ Tracked'
<1>1. PICK h, r, q : h = slack.gen /\ r = job[j] /\ q = job'[j]
  OBVIOUS
<1>2. /\ DOMAIN job = Jobs /\ World(h) /\ Fit(r, h) /\ Knows(r)
      /\ (\A k \in Jobs : k # j => job'[k] = job[k])
  BY <1>1, Starts
<1>3. /\ r.pc = "refresh"
      /\ \/ q.pc = "answer" /\ q.got = IF r.spend = slack.gen /\ slack.gen > slack.void THEN slack.gen + 1 ELSE 0
         \/ q.pc = "lost" /\ q.got = r.got /\ "answer" \in faults'
      /\ slack' = IF r.spend = slack.gen /\ slack.gen > slack.void THEN [slack EXCEPT !.gen = @ + 1] ELSE slack
  BY <1>1, <1>2, RotateGoes
<1>4. Place(r) = "refresh" /\ r.got = 0
  <2>1. Kept(r)
    BY <1>1 DEF Tracked
  <2>2. Place(r) = "refresh"
    BY <1>3 DEF Place, Looking
  <2> QED BY <1>3, <2>1, <2>2, Light DEF Keeping, Storing
<1>5. q.got = 0 /\ q.pc \in {"answer", "lost"} /\ slack' = slack
  BY <1>1, <1>3, <1>4
<1>6. Place(q) = q.pc
  BY <1>5 DEF Place, Looking
<1>7. Kept(q)
  BY <1>5, <1>6, KeptLight DEF Keeping, Storing
<1>8. rows' = rows /\ cache' = cache /\ client' = client /\ faults \subseteq faults'
  BY DEF SlackRotates
<1>9. q.pc # "storing" /\ Place(r) \notin Keeping /\ Place(q) \notin {"rotate", "relook"}
  BY <1>4, <1>5, <1>6 DEF Keeping, Storing
<1>10. Tracked'
  BY <1>1, <1>2, <1>4, <1>5, <1>7, <1>8, <1>9, TrackedPlain
<1> QED BY <1>1, <1>5, <1>10

\* It is tracked while time passes and caches forget.
LEMMA EnvironmentTracked ==
  ASSUME Sound, Ordered(slack.gen), Tracked, rows' = rows, job' = job, client' = client, faults' = faults,
         slack'.gen = slack.gen, slack'.due \in {slack.due, slack.gen},
         \A p \in Processes : \A k \in Keys : cache'[p][k] = cache[p][k] \/ cache'[p][k] = NoRow
  PROVE  Tracked'
<1>1. slack.gen \in Nat /\ slack.due \in Nat /\ slack'.due \in Nat /\ slack.due <= slack'.due
  <2>1. slack.due <= slack.gen /\ slack.gen \in Nat /\ slack.due \in Nat
    BY DEF Sound, SlackTyped
  <2> QED BY <2>1
<1>2. ASSUME NEW k \in Jobs PROVE Warned(k)'
  <2>1. PICK c, y, p : c = TheClient(k) /\ y = <<Identity(c), "slack">> /\ p = job[k].p /\ p = job'[k].p
    OBVIOUS
  <2>2. Place(job[k]) \in {"rotate", "relook"} /\ Clean(p, y) => Clean(p, y)'
    <3>1. ASSUME Place(job[k]) \in {"rotate", "relook"}, Clean(p, y) PROVE Clean(p, y)'
      <4>1. y \in Keys /\ p \in Processes
        BY <2>1, <3>1, Rotates
      <4>2. PICK u, v : u = cache'[p][y] /\ v = cache[p][y]
        OBVIOUS
      <4>3. u = v \/ u = NoRow
        BY <4>1, <4>2
      <4>4. v = NoRow \/ v.n = slack.gen
        BY <3>1, <4>2 DEF Clean, Newest
      <4>5. u = NoRow \/ u.n = slack.gen
        BY <4>3, <4>4
      <4>6. (\A x \in Matching(y) : Newest(x))' /\ (\A i \in Jobs : job[i].p = p /\ job[i].pc = "storing" /\ job[i].key = y => Newest(job[i].rec))'
        BY <3>1 DEF Clean, Newest, Matching
      <4> QED BY <4>2, <4>5, <4>6 DEF Clean, Newest
    <3> QED BY <3>1
  <2>3. Warned(k) /\ c = client[job[k].cl] /\ client'[job[k].cl] = c
    BY <2>1 DEF Tracked, TheClient
  <2>4. \A i \in Jobs : Place(job[i]) \in Keeping => Place(job'[i]) \in Keeping /\ job'[i].p = job[i].p /\ job'[i].cl = job[i].cl
    OBVIOUS
  <2> QED BY <1>1, <2>1, <2>2, <2>3, <2>4, WarnedStays
<1>3. ASSUME NEW k \in Jobs PROVE Kept(job[k])'
  <2>1. PICK s : s = job[k] /\ s = job'[k]
    OBVIOUS
  <2>2. Kept(s)
    BY <2>1 DEF Tracked
  <2>3. \A y \in rows : Newest(y) => \E z \in rows' : Same(y, z) /\ Newest(z)
    BY DEF Same
  <2>4. Kept(s)'
    BY <1>1, <2>2, <2>3, KeptStays
  <2> QED BY <2>1, <2>4
<1>4. faults' \subseteq {"late", "unheard", "mappings"} => Reached'
  BY DEF Tracked, Reached, HasToken, Newest
<1> QED BY <1>2, <1>3, <1>4 DEF Tracked

----------------------------------------------------------------------------
(* All of it together.                                                     *)

\* No step of a call but the answer of Slack changes what Slack has issued,
\* none where the call runs.
LEMMA StepOrdered ==
  ASSUME NEW h, Sound, Ordered(h), Owned, NEW j \in Jobs, job[j].kind = "slackcall", RequestStep(j), ~WriteFails(j), ~SlackRotates(j)
  PROVE  Ordered(h)' /\ Owned' /\ slack' = slack
<1>1. PICK r : r = job[j]
  OBVIOUS
<1>2. Straight(r)
  BY <1>1, Starts DEF Fit
<1>3. ReadRow(j) \/ StoreRecord(j) \/ WriteRow(j) \/ Forget(j) \/ SlackStep(j)
  BY <1>1, <1>2, OnlyCallSteps
<1>4. Ordered(h)' /\ Owned'
  <2>1. CASE ReadRow(j)
    BY <2>1, InsideOrdered DEF Inside
  <2>2. CASE StoreRecord(j) \/ Forget(j)
    BY <2>2, CacheOrdered
  <2>3. CASE WriteRow(j)
    BY <2>3, WriteOrdered
  <2>4. CASE SlackStep(j)
    <3>1. Inside(j) \/ Bind(j) \/ TakeLock(j) \/ TakeAnswer(j) \/ LoseAnswer(j)
      BY <2>4 DEF SlackStep, Inside
    <3> QED BY <3>1, InsideOrdered, BindOrdered, TakeOrdered, AnswerOrdered, LoseOrdered
  <2> QED BY <1>3, <2>1, <2>2, <2>3, <2>4
<1>5. slack' = slack
  <2>1. CASE ReadRow(j) \/ StoreRecord(j) \/ WriteRow(j) \/ Forget(j)
    <3>1. ~SlackStep(j) /\ ~HubStep(j) /\ ~LifeStep(j)
      BY <2>1, Recording
    <3> QED BY <3>1 DEF RequestStep, slackVars
  <2>2. CASE SlackStep(j)
    BY <2>2 DEF SlackStep, Resolve, Pivot, Bind, Check, TakeLock, Relook, TakeAnswer, LoseAnswer, Redirect, Persist,
       SlackCall, BeginCall, Source, End, slackVars
  <2> QED BY <1>3, <2>1, <2>2
<1> QED BY <1>4, <1>5

\* A call stays in its process.
LEMMA SamePlace ==
  ASSUME NEW h, Sound, Ordered(h), NEW j \in Jobs, job[j].kind = "slackcall", RequestStep(j), ~WriteFails(j)
  PROVE  job'[j].p = job[j].p
<1>1. PICK r, q : r = job[j] /\ q = job'[j]
  OBVIOUS
<1>2. DOMAIN job = Jobs /\ World(h) /\ HandlesTyped /\ Fit(r, h) /\ Knows(r)
  BY <1>1, Starts
<1>3. ReadRow(j) \/ StoreRecord(j) \/ WriteRow(j) \/ Forget(j) \/ SlackStep(j)
  BY <1>1, <1>2, OnlyCallSteps DEF Fit
<1>4. Inside(j) \/ StoreRecord(j) \/ WriteRow(j) \/ Forget(j) \/ Bind(j) \/ TakeLock(j) \/ SlackRotates(j) \/ TakeAnswer(j) \/ LoseAnswer(j)
  BY <1>3 DEF SlackStep, Inside
<1>5. q.p = r.p
  <2>1. CASE Inside(j)
    BY <1>1, <1>2, <2>1, InsideGoes
  <2>2. CASE StoreRecord(j) \/ WriteRow(j) \/ Forget(j)
    BY <1>1, <1>2, <2>2, StoreGoes, WriteGoes, ForgetGoes DEF Same5
  <2>3. CASE Bind(j) \/ TakeLock(j) \/ SlackRotates(j)
    BY <1>1, <1>2, <2>3, BindGoes, TakeGoes, RotateGoes DEF Same5
  <2>4. CASE TakeAnswer(j) \/ LoseAnswer(j)
    BY <1>1, <1>2, <2>4, AnswerGoes, LoseGoes DEF Same5
  <2> QED BY <1>4, <2>1, <2>2, <2>3, <2>4
<1> QED BY <1>1, <1>5

\* What has gone wrong is not forgotten.
LEMMA FaultsStay ==
  ASSUME [Next]_tenantVars
  PROVE  faults \subseteq faults' /\ ((\E p \in Processes : Crash(p)) => Mishap') /\ (Mishap => Mishap')
<1>1. ASSUME Environment \/ UNCHANGED tenantVars PROVE faults \subseteq faults'
  BY <1>1 DEF Environment, RecordExpires, HandleExpires, PairDue, PairDies, TokenDue, TokenDies, RemoveFromHubSpot,
     RemoveFromSlack, Crash, recordVars, tenantVars
<1>2. ASSUME NEW j \in Jobs, RequestStep(j) PROVE faults \subseteq faults'
  BY <1>2, OnlyWrites DEF WriteRow
<1>3. faults \subseteq faults'
  BY <1>1, <1>2 DEF Next
<1> QED BY <1>3 DEF Crash, Mishap

\* The pair that Slack issued last may have been lost with its answer: then
\* nobody has it, and the one before is spent.
Astray == "answer" \in faults /\ Ordered(slack.gen - 1)
Chained == /\ slack.gen >= 1 /\ slack.gen <= slack.due + 1 /\ Owned
           /\ Astray \/ (Ordered(slack.gen) /\ Tracked)

(* The invariant of the chain: without a mishap the newest pair has one    *)
(* place, a row or the request that has it in hand, or has been lost.      *)
ChainInv == Mishap \/ (OnlyCalls /\ Chained)

\* Every step of a call but the answer of Slack keeps the chain tracked.
LEMMA CallTracked ==
  ASSUME Sound, OnlyCalls, Ordered(slack.gen), Owned, slack.gen >= 1, slack.gen <= slack.due + 1, Tracked,
         NEW j \in Jobs, RequestStep(j), ~WriteFails(j), ~SlackRotates(j)
  PROVE  Mishap' \/ Tracked'
<1>1. PICK r : r = job[j]
  OBVIOUS
<1>2. r.kind = "slackcall" /\ Straight(r)
  BY <1>1 DEF OnlyCalls, Ordered, Fit
<1>3. ReadRow(j) \/ StoreRecord(j) \/ WriteRow(j) \/ Forget(j) \/ SlackStep(j)
  BY <1>1, <1>2, OnlyCallSteps
<1>4. \/ ReadRow(j) \/ StoreRecord(j) \/ WriteRow(j) \/ Forget(j)
      \/ (Inside(j) /\ ~ReadRow(j)) \/ Bind(j) \/ TakeLock(j) \/ TakeAnswer(j) \/ LoseAnswer(j)
  BY <1>3 DEF SlackStep, Inside
<1>5. job[j].kind = "slackcall"
  BY <1>1, <1>2
<1>6. CASE ReadRow(j) \/ StoreRecord(j) \/ WriteRow(j) \/ Forget(j)
  BY <1>5, <1>6, ReadTracked, StoreTracked, WriteTracked, ForgetTracked
<1>7. CASE Inside(j) /\ ~ReadRow(j)
  BY <1>5, <1>7, InsideTracked
<1>8. CASE Bind(j) \/ TakeLock(j) \/ TakeAnswer(j) \/ LoseAnswer(j)
  BY <1>5, <1>8, BindTracked, TakeTracked, AnswerTracked, LoseTracked
<1> QED BY <1>4, <1>6, <1>7, <1>8

\* Slack answers a request that spends a pair.
LEMMA RotateChained ==
  ASSUME Sound, OnlyCalls, Chained, NEW j \in Jobs, RequestStep(j), SlackRotates(j)
  PROVE  Mishap' \/ Chained'
<1>0. job[j].kind = "slackcall" /\ slack.gen >= 1 /\ slack.gen <= slack.due + 1 /\ Owned
  BY DEF OnlyCalls, Chained
<1>1. slack.gen \in Nat /\ slack.due \in Nat /\ slack'.gen \in Nat
  <2>1. slack \in [gen : Nat, void : Nat, due : Nat, dead : Nat]
    BY DEF Sound, SlackTyped
  <2>2. slack' = slack \/ slack' = [slack EXCEPT !.gen = @ + 1]
    BY DEF SlackRotates
  <2> QED BY <2>1, <2>2
<1>2. CASE Astray
  <2>1. PICK g, h, r, q : g = slack.gen /\ h = g - 1 /\ r = job[j] /\ q = job'[j]
    OBVIOUS
  <2>2. "answer" \in faults /\ Ordered(h)
    BY <1>2, <2>1 DEF Astray
  <2>3. h \in Nat /\ g \in Nat /\ h < g
    BY <1>0, <1>1, <2>1
  <2>4. r.spend \in 0..h /\ r.got \in 0..h /\ DOMAIN job = Jobs /\ World(h) /\ Fit(r, h) /\ Knows(r)
    BY <1>0, <2>1, <2>2, Starts DEF Fit, Numbered
  <2>5. slack' = slack /\ q.got \in {0, r.got}
    BY <2>1, <2>3, <2>4, RotateGoes
  <2>6. h <= h /\ h <= slack'.gen /\ job'[j].got \in 0..h
    BY <2>1, <2>3, <2>4, <2>5
  <2>7. Ordered(h)' /\ Owned'
    BY <1>0, <2>2, <2>3, <2>6, RotateOrdered
  <2>8. "answer" \in faults'
    BY <2>2 DEF SlackRotates
  <2>9. Ordered(slack.gen - 1)'
    BY <2>1, <2>5, <2>7
  <2> QED BY <1>0, <2>5, <2>7, <2>8, <2>9 DEF Chained, Astray
<1>3. CASE Ordered(slack.gen) /\ Tracked
  <2>1. PICK g, q : g = slack.gen /\ q = job'[j]
    OBVIOUS
  <2>2. Ordered(g) /\ g \in Nat /\ g >= 1
    BY <1>0, <1>1, <1>3, <2>1
  <2>3. CASE job[j].spend = slack.gen /\ slack.gen > slack.void
    <3>1. /\ slack.gen <= slack.due /\ slack'.gen = slack.gen + 1 /\ slack'.due = slack.due
          /\ \/ job'[j].pc = "lost" /\ job'[j].got = 0 /\ "answer" \in faults'
             \/ job'[j].got = slack'.gen /\ (Mishap' \/ Tracked')
      BY <1>0, <1>3, <2>3, RotateTracked
    <3>2. slack'.gen >= 1 /\ slack'.gen <= slack'.due + 1
      BY <1>1, <3>1
    <3>3. CASE job'[j].got = 0 /\ "answer" \in faults'
      <4>1. g <= g /\ g <= slack'.gen /\ job'[j].got \in 0..g
        BY <1>1, <2>1, <2>2, <3>1, <3>3
      <4>2. Ordered(g)' /\ Owned'
        BY <1>0, <2>2, <4>1, RotateOrdered
      <4>3. g = slack'.gen - 1
        BY <1>1, <2>1, <3>1
      <4>4. Ordered(slack.gen - 1)'
        BY <4>2, <4>3
      <4> QED BY <3>2, <3>3, <4>2, <4>4 DEF Chained, Astray
    <3>4. CASE job'[j].got = slack'.gen /\ (Mishap' \/ Tracked')
      <4>1. PICK i : i = slack'.gen
        OBVIOUS
      <4>2. i \in Nat /\ g <= i /\ i <= slack'.gen /\ job'[j].got \in 0..i
        BY <1>1, <2>1, <2>2, <3>1, <3>4, <4>1
      <4>3. Ordered(i)' /\ Owned'
        BY <1>0, <2>2, <4>2, RotateOrdered
      <4>4. Ordered(slack.gen)'
        BY <4>1, <4>3
      <4> QED BY <3>2, <3>4, <4>3, <4>4 DEF Chained
    <3> QED BY <3>1, <3>3, <3>4
  <2>4. CASE ~(job[j].spend = slack.gen /\ slack.gen > slack.void)
    <3>1. slack' = slack /\ job'[j].got = 0 /\ Tracked'
      BY <1>0, <1>3, <2>4, RefuseTracked
    <3>2. g <= g /\ g <= slack'.gen /\ job'[j].got \in 0..g
      BY <2>1, <2>2, <3>1
    <3>3. Ordered(g)' /\ Owned'
      BY <1>0, <2>2, <3>2, RotateOrdered
    <3>4. Ordered(slack.gen)'
      BY <2>1, <3>1, <3>3
    <3> QED BY <1>0, <3>1, <3>3, <3>4 DEF Chained
  <2> QED BY <2>3, <2>4
<1> QED BY <1>2, <1>3 DEF Chained

\* Every step of a call keeps what the chain needs, or is a mishap.
LEMMA CallChained ==
  ASSUME Sound, OnlyCalls, Chained, NEW j \in Jobs, RequestStep(j), ~WriteFails(j)
  PROVE  (Mishap' \/ Chained') /\ job'[j].p = job[j].p
<1>0. job[j].kind = "slackcall" /\ slack.gen >= 1 /\ slack.gen <= slack.due + 1 /\ Owned
  BY DEF OnlyCalls, Chained
<1>1. Astray \/ (Ordered(slack.gen) /\ Tracked)
  BY DEF Chained
<1>2. job'[j].p = job[j].p
  BY <1>0, <1>1, SamePlace DEF Astray
<1>3. CASE SlackRotates(j)
  BY <1>2, <1>3, RotateChained
<1>4. CASE ~SlackRotates(j) /\ Astray
  <2>1. PICK h : h = slack.gen - 1
    OBVIOUS
  <2>2. Ordered(h)' /\ Owned' /\ slack' = slack
    BY <1>0, <1>4, <2>1, StepOrdered DEF Astray
  <2>3. Ordered(slack.gen - 1)'
    BY <2>1, <2>2
  <2>4. "answer" \in faults'
    BY <1>4, FaultsStay DEF Astray, Next
  <2> QED BY <1>0, <1>2, <2>2, <2>3, <2>4 DEF Chained, Astray
<1>5. CASE ~SlackRotates(j) /\ Ordered(slack.gen) /\ Tracked
  <2>1. PICK h : h = slack.gen
    OBVIOUS
  <2>2. Ordered(h)' /\ Owned' /\ slack' = slack
    BY <1>0, <1>5, <2>1, StepOrdered
  <2>3. Ordered(slack.gen)'
    BY <2>1, <2>2
  <2>4. Mishap' \/ Tracked'
    BY <1>0, <1>5, CallTracked
  <2> QED BY <1>0, <1>2, <2>2, <2>3, <2>4 DEF Chained
<1> QED BY <1>1, <1>3, <1>4, <1>5

\* So do time and the platforms.
LEMMA EnvironmentChained ==
  ASSUME Sound, Chained, (Environment /\ ~\E p \in Processes : Crash(p)) \/ UNCHANGED tenantVars
  PROVE  Chained' /\ job' = job
<1>1. /\ rows' = rows /\ job' = job /\ client' = client /\ lock' = lock /\ faults' = faults
      /\ slack'.gen = slack.gen /\ slack'.due \in {slack.due, slack.gen} /\ slack'.due \in Nat
      /\ \A p \in Processes : handle'[p] \subseteq handle[p]
      /\ \A p \in Processes : \A k \in Keys : cache'[p][k] = cache[p][k] \/ cache'[p][k] = NoRow
  BY EnvironmentChain
<1>2. slack'.gen >= 1 /\ slack'.gen <= slack'.due + 1
  <2>1. slack.gen \in Nat /\ slack.due \in Nat /\ slack.gen >= 1 /\ slack.gen <= slack.due + 1
    BY DEF Sound, SlackTyped, Chained
  <2> QED BY <1>1, <2>1
<1>3. Owned
  BY DEF Chained
<1>4. CASE Astray
  <2>1. PICK h : h = slack.gen - 1
    OBVIOUS
  <2>2. Ordered(h)
    BY <1>4, <2>1 DEF Astray
  <2>3. Ordered(h)' /\ Owned'
    BY <1>1, <1>3, <2>2, EnvironmentOrdered
  <2>4. Ordered(slack.gen - 1)'
    BY <1>1, <2>1, <2>3
  <2> QED BY <1>1, <1>2, <1>4, <2>3, <2>4 DEF Chained, Astray
<1>5. CASE Ordered(slack.gen) /\ Tracked
  <2>1. PICK h : h = slack.gen
    OBVIOUS
  <2>2. Ordered(h)
    BY <1>5, <2>1
  <2>3. Ordered(h)' /\ Owned'
    BY <1>1, <1>3, <2>2, EnvironmentOrdered
  <2>4. Ordered(slack.gen)'
    BY <1>1, <2>1, <2>3
  <2>5. Tracked'
    BY <1>1, <1>5, EnvironmentTracked
  <2> QED BY <1>1, <1>2, <2>3, <2>4, <2>5 DEF Chained
<1> QED BY <1>1, <1>4, <1>5 DEF Chained

\* The invariant of the chain is inductive, given Sound,
LEMMA ChainStep ==
  ASSUME Sound, ChainInv, [Next]_tenantVars
  PROVE  ChainInv'
<1>0. DOMAIN job = Jobs /\ \A k \in Jobs : job'[k].kind = job[k].kind
  BY KindKept DEF Sound
<1>1. CASE Mishap
  BY <1>1, FaultsStay DEF ChainInv
<1>2. ASSUME OnlyCalls, Chained, NEW j \in Jobs, RequestStep(j) PROVE ChainInv'
  <2>1. CASE WriteFails(j)
    BY <2>1 DEF WriteFails, ChainInv, Mishap
  <2>2. CASE ~WriteFails(j)
    <3>1. (Mishap' \/ Chained') /\ job'[j].p = job[j].p
      BY <1>2, <2>2, CallChained
    <3>2. \A k \in Jobs : job'[k].p = job[k].p
      BY <1>0, <1>2, <3>1, OnlyOwn
    <3>3. OnlyCalls'
      BY <1>0, <1>2, <3>2 DEF OnlyCalls
    <3> QED BY <3>1, <3>3 DEF ChainInv
  <2> QED BY <2>1, <2>2
<1>3. ASSUME OnlyCalls, Chained, Environment \/ UNCHANGED tenantVars PROVE ChainInv'
  <2>1. CASE \E p \in Processes : Crash(p)
    BY <2>1, FaultsStay DEF ChainInv
  <2>2. CASE (Environment /\ ~\E p \in Processes : Crash(p)) \/ UNCHANGED tenantVars
    <3>1. Chained' /\ job' = job
      BY <1>3, <2>2, EnvironmentChained
    <3> QED BY <1>3, <3>1 DEF ChainInv, OnlyCalls
  <2> QED BY <1>3, <2>1, <2>2
<1> QED BY <1>1, <1>2, <1>3 DEF ChainInv, Next

\* A database as the code leaves it: a record for a workspace and provider,
\* ids that tell records apart, and whoever borrows a workspace's pair is
\* linked to the record that has it.
Recorded ==
  /\ Single
  /\ \A x \in rows : HasToken(x) /\ x.link # "" => \E y \in rows : HasToken(y) /\ y.ws = x.link /\ y.link = ""

\* and holds when the requests begin.
LEMMA InitChained ==
  ASSUME Init, OnlyCalls, Recorded
  PROVE  ChainInv
<1>1. PICK s \in Scenarios : RecordInit(s) /\ SlackInit(s) /\ HubInit(s) /\ LifeInit(s)
  BY DEF Init
<1>2. PICK d \in 0..1 : slack = [gen |-> 1, void |-> 0, due |-> d, dead |-> 0]
  BY <1>1, ScenariosAssumption DEF SlackInit, ScenariosTyped
<1>3. slack.gen = 1 /\ slack.due \in Nat /\ 1 <= slack.due + 1
  BY <1>2
<1>4. /\ DOMAIN job = Jobs
      /\ \A k \in Jobs : /\ job[k].pc = "slackcall" /\ job[k].todo = <<>> /\ job[k].got = 0 /\ job[k].spend = 0
                         /\ job[k].rec = NoRow /\ job[k].src = NoRow /\ job[k].new = NoRow
  BY <1>1 DEF RecordInit, Started, OnlyCalls
<1>5. rows = s.rows /\ cache = [p \in Processes |-> [k \in Keys |-> NoRow]] /\ faults = {}
  BY <1>1 DEF RecordInit
<1>6. client = <<>> /\ handle = [p \in Processes |-> {}] /\ lock = [p \in Processes |-> {}]
  BY <1>1 DEF SlackInit
<1>7. \A k \in Jobs : Place(job[k]) = "slackcall"
  BY <1>4 DEF Place, Looking
<1>8. \A h : Copy(NoRow, h)
  BY DEF Copy, NoRow
<1>9. World(1)
  <2>1. ASSUME NEW x \in rows PROVE Copy(x, 1)
    <3>1. x.n \in 0..1
      BY <1>5, ScenariosAssumption DEF ScenariosTyped
    <3>2. x.prov = "slack" => Rooted(x.n, x.link)
      BY <3>1 DEF Recorded, HasToken, Rooted, Root
    <3> QED BY <3>1, <3>2 DEF Copy, Same
  <2>2. Len(client) = 0
    BY <1>6
  <2>3. \A p \in Processes : \A k \in Keys : Copy(cache[p][k], 1)
    BY <1>5, <1>8
  <2>4. Len(client) \in Nat /\ \A i \in 1..Len(client) : Client(client[i], 1)
    BY <2>2
  <2>5. Single
    BY DEF Recorded
  <2>6. slack.gen \in Nat /\ 1 \in Nat /\ 1 <= slack.gen
    BY <1>3
  <2> QED BY <1>3, <2>1, <2>3, <2>4, <2>5, <2>6 DEF World
<1>10. Locks
  BY <1>6, <1>7 DEF Locks, Locked
<1>11. ASSUME NEW k \in Jobs PROVE Fit(job[k], 1)
  <2>1. PICK r : r = job[k]
    OBVIOUS
  <2>2. r.pc = "slackcall" /\ Place(r) = "slackcall" /\ r.todo = <<>> /\ r.got = 0 /\ r.spend = 0
    BY <1>4, <1>7, <2>1
  <2>3. Copy(r.rec, 1) /\ Copy(r.src, 1) /\ Copy(r.new, 1)
    BY <1>4, <1>8, <2>1
  <2>4. Straight(r)
    BY <2>2 DEF Straight, Ends, Resolving, SlackIn, Storing, Looking
  <2>5. Fit(r, 1)
    BY <2>2, <2>3, <2>4 DEF Fit, Numbered, SlackIn, Storing
  <2> QED BY <2>1, <2>5
<1>12. Ordered(1)
  BY <1>9, <1>10, <1>11 DEF Ordered
<1>13. Owned
  <2>1. PICK o : o \in [1..0 -> Processes]
    <3>1. [i \in 1..0 |-> CHOOSE p \in Processes : TRUE] \in [1..0 -> Processes]
      OBVIOUS
    <3> QED BY <3>1
  <2>2. Len(client) = 0
    BY <1>6
  <2>3. OwnedBy(o)
    BY <1>6, <1>7 DEF OwnedBy, Using, SlackIn, Storing
  <2>4. o \in [1..Len(client) -> Processes]
    BY <2>1, <2>2
  <2> QED BY <2>3, <2>4 DEF Owned
<1>14. ASSUME NEW k \in Jobs PROVE Kept(job[k]) /\ Warned(k)
  <2>1. PICK r : r = job[k]
    OBVIOUS
  <2>2. r.pc = "slackcall" /\ Place(r) = "slackcall" /\ r.got = 0
    BY <1>4, <1>7, <2>1
  <2>3. Kept(r)
    BY <2>2 DEF Kept, Keeping, Storing
  <2>4. Warned(k)
    BY <2>1, <2>2 DEF Warned
  <2> QED BY <2>1, <2>3, <2>4
<1>15. Reached
  <2>1. CASE \A x \in rows : x.prov = "slack" => x.n = 0
    BY <2>1 DEF Reached
  <2>2. ASSUME NEW x \in rows, x.prov = "slack", x.n # 0 PROVE Reached
    <3>1. \A y \in rows : y.n \in 0..1
      BY <1>5, ScenariosAssumption DEF ScenariosTyped
    <3>2. HasToken(x) /\ x.n = 1
      BY <2>2, <3>1 DEF HasToken
    <3>3. CASE x.link = ""
      BY <1>3, <3>2, <3>3 DEF Reached, Newest
    <3>4. CASE x.link # ""
      <4>1. PICK y \in rows : HasToken(y) /\ y.link = ""
        BY <3>2, <3>4 DEF Recorded
      <4>2. y.n = 1
        <5>1. PICK n : n = y.n
          OBVIOUS
        <5>2. n > 0 /\ n \in 0..1
          BY <3>1, <4>1, <5>1 DEF HasToken
        <5> QED BY <5>1, <5>2
      <4> QED BY <1>3, <4>1, <4>2 DEF Reached, Newest
    <3> QED BY <3>3, <3>4
  <2> QED BY <2>1, <2>2
<1>16. Ordered(slack.gen)
  BY <1>3, <1>12
<1> QED BY <1>3, <1>13, <1>14, <1>15, <1>16 DEF ChainInv, Chained, Tracked

(* A pair that comes due is rotated once, however the calls of Slack meet  *)
(* that find it expired, two in an instance: the second looks again when   *)
(* it has the lock (token_service.py), finds the pair of the first or      *)
(* shares its client.                                                      *)
THEOREM PairsRotateOnce == Spec /\ OnlyCalls /\ Recorded => []RotatedOnce
<1>1. Init /\ OnlyCalls /\ Recorded => ChainInv
  BY InitChained
<1>2. Sound /\ ChainInv /\ [Next]_tenantVars => ChainInv'
  BY ChainStep
<1>3. ChainInv => RotatedOnce
  BY DEF ChainInv, Mishap, Chained, RotatedOnce
<1> QED BY <1>1, <1>2, <1>3, StaysSound, PTL DEF Spec

(* Once no call has a pair in hand the newest one is stored, in a record   *)
(* that is not linked: neither a borrowed client nor a linked record takes *)
(* it elsewhere, and no stale copy is written over it.                     *)
THEOREM ChainStays == Spec /\ OnlyCalls /\ Recorded => []ChainKept
<1>1. Init /\ OnlyCalls /\ Recorded => ChainInv
  BY InitChained
<1>2. Sound /\ ChainInv /\ [Next]_tenantVars => ChainInv'
  BY ChainStep
<1>3. ChainInv => ChainKept
  <2> SUFFICES ASSUME ChainInv, faults \subseteq {"late", "unheard", "mappings"}, \A j \in Jobs : ~Carries(j), NEW x \in rows, HasToken(x)
               PROVE  \E y \in rows : HasToken(y) /\ y.link = "" /\ y.n = slack.gen
    BY DEF ChainKept
  <2>1. Chained /\ ~Astray
    BY DEF ChainInv, Mishap, Astray
  <2>2. slack.gen >= 1 /\ Reached
    BY <2>1 DEF Chained, Tracked
  <2>3. \A j \in Jobs : job[j].got = 0
    BY DEF Carries
  <2>4. x.prov = "slack" /\ x.n # 0
    BY <2>1 DEF HasToken
  <2>5. ~\E j \in Jobs : job[j].got = slack.gen
    BY <2>2, <2>3
  <2> QED BY <2>2, <2>4, <2>5 DEF Reached, Newest
<1> QED BY <1>1, <1>2, <1>3, StaysSound, PTL DEF Spec
=============================================================================
