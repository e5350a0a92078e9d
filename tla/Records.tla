------------------------------ MODULE Records ------------------------------
(***************************************************************************)
(* The integration records of one customer: the rows of table              *)
(* integrations, the record cache every process keeps of them, and the     *)
(* requests that read, write and delete them.  "T" is the workspace of the *)
(* Slack team, "W" the workspace of the HubSpot portal (hs_<portal>); one  *)
(* may hold both records, or a shell record in W may point to T.           *)
(*                                                                         *)
(* A request is a job: where it is (pc), whom it returns to (todo), and    *)
(* the locals that survive an await.  The modules that extend this one add *)
(* the steps of the components a request goes through.                     *)
(***************************************************************************)
EXTENDS Naturals, Sequences, FiniteSets

CONSTANTS Jobs, Processes

VARIABLES job, rows, cache,
          may,    \* what may go wrong in this scenario, and never changes
          faults  \* history: what has gone wrong so far
recordVars == <<job, rows, cache, may, faults>>

Keys == {"T", "W"} \X {"slack", "hubspot"}
NoRow == [id |-> <<>>, ws |-> "", prov |-> "", n |-> 0, link |-> ""]

At(j, l) == job[j].pc = l
Goto(j, r) == job' = [job EXCEPT ![j] = r]
Over(j) == job[j].pc \in {"done", "failed", "killed"}

(* Calls of a procedure and returns from it; an exception is ok = FALSE.   *)
Call(r, l, after) == [r EXCEPT !.pc = l, !.todo = <<after>> \o @, !.ok = TRUE]
Return(r, ok) == [r EXCEPT !.pc = Head(r.todo), !.todo = Tail(@), !.ok = ok, !.key = <<"", "">>,
                           !.ret = "", !.rec = NoRow, !.new = NoRow, !.tries = 0]

(* What a request starts with: the workspace and provider it is about, the *)
(* context an installation was given, the job whose HubSpot client it uses.*)
Started(w) == [kind |-> w.kind, p |-> w.p, ws |-> w.ws, prov |-> w.prov, state |-> w.state,
               hc |-> w.hc, pc |-> w.kind, todo |-> <<>>, ok |-> TRUE,
               key |-> <<"", "">>, ret |-> "", rec |-> NoRow, new |-> NoRow,
               src |-> NoRow, cl |-> 0, got |-> 0, spend |-> 0, goal |-> "",
               tok |-> 0, sent |-> 0, tries |-> 0, mode |-> "",
               uws |-> w.ws, old |-> NoRow, left |-> {}]
Ended(r, l) == [Started(r) EXCEPT !.pc = l]

RecordInit(s) ==
  /\ job = [j \in Jobs |-> Started(s.work[j])]
  /\ rows = s.rows
  /\ cache = [p \in Processes |-> [k \in Keys |-> NoRow]]
  /\ may = s.may /\ faults = {}

----------------------------------------------------------------------------
(* get_integration: a cached record, or whichever row the query returns    *)
(* first; a Slack workspace without a HubSpot row of its own is bridged to *)
(* the row that is linked to it.                                           *)

Matching(k) == {x \in rows : x.ws = k[1] /\ x.prov = k[2]}
Bridged(k) == {x \in rows : k[2] = "hubspot" /\ k[1] # "W" /\ x.prov = "hubspot" /\ x.link = k[1]}
Answers(k) == IF Matching(k) # {} THEN Matching(k)
              ELSE IF Bridged(k) # {} THEN Bridged(k) ELSE {NoRow}

Lookup(r, k, after) ==
  LET hit == cache[r.p][k] IN
  IF hit # NoRow THEN [r EXCEPT !.key = k, !.rec = hit, !.pc = after]
  ELSE [r EXCEPT !.key = k, !.ret = after, !.pc = "reading"]

\* Mutant of ReadRow: the filter on the provider is lost.
ReadRowUnchecked(j) ==
  /\ At(j, "reading")
  /\ \E x \in {y \in rows : y.ws = job[j].key[1]} \union {NoRow} :
       Goto(j, [job[j] EXCEPT !.rec = x, !.pc = "storing"])
  /\ UNCHANGED <<rows, cache, may, faults>>

ReadRow(j) ==
  /\ At(j, "reading")
  /\ \E x \in Answers(job[j].key) : Goto(j, [job[j] EXCEPT !.rec = x, !.pc = "storing"])
  /\ UNCHANGED <<rows, cache, may, faults>>

(* None is not cached; the record is, whatever has happened to its row in  *)
(* the meantime.                                                           *)
StoreRecord(j) ==
  /\ At(j, "storing")
  /\ cache' = IF job[j].rec = NoRow THEN cache
              ELSE [cache EXCEPT ![job[j].p][job[j].key] = job[j].rec]
  /\ Goto(j, [job[j] EXCEPT !.pc = job[j].ret])
  /\ UNCHANGED <<rows, may, faults>>

RecordExpires(p, k) ==
  /\ "evict" \in may /\ cache[p][k] # NoRow
  /\ cache' = [cache EXCEPT ![p][k] = NoRow]
  /\ UNCHANGED <<job, rows, may, faults>>

----------------------------------------------------------------------------
(* upsert_integration: the row with this id is replaced or inserted; only  *)
(* this process forgets its cached copy, and only once it has the answer.  *)

Upsert(r, x, after) == Call([r EXCEPT !.new = x], "writing", after)

(* A row that is written without an id gets a new one.                     *)
WithId(j, x) == IF x.id = <<>> THEN [x EXCEPT !.id = <<j, x.prov>>] ELSE x

(* A workspace whose records are being deleted.                            *)
Wiping(ws) == \E k \in Jobs : /\ job[k].uws = ws
                              /\ At(k, "wipe") \/ \E i \in 1..Len(job[k].todo) : job[k].todo[i] = "wipe"

WriteRow(j) ==
  /\ At(j, "writing")
  /\ LET x == WithId(j, job[j].new) IN
     /\ rows' = {y \in rows : y.id # x.id} \union {x}
     /\ faults' = IF Wiping(x.ws) THEN faults \union {"late"} ELSE faults
     /\ Goto(j, [job[j] EXCEPT !.pc = "forgetting", !.new = x, !.key = <<x.ws, x.prov>>])
  /\ UNCHANGED <<cache, may>>

(* A write or a delete raises; the records of a provider may stay.         *)
WriteFails(j) ==
  /\ job[j].pc \in {"writing", "deleting"} /\ "write" \in may
  /\ Goto(j, Return(job[j], FALSE))
  /\ faults' = faults \union {"write"} \union (IF At(j, "deleting") THEN {job[j].key[2]} ELSE {})
  /\ UNCHANGED <<rows, cache, may>>

(* delete_integration: all rows of the workspace and provider.             *)
Delete(r, k, after) == Lookup([r EXCEPT !.todo = <<after>> \o @, !.ok = TRUE], k, "deleting")

DeleteRows(j) ==
  /\ At(j, "deleting")
  /\ rows' = rows \ Matching(job[j].key)
  /\ Goto(j, [job[j] EXCEPT !.pc = "forgetting"])
  /\ UNCHANGED <<cache, may, faults>>

Forget(j) ==
  /\ At(j, "forgetting")
  /\ cache' = [cache EXCEPT ![job[j].p][job[j].key] = NoRow]
  /\ Goto(j, [Return(job[j], TRUE) EXCEPT
                 !.got = IF job[j].new.prov = "slack" /\ job[j].new.n = @ THEN 0 ELSE @])
  /\ UNCHANGED <<rows, may, faults>>

RecordStep(j) == \/ ReadRow(j) \/ StoreRecord(j)
                 \/ WriteRow(j) \/ WriteFails(j)
                 \/ DeleteRows(j) \/ Forget(j)
=============================================================================
