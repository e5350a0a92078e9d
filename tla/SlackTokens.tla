---------------------------- MODULE SlackTokens ----------------------------
(***************************************************************************)
(* A call of the Slack API by a request: resolving a client from an        *)
(* integration record through the client cache and the identity bridge,    *)
(* rotating its single-use refresh token when the access token is about to *)
(* expire, and persisting the new pair.                                    *)
(*                                                                         *)
(* A pair of tokens is the number of the rotation or installation that     *)
(* issued it.  slack is the platform: gen is the newest pair, pairs up to  *)
(* void are revoked, up to due within 300 s of their expiry, up to dead    *)
(* expired.  A client object lives in one process; rt = 0 when it has no   *)
(* refresh token.                                                          *)
(***************************************************************************)
EXTENDS Records

VARIABLES slack, client, handle, lock
slackVars == <<slack, client, handle, lock>>

SlackInit(s) == /\ slack = [gen |-> 1, void |-> 0, due |-> s.due, dead |-> 0]
                /\ client = <<>>
                /\ handle = [p \in Processes |-> {}]
                /\ lock = [p \in Processes |-> {}]

TheClient(j) == client[job[j].cl]
Near(n) == n <= slack.due
Works(n) == n > slack.void /\ n > slack.dead

----------------------------------------------------------------------------
(* The client cache of a process, by the record it was resolved from       *)
(* ("source") and by the Slack record it belongs to ("target").            *)

Cached(p, role, id) == {h \in handle[p] : h.role = role /\ h.id = id}
Entry(role, id, c) == [role |-> role, id |-> id, c |-> c]
Keep(p, es) == handle' = [handle EXCEPT ![p] =
                 {h \in @ : \A e \in es : h.role # e.role \/ h.id # e.id} \union es]

HandleExpires(p) ==
  /\ "idle" \in may
  /\ \E h \in handle[p] : handle' = [handle EXCEPT ![p] = @ \ {h}]
  /\ UNCHANGED <<recordVars, slack, client, lock>>

HasToken(x) == x.prov = "slack" /\ x.n > 0

(* get_slack_client, up to its first await: a cached client; or the record *)
(* to borrow credentials from: the linked parent's, or that of the Slack   *)
(* record of the same workspace.                                           *)
Resolve(j) ==
  /\ At(j, "slack")
  /\ LET src == job[j].src
         hit == Cached(job[j].p, "source", src.id) IN
     Goto(j, IF hit # {} THEN [job[j] EXCEPT !.cl = (CHOOSE h \in hit : TRUE).c, !.pc = job[j].goal]
             ELSE IF ~HasToken(src) /\ src.link # ""
                  THEN Lookup(job[j], <<src.link, "slack">>, "pivot")
             ELSE IF src.prov = "hubspot"
                  THEN Lookup(job[j], <<src.ws, "slack">>, "pivot")
             ELSE [job[j] EXCEPT !.rec = src, !.pc = "bind"])
  /\ UNCHANGED <<rows, cache, may, faults, slackVars>>

(* A bridge that leads nowhere leaves the source itself: a HubSpot record  *)
(* is refused, a shell record goes on without a token.                     *)
Pivot(j) ==
  /\ At(j, "pivot")
  /\ Goto(j, IF HasToken(job[j].rec) THEN [job[j] EXCEPT !.pc = "bind"]
             ELSE IF job[j].src.prov = "hubspot" THEN Return(job[j], FALSE)
             ELSE [job[j] EXCEPT !.rec = job[j].src, !.pc = "bind"])
  /\ UNCHANGED <<rows, cache, may, faults, slackVars>>

(* The client of the target record, made if the process has none.          *)
Bind(j) ==
  /\ At(j, "bind")
  /\ LET x == job[j].rec
         p == job[j].p
         hit == Cached(p, "target", x.id)
         c == IF hit # {} THEN (CHOOSE h \in hit : TRUE).c ELSE Len(client) + 1 IN
     /\ client' = IF hit # {} THEN client
                  ELSE Append(client, [n |-> x.n, rt |-> x.n, ws |-> x.ws, link |-> x.link])
     /\ Keep(p, {Entry("source", job[j].src.id, c), Entry("target", x.id, c)})
     /\ Goto(j, [job[j] EXCEPT !.cl = c, !.pc = job[j].goal])
  /\ UNCHANGED <<rows, cache, may, faults, slack, lock>>

----------------------------------------------------------------------------
(* _refresh_if_needed under the lock of the identity.                      *)

Identity(c) == IF c.link # "" THEN c.link ELSE c.ws

Check(j) ==
  /\ At(j, "check")
  /\ LET c == TheClient(j) IN
     Goto(j, [job[j] EXCEPT !.pc = IF c.rt # 0 /\ Near(c.n) THEN "rotate" ELSE "call"])
  /\ UNCHANGED <<rows, cache, may, faults, slackVars>>

(* A request that holds a pair it has not stored for all to see yet.       *)
Carries(k) == job[k].got # 0
Overlap == IF \E k \in Jobs : Carries(k) THEN {"overlap"} ELSE {}

TakeLock(j) ==
  /\ At(j, "rotate")
  /\ Identity(TheClient(j)) \notin lock[job[j].p]
  /\ lock' = [lock EXCEPT ![job[j].p] = @ \union {Identity(TheClient(j))}]
  /\ faults' = faults \union Overlap
  /\ Goto(j, Lookup(job[j], <<Identity(TheClient(j)), "slack">>, "relook"))
  /\ UNCHANGED <<rows, cache, may, slack, client, handle>>

Released(j) == [lock EXCEPT ![job[j].p] = @ \ {Identity(TheClient(j))}]

\* Mutant of Relook: the record is not read again inside the lock.
RelookNever(j) ==
  /\ At(j, "relook")
  /\ Goto(j, [job[j] EXCEPT !.spend = TheClient(j).rt, !.pc = "refresh"])
  /\ UNCHANGED <<rows, cache, may, faults, slackVars>>

(* A record that is fresh is adopted; otherwise the client's own refresh   *)
(* token is spent.                                                         *)
Relook(j) ==
  /\ At(j, "relook")
  /\ LET x == job[j].rec IN
     Goto(j, IF x # NoRow /\ x.n > 0 /\ ~Near(x.n) THEN [job[j] EXCEPT !.got = x.n, !.pc = "answer"]
             ELSE [job[j] EXCEPT !.spend = TheClient(j).rt, !.pc = "refresh"])
  /\ UNCHANGED <<rows, cache, may, faults, slackVars>>

(* oauth.v2.access: Slack honours the refresh token of its newest pair     *)
(* once and refuses any other; the answer may be lost on its way.          *)
SlackRotates(j) ==
  /\ At(j, "refresh")
  /\ LET good == job[j].spend = slack.gen /\ slack.gen > slack.void IN
     /\ slack' = IF good THEN [slack EXCEPT !.gen = @ + 1] ELSE slack
     /\ \/ /\ Goto(j, [job[j] EXCEPT !.got = IF good THEN slack.gen + 1 ELSE 0, !.pc = "answer"])
           /\ faults' = IF good THEN faults \union Overlap ELSE faults
        \/ /\ "answer" \in may
           /\ Goto(j, [job[j] EXCEPT !.pc = "lost"])
           /\ faults' = faults \union {"answer"}
  /\ UNCHANGED <<rows, cache, may, client, handle, lock>>

(* The lock is released and the client updated in one go, before anything  *)
(* is persisted; a refused refresh token is dropped and the call goes on.  *)
TakeAnswer(j) ==
  /\ At(j, "answer")
  /\ lock' = Released(j)
  /\ LET new == job[j].got IN
     /\ client' = [client EXCEPT ![job[j].cl] = IF new = 0 THEN [@ EXCEPT !.rt = 0]
                                                ELSE [@ EXCEPT !.n = new, !.rt = new]]
     /\ Goto(j, IF new = 0 THEN [job[j] EXCEPT !.pc = "call"]
                ELSE Lookup(job[j], <<TheClient(j).ws, "slack">>, "redirect"))
  /\ UNCHANGED <<rows, cache, may, faults, slack, handle>>

\* Mutant of LoseAnswer: the lock is released by hand, after an answer.
LoseAnswerLocked(j) ==
  /\ At(j, "lost")
  /\ Goto(j, Return(job[j], FALSE))
  /\ UNCHANGED <<rows, cache, may, faults, slackVars>>

LoseAnswer(j) ==
  /\ At(j, "lost")
  /\ lock' = Released(j)
  /\ Goto(j, Return(job[j], FALSE))
  /\ UNCHANGED <<rows, cache, may, faults, slack, client, handle>>

(* update_slack_tokens: a linked record redirects to its parent's; without *)
(* a record nothing is written; what the write raises is swallowed.        *)
Redirect(j) ==
  /\ At(j, "redirect")
  /\ LET x == job[j].rec IN
     Goto(j, IF x # NoRow /\ x.link # "" THEN Lookup(job[j], <<x.link, "slack">>, "persist")
             ELSE [job[j] EXCEPT !.pc = "persist"])
  /\ UNCHANGED <<rows, cache, may, faults, slackVars>>

\* Mutant of Persist: the credentials that are stored win over the new ones.
PersistStored(j) ==
  /\ At(j, "persist")
  /\ LET x == job[j].rec IN
     Goto(j, IF x = NoRow THEN [job[j] EXCEPT !.got = 0, !.pc = "call"] ELSE Upsert(job[j], x, "call"))
  /\ UNCHANGED <<rows, cache, may, faults, slackVars>>

Persist(j) ==
  /\ At(j, "persist")
  /\ LET x == job[j].rec IN
     Goto(j, IF x = NoRow THEN [job[j] EXCEPT !.got = 0, !.pc = "call"]
             ELSE Upsert(job[j], [x EXCEPT !.n = job[j].got], "call"))
  /\ UNCHANGED <<rows, cache, may, faults, slackVars>>

----------------------------------------------------------------------------
(* The call itself.  Only calls through __getattr__ meet token_expired     *)
(* with one more refresh and one retry.                                    *)
SlackCall(j) ==
  /\ At(j, "call")
  /\ LET c == TheClient(j) IN
     \/ Works(c.n) /\ Goto(j, Return(job[j], TRUE))
     \/ ~Works(c.n) /\ Goto(j, Return(job[j], FALSE))
     \/ /\ ~Works(c.n) /\ c.n > slack.void /\ job[j].tries = 0
        /\ Goto(j, [job[j] EXCEPT !.tries = 1, !.pc = "check"])
  /\ UNCHANGED <<rows, cache, may, faults, slackVars>>

(* get_slack_client for src, and then on to goal.                          *)
UseSlack(r, src, goal, after) == Call([r EXCEPT !.src = src, !.goal = goal], "slack", after)

(* A request that calls Slack on behalf of an integration record.          *)
BeginCall(j) ==
  /\ At(j, "slackcall")
  /\ Goto(j, Lookup(job[j], <<job[j].ws, job[j].prov>>, "source"))
  /\ UNCHANGED <<rows, cache, may, faults, slackVars>>

Source(j) ==
  /\ At(j, "source")
  /\ Goto(j, IF job[j].rec = NoRow THEN Ended(job[j], "failed")
             ELSE UseSlack(job[j], job[j].rec, "check", "end"))
  /\ UNCHANGED <<rows, cache, may, faults, slackVars>>

End(j) ==
  /\ At(j, "end")
  /\ Goto(j, Ended(job[j], IF job[j].ok THEN "done" ELSE "failed"))
  /\ UNCHANGED <<rows, cache, may, faults, slackVars>>

(* Time: tokens live for hours, a rotation for seconds.                    *)
Rotating(j) == \/ job[j].pc \in {"relook", "refresh", "answer", "lost"}
               \/ job[j].pc \in {"reading", "storing"} /\ job[j].ret = "relook"
PairDue == /\ "due" \in may /\ slack.due < slack.gen
           /\ \A j \in Jobs : ~Rotating(j)
           /\ slack' = [slack EXCEPT !.due = slack.gen]
           /\ UNCHANGED <<recordVars, client, handle, lock>>
PairDies == /\ "die" \in may /\ slack.dead < slack.due
            /\ slack' = [slack EXCEPT !.dead = slack.due]
            /\ UNCHANGED <<recordVars, client, handle, lock>>

SlackStep(j) ==
  \/ Resolve(j) \/ Pivot(j) \/ Bind(j) \/ Check(j) \/ TakeLock(j) \/ Relook(j)
  \/ SlackRotates(j) \/ TakeAnswer(j) \/ LoseAnswer(j) \/ Redirect(j) \/ Persist(j)
  \/ SlackCall(j) \/ BeginCall(j) \/ Source(j) \/ End(j)
=============================================================================
