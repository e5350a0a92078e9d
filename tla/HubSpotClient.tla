--------------------------- MODULE HubSpotClient ---------------------------
(***************************************************************************)
(* A call of the HubSpot API by a request: the client made from the shared *)
(* record, its proactive and reactive refresh under the client's lock, the *)
(* retries of the transport, and what happens when the grant is revoked.   *)
(*                                                                         *)
(* An access token is the number of the exchange or refresh that issued    *)
(* it; hub is the platform, as in SlackTokens, but a refresh token may be  *)
(* used again and fails only once the app is uninstalled (void).  Branches *)
(* of one request (asyncio.gather) share the client of the job hc.         *)
(***************************************************************************)
EXTENDS Records

CONSTANT MaxTries  \* retries of the transport; the code has 4

(* "" is the lock that no request holds.                                   *)
ASSUME FreeAssumption == "" \notin Jobs

VARIABLES hub, hclient
hubVars == <<hub, hclient>>

NoClient == [n |-> 0, ws |-> "", cool |-> FALSE, by |-> ""]
HubInit(s) == /\ hub = [gen |-> 1, void |-> 0, due |-> s.due, dead |-> 0]
              /\ hclient = [j \in Jobs |-> NoClient]

Mine(j) == hclient[job[j].hc]
Expiring(j) == Mine(j).cool \/ Mine(j).n <= hub.due
Accepted(n) == n > hub.void /\ n > hub.dead
Lock(j) == hclient' = [hclient EXCEPT ![job[j].hc].by = j]
Unlock(j) == hclient' = [hclient EXCEPT ![job[j].hc].by = IF @ = j THEN "" ELSE @]

(* get_client: HubSpotService never fills its client cache, so every call  *)
(* makes a client of the record it finds.                                  *)
GetClient(j) ==
  /\ At(j, "hub")
  /\ Goto(j, IF Mine(j).n # 0 THEN [job[j] EXCEPT !.pc = "proactive"]
             ELSE Lookup(job[j], <<job[j].ws, "hubspot">>, "client"))
  /\ UNCHANGED <<rows, cache, may, faults, hubVars>>

MakeClient(j) ==
  /\ At(j, "client")
  /\ IF job[j].rec = NoRow
     THEN Goto(j, Return(job[j], FALSE)) /\ UNCHANGED hclient
     ELSE /\ Goto(j, [job[j] EXCEPT !.pc = "proactive"])
          /\ hclient' = IF Mine(j).n # 0 THEN hclient
                        ELSE [hclient EXCEPT ![job[j].hc] =
                                [NoClient EXCEPT !.n = job[j].rec.n, !.ws = job[j].rec.ws]]
  /\ UNCHANGED <<rows, cache, may, faults, hub>>

(* request: a token that expires within 300 s is refreshed first, and the  *)
(* expiry is looked at again inside the lock.                              *)
Proactive(j) ==
  /\ At(j, "proactive")
  /\ Goto(j, [job[j] EXCEPT !.pc = IF Expiring(j) THEN "early" ELSE "send"])
  /\ UNCHANGED <<rows, cache, may, faults, hubVars>>

\* Mutant of LockEarly: no second look inside the lock.
LockEarlyOnce(j) ==
  /\ At(j, "early") /\ Mine(j).by = ""
  /\ Lock(j) /\ Goto(j, [job[j] EXCEPT !.mode = "early", !.pc = "hubrefresh"])
  /\ UNCHANGED <<rows, cache, may, faults, hub>>

LockEarly(j) ==
  /\ At(j, "early") /\ Mine(j).by = ""
  /\ IF Expiring(j)
     THEN Lock(j) /\ Goto(j, [job[j] EXCEPT !.mode = "early", !.sent = Mine(j).n, !.pc = "hubrefresh"])
     ELSE Goto(j, [job[j] EXCEPT !.pc = "send"]) /\ UNCHANGED hclient
  /\ UNCHANGED <<rows, cache, may, faults, hub>>

Send(j) ==
  /\ At(j, "send")
  /\ Goto(j, [job[j] EXCEPT !.sent = Mine(j).n, !.pc = "sent"])
  /\ UNCHANGED <<rows, cache, may, faults, hubVars>>

Leaving(j) == job[j].kind \in {"uninstall", "unhub"}

(* HubSpot acts on the request; its answer may be lost, and is asked for   *)
(* again, whatever the method.  The removal of the app revokes the grant.  *)
Answered(j) ==
  /\ At(j, "sent") /\ Accepted(job[j].sent)
  /\ hub' = IF Leaving(j) THEN [hub EXCEPT !.void = hub.gen] ELSE hub
  /\ \/ /\ Unlock(j) /\ Goto(j, Return(job[j], TRUE))
     \/ /\ "calls" \in may /\ job[j].tries < MaxTries
        /\ Goto(j, [job[j] EXCEPT !.tries = @ + 1, !.pc = "send"])
        /\ UNCHANGED hclient
  /\ UNCHANGED <<rows, cache, may, faults>>

Errs(j) ==
  /\ At(j, "sent") /\ Accepted(job[j].sent) /\ "calls" \in may
  /\ Unlock(j) /\ Goto(j, Return(job[j], FALSE))
  /\ UNCHANGED <<rows, cache, may, faults, hub>>

(* 401: one refresh and one retry inside the lock; a second 401 is raised. *)
Unauthorized(j) ==
  /\ At(j, "sent") /\ ~Accepted(job[j].sent)
  /\ IF Mine(j).by = j
     THEN Unlock(j) /\ Goto(j, Return(job[j], FALSE))
     ELSE Goto(j, [job[j] EXCEPT !.pc = "late"]) /\ UNCHANGED hclient
  /\ UNCHANGED <<rows, cache, may, faults, hub>>

\* Mutant of LockLate: the header of the failed request is not compared.
LockLateBlind(j) ==
  /\ At(j, "late") /\ Mine(j).by = ""
  /\ Lock(j) /\ Goto(j, [job[j] EXCEPT !.mode = "late", !.pc = "hubrefresh"])
  /\ UNCHANGED <<rows, cache, may, faults, hub>>

LockLate(j) ==
  /\ At(j, "late") /\ Mine(j).by = ""
  /\ Lock(j)
  /\ Goto(j, IF job[j].sent # Mine(j).n THEN [job[j] EXCEPT !.pc = "send"]
             ELSE [job[j] EXCEPT !.mode = "late", !.pc = "hubrefresh"])
  /\ UNCHANGED <<rows, cache, may, faults, hub>>

\* Mutant of HubRefreshes: every refresh that fails counts as a revoked grant.
HubRefreshesOrRevoked(j) ==
  /\ At(j, "hubrefresh")
  /\ \/ /\ Mine(j).n > hub.void
        /\ hub' = [hub EXCEPT !.gen = @ + 1]
        /\ Goto(j, [job[j] EXCEPT !.tok = hub.gen + 1, !.pc = "hubanswer"])
     \/ /\ "calls" \in may \/ Mine(j).n <= hub.void
        /\ Goto(j, Call([job[j] EXCEPT !.tok = 0, !.uws = Mine(j).ws], "revoked", "hubanswer"))
        /\ UNCHANGED hub
  /\ UNCHANGED <<rows, cache, may, faults, hclient>>

(* _refresh_token: new tokens, whose answer may be lost; nothing; or       *)
(* invalid_grant, which uninstalls the record's workspace without asking   *)
(* HubSpot again.                                                          *)
HubRefreshes(j) ==
  /\ At(j, "hubrefresh")
  /\ \/ /\ Mine(j).n > hub.void
        /\ hub' = [hub EXCEPT !.gen = @ + 1]
        /\ Goto(j, [job[j] EXCEPT !.tok = hub.gen + 1, !.pc = "hubanswer"])
        /\ UNCHANGED faults
     \/ /\ "calls" \in may /\ Mine(j).n > hub.void
        /\ hub' = [hub EXCEPT !.gen = @ + 1]
        /\ Goto(j, [job[j] EXCEPT !.tok = 0, !.pc = "hubanswer"])
        /\ faults' = faults \union {"unheard"}
     \/ /\ "calls" \in may
        /\ Goto(j, [job[j] EXCEPT !.tok = 0, !.pc = "hubanswer"])
        /\ UNCHANGED <<hub, faults>>
     \/ /\ Mine(j).n <= hub.void
        /\ Goto(j, Call([job[j] EXCEPT !.tok = 0, !.uws = Mine(j).ws], "revoked", "hubanswer"))
        /\ UNCHANGED <<hub, faults>>
  /\ UNCHANGED <<rows, cache, may, hclient>>

(* _do_refresh: the client is updated, then the record, all under the      *)
(* lock; without new tokens the expiry is set to ten seconds from now,     *)
(* which is inside the window of the next proactive refresh.  If the grant *)
(* was revoked the uninstall of its workspace is over, and one that called *)
(* the API goes on with its own.                                           *)
HubAnswer(j) ==
  /\ At(j, "hubanswer")
  /\ LET new == job[j].tok
         r == [job[j] EXCEPT !.uws = job[j].ws] IN
     /\ hclient' = [hclient EXCEPT ![job[j].hc] =
          IF new = 0 THEN [@ EXCEPT !.cool = TRUE] ELSE [@ EXCEPT !.n = new, !.cool = FALSE]]
     /\ Goto(j, IF new = 0 THEN [r EXCEPT !.pc = "refreshed"]
                ELSE Lookup(r, <<Mine(j).ws, "hubspot">>, "hubpersist"))
  /\ UNCHANGED <<rows, cache, may, faults, hub>>

HubPersist(j) ==
  /\ At(j, "hubpersist")
  /\ Goto(j, IF job[j].rec = NoRow THEN [job[j] EXCEPT !.pc = "refreshed"]
             ELSE Upsert(job[j], [job[j].rec EXCEPT !.n = job[j].tok], "refreshed"))
  /\ UNCHANGED <<rows, cache, may, faults, hubVars>>

Refreshed(j) ==
  /\ At(j, "refreshed")
  /\ IF job[j].mode = "early" THEN Unlock(j) ELSE UNCHANGED hclient
  /\ Goto(j, [job[j] EXCEPT !.pc = "send"])
  /\ UNCHANGED <<rows, cache, may, faults, hub>>

(* A request that calls HubSpot.                                           *)
BeginHub(j) ==
  /\ At(j, "hubcall")
  /\ Goto(j, Call(job[j], "hub", "end"))
  /\ UNCHANGED <<rows, cache, may, faults, hubVars>>

TokenDue == /\ "due" \in may /\ hub.due < hub.gen
            /\ \A j \in Jobs : job[j].pc \notin {"hubrefresh", "hubanswer", "hubpersist", "refreshed"}
            /\ hub' = [hub EXCEPT !.due = hub.gen]
            /\ UNCHANGED <<recordVars, hclient>>
TokenDies == /\ "die" \in may /\ hub.dead < hub.due
             /\ hub' = [hub EXCEPT !.dead = hub.due]
             /\ UNCHANGED <<recordVars, hclient>>

HubStep(j) ==
  \/ GetClient(j) \/ MakeClient(j) \/ Proactive(j) \/ LockEarly(j) \/ Send(j) \/ Answered(j)
  \/ Errs(j) \/ Unauthorized(j) \/ LockLate(j) \/ HubRefreshes(j) \/ HubAnswer(j) \/ HubPersist(j)
  \/ Refreshed(j) \/ BeginHub(j)
=============================================================================
