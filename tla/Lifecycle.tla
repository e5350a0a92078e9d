----------------------------- MODULE Lifecycle -----------------------------
(***************************************************************************)
(* Installing and uninstalling: the OAuth callbacks of Slack and HubSpot,  *)
(* the uninstall of a workspace or of one provider, what the platforms do  *)
(* on their own, and instances that are recycled.                          *)
(*                                                                         *)
(* spaces are the workspaces there are; homes and portal say which of    *)
(* them carry the team's and the portal's id.  All survive an uninstall.   *)
(* maps are the workspaces that have thread or user mappings.              *)
(***************************************************************************)
EXTENDS SlackTokens, HubSpotClient

VARIABLES spaces, homes, portal, maps
lifeVars == <<spaces, homes, portal, maps>>
tenantVars == <<recordVars, slackVars, hubVars, lifeVars>>

LifeInit(s) == spaces = {"T", "W"} /\ homes = s.homes /\ portal = s.portal /\ maps = {"T", "W"}

Others == <<rows, cache, may, faults, slackVars, hubVars, lifeVars>>

----------------------------------------------------------------------------
(* uninstall_workspace.  The workspace row is never deleted, so the test   *)
(* for "already uninstalled" does not fire.  Each part's failure is        *)
(* swallowed.                                                              *)
BeginUninstall(j) ==
  /\ At(j, "uninstall")
  /\ Goto(j, IF job[j].ws \notin spaces THEN Ended(job[j], "done")
             ELSE Lookup([job[j] EXCEPT !.todo = <<"end">>], <<job[j].ws, "hubspot">>, "drophub"))
  /\ UNCHANGED Others

(* The same for a grant that HubSpot has refused, which is not asked again. *)
BeginRevoked(j) ==
  /\ At(j, "revoked")
  /\ Goto(j, IF job[j].uws \notin spaces THEN Return(job[j], TRUE)
             ELSE [job[j] EXCEPT !.pc = "dropslack"])
  /\ UNCHANGED Others

DropHubSpot(j) ==
  /\ At(j, "drophub")
  /\ Goto(j, IF job[j].rec = NoRow THEN [job[j] EXCEPT !.pc = "dropslack"]
             ELSE Call(job[j], "hub", "dropslack"))
  /\ UNCHANGED Others

DropSlack(j) ==
  /\ At(j, "dropslack")
  /\ Goto(j, Lookup(job[j], <<job[j].uws, "slack">>, "revoke"))
  /\ UNCHANGED Others

Wipe(r) == [r EXCEPT !.pc = "wipe", !.left = {"hubspot", "slack"}]

(* A shell record borrows the token of the workspace it is linked to.      *)
Revoke(j) ==
  /\ At(j, "revoke")
  /\ Goto(j, IF job[j].rec = NoRow THEN Wipe(job[j])
             ELSE IF HasToken(job[j].rec)
                  THEN Call([job[j] EXCEPT !.src = job[j].rec], "appsuninstall", "wipeall")
             ELSE UseSlack(job[j], job[j].rec, "appsuninstall", "wipeall"))
  /\ UNCHANGED Others

(* apps.uninstall revokes every pair Slack has issued to the team.         *)
AppsUninstall(j) ==
  /\ At(j, "appsuninstall")
  /\ LET n == IF HasToken(job[j].src) THEN job[j].src.n ELSE TheClient(j).n IN
     slack' = IF Works(n) THEN [slack EXCEPT !.void = slack.gen] ELSE slack
  /\ Goto(j, Return(job[j], TRUE))
  /\ UNCHANGED <<rows, cache, may, faults, client, handle, lock, hubVars, lifeVars>>

WipeAll(j) ==
  /\ At(j, "wipeall")
  /\ Goto(j, Wipe(job[j]))
  /\ UNCHANGED Others

\* Mutant of WipeOne: Slack's record is left to Slack's own event.
WipeOneHubSpot(j) ==
  /\ At(j, "wipe") /\ job[j].left # {}
  /\ Goto(j, Delete([job[j] EXCEPT !.left = {}], <<job[j].uws, "hubspot">>, "wipe"))
  /\ UNCHANGED Others

(* Both integrations, in either order, then the mappings, whichever of the *)
(* deletes raises (return_exceptions); the clients in the cache stay.      *)
WipeOne(j) ==
  /\ At(j, "wipe") /\ job[j].left # {}
  /\ \E v \in job[j].left :
       Goto(j, Delete([job[j] EXCEPT !.left = @ \ {v}], <<job[j].uws, v>>, "wipe"))
  /\ UNCHANGED Others

WipeMappings(j) ==
  /\ At(j, "wipe") /\ job[j].left = {}
  /\ \/ maps' = maps \ {job[j].uws} /\ UNCHANGED faults
     \/ "write" \in may /\ faults' = faults \union {"mappings"} /\ UNCHANGED maps
  /\ Goto(j, Return(job[j], TRUE))
  /\ UNCHANGED <<rows, cache, may, slackVars, hubVars, spaces, homes, portal>>

(* uninstall_hubspot, after a request of the app's page or app.deleted.    *)
BeginUnhub(j) ==
  /\ At(j, "unhub")
  /\ Goto(j, Call([job[j] EXCEPT !.todo = <<"end">>], "hub", "delhub"))
  /\ UNCHANGED Others

DeleteHub(j) ==
  /\ At(j, "delhub")
  /\ Goto(j, Delete(job[j], <<job[j].ws, "hubspot">>, "end"))
  /\ UNCHANGED Others

(* uninstall_slack, after Slack's app_uninstalled: here the clients go too.*)
BeginUnslack(j) ==
  /\ At(j, "unslack") /\ slack.void > 0
  /\ Goto(j, Lookup(job[j], <<job[j].ws, "slack">>, "delslack"))
  /\ UNCHANGED Others

DeleteSlack(j) ==
  /\ At(j, "delslack")
  /\ Goto(j, Delete([job[j] EXCEPT !.src = job[j].rec], <<job[j].ws, "slack">>, "dropclients"))
  /\ UNCHANGED Others

DropClients(j) ==
  /\ At(j, "dropclients")
  /\ handle' = IF job[j].ok THEN [handle EXCEPT ![job[j].p] = {h \in @ : h.id # job[j].src.id}]
               ELSE handle
  /\ Goto(j, Ended(job[j], "done"))
  /\ UNCHANGED <<rows, cache, may, faults, slack, client, lock, hubVars, lifeVars>>

----------------------------------------------------------------------------
(* The Slack OAuth callback: exchange_token, then register_integration.    *)
(* A new installation revokes the pairs of the former one.                 *)
BeginInstall(j) ==
  /\ At(j, "install")
  /\ slack' = [slack EXCEPT !.gen = @ + 1, !.void = slack.gen]
  /\ faults' = faults \union Overlap
  /\ \E ws \in (IF homes = {} THEN {"T"} ELSE homes) :
       Goto(j, Lookup([job[j] EXCEPT !.got = slack.gen + 1, !.ws = ws], <<ws, "slack">>, "register"))
  /\ UNCHANGED <<rows, cache, may, client, handle, lock, hubVars, lifeVars>>

(* Without a state the record's workspace, or the retained one, is used;   *)
(* with the state of another workspace that one is merged into it.         *)
Register(j) ==
  /\ At(j, "register")
  /\ LET x == job[j].rec
         st == job[j].state
         r == [job[j] EXCEPT !.old = x] IN
     Goto(j, IF st # "" /\ x # NoRow /\ x.ws # st
             THEN [r EXCEPT !.pc = "merge", !.left = {y \in rows : y.ws = st}]
             ELSE [r EXCEPT !.pc = "save", !.ws = IF st # "" THEN st ELSE job[j].ws])
  /\ UNCHANGED Others

(* A record moves unless the target workspace has one for its provider     *)
(* already, which the bridge answers too.                                  *)
Merge(j) ==
  /\ At(j, "merge") /\ job[j].left # {}
  /\ \E x \in job[j].left :
       Goto(j, Lookup([job[j] EXCEPT !.new = x, !.left = @ \ {x}], <<job[j].old.ws, x.prov>>, "move"))
  /\ UNCHANGED Others

Move(j) ==
  /\ At(j, "move") /\ job[j].rec = NoRow
  /\ Goto(j, Upsert(job[j], [job[j].new EXCEPT !.ws = job[j].old.ws], "merge"))
  /\ UNCHANGED Others

(* Portal Conflict: the record and the workspace of the state are deleted. *)
Conflict(j) ==
  /\ At(j, "move") /\ job[j].rec # NoRow
  /\ rows' = {x \in rows : x.id # job[j].new.id}
  /\ spaces' = spaces \ {job[j].state}
  /\ homes' = homes \ {job[j].state}
  /\ portal' = IF portal = job[j].state THEN "" ELSE portal
  /\ faults' = faults \union {"conflict"}
  /\ Goto(j, Ended(job[j], "failed"))
  /\ UNCHANGED <<cache, may, slackVars, hubVars, maps>>

Merged(j) ==
  /\ At(j, "merge") /\ job[j].left = {}
  /\ spaces' = spaces \ {job[j].state}
  /\ homes' = homes \ {job[j].state}
  /\ portal' = IF portal = job[j].state THEN "" ELSE portal
  /\ Goto(j, [job[j] EXCEPT !.pc = "save", !.ws = job[j].old.ws])
  /\ UNCHANGED <<rows, cache, may, faults, slackVars, hubVars, maps>>

(* The workspace gets the team id; the clients of the old record are       *)
(* dropped before the new one is written.                                  *)
Save(j) ==
  /\ At(j, "save")
  /\ LET x == job[j].old IN
     /\ homes' = homes \union {job[j].ws}
     /\ handle' = IF x = NoRow THEN handle
                  ELSE [handle EXCEPT ![job[j].p] = {h \in @ : h.id # x.id}]
     /\ Goto(j, Upsert(job[j], [id |-> x.id, ws |-> job[j].ws, prov |-> "slack",
                                n |-> job[j].got, link |-> x.link], "end"))
  /\ UNCHANGED <<rows, cache, may, faults, slack, client, lock, hubVars, spaces, portal, maps>>

----------------------------------------------------------------------------
(* The HubSpot OAuth callback.                                             *)
Shell(ws, parent) == [NoRow EXCEPT !.ws = ws, !.prov = "slack", !.link = parent]

(* A portal that no workspace has is looked for in the records' metadata.  *)
Bootstrap == {x \in rows : x.prov = "hubspot"}

BeginHubInstall(j) ==
  /\ At(j, "installhub")
  /\ hub' = [hub EXCEPT !.gen = @ + 1]
  /\ LET r == [job[j] EXCEPT !.tok = hub.gen + 1] IN
     IF portal # "" THEN Goto(j, Lookup(r, <<portal, "hubspot">>, "reuse"))
     ELSE \E x \in (IF Bootstrap = {} THEN {NoRow} ELSE Bootstrap) :
            Goto(j, [r EXCEPT !.pc = "reuse", !.rec = x])
  /\ UNCHANGED <<rows, cache, may, faults, slackVars, hclient, lifeVars>>

(* The portal is known: its workspace stays, and its link is healed when   *)
(* the state points to another Slack workspace.                            *)
Reuse(j) ==
  /\ At(j, "reuse")
  /\ LET r == [job[j] EXCEPT !.old = job[j].rec] IN
     IF job[j].rec = NoRow THEN Goto(j, [r EXCEPT !.pc = "isolate"])
     ELSE IF job[j].state = "" \/ homes = {} THEN Goto(j, [r EXCEPT !.pc = "savehub"])
     ELSE \E ws \in homes : Goto(j, Lookup(r, <<ws, "slack">>, "heal"))
  /\ UNCHANGED Others

Heal(j) ==
  /\ At(j, "heal")
  /\ LET s == job[j].rec
         x == job[j].old IN
     Goto(j, IF s = NoRow \/ s.ws = x.link THEN [job[j] EXCEPT !.pc = "savehub"]
             ELSE Upsert([job[j] EXCEPT !.old = [x EXCEPT !.link = s.ws]], Shell(x.ws, s.ws), "savehub"))
  /\ UNCHANGED Others

(* A new portal gets a workspace of its own, linked by a shell record to   *)
(* the Slack workspace the installation started from.                      *)
Isolate(j) ==
  /\ At(j, "isolate")
  /\ portal' = "W"
  /\ Goto(j, IF job[j].state = ""
             THEN [job[j] EXCEPT !.old = [NoRow EXCEPT !.ws = "W"], !.pc = "savehub"]
             ELSE Lookup(job[j], <<job[j].state, "slack">>, "share"))
  /\ UNCHANGED <<rows, cache, may, faults, slackVars, hubVars, spaces, homes, maps>>

Share(j) ==
  /\ At(j, "share")
  /\ LET s == job[j].rec
         r == [job[j] EXCEPT !.old = [NoRow EXCEPT !.ws = "W", !.link = s.ws]] IN
     /\ homes' = IF s = NoRow THEN homes ELSE homes \union {"W"}
     /\ Goto(j, IF s = NoRow \/ s.ws = "W" THEN [r EXCEPT !.pc = "savehub"]
                ELSE Upsert(r, Shell("W", s.ws), "savehub"))
  /\ UNCHANGED <<rows, cache, may, faults, slackVars, hubVars, spaces, portal, maps>>

SaveHub(j) ==
  /\ At(j, "savehub")
  /\ Goto(j, Lookup(job[j], <<job[j].old.ws, "hubspot">>, "writehub"))
  /\ UNCHANGED Others

WriteHub(j) ==
  /\ At(j, "writehub")
  /\ Goto(j, Upsert(job[j], [id |-> job[j].rec.id, ws |-> job[j].old.ws, prov |-> "hubspot",
                             n |-> job[j].tok, link |-> job[j].old.link], "end"))
  /\ UNCHANGED Others

----------------------------------------------------------------------------
(* A user removes the app in HubSpot or in Slack; an instance is recycled, *)
(* with its requests, caches and locks.                                    *)
RemoveFromHubSpot == /\ "remove" \in may /\ hub.void = 0
                     /\ hub' = [hub EXCEPT !.void = hub.gen]
                     /\ UNCHANGED <<recordVars, slackVars, hclient, lifeVars>>
RemoveFromSlack == /\ "remove" \in may /\ slack.void = 0
                   /\ slack' = [slack EXCEPT !.void = slack.gen]
                   /\ UNCHANGED <<recordVars, client, handle, lock, hubVars, lifeVars>>

Crash(p) ==
  /\ "crash" \in may
  /\ \E j \in Jobs : job[j].p = p /\ ~Over(j)
  /\ job' = [j \in Jobs |-> IF job[j].p = p /\ ~Over(j) THEN Ended(job[j], "killed") ELSE job[j]]
  /\ cache' = [cache EXCEPT ![p] = [k \in Keys |-> NoRow]]
  /\ handle' = [handle EXCEPT ![p] = {}]
  /\ lock' = [lock EXCEPT ![p] = {}]
  /\ faults' = faults \union {"crash"}
  /\ UNCHANGED <<rows, may, slack, client, hubVars, lifeVars>>

LifeStep(j) ==
  \/ BeginUninstall(j) \/ BeginRevoked(j) \/ DropHubSpot(j) \/ DropSlack(j) \/ Revoke(j) \/ AppsUninstall(j)
  \/ WipeAll(j) \/ WipeOne(j) \/ WipeMappings(j) \/ BeginUnhub(j) \/ DeleteHub(j)
  \/ BeginUnslack(j) \/ DeleteSlack(j) \/ DropClients(j)
  \/ BeginInstall(j) \/ Register(j) \/ Merge(j) \/ Move(j) \/ Conflict(j) \/ Merged(j) \/ Save(j)
  \/ BeginHubInstall(j) \/ Reuse(j) \/ Heal(j) \/ Isolate(j) \/ Share(j) \/ SaveHub(j) \/ WriteHub(j)
=============================================================================
