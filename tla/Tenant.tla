------------------------------- MODULE Tenant -------------------------------
EXTENDS Lifecycle

CONSTANT Scenarios  \* what is in the database, which requests arrive, what may go wrong

(* The database holds records that have been installed, with the first     *)
(* pair of tokens or, in a shell, none; a request is about a workspace.    *)
ScenariosTyped ==
  \A s \in Scenarios :
    /\ s.due \in 0..1 /\ s.homes \subseteq {"T", "W"} /\ s.portal \in {"", "T", "W"}
    /\ \A x \in s.rows : /\ DOMAIN x = DOMAIN NoRow
                         /\ x.ws \in {"T", "W"} /\ x.link \in {"", "T", "W"} /\ x.n \in 0..1
                         /\ x.prov = "slack" \/ (x.prov = "hubspot" /\ x.n = 1)
    /\ \A j \in Jobs :
         LET w == s.work[j] IN
         /\ w.kind \in {"slackcall", "hubcall", "uninstall", "unhub", "unslack", "install", "installhub"}
         /\ w.p \in Processes /\ w.ws \in {"T", "W"} /\ w.state \in {"", "T", "W"} /\ w.hc \in Jobs
         /\ w.prov \in {"slack", "hubspot"} \/ (w.prov = "" /\ w.kind # "slackcall")
ASSUME ScenariosAssumption == ScenariosTyped

Init == \E s \in Scenarios : RecordInit(s) /\ SlackInit(s) /\ HubInit(s) /\ LifeInit(s)

RequestStep(j) ==
  \/ (RecordStep(j) /\ UNCHANGED <<slackVars, hubVars, lifeVars>>)
  \/ (SlackStep(j) /\ UNCHANGED <<hubVars, lifeVars>>)
  \/ (HubStep(j) /\ UNCHANGED <<slackVars, lifeVars>>)
  \/ LifeStep(j)

Environment ==
  \/ \E p \in Processes, k \in Keys : RecordExpires(p, k) /\ UNCHANGED <<slackVars, hubVars, lifeVars>>
  \/ \E p \in Processes : HandleExpires(p) /\ UNCHANGED <<hubVars, lifeVars>>
  \/ (PairDue /\ UNCHANGED <<hubVars, lifeVars>>)
  \/ (PairDies /\ UNCHANGED <<hubVars, lifeVars>>)
  \/ (TokenDue /\ UNCHANGED <<slackVars, lifeVars>>)
  \/ (TokenDies /\ UNCHANGED <<slackVars, lifeVars>>)
  \/ RemoveFromHubSpot
  \/ RemoveFromSlack
  \/ \E p \in Processes : Crash(p)

Next == (\E j \in Jobs : RequestStep(j)) \/ Environment

Spec == Init /\ [][Next]_tenantVars /\ \A j \in Jobs : WF_tenantVars(RequestStep(j))

----------------------------------------------------------------------------
TypeOK ==
  /\ \A j \in Jobs : job[j].p \in Processes /\ job[j].cl \in 0..Len(client)
  /\ \A x \in rows : x.ws \in {"T", "W"} /\ x.prov \in {"slack", "hubspot"} /\ x.n \in 0..slack.gen + hub.gen
  /\ \A p \in Processes, k \in Keys : cache[p][k] # NoRow => <<cache[p][k].ws, cache[p][k].prov>> = k \/ k = <<"T", "hubspot">>
  /\ slack.dead <= slack.due /\ slack.due <= slack.gen /\ slack.void <= slack.gen
  /\ hub.dead <= hub.due /\ hub.due <= hub.gen /\ hub.void <= hub.gen

Installs == \E j \in Jobs : job[j].kind \in {"install", "installhub"}

(* The newest pair of the Slack team is the one that is stored, once no    *)
(* request holds one: whatever rotates, borrows, moves or installs, the    *)
(* chain of single-use refresh tokens is not lost, unless a write failed,  *)
(* an answer of Slack was lost, an instance died, or two pairs were under  *)
(* way; answers of HubSpot that are lost and mappings that stay behind an  *)
(* uninstall change nothing about it.  (An installation may put the pair   *)
(* into the record that is linked to the team's.)                          *)
(* For at most two calls of Slack at a time in an instance: a crowd of     *)
(* five can rotate a pair twice and write a stale one over it.             *)
ChainKept ==
  faults \subseteq {"late", "unheard", "mappings"} /\ slack.gen > slack.void /\ (\A j \in Jobs : ~Carries(j) /\ job[j].pc # "lost")
    /\ (\E x \in rows : HasToken(x))
  => \E x \in rows : HasToken(x) /\ (x.link = "" \/ Installs) /\ x.n = slack.gen

(* A pair that comes due is rotated once: the second request that saw it   *)
(* expire finds the rotated pair when it has the lock (token_service's     *)
(* re-read), unless the first did not persist it in time.  A third could   *)
(* put what it read before back into the cache, for the second to find.    *)
RotatedOnce == Installs \/ faults \cap {"overlap", "write", "crash"} # {} \/ slack.gen <= slack.due + 1

(* The branches of one request, which share a client, refresh an access    *)
(* token once, be it early or after a 401, unless a new one was lost on    *)
(* its way.                                                                *)
RefreshedOnce ==
  \/ Installs \/ (\E j, k \in Jobs : job[j].hc # job[k].hc) \/ "unheard" \in faults
  \/ hub.gen <= hub.due + 1

\* The workspace an uninstall is about: the request's own, or, when it was
\* called on the way, the one whose grant is revoked.
Asked(j) == IF Len(job[j].todo) = 1 THEN job[j].ws ELSE job[j].uws

(* When uninstall_workspace ends, whatever has failed on its way and also  *)
(* if it came across a revoked grant and uninstalled another workspace in  *)
(* between, nothing of its own workspace is left but what could not be     *)
(* deleted itself or what another request has written in the meantime.     *)
UninstallComplete ==
  [][\A j \in Jobs : At(j, "wipe") /\ job[j].left = {} /\ job'[j].pc \notin {"wipe", "killed"} =>
       /\ "mappings" \in faults' \/ Asked(j) \notin maps'
       /\ \A x \in rows : x.ws = Asked(j) => "late" \in faults \/ x.prov \in faults]_tenantVars

(* Slack is told to drop the app only when a whole workspace is uninstalled *)
(* or HubSpot has revoked its grant: no failure of a refresh, of a call or *)
(* of the transport alone gets there (on_token_revoked).                   *)
SlackIsLeftAlone ==
  [][\A j \in Jobs : At(j, "appsuninstall") /\ slack' # slack => job[j].kind = "uninstall" \/ hub.void > 0]_tenantVars

(* uninstall_hubspot leaves Slack's app alone ("Slack remains active").    *)
UnhubSparesSlack ==
  [][\A j \in Jobs : job[j].kind = "unhub" /\ At(j, "appsuninstall") => slack' = slack]_tenantVars

(* A request that has begun ends: no lock is left behind, no refresh goes  *)
(* round in circles.                                                       *)
RequestsEnd == \A j \in Jobs : job[j].pc # job[j].kind ~> Over(j)
=============================================================================
