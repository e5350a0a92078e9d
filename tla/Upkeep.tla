-------------------------------- MODULE Upkeep --------------------------------
(***************************************************************************)
(* What runs beside the events and the clicks of a workspace: the sweep    *)
(* that queues its scheduled digests (lambda_scheduler.py), the form and   *)
(* the button that make and delete them, the worker that posts them; the   *)
(* sync of HubSpot owners with Slack users (user_mapping_service.py) and   *)
(* the mappings a user makes; and the plan that limits these               *)
(* (tier_service.py, billing).                                             *)
(*                                                                         *)
(* upsert_workspace(workspace_id=...) names no id and a column the table   *)
(* workspaces does not have: it raises, and the row stays as it is.        *)
(* Messages of the queue for one digest count as one.                      *)
(***************************************************************************)
EXTENDS Integers, FiniteSets

CONSTANTS Digests, Sweeps, Owners, Syncs, Links, People, Nobody,
          Payments,    \* Stripe's events
          Tries        \* how often the queue delivers a digest

VARIABLES table,       \* scheduled_digests
          deleted,     \* digests a user has deleted (history)
          overtaken,   \* of these, the ones a sweep had in hand by then (history)
          sweep,       \* [pc, rows]: the rows a sweep has yet to queue; the last is being saved
          mail,        \* execute_digest messages: digest -> deliveries left
          row,         \* user_mappings: owner -> [status, who]
          sync,        \* [pc, seen, users, left]
          link,        \* the requests for a manual mapping: [pc, owner, who, excuse]
          excused,     \* owners mapped by hand past the limit of free workspaces (history)
          workspace,   \* [plan, status, trial]
          tier,        \* _tier_cache: none, free, pro
          processed    \* Stripe events marked as processed

upkeepVars == <<table, deleted, overtaken, sweep, mail, row, sync, link, excused, workspace, tier, processed>>
digestVars == <<table, deleted, overtaken, sweep, mail>>
mappingVars == <<row, sync, link, excused>>
planVars == <<workspace, tier, processed>>

----------------------------------------------------------------------------
(* Digests.                                                                *)
\* An incomplete form is dropped; the row's id is new.
CreateDigest(d) ==
  /\ d \notin table \cup deleted /\ table' = table \cup {d}
  /\ UNCHANGED <<deleted, overtaken, sweep, mail, mappingVars, planVars>>

InHand(d) == \E s \in Sweeps : d \in sweep[s].rows

\* Mutant of Remove: the button's value is not the id.
RemoveNothing(d) == table

Remove(d) == table \ {d}

DeleteDigest(d) ==
  /\ d \in table /\ table' = Remove(d) /\ deleted' = deleted \cup {d}
  /\ overtaken' = (IF InHand(d) THEN overtaken \cup {d} ELSE overtaken)
  /\ UNCHANGED <<sweep, mail, mappingVars, planVars>>

\* list_due_digests takes every row, whatever its schedule.
ListDue(s) ==
  /\ sweep[s].pc = "idle"
  /\ sweep' = [sweep EXCEPT ![s] = [pc |-> "queue", rows |-> table]]
  /\ UNCHANGED <<table, deleted, overtaken, mail, mappingVars, planVars>>

QueueDigest(s) == \E d \in sweep[s].rows :
  /\ sweep[s].pc = "queue" /\ sweep' = [sweep EXCEPT ![s].pc = d]
  /\ mail' = [mail EXCEPT ![d] = Tries]
  /\ UNCHANGED <<table, deleted, overtaken, mappingVars, planVars>>

\* last_run_at is written with the whole row: a row deleted meanwhile is back.
SaveRun(s) == \E d \in sweep[s].rows :
  /\ sweep[s].pc = d /\ table' = table \cup {d}
  /\ sweep' = [sweep EXCEPT ![s] = [pc |-> "queue", rows |-> sweep[s].rows \ {d}]]
  /\ UNCHANGED <<deleted, overtaken, mail, mappingVars, planVars>>

\* The end of the list, or an exception: the rest waits for the next sweep.
SweepEnds(s) ==
  /\ sweep[s].pc # "idle" /\ sweep' = [sweep EXCEPT ![s] = [pc |-> "idle", rows |-> {}]]
  /\ UNCHANGED <<table, deleted, overtaken, mail, mappingVars, planVars>>

\* The worker posts the digest, or a block that says it failed.  Without a
\* HubSpot integration there is nothing to do; a post that fails comes again.
ExecuteDigest(d) ==
  /\ mail[d] > 0
  /\ \/ mail' = [mail EXCEPT ![d] = 0]
     \/ mail' = [mail EXCEPT ![d] = @ - 1]
  /\ UNCHANGED <<table, deleted, overtaken, sweep, mappingVars, planVars>>

----------------------------------------------------------------------------
(* The plan.                                                               *)
\* get_tier: an active subscription that is no trial, a pro plan, or a trial
\* that runs.
TierOfRow == IF \/ workspace.status \in {"active", "trialing"} /\ workspace.plan # "trial"
                \/ workspace.plan = "pro" \/ workspace.trial = "running"
             THEN "pro" ELSE "free"
Tier == IF tier = "none" THEN TierOfRow ELSE tier

StartTrial ==
  /\ workspace.plan = "none"
  /\ workspace' = [plan |-> "trial", status |-> "trialing", trial |-> "running"]
  /\ UNCHANGED <<tier, processed, digestVars, mappingVars>>
\* The daily check would write plan "free", but its upsert raises as well.
TrialEnds == /\ workspace.trial = "running" /\ workspace' = [workspace EXCEPT !.trial = "over"]
             /\ UNCHANGED <<tier, processed, digestVars, mappingVars>>

\* The webhook raises at its upsert: neither the plan nor the cache changes,
\* and Stripe's next try of the event is ignored.
Payment(e) == /\ e \notin processed /\ processed' = processed \cup {e}
              /\ UNCHANGED <<workspace, tier, digestVars, mappingVars>>

TierExpires == /\ tier # "none" /\ tier' = "none"
               /\ UNCHANGED <<workspace, processed, digestVars, mappingVars>>

----------------------------------------------------------------------------
(* Mappings.                                                               *)
Unmapped == [status |-> "none", who |-> Nobody]

BeginSync(y) == \E users \in [Owners -> People \cup {Nobody}] :
  /\ sync[y].pc = "idle"
  /\ sync' = [sync EXCEPT ![y] = [@ EXCEPT !.pc = "read", !.users = users, !.left = Owners]]
  /\ UNCHANGED <<row, link, excused, digestVars, planVars>>

ReadMappings(y) ==
  /\ sync[y].pc = "read"
  /\ sync' = [sync EXCEPT ![y].pc = "write", ![y].seen = row]
  /\ UNCHANGED <<row, link, excused, digestVars, planVars>>

\* Manual mappings, and those that have not changed.
LeaveAlone(seen, who) == seen.status = "manual" \/ (seen.status # "none" /\ seen.who = who)

\* A request that has counted and not written is late once the table changes.
Overtaken == [l \in Links |-> IF link[l].pc = "write" /\ link[l].excuse = "" THEN [link[l] EXCEPT !.excuse = "late"] ELSE link[l]]

\* A manual mapping made since the table was read is overwritten.
SyncOwner(y) == \E o \in sync[y].left :
  /\ sync[y].pc = "write"
  /\ IF LeaveAlone(sync[y].seen[o], sync[y].users[o]) THEN UNCHANGED <<row, link, excused>>
     ELSE /\ row' = [row EXCEPT ![o] = [status |-> "auto", who |-> sync[y].users[o]]]
          /\ link' = Overtaken /\ excused' = excused \ {o}
  /\ sync' = [sync EXCEPT ![y].left = @ \ {o}]
  /\ UNCHANGED <<digestVars, planVars>>

NoSync == [pc |-> "idle", seen |-> [o \in Owners |-> Unmapped], users |-> [o \in Owners |-> Nobody], left |-> {}]

\* The end, or an exception: no owners, Slack, the database.
SyncEnds(y) ==
  /\ sync[y].pc # "idle" /\ sync' = [sync EXCEPT ![y] = NoSync]
  /\ UNCHANGED <<row, link, excused, digestVars, planVars>>

Manual == {o \in Owners : row[o].status = "manual"}

\* PUT /manual reads the plan, then the mappings, then writes its own.
NoRequest == [pc |-> "idle", owner |-> Nobody, who |-> Nobody, excuse |-> ""]
AskTier(l) == \E o \in Owners, w \in People \cup {Nobody} :
  /\ link[l].pc = "idle" /\ tier' = Tier
  /\ link' = [link EXCEPT ![l] = IF Tier = "free" THEN [pc |-> "count", owner |-> o, who |-> w, excuse |-> ""]
                                 ELSE [pc |-> "write", owner |-> o, who |-> w, excuse |-> "paid"]]
  /\ UNCHANGED <<row, sync, excused, workspace, processed, digestVars>>

\* Mutant of Full: one mapping too many.
FullAboveOne(owner) == Cardinality(Manual) > 1 /\ owner \notin Manual

\* One manual mapping is free; it may be changed.
Full(owner) == Manual # {} /\ owner \notin Manual

\* To unlink an owner is free, and leaves a manual mapping to nobody.
CountManual(l) ==
  /\ link[l].pc = "count"
  /\ link' = IF Full(link[l].owner) /\ link[l].who # Nobody THEN [link EXCEPT ![l] = NoRequest]
             ELSE [link EXCEPT ![l].pc = "write"]
  /\ UNCHANGED <<row, sync, excused, digestVars, planVars>>

\* The limit does not hold for what was paid for, for an owner unlinked by
\* hand before, or when the table changed after the count.
WriteManual(l) ==
  /\ link[l].pc = "write"
  /\ row' = [row EXCEPT ![link[l].owner] = [status |-> "manual", who |-> link[l].who]]
  /\ excused' = (IF link[l].who = Nobody \/ link[l].excuse # "" THEN excused \cup {link[l].owner} ELSE excused)
  /\ link' = [Overtaken EXCEPT ![l] = NoRequest]
  /\ UNCHANGED <<sync, digestVars, planVars>>

RequestFails(l) ==
  /\ link[l].pc # "idle" /\ link' = [link EXCEPT ![l] = NoRequest]
  /\ UNCHANGED <<row, sync, excused, digestVars, planVars>>

----------------------------------------------------------------------------
DigestStep == \/ \E d \in Digests : CreateDigest(d) \/ DeleteDigest(d) \/ ExecuteDigest(d)
              \/ \E s \in Sweeps : ListDue(s) \/ QueueDigest(s) \/ SaveRun(s) \/ SweepEnds(s)
LinkStep(l) == AskTier(l) \/ CountManual(l) \/ WriteManual(l) \/ RequestFails(l)
SyncStep == \E y \in Syncs : BeginSync(y) \/ ReadMappings(y) \/ SyncOwner(y) \/ SyncEnds(y)
MappingStep == SyncStep \/ \E l \in Links : LinkStep(l)
PlanStep == StartTrial \/ TrialEnds \/ TierExpires \/ \E e \in Payments : Payment(e)
UpkeepNext == DigestStep \/ MappingStep \/ PlanStep

\* A run has digests to look after, or mappings and a plan.
UpkeepInit(digests, plans) ==
  /\ table = digests /\ deleted = {} /\ overtaken = {}
  /\ sweep = [s \in Sweeps |-> [pc |-> "idle", rows |-> {}]] /\ mail = [d \in Digests |-> 0]
  /\ row = [o \in Owners |-> Unmapped]
  /\ sync = [y \in Syncs |-> NoSync]
  /\ link = [l \in Links |-> NoRequest] /\ excused = {}
  /\ workspace \in plans /\ tier = "none" /\ processed = {}

----------------------------------------------------------------------------
\* A digest that a user has deleted is in the table again only if a sweep had
\* read it before: no sweep that begins later queues it.
DeletedStaysDeleted == table \cap deleted \subseteq overtaken

\* A free workspace has one owner mapped by hand to somebody, but for those
\* that its requests and syncs, in whatever order, have excused.
Linked == {o \in Owners : row[o].status = "manual" /\ row[o].who # Nobody}
OneLinkIsFree == \A o, p \in Linked \ excused : o = p
=============================================================================
