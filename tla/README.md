# A TLA+ model of REHA Connect (HubSpot – Slack)

REHA Connect receives webhooks from HubSpot and Slack, queues them to SQS, and
lets AWS Lambda instances turn them into Slack cards, thread replies, HubSpot
notes and alerts.  Instances share a Supabase database; caches, locks, timers
and debounce entries live in the memory of one instance.  What is hard in this
code is not a computation but the order of things: a coroutine may be suspended
at every `await`, several instances work on the same object, messages are
delivered more than once, and instances are recycled between two writes.  The
modules here model that, one component each.

Paths below are relative to `src/app/`.

## Inventory

| Component | State | Operations | What makes it hard | Correct when |
|---|---|---|---|---|
| In-memory TTL cache (`utils/cache.py`) | entries, in-flight events, remembered failures | get_or_fetch, get, set, invalidate, clear, expiry | concurrent callers share a fetch; cancellation; eviction | bounded, no caller sleeps forever, one fetch per key |
| Webhook intake and SQS dispatch (`routers/hubspot/webhook_router.py`, `utils/sqs_helpers.py`, `sqs_worker.py`) | messages in the queue | publish or run locally, receive, report failures | redelivery, dead instances, partial failure | every message settles; a failure is reported |
| Idempotency (`db/services/idempotency_storage.py`) | table processed_events | mark_processed | unique key is the only mutual exclusion between instances; fails open | an event is handled at most once |
| Notification pipeline (`domains/crm/notification_service.py`, `notifications/heuristics.py`) | debounce cache, semaphore, locals of each handler | filter, threshold, debounce, cap, send, count, map | check-then-act over many awaits, in one and in several instances | one card per object, no creation lost, cap and counter right |
| Ticket threads (`messaging/slack/mixins`, `db/storage_service.py`) | thread_mappings, Slack messages | send_card, open thread, clean up | look-up long before the write | one thread per open ticket, none for a closed one |
| Usage metering (`db/services/workspace_storage.py`) | notification_count_monthly, last_limit_reset | increment_usage_metrics | read-modify-write fallback, month's end | counter equals cards sent |
| Ghosting monitor (`crm/hubspot/ghosting_monitor.py`) | heartbeat rows, local timers | customer message, agent reply, timer, sweep | timers and sweep race; replies in other instances | one alert per unanswered message, none when answered |
| Slack token rotation (`connectors/slack/token_service.py`, `providers/slack/client.py`, `crm/slack_client_service.py`) | credentials, lock registry, client cache | refresh, persist | single-use refresh tokens, lock released before the write | a refresh token is spent once |
| HubSpot client (`providers/hubspot/client.py`, `core/base_client.py`) | token, lock, back-off | refresh, request with retries | per-client locks; retried POSTs | no token lost, no request doubled |
| Integration records (`db/services/integration_storage.py`, `crm/integration_service.py`) | integrations, read-through cache | get, upsert, delete, install merge | fetch in flight across an invalidation | no stale record after a write |
| Billing and tiers (`domains/billing`, `crm/billing_service.py`, `notifications/growth_campaigns.py`) | plan, subscription, tier cache | Stripe events, trial expiry, reminder | event marked before applied; upserts by the wrong key | the plan follows the subscription |
| Install, uninstall and identity (`crm/uninstall_service.py`, OAuth routers) | workspaces, integrations, mappings | install, merge, uninstall | deletions race writes in flight | nothing survives an uninstall |
| Slack events and thread sync (`connectors/slack/...`, `mixins/event_handlers.py`) | processed events, thread mappings | dispatch, reply to note, redaction | marked before handled | no reply lost or doubled |
| Digest sweep (`lambda_scheduler.py`, `digest_service.py`) | digests, last_run_at | sweep, execute | queue and mark are two steps | a digest runs once when due |
| Slack interactions and commands (`connectors/slack/services`) | the open modal, queued and background tasks, debounce marks | acknowledge, open, dispatch, some fifty handlers | a form is closed before it is worked on; redelivery repeats a handler; views and triggers expire | written once, the user hears of a failure, no loading modal for ever |
| User mappings (`crm/user_mapping_service.py`) | user_mappings | sync, manual mapping | both decide from what they read before they write | one manual mapping is free |
| HubSpot object service (`crm/hubspot/service.py`, `crm/service.py`) | notes, cached engagements | create_note and its daily log, look-ups, updates | read, append and write back; caches of another instance | no text lost or doubled, a view shows what was filed |
| AI analysis and sentiment (`domains/ai`, `functions/sentiment`) | sentiment table | analyzers by object type, asynchronous scoring | placeholder first, score later; decay, signs, truncation | bad news never improves a card, silence shows |
| Database access (`db/repository.py`) | rows | generic CRUD | an upsert is matched by the primary key only | assumed, but for the key |
| Cards and rendering, thin routers, adapters, shell, connector registry | – | formatting, REST calls | – | not modelled, see below |

Interaction: the webhook router publishes a batch, a worker claims each of its
events in the database and hands it to the notification handler, which reads
integration, tier and workspace records through caches, posts through the Slack
client (whose token may be rotated on the way), maps the thread, counts the
card and tells the ghosting monitor; a Slack event for a reply in that thread
goes back to HubSpot and to the ghosting monitor; scheduled sweeps pick up what
timers and instances dropped.

## Modules

**AsyncTTL** models `AsyncTTL` action by action.  The class's lock is held only
over code that does not suspend, so it is never contended on one event loop and
a task runs atomically from one suspension point to the next: `Hit`, `Join` and
`Lead` are the three ways into `get_or_fetch`; `FetchValue`, `FetchNone`,
`FetchError`, `FetchCancelled` the ends of a fetch including the `finally` block
(`Release`); `Served` and `FallThrough` what a woken waiter does.  An event is
named by the task that created it.

**EventOnce** is the abstract specification of the idempotency layer: an event
is claimed once and handled at most once.  **HubSpotWebhook** models the path of
a batch: `Publish` or `RunLocally` (router), `Receive`, `Reappear`, `Crash`,
`EndBatch` (SQS and Lambda, external), `MarkProcessed` / `MarkFailsOpen`
(database claim), `CheckSeen` (in-process set), `Enter` (semaphore) and the end
of the handler, which `process_event_batch` swallows when it is an exception.
`opened` remembers the events for which a claim failed open; EventOnce is
implemented with `claimed <- processed \union opened`, and of the handlings of an
opened event only the first is counted.  **MCHubSpotWebhookLive** adds a history
variable `calm`, false once an instance has died or a dispatch has failed.

**NotificationService** models `_handle_event_logic` for all events of one
workspace: the steps between two awaits are `Fetch`, `Decide` (threshold and
debounce), `ReadTarget`, `FindThread` (and the cap), `UpdateCard` / `PostCard` /
`SendNothing`, `InitThread` and `AnnounceThread` (`_initialize_ticket_thread`),
`Record`, `CountAtomic` or `ReadUsage` + `WriteUsage`, and `Finish`.  The early
returns end in "ignored", "debounced" or "capped"; any await may raise
(`HandlerFails`).  `usage` is the workspace row, `mapping` the thread mapping of
an object, `cards` its root messages in Slack; `posted` and `sent` are history
variables.  `Requested` holds the properties `get_ticket` and `get_task` ask
HubSpot for: what is not requested is not there when the handler looks at it.
An event reaches the handler at most once, which is what HubSpotWebhook shows.

**GhostingMonitor** models the monitor for one thread: `UpsertHeartbeat` and
`StartTimer` are `notify_customer_message`, `DeleteHeartbeat` and `CancelTimer`
are `notify_agent_reply`, then the timer with its done callback and the
scheduler's sweep.  Clocks are not modelled: a timer and a heartbeat may come
due at any time, in any order.  The row carries the message that wrote it, so
that an alert can be told to be for it (`alerted`); `overtaken` remembers the
messages whose heartbeat was written between an alert and its mark.

**Tenant** composes the life of a customer's integrations from four modules that
extend one another.  In all of them a request is a *job*: `pc` is its step,
`todo` the procedures it returns to, and a step ends at an await another request
can be seen at.

- **Records**: the rows of `integrations`, the read-through cache of each
  process (`Lookup`, `ReadRow`, `StoreRecord` with the bridge from a shell to its
  parent), upsert and delete, each followed by its invalidation (`Forget`).
- **SlackTokens**: `get_slack_client` (`Resolve`, `Pivot`, `Bind`), the rotation
  of a single-use pair under the registry's lock (`Check`, `TakeLock`, `Relook`,
  `SlackRotates`, `TakeAnswer`, `Persist` *after* the lock is released).
- **HubSpotClient**: early and reactive refresh under the client's lock,
  the transport's retries, back-off, and a revoked grant (`on_token_revoked`).
- **Lifecycle**: both OAuth callbacks with workspace resolution, healing,
  isolation, sharing and merge (`BeginInstall` to `Save`, `BeginHubInstall` to
  `WriteHub`), `uninstall_workspace`, `uninstall_hubspot` and
  `uninstall_slack`, the removal of the app on either platform and the recycling
  of an instance.

`slack` and `hub` are the platforms: a token is the number of the rotation or
installation that issued it, so that "the newest pair" can be said.  `may` names
what can go wrong in a scenario, `faults` what has.  `Lookup` does not join two
fetches of one key in flight (AsyncTTL does): it allows every behaviour of the
cache and a few more.  So do `Look` and `Fetch` in Desk.

**Workday** composes what goes on in a connected workspace, with INSTANCE:

- **Analysis**: `AIService.analyze_polymorphic` and the analyzers below it as
  operators on an object's properties and engagements (scores, pulse, decay,
  status, recommended action), with the sentiment table as state: a text counts
  as neutral until its score arrives.  Actions are a look at the object, the
  arrival or failure of a score, and time that passes: `waited` counts tenths of
  an hour, since a ticket's SLA looks at seconds (`Idle`) and everything else at
  whole days (`LastActivity`).  A look reads the scores of both its windows at
  once; the code queries the table for one and then for the other.  Recaps are
  not cached: an `AIService` is made for each request and caches under one
  constant key, so only two conversation links in one message share a recap.
- **Desk**: `events_router` and the thread sync (`Deliver`, whose claim fails
  open when the database does, fault `opened`; `Redact`; `Resolve` and `Parent`,
  which reads a record's name off its card if the card is a ticket's or a
  conversation's, `Names`), `create_note` with its daily
  log (`Search`, `AppendToLog` / `CreateNote` / `LinkNote`), descriptions of
  tasks, the engagements cache (`Look`, `Fetch`, `Store`, `Uncache`), tickets
  and their threads, transcripts, claim and close.  Deliveries of one Slack
  message share its event (`ev`), which therefore also stands for the key
  "channel:ts" that an instance remembers the links of a message by (`Human`).
- **Interactions**: one interaction from the web request to its last step.
  `Program` translates a handler into a sequence of steps with, for each, what
  the code does when it fails; the actions interpret the steps (`Read`, `Write`,
  `Mark`, `Card`, `Show`, `Open`, `Gate`, ...), so that a redelivery runs the
  handler again from its first step.  A meeting's form is taken to come with a
  title, a date and a time: its blocks are required inputs, so that the early
  returns of `meeting_handlers.py:119-128` are for no payload of Slack's.
- **Upkeep**: the digests (form, button, sweep, worker), the user mappings
  (sync and manual), `get_tier` with its cache, trials and Stripe's events.

These parts share no state in the code, so `topic` picks one of them for a
behaviour (the plan goes with the manual mappings it limits); one run covers
them without multiplying their states.

The MC modules give the constants values; only MCHubSpotWebhookLive adds to the
specification.  MCTenant and MCWorkday hold the scenarios.  Definitions marked
"Mutant" are plausible bugs used to see that each property can fail; no
specification uses them.

## Runs

Runs that pass:

| Run | Question |
|---|---|
| `cache` | 3 callers, 2 keys, 1 entry, every end of a fetch: the bound holds, no wakeup is lost, every call returns |
| `webhook` | 2 batches sharing an event, 2 instances, crashes, redelivery, claims that fail open: at most once but for the events whose claim failed open, never twice at once in a process, refinement of EventOnce |
| `webhook_live` | liveness over a batch and its repetition, with one event, instances that die, redelivery and claims that fail open: every message settles; unless an instance dies or a dispatch fails, every event posted is handled |
| `notify_free` | free plan, 3 events on 2 slots, a month's end, calls that raise: the overrun of the cap is bounded, every event taken up comes to an end |
| `notify_pro` | a ticket and an urgent task in one instance, the counting RPC out of work: one card each, no card counted twice, no creation debounced for nothing, every creation worth a card announced |
| `tenant` | 18 pairs of requests in one or two processes over four databases: the chain of Slack's single-use tokens is kept unless a named fault breaks it, a due token is refreshed once, an uninstall leaves nothing of its workspace but what could not be deleted or is written meanwhile, Slack's app is dropped only with the workspace or after a revoked grant, every request ends |
| `workday` | 27 kinds of records, 13 scenes at the desk, every registered interaction with 13 sets of troubles, 2 sweeps over 2 digests, manual mappings against a sync or a changing plan: replies are kept, filed once, at the right record and seen; a request is written once, and its failure told; a deleted digest stays deleted and a free workspace keeps its limit; silence and bad news show on a card |
| `ghosting` | 2 messages and a reply over 2 instances that are recycled: one timer per instance; as long as the heartbeat of a message stands, the message is alerted for |

Runs that show a disagreement between the code and what it says of itself (each
is a finding in `PROJECT.json`):

| Run | What the counterexample shows |
|---|---|
| `webhook_report` | a handler's exception is swallowed: the message is deleted and the event, already marked, is lost |
| `notify_month` | a capped workspace stays capped: the only reset is behind the cap |
| `ghosting_answered` | a reply in another instance does not stop the timer |
| `unhub` | the app is removed in HubSpot; `uninstall_hubspot` then meets a revoked grant, whose handling uninstalls the Slack app as well |

**Observations** made while modelling, which have no run of their own:

- `cache.py:63`: when a fetch is cancelled or returns None, all its waiters
  fetch at the same time, sharing one event; the docstring (lines 32-33) promises
  a single fetch.
- `notification_service.py:415`: the "hard cap" is compared with a counter read
  long before the card is counted; `OverrunBounded` says by how much it leaks.
- `notification_service.py:26`: the "global" debounce cache is per process, and
  the thread mapping is written long after it was looked up.  `OneRootCard` needs
  one instance: with `Processes = {p1, p2}` TLC finds two root cards.
- `notification_service.py:299`: the debounce entry stays when the send raises,
  and the creation that follows is dropped.  `DebouncedIsNotified` needs
  `MayFail = FALSE`.
- `notification_service.py:567`: `hs_ticket_status` is never requested from
  HubSpot (`crm/hubspot/service.py:950-970`), so the clean-up of closed tickets
  is dead code.
- `ghosting_monitor.py:182`: timer and sweep both send before they mark, so one
  message can be alerted for twice.  A message written after an alert was sent
  and before its mark gets its fresh heartbeat marked (190) and is never alerted
  for: `HeartbeatIsHonoured` excepts it (`overtaken`), and without the exception
  TLC finds it with two messages.  The done callback of a cancelled
  timer pops the entry of a newer one (66); a reply's delete in flight removes
  the heartbeat of a message that came after it (73).

Tokens, records, installs:

- `token_service.py:25, 88`: the lock is released before the rotated pair is
  persisted, and the registry is per process: two rotations of one pair.
  `ChainKept` and `RotatedOnce` except the fault "overlap" for that.
- `token_service.py:97`: the second look under the lock reads a cache that may
  be stale.  With three calls in one instance the third reads the row before the
  first has written its pair and stores it after the first has invalidated the
  cache; the second finds that record under the lock and rotates a pair that is
  not due.  With five, again without any fault, the chain breaks: after such a
  second rotation an old record is cached once more, a call that has waited for
  the lock adopts it (104-114), and the callback (69-86) writes the old pair over
  the newest.  TLC finds neither with two calls, which is what is proved.
- `slack_client_service.py`: `_team_id_cache` remembers "MISSING" for ten
  minutes, `slack_source_{id}` is never invalidated; a shell record whose parent
  is gone makes a client with the token "None"; `SlackClient`'s explicit methods
  bypass the expiry handling of `__getattr__`.
- `hubspot/service.py:192-246`: a refresh at user level is persisted into the
  row of the workspace.
- `providers/hubspot/client.py:442-445`: the ten seconds of back-off after a
  failed refresh have no effect.
- `integration_service.py`: `register_integration` invalidates before it
  writes; two shell rows for one parent are possible; a "Portal Conflict" is
  reported for a child that is already linked (577-635); a linked child shares
  the parent's team id.
- `delete_integration` for HubSpot invalidates only the shared key, and a late
  write brings the record back.

Billing:

- `upsert_workspace(workspace_id=...)` names no `id`, and `workspace_id` is no
  column of the table: checkout, subscription changes, the downgrade after a
  trial and the day-4 mark raise, the first two after the Stripe event was
  marked as processed.  A paying customer does not become Pro
  (`domains/billing/router.py:278`), and the day-4 reminder is sent for every
  event of two days (`growth_campaigns.py:98`).

Replies, notes and tickets:

- `events_router.py:51` marks an event before checking and handling it, and
  goes on when the claim fails (`idempotency_storage.py:50-55`): with a database
  in trouble every delivery of an event is handled, and its text filed again.
- `create_note` reads today's log and writes it back: two overlapping replies
  lose one, a lost answer duplicates one; SQS's redelivery of a threaded reply
  duplicates one too.
- `hubspot/service.py:293-316, 1553-1592`: the keys under which associations are
  cached and invalidated differ, so they are never invalidated.
- `event_handlers.py`: redacting an edited root message cancels the ghosting
  timer; the early return for a link that is already unfurled skips the sync of
  the reply.
- Thread mappings: the lazy upsert at the first reply moves a mapping to
  another thread; ticket creation inserts, and reports a failure when
  HubSpot's webhook mapped the ticket first.
- `ticket_handlers.py:338-344`: the fallback of `submit_ticket_reply` passes an
  argument `CRMService.create_note` does not have, and always raises.
- `ticket_handlers.py:419`: a transcript of a thread has at most 100 messages,
  in reversed order.

Interactions:

- `modal_builder.py:374`: the "Reply to Customer" button of a ticket's control
  panel has a bare value in which `get_entity_id` (`sdk/context.py:84-93`)
  finds no id: the loading modal stays.  `LoadingEnds` is about buttons that
  carry a pair.  A missing object leaves the loading modal of two handlers, too.
- `task_handlers.py:58-76`: an association that fails after the task was
  created leads to a second task; `search_and_send` may post its card twice;
  `support_handlers.py:159-195` sends an e-mail for a ticket that exists when
  only the message to the user failed.
- `reassign_owner_submission` on a free plan does nothing and says nothing; a
  stage selection marks the debounce though it only opens a form;
  `gated_feature_click` reads a value the renderer does not set.

Upkeep and analysis:

- `lambda_scheduler.py`: the sweep ignores schedules (`if True`, line 79),
  writes back whole rows and stops at the first exception; the worker posts a
  digest that was deleted meanwhile.
- `user_mapping_service.py`: without a Slack integration a sync replaces
  automatic mappings by none; a mapping made by hand while a sync runs is
  overwritten (144), though it "Preserves any manual overrides" (84).
- `user_mappings_router.py:95-121`: the limit on manual mappings is counted
  first and used later, with a plan that may be five minutes old; and an owner
  unlinked by hand keeps a manual row, so that linking it again is "updating
  existing" and passes beyond the limit.  `OneLinkIsFree` excuses these owners by
  name (`excused`).
- `uninstall_service.py:170-193` leaves the digests and heartbeats of the
  workspace in their tables.
- `ai/service.py`: the pulse is not kept in 0..100; the SLA "penalty"
  `max(20, p - 15)` (1612-1623) raises a low pulse, though its comment (1611) says
  late tickets "tank customer sentiment": a ticket of pulse 5 shows 20 after an
  hour and may show 5 again after four.  `BadNewsNeverHelps` allows exactly this
  much.  Decay raises a negative pulse; a
  neutral 0 counts as "frustrated"; engagements are grouped by type, so "the
  last ten" are not; a call's direction and several scored properties are not
  fetched; a failed inference is stored as neutral for ever; one branch
  ("Expansion Signal") cannot be reached.

**Bounds.**  One or two instances, two or three tasks, events or messages and one or
two keys or objects are the least that let a race, its victim and a bystander
meet; `MaxReceives = 2` gives one redelivery and a dead letter; `Slots = 1` or
`2` stands for the 20 of the semaphore so that it fills up; `Cap = 1` for the 20
cards of a month; `Months = 2` has one month's end.  `CHECK_DEADLOCK FALSE` is
set where everything may have been handled and the system rests.  The model
leaves no other counter unbounded: `handled`, `cards` and `sent` are
bounded by the events there are.  In `tenant` two requests meet: a third would
repeat the part of one of them, and the 18 pairs are those that write to or
invalidate what the other reads (two callers, caller and uninstall, caller and
install, two installs, two uninstalls, of which one meets the revoked grant of
another workspace), each with the troubles that matter to it; `MaxTries = 1`
stands for the four retries of the transport.  In `workday`
two replies and one more request share a desk, `NoteRoom` is small enough to
start a second note, time passes to an hour, half a day, three and ten
weeks, an interaction meets up to two troubles, and a message is
delivered at most `Receives` times; one sync meets two requests, two sweeps meet
two digests.

**Switches.**  `DbMayFail`, `HandlerMayFail`, `MayFail`, `MayCrash`, `MayDrop`,
`Slow`, `Rpc`, `MayIgnore` turn the environment's failures on and off.  `webhook`
has all of them on; `webhook_live` has them on for one event in two messages,
since with two events and a failing database the liveness check is out of TLC's
reach.  `notify_free` has calls that raise but a counting RPC that
works, since a lost update voids every bound on the overrun; `notify_pro` is the
other way round, since a send that raises voids its promises (see the
observations).  `Slow` lets a handler outlive the 60 s of its debounce entry and
is off in both.  `Rpc` says whether `increment_workspace_usage` works: no script
of the repository defines it, and the reset at month's end is taken from the
comment that calls it.

In `tenant` and `workday` each scenario names its troubles (`may`), and a
property that a trouble voids says so by naming the fault: the exceptions in its
statement are part of the result, and say what the code does not survive.

**Fairness.**  A fetch ends because every fetcher is a call with a timeout; the
event loop runs ready coroutines; SQS keeps invoking workers; the scheduler
keeps invoking the sweep; time passes.  Slack does not refuse every alert of the
sweep, nor is every sweep cut short (strong fairness of `SweepAlert`): without
it a heartbeat could be retried for ever.  Nothing forces HubSpot to post, an
instance to crash or not to crash, a call to fail or an agent to reply.
`Tenant` has weak fairness for each request (a coroutine that can go on does),
`Workday` for the progress of an interaction (a worker or a background task that
holds it goes on); users, clocks and platforms are not forced to anything.

## Proofs

`AsyncTTLProofs` proves for every set of callers, keys and values and every
`max_size`:

- `TypeCorrect`: `Spec => []TypeOK`;
- `CacheIsBounded`: `Spec => []CacheBounded`.  `TypeOK /\ CacheBounded` is
  inductive.  The work is in the lemmas about the dictionary (`EvictFacts`,
  `DropFacts`, `AssignFacts`, `StoreFacts`): eviction makes room before an
  insertion, and neither removal nor replacement lists a key twice;
- `NoWakeupIsLost`: `Spec => []NoLostWakeup`.  The invariant is inductive with
  `TypeOK`: it says of every reference to an event, a waiter's or `_inflight`'s,
  that the creator of the event is still fetching that key, which is what makes
  popping "whatever event the key has" harmless.

They rest on the named assumptions of `AsyncTTL` (`MaxSize > 0`, the switches,
`NoEvent` is no task) and nothing else.

`HubSpotWebhookProofs` proves for any events, batches and instances, with every
failure switched on or off:

- `EventHandledOnce`: `Spec => []HandledAtMostOnce`.  The invariant is not
  inductive; `ClaimInv` adds what keeps a second handling away: of the
  deliveries of an event only one can be past the claim (`Owes`), only if the
  event is in the table, and only before the first handling.  `StepEffects`
  reduces every action to one of four effects (`Quiet`, `Claims`, `Opens`,
  `Starts`), so that the invariant and the refinement are argued on four cases;
- `Refinement`: `Spec => ImplementsEventOnce`, each of the four effects being a
  step of `EventOnce` or a stutter;
- `NotTwiceAtOnce`: `Spec => []NeverTwiceAtOnce`, from "whatever is active in a
  process is in its set" (`SeenInv`), which relies on no handling lasting longer
  than the 300 s of its entry (the guard of `Forget`).

`NotificationServiceProofs` proves for any events, objects, limits and
failures, unless an assumption says otherwise:

- `TypeCorrect`: `Spec => []TypeOK`;
- `CreationNotDropped`: `Spec => []DebouncedIsNotified`, if no call raises,
  no workspace ignores its events and the plan is not free (`Undisturbed`).
  `DebounceInv` says that every debounce entry stands for an event that is being
  notified or has its card.  The run shows it with handlers faster than the
  debounce; the theorem does not need that;
- `CountsWereSent`: `Spec => []CountedWereSent` within one month for finitely
  many events (`OneMonth`), whatever raises and with or without the RPC.
  `CountInv` adds what a handler that counts by reading and writing holds:
  `row.n` plus the cards in flight is at most what was sent, so a late write may
  lose counts but never invent one;
- `OneCardPerObject`: `Spec => []OneRootCard` in one instance in which no call
  raises and no handler outlives its debounce entry (`OneInstance`; with two
  instances it is false, see the observations).  `Exclusive` says that the
  debounce entry is a lock, `Linked` that a card in Slack is mapped or its lock
  is still held by the handler that will map it;
- `OverrunIsBounded`: `Spec => []OverrunBounded` for any finite number of
  instances and events with a working RPC (`CountingFree`), over any number of
  months; the run has one instance.  `FreeInv` counts: below the cap every card
  sent is counted, in flight or lost; once the count is at the cap only handlers
  that read it before (`Eligible`) may send, and they share the slots of all
  instances with those in flight (`SlotsShared`, from `HeldTogether`: what
  finitely many instances hold together, by the smallest set of instances that
  would hold more).  Every step of a handler is reduced to whether it sends,
  counts or loses a card (`FreeStep`).

`GhostingMonitorProofs` proves `TimerIsUnique`: `Spec => []OneTimer`.  The
invariant `TimerInv` is that a timer which runs, or has ended without its done
callback, is the one registered in `_pending_alerts`: only then can the callback
of one timer not pop another.  A reply's cancellation breaks it, which is why
`OneTimer` stops there.

`DeskProofs` proves about the desk (`DeskSpec`: `DeskNext` from any of `Scenes`),
for any requests, instances, records and places, whatever fails, if the scenes
are plausible:

- `RepliesFindHome`: `RepliesGoHome`.  Three layers.  `Tidy` is control: every
  request is on the path of its kind (`OnPath`), a note that is appended to is
  linked to the record of its request, and one that waits for its link holds
  nothing but the text of one request.  `Rooms` is about threads: what a thread
  is about is settled before anyone replies in it, and a record is mapped to a
  thread with replies only if the thread is about it.  `Homely` is about texts:
  wherever a text stands, in a note, a conversation, a task or in the hands of
  a request that will write it back, it stands there for one record, its
  `Owner`.  The property speaks of what is in HubSpot, and a note is rewritten by
  requests that know nothing of the texts in it: that is why `InHand` belongs to
  the invariant;
- `NoReplyDropped`: `RepliesResolved`.  A card that does not name its record is
  the one the record is mapped to, until the mapping is moved (`Mapped`), and a
  request that asks Slack for the thread's first message has not found a mapping
  (`Resolvable`).  A card names its record only if it is legible and one of a
  ticket or a conversation (`Names`);
- `RepliesStayFiled`: `RepliesKept`.  `Kept` says it from the write on, and
  `FiledStays` that no later step takes a text away but one that writes back a
  copy that is no longer what the note or the task says (`overlap`);
- `RepliesFiledOnce`: `RepliesOnce`.  Of the messages of one event only the
  first is dealt with (`Claims`), until a claim fails open, and a text is nowhere, or in one place, which
  the request that put it there has left behind (`Once`); the copy a request
  carries to append to counts as its note's;
- `ViewsStayFresh`: `ViewsFresh`.  `Fresh` says of every text that is dealt with
  and in a note that the view of its record shows it, or is empty, and that a look
  about to store has read it (`Shown`).  `ClearedShows` is the step that makes it
  so, the invalidation after the filing.  A reply or submission that skips the
  invalidation is one to a conversation, which has no notes of them (`Spoken`).

Each of the thirty steps is first reduced to what it does to its own request
(`StepTurns`, `StepAdvances`, `StepSpeaks`), to HubSpot, Slack and the mappings
(`StepWrites`, `NotesAfter`) and to the views (`StepSees`); the invariants are
argued on those.  `Plausible` is what a scene must be: requests that have not
begun, each with a text of its own that nothing in HubSpot says yet (but Slack may
deliver one event as several messages), a thread for the card of each new ticket,
and no record mapped to a thread in which someone replies and that is about
another record.  These are facts of Slack and of how mappings come about
(`save_thread_mapping` stores where a card was posted), not of the handlers.

`WorkdayProofs` proves about a whole day of a workspace (`Spec` of `Workday`):

- `RequestsWrittenOnce`: `Spec => []WrittenOnce`.  The handlers are sequences of
  steps; `Once`, shown for every handler, says that after a write only steps
  follow that can neither write nor have the queue deliver again.  The invariant
  `WritesOnce` says it of what is left to do of the request, and of the whole
  program while nothing was written;
- `NoChangeEchoed`: `Spec => []NoEcho`, for the same reason with `MarkedFirst`: a
  mark stands before every write of the handlers that mark (`EchoesMarked`);
- `FormsSettle`: `Spec => []SubmissionsSettle`.  `Settling` says that every
  handler of a form has its write ahead and that whatever goes wrong before it is
  told, raised or sent by e-mail; the invariant keeps such a write ahead until
  the submission is settled.  Only forms that are registered arrive
  (`RegisteredForms`);
- `SilenceAlwaysShows`: `Spec => []SilenceShows` for objects with any
  conversations of any dates (`ObjectsTyped`, `WaitsTyped`).  `SilenceShows` says
  10..50, not just "no better": the decay of sixty days is at least the distance
  to neutral whatever stands in the pulse before, and its floor is kept;
- `BadNewsHelpsNever`: `Spec => BadNewsNeverHelps` for any objects, texts, moods
  and window (`TextsTyped`).  What is shown is always the analysis of the object
  with some table of that moment (`Analysed`), so it is enough to compare two
  analyses: the weighted sums of the window, as recursive
  functions that exist and are compared up to their first difference
  (`TotalExists`, `AddedLess`), the quotients rounded towards zero, the decay, the
  SLA penalty (`BreachedLess`), and the agitation that makes a ticket critical,
  all keep the order of the moods.  For a ticket at a later moment it remains
  that its idle time only grows (`IdleGrows`), and what its status says of the
  limit it has missed (`WarningWhen`): the pulse rises to the floor of the first
  limit, or by the 15 points that the second limit no longer takes (`TicketLess`);
- `DeletedDigestStaysDeleted`: `UpkeepSpec => []U!DeletedStaysDeleted`, where
  `UpkeepSpec` is the whole of `Upkeep`: digests, mappings and plan move together,
  which the run keeps apart.  The strengthening `InHandOvertaken` is that a
  deleted digest a sweep still holds is in `overtaken`, which is what makes its
  write-back excusable;
- `ManualLinksAreLimited`: `UpkeepSpec => []U!OneLinkIsFree` for any owners, people,
  syncs and requests.  `LimitInv` adds what a request that has counted relies on:
  unless it is late (`Overtaken` marks it when a row changes) its owner may still
  be linked (`CountHolds`), and whoever has a manual row without a user is
  excused (`UnlinkedExcused`);
- `DayKeepsUp`: `Spec => UpkeepSpec`: a day implements that specification, so that
  `DeletedDigestsStayDeleted` and `DayLimitsManualLinks` carry both theorems over to
  the day;
- `DayAtDesk`: `Spec => DP!ScenesPlausible /\ DP!DeskSpec`: a day implements the
  desk of `DeskProofs`, from plausible scenes; `RepliesGoToTheirThread`,
  `RepliesFindTheirRecord`, `FiledRepliesStay`, `RepliesFiledOnlyOnce` and
  `FiledRepliesAreSeen` are its five theorems for the day.

They rest on `DayAssumption` of `Workday`, which TLC evaluates on the values of
the run: objects, waits, forms and mappings have the shape of those the program
can be given, and the thirteen scenes are plausible.  It fixes no number of them, no
text and no sentiment.  Of a ticket it says that HubSpot dates its creation or
the date is missing.

`TenantProofs` proves about the composition of records, Slack tokens, HubSpot's
client and the lifecycle, for any jobs, processes, retries and scenarios of the
shape `ScenariosAssumption` names (stored rows with the first tokens, requests of
the seven kinds):

- `StaysSound`: `Spec => []Sound`, the inductive invariant.  A request is a stack
  of procedures, and where it goes next depends on a label somebody pushed long
  before.  `Sound` therefore has two layers.  Control (`Framed`): a request keeps
  to the lane of its kind (installing, installing in HubSpot, everything else),
  and the last label to return to is an outer one, so that no inner procedure
  returns into nothing.  Data (`Meets`): at each label, and at each label still
  on the stack, the request has what the code there reads without a check: the
  record to be written, a client that exists, a token, or, at the labels that
  drop the app, the reason to.  The stores come with it: versions of rows,
  caches and clients are at most those the platforms issued, a cached record
  fits its key.  Each of the forty steps keeps both layers for the request that
  moves, then the stores, then, since versions and clients only grow
  (`GoodGrows`), for all;
- `TypesKept`: `Spec => []TypeOK`, which is not inductive without `Sound`;
- `SlackLeftAlone`: `Spec => SlackIsLeftAlone`: whoever reaches `appsuninstall`
  is an uninstall or was sent by a revoked grant (`Drops` in `Meets`);
- `UninstallsCompletely`: `Spec => UninstallComplete`: an uninstall that ends its
  wipe leaves no record and no mapping of the workspace it was asked for, whatever
  other requests, instances and caches do meanwhile, up to a write that was in
  flight (`late`) and the table whose delete failed (its provider, or
  `mappings`).  Two layers strengthen `Sound`.  `AllWiped`: a request is `Calm`
  (neither wiping nor about to return to it), or it wipes and the providers it is
  done with have no record (`Wiped`); the other requests are why this needs a
  proof, each step that writes being shown to mark itself as `late` when it runs
  into a wipe (`OnlyWrites`, `StaysWiped`).  `AllHome`: a request whose refresh met
  a revoked grant uninstalls that grant's workspace and then goes on with its own
  (`Home`, by the labels on its stack), so that the workspace wiped at the end is
  the one asked for;
- `RefreshesOnce`: `Spec => []RefreshedOnce`, for any number of branches that share
  a client and whatever is revoked or killed, unless an answer with a new token is
  lost (`unheard`).  The bound on HubSpot's tokens is not inductive; `Once` adds what every branch knows (`Heeds`): whoever asks for
  a new token holds the lock and has seen the client's token spent
  (`LockEarly`'s second look, `LockLate`'s comparison with the token its call was
  sent with); a new token is in the hands of the holder, or lost with it
  (`Newer`); a refusal, during which the workspace is uninstalled by the same
  request, is one for all (`Refused`), so that no branch comes back to an older
  answer.  `Rests` covers every step that leaves the token alone.

They also rest on `FreeAssumption` of `HubSpotClient`: "" names no request, as the
lock of a client that nobody holds is "".

`TenantChainProofs` proves, on top of `Sound`, that the chain of Slack's
single-use pairs is kept: `ChainStays` (`Spec /\ OnlyCalls /\ Recorded =>
[]ChainKept`) and `PairsRotateOnce` (the same for `RotatedOnce`), with one
inductive invariant, `ChainInv`.  A pair moves through a client that calls share,
the hands of a call, a row and a cache, and each of them may hold an older copy;
the lock that is meant to serialise this is released before the pair is written.
`ChainInv` says, until one of the faults both properties name (a write failed, an
instance died, two pairs were under way):

- `Ordered`: every copy of a record, in a cache or a client or in hand, is a copy
  of a row that is there, with a pair not newer than those Slack has issued; one
  that borrows a pair is linked to a row that is not linked itself; and no two
  calls of an instance hold the lock of one identity (`Locks`);
- `Owned`: a client is used in one instance only, by whoever found it there;
- `Tracked`: the newest pair has one place.  From Slack's answer until the row has
  it, it is in the hands of a call on its way there (`Kept`), and otherwise in a
  row that is not linked (`Reached`).  Whoever is about to rotate a pair that is
  not due is `Warned`: it waits for the call of its own client that has just got
  that pair, or it will find the newest pair wherever it looks once it has the
  lock, the row, the cache and what is on its way into the cache (`Clean`);
- `Astray`: or Slack's answer was lost.  Then nobody has the newest pair, all is
  `Ordered` up to the one before, and nobody can spend that: the chain has ended.

Every step of a call is first reduced to what it does to its own request (`...Goes`),
then shown to keep `Ordered` and `Owned` (`...Ordered`), and last `Tracked`
(`...Tracked`).
The hypotheses are about the initial state alone.  `OnlyCalls`: the requests are calls
of Slack, any number of instances with at most two calls each.  `Recorded`: a
workspace has one record of a provider, ids tell records apart, and whoever borrows
a pair is linked to the record that has it; the code looks a record up before it
writes and upserts by id.  Every scenario of `MCTenant` is `Recorded`, four of them
are `OnlyCalls`.  Two is the limit, as TLC shows for larger ones (see the
observations): it is where the code itself stops keeping the chain.

Only model-checked:

- liveness (`LoadingEnds` and the others): out of the prover's reach;
- `ChainKept` and `RotatedOnce` of Tenant where calls meet installations,
  uninstallations or HubSpot's calls: the records that the proof takes to be there
  are created, merged and deleted by those.

## Not modelled

Formatting, wording, logging, HTTP details and the schema of the database.  In
the notification handler: GDPR and `app.deleted` events, the day-4 reminder,
territory routing and support channels (`CHANNEL_ROOT`), and channel resolution,
which is taken to succeed; a closed ticket is one notion, though the code reads
it from two properties.  In the ghosting monitor: the look-up of the agent,
which is taken to succeed.

In Tenant: credentials other than tokens, the metadata that settings write, the
code exchange and cookies, Slack's rate limits; the REST methods of both clients
are one call.  In Desk: App Home, reactions, the cards of an unfurled link; the
resolution of channels and users.  In Interactions: the layout of forms, search
results and lists.  In Upkeep: checkout redirects, reminders and the text of a
digest.  In Analysis: wording, recap texts and overviews.

Not modelled at all: cards, modals and renderers (layout without state); the
Slack channel adapter and channel setup (thin calls); the HubSpot routers for
settings, cards, actions and workflows (one request, one read or upsert);
start-up, middleware, logging, audit and e-mail; the connector registry, which
is filled once at import time.  They have no protocol of their own that a
property could be about.

## What is left

- Dead-lettering and redelivery are modelled for HubSpot's batches and, coarser,
  for interactions and digests; one queue module could serve all three.
- `ChainKept` and `RotatedOnce` are proved for calls of Slack alone; with
  installations and uninstallations in between they are checked by TLC on pairs of
  requests.
