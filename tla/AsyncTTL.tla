------------------------------ MODULE AsyncTTL ------------------------------
(***************************************************************************)
(* The in-memory cache of app/utils/cache.py: a FIFO map with time-to-live *)
(* and per-key coalescing of concurrent fetches.                           *)
(*                                                                         *)
(* The lock of the class is held only over code that never suspends, so on *)
(* the one event loop of a process it is always free: a call is suspended  *)
(* only while it waits for an event or for its fetcher.  Every action is   *)
(* the code a task runs from one suspension point to the next.             *)
(*                                                                         *)
(* An asyncio.Event is named by the task that created it.  The name is     *)
(* unambiguous because setting an event releases every reference to it     *)
(* (NoLostWakeup shows that whoever still refers to t's event does so      *)
(* during the fetch t created it for).                                     *)
(***************************************************************************)
EXTENDS Naturals, Sequences, SequencesExt

CONSTANTS Tasks,      \* coroutines of one process that call the cache
          Keys,
          Values,     \* what a fetcher returns when it does not return None
          MaxSize,    \* max_size
          Outcomes,   \* how a fetch may end
          MayDrop,    \* may entries expire or be invalidated?
          NoEvent     \* no asyncio.Event

AllOutcomes == {"value", "none", "error", "cancelled"}

ASSUME MaxSizeAssumption == MaxSize \in Nat \ {0}
ASSUME OutcomesAssumption == Outcomes \subseteq AllOutcomes /\ MayDrop \in BOOLEAN
ASSUME NoEventAssumption == NoEvent \notin Tasks

VARIABLES cache,       \* _cache, in insertion order: entries [key, val, fresh]
          inflight,    \* _inflight: key -> event, or NoEvent
          fetchErrors, \* _fetch_errors: keys whose last failure is remembered
          pc,          \* where each task is suspended
          key,         \* the key argument of its running get_or_fetch
          event        \* its local variable event, or NoEvent once that is set

vars == <<cache, inflight, fetchErrors, pc, key, event>>

Entries == [key : Keys, val : Values, fresh : BOOLEAN]

-----------------------------------------------------------------------------
(* The dictionary. *)

Holds(c, k) == \E i \in 1..Len(c) : c[i].key = k
Pos(c, k) == CHOOSE i \in 1..Len(c) : c[i].key = k
Entry(c, k) == c[Pos(c, k)]
Drop(c, k) == IF Holds(c, k) THEN RemoveAt(c, Pos(c, k)) ELSE c

\* Mutant: makes room one entry too late.
EvictLate(c) == IF Len(c) > MaxSize THEN Tail(c) ELSE c

Evict(c) == IF Len(c) >= MaxSize THEN Tail(c) ELSE c

\* Assigning to a key the dictionary already has keeps its place in the order.
Assign(c, e) == IF Holds(c, e.key) THEN [c EXCEPT ![Pos(c, e.key)] = e]
                                   ELSE Append(c, e)

\* Eviction looks at the size only, not at whether the key is already there.
Store(c, k, v) == Assign(Evict(c), [key |-> k, val |-> v, fresh |-> TRUE])

FreshIn(c, k) == Holds(c, k) /\ Entry(c, k).fresh

-----------------------------------------------------------------------------
Init ==
    /\ cache = <<>>
    /\ inflight = [k \in Keys |-> NoEvent]
    /\ fetchErrors = {}
    /\ pc = [t \in Tasks |-> "idle"]
    /\ key \in [Tasks -> Keys]
    /\ event = [t \in Tasks |-> NoEvent]

\* The beginning of _do_fetch, up to the call of the fetcher: join the event
\* of the key or create one, and forget the key's last failure.
BeginFetch(t, k) ==
    /\ event' = [event EXCEPT ![t] = IF inflight[k] = NoEvent THEN t ELSE inflight[k]]
    /\ inflight' = [inflight EXCEPT ![k] = IF @ = NoEvent THEN t ELSE @]
    /\ fetchErrors' = fetchErrors \ {k}
    /\ pc' = [pc EXCEPT ![t] = "fetching"]

\* get_or_fetch finds a valid entry.
Hit(t, k) ==
    /\ pc[t] = "idle"
    /\ FreshIn(cache, k)
    /\ UNCHANGED vars

\* get_or_fetch finds the key in flight and waits for its event.
Join(t, k) ==
    /\ pc[t] = "idle"
    /\ ~FreshIn(cache, k)
    /\ inflight[k] # NoEvent
    /\ cache' = Drop(cache, k)
    /\ key' = [key EXCEPT ![t] = k]
    /\ event' = [event EXCEPT ![t] = inflight[k]]
    /\ pc' = [pc EXCEPT ![t] = "waiting"]
    /\ UNCHANGED <<inflight, fetchErrors>>

\* get_or_fetch is the first to ask for the key and runs the fetcher.
Lead(t, k) ==
    /\ pc[t] = "idle"
    /\ ~FreshIn(cache, k)
    /\ inflight[k] = NoEvent
    /\ cache' = Drop(cache, k)
    /\ key' = [key EXCEPT ![t] = k]
    /\ BeginFetch(t, k)

\* Mutant: pops the event without setting it.
ReleaseSilently(t) ==
    /\ pc' = [pc EXCEPT ![t] = "idle"]
    /\ event' = [event EXCEPT ![t] = NoEvent]
    /\ inflight' = [inflight EXCEPT ![key[t]] = NoEvent]
    /\ UNCHANGED key

\* The finally block of _do_fetch: set the event, which readies its waiters,
\* and pop whatever event the key has by now.
Release(t) ==
    /\ pc' = [u \in Tasks |->
                IF u = t THEN "idle"
                ELSE IF event[t] # NoEvent /\ event[u] = event[t] /\ pc[u] = "waiting"
                     THEN "woken" ELSE pc[u]]
    /\ event' = [u \in Tasks |-> IF u = t \/ event[u] = event[t] THEN NoEvent ELSE event[u]]
    /\ inflight' = [inflight EXCEPT ![key[t]] = NoEvent]
    /\ UNCHANGED key

FetchValue(t, v) ==
    /\ pc[t] = "fetching" /\ "value" \in Outcomes
    /\ cache' = Store(cache, key[t], v)
    /\ Release(t)
    /\ UNCHANGED fetchErrors

\* Mutant: caches None.
FetchNoneCached(t) ==
    /\ pc[t] = "fetching" /\ "none" \in Outcomes
    /\ cache' = Store(cache, key[t], NoEvent)
    /\ Release(t)
    /\ UNCHANGED fetchErrors

FetchNone(t) ==
    /\ pc[t] = "fetching" /\ "none" \in Outcomes
    /\ Release(t)
    /\ UNCHANGED <<cache, fetchErrors>>

FetchError(t) ==
    /\ pc[t] = "fetching" /\ "error" \in Outcomes
    /\ fetchErrors' = fetchErrors \union {key[t]}
    /\ Release(t)
    /\ UNCHANGED cache

\* CancelledError is no Exception: the finally block runs, nothing is recorded.
FetchCancelled(t) ==
    /\ pc[t] = "fetching" /\ "cancelled" \in Outcomes
    /\ Release(t)
    /\ UNCHANGED <<cache, fetchErrors>>

\* A waiter resumes: it returns the cached value, even an expired one, or
\* raises the remembered failure ...
Served(t) ==
    /\ pc[t] = "woken"
    /\ Holds(cache, key[t]) \/ key[t] \in fetchErrors
    /\ pc' = [pc EXCEPT ![t] = "idle"]
    /\ UNCHANGED <<cache, inflight, fetchErrors, key, event>>

\* ... or falls through and fetches itself.
FallThrough(t) ==
    /\ pc[t] = "woken"
    /\ ~Holds(cache, key[t])
    /\ key[t] \notin fetchErrors
    /\ BeginFetch(t, key[t])
    /\ UNCHANGED <<cache, key>>

\* A waiter is cancelled at event.wait().
WaitCancelled(t) ==
    /\ pc[t] \in {"waiting", "woken"} /\ "cancelled" \in Outcomes
    /\ pc' = [pc EXCEPT ![t] = "idle"]
    /\ event' = [event EXCEPT ![t] = NoEvent]
    /\ UNCHANGED <<cache, inflight, fetchErrors, key>>

\* get: only dropping an expired entry changes anything.
Get(k) ==
    /\ Holds(cache, k) /\ ~Entry(cache, k).fresh
    /\ cache' = Drop(cache, k)
    /\ UNCHANGED <<inflight, fetchErrors, pc, key, event>>

SetValue(k, v) ==
    /\ cache' = Store(cache, k, v)
    /\ UNCHANGED <<inflight, fetchErrors, pc, key, event>>

Invalidate(k) ==
    /\ MayDrop
    /\ cache' = Drop(cache, k)
    /\ UNCHANGED <<inflight, fetchErrors, pc, key, event>>

Clear ==
    /\ MayDrop
    /\ cache' = <<>>
    /\ UNCHANGED <<inflight, fetchErrors, pc, key, event>>

\* The entry's age reaches the ttl.
Expire(k) ==
    /\ MayDrop
    /\ FreshIn(cache, k)
    /\ cache' = [cache EXCEPT ![Pos(cache, k)].fresh = FALSE]
    /\ UNCHANGED <<inflight, fetchErrors, pc, key, event>>

FetchEnds(t) == \/ \E v \in Values : FetchValue(t, v)
                \/ FetchNone(t)
                \/ FetchError(t)
                \/ FetchCancelled(t)

Resume(t) == Served(t) \/ FallThrough(t)

Next ==
    \/ \E t \in Tasks :
        \/ \E k \in Keys : Hit(t, k) \/ Join(t, k) \/ Lead(t, k)
        \/ FetchEnds(t)
        \/ Resume(t)
        \/ WaitCancelled(t)
    \/ \E k \in Keys :
        \/ Get(k)
        \/ \E v \in Values : SetValue(k, v)
        \/ Invalidate(k)
        \/ Expire(k)
    \/ Clear

Spec == Init /\ [][Next]_vars

\* Every fetcher ends (each is a database or HTTP call with a timeout) and
\* the event loop runs the callbacks that are ready.
Fairness == \A t \in Tasks : WF_vars(FetchEnds(t)) /\ WF_vars(Resume(t))

FairSpec == Spec /\ Fairness

-----------------------------------------------------------------------------
(* Properties. *)

TypeOK ==
    /\ cache \in Seq(Entries)
    /\ inflight \in [Keys -> Tasks \union {NoEvent}]
    /\ fetchErrors \subseteq Keys
    /\ pc \in [Tasks -> {"idle", "waiting", "woken", "fetching"}]
    /\ key \in [Tasks -> Keys]
    /\ event \in [Tasks -> Tasks \union {NoEvent}]

\* The dictionary never outgrows max_size and never lists a key twice
\* (cache.py:88-91, 110-114; tests/test_async_ttl.py, test_max_size_eviction).
CacheBounded ==
    /\ Len(cache) <= MaxSize
    /\ \A i, j \in 1..Len(cache) : cache[i].key = cache[j].key => i = j

\* No wakeup is lost: an event a task waits for, or that _inflight hands to the
\* next caller, belongs to a fetch of that very key which is still running and
\* will set it.  Sharing and popping of events (cache.py:77-79, 98-102) put
\* this at risk.
NoLostWakeup ==
    /\ \A t \in Tasks : event[t] # NoEvent =>
        /\ pc[event[t]] = "fetching"
        /\ event[event[t]] = event[t]
        /\ key[event[t]] = key[t]
    /\ \A t \in Tasks : pc[t] = "waiting" => event[t] # NoEvent
    /\ \A k \in Keys : inflight[k] # NoEvent =>
        /\ pc[inflight[k]] = "fetching"
        /\ event[inflight[k]] = inflight[k]
        /\ key[inflight[k]] = k

\* Every call of get_or_fetch returns or raises: no caller sleeps on an event
\* forever, and no chain of fall-throughs starves one.
CallReturns == \A t \in Tasks : pc[t] # "idle" ~> pc[t] = "idle"

=============================================================================
