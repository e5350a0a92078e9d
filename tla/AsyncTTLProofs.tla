--------------------------- MODULE AsyncTTLProofs ---------------------------
(***************************************************************************)
(* Proofs about AsyncTTL, for every set of tasks, keys and values and      *)
(* every max_size: the type invariant, the size bound of the dictionary    *)
(* and the absence of lost wakeups.                                        *)
(***************************************************************************)
EXTENDS AsyncTTL, SequenceTheorems, TLAPS

\* No key occurs twice.
Unique(c) == \A i, j \in 1..Len(c) : c[i].key = c[j].key => i = j

\* A key the dictionary holds is at the position Pos gives.
LEMMA PosIsHeld ==
    ASSUME NEW c \in Seq(Entries), NEW k, Holds(c, k)
    PROVE  Pos(c, k) \in 1..Len(c) /\ c[Pos(c, k)].key = k
  BY DEF Holds, Pos

\* Removing a position leaves the other entries, in their order.
LEMMA RemoveAtEntries ==
    ASSUME NEW c \in Seq(Entries), NEW n \in 1..Len(c)
    PROVE  /\ RemoveAt(c, n) \in Seq(Entries)
           /\ Len(RemoveAt(c, n)) = Len(c) - 1
           /\ \A i \in 1..Len(c) - 1 :
                RemoveAt(c, n)[i] = IF i < n THEN c[i] ELSE c[i + 1]
<1> DEFINE a == SubSeq(c, 1, n - 1)
           b == SubSeq(c, n + 1, Len(c))
<1>1. Len(c) \in Nat /\ n \in Nat /\ \A i \in 1..Len(c) : c[i] \in Entries
  BY LenProperties, ElementOfSeq
<1>2. /\ a \in Seq(Entries)
      /\ Len(a) = n - 1
      /\ \A i \in 1..n - 1 : a[i] = c[i]
  BY <1>1, SubSeqProperties
<1>3. /\ b \in Seq(Entries)
      /\ Len(b) = Len(c) - n
      /\ \A i \in 1..Len(c) - n : b[i] = c[n + i]
  BY <1>1, SubSeqProperties
<1> HIDE DEF a, b
<1>4. /\ a \o b \in Seq(Entries)
      /\ Len(a \o b) = Len(a) + Len(b)
      /\ \A i \in 1..Len(a) + Len(b) :
            (a \o b)[i] = IF i <= Len(a) THEN a[i] ELSE b[i - Len(a)]
  BY <1>2, <1>3, ConcatProperties
<1>5. Len(a) + Len(b) = Len(c) - 1
  BY <1>1, <1>2, <1>3
<1>6. ASSUME NEW i \in 1..Len(c) - 1
      PROVE  (a \o b)[i] = IF i < n THEN c[i] ELSE c[i + 1]
  <2>1. CASE i < n
    BY <1>1, <1>2, <1>4, <1>5, <2>1
  <2>2. CASE ~(i < n)
    <3>1. (a \o b)[i] = b[i - (n - 1)]
      BY <1>1, <1>2, <1>4, <1>5, <2>2
    <3>2. i - (n - 1) \in 1..Len(c) - n /\ n + (i - (n - 1)) = i + 1
      BY <1>1, <2>2
    <3> QED
      BY <1>1, <1>3, <2>2, <3>1, <3>2
  <2> QED
    BY <2>1, <2>2
<1>7. RemoveAt(c, n) = a \o b
  BY DEF RemoveAt, a, b
<1> QED
  BY <1>4, <1>5, <1>6, <1>7

\* Dropping a key: the dictionary stays well-formed and does not grow.
LEMMA DropFacts ==
    ASSUME NEW c \in Seq(Entries), NEW k
    PROVE  /\ Drop(c, k) \in Seq(Entries)
           /\ Len(Drop(c, k)) <= Len(c)
           /\ Unique(c) => Unique(Drop(c, k))
<1>1. CASE ~Holds(c, k)
  BY <1>1, LenProperties DEF Drop
<1>2. CASE Holds(c, k)
  <2>1. Pos(c, k) \in 1..Len(c)
    BY <1>2, PosIsHeld
  <2>2. Drop(c, k) = RemoveAt(c, Pos(c, k))
    BY <1>2 DEF Drop
  <2>3. /\ Drop(c, k) \in Seq(Entries)
        /\ Len(Drop(c, k)) = Len(c) - 1
        /\ \A i \in 1..Len(c) - 1 :
             Drop(c, k)[i] = IF i < Pos(c, k) THEN c[i] ELSE c[i + 1]
    BY <2>1, <2>2, RemoveAtEntries
  <2>4. Len(c) \in Nat
    BY LenProperties
  <2>5. ASSUME Unique(c), NEW i \in 1..Len(c) - 1, NEW j \in 1..Len(c) - 1,
               Drop(c, k)[i].key = Drop(c, k)[j].key
        PROVE  i = j
    <3> DEFINE m(l) == IF l < Pos(c, k) THEN l ELSE l + 1
    <3>1. /\ Drop(c, k)[i] = c[m(i)] /\ Drop(c, k)[j] = c[m(j)]
          /\ m(i) \in 1..Len(c) /\ m(j) \in 1..Len(c)
      BY <2>1, <2>3, <2>4
    <3>2. m(i) = m(j)
      BY <2>5, <3>1 DEF Unique
    <3> QED
      BY <2>1, <2>4, <3>2
  <2> QED
    BY <2>3, <2>4, <2>5 DEF Unique
<1> QED
  BY <1>1, <1>2

\* Eviction makes room for one entry.
LEMMA EvictFacts ==
    ASSUME NEW c \in Seq(Entries), Len(c) <= MaxSize
    PROVE  /\ Evict(c) \in Seq(Entries)
           /\ Len(Evict(c)) < MaxSize
           /\ Unique(c) => Unique(Evict(c))
<1>1. Len(c) \in Nat /\ MaxSize \in Nat \ {0}
  BY LenProperties, MaxSizeAssumption
<1>2. CASE Len(c) < MaxSize
  BY <1>1, <1>2 DEF Evict
<1>3. CASE Len(c) >= MaxSize
  <2>1. c # <<>>
    BY <1>1, <1>3, EmptySeq
  <2>2. Evict(c) = Tail(c)
    BY <1>3 DEF Evict
  <2> QED
    BY <1>1, <2>1, <2>2, HeadTailProperties DEF Unique
<1> QED
  BY <1>1, <1>2, <1>3

\* Assigning to a key keeps the keys distinct and adds at most one entry.
LEMMA AssignFacts ==
    ASSUME NEW c \in Seq(Entries), NEW e \in Entries
    PROVE  /\ Assign(c, e) \in Seq(Entries)
           /\ Len(Assign(c, e)) <= Len(c) + 1
           /\ Unique(c) => Unique(Assign(c, e))
<1>0. Len(c) \in Nat
  BY LenProperties
<1>1. CASE Holds(c, e.key)
  <2> DEFINE p == Pos(c, e.key)
  <2>1. p \in 1..Len(c) /\ c[p].key = e.key
    BY <1>1, PosIsHeld
  <2>2. Assign(c, e) = [c EXCEPT ![p] = e]
    BY <1>1 DEF Assign
  <2> HIDE DEF p
  <2>3. /\ [c EXCEPT ![p] = e] \in Seq(Entries)
        /\ Len([c EXCEPT ![p] = e]) = Len(c)
        /\ \A j \in 1..Len(c) : [c EXCEPT ![p] = e][j] = IF j = p THEN e ELSE c[j]
    BY <2>1, ExceptSeq
  <2>4. \A j \in 1..Len(c) : [c EXCEPT ![p] = e][j].key = c[j].key
    BY <2>1, <2>3
  <2> QED
    BY <1>0, <2>2, <2>3, <2>4 DEF Unique
<1>2. CASE ~Holds(c, e.key)
  <2>1. Assign(c, e) = Append(c, e)
    BY <1>2 DEF Assign
  <2>2. /\ Append(c, e) \in Seq(Entries)
        /\ Len(Append(c, e)) = Len(c) + 1
        /\ \A i \in 1..Len(c) : Append(c, e)[i] = c[i]
        /\ Append(c, e)[Len(c) + 1] = e
    BY AppendProperties
  <2> QED
    BY <1>0, <1>2, <2>1, <2>2 DEF Unique, Holds
<1> QED
  BY <1>1, <1>2

\* Storing a value: within the bound, the keys distinct.
LEMMA StoreFacts ==
    ASSUME NEW c \in Seq(Entries), NEW k \in Keys, NEW v \in Values,
           Len(c) <= MaxSize, Unique(c)
    PROVE  /\ Store(c, k, v) \in Seq(Entries)
           /\ Len(Store(c, k, v)) <= MaxSize
           /\ Unique(Store(c, k, v))
<1> DEFINE e == [key |-> k, val |-> v, fresh |-> TRUE]
<1>1. e \in Entries
  BY DEF Entries
<1>2. /\ Evict(c) \in Seq(Entries)
      /\ Len(Evict(c)) < MaxSize
      /\ Unique(Evict(c))
  BY EvictFacts
<1>3. Store(c, k, v) = Assign(Evict(c), e)
  BY DEF Store
<1> HIDE DEF e
<1>4. Len(Evict(c)) \in Nat /\ MaxSize \in Nat
  BY <1>2, LenProperties, MaxSizeAssumption
<1>5. /\ Assign(Evict(c), e) \in Seq(Entries)
      /\ Len(Assign(Evict(c), e)) <= Len(Evict(c)) + 1
      /\ Unique(Assign(Evict(c), e))
  BY <1>1, <1>2, AssignFacts
<1>6. Len(Assign(Evict(c), e)) \in Nat
  BY <1>5, LenProperties
<1> QED
  BY <1>2, <1>3, <1>4, <1>5, <1>6

-----------------------------------------------------------------------------
(* The invariant.  TypeOK and CacheBounded do not depend on the rest, and    *)
(* NoLostWakeup is inductive on top of TypeOK.                               *)

CacheInv == TypeOK /\ CacheBounded

LEMMA InitCacheInv == Init => CacheInv
  BY MaxSizeAssumption, EmptySeq DEF Init, CacheInv, TypeOK, CacheBounded

\* A change of the dictionary by Store or Drop, or of a flag, keeps CacheInv.
LEMMA StoreCache ==
    ASSUME CacheInv, NEW k \in Keys, NEW v \in Values, cache' = Store(cache, k, v)
    PROVE  cache' \in Seq(Entries) /\ CacheBounded'
<1>1. cache \in Seq(Entries) /\ Len(cache) <= MaxSize /\ Unique(cache)
  BY DEF CacheInv, TypeOK, CacheBounded, Unique
<1> QED
  BY <1>1, StoreFacts DEF CacheBounded, Unique

LEMMA DropCache ==
    ASSUME CacheInv, NEW k \in Keys, cache' = Drop(cache, k)
    PROVE  cache' \in Seq(Entries) /\ CacheBounded'
<1>1. cache \in Seq(Entries) /\ Len(cache) <= MaxSize /\ Unique(cache)
  BY DEF CacheInv, TypeOK, CacheBounded, Unique
<1>2. /\ cache' \in Seq(Entries)
      /\ Len(cache') <= Len(cache)
      /\ Unique(cache')
  BY <1>1, DropFacts
<1>3. Len(cache) \in Nat /\ Len(cache') \in Nat /\ MaxSize \in Nat
  BY <1>1, <1>2, LenProperties, MaxSizeAssumption
<1> QED
  BY <1>1, <1>2, <1>3 DEF CacheBounded, Unique

LEMMA ExpireCache ==
    ASSUME CacheInv, NEW k \in Keys, Expire(k)
    PROVE  cache' \in Seq(Entries) /\ CacheBounded'
<1> DEFINE p == Pos(cache, k)
           e == [cache[p] EXCEPT !.fresh = FALSE]
<1>1. cache \in Seq(Entries) /\ Len(cache) <= MaxSize /\ Unique(cache)
  BY DEF CacheInv, TypeOK, CacheBounded, Unique
<1>2. p \in 1..Len(cache)
  BY <1>1, PosIsHeld DEF Expire, FreshIn
<1>3. cache[p] \in Entries
  BY <1>1, <1>2, ElementOfSeq
<1>4. e \in Entries /\ e.key = cache[p].key
  BY <1>3 DEF Entries
<1>5. cache' = [cache EXCEPT ![p] = e]
  BY DEF Expire
<1> HIDE DEF p, e
<1>6. /\ cache' \in Seq(Entries)
      /\ Len(cache') = Len(cache)
      /\ \A j \in 1..Len(cache) : cache'[j] = IF j = p THEN e ELSE cache[j]
  BY <1>1, <1>2, <1>4, <1>5, ExceptSeq
<1>7. \A j \in 1..Len(cache) : cache'[j].key = cache[j].key
  BY <1>2, <1>4, <1>6
<1> QED
  BY <1>1, <1>6, <1>7 DEF CacheBounded, Unique

\* The bookkeeping of the tasks keeps its type, whatever happens to the cache.
TasksOK ==
    /\ inflight \in [Keys -> Tasks \union {NoEvent}]
    /\ fetchErrors \subseteq Keys
    /\ pc \in [Tasks -> {"idle", "waiting", "woken", "fetching"}]
    /\ key \in [Tasks -> Keys]
    /\ event \in [Tasks -> Tasks \union {NoEvent}]

LEMMA StepTasksOK == TasksOK /\ [Next]_vars => TasksOK'
<1> SUFFICES ASSUME TasksOK, [Next]_vars PROVE TasksOK'
  OBVIOUS
<1> USE DEF TasksOK
<1>1. ASSUME NEW t \in Tasks, NEW k \in Keys, Hit(t, k) PROVE TasksOK'
  BY <1>1 DEF Hit, vars
<1>2. ASSUME NEW t \in Tasks, NEW k \in Keys, Join(t, k) PROVE TasksOK'
  BY <1>2 DEF Join
<1>3. ASSUME NEW t \in Tasks, NEW k \in Keys, Lead(t, k) PROVE TasksOK'
  BY <1>3 DEF Lead, BeginFetch
<1>4. ASSUME NEW t \in Tasks, FetchEnds(t) PROVE TasksOK'
  <2>1. Release(t) /\ fetchErrors' \subseteq Keys
    BY <1>4 DEF FetchEnds, FetchValue, FetchNone, FetchError, FetchCancelled
  <2> QED
    BY <2>1 DEF Release
<1>5. ASSUME NEW t \in Tasks, Resume(t) PROVE TasksOK'
  BY <1>5 DEF Resume, Served, FallThrough, BeginFetch
<1>6. ASSUME NEW t \in Tasks, WaitCancelled(t) PROVE TasksOK'
  BY <1>6 DEF WaitCancelled
<1>7. CASE UNCHANGED <<inflight, fetchErrors, pc, key, event>>
  BY <1>7
<1> QED
  BY <1>1, <1>2, <1>3, <1>4, <1>5, <1>6, <1>7
     DEF Next, vars, Get, SetValue, Invalidate, Clear, Expire

LEMMA StepCacheInv == CacheInv /\ [Next]_vars => CacheInv'
<1> SUFFICES ASSUME CacheInv, [Next]_vars PROVE CacheInv'
  OBVIOUS
<1>0. TasksOK'
  BY StepTasksOK DEF CacheInv, TypeOK, TasksOK
<1>1. SUFFICES cache' \in Seq(Entries) /\ CacheBounded'
  BY <1>0 DEF CacheInv, TypeOK, TasksOK
<1>2. CASE UNCHANGED cache
  BY <1>2 DEF CacheInv, TypeOK, CacheBounded
<1>3. ASSUME NEW k \in Keys, NEW v \in Values, cache' = Store(cache, k, v)
      PROVE  cache' \in Seq(Entries) /\ CacheBounded'
  BY <1>3, StoreCache
<1>4. ASSUME NEW k \in Keys, cache' = Drop(cache, k)
      PROVE  cache' \in Seq(Entries) /\ CacheBounded'
  BY <1>4, DropCache
<1>5. ASSUME NEW k \in Keys, Expire(k)
      PROVE  cache' \in Seq(Entries) /\ CacheBounded'
  BY <1>5, ExpireCache
<1>6. CASE Clear
  BY <1>6, MaxSizeAssumption, EmptySeq DEF Clear, CacheBounded
<1>7. ASSUME NEW t \in Tasks, FetchEnds(t)
      PROVE  UNCHANGED cache \/ \E k \in Keys, v \in Values : cache' = Store(cache, k, v)
  BY <1>7 DEF FetchEnds, FetchValue, FetchNone, FetchError, FetchCancelled,
              CacheInv, TypeOK
<1>8. \/ UNCHANGED cache
      \/ \E k \in Keys, v \in Values : cache' = Store(cache, k, v)
      \/ \E k \in Keys : cache' = Drop(cache, k)
      \/ \E k \in Keys : Expire(k)
      \/ Clear
  BY <1>7 DEF Next, vars, Hit, Join, Lead, Resume, Served, FallThrough, WaitCancelled,
              Get, SetValue, Invalidate
<1> QED
  BY <1>2, <1>3, <1>4, <1>5, <1>6, <1>8

\* Every variable keeps its type in every reachable state.
THEOREM TypeCorrect == Spec => []TypeOK
<1>1. CacheInv => TypeOK
  BY DEF CacheInv
<1> QED
  BY <1>1, InitCacheInv, StepCacheInv, PTL DEF Spec

\* The dictionary stays within max_size and lists no key twice, whatever the
\* interleaving of fetches, manual stores, invalidations and expiry.
THEOREM CacheIsBounded == Spec => []CacheBounded
<1>1. CacheInv => CacheBounded
  BY DEF CacheInv
<1> QED
  BY <1>1, InitCacheInv, StepCacheInv, PTL DEF Spec

-----------------------------------------------------------------------------
WakeupInv == TasksOK /\ NoLostWakeup

\* The end of a fetch releases exactly the references to the event it sets.
LEMMA ReleaseKeepsWakeup ==
    ASSUME WakeupInv, NEW t \in Tasks, pc[t] = "fetching", Release(t)
    PROVE  NoLostWakeup'
<1> USE NoEventAssumption DEF WakeupInv, TasksOK
<1>1. \A u \in Tasks : event'[u] # NoEvent =>
        u # t /\ event[u] # event[t] /\ event'[u] = event[u]
  BY DEF Release
<1>2. ASSUME NEW u \in Tasks, u # t, u # event[t], pc[u] = "fetching", event[u] = u
      PROVE  pc'[u] = "fetching" /\ event'[u] = u /\ key'[u] = key[u]
  BY <1>2 DEF Release
<1>3. ASSUME NEW u \in Tasks, event'[u] # NoEvent
      PROVE  /\ pc'[event'[u]] = "fetching"
             /\ event'[event'[u]] = event'[u]
             /\ key'[event'[u]] = key'[u]
  <2>1. event[u] \in Tasks /\ event'[u] = event[u] /\ event[u] # event[t]
    BY <1>1, <1>3
  <2>2. /\ pc[event[u]] = "fetching"
        /\ event[event[u]] = event[u]
        /\ key[event[u]] = key[u]
    BY <2>1 DEF NoLostWakeup
  <2>3. event[u] # t
    BY <2>1, <2>2
  <2> QED
    BY <1>2, <2>1, <2>2, <2>3 DEF Release
<1>4. ASSUME NEW u \in Tasks, pc'[u] = "waiting" PROVE event'[u] # NoEvent
  BY <1>4 DEF Release, NoLostWakeup
<1>5. ASSUME NEW k \in Keys, inflight'[k] # NoEvent
      PROVE  /\ pc'[inflight'[k]] = "fetching"
             /\ event'[inflight'[k]] = inflight'[k]
             /\ key'[inflight'[k]] = k
  <2>1. inflight[k] \in Tasks /\ inflight'[k] = inflight[k] /\ k # key[t]
    BY <1>5 DEF Release
  <2>2. /\ pc[inflight[k]] = "fetching"
        /\ event[inflight[k]] = inflight[k]
        /\ key[inflight[k]] = k
    BY <2>1 DEF NoLostWakeup
  <2>3. inflight[k] # t /\ inflight[k] # event[t]
    BY <2>1, <2>2 DEF NoLostWakeup
  <2> QED
    BY <1>2, <2>1, <2>2, <2>3 DEF Release
<1> QED
  BY <1>3, <1>4, <1>5 DEF NoLostWakeup

\* Beginning a fetch, by a new caller or by a waiter that falls through.
LEMMA BeginKeepsWakeup ==
    ASSUME WakeupInv, NEW t \in Tasks, NEW k \in Keys,
           pc[t] \in {"idle", "woken"}, BeginFetch(t, k), key' = [key EXCEPT ![t] = k]
    PROVE  NoLostWakeup'
<1> USE NoEventAssumption DEF WakeupInv, TasksOK
<1>1. \A u \in Tasks : event[u] # t
  BY DEF NoLostWakeup
<1>2. \A j \in Keys : inflight[j] # t
  BY DEF NoLostWakeup
<1>3. event'[t] = inflight'[k] /\ inflight'[k] \in Tasks
  BY DEF BeginFetch
<1>4. \A u \in Tasks : u # t => event'[u] = event[u] /\ pc'[u] = pc[u] /\ key'[u] = key[u]
  BY DEF BeginFetch
<1>5. pc'[t] = "fetching" /\ key'[t] = k
  BY DEF BeginFetch
<1>6. /\ pc'[inflight'[k]] = "fetching"
      /\ event'[inflight'[k]] = inflight'[k]
      /\ key'[inflight'[k]] = k
  <2>1. CASE inflight[k] = NoEvent
    BY <1>3, <1>5, <2>1 DEF BeginFetch
  <2>2. CASE inflight[k] # NoEvent
    <3>1. inflight'[k] = inflight[k] /\ inflight[k] # t
      BY <1>2, <2>2 DEF BeginFetch
    <3> QED
      BY <1>3, <1>4, <2>2, <3>1 DEF NoLostWakeup
  <2> QED
    BY <2>1, <2>2
<1>7. \A j \in Keys : j # k => inflight'[j] = inflight[j]
  BY DEF BeginFetch
<1>8. ASSUME NEW u \in Tasks, event'[u] # NoEvent
      PROVE  /\ pc'[event'[u]] = "fetching"
             /\ event'[event'[u]] = event'[u]
             /\ key'[event'[u]] = key'[u]
  <2>1. CASE u = t
    BY <1>3, <1>5, <1>6, <2>1
  <2>2. CASE u # t
    BY <1>1, <1>4, <1>8, <2>2 DEF NoLostWakeup
  <2> QED
    BY <2>1, <2>2
<1>9. ASSUME NEW u \in Tasks, pc'[u] = "waiting" PROVE event'[u] # NoEvent
  BY <1>4, <1>5, <1>9 DEF NoLostWakeup
<1>10. ASSUME NEW j \in Keys, inflight'[j] # NoEvent
       PROVE  /\ pc'[inflight'[j]] = "fetching"
              /\ event'[inflight'[j]] = inflight'[j]
              /\ key'[inflight'[j]] = j
  BY <1>2, <1>4, <1>6, <1>7, <1>10 DEF NoLostWakeup
<1> QED
  BY <1>8, <1>9, <1>10 DEF NoLostWakeup

LEMMA StepNoLostWakeup == WakeupInv /\ [Next]_vars => NoLostWakeup'
<1> SUFFICES ASSUME WakeupInv, [Next]_vars PROVE NoLostWakeup'
  OBVIOUS
<1> USE NoEventAssumption DEF WakeupInv, TasksOK
<1>1. CASE UNCHANGED <<inflight, pc, key, event>>
  BY <1>1 DEF NoLostWakeup
<1>2. ASSUME NEW t \in Tasks, NEW k \in Keys, Join(t, k) PROVE NoLostWakeup'
  BY <1>2 DEF Join, NoLostWakeup
<1>3. ASSUME NEW t \in Tasks, NEW k \in Keys, Lead(t, k) PROVE NoLostWakeup'
  BY <1>3, BeginKeepsWakeup DEF Lead
<1>4. ASSUME NEW t \in Tasks, FetchEnds(t) PROVE NoLostWakeup'
  BY <1>4, ReleaseKeepsWakeup
     DEF FetchEnds, FetchValue, FetchNone, FetchError, FetchCancelled
<1>5. ASSUME NEW t \in Tasks, Served(t) PROVE NoLostWakeup'
  BY <1>5 DEF Served, NoLostWakeup
<1>6. ASSUME NEW t \in Tasks, FallThrough(t) PROVE NoLostWakeup'
  <2>1. key' = [key EXCEPT ![t] = key[t]] /\ key[t] \in Keys
    BY <1>6 DEF FallThrough
  <2> QED
    BY <1>6, <2>1, BeginKeepsWakeup DEF FallThrough
<1>7. ASSUME NEW t \in Tasks, WaitCancelled(t) PROVE NoLostWakeup'
  BY <1>7 DEF WaitCancelled, NoLostWakeup
<1> QED
  BY <1>1, <1>2, <1>3, <1>4, <1>5, <1>6, <1>7
     DEF Next, vars, Hit, Resume, Get, SetValue, Invalidate, Clear, Expire

\* No caller waits for an event that nobody is left to set.
THEOREM NoWakeupIsLost == Spec => []NoLostWakeup
<1>1. Init => WakeupInv
  BY NoEventAssumption DEF Init, WakeupInv, TasksOK, NoLostWakeup
<1>2. WakeupInv /\ [Next]_vars => WakeupInv'
  BY StepTasksOK, StepNoLostWakeup DEF WakeupInv
<1>3. WakeupInv => NoLostWakeup
  BY DEF WakeupInv
<1> QED
  BY <1>1, <1>2, <1>3, PTL DEF Spec

=============================================================================
