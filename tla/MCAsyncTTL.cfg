\* Three callers and two keys in a cache of one entry: eviction, expiry,
\* invalidation and every way a fetch ends.
SPECIFICATION FairSpec
CONSTANTS
    Tasks = {t1, t2, t3}
    Keys = {k1, k2}
    Values = {v1}
    MaxSize = 1
    Outcomes = {"value", "none", "error", "cancelled"}
    MayDrop = TRUE
    NoEvent = NoEvent
INVARIANTS TypeOK CacheBounded NoLostWakeup
PROPERTY CallReturns
