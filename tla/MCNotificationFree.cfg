\* A free workspace, one instance, a month end, handlers that raise.
SPECIFICATION FairSpec
CONSTANTS
    e1 = e1
    e2 = e2
    e3 = e3
    e4 = e4
    o1 = o1
    o2 = o2
    o3 = o3
    Events = {e1, e2, e3}
    Objects = {o1, o2, o3}
    Processes = {p1}
    Of <- ApartOf
    Kind <- ApartKind
    TypeOf <- ApartType
    Plan = "free"
    Cap = 1
    Slots = 2
    Months = 2
    Rpc = TRUE
    MayIgnore = TRUE
    MayFail = TRUE
    Slow = FALSE
    LoggedTasks = {}
    UrgentTasks = {}
INVARIANTS TypeOK OverrunBounded
PROPERTY EventSettles
CHECK_DEADLOCK FALSE
