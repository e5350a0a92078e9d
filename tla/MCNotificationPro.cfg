\* A ticket and an urgent task of a pro workspace, each created and changed, one instance;
\* the counting RPC does not work.
SPECIFICATION FairSpec
CONSTANTS
    e1 = e1
    e2 = e2
    e3 = e3
    e4 = e4
    o1 = o1
    o2 = o2
    o3 = o3
    Events = {e1, e2, e3, e4}
    Objects = {o1, o2}
    Processes = {p1}
    Of <- PairsOf
    Kind <- PairsKind
    TypeOf <- PairsType
    Plan = "pro"
    Cap = 1
    Slots = 2
    Months = 1
    Rpc = FALSE
    MayIgnore = FALSE
    MayFail = FALSE
    Slow = FALSE
    LoggedTasks = {}
    UrgentTasks = {o2}
INVARIANTS OneRootCard CountedWereSent DebouncedIsNotified
PROPERTY CreationReachesSlack
CHECK_DEADLOCK FALSE
