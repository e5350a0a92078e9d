\* Two instances, a batch and a retry of one of its events; crashes, visibility
\* timeouts, failing handlers and claims that fail open.
SPECIFICATION Spec
CONSTANTS
    m1 = m1
    m2 = m2
    e1 = e1
    e2 = e2
    Events = {e1, e2}
    Messages = {m1, m2}
    Body <- RetriedBody
    Processes = {p1, p2}
    Slots = 1
    MaxReceives = 2
    DbMayFail = TRUE
    HandlerMayFail = TRUE
    MayCrash = TRUE
SYMMETRY ProcessSymmetry
INVARIANTS TypeOK HandledAtMostOnce NeverTwiceAtOnce
PROPERTY ImplementsEventOnce
CHECK_DEADLOCK FALSE
