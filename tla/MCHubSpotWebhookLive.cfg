\* An event and a retry of it: slow and dying workers, failing handlers, a claim
\* that fails open, one slot.
SPECIFICATION CalmSpec
CONSTANTS
    m1 = m1
    m2 = m2
    e1 = e1
    e2 = e2
    Events = {e1}
    Messages = {m1, m2}
    Body <- RepeatedBody
    Processes = {p1, p2}
    Slots = 1
    MaxReceives = 2
    DbMayFail = TRUE
    HandlerMayFail = TRUE
    MayCrash = TRUE
PROPERTIES MessageSettles PostedIsHandled
CHECK_DEADLOCK FALSE
