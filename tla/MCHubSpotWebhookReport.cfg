\* One event whose handler raises: is its message kept for a retry?
SPECIFICATION Spec
CONSTANTS
    m1 = m1
    m2 = m2
    e1 = e1
    e2 = e2
    Events = {e1}
    Messages = {m1}
    Body <- SingleBody
    Processes = {p1}
    Slots = 1
    MaxReceives = 2
    DbMayFail = FALSE
    HandlerMayFail = TRUE
    MayCrash = FALSE
PROPERTY FailureIsReported
CHECK_DEADLOCK FALSE
