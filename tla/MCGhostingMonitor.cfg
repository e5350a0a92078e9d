\* Two messages and a reply over two instances that are recycled; alerts that fail.
SPECIFICATION FairSpec
CONSTANTS
    Messages = {m1, m2}
    Replies = {r1}
    Instances = {i1, i2}
    NoTimer = NoTimer
    AlertMayFail = TRUE
    MayCrash = TRUE
INVARIANTS TypeOK OneTimer
PROPERTY HeartbeatIsHonoured
CHECK_DEADLOCK FALSE
