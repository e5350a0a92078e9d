SPECIFICATION Spec
CONSTANTS
  Jobs = {"a", "b"}
  Processes = {"p1", "p2"}
  Scenarios <- All
  MaxTries = 1
INVARIANTS TypeOK ChainKept RotatedOnce RefreshedOnce
PROPERTIES UninstallComplete SlackIsLeftAlone RequestsEnd
CHECK_DEADLOCK FALSE
