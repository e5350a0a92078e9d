SPECIFICATION Spec
CONSTANTS
  Jobs = {"a", "b"}
  Processes = {"p1", "p2"}
  Scenarios <- Removed
  MaxTries = 1
PROPERTIES UnhubSparesSlack
CHECK_DEADLOCK FALSE
