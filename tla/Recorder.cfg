CONSTANTS
  MaxOutputs = 2
  MaxFailures = 1
  Failures = {"start", "write", "encoder"}
  Hotkeys = TRUE
CHECK_DEADLOCK FALSE
SPECIFICATION FairSpec
INVARIANTS TypeOK OutputsApart StopsTold StatusRight
PROPERTIES StopEnds
