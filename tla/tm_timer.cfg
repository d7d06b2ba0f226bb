SPECIFICATION Spec
CONSTANTS
  Interval = {2, 3}
  Base <- Bases
  MaxId = 2
  MaxTime = 5
  MaxWait = 1
INVARIANTS
  TreesAgree
  OnSchedule
  CleanupNotLost
PROPERTIES
  DueRuns
CHECK_DEADLOCK FALSE
