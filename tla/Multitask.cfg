CONSTANTS
  NPids = 5
  MaxTasks = 4
  MaxBlocked = 5
  Priority = 128
  WaitAnyPid = FALSE
SPECIFICATION Spec
INVARIANTS OneRunning NoLostWakeup EntriesAreBlocked HaltsOnlyWhenDone
PROPERTIES ReadyEventuallyRuns ImplementsProcessLife
CHECK_DEADLOCK FALSE
