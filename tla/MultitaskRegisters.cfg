CONSTANTS
  NPids = 3
  MaxTasks = 3
  MaxBlocked = 3
  Priority = 128
  WaitAnyPid = FALSE
SPECIFICATION Spec
PROPERTY SavedStateFullyRestored
CHECK_DEADLOCK FALSE
