CONSTANTS
  NPids = 3
  MaxTasks = 3
  MaxBlocked = 3
  Priority = 64
  WaitAnyPid = FALSE
  IPC_MAX_PROCS = 4
  IPC_MAX_MESSAGES = 2
  IPC_MAX_WAITERS = 1
  MaxSends = 3
SPECIFICATION IpcSpec
PROPERTY BlockedOnlyWokenByExit

CHECK_DEADLOCK FALSE
