SPECIFICATION KernelSpec
CONSTANTS
  NFrames = 10
  StartSearch = 2
  Base16M = 5
  Base1M = 2
  TrackFrames = 1
  MaxCount = 3
  MemMaps <- MCMemMaps
  HeapSize = 328
  Hdr = 40
  Align = 16
  MinSplit = 16
  U64 = 65536
  Sizes = {1, 32, 70}
  MaxUsed = 440
  ShmPids = {1, 2, 5}
  ShmMaxProcs = 5
  IPC_MAX_SHM = 2
  IPC_MAX_SHM_PAGES = 3
  ShmFrames = 3
  ShmBase = 1
  MaxId = 3
  MaxVirt = 8
  Detaching = TRUE
  Levels = 3
  Indices = {0, 1}
  KernelTop = {3}
  UserTop = {2}
  TableFrames = {1, 2, 3, 4, 5, 6}
  DataFrames = {11}
  MaxSpaces = 1
  CodePages = 1
  HeapPages = 2
  StackPages = 1
  UserBase = 1
  KernelProcs = 4
  MemFrames = 43
  MaxProcs = 9
  MaxDepth = 2
  NPids = 3
  MaxTasks = 3
  MaxBlocked = 3
  Priority = 64
  WaitAnyPid = FALSE
  IPC_MAX_PROCS = 3
  IPC_MAX_MESSAGES = 2
  IPC_MAX_WAITERS = 1
  MaxSends = 3
INVARIANTS HeldRunsDisjoint HeapConsistent RegionsSound TablesSound LiveMappingsOwned EveryFrameAccounted InboxesKept
PROPERTY ImplementsFrameAllocator
CHECK_DEADLOCK FALSE
