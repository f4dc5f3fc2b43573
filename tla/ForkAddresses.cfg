CONSTANTS
  CodePages = 1
  HeapPages = 2
  StackPages = 1
  UserBase = 1
  KernelProcs = 4
  MemFrames = 45
  MaxProcs = 9
  MaxDepth = 2
SPECIFICATION PmSpec
INVARIANT ForkKeepsAddresses
CHECK_DEADLOCK FALSE
