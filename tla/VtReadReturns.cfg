SPECIFICATION FairSpec
CONSTANTS
  Procs = {reader, terminal}
  VT_MAX = 1
  EvSize = 2
  InSize = 4
  MaxIds = 1
  MaxCount = 1
PROPERTY ReadReturns
CHECK_DEADLOCK FALSE
