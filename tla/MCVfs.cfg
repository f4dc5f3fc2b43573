SPECIFICATION Spec
CONSTANTS
  Names = {"dev", "devx", "x"}
  Suffix <- MCSuffix
  Device = "x"
  Depth = 2
  MaxNodes = 6
  FileIds = {f1, f2}
  f1 = f1
  f2 = f2
  FS_MAX_FDS = 5
  Uids = {0, 1}
SYMMETRY MCSymmetry
INVARIANT RecordsSound
PROPERTY ImplementsNames
