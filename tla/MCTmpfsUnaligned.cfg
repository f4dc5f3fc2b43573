SPECIFICATION Spec
CONSTANTS
  Nodes = {1, 2}
  Files = {f1, f2}
  Bufs = {b1, b2}
  b1 = b1
  b2 = b2
  f1 = f1
  f2 = f2
  Byte = {"x", "y"}
  Page = 2
  Archive <- MCArchive
  MaxSize = 3
  W = 8
  MaxWrite = 2
  Word = 2
  Aligned = FALSE
  NULL = NULL
  IMAGE = IMAGE
  Junk = Junk
PROPERTY ImplementsContents
CHECK_DEADLOCK FALSE
