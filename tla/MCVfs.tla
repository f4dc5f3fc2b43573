-------------------------------- MODULE MCVfs --------------------------------
EXTENDS Vfs, TLC
CONSTANTS f1, f2
MCSuffix == [n \in {"devx"} |-> "x"]
MCSymmetry == Permutations({f1, f2})
=============================================================================
