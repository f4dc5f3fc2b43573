------------------------------- MODULE MCTmpfs -------------------------------
EXTENDS Tmpfs, TLC
CONSTANTS b1, b2, f1, f2
Symmetric == Permutations({b1, b2}) \cup Permutations({f1, f2})
MCArchive == <<"x">>
=============================================================================
