--------------------------- MODULE MCMemoryArchive ---------------------------
EXTENDS MemoryArchive, TLC

CONSTANTS n1, n2, x1, x2

Symmetry == Permutations(Notes) \cup Permutations(Archives)
=============================================================================
