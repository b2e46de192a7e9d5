--------------------------- MODULE MCSharedMemory ---------------------------
\* Small instances of SharedMemoryProvider for TLC.
EXTENDS SharedMemoryProvider, TLC

CONSTANTS p1, p2, c1, c2, short

MCOneSize == short :> 1

ClientSymmetry == Permutations(Clients)
Symmetry == Permutations(Clients) \cup Permutations(Providers)
=============================================================================
