---------------------- MODULE MCSharedMemoryRefinement ----------------------
\* Small instances of SharedMemoryRefinement for TLC.
EXTENDS SharedMemoryRefinement, TLC

CONSTANTS p1, c1, c2, x, y

\* "x" is within the provider's limit, "y" is not.
MCSizes == (x :> 1) @@ (y :> 2)

ClientSymmetry == Permutations(Clients)
=============================================================================
