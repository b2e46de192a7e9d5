------------------------------ MODULE MCMemory ------------------------------
\* Small instances of MemoryProvider and MemoryRefinement for TLC.
EXTENDS MemoryRefinement, TLC

CONSTANTS c1, c2, text

MCEmptySize == (Empty :> 0)
MCSmallSize == (Empty :> 0) @@ (text :> 1)

\* One thread runs commands while the other changes what they are about.
MCCommandUses == (c1 :> {"command", "batch", "saga", "other"}) @@ (c2 :> {"create", "commit"})
\* Everything but commands.
MCDataUses == [c \in Clients |-> {"create", "collect", "snapshot", "commit"}]

ClientSymmetry == Permutations(Clients)
=============================================================================
