----------------------------- MODULE MCMemPool -----------------------------
EXTENDS MemPoolInv, TLC

CONSTANTS p1, p2

MCPools == {p1, p2}
MCPoolSize == (p1 :> 6) @@ (p2 :> 4)
Symm == Permutations(Owners)
=============================================================================
