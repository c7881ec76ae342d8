----------------------------- MODULE MCBoCache -----------------------------
EXTENDS BoCacheProps, TLC

Symm == Permutations(Bos) \cup Permutations(Handles) \cup Permutations(Names)
=============================================================================
