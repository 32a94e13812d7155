----------------------------- MODULE MCStateRoot -----------------------------
EXTENDS StateRoot, TLC

Symmetry == Permutations(Proc) \cup Permutations(Socket)
=============================================================================
