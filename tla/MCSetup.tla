------------------------------ MODULE MCSetup ------------------------------
EXTENDS Setup, TLC

Symmetry == Permutations(Proc) \cup Permutations(Text \ NoRow)
=============================================================================
