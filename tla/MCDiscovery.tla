---------------------------- MODULE MCDiscovery ----------------------------
EXTENDS Discovery, TLC

MCTarget == 1..2
Symmetry == Permutations(Process) \cup Permutations(Batch)
=============================================================================
