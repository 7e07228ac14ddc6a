--------------------------- MODULE MCAutoRunGuards ---------------------------
EXTENDS AutoRunGuards, TLC

Symmetry == Permutations(Procs) \cup Permutations(Envs)
=============================================================================
