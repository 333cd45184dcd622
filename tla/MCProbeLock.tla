---------------------------- MODULE MCProbeLock ----------------------------
EXTENDS ProbeLock, TLC

Symmetry == Permutations(Procs) \union Permutations(Inodes)
============================================================================
