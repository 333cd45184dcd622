----------------------------- MODULE MCExhaust -----------------------------
EXTENDS ExhaustNotify, TLC

Symmetry == Permutations(Procs) \union Permutations(Ids)
============================================================================
