------------------------------- MODULE MCAccess -------------------------------
EXTENDS Access, TLC

Symmetry == Permutations(Handlers)
=============================================================================
