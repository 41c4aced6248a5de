----------------------------- MODULE MCHydration -----------------------------
EXTENDS Hydration, TLC
Symmetric == Permutations(Proc)
=============================================================================
