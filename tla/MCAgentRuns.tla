----------------------------- MODULE MCAgentRuns -----------------------------
EXTENDS AgentRuns, TLC
Symmetric == Permutations(Run \ Stray) \cup Permutations(Proc)
=============================================================================
