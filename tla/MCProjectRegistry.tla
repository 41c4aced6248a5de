--------------------------- MODULE MCProjectRegistry ---------------------------
EXTENDS ProjectRegistry, TLC

CONSTANTS x, y, app, old

\* Two directories of the same name.
MCBaseName == [d \in Path |-> 1]

\* Both projects in one layout, in the opposite one, and one of them alone.
MCManifests ==
    {[r \in {x, y} |-> IF r = x THEN [alias |-> 1, path |-> app] ELSE [alias |-> 2, path |-> old]],
     [r \in {x, y} |-> IF r = x THEN [alias |-> 2, path |-> old] ELSE [alias |-> 1, path |-> app]],
     [r \in {x} |-> [alias |-> 2, path |-> app]]}

Symmetric == Permutations(Proc)
=============================================================================
