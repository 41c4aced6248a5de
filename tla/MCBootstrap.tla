------------------------------ MODULE MCBootstrap ------------------------------
EXTENDS Bootstrap, TLC

CONSTANTS x, y, app, lib, old, far

\* lib is in app; far is reached through a link that leads out of the workspace.
MCAbove == [d \in Path |-> IF d = lib THEN {app} ELSE {}]

Only(n, d, s) == [alias |-> n, local |-> d, canon |-> d, source |-> s]

\* Nothing; x somewhere else; y where x's parent may be; both imported; y to be moved
\* and x found outside the workspace; y imported and x found inside y's place;
\* y found where x is to be moved, and to be renamed.
MCRegistries ==
    {[r \in {} |-> r],
     [r \in {x} |-> Only(1, old, "local-only")],
     [r \in {y} |-> Only(2, app, "local-only")],
     [r \in {x, y} |-> IF r = x THEN Only(1, app, "canonical") ELSE Only(2, old, "canonical")],
     [r \in {x, y} |-> IF r = x THEN Only(1, far, "local-only")
                       ELSE [Only(2, app, "canonical") EXCEPT !.local = old]],
     [r \in {x, y} |-> IF r = x THEN Only(1, lib, "local-only") ELSE Only(2, app, "canonical")],
     [r \in {x, y} |-> IF r = x THEN [Only(2, app, "canonical") EXCEPT !.local = old]
                       ELSE Only(3, app, "local-only")]}

Disk(at) == [d \in Path |-> IF d \in DOMAIN at THEN at[d] ELSE Bare("absent")]

MCDisks ==
    {Disk([d \in {} |-> d]),
     Disk([d \in {app, old} |-> IF d = app THEN CheckoutOf(y) ELSE CheckoutOf(x)]),
     Disk([d \in {app} |-> CheckoutOf(y)]),
     Disk([d \in {app} |-> Bare("file")]),
     Disk([d \in {app} |-> PlaceholderOf(x, 1)]),
     Disk([d \in {app, lib} |-> IF d = app THEN Bare("dir") ELSE CheckoutOf(x)])}

Want(r, n, d) == [remote |-> r, alias |-> n, path |-> d]

Wanting(m, b) == [entries |-> m, aliases |-> <<>>, all |-> FALSE, placeholders |-> b]
Named(names, b) == [entries |-> <<>>, aliases |-> names, all |-> FALSE, placeholders |-> b]
All(b) == [entries |-> <<>>, aliases |-> <<>>, all |-> TRUE, placeholders |-> b]

\* x alone, or x renamed and y where x may be; a path outside; an identity twice; one
\* project in the other's way.
MCRequests ==
    {Wanting(m, b) : m \in {<<Want(x, 1, app)>>, <<Want(y, 1, old), Want(x, 2, app)>>}, b \in BOOLEAN}
    \cup {Wanting(<<Want(x, 1, lib), Want(y, 2, old)>>, FALSE), Wanting(<<Want(x, 1, far)>>, FALSE), Wanting(<<Want(y, 1, app)>>, FALSE),
          Wanting(<<Want(x, 1, app), Want(x, 2, old)>>, TRUE),
          Wanting(<<Want(x, 1, app), Want(y, 2, lib)>>, FALSE)}
    \cup {All(TRUE), Named(<<2, 1, 2>>, FALSE)}

\* The user clones x somewhere.
MCEdits == {CheckoutOf(x)}

Symmetric == Permutations(Proc)
=============================================================================
