------------------------------ MODULE MCHandoff ------------------------------
EXTENDS Handoff, TLC

CONSTANTS main, dev, m0, m1, m2, d0, wip, dotenv, key, go, agent

MCBefore == m0 :> {m0} @@ m1 :> {m0, m1} @@ m2 :> {m0, m1, m2} @@ d0 :> {m0, d0} @@ wip :> {wip}

File(base, envMode, keys, toolMode) ==
    [base |-> base, envMode |-> envMode, files |-> {}, keys |-> keys,
     toolMode |-> toolMode, tools |-> {go}, valid |-> TRUE]

\* main starts strict, may become lax, then broken; dev never had a policy.  wip is in
\* no branch of the remote, and asks for no tool.
MCFileIn ==
    m0 :> File(None, "block", {key}, "unset") @@
    m1 :> [File(dev, "warn", {key}, "block") EXCEPT !.files = {dotenv}] @@
    m2 :> File(None, "other", {}, "warn") @@
    d0 :> None @@
    wip :> [File(main, "warn", {key}, "unset") EXCEPT !.files = {dotenv}, !.tools = {}]

MCHosted == main :> m0 @@ dev :> d0

Heads(own) == [b \in Branch |-> IF b = main THEN own ELSE None]

SiteOf(node, worktree, origin, own, files, where, url, head, dirty) ==
    [node |-> node, worktree |-> worktree,
     git |-> IF node = "checkout" THEN "own" ELSE "none",
     dirty |-> dirty, origin |-> origin, heads |-> Heads(own), files |-> files,
     tools |-> [t \in Tool |-> where], clone |-> url, head |-> head]

\* Every kind of path, also inside the work tree of something else, checkouts in
\* several states, and no source checkout.
MCSites ==
    {[SiteOf(n, w, o, own, {}, "host", "ok", main, w = m2) EXCEPT !.git = "outer"] :
        n \in {"plain", "edited"}, w \in {m0, m2, d0},
        o \in {"other", "registered"}, own \in {None, m0}} \cup
    {SiteOf(n, m1, "registered", None, {}, "host", "ok", main, FALSE) :
        n \in NodeKind \ {"absent", "checkout"}} \cup
    {SiteOf("checkout", w, "registered", m0, f, "host", "ok", h, w = m1) :
        w \in {m0, m1, m2, d0}, f \in {{}, {dotenv}}, h \in {None, main, dev}} \cup
    {SiteOf("checkout", d0, o, None, {}, "host", "empty", main, FALSE) :
        o \in {"other", "none", "unsupported"}} \cup
    {SiteOf("checkout", m0, "registered", m0, {dotenv}, w, u, main, FALSE) :
        w \in {"absent", "inside"}, u \in {"ok", "unsafe"}} \cup
    {SiteOf("checkout", wip, "registered", own, f, "host", "ok", main, FALSE) :
        own \in {None, m0, d0}, f \in {{}, {dotenv}}} \cup
    {SiteOf("absent", m0, "registered", None, {}, "host", u, h, FALSE) :
        u \in {"ok", "empty", "unsafe"}, h \in {None, main, dev}}

\* A checkout of main, for two invocations at a time.
MCShared == {SiteOf("checkout", m0, "registered", m0, {}, "host", "ok", main, FALSE)}

\* Command lines that differ in what they fetch and in what they need.
MCTogether == {q \in CommandLine : /\ q.base \in {main, dev}
                                   /\ q.provider # "other"
                                   /\ q.provider = "fake" <=> q.scopes = {agent}}

Symmetric == Permutations(Proc)
=============================================================================
