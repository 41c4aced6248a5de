---------------------------- MODULE Reconciliation ----------------------------
(***************************************************************************)
(* The three planners that read the Project Registry, a workspace manifest *)
(* and the working tree: the drift plan (internal/reconciliation), the     *)
(* import plan (workspacemanifest.PlanImport) and the hydration plan       *)
(* (internal/hydrationplanner).  They decide and change nothing, so they   *)
(* are operators, of the table t, the entries m and the tree disk they     *)
(* find.                                                                   *)
(*                                                                         *)
(* The workspace root is above all paths and no project's own path.        *)
(* Invalid policies and clone URLs are left out.                           *)
(***************************************************************************)
EXTENDS Naturals, Sequences

CONSTANTS
    Remote,    \* identities of projects: normalized remotes
    NoRemote,  \* no project
    Name,      \* aliases, numbers in listing order
    Path,      \* paths of projects
    Above,     \* [Path -> SUBSET Path], the paths that contain a path
    Outside    \* paths that resolve outside the workspace root

ASSUME RemoteAssumption == NoRemote \notin Remote
ASSUME NameAssumption == Name \subseteq Nat \ {0}
ASSUME AboveAssumption ==
    /\ Above \in [Path -> SUBSET Path]
    /\ \A d \in Path : d \notin Above[d] /\ \A q \in Above[d] : Above[q] \subseteq Above[d]
ASSUME OutsideAssumption == Outside \subseteq Path

Row == [alias : Name, local : Path, canon : Path, source : {"canonical", "local-only"}]
Table == UNION {[S -> Row] : S \in SUBSET Remote}
Entry == [remote : Remote, alias : Name, path : Path]

\* What is at a path.  A placeholder is as Write left it, or edited; dir is any other
\* directory with something in it.
Kind == {"absent", "file", "empty", "dir", "checkout", "placeholder", "edited"}
Node == [kind : Kind, of : Remote \cup {NoRemote}, alias : Name \cup {0}]

Bare(kind) == [kind |-> kind, of |-> NoRemote, alias |-> 0]
CheckoutOf(x) == [kind |-> "checkout", of |-> x, alias |-> 0]
PlaceholderOf(x, n) == [kind |-> "placeholder", of |-> x, alias |-> n]

\* Only directories with something in them contain anything.
Tree == {disk \in [Path -> Node] :
            \A d \in Path : disk[d].kind # "absent" =>
                \A q \in Above[d] : disk[q].kind \in {"dir", "checkout", "edited"}}

Overlap(d, q) == d = q \/ d \in Above[q] \/ q \in Above[d]

Identities(m) == {m[i].remote : i \in DOMAIN m}

-----------------------------------------------------------------------------
(***************************************************************************)
(* The drift plan and the import plan.                                     *)
(***************************************************************************)

\* PathConflictReason and pathExistsOrUnknown: something is there, or a parent is no
\* directory.
Occupied(disk, d) == disk[d].kind # "absent" \/ \E q \in Above[d] : disk[q].kind = "file"

\* Mutant: only the places projects have been found at are theirs.
ClaimsFound(t, m, disk, x) ==
    {d \in {t[x].local} : x \notin Identities(m) \/ Occupied(disk, d)}

\* The paths a listed project claims: where it is, unless the manifest has it and it
\* is not there; where it should be, unless the manifest has it.
Claims(t, m, disk, x) ==
    {d \in {t[x].local} : x \notin Identities(m) \/ Occupied(disk, d)}
    \cup {d \in {t[x].canon} : x \notin Identities(m)}

\* seenDesiredPaths and byPath: of several claims the last one listed counts.
Claimed(t, m, disk) ==
    [d \in Path |->
        LET claimants == {x \in DOMAIN t : d \in Claims(t, m, disk, x)}
        IN  IF claimants = {} THEN NoRemote
            ELSE CHOOSE x \in claimants : \A y \in claimants : t[y].alias <= t[x].alias]

\* The alias the first entry of x asks for.
DesiredAlias(m, x) == m[CHOOSE i \in DOMAIN m : m[i].remote = x
                                                /\ \A j \in 1..(i - 1) : m[j].remote # x].alias

\* aliasOwner: a project that is to be renamed gives its alias up.
AliasOwner(t, m) ==
    [n \in Name |->
        LET owners == {x \in DOMAIN t : /\ t[x].alias = n
                                        /\ x \in Identities(m) => DesiredAlias(m, x) = n}
        IN  IF owners = {} THEN NoRemote ELSE CHOOSE x \in owners : TRUE]

Taken(owner, x) == owner \notin {NoRemote, x}

\* NestedDesiredPathConflict, and the same path.
PathTaken(seen, d, x) == \E q \in Path : Overlap(q, d) /\ Taken(seen[q], x)

\* Mutant: a project that is not where the manifest wants it has still to move there.
DriftFromObserved(t, disk, e) ==
    IF e.remote \notin DOMAIN t
    THEN IF Occupied(disk, e.path) THEN "conflicting" ELSE "missing"
    ELSE CASE t[e.remote].local = e.path -> "unchanged"
           [] t[e.remote].local # e.path /\ Occupied(disk, e.path) -> "conflicting"
           [] OTHER -> "moved"

\* What is left to say of an entry that has its alias and its path to itself.
Drift(t, disk, e) ==
    IF e.remote \notin DOMAIN t
    THEN IF Occupied(disk, e.path) THEN "conflicting" ELSE "missing"
    ELSE CASE t[e.remote].canon = e.path -> "unchanged"
           [] t[e.remote].canon # e.path /\ t[e.remote].local # e.path
              /\ Occupied(disk, e.path) -> "conflicting"
           [] OTHER -> "moved"

\* Both plans go through the entries in order and remember what these have taken.
Start(t, m, disk) == [ids |-> {}, owner |-> AliasOwner(t, m), seen |-> Claimed(t, m, disk),
                      drifts |-> <<>>]

Repeated(acc, e) == e.remote \in acc.ids
Lost(acc, e) == Repeated(acc, e) \/ e.path \in Outside
AliasConflict(acc, e) == Taken(acc.owner[e.alias], e.remote)
PathConflict(acc, e) == PathTaken(acc.seen, e.path, e.remote)

Noted(acc, e, drift, alias, path) ==
    [ids |-> acc.ids \cup {e.remote},
     owner |-> IF alias THEN [acc.owner EXCEPT ![e.alias] = e.remote] ELSE acc.owner,
     seen |-> IF path THEN [acc.seen EXCEPT ![e.path] = e.remote] ELSE acc.seen,
     drifts |-> Append(acc.drifts, [drift |-> drift, remote |-> e.remote,
                                    alias |-> e.alias, path |-> e.path])]

DriftStep(t, disk, acc, e) ==
    Noted(acc, e,
          IF Lost(acc, e) \/ AliasConflict(acc, e) \/ PathConflict(acc, e) THEN "conflicting"
          ELSE Drift(t, disk, e),
          ~Lost(acc, e) /\ ~AliasConflict(acc, e),
          ~Lost(acc, e) /\ ~PathConflict(acc, e))

\* reconciliation.BuildDryRunPlan, without the projects the manifest does not have.
BuildDryRunPlan(t, m, disk) ==
    LET acc[n \in 0..Len(m)] == IF n = 0 THEN Start(t, m, disk)
                                ELSE DriftStep(t, disk, acc[n - 1], m[n])
    IN  acc[Len(m)].drifts

Conflicting(plan) == \E i \in DOMAIN plan : plan[i].drift = "conflicting"

\* Mutant: the import checks aliases before it gives up those of renamed projects.
StartKeepingAliases(t, m, disk) ==
    [Start(t, m, disk) EXCEPT !.owner =
        [n \in Name |-> IF \E x \in DOMAIN t : t[x].alias = n
                        THEN CHOOSE x \in DOMAIN t : t[x].alias = n ELSE NoRemote]]

ImportStart(t, m, disk) == Start(t, m, disk)

\* PlanImport skips an entry with the first conflict it meets, before it notes more.
ImportStep(t, disk, acc, e) ==
    LET early == Lost(acc, e) \/ AliasConflict(acc, e) \/ PathConflict(acc, e)
        drift == IF early THEN "conflicting" ELSE Drift(t, disk, e)
    IN  Noted(acc, e, drift, drift # "conflicting", ~early)

PlanImport(t, m, disk) ==
    LET acc[n \in 0..Len(m)] == IF n = 0 THEN ImportStart(t, m, disk)
                                ELSE ImportStep(t, disk, acc[n - 1], m[n])
    IN  acc[Len(m)].drifts

\* A placement moves along with the layout only when nothing is there yet.
LocalPath(disk, r, d) ==
    IF r.source = "canonical" /\ r.local = r.canon /\ ~Occupied(disk, r.local)
    THEN d ELSE r.local

\* The rows of the additions and updates of a plan; unchanged projects have none.
Changes(t, m, disk) ==
    LET target(x) ==
            LET e == m[CHOOSE i \in DOMAIN m : m[i].remote = x]
            IN  [alias |-> e.alias,
                 local |-> IF x \in DOMAIN t THEN LocalPath(disk, t[x], e.path) ELSE e.path,
                 canon |-> e.path, source |-> "canonical"]
        changed == {x \in Identities(m) : x \in DOMAIN t => t[x] # target(x)}
    IN  [x \in changed |-> target(x)]

-----------------------------------------------------------------------------
(***************************************************************************)
(* The hydration plan.                                                     *)
(***************************************************************************)

ActionRecord == [remote : Remote \cup {NoRemote}, alias : Name, path : Path, observed : Path,
                 action : {"clone", "none", "refuse"},
                 state : {"present", "placeholder", "missing", "path-conflict", "unsafe-path"},
                 source : {"canonical", "local-only"}]

hydrationPath(r) == IF r.source = "canonical" THEN r.canon ELSE r.local

\* classifyProject of the row r of x.
StateAt(disk, x, r) ==
    LET d == hydrationPath(r)
        node == disk[d]
    IN  CASE r.source = "canonical" /\ d \in Outside -> "unsafe-path"
          [] ~(r.source = "canonical" /\ d \in Outside) ->
               CASE node.kind = "checkout" -> "present"
                 [] node = PlaceholderOf(x, r.alias) -> "placeholder"
                 [] node.kind = "empty" -> "missing"
                 [] node.kind = "absent" /\ ~Occupied(disk, d) -> "missing"
                 [] OTHER -> "path-conflict"

ActionFor(state) ==
    CASE state = "present" -> "none"
      [] state \in {"missing", "placeholder"} -> "clone"
      [] OTHER -> "refuse"

classifyProject(disk, x, r) ==
    LET state == StateAt(disk, x, r)
    IN  [remote |-> x, alias |-> r.alias, path |-> hydrationPath(r), observed |-> r.local,
         action |-> ActionFor(state), state |-> state, source |-> r.source]

actionFromDrift(d, state) ==
    [remote |-> NoRemote, alias |-> d.alias, path |-> d.path, observed |-> d.path,
     action |-> ActionFor(state), state |-> state, source |-> "canonical"]

\* A project the manifest does not have is taken to be where it was observed.
added(t, x) ==
    [remote |-> x, alias |-> t[x].alias, path |-> t[x].local, observed |-> t[x].local,
     action |-> "none", state |-> "present", source |-> "canonical"]

\* Planner.PlanEntries: the projects as the manifest will place them, though with the
\* aliases they have.
PlanEntries(t, m, disk) ==
    LET plan == BuildDryRunPlan(t, m, disk)
        planned(d) ==
            CASE d.drift \in {"unchanged", "moved"} ->
                   classifyProject(disk, d.remote,
                                   [t[d.remote] EXCEPT !.canon = d.path, !.source = "canonical"])
              [] d.drift = "missing" -> actionFromDrift(d, "missing")
              [] d.drift = "conflicting" -> actionFromDrift(d, "path-conflict")
    IN  {planned(plan[i]) : i \in DOMAIN plan}
        \cup {added(t, x) : x \in DOMAIN t \ Identities(m)}

\* addPlannedPath: no two projects of a plan in one another's way.
PathsApart(acts) ==
    \A a, b \in acts : a # b /\ "refuse" \notin {a.action, b.action} => ~Overlap(a.path, b.path)
=============================================================================
