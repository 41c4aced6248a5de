------------------------------- MODULE Bootstrap -------------------------------
(***************************************************************************)
(* codemesh bootstrap (internal/bootstrap): a manifest, or projects of the *)
(* registry, is planned, imported, cloned or given placeholders, and the   *)
(* new places are recorded.                                                *)
(*                                                                         *)
(* A process is one invocation.  It reads the projects table anew for each *)
(* plan, and between two of its steps anybody may change the table or the  *)
(* tree; so each plan, each directory, clone and placeholder, each         *)
(* statement outside a transaction and the import's transaction is a step. *)
(* The inside of the transaction is the subject of ProjectRegistry, the    *)
(* inside of a clone of Hydration.                                         *)
(***************************************************************************)
EXTENDS Reconciliation, FiniteSets

CONSTANTS
    Proc,       \* codemesh processes that can be alive at the same time
    Requests,   \* command lines
    NoRequest,
    Registries, \* projects tables a behaviour may start with
    Disks,      \* trees a behaviour may start with
    Edits,      \* nodes the user makes
    MaxOps,     \* bound: bootstraps begun in one behaviour
    MaxMishaps  \* bound: kills, failures, and changes by the user and by scan

\* A manifest with these entries, projects of the registry by name, or all of them.
Request == {q \in [entries : Seq(Entry), aliases : Seq(Name),
                   all : BOOLEAN, placeholders : BOOLEAN] :
               /\ q.all => q.entries = <<>> /\ q.aliases = <<>>
               /\ ~q.all => (q.entries = <<>> <=> q.aliases # <<>>)}

ASSUME RequestsAssumption == Requests \subseteq Request /\ NoRequest \notin Requests
ASSUME StartAssumption ==
    /\ Registries \subseteq Table /\ Disks \subseteq Tree /\ Edits \subseteq Node
    /\ \A t \in Registries : IsFiniteSet(DOMAIN t) /\ \A x, y \in DOMAIN t : x # y =>
          /\ t[x].alias # t[y].alias
          /\ t[x].source = "canonical" /\ t[y].source = "canonical"
             => ~Overlap(t[x].canon, t[y].canon)
ASSUME BoundsAssumption == MaxOps \in Nat /\ MaxMishaps \in Nat

VARIABLES
    table,     \* the projects table
    disk,      \* the tree
    pc,        \* [Proc -> PC]
    req,       \* [Proc -> Requests \cup {NoRequest}]
    parents,   \* [Proc -> SUBSET Path], paths whose parents are still to be made
    goal,      \* [Proc -> Table], rows the import is going to write
    adds,      \* [Proc -> SUBSET Remote], those that are additions
    queue,     \* [Proc -> SUBSET Nat], which of its Names are still to be planned
    acts,      \* [Proc -> Seq(ActionRecord)], the hydration plan
    todo,      \* [Proc -> SUBSET Nat], which of its actions are still to be done
    ops, mishaps,
    before,    \* history: [Proc -> table and tree when it began]
    disturbed, \* history: processes in whose time others changed the tree
    outdated,  \* history: processes in whose time others changed the table
    clean,     \* history: no outdated process has written to the table, and no project
               \* was registered in the place another one was imported for
    halted,    \* history: the request that has just broken off, alone, in clones or updates,
               \* and left no half of one
    retry      \* history: [Proc -> BOOLEAN], this is that request again

locals == <<req, parents, goal, adds, queue, acts, todo>>
bounds == <<ops, mishaps>>
others == <<disturbed, outdated>>
history == <<before, others, clean, halted, retry>>
vars == <<table, disk, pc, locals, bounds, history>>

Resting == {"idle", "done", "refused", "failed"}
PC == Resting \cup {"dryrun", "entries", "agree", "parents", "import",
                    "plan", "check", "run", "persist"}

NoRows == [x \in {} |-> x]
Nowhere == [table |-> NoRows, disk |-> [d \in Path |-> Bare("absent")]]

\* Some project is registered in the place another one was imported for.
Tangled(t) == \E x, y \in DOMAIN t : x # y /\ t[y].source = "canonical" /\ t[x].local = t[y].canon

Init ==
    /\ table \in Registries
    /\ disk \in Disks
    /\ pc = [p \in Proc |-> "idle"]
    /\ req = [p \in Proc |-> NoRequest]
    /\ parents = [p \in Proc |-> {}]
    /\ goal = [p \in Proc |-> NoRows]
    /\ adds = [p \in Proc |-> {}]
    /\ queue = [p \in Proc |-> {}]
    /\ acts = [p \in Proc |-> <<>>]
    /\ todo = [p \in Proc |-> {}]
    /\ ops = 0 /\ mishaps = 0
    /\ before = [p \in Proc |-> Nowhere]
    /\ disturbed = {} /\ outdated = {}
    /\ clean = ~Tangled(table)
    /\ halted = NoRequest
    /\ retry = [p \in Proc |-> FALSE]

-----------------------------------------------------------------------------
(***************************************************************************)
(* Shared steps.                                                           *)
(***************************************************************************)

Goto(p, label) == pc' = [pc EXCEPT ![p] = label]

Busy(q) == pc[q] \notin Resting
Others(p) == {q \in Proc \ {p} : Busy(q)}

\* Nobody else has changed anything since p began.
Alone(p) == p \notin disturbed \cup outdated

\* p changes the table, or the tree.
Writes(p) == /\ outdated' = outdated \cup Others(p)
             /\ clean' = (clean /\ p \notin outdated /\ ~Tangled(table'))
Touches(p) == disturbed' = disturbed \cup Others(p)

\* The invocation ends and forgets what it planned.
End(p, label) ==
    /\ Goto(p, label)
    /\ req' = [req EXCEPT ![p] = NoRequest]
    /\ parents' = [parents EXCEPT ![p] = {}]
    /\ goal' = [goal EXCEPT ![p] = NoRows]
    /\ adds' = [adds EXCEPT ![p] = {}]
    /\ queue' = [queue EXCEPT ![p] = {}]
    /\ acts' = [acts EXCEPT ![p] = <<>>]
    /\ todo' = [todo EXCEPT ![p] = {}]
    /\ before' = [before EXCEPT ![p] = Nowhere]
    /\ retry' = [retry EXCEPT ![p] = FALSE]

Return(p, label) == End(p, label) /\ UNCHANGED <<table, disk, bounds, others, clean, halted>>

\* BlockedError and HydrationBlockedError; any other error.
Refuse(p) == Return(p, "refused")
Fail(p) == Return(p, "failed")

\* p goes on without having written anything.
Pass(p, label) == Goto(p, label) /\ UNCHANGED <<table, disk, bounds, history>>

\* The aliases to plan, and those of them that are not there for the second time.
Names(q) == IF q.entries # <<>> THEN [i \in DOMAIN q.entries |-> q.entries[i].alias] ELSE q.aliases
Distinct(s) == {i \in DOMAIN s : \A j \in 1..(i - 1) : s[j] # s[i]}

\* What is to be done is done in order.
Due(i, S) == i \in S /\ \A j \in S : i <= j

Begin(p, q) ==
    /\ ~Busy(p)
    /\ ops < MaxOps
    /\ ops' = ops + 1
    /\ Goto(p, IF q.entries # <<>> THEN "dryrun" ELSE "plan")
    /\ req' = [req EXCEPT ![p] = q]
    /\ queue' = [queue EXCEPT ![p] = Distinct(Names(q))]
    /\ before' = [before EXCEPT ![p] = [table |-> table, disk |-> disk]]
    /\ disturbed' = disturbed \ {p} /\ outdated' = outdated \ {p}
    /\ retry' = [retry EXCEPT ![p] = (q = halted /\ Others(p) = {})]
    /\ halted' = NoRequest
    /\ UNCHANGED <<table, disk, parents, goal, adds, acts, todo, mishaps, clean>>

-----------------------------------------------------------------------------
(***************************************************************************)
(* The plans before the import.                                            *)
(***************************************************************************)

\* Reconciler.DryRun.  That PlanResult plans the hydration of a blocked drift plan as
\* well changes nothing.
DryRun(p) ==
    /\ pc[p] = "dryrun"
    /\ LET m == req[p].entries
       IN  IF Conflicting(BuildDryRunPlan(table, m, disk)) THEN Refuse(p)
           ELSE /\ parents' = [parents EXCEPT ![p] =
                                 IF req[p].placeholders THEN {}
                                 ELSE {m[i].path : i \in {j \in DOMAIN m : Above[m[j].path] # {}}}]
                /\ Pass(p, "entries")
                /\ UNCHANGED <<req, goal, adds, queue, acts, todo>>

\* preflightPlaceholderMaterialization
Preflight(plan) ==
    /\ PathsApart(plan)
    /\ \A a \in plan : a.action = "clone" => a.path \notin Outside

\* Planner.PlanEntries, on a listing of its own; only placeholders are preflighted.
Entries(p) ==
    /\ pc[p] = "entries"
    /\ LET plan == PlanEntries(table, req[p].entries, disk)
       IN  IF \/ \E a \in plan : a.action = "refuse"
              \/ req[p].placeholders /\ ~Preflight(plan)
           THEN Refuse(p)
           ELSE Pass(p, "agree") /\ UNCHANGED locals

\* workspacemanifest.PlanImport, on a third listing.
Agree(p) ==
    /\ pc[p] = "agree"
    /\ LET m == req[p].entries
           changes == Changes(table, m, disk)
       IN  IF Conflicting(PlanImport(table, m, disk)) THEN Fail(p)
           ELSE /\ goal' = [goal EXCEPT ![p] = changes]
                /\ adds' = [adds EXCEPT ![p] = DOMAIN changes \ DOMAIN table]
                /\ Pass(p, IF parents[p] = {} THEN "import" ELSE "parents")
                /\ UNCHANGED <<req, parents, queue, acts, todo>>

-----------------------------------------------------------------------------
(***************************************************************************)
(* Directories and the import.                                             *)
(***************************************************************************)

\* A directory with something new in it.
Holding(node) ==
    CASE node.kind \in {"absent", "empty"} -> Bare("dir")
      [] node.kind = "placeholder" -> [node EXCEPT !.kind = "edited"]
      [] OTHER -> node

MkdirAll(d) ==
    LET made == {q \in Above[d] : disk[q].kind = "absent"}
    IN  [q \in Path |->
            CASE q \in Above[d] /\ (\E z \in made : q \in Above[z]) -> Holding(disk[q])
              [] q \in made /\ (\A z \in made : q \notin Above[z]) -> Bare("empty")
              [] OTHER -> disk[q]]

MakeParent(p) ==
    /\ pc[p] = "parents"
    /\ \E d \in parents[p] :
          IF \E q \in Above[d] : disk[q].kind = "file" THEN Fail(p)
          ELSE /\ disk' = MkdirAll(d)
               /\ parents' = [parents EXCEPT ![p] = @ \ {d}]
               /\ Goto(p, IF parents[p] = {d} THEN "import" ELSE "parents")
               /\ Touches(p)
               /\ UNCHANGED <<table, req, goal, adds, queue, acts, todo, bounds,
                              before, outdated, clean, halted, retry>>

\* ApplyImportPlan: an alias or an identity somebody has taken since fails it.
Import(p) ==
    /\ pc[p] = "import"
    /\ LET rows == goal[p]
           taken == \E x \in DOMAIN rows, y \in DOMAIN table \ DOMAIN rows :
                        rows[x].alias = table[y].alias
       IN  IF taken \/ adds[p] \cap DOMAIN table # {} THEN Fail(p)
           ELSE /\ table' = [x \in DOMAIN table \cup DOMAIN rows |->
                               IF x \in DOMAIN rows THEN rows[x] ELSE table[x]]
                /\ goal' = [goal EXCEPT ![p] = NoRows]
                /\ adds' = [adds EXCEPT ![p] = {}]
                /\ Goto(p, "plan")
                /\ IF DOMAIN rows = {} THEN UNCHANGED <<outdated, clean>> ELSE Writes(p)
                /\ UNCHANGED <<disk, req, parents, queue, acts, todo, bounds,
                               before, disturbed, halted, retry>>

-----------------------------------------------------------------------------
(***************************************************************************)
(* The hydration plan.                                                     *)
(***************************************************************************)

Known(t, n) == {x \in DOMAIN t : t[x].alias = n}

Planned(x) == classifyProject(disk, x, table[x])

\* PlanAll, in the order of the aliases; PlanProject, which lists for each alias.  An
\* action to refuse ends the command when all are planned, which changes nothing.
PlanAll ==
    LET listed(x) == {y \in DOMAIN table : table[y].alias <= table[x].alias}
    IN  [i \in 1..Cardinality(DOMAIN table) |->
            Planned(CHOOSE x \in DOMAIN table : Cardinality(listed(x)) = i)]

PlanWith(p, plan, rest) ==
    IF \E i \in DOMAIN plan : plan[i].action = "refuse" THEN Refuse(p)
    ELSE /\ acts' = [acts EXCEPT ![p] = @ \o plan]
         /\ queue' = [queue EXCEPT ![p] = rest]
         /\ Pass(p, IF rest = {} THEN "check" ELSE "plan")
         /\ UNCHANGED <<req, parents, goal, adds, todo>>

Plan(p) ==
    /\ pc[p] = "plan"
    /\ \/ req[p].all /\ PlanWith(p, PlanAll, {})
       \/ \E i \in queue[p] :
             /\ Due(i, queue[p])
             /\ LET rows == Known(table, Names(req[p])[i])
                IN  \/ rows = {} /\ Refuse(p)
                    \/ \E x \in rows : PlanWith(p, <<Planned(x)>>, queue[p] \ {i})

-----------------------------------------------------------------------------
(***************************************************************************)
(* Execution.                                                              *)
(***************************************************************************)

ActsOf(p) == {acts[p][i] : i \in DOMAIN acts[p]}

\* Executor.Execute, before it clones: present checkouts must be the projects', and
\* nothing in another's way.
Matching(plan) ==
    PathsApart(plan) /\ \A a \in plan : a.state = "present" => disk[a.path] = CheckoutOf(a.remote)

\* Mutant: no preflight.
CheckNothing(p) ==
    /\ pc[p] = "check"
    /\ todo' = [todo EXCEPT ![p] = {i \in DOMAIN acts[p] : acts[p][i].action = "clone"}]
    /\ Pass(p, "run")
    /\ UNCHANGED <<req, parents, goal, adds, queue, acts>>

Check(p) ==
    /\ pc[p] = "check"
    /\ IF (IF req[p].placeholders THEN Preflight(ActsOf(p)) ELSE Matching(ActsOf(p)))
       THEN /\ todo' = [todo EXCEPT ![p] = {i \in DOMAIN acts[p] : acts[p][i].action = "clone"}]
            /\ Pass(p, "run")
            /\ UNCHANGED <<req, parents, goal, adds, queue, acts>>
       ELSE Refuse(p)

\* Mutant: directories are not made on the way.
PutAlone(d, node) == [disk EXCEPT ![d] = node]

Put(d, node) ==
    [q \in Path |-> IF q = d THEN node ELSE IF q \in Above[d] THEN Holding(disk[q]) ELSE disk[q]]

Blocked(d) == \E q \in Above[d] : disk[q].kind = "file"
Free(d) == disk[d].kind \in {"absent", "empty"} /\ ~Blocked(d)
Owned(a) == disk[a.path] = PlaceholderOf(a.remote, a.alias)

\* Where Executor.clone and placeholder.Write agree to put a project.
Ready(p, a) ==
    IF req[p].placeholders THEN Free(a.path) \/ Owned(a)
    ELSE /\ a.path \notin Outside
         /\ IF a.state = "placeholder" THEN Owned(a) \/ (disk[a.path].kind = "absent" /\ Free(a.path))
            ELSE Free(a.path)

Product(p, a) == IF req[p].placeholders THEN PlaceholderOf(a.remote, a.alias) ELSE CheckoutOf(a.remote)

\* Stat through a file is an error of its own for a clone, but a conflict for Write.
Run(p) ==
    /\ pc[p] = "run"
    /\ \E i \in todo[p] :
          /\ Due(i, todo[p])
          /\ LET a == acts[p][i]
                 stuck == Blocked(a.path) /\ ~req[p].placeholders
             IN  \/ /\ Ready(p, a)
                    /\ disk' = Put(a.path, Product(p, a))
                    /\ todo' = [todo EXCEPT ![p] = @ \ {i}]
                    /\ IF disk' = disk THEN UNCHANGED disturbed ELSE Touches(p)
                    /\ UNCHANGED <<table, pc, req, parents, goal, adds, queue, acts, bounds,
                                   before, outdated, clean, halted, retry>>
                 \/ ~Ready(p, a) /\ stuck /\ Fail(p)
                 \/ ~Ready(p, a) /\ ~stuck /\ Refuse(p)

\* Mutant: a project that is already registered somewhere is not recorded anew.
NeverMisplaced(a) == FALSE

\* Which placements persistClonedCanonicalPlacements records.
Misplaced(a) == /\ a.action = "clone" /\ a.remote # NoRemote
                /\ a.source = "canonical" /\ a.observed # a.path

Ran(p) ==
    /\ pc[p] = "run" /\ todo[p] = {}
    /\ todo' = [todo EXCEPT ![p] = {i \in DOMAIN acts[p] : Misplaced(acts[p][i])}]
    /\ Pass(p, "persist")
    /\ UNCHANGED <<req, parents, goal, adds, queue, acts>>

\* UpdateProject, of the whole row as it was when the project was planned.
Persist(p) ==
    /\ pc[p] = "persist"
    /\ \E i \in todo[p] :
          /\ Due(i, todo[p])
          /\ LET a == acts[p][i]
             IN  IF Known(table, a.alias) \ {a.remote} # {} THEN Fail(p)
                 ELSE /\ table' = [table EXCEPT ![a.remote] =
                                     [alias |-> a.alias, local |-> a.path,
                                      canon |-> a.path, source |-> "canonical"]]
                      /\ todo' = [todo EXCEPT ![p] = @ \ {i}]
                      /\ Writes(p)
                      /\ UNCHANGED <<disk, pc, req, parents, goal, adds, queue, acts, bounds,
                                     before, disturbed, halted, retry>>

Done(p) == pc[p] = "persist" /\ todo[p] = {} /\ Return(p, "done")

-----------------------------------------------------------------------------
(***************************************************************************)
(* Faults, the user and scan.                                              *)
(***************************************************************************)

Mishap == mishaps < MaxMishaps /\ mishaps' = mishaps + 1

\* What MkdirAll(d) leaves when it is interrupted.
Made(d) == {MkdirAll(q) : q \in Above[d] \cup {d}}

\* What a clone or a placeholder may leave in a's place.  Files are written one by one,
\* and git takes a clone for a checkout from early on.  What replaces a placeholder is
\* cloned next to it.
Partial(p, a) ==
    CASE req[p].placeholders /\ Owned(a) -> {}
      [] req[p].placeholders /\ ~Owned(a) ->
           {Bare("empty"), [Product(p, a) EXCEPT !.kind = "edited"]}
      [] ~req[p].placeholders /\ Owned(a) ->
           {[disk[a.path] EXCEPT !.kind = "edited"], Bare("empty"), Bare("absent")}
      [] ~req[p].placeholders /\ ~Owned(a) -> {Bare("empty"), Bare("dir"), Product(p, a)}

Left(p, a) == Made(a.path) \cup {Put(a.path, node) : node \in Partial(p, a)}

\* The trees p may leave: of a directory, a clone or a placeholder it is making, a part.
LeftOfParents(p) ==
    UNION {Made(d) : d \in {e \in parents[p] : pc[p] = "parents" /\ ~Blocked(e)}}

LeftOfActions(p) ==
    UNION {Left(p, acts[p][i]) : i \in {j \in todo[p] :
               pc[p] = "run" /\ Due(j, todo[p]) /\ Ready(p, acts[p][j])}}

Remains(p) == {disk} \cup LeftOfParents(p) \cup LeftOfActions(p)

\* What cannot be looked at is taken for a conflict, and so is a placeholder that cannot
\* be written: these failures are refusals.
Mistaken(p) == \/ pc[p] \in {"dryrun", "entries", "plan", "check"}
               \/ pc[p] = "run" /\ todo[p] # {} /\ (req[p].placeholders \/ disk' = disk)

\* p breaks off in its clones or updates and leaves no half of one.
Breaks(p) == /\ pc[p] \in {"run", "persist"} /\ Others(p) = {} /\ Alone(p)
             /\ \A i \in todo[p] : LET d == acts[p][i].path
                                   IN  disk'[d] = disk[d] \/ disk'[d].kind \in {"absent", "empty"}

\* Something fails, or codemesh is killed.
Break(p) ==
    /\ Busy(p)
    /\ Mishap
    /\ disk' \in Remains(p)
    /\ End(p, "failed") \/ (Mistaken(p) /\ End(p, "refused"))
    /\ disturbed' = disturbed \cup {p} \cup {q \in Others(p) : disk' # disk}
    /\ halted' = IF Breaks(p) THEN req[p] ELSE NoRequest
    /\ UNCHANGED <<table, ops, outdated, clean>>

User ==
    /\ Mishap
    /\ \E d \in Path, node \in Edits :
          /\ node # disk[d]
          /\ disk' = [disk EXCEPT ![d] = node]
    /\ disk' \in Tree
    /\ disturbed' = disturbed \cup {q \in Proc : Busy(q)}
    /\ halted' = NoRequest
    /\ UNCHANGED <<table, pc, locals, ops, before, outdated, clean, retry>>

\* codemesh scan finds a registered project at d.
Scan(x, d) ==
    /\ Mishap
    /\ disk[d] = CheckoutOf(x)
    /\ table[x].local # d
    /\ table' = [table EXCEPT ![x] = IF @.source = "canonical" THEN [@ EXCEPT !.local = d]
                                     ELSE [@ EXCEPT !.local = d, !.canon = d]]
    /\ outdated' = outdated \cup {q \in Proc : Busy(q)}
    /\ clean' = (clean /\ ~Tangled(table'))
    /\ halted' = NoRequest
    /\ UNCHANGED <<disk, pc, locals, ops, before, disturbed, retry>>

Step(p) ==
    \/ \E q \in Requests : Begin(p, q)
    \/ DryRun(p) \/ Entries(p) \/ Agree(p) \/ MakeParent(p) \/ Import(p)
    \/ Plan(p) \/ Check(p) \/ Run(p) \/ Ran(p) \/ Persist(p) \/ Done(p)
    \/ Break(p)

Next ==
    \/ \E p \in Proc : Step(p)
    \/ User
    \/ \E x \in DOMAIN table, d \in Path : Scan(x, d)

Spec == Init /\ [][Next]_vars

-----------------------------------------------------------------------------
(***************************************************************************)
(* Properties.                                                             *)
(***************************************************************************)

TypeOK ==
    /\ table \in Table
    /\ disk \in Tree
    /\ pc \in [Proc -> PC]
    /\ req \in [Proc -> Requests \cup {NoRequest}]
    /\ parents \in [Proc -> SUBSET Path]
    /\ goal \in [Proc -> Table]
    /\ adds \in [Proc -> SUBSET Remote]
    /\ queue \in [Proc -> SUBSET Nat]
    /\ acts \in [Proc -> Seq(ActionRecord)]
    /\ todo \in [Proc -> SUBSET Nat]
    /\ ops \in 0..MaxOps /\ mishaps \in 0..MaxMishaps
    /\ before \in [Proc -> [table : Table, disk : Tree]]
    /\ disturbed \subseteq Proc /\ outdated \subseteq Proc
    /\ clean \in BOOLEAN
    /\ halted \in Requests \cup {NoRequest}
    /\ retry \in [Proc -> BOOLEAN]

Ends(p, label) == Busy(p) /\ pc'[p] = label

\* The drift plan and the import plan are two programs that must not disagree on what
\* blocks a manifest of paths below the workspace root: bootstrap promises what the
\* first finds and writes what the second plans.
PlannersAgree ==
    \A p \in Proc : pc[p] = "dryrun" =>
        (Conflicting(BuildDryRunPlan(table, req[p].entries, disk))
            <=> Conflicting(PlanImport(table, req[p].entries, disk)))

\* However bootstraps, scans and users interleave no two projects have the same alias,
\* and as long as nobody wrote from an outdated plan, and no project was found in the
\* place of another, no two imported projects have places in one another's way.  Of two
\* claims to one path the planners remember the last one listed, so that a project found
\* in another's place can be imported there.
LayoutDisjoint ==
    \A x, y \in DOMAIN table : x # y =>
        /\ table[x].alias # table[y].alias
        /\ clean /\ table[x].source = "canonical" /\ table[y].source = "canonical"
           => ~Overlap(table[x].canon, table[y].canon)

Imported(p) ==
    LET was == before[p]
        rows == Changes(was.table, req[p].entries, was.disk)
    IN  [x \in DOMAIN was.table \cup DOMAIN rows |->
            IF x \in DOMAIN rows THEN rows[x] ELSE was.table[x]]

\* A bootstrap nobody interfered with that ends in a refusal has imported all of its
\* manifest or nothing, and has lost nobody's files.  It has written no placeholder,
\* unless what it takes for a conflict is that one could not be written: then the other
\* places are as they were, or hold all of their placeholder.
RefusalKeepsWhatWasThere ==
    [][\A p \in Proc : Ends(p, "refused") /\ Alone(p) =>
          /\ table' = before[p].table \/ (req[p].entries # <<>> /\ table' = Imported(p))
          /\ \A d \in Path : disk'[d] # before[p].disk[d] =>
                before[p].disk[d].kind \in {"absent", "empty", "placeholder"}
          /\ req[p].placeholders =>
                \/ disk' = before[p].disk
                \/ /\ mishaps' # mishaps
                   /\ \E i \in todo[p] : \A a \in ActsOf(p) :
                         a.action = "clone" /\ a.path # acts[p][i].path =>
                             disk'[a.path] \in {before[p].disk[a.path], Product(p, a)}]_vars

\* docs/commands/bootstrap.md:76: "Refuses path conflicts and unsafe paths without
\* mutation."
RefusalLeavesNoTrace ==
    [][\A p \in Proc : Ends(p, "refused") /\ Alone(p) =>
          table = before[p].table /\ disk = before[p].disk]_vars

Asked(p) ==
    LET q == req[p]
    IN  CASE q.entries # <<>> -> Identities(q.entries)
          [] q.entries = <<>> -> {x \in DOMAIN table :
                q.all \/ table[x].alias \in {q.aliases[i] : i \in DOMAIN q.aliases}}

\* A bootstrap nobody interfered with that succeeds has every project it was asked for
\* where the manifest wants it, checked out or, if these were asked for, as a
\* placeholder, and the table says so of those it has just put there.
SuccessIsInPlace ==
    [][\A p \in Proc : Ends(p, "done") /\ Alone(p) =>
          /\ \A i \in DOMAIN req[p].entries :
                LET e == req[p].entries[i]
                IN  /\ e.remote \in DOMAIN table
                    /\ table[e.remote].alias = e.alias
                    /\ table[e.remote].canon = e.path
                    /\ table[e.remote].source = "canonical"
          /\ \A x \in Asked(p) :
                LET node == disk[hydrationPath(table[x])]
                IN  \/ node = CheckoutOf(x)
                    \/ req[p].placeholders /\ (\/ node.kind = "checkout"
                                               \/ node = PlaceholderOf(x, table[x].alias))
          /\ \A a \in ActsOf(p) : a.action = "clone" => table[a.remote].local = a.path]_vars

\* Each project of a manifest wants a place where no other project is registered or
\* belongs, nor above or below it.
Untangled(t, m) ==
    \A i \in DOMAIN m : \A z \in DOMAIN t :
        Overlap(t[z].local, m[i].path) \/ Overlap(t[z].canon, m[i].path) => z = m[i].remote

\* Clones and updates are no transaction.  When a bootstrap of a manifest breaks off
\* between two of them, or in one that leaves at most an empty directory, the same
\* bootstrap, run again by itself, goes through.  (Half of a clone, or of a placeholder,
\* is in its way.)  Not so if a project wants the
\* place another one is still registered at, or one in it: once something is made
\* there the second run takes it for the other's.  Nor if it wants the place another
\* one belongs to: the first run may have overlooked that, as of two claims to a path
\* the planners remember the last one listed, and an alias it has changed can make that
\* the other.
RetryGoesThrough ==
    [][\A p \in Proc : (Ends(p, "refused") \/ Ends(p, "failed")) /\ retry[p]
                       /\ req[p].entries # <<>> /\ Untangled(before[p].table, req[p].entries)
                       => p \in disturbed' \cup outdated]_vars
=============================================================================
