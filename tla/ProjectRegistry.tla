--------------------------- MODULE ProjectRegistry ---------------------------
(***************************************************************************)
(* The Project Registry: the projects table of internal/state and the      *)
(* operations that write it, codemesh add and scan (internal/registry),    *)
(* hydrate's record of where the checkout went (Registry.Hydrate), and     *)
(* manifest import (internal/workspacemanifest).                           *)
(*                                                                         *)
(* A project is identified by its normalized remote; a row is never        *)
(* deleted and its id and remote never part, so the table is a function    *)
(* from registered remotes to rows.  clone_url is kept and overwritten     *)
(* together with canonical_path and source and is left out.                *)
(*                                                                         *)
(* Each process is one codemesh invocation with a connection of its own.   *)
(* A statement outside a transaction is atomic; several of them are not.   *)
(* Import works in a transaction: SQLite keeps its changes in draft until  *)
(* the commit, holding is the set of processes with a shared lock, wrote   *)
(* those that have the reserved one.  While somebody else holds a lock a   *)
(* write waits or fails (no busy timeout is set).                          *)
(*                                                                         *)
(* The working tree is seen from afar: a path of the workspace is absent   *)
(* or the checkout of a remote.  What hydrate does there step by step is   *)
(* the subject of Hydration.                                               *)
(***************************************************************************)
EXTENDS Naturals, FiniteSets

CONSTANTS
    Remote,     \* normalized remotes
    NoRemote,   \* "nothing at this path"
    Path,       \* absolute paths in the workspace
    Name,       \* aliases people and directories have, in listing order
    BaseName,   \* [Path -> Name], the last element of a path
    Manifests,  \* workspace manifests people import
    Proc,       \* codemesh processes that can be alive at the same time
    MaxOps,     \* bound: operations begun in one behaviour
    MaxEdits,   \* bound: checkouts the user adds, moves or removes
    MaxFaults   \* bound: kills and failing statements

\* import's temporary alias for a project, __codemesh_manifest_<id>, is written as
\* the project itself.
Alias == Name \cup Remote
Row == [alias : Alias, local : Path, canon : Path, source : {"canonical", "local-only"}]
Table == UNION {[S -> Row] : S \in SUBSET Remote}
Entry == [alias : Name, path : Path]
Manifest == UNION {[S -> Entry] : S \in SUBSET Remote}

ASSUME RemoteAssumption == NoRemote \notin Remote
ASSUME NameAssumption == Name \subseteq Nat /\ Name \cap Remote = {}
ASSUME BaseNameAssumption == BaseName \in [Path -> Name]
ASSUME ManifestsAssumption == Manifests \subseteq Manifest
ASSUME BoundsAssumption == MaxOps \in Nat /\ MaxEdits \in Nat /\ MaxFaults \in Nat

VARIABLES
    table,     \* the committed projects table
    checkout,  \* [Path -> Remote \cup {NoRemote}]
    holding,   \* processes in a transaction that has read
    wrote,     \* processes in a transaction that has written
    draft,     \* [Proc -> Table], the table as such a transaction sees it
    pc,        \* [Proc -> PC]
    op,        \* [Proc -> Op]
    listed,    \* [Proc -> Table], what ListProjects returned
    want,      \* [Proc -> Manifest]
    goal,      \* [Proc -> Table], the rows the operation is going to write
    todo,      \* [Proc -> SUBSET Remote], changes left in a phase of import
    visit,     \* [Proc -> SUBSET Path], what scan has yet to walk
    used,      \* [Proc -> SUBSET Alias], aliases scan knows to be taken
    met,       \* [Proc -> SUBSET Remote], remotes scan has recorded
    ops, edits, faults,
    noise      \* history: processes disturbed since they began

db == <<table, holding, wrote, draft>>
importLocals == <<want, todo>>
scanLocals == <<visit, used, met>>
locals == <<op, listed, goal, importLocals, scanLocals>>
bounds == <<ops, edits, faults>>
vars == <<db, checkout, pc, locals, bounds, noise>>

Op == {"add", "scan", "hydrate", "import"}
Resting == {"done", "failed"}
Tx == {"free", "rewrite", "append"}
PC == Resting \cup {"alias", "remote", "insert"} \cup {"walk", "upsert", "relocate"}
      \cup {"look", "clone", "settle", "update"} \cup {"plan", "begin"} \cup Tx

TypeOK ==
    /\ table \in Table
    /\ checkout \in [Path -> Remote \cup {NoRemote}]
    /\ holding \subseteq Proc /\ wrote \subseteq holding
    /\ draft \in [Proc -> Table]
    /\ pc \in [Proc -> PC]
    /\ op \in [Proc -> Op]
    /\ listed \in [Proc -> Table]
    /\ want \in [Proc -> Manifest]
    /\ goal \in [Proc -> Table]
    /\ todo \in [Proc -> SUBSET Remote]
    /\ visit \in [Proc -> SUBSET Path]
    /\ used \in [Proc -> SUBSET Alias]
    /\ met \in [Proc -> SUBSET Remote]
    /\ ops \in 0..MaxOps /\ edits \in 0..MaxEdits /\ faults \in 0..MaxFaults
    /\ noise \subseteq Proc

NoRows == [x \in {} |-> x]
One(x, r) == [y \in {x} |-> r]
With(t, x, r) == [y \in DOMAIN t \cup {x} |-> IF y = x THEN r ELSE t[y]]
Aliases(t) == {t[x].alias : x \in DOMAIN t}

\* A registry just initialised, in a workspace with whatever checkouts.
Init ==
    /\ table = NoRows
    /\ checkout \in [Path -> Remote \cup {NoRemote}]
    /\ holding = {} /\ wrote = {}
    /\ draft = [p \in Proc |-> NoRows]
    /\ pc = [p \in Proc |-> "done"]
    /\ op = [p \in Proc |-> "add"]
    /\ listed = [p \in Proc |-> NoRows]
    /\ want = [p \in Proc |-> NoRows]
    /\ goal = [p \in Proc |-> NoRows]
    /\ todo = [p \in Proc |-> {}]
    /\ visit = [p \in Proc |-> {}]
    /\ used = [p \in Proc |-> {}]
    /\ met = [p \in Proc |-> {}]
    /\ ops = 0 /\ edits = 0 /\ faults = 0
    /\ noise = {}

-----------------------------------------------------------------------------
(***************************************************************************)
(* Shared steps.                                                           *)
(***************************************************************************)

Goto(p, label) == pc' = [pc EXCEPT ![p] = label]

Begin(p, o, label) ==
    /\ pc[p] \in Resting
    /\ ops < MaxOps
    /\ ops' = ops + 1
    /\ op' = [op EXCEPT ![p] = o]
    /\ Goto(p, label)
    /\ noise' = noise \ {p}
    /\ UNCHANGED <<db, checkout, edits, faults>>

\* Mutant: the transaction is left without a rollback.
ReturnOpen(p, label) ==
    /\ Goto(p, label)
    /\ holding' = holding \ {p}
    /\ goal' = [goal EXCEPT ![p] = NoRows]
    /\ UNCHANGED <<op, wrote, draft, listed, importLocals, scanLocals>>

\* The operation is over: its locals are gone, an open transaction is rolled back.
Return(p, label) ==
    /\ Goto(p, label)
    /\ holding' = holding \ {p}
    /\ wrote' = wrote \ {p}
    /\ draft' = [draft EXCEPT ![p] = NoRows]
    /\ listed' = [listed EXCEPT ![p] = NoRows]
    /\ want' = [want EXCEPT ![p] = NoRows]
    /\ goal' = [goal EXCEPT ![p] = NoRows]
    /\ todo' = [todo EXCEPT ![p] = {}]
    /\ visit' = [visit EXCEPT ![p] = {}]
    /\ used' = [used EXCEPT ![p] = {}]
    /\ met' = [met EXCEPT ![p] = {}]
    /\ UNCHANGED op

Fail(p) == Return(p, "failed") /\ UNCHANGED <<table, checkout, bounds, noise>>

\* p goes on without having written anything.
Pass(p, label) == Goto(p, label) /\ UNCHANGED <<db, checkout, locals, bounds, noise>>

\* Everybody else at work is disturbed.
Disturb(p) == noise' = noise \cup {q \in Proc \ {p} : pc[q] \notin Resting}

\* The unique constraint on alias, for a row of x.
AliasFree(t, x, alias) == \A y \in DOMAIN t \ {x} : t[y].alias # alias

\* A statement that writes outside a transaction.
Blocked(p) == holding \ {p} # {}

-----------------------------------------------------------------------------
(***************************************************************************)
(* AddProject: two selects and an insert, each a statement of its own.     *)
(***************************************************************************)

NewRow(n, d) == [alias |-> n, local |-> d, canon |-> d, source |-> "local-only"]

BeginAdd(p) ==
    /\ Begin(p, "add", "alias")
    /\ \E d \in Path, n \in Name :
          /\ checkout[d] \in Remote
          /\ goal' = [goal EXCEPT ![p] = One(checkout[d], NewRow(n, d))]
    /\ UNCHANGED <<listed, importLocals, scanLocals>>

CheckAlias(p) ==
    /\ pc[p] = "alias"
    /\ \E x \in DOMAIN goal[p] :
          IF goal[p][x].alias \in Aliases(table) THEN Fail(p) ELSE Pass(p, "remote")

CheckRemote(p) ==
    /\ pc[p] = "remote"
    /\ \E x \in DOMAIN goal[p] :
          IF x \in DOMAIN table THEN Fail(p) ELSE Pass(p, "insert")

\* Mutant: scan forgets to note the alias.
RecordedForgetting(p, x, alias) ==
    /\ Goto(p, "walk")
    /\ met' = [met EXCEPT ![p] = @ \cup {x}]
    /\ goal' = [goal EXCEPT ![p] = NoRows]
    /\ UNCHANGED <<holding, wrote, draft, op, listed, importLocals, visit, used>>

\* Scan notes the alias and the remote of the row it has recorded.
Recorded(p, x, alias) ==
    /\ Goto(p, "walk")
    /\ used' = [used EXCEPT ![p] = @ \cup {alias}]
    /\ met' = [met EXCEPT ![p] = @ \cup {x}]
    /\ goal' = [goal EXCEPT ![p] = NoRows]
    /\ UNCHANGED <<holding, wrote, draft, op, listed, importLocals, visit>>

\* The row is in the table: add returns, scan walks on.
Stored(p, x) ==
    IF op[p] = "scan" THEN Recorded(p, x, goal[p][x].alias) ELSE Return(p, "done")

\* Mutant: the table without its unique indexes.
InsertUnchecked(p) ==
    /\ pc[p] = "insert"
    /\ \E x \in DOMAIN goal[p] :
          /\ ~Blocked(p)
          /\ table' = With(table, x, goal[p][x])
          /\ Stored(p, x)
          /\ Disturb(p)
    /\ UNCHANGED <<checkout, bounds>>

Insert(p) ==
    /\ pc[p] = "insert"
    /\ ~Blocked(p)
    /\ \E x \in DOMAIN goal[p] :
          IF x \in DOMAIN table \/ ~AliasFree(table, x, goal[p][x].alias) THEN Fail(p)
          ELSE /\ table' = With(table, x, goal[p][x])
               /\ Stored(p, x)
               /\ Disturb(p)
               /\ UNCHANGED <<checkout, bounds>>

-----------------------------------------------------------------------------
(***************************************************************************)
(* ScanWorkspace: the aliases are listed once, then every checkout found   *)
(* on the walk is upserted.                                                *)
(***************************************************************************)

BeginScan(p) ==
    /\ Begin(p, "scan", "walk")
    /\ visit' = [visit EXCEPT ![p] = Path]
    /\ used' = [used EXCEPT ![p] = Aliases(table)]
    /\ met' = [met EXCEPT ![p] = {}]
    /\ UNCHANGED <<listed, goal, importLocals>>

\* uniqueAlias: the directory's name, or that name with a suffix nobody has.
UniqueAlias(p, d, n) == IF BaseName[d] \in used[p] THEN n \notin used[p] ELSE n = BaseName[d]

Walk(p) ==
    /\ pc[p] = "walk"
    /\ \E d \in visit[p] :
          /\ visit' = [visit EXCEPT ![p] = @ \ {d}]
          /\ IF checkout[d] \in Remote \ met[p]
             THEN /\ \E n \in Name :
                        /\ UniqueAlias(p, d, n)
                        /\ goal' = [goal EXCEPT ![p] = One(checkout[d], NewRow(n, d))]
                  /\ Goto(p, "upsert")
             ELSE UNCHANGED <<pc, goal>>
    /\ UNCHANGED <<db, checkout, op, listed, importLocals, used, met, bounds, noise>>

\* Mutant: a canonical row is left alone.
FoundIgnored(r, d) ==
    IF r.source = "canonical" THEN r ELSE [r EXCEPT !.local = d, !.canon = d]

\* The row of a known remote that was found at d.
FoundAt(r, d) ==
    IF r.source = "canonical" THEN [r EXCEPT !.local = d] ELSE [r EXCEPT !.local = d, !.canon = d]

\* UpsertProject's select, and its decision: add, leave alone, or update by id.
Upsert(p) ==
    /\ pc[p] = "upsert"
    /\ \E x \in DOMAIN goal[p] :
          IF x \notin DOMAIN table THEN Pass(p, "alias")
          ELSE LET found == FoundAt(table[x], goal[p][x].local)
               IN  /\ IF found = table[x] THEN Recorded(p, x, found.alias)
                      ELSE /\ goal' = [goal EXCEPT ![p] = One(x, found)]
                           /\ Goto(p, "relocate")
                           /\ UNCHANGED <<holding, wrote, draft, op, listed, importLocals, scanLocals>>
                   /\ UNCHANGED <<table, checkout, bounds, noise>>

\* UpsertProject's update: every column but the alias, as decided on the row read.
Relocate(p) ==
    /\ pc[p] = "relocate"
    /\ ~Blocked(p)
    /\ \E x \in DOMAIN goal[p] :
          LET r == goal[p][x]
          IN  /\ table' = [table EXCEPT ![x] = [r EXCEPT !.alias = table[x].alias]]
              /\ Recorded(p, x, r.alias)
    /\ Disturb(p)
    /\ UNCHANGED <<checkout, bounds>>

EndScan(p) ==
    /\ pc[p] = "walk"
    /\ visit[p] = {}
    /\ Return(p, "done")
    /\ UNCHANGED <<table, checkout, bounds, noise>>

-----------------------------------------------------------------------------
(***************************************************************************)
(* Registry.Hydrate: the row is read when the operation is planned and,    *)
(* when the checkout is in place, written back.                            *)
(***************************************************************************)

Placement(r) == IF r.source = "canonical" THEN r.canon ELSE r.local

BeginHydrate(p) ==
    /\ Begin(p, "hydrate", "look")
    /\ \E x \in DOMAIN table :
          goal' = [goal EXCEPT ![p] = One(x, [table[x] EXCEPT !.local = Placement(table[x])])]
    /\ listed' = [listed EXCEPT ![p] = table]
    /\ UNCHANGED <<importLocals, scanLocals>>

\* Present and of this remote, missing, or a conflict.
Look(p) ==
    /\ pc[p] = "look"
    /\ \E x \in DOMAIN goal[p] :
          LET there == checkout[goal[p][x].local]
          IN  CASE there = x               -> Pass(p, "settle")
                [] there = NoRemote        -> Pass(p, "clone")
                [] there \notin {x, NoRemote} -> Fail(p)

Clone(p) ==
    /\ pc[p] = "clone"
    /\ \E x \in DOMAIN goal[p] :
          IF checkout[goal[p][x].local] # NoRemote THEN Fail(p)
          ELSE /\ checkout' = [checkout EXCEPT ![goal[p][x].local] = x]
               /\ Goto(p, "settle")
               /\ Disturb(p)
               /\ UNCHANGED <<db, locals, bounds>>

\* Only a canonical project that was registered elsewhere has something to record;
\* UpdateProject begins with the select for the alias.
Settle(p) ==
    /\ pc[p] = "settle"
    /\ \E x \in DOMAIN goal[p] :
          IF goal[p][x].local = listed[p][x].local
          THEN Return(p, "done") /\ UNCHANGED <<table, checkout, bounds, noise>>
          ELSE IF AliasFree(table, x, goal[p][x].alias) THEN Pass(p, "update") ELSE Fail(p)

\* Mutant: the row is written back as it was read.
UpdateNothing(p) ==
    /\ pc[p] = "update"
    /\ ~Blocked(p)
    /\ \E x \in DOMAIN goal[p] : table' = With(table, x, listed[p][x])
    /\ Return(p, "done")
    /\ Disturb(p)
    /\ UNCHANGED <<checkout, bounds>>

\* UpdateProject's update: every column, as the row was when it was read.
Update(p) ==
    /\ pc[p] = "update"
    /\ ~Blocked(p)
    /\ \E x \in DOMAIN goal[p] :
          IF ~AliasFree(table, x, goal[p][x].alias) THEN Fail(p)
          ELSE /\ table' = With(table, x, goal[p][x])
               /\ Return(p, "done")
               /\ Disturb(p)
               /\ UNCHANGED <<checkout, bounds>>

-----------------------------------------------------------------------------
(***************************************************************************)
(* PlanImport, for a manifest m over the projects t as they were listed.   *)
(***************************************************************************)

\* The paths that listed project y claims: where it is, unless the manifest has it
\* and it is not there; where it should be, unless the manifest has it.
ClaimedBy(t, m, y) ==
    {d \in {t[y].local} : y \notin DOMAIN m \/ checkout[d] # NoRemote}
    \cup {d \in {t[y].canon} : y \notin DOMAIN m}

\* seenDesiredPaths is a map: of several claims the last listed one counts.
PathOwner(t, m, d) ==
    {x \in DOMAIN t :
        /\ d \in ClaimedBy(t, m, x)
        /\ \A y \in DOMAIN t : d \in ClaimedBy(t, m, y) => t[y].alias <= t[x].alias}

AliasConflict(t, m, x) ==
    \/ \E y \in DOMAIN m \ {x} : m[y].alias = m[x].alias
    \/ \E y \in DOMAIN t \ DOMAIN m : t[y].alias = m[x].alias

PathConflict(t, m, x) ==
    LET d == m[x].path
    IN  \/ \E y \in DOMAIN m \ {x} : m[y].path = d
        \/ PathOwner(t, m, d) \ {x} # {}
        \/ checkout[d] # NoRemote /\ (x \in DOMAIN t => d \notin {t[x].local, t[x].canon})

Conflicting(t, m) == \E x \in DOMAIN m : AliasConflict(t, m, x) \/ PathConflict(t, m, x)

\* Mutant: a placement that does not move is taken from the old layout.
LocalPathCanonical(r, d) ==
    IF r.source = "canonical" /\ r.local = r.canon /\ checkout[r.local] = NoRemote
    THEN d ELSE r.canon

\* A placement moves along with the layout only when nothing is there yet.
LocalPath(r, d) ==
    IF r.source = "canonical" /\ r.local = r.canon /\ checkout[r.local] = NoRemote
    THEN d ELSE r.local

Target(t, m, x) ==
    LET d == m[x].path
    IN  [alias |-> m[x].alias,
         local |-> IF x \in DOMAIN t THEN LocalPath(t[x], d) ELSE d,
         canon |-> d,
         source |-> "canonical"]

\* The additions and updates: an unchanged project is in neither.
Changes(t, m) ==
    LET changed == {x \in DOMAIN m : x \in DOMAIN t => t[x] # Target(t, m, x)}
    IN  [x \in changed |-> Target(t, m, x)]

BeginImport(p) ==
    /\ Begin(p, "import", "plan")
    /\ \E m \in Manifests : want' = [want EXCEPT ![p] = m]
    /\ listed' = [listed EXCEPT ![p] = table]
    /\ UNCHANGED <<goal, todo, scanLocals>>

PlanImport(p) ==
    /\ pc[p] = "plan"
    /\ IF Conflicting(listed[p], want[p]) THEN Fail(p)
       ELSE /\ goal' = [goal EXCEPT ![p] = Changes(listed[p], want[p])]
            /\ Goto(p, "begin")
            /\ UNCHANGED <<db, checkout, op, listed, importLocals, scanLocals, bounds, noise>>

-----------------------------------------------------------------------------
(***************************************************************************)
(* ApplyImportPlan: aliases that change are first exchanged for temporary  *)
(* ones, then come the updates, then the additions, then the commit.       *)
(***************************************************************************)

Updates(p) == DOMAIN goal[p] \cap DOMAIN listed[p]
Renamed(p) == {x \in Updates(p) : listed[p][x].alias # goal[p][x].alias}

\* The transaction takes its lock with its first statement; without any change it
\* has none.
BeginTx(p) ==
    /\ pc[p] = "begin"
    /\ IF DOMAIN goal[p] = {} THEN Return(p, "done") /\ UNCHANGED <<table, checkout, bounds, noise>>
       ELSE /\ holding' = holding \cup {p}
            /\ draft' = [draft EXCEPT ![p] = table]
            /\ todo' = [todo EXCEPT ![p] = Renamed(p)]
            /\ Goto(p, "free")
            /\ UNCHANGED <<table, wrote, checkout, op, listed, goal, want, scanLocals, bounds, noise>>

\* UpdateProject or AddProject inside the transaction.
Draft(p, x, r) ==
    IF wrote \subseteq {p} /\ AliasFree(draft[p], x, r.alias)
    THEN /\ draft' = [draft EXCEPT ![p] = With(@, x, r)]
         /\ wrote' = wrote \cup {p}
         /\ todo' = [todo EXCEPT ![p] = @ \ {x}]
         /\ UNCHANGED <<table, holding, checkout, pc, op, listed, want, goal, scanLocals, bounds, noise>>
    ELSE Fail(p)

Phase(p, label, next, rest) ==
    /\ pc[p] = label
    /\ todo[p] = {}
    /\ todo' = [todo EXCEPT ![p] = rest]
    /\ Goto(p, next)
    /\ UNCHANGED <<db, checkout, op, listed, want, goal, scanLocals, bounds, noise>>

Free(p) ==
    \/ /\ pc[p] = "free"
       /\ \E x \in todo[p] : Draft(p, x, [listed[p][x] EXCEPT !.alias = x])
    \/ Phase(p, "free", "rewrite", Updates(p))

Rewrite(p) ==
    \/ /\ pc[p] = "rewrite"
       /\ \E x \in todo[p] : Draft(p, x, goal[p][x])
    \/ Phase(p, "rewrite", "append", DOMAIN goal[p] \ DOMAIN listed[p])

Append(p) ==
    /\ pc[p] = "append"
    /\ \E x \in todo[p] :
          IF x \in DOMAIN draft[p] THEN Fail(p) ELSE Draft(p, x, goal[p][x])

\* Mutant: each phase commits what it has.
CommitPhase(p) ==
    /\ pc[p] \in {"rewrite", "append"}
    /\ ~Blocked(p)
    /\ wrote = {p}
    /\ table' = draft[p]
    /\ IF todo[p] = {} /\ pc[p] = "append" THEN Return(p, "done")
       ELSE /\ table # draft[p]
            /\ UNCHANGED <<pc, locals, holding, wrote, draft>>
    /\ Disturb(p)
    /\ UNCHANGED <<checkout, bounds>>

Commit(p) ==
    /\ pc[p] = "append"
    /\ todo[p] = {}
    /\ ~Blocked(p)
    /\ table' = draft[p]
    /\ Return(p, "done")
    /\ Disturb(p)
    /\ UNCHANGED <<checkout, bounds>>

-----------------------------------------------------------------------------
(***************************************************************************)
(* Faults, and the user.                                                   *)
(***************************************************************************)

Writing(p) == pc[p] \in {"insert", "relocate", "update"} \/ (pc[p] = "append" /\ todo[p] = {})

\* SQLITE_BUSY.
Busy(p) ==
    /\ Writing(p)
    /\ Blocked(p)
    /\ Return(p, "failed")
    /\ noise' = noise \cup {p}
    /\ UNCHANGED <<table, checkout, bounds>>

\* A statement or git fails, or codemesh is killed.
Fault(p) ==
    /\ pc[p] \notin Resting
    /\ faults < MaxFaults
    /\ faults' = faults + 1
    /\ Return(p, "failed")
    /\ noise' = noise \cup {p}
    /\ UNCHANGED <<table, checkout, ops, edits>>

User ==
    /\ edits < MaxEdits
    /\ edits' = edits + 1
    /\ \E d \in Path, x \in Remote \cup {NoRemote} :
          /\ x # checkout[d]
          /\ checkout' = [checkout EXCEPT ![d] = x]
    /\ noise' = noise \cup {q \in Proc : pc[q] \notin Resting}
    /\ UNCHANGED <<db, pc, locals, ops, faults>>

-----------------------------------------------------------------------------

AddStep(p) == BeginAdd(p) \/ CheckAlias(p) \/ CheckRemote(p) \/ Insert(p)
ScanStep(p) == BeginScan(p) \/ Walk(p) \/ Upsert(p) \/ Relocate(p) \/ EndScan(p)
HydrateStep(p) == BeginHydrate(p) \/ Look(p) \/ Clone(p) \/ Settle(p) \/ Update(p)
ImportStep(p) ==
    \/ BeginImport(p) \/ PlanImport(p) \/ BeginTx(p)
    \/ Free(p) \/ Rewrite(p) \/ Append(p) \/ Commit(p)

Operate(p) == AddStep(p) \/ ScanStep(p) \/ HydrateStep(p) \/ ImportStep(p) \/ Busy(p)

Next == User \/ \E p \in Proc : Operate(p) \/ Fault(p)

Spec == Init /\ [][Next]_vars

-----------------------------------------------------------------------------
(***************************************************************************)
(* Properties.                                                             *)
(***************************************************************************)

\* However the checks and the inserts of several processes fall, no two projects
\* have the same alias, and none is left with a temporary one of import.
AliasesUnique ==
    \A x \in DOMAIN table : table[x].alias \in Name /\ AliasFree(table, x, table[x].alias)

\* An import shows all of its changes in one step or none of them: also when it is
\* killed, refused a lock or meets an alias it did not know of in the middle.
ImportAllOrNothing ==
    [][\A p \in Proc : op[p] = "import" /\ ImportStep(p) /\ table' # table =>
          table' = [x \in DOMAIN table \cup DOMAIN goal[p] |->
                      IF x \in DOMAIN goal[p] THEN goal[p][x] ELSE table[x]]]_vars

\* What an undisturbed import has written the same manifest finds in order: every
\* project has its row, and another import has no alias to fight for and nothing to
\* write, not even a local path.  (It may still meet a conflict over a path.)
ImportSettles ==
    [][\A p \in Proc : pc[p] \in {"begin", "append"} /\ pc'[p] = "done" /\ p \notin noise =>
          /\ Changes(table', want[p]) = NoRows
          /\ \A x \in DOMAIN want[p] : ~AliasConflict(table', want[p], x)]_vars

\* A scan that nobody disturbs never fails over an alias: the aliases it listed and
\* handed out cover those in the table.
ScanSucceeds ==
    [][\A p \in Proc : op[p] = "scan" /\ pc[p] \notin Resting /\ pc'[p] = "failed" => p \in noise']_vars

\* A scan writes the whole row it has listed.  It still leaves an imported project its
\* canonical path and source when nobody disturbs it, and after it every checkout's
\* project is registered at a place where it is.
ScanFinds ==
    [][\A p \in Proc : op[p] = "scan" /\ pc[p] \notin Resting /\ p \notin noise' =>
          /\ \A x \in DOMAIN table : table[x].source = "canonical" =>
                table'[x].source = "canonical" /\ table'[x].canon = table[x].canon
          /\ pc'[p] = "done" =>
                \A d \in Path : checkout[d] \in Remote =>
                    checkout[d] \in DOMAIN table /\ checkout[table[checkout[d]].local] = checkout[d]]_vars

\* docs/state.md:94: for canonical projects, scan preserves canonical_path and source,
\* without rewriting imported manifest layout.  The same, whatever an import has written
\* between the scan's select and its update.
ScanKeepsLayout ==
    [][\A p \in Proc : op[p] = "scan" /\ ScanStep(p) =>
          \A x \in DOMAIN table : table[x].source = "canonical" =>
              table'[x].source = "canonical" /\ table'[x].canon = table[x].canon]_vars

\* After an undisturbed hydrate the project is registered at its checkout, which is
\* at its canonical path.
HydrateRecords ==
    [][\A p \in Proc : op[p] = "hydrate" /\ pc[p] \notin Resting /\ pc'[p] = "done" /\ p \notin noise =>
          \A x \in DOMAIN goal[p] :
              /\ table'[x].local = table'[x].canon
              /\ checkout[table'[x].local] = x]_vars
=============================================================================
