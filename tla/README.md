# codemesh in TLA+

This directory holds a model of codemesh, the checks TLC makes of it on small
instances, and theorems TLAPS proves of it for all instances. It is kept beside the
Go code; every definition that stands for code is listed with its file and lines in
`PROJECT.json` under `map`. Paths below are relative to `src/`.

    tlc -workers 2 -config AgentRunsShared.cfg MCAgentRuns     # a check
    tlapm AgentRunsProofs.tla                                  # a proof

codemesh is a command line tool. There is no daemon: all concurrency comes from
several invocations, editors, shells and agents at work on the same SQLite file, the
same agents directory and the same workspace tree. An invocation can be killed
anywhere, and most of what it does consists of several statements and file operations
with nothing around them. That is what the modules are about; what codemesh prints is
not.

## The system

| Component | State it keeps | Operations | Hard behaviour | Correct when |
|---|---|---|---|---|
| `internal/agentprep` | a run's directory and its row | `Prepare`: readiness gate, directory, clone, contract file, row, deferred removal | fails or is killed between directory and row; others clean meanwhile | a run has its row and its directory, or neither; nobody touches a run under preparation |
| `internal/agentruns` | locks, run directories, command process groups | `Execute`, `Clean`, `List` | lock and re-listing; deadline against end of command; signals; commands that outlive codemesh; deletion in two stores | one supervised command per run; the log loses nothing; clean never deletes under a command and always converges |
| `internal/agentcontract` | `codemesh-run.json` | `Write`, `WriteNew`, append of command records | file and row are written one after the other | the file is at most one record ahead |
| `internal/state` | SQLite: projects, agent runs, machines, env bindings, settings, migrations | statements, `WithTransaction`, `Migrate` | checks and writes in separate statements; `SQLITE_BUSY`; rollback | unique aliases and remotes; a transaction is all or nothing |
| `internal/registry` | rows of projects | `AddPath`, `ScanWorkspace`, `Hydrate`, `Entries` | decisions from rows read earlier; the tree changes under a scan | rows say where the checkouts are; canonical layout is kept |
| `internal/workspacemanifest` | rows of projects | `PlanImport`, `ApplyImport`, export, validation | plan made outside the transaction; aliases exchanged under a unique index; rows that claim each other's paths | all or nothing; the same import again changes nothing; no two projects at one path |
| `internal/hydrationplanner` | none | `PlanAll`, `PlanProject`, `PlanEntries` | its classification is stale when it is used | a path that is in use is never cloned into |
| `internal/hydrationexecutor` | project directories, temporary clones | `Execute`, `clone` | four ways to fill a path, each of several steps, without locks | failure leaves the path as it was; only owned files are removed |
| `internal/placeholder` | three sentinel files | `Write`, `OwnedBy`, `Is` | sentinels written one by one | a directory is a placeholder only with exactly its sentinels |
| `internal/bootstrap` | none of its own | `Apply`, `Placeholders`, `ApplyRegistry`, `PlaceholdersRegistry`, persistence of placements | import, directories, clones and persistence fail independently; four listings of a table others write; retries | success leaves every project in place and recorded; a refusal loses nobody's files; a broken-off run can be repeated |
| `internal/reconciliation` | none | `BuildDryRunPlan`, the drift of each project | many overlapping conditions, a second program plans the same import | it blocks exactly what the import blocks |
| `internal/readiness` | the `FETCH_HEAD` of the source checkout | `EvaluateProject`, `EvaluateHandoff`: path, git status, origin, policy, env, tools, fetch, base, freshness | the remote moves between any two git commands; `FETCH_HEAD` is shared; chains of checks that stop at different blockers | what is handed out meets the policy in it, and its provenance is true |
| `internal/envbinding` | rows of bindings, a run's `env.bundle` | upsert, select, resolve, write, remove | bindings change between selection and use; a later step fails | a bundle holds all that is asked for, only what was admitted, and is not left behind |
| `internal/clonestrategy` | none | full, sparse and partial clones | several git commands in a row | a failing one is reported |
| `internal/gitops`, `policy`, `toolchain`, `config`, `commandresult`, `workspacetarget`, `machineregistry`, `presentation` | none | run git, parse files, compare versions, render | none | |
| `cmd/codemesh` | the process | arguments, signals, exit codes | signal against end of command | |

How they meet: `cmd/codemesh` opens the store and calls one of registry, manifest,
bootstrap, readiness, agentprep or agentruns. Bootstrap calls reconciliation, the
planner, import, the executor and the store. Hydrate and access call the planner and the
executor, then the store. Agentprep calls readiness, clones, asks envbinding for the
secrets and writes the contract and the row; agentruns reads both. Between processes the
only means are the rows, the files, the `flock` per run, the remotes and the
`FETCH_HEAD` of a checkout.

## The modules

| Module | What it is |
|---|---|
| `AgentRuns` | Prepare, Execute and Clean of several processes |
| `RunLedger` | the abstract promise of the agent run commands; `AgentRuns` implements it |
| `MCAgentRuns` | its instances for TLC |
| `AgentRunsProofs`, `AgentRunsLedger` | theorems about it, and that it implements `RunLedger` |
| `Hydration`, `MCHydration` | planner, executor and placeholders at the paths of projects |
| `HydrationProofs` | theorems about it |
| `ProjectRegistry`, `MCProjectRegistry` | the projects table with add, scan, hydrate and import |
| `RegistryProofs`, `RegistryUndisturbed` | theorems about it: at all times, and of operations nobody disturbs |
| `Handoff`, `MCHandoff` | the readiness gate and the rest of prepare behind it: clone, provenance, env bundle, contract |
| `HandoffProofs` | theorems about it |
| `Reconciliation` | the three planners as operators: drift plan, import plan, hydration plan |
| `Bootstrap`, `MCBootstrap` | the bootstrap command, which composes them with import, clones and persistence |
| `ReconciliationProofs`, `BootstrapProofs` | lemmas about the planners, and theorems about the command |

In each module a variable `pc[p]` says where process `p` is in its operation, an action
is the code up to the next point at which somebody else can see or change something,
and `Return` (or `GoOn` to a resting label) stands for the return of the operation with
its deferred calls. Kills and I/O errors are actions of their own, counted by `faults`.

### AgentRuns

| Model | Code |
|---|---|
| `recorded`, `old`, `rowLog` | rows of `agent_runs`, `created_at` before the cutoff, the commands in `metadata_json` |
| `dir`, `filed`, `contract` | the run directory, `codemesh-run.json` and its commands |
| `lock` | `flock` on `agents/.locks/<run>.lock`; the kernel drops it when the process dies |
| `cmdState`, `cmdRun` | the process groups of the commands |
| `PrepareBegin` .. `PrepareUndo` | `Preparer.Prepare` from the run id on |
| `ExecuteBegin` .. `ExecuteRow` | `Manager.Execute`: list, lock, list again, start, select, kill and reap, file, row |
| `CleanBegin` .. `CleanPurge` | `Manager.Clean`: list, per candidate validate and lock, remove directories, delete rows in one transaction |
| `Crash`, `Replace`, `Age` | a killed codemesh, a directory exchanged or removed from outside, time |

`Stray` are rows whose workspace is not under the agents directory. `Replace` takes a run
directory away only while nobody works in it: a user who deletes it under a running
command is not modelled. `born` remembers
ids, which are random and never repeat. Windows takes no part: its lock is a file lock
with the same meaning.

`RunLedger` has no processes, locks or files: a run is opened once, a command begins
in it when none is under way, ends with one more record or none, and a run without a
command is retired. `ImplementsLedger` maps the rows and the holder of each lock to it.

### Hydration

| Model | Code |
|---|---|
| `node[x]`, `entries[x]` | what is at the path of a project; entries are told apart by kind and by whose clone made them |
| `atRoot` | a project at the workspace root, whose temporary clone lies inside its path; the only project then |
| `Begin`, `Classify` | the plan, `classifyProject` per project at the time it is looked at |
| `Preflight`, `Look`, `MakeTemp`, `Guard`, `GitStarts`, `GitSucceeds`, `GitFails`, `Undo` | `Executor.Execute` and `clone` up to the end of git |
| `Recheck`, `Clear`, `Rename`, `Strip`, `MoveEntry`, `MoveDone`, `MoveRefused` | how the clone gets to its place |
| `WriteLook`, `Mkdir`, `WriteSentinel` | `placeholder.Write`, file by file |
| `GuardFails`, `UndoFails`, `PlaceFails`, `WriteFails`, `Crash` | I/O errors and kills |
| `User` | an editor or a shell at the path |

git is external: `.git` is there as soon as a clone starts, and the clone ends whole or
failing. `os.RemoveAll` removes one entry at a time and may find others meanwhile. The
steps where the code can stop early with the temporary directory still there
(`GuardFails` in the placeholder modes) are faults of the machine and excused as such.
A surviving git child of a killed codemesh is not modelled: it dies with its parent.
Sibling temporary directories left by a killed process are not looked at again by any
code and are forgotten when the process begins its next operation.

### ProjectRegistry

| Model | Code |
|---|---|
| `table` | the projects table, from normalized remotes to alias, `local_path`, `canonical_path`, `source` |
| `holding`, `wrote`, `draft` | SQLite transactions: shared lock, reserved lock, uncommitted table |
| `checkout` | which remote's checkout is at a path |
| `BeginAdd`, `CheckAlias`, `CheckRemote`, `Insert` | `AddPath` and the three statements of `AddProject` |
| `BeginScan`, `Walk`, `Upsert`, `Relocate`, `Recorded`, `EndScan` | `ScanWorkspace` and the two statements of `UpsertProject` |
| `BeginHydrate`, `Look`, `Clone`, `Settle`, `Update` | `Registry.Hydrate` and `UpdateProject` |
| `BeginImport`, `PlanImport` and the operators from `ClaimedBy` to `Changes` | `ApplyImport`, `PlanImport` |
| `BeginTx`, `Free`, `Rewrite`, `Append`, `Commit` | `ApplyImportPlan` in `WithTransaction` |
| `Busy`, `Fault`, `User` | `SQLITE_BUSY`, kills and failures, the user's tree |

The driver runs SQLite with a rollback journal, one connection per process and no busy
timeout: a transaction that has read holds the shared lock, the first write takes the
reserved one, and a commit or a write outside of transactions needs everybody else to
hold none. A row's id and remote never part and rows are not deleted, so the table is a
function from remotes; `clone_url` is written together with `canonical_path` and
`source` and is left out. Names are numbers because `ListProjects` orders by alias and
`PlanImport` depends on that order. A suffixed alias of scan is any name not yet used.
The temporary alias `__codemesh_manifest_<id>` is written as the project itself. Paths
are flat: refusals for nesting and for paths outside the root, which depend on the
path alone, are not modelled.

### Handoff

| Model | Code |
|---|---|
| `site` | the source checkout (its path, policy file, dirt, origin, local branches), the tools of the host, the row's clone URL, the default branch the remote advertises |
| `tip` | the branches of the remote; `Push` moves one forward |
| `bindings` | the `env_bindings` table; `EnvBind` is `UpsertEnvBinding` |
| `fetchHead` | `.git/FETCH_HEAD` of the source checkout, for all processes |
| `rep[p]`, `pol[p]` | the `ProjectReport` and the policy an evaluation has in hand |
| `clone[p]`, `bundle[p]`, `contract[p]` | HEAD of the run's workspace, its `env.bundle`, the contract of the recorded run |
| `Look` | the local part of `EvaluateProject` and `EvaluateHandoff`, with `Placement`, `gitStatus`, `sourceRemote` |
| `LookMissing`, `AskRemoteDefault`, `ProbeDefault`, `List`, `Probe` | `EvaluateHandoff` without a source checkout: `ls-remote` and a probe clone |
| `AskDefault`, `Fetch`, `Resolve`, `ShowPolicy` | `symbolic-ref`, `fetch`, `rev-parse FETCH_HEAD` with `merge-base`, `show FETCH_HEAD:.codemesh.yml` |
| `Judge` | `checkEnvReadiness`, `checkToolchainReadiness`, and what follows their verdict |
| `Clone`, `Bind`, `Write`, `Record` | `Preparer.Prepare` behind the gate, `Materialize`, `WriteBundle`, `agentcontract.New` |

A process is one invocation of tree, status, doctor or prepare, and each git command is
a step, so that pushes, changed bindings and the fetches of others come in between. The
source checkout and the host's tools stay as they are during a behaviour; the user who
edits the checkout while the gate reads it is not modelled. Branches of the remote move
forward to commits they never were at: no force push. A policy is its base, its two
modes, its required files, keys and tools, and whether it decodes and validates. A tool
is absent, on the host, or found in the project's own directory, which the detector does
not trust. Four history variables serve the properties: `tips`, every commit a branch
ever was at; `judgedOn`, the commit whose policy the gate applied; `quiet`, whether
nobody else fetched into the checkout while the gate was between `fetch` and `show`;
`admitted`, the keys whose binding admitted the request when the bundle was selected.

### Reconciliation and Bootstrap

| Model | Code |
|---|---|
| `BuildDryRunPlan`, `DriftStep` | `reconciliation.BuildDryRunPlan`, entry by entry |
| `PlanImport`, `ImportStep`, `Changes` | `workspacemanifest.PlanImport`, entry by entry, and the rows it plans |
| `classifyProject`, `PlanEntries` | `hydrationplanner`, of rows and of entries of a manifest |
| `table`, `disk` | the projects table; what is at each path, from nothing over a placeholder to a checkout |
| `DryRun`, `Entries`, `Agree` | `Reconciler.DryRun`, `PlanEntries`, `PlanImport`, each on a listing of its own |
| `MakeParent`, `Import` | `MkdirAll` per project; `ApplyImportPlan`, whose inside is `ProjectRegistry`'s |
| `Plan`, `Check`, `Run` | `PlanAll` or `PlanProject` per alias, the preflight, one clone or placeholder per step |
| `Ran`, `Persist`, `Done` | `persistClonedCanonicalPlacements`, one `UpdateProject` per step |
| `Break` | a failure or a kill between steps or in the middle of one, with what it leaves (`Remains`) and what it is taken for (`Mistaken`) |
| `User`, `Scan` | the user's tree, `codemesh scan` |

Paths are a set with `Above`, the paths a path lies in, so that nested projects, parents
that are files and directories made on the way are there; `Outside` are those that lead
out of the workspace through a link. The workspace root is above all of them and no
project's own path. The planners decide and change nothing, so they are operators of
table, manifest and tree, recursive functions that go through the entries as the loops in
the code do, and the same operators serve the steps of the command and the properties that
compare them. `queue` and `todo` are sets of indices of what is still to be planned and
still to be done, in the order of the names or of the actions.

A step that breaks off leaves a part of what it was making: some of the parents
(`MkdirAll`), an empty directory, a checkout git has begun, a placeholder without all of
its files, or, where a clone replaces a placeholder, the placeholder with some of its
files gone or nothing at all. A clone that replaces something is made in a temporary
directory beside it, which counts as an entry of the parent and may stay there; a parent
that has lost its last entry in this way is still taken for a directory with something in
it. What a break is called follows the code: a path that cannot be looked at is a
conflict, and `materializePlaceholders` (`bootstrap.go:333`) makes one of every error of
`placeholder.Write`, so that these end as refusals; everything else is a failure. A path
below a file is occupied, although nothing is there, because `os.Lstat` says `ENOTDIR`
and the planners ask for `ErrNotExist`.

The history
variables say in whose time others have changed the tree (`disturbed`) or the table
(`outdated`), whether the table was ever written by an outdated process (`clean`), and
whether an invocation is the repetition of the one that has just broken off (`halted`,
`retry`).

## The runs

| Run | Instance | What it shows |
|---|---|---|
| `agent_runs_shared` | 2 processes, 2 runs, 2 requests, 1 fault | `OneSupervisedCommand`, `PrepareOwnsItsRun`, `DiskMatchesTable`, `WorkspaceOutlivesCommand` |
| `agent_runs_contended` | 3 processes, 1 run and a stray one, 2 requests, 2 faults | `StrayStopsClean`, `ContractAheadByOne`, `RecordsAuthentic`, `LedgerOnlyGrows`, and the refinement `ImplementsLedger` |
| `agent_runs_live` | 2 processes, 1 run, 2 requests, 2 faults, fair | `OperationsReturn`, `CleanupConverges` |
| `agent_runs_orphan` | 2 processes, 1 run, 1 fault | finding: `OneCommandPerRun` fails |
| `hydration` | 2 processes, 1 project, 2 edits, 1 fault | `TempCleaned`, `FailureRestores`, `SuccessIsWhole`, `KeepsWhatItSaw` |
| `hydration_race` | 2 processes, 1 project, nothing else | finding: `FailureKeepsFiles` fails |
| `project_registry` | 2 processes, 2 projects, 2 paths, 3 names, 3 manifests, 3 operations, 1 edit, 1 fault | `AliasesUnique`, `ImportAllOrNothing`, `ImportSettles`, `ScanSucceeds`, `ScanFinds`, `HydrateRecords` |
| `registry_scan` | the same with no edit and no fault | finding: `ScanKeepsLayout` fails |
| `handoff` | 2 processes, 2 branches, 4 commits, 1 push, 1 binding | `MatchedRunMeetsItsPolicy`, `ProvenanceTrue`, `BundleWholeAndScoped`, `StatusTellsThePath` |
| `handoff_race` | 2 processes in one checkout, 1 push, no change of bindings | finding: `GateAppliesFetchedPolicy` fails |
| `bootstrap` | 2 processes, 2 projects, 4 paths, 3 names, 11 command lines, 7 tables, 6 trees, 2 commands, 1 mishap | `PlannersAgree`, `LayoutDisjoint`, `RefusalKeepsWhatWasThere`, `SuccessIsInPlace`, `RetryGoesThrough` |
| `bootstrap_refusal` | the same with 1 command and no mishap | finding: `RefusalLeavesNoTrace` fails |

Every module's type invariant is checked in one of these runs. Every property of a
passing run has a mutant in `PROJECT.json`: a definition changed by a plausible slip in
the code, under which TLC reports that property.

Why the bounds are enough. Two processes are what every check-then-act in this code
needs to go wrong; the agent runs have a third so that a waiting process, a working one
and a cleaning one meet. Two runs let a Clean remove one while the other is in work.
Two requests let a record be appended to a log that has one. Of projects, paths and
names there are as many as an exchange needs, plus one name for a suffix; the manifests
are a layout, the opposite layout, in which aliases and paths are exchanged, and one
project alone on the path of the other. Three registry operations are what two overlapping ones
need to find a row that an earlier one has written. One fault is enough for each
operation to be killed or to fail anywhere, and the agent runs have two where the
recovery from the first may fail as well.

In `handoff` the commits are three of `main`, whose policies are strict, lax and broken in
turn, and one of `dev`, which has no policy: a push can take the base from any kind of
policy to the next at every point of an evaluation. A single invocation starts from any of
`Sites` (every kind of path, directories inside the work tree of something else, every
origin, tools absent or untrusted, no source checkout)
with any command line; two share one checkout (`Shared`) with command lines that differ
in what they fetch and need (`Together`), which is where they can meet. One push is
enough to separate fetch from clone, and one change of a binding to separate selection
from use. In `bootstrap` the tables and trees are the cases the planners tell apart:
nothing, a project elsewhere, both imported, one found in the place or inside the place
of the other, one outside the workspace, a file or a placeholder in the way; the manifests have renamed,
nested, repeated and outside entries. Two commands are an invocation and its repetition,
or two at once, and one mishap breaks the first at any step. Wider command lines and
edits with more commands and mishaps have been simulated without a violation.

Symmetry is used over processes (and runs) in safety runs, whose initial states and
constants treat them alike; never with fairness. `CHECK_DEADLOCK FALSE` stands in the
registry, handoff and bootstrap runs, where the bound on operations ends every behaviour.

Fairness. `AgentRuns` assumes that a process inside an operation is scheduled, that a
command has a deadline (`Execute` always sets one, ten minutes unless asked otherwise),
and that somebody runs clean again and again, which no code does by itself: what
`CleanupConverges` shows is that repetition is enough, whatever the earlier attempts left
behind. Commands need not end by themselves, and Clean skips a locked run and does not
wait for it. The other modules state no liveness: their operations are loops over what
was read at the start, and two hydrations at one path can, in principle, keep each other
busy in `os.RemoveAll`, where the code has no bound.

The largest safety runs have between half a million and one and a half million distinct
states and take one to three minutes each; `bootstrap` has 1,478,373.

## What the findings are

Each run marked as a finding checks a sentence of the documentation that the code does
not keep; `PROJECT.json` quotes it.

* A killed codemesh leaves its command running, its lock is gone, and the next
  `agent run` starts a second command in the same run (`agent_runs_orphan`).
* Two hydrations of the same missing project: the one whose `git clone` is refused
  removes the checkout the other has finished (`hydration_race`).
* A scan that has read a local-only row writes its path and source over the import that
  has made the row canonical in the meantime (`registry_scan`).
* Two prepares of one project with different bases share the `FETCH_HEAD` of its
  checkout: the first can gate on the policy of the other's base (`handoff_race`).
* A bootstrap that refuses a conflict found late has written the import, and one that
  refuses an unsafe path can have cloned the projects before it (`bootstrap_refusal`).

Five more divergences the models show, which have no run of their own. They were found
by checking the sentence quoted, and the passing properties are stated around them:

* `docs/state.md:216` says that the row stores the contract. When the update of the row
  fails after `agentruns.go:313` the file is one record ahead of it, which is what
  `ContractAheadByOne` allows and no more.
* `docs/state.md:251` says that an unsafe path aborts cleanup before deletion. A run
  directory replaced by something that is no directory is noticed at `agentruns.go:141`,
  in the middle of the removals.
* `PlanImport` remembers for each path the last project listed (`manifest.go:438`), and
  can so give two projects one canonical path when three rows are tangled;
  `manifest_test.go:884` expects such claims to conflict. `LayoutDisjoint` holds as long
  as no project is registered in another's place (`clean`).
* `docs/state.md:156` says of each required tool whether "the active detector" found it.
  `tree` and `status` pass none (`main.go:2399`, `2480`, `2569`), so that every tool a
  policy requires is unknown to them and they never end with success for a project that
  requires one; `StatusTellsThePath` says so.
* `docs/state.md:129` lets automation tell `hydrated` from other path states. A directory
  in the work tree of something else is called hydrated, because `git status` succeeds in
  it, and so is one whose policy file does not parse, because that is no workspace blocker
  (`main.go:2653`).

And what else a maintainer may want to know of, which no sentence of the documentation
rules out:

* A bootstrap repeated after a failure between a clone and the update of its row finds
  the checkout present, and only rows of clones are updated (`bootstrap.go:459`):
  `local_path` stays where it was, until a scan. `SuccessIsInPlace` therefore speaks of
  the projects the invocation has itself put in place.
* A repeated bootstrap can be refused when a project wants the place another one is still
  registered at: once cloned there, its checkout is taken for the other's. The same can
  happen when it wants the place another one belongs to. With x, alias 2, canonical at
  `app` but still at `old`, and y, alias 3, found at `app`, a manifest that wants y there
  under alias 1 is accepted, as the planners remember for each path the last project
  listed, which is y. Then the import changes y's alias, y is listed first, and the second
  run is told that `app` is x's. (The proof failed at this point; the bounds of
  `bootstrap` now contain the case.) This is why `RetryGoesThrough` asks for an untangled
  table.
* `UpdateProject` after the clones writes the whole row as it was planned, over an import
  or a scan that committed meanwhile.
* A placeholder that cannot be written, for want of space or of permission, is reported as
  a path conflict. The placeholders before it stay, and so does what was written of it,
  which is no placeholder: a repetition refuses it. Half a clone stays as well, and a
  later plan takes it for a checkout. `RefusalKeepsWhatWasThere` names the first and
  `RetryGoesThrough` leaves out both.
* The drift plan refuses a missing project at the workspace root, `.`, whenever the root
  exists, because `reconciliation.go:197` passes no root to the check, while `PlanImport`
  (`manifest.go:506`) accepts an empty one. `PlannersAgree` is about paths below the root.

## What is proved

All theorems hold for any sets of processes, runs, remotes, paths, names and manifests
and any bounds, under the assumptions the modules name: the special values (`NoRun`,
`NoProc`, `NoRemote`) are no members of the sets they stand beside, bounds are natural
numbers, stray runs are runs, names are numbers and not remotes, base names and manifests
are made of the declared names and paths, policy files and sites have the declared shape;
a bootstrap starts from a finite table in which aliases are unique and no two canonical
projects share a place, which is what the imports before it have left.

* `AgentRunsProofs!TypeCorrect`: `TypeOK`, strengthened by `Working`, which says that a
  process in the middle of an operation has the run and the request it needs. Without it
  the record that Execute appends could not be shown to be a record.
* `AgentRunsProofs!OneSupervised`, `PrepareOwns`, `WorkspaceKept`. None of the
  properties is inductive. The invariant `IInv` adds: an Execute past the lock holds the
  lock of its run (`Locking`); every run a process refers to was born before, so that a
  new id is new to everybody (`Known`); what a Clean is going to delete it has locked, or
  it was gone and stays gone (`Deletions`); the run of a Prepare is a candidate of no
  Clean (`Ownership`); requests are told apart and run where their Execute works
  (`Requests`). From `Locking` and `Requests` two supervised commands of one run would
  hold one lock; from `Deletions` a Clean that removes a directory holds the lock the
  supervisor would need.
* `RegistryProofs!RegistryTyped`: `TypeOK`, strengthened by `Phases`: processes in a
  transaction are those with a lock, and the changes left in a phase of import are among
  those the phase is about. Otherwise a phase could read a row that was never listed.
* `RegistryProofs!UniqueAliases` and `ImportAtomic`. `AliasesUnique` says nothing of
  drafts, and a commit makes a draft the table. The invariant `Safe` adds, for every
  transaction: aliases in the draft are distinct, and one that is no name of a person's
  belongs to a project whose rewrite is still to come (`DraftNamed`); the draft covers
  the table, differs from it in the import's own changes only, and has those that are
  finished (`DraftOverlays`). The second holds because nobody else can write while the
  transaction has its shared lock. At the commit nothing is left to do, so the draft is
  the table with exactly the import's changes, and all its aliases are names.
* `HandoffProofs!Typed`, `MatchedMeetsPolicy`, `ProvenanceHolds`, `BundleSafe`. What a
  contract says is about a git command several steps back, and the remote has moved since.
  The invariant follows the knowledge of an invocation along its way: `Forward` (a branch
  never comes back to a commit it has left), `Settled` (from the fetch on there is a base
  and a commit of it), `Judged` (the policy applied is that of the fetched commit, or the
  base has moved on since), `Passed` (nothing that policy demands in block mode is
  missing), `Copied` (the workspace is a commit of the base, and if it is the fetched one
  it has passed), `InMaking` (a bundle is empty, or whole and admitted) and `Kept` (all of
  it for the recorded contract). The point is the step from `Judged` to `Copied`: when
  the clone turns out to be the fetched commit, then by `Forward` the base cannot have
  moved when the policy was read, so the policy applied was the policy of the clone. With
  a missing source, where the gate lists the base and then clones it to read its policy,
  the two may differ, and only `Forward` excludes that the clone comes back to the listed
  commit. `quiet` is a premise of the first two because of the `FETCH_HEAD` race.
* `AgentRunsLedger!StrayRowsKept` (a Clean that meets a stray row deletes nothing, and no
  step deletes such a row), `ContractMirrorsRow`, `RecordsTrue`, `DiskAgrees`,
  `LogsGrow`, on top of `IInv`. The row of a run is read under the lock, kept in memory
  while the command runs and written back whole, so everything hangs on `Holding`: what
  an Execute decoded is what the row still says, row and directory are still there, the
  command is where `pc` says, and before the row is written the file has that one record
  more. Next to it `Locks` (who has a lock is in an Execute of that run or in a Clean),
  `Deleting` (a Clean is done with a directory only when it is gone, and has no stray run
  in hand), `Authentic` (a request that has a record is nobody's any more, which is why
  no command is recorded twice) and `Unharmed` (without a fault no directory is unsafe).
* `AgentRunsLedger!LedgerImplemented`: `AgentRuns` implements `RunLedger`. The ledger's
  active run is the one whose Execute is past its start (`ActiveIs`, by `Locks` there is
  one at most), its status is read off the row (`StatusOf`). Then six kinds of step of the code
  open, discard, begin, finish, abandon and retire a run, a kill abandons it, and all the
  others, whatever they do to files, locks and processes, leave the ledger as it is.
* `HydrationProofs!HydrationTypes`, `NothingLeftBehind`, `NothingSeenIsLost`,
  `FailingRestores`, `SucceedingFills`. `HInv` has three parts for each process. `Course`
  says where it is in its operation, whatever happens at its path: which of the four ways
  to place a clone it has taken, and that until a failure its last examination has found
  what that way expects. `Tidy` says who may still have a temporary clone. `Undisturbed`
  gives the content of the path, entry by entry, at every label of a process nobody has
  disturbed; that it holds of a process while others move is one argument (`Calm`): a
  step elsewhere changes nothing it relies on, and a step at its path sets `noise`.
  `Rooted` (a temporary clone lies inside a path only at the workspace root, which is
  then the only project) is what keeps the steps of one path out of the others. From it,
  every step of a process satisfies `Faithful`, which is the three action properties.

* `RegistryUndisturbed!ScanNeverFails`, `ScanFindsAll`, `HydrateRegisters`,
  `ImportIsSettled`: what scan, hydrate and import do when nobody disturbs them. Each acts
  on what it read several steps earlier. `Undisturbed` is `Safe` with three more parts:
  where an operation is and what it has at hand (`Course`); that projects never imported
  are where they were found (`Homely`, without which hydrate would not end at the canonical
  path); and that whoever is not marked as disturbed still knows the truth of table and tree
  (`Knows`), which other processes cannot change without marking it. That a second import
  has nothing to write and meets no alias conflict (path conflicts are not claimed) needs that the rows an import leaves are those its manifest wants
  (`Settled`).
* `HandoffProofs!StatusTold`: what status and tree report of a path is what is there, and
  success is not said of a dirty or stale work tree or of one that lacks what its policy
  asks for. Whoever still asks git or judges has a work tree in hand whose report says so
  (`OnPath`), whatever it has been blocked or warned for; everybody else has ended with what
  the path itself says (`Tells`).
* `ReconciliationProofs` has the lemmas about the planners, for manifests and tables of
  any size. The planners are recursive functions over the entries, and what they compute
  is proved by induction on the number of entries gone through: not with the induction
  theorems of the library, which need an operator parameter, but over a set of numbers,
  from the least element of its complement (`NatInduct`). `PlansAgree`: drift plan and
  import plan find the same manifests in conflict. `ImportPromise`, `ImportKeepsApart`: an
  import plan without conflicts gives no alias and no place away twice, also when merged
  with the table. `PlanFits`: a manifest that asks for nothing twice and for nothing that
  is others' has no conflict.
* `BootstrapProofs!BootstrapTyped`, `PlannersAlike`, `LayoutStaysDisjoint`, from `Sound`:
  `TypeOK`; the table keeps aliases apart and, as long as it is `clean`, places (`World`);
  and what a process is going to import or record does so too (`Course`). The table can
  only change by an import, an update or a scan, and `Course` is what makes each of them
  keep `World`.
* `BootstrapProofs!SuccessInPlace`, `RefusalKeeps`, from `Undisturbed`, of processes that
  nobody interferes with: the table is what was found with the import done or not yet
  (`TableKept`), the tree differs only where nothing was lost (`TreeKept`), the manifest
  had no conflict (`ManifestKept`), every project asked for has an action or is still to
  be planned (`Covered`), actions still fit the tree and do not overlap (`ActsKept`), and
  what is done is done (`Running`, `Recording`). Keeping `ActsKept` over one's own clones
  takes the disjointness of places, which the import's promise gives. A refusal that is a
  placeholder which could not be written leaves a part of that one only: the places of the
  others are not below it (`LeftEffect`).
* `BootstrapProofs!RetrySucceeds`. What breaks off alone in its clones or updates, and
  leaves no half of a clone or a placeholder, leaves a state that can be taken up again (`HaltedKept`, `Resumable`): the manifest is in the
  table as it wants it (`InPlan`), the others are not in one another's way where that
  matters (`Spread`), and there is room at every place, or the right thing is there
  (`Placeable`). The repetition carries the same along until it clones (`Resuming`);
  `Orderly` adds that each project has one action, which has its room, and that projects
  outside the manifest are left alone. Then none of the plans can find anything: `PlanFits`
  applies to the first, nothing is left to import, and each check before a clone holds.

Each of these invariants was checked by TLC, as an invariant of the runs above, before it
was proved. TLC only checks liveness (`OperationsReturn`, `CleanupConverges`),
because fairness and `ENABLED` are out of the prover's reach, and it finds the violations
of the five findings. No module declares a `RECURSIVE` operator.

## What is not modelled

* `ListProjects`, `Entries`, `List`, `workspacetarget`, export, the finding of handoff
  documents and all rendering: they only read.
* Decoding and validation of manifests and policies, URL normalisation, version
  comparison, path containment, the arguments of a clone strategy: functions of their
  input alone, with table tests.
* The compensating rollback of `applyImportChanges` for stores without transactions: the
  program has one store, and it has transactions.
* Migrations, all of which run in one transaction when the store is opened
  (`store.go:199`), and the registration of machines, one statement.
* The boundary of Clean's cutoff: age is one event in the model.
* The workspace root as a project's own path in `Bootstrap` (it is in `Hydration`), the
  user's edits of a source checkout under the gate, force pushes.
* git itself, the file system below one entry of a directory, clocks.
* `cmd/codemesh-crabbox-pr-proof`, the site scripts and the end-to-end harness: tools
  beside the program.

## The plan

Done, in this order, most important behaviour first:

1. `AgentRuns` with `RunLedger`: the only part that runs other people's commands and
   deletes their work.
2. `Hydration`: the only part that removes files in the workspace.
3. `ProjectRegistry`: the rows everything else works from.
4. `Handoff`: readiness, env bindings and the gate in front of Prepare.
5. `Reconciliation` and `Bootstrap`: the planners, and the command that composes import,
   clones and the persistence of placements.

Invariants and action properties of all five are proved. Left: the workspace root as a
project's own path in `Bootstrap`, and nested paths in `ProjectRegistry`.
