------------------------------ MODULE AgentRuns ------------------------------
(***************************************************************************)
(* The life of agent runs: internal/agentprep (Prepare), internal/         *)
(* agentruns (Execute, Clean) and the agent_runs table of internal/state,  *)
(* as several codemesh processes share them.                               *)
(*                                                                         *)
(* Shared by all processes:                                                *)
(*   - the agent_runs table: which runs have a row (recorded), whether the *)
(*     row is past the cutoff of clean (old), and the command records of   *)
(*     its metadata_json (rowLog);                                         *)
(*   - the agents directory: each run's directory (dir), and the contract  *)
(*     file codemesh-run.json in its workspace (filed, contract);          *)
(*   - the flock on agents/.locks/<run>.lock (lock);                       *)
(*   - the command process groups (cmdState, cmdRun).                      *)
(*                                                                         *)
(* A process is a codemesh invocation: idle, or somewhere in one of the    *)
(* three operations (pc).  It may be killed at any step (Crash): the       *)
(* kernel drops its flocks, its deferred calls do not run, and the command *)
(* it had started, which has a process group of its own, lives on.         *)
(***************************************************************************)
EXTENDS Naturals, Sequences, FiniteSets

CONSTANTS
    Run,          \* run ids newID can return
    Proc,         \* codemesh processes that can be alive at the same time
    NoRun,        \* "this process works on no run"
    NoProc,       \* "nobody holds this lock"
    Stray,        \* runs whose row names a workspace outside AgentsDir
    MaxCommands,  \* bound: Execute requests in one behaviour
    MaxFaults     \* bound: kills, I/O errors and replaced directories

ASSUME StrayAssumption == Stray \subseteq Run
ASSUME NoRunAssumption == NoRun \notin Run
ASSUME NoProcAssumption == NoProc \notin Proc
ASSUME BoundsAssumption == MaxCommands \in Nat /\ MaxFaults \in Nat

VARIABLES
    recorded,  \* runs with a row in agent_runs
    old,       \* runs whose created_at is not after the cutoff
    rowLog,    \* [Run -> Seq(Record)], the Commands of the row's contract
    born,      \* run ids handed out so far
    dir,       \* [Run -> DirState], the managed run directory
    filed,     \* runs whose workspace holds codemesh-run.json
    contract,  \* [Run -> Seq(Record)], the Commands of that file
    lock,      \* [Run -> Proc \cup {NoProc}], who holds the flock
    issued,    \* number of Execute requests so far
    cmdState,  \* [Cmd -> CmdState], the process group of a request
    cmdRun,    \* [Cmd -> Run \cup {NoRun}], where it runs
    pc,        \* [Proc -> PC]
    at,        \* [Proc -> Run \cup {NoRun}], run of a Prepare or Execute
    snap,      \* [Proc -> Seq(Record)], metadata decoded under the lock
    cmd,       \* [Proc -> Cmd \cup {0}], request of an Execute
    why,       \* [Proc -> Why], which of timedOut and canceled is set
    todo,      \* [Proc -> SUBSET Run], candidates Clean has yet to look at
    doomed,    \* [Proc -> SUBSET Run], Clean's list of deletions
    left,      \* [Proc -> SUBSET Run], deletions not yet removed from disk
    faults     \* faults so far

table == <<recorded, old, rowLog>>
disk == <<dir, filed, contract>>
groups == <<issued, cmdState, cmdRun>>
execLocals == <<at, snap, cmd, why>>
cleanLocals == <<todo, doomed, left>>
vars == <<table, born, disk, lock, groups, pc, execLocals, cleanLocals, faults>>

Cmd == 1..MaxCommands

\* absent: nothing there; bare: a run directory without workspace/; intact: the
\* workspace is the clone Prepare made; torn: workspace/ is there but part of its
\* content is already removed; unsafe: the path is a symlink or not a directory.
DirState == {"absent", "bare", "intact", "torn", "unsafe"}

CmdState == {"unborn", "running", "ok", "fail"}
Why == {"none", "timeout", "cancel"}
Record == [cmd : Cmd, exit : {0, 1, 124, 130}]

PreparePC == {"clone", "write", "record", "undo"}
SupervisePC == {"run", "reap"}
LockedPC == {"relist", "start", "run", "reap", "file", "row"}
CleanPC == {"scan", "remove", "purge"}
PC == {"idle", "lock"} \cup PreparePC \cup LockedPC \cup CleanPC

TypeOK ==
    /\ recorded \subseteq Run
    /\ old \subseteq Run
    /\ rowLog \in [Run -> Seq(Record)]
    /\ born \subseteq Run
    /\ dir \in [Run -> DirState]
    /\ filed \subseteq Run
    /\ contract \in [Run -> Seq(Record)]
    /\ lock \in [Run -> Proc \cup {NoProc}]
    /\ issued \in 0..MaxCommands
    /\ cmdState \in [Cmd -> CmdState]
    /\ cmdRun \in [Cmd -> Run \cup {NoRun}]
    /\ pc \in [Proc -> PC]
    /\ at \in [Proc -> Run \cup {NoRun}]
    /\ snap \in [Proc -> Seq(Record)]
    /\ cmd \in [Proc -> Cmd \cup {0}]
    /\ why \in [Proc -> Why]
    /\ todo \in [Proc -> SUBSET Run]
    /\ doomed \in [Proc -> SUBSET Run]
    /\ left \in [Proc -> SUBSET Run]
    /\ faults \in 0..MaxFaults

\* A home as an earlier codemesh left it: rows only for stray runs.
Init ==
    /\ recorded = Stray
    /\ old = {}
    /\ rowLog = [r \in Run |-> <<>>]
    /\ born = Stray
    /\ dir = [r \in Run |-> "absent"]
    /\ filed = {}
    /\ contract = [r \in Run |-> <<>>]
    /\ lock = [r \in Run |-> NoProc]
    /\ issued = 0
    /\ cmdState = [c \in Cmd |-> "unborn"]
    /\ cmdRun = [c \in Cmd |-> NoRun]
    /\ pc = [p \in Proc |-> "idle"]
    /\ at = [p \in Proc |-> NoRun]
    /\ snap = [p \in Proc |-> <<>>]
    /\ cmd = [p \in Proc |-> 0]
    /\ why = [p \in Proc |-> "none"]
    /\ todo = [p \in Proc |-> {}]
    /\ doomed = [p \in Proc |-> {}]
    /\ left = [p \in Proc |-> {}]
    /\ faults = 0

-----------------------------------------------------------------------------
(***************************************************************************)
(* Shared steps.                                                           *)
(***************************************************************************)

Goto(p, label) == pc' = [pc EXCEPT ![p] = label]

\* An operation returns, with or without an error: its deferred unlocks run and
\* its locals are gone.
Return(p) ==
    /\ Goto(p, "idle")
    /\ lock' = [r \in Run |-> IF lock[r] = p THEN NoProc ELSE lock[r]]
    /\ at' = [at EXCEPT ![p] = NoRun]
    /\ snap' = [snap EXCEPT ![p] = <<>>]
    /\ cmd' = [cmd EXCEPT ![p] = 0]
    /\ why' = [why EXCEPT ![p] = "none"]
    /\ todo' = [todo EXCEPT ![p] = {}]
    /\ doomed' = [doomed EXCEPT ![p] = {}]
    /\ left' = [left EXCEPT ![p] = {}]

Fault ==
    /\ faults < MaxFaults
    /\ faults' = faults + 1

\* managedRunDir accepts the row and ensureManagedRunStorage the directories.
RunnableStorage(r) == r \notin Stray /\ dir[r] \in {"intact", "torn"}

\* Mutant: the -1 of a signalled command is not replaced.
ExitCodeUnclamped(state, cause) ==
    IF state = "ok" THEN 0 ELSE IF cause = "none" THEN 255 ELSE 124

\* Mutant: the deadline is asked about before the error of Wait.
ExitCodeTimeoutFirst(state, cause) ==
    CASE cause = "timeout" -> 124
      [] cause = "cancel"  -> 130
      [] OTHER             -> IF state = "ok" THEN 0 ELSE 1


ExitCode(state, cause) ==
    CASE state = "ok"      -> 0
      [] state # "ok" /\ cause = "timeout" -> 124
      [] state # "ok" /\ cause = "cancel"  -> 130
      [] OTHER             -> 1

\* Mutant: a shared lock.
LockNeverTaken(r) == TRUE

\* LOCK_EX | LOCK_NB on the lock file of the run would succeed.
LockFree(r) == lock[r] = NoProc

\* The record Execute appends for its command.
RecordOf(p) ==
    [cmd |-> cmd[p], exit |-> ExitCode(cmdState[cmd[p]], why[p])]

-----------------------------------------------------------------------------
(***************************************************************************)
(* Prepare, from the point where the readiness gate has let it through.    *)
(***************************************************************************)

\* Mutant: MkdirAll instead of Mkdir, so that the directory may exist already.
PrepareBeginAnywhere(p) ==
    /\ pc[p] = "idle"
    /\ \E r \in Run \ recorded :
         /\ born' = born \cup {r}
         /\ dir' = [dir EXCEPT ![r] = "bare"]
         /\ at' = [at EXCEPT ![p] = r]
    /\ Goto(p, "clone")
    /\ UNCHANGED <<table, filed, contract, lock, groups, snap, cmd, why,
                   cleanLocals, faults>>

\* newID and Mkdir of the run directory.
PrepareBegin(p) ==
    /\ pc[p] = "idle"
    /\ \E r \in Run \ born :
         /\ born' = born \cup {r}
         /\ dir' = [dir EXCEPT ![r] = "bare"]
         /\ at' = [at EXCEPT ![p] = r]
    /\ Goto(p, "clone")
    /\ UNCHANGED <<table, filed, contract, lock, groups, snap, cmd, why,
                   cleanLocals, faults>>

\* git clone into workspace/; a failed clone falls through to the deferred RemoveAll.
PrepareClone(p) ==
    /\ pc[p] = "clone"
    /\ \/ /\ dir' = [dir EXCEPT ![at[p]] = "intact"]
          /\ Goto(p, "write")
       \/ /\ Goto(p, "undo")
          /\ UNCHANGED dir
    /\ UNCHANGED <<table, born, filed, contract, lock, groups, execLocals,
                   cleanLocals, faults>>

\* Policy, handoff docs and env of the clone are accepted and WriteNew creates the
\* contract, or one of them refuses the clone.
PrepareWrite(p) ==
    /\ pc[p] = "write"
    /\ \/ /\ filed' = filed \cup {at[p]}
          /\ contract' = [contract EXCEPT ![at[p]] = <<>>]
          /\ Goto(p, "record")
       \/ /\ Goto(p, "undo")
          /\ UNCHANGED <<filed, contract>>
    /\ UNCHANGED <<table, born, dir, lock, groups, execLocals, cleanLocals, faults>>

\* Mutant: runRecorded is set before RecordAgentRun.
PrepareRecordKeepsDirectory(p) ==
    /\ pc[p] = "record"
    /\ \/ /\ recorded' = recorded \cup {at[p]}
          /\ rowLog' = [rowLog EXCEPT ![at[p]] = <<>>]
       \/ UNCHANGED <<recorded, rowLog>>
    /\ Return(p)
    /\ UNCHANGED <<old, born, disk, groups, faults>>

\* RecordAgentRun inserts the row and Prepare is done, or fails.
PrepareRecord(p) ==
    /\ pc[p] = "record"
    /\ \/ /\ recorded' = recorded \cup {at[p]}
          /\ rowLog' = [rowLog EXCEPT ![at[p]] = <<>>]
          /\ Return(p)
       \/ /\ Goto(p, "undo")
          /\ UNCHANGED <<recorded, rowLog, lock, execLocals, cleanLocals>>
    /\ UNCHANGED <<old, born, disk, groups, faults>>

\* The deferred RemoveAll of a run that was not recorded.
PrepareUndo(p) ==
    /\ pc[p] = "undo"
    /\ dir' = [dir EXCEPT ![at[p]] = "absent"]
    /\ filed' = filed \ {at[p]}
    /\ Return(p)
    /\ UNCHANGED <<table, born, contract, groups, faults>>

-----------------------------------------------------------------------------
(***************************************************************************)
(* Execute.                                                                *)
(***************************************************************************)

\* The row is listed and the storage checked before the lock is tried.
ExecuteBegin(p) ==
    /\ pc[p] = "idle"
    /\ issued < MaxCommands
    /\ issued' = issued + 1
    /\ \E r \in recorded :
         /\ RunnableStorage(r)
         /\ at' = [at EXCEPT ![p] = r]
    /\ cmd' = [cmd EXCEPT ![p] = issued + 1]
    /\ Goto(p, "lock")
    /\ UNCHANGED <<table, born, disk, lock, cmdState, cmdRun, snap, why,
                   cleanLocals, faults>>

\* acquireRunLock: the flock is taken at once or the request is refused.
ExecuteLock(p) ==
    /\ pc[p] = "lock"
    /\ \/ /\ LockFree(at[p])
          /\ lock' = [lock EXCEPT ![at[p]] = p]
          /\ Goto(p, "relist")
          /\ UNCHANGED <<execLocals, cleanLocals>>
       \/ /\ ~LockFree(at[p])
          /\ Return(p)
    /\ UNCHANGED <<table, born, disk, groups, faults>>

\* The row is listed again under the lock, and its metadata decoded.
ExecuteRelist(p) ==
    /\ pc[p] = "relist"
    /\ \/ /\ at[p] \in recorded
          /\ snap' = [snap EXCEPT ![p] = rowLog[at[p]]]
          /\ Goto(p, "start")
          /\ UNCHANGED <<lock, at, cmd, why, cleanLocals>>
       \/ /\ at[p] \notin recorded
          /\ Return(p)
    /\ UNCHANGED <<table, born, disk, groups, faults>>

\* The storage is checked again, the output files are created and the command is
\* started in a process group of its own; or one of the three fails.
ExecuteStart(p) ==
    /\ pc[p] = "start"
    /\ \/ /\ RunnableStorage(at[p])
          /\ cmdState' = [cmdState EXCEPT ![cmd[p]] = "running"]
          /\ cmdRun' = [cmdRun EXCEPT ![cmd[p]] = at[p]]
          /\ Goto(p, "run")
          /\ UNCHANGED <<lock, execLocals, cleanLocals>>
       \/ /\ Return(p)
          /\ UNCHANGED <<cmdState, cmdRun>>
    /\ UNCHANGED <<table, born, disk, issued, faults>>

\* Mutant: the deadline does not kill the process group.
ExecuteExpireWithoutKill(p) ==
    /\ pc[p] = "run"
    /\ \E cause \in {"timeout", "cancel"} : why' = [why EXCEPT ![p] = cause]
    /\ Goto(p, "reap")
    /\ UNCHANGED <<table, born, disk, lock, groups, at, snap, cmd, cleanLocals, faults>>

\* The select takes runCtx.Done, at the deadline or on SIGINT/SIGTERM, and kills
\* the group.  A command that is already over stays what it is.
ExecuteExpire(p) ==
    /\ pc[p] = "run"
    /\ \E cause \in {"timeout", "cancel"} : why' = [why EXCEPT ![p] = cause]
    /\ cmdState' = [cmdState EXCEPT ![cmd[p]] = IF @ = "running" THEN "fail" ELSE @]
    /\ Goto(p, "reap")
    /\ UNCHANGED <<table, born, disk, lock, issued, cmdRun, at, snap, cmd,
                   cleanLocals, faults>>

\* Mutant: the lock covers the command, not its recording.
ExecuteReapUnlocks(p) ==
    /\ pc[p] \in SupervisePC
    /\ cmdState[cmd[p]] # "running"
    /\ RunnableStorage(at[p])
    /\ Goto(p, "file")
    /\ lock' = [lock EXCEPT ![at[p]] = NoProc]
    /\ UNCHANGED <<table, born, disk, groups, execLocals, cleanLocals, faults>>

\* Wait has returned, and the storage is checked a third time.
ExecuteReap(p) ==
    /\ pc[p] \in SupervisePC
    /\ cmdState[cmd[p]] # "running"
    /\ \/ /\ RunnableStorage(at[p])
          /\ Goto(p, "file")
          /\ UNCHANGED <<lock, execLocals, cleanLocals>>
       \/ /\ ~RunnableStorage(at[p])
          /\ Return(p)
    /\ UNCHANGED <<table, born, disk, groups, faults>>

\* Mutant: the record is appended to what the file says.
ExecuteFileFromFile(p) ==
    /\ pc[p] = "file"
    /\ filed' = filed \cup {at[p]}
    /\ contract' = [contract EXCEPT ![at[p]] = Append(@, RecordOf(p))]
    /\ Goto(p, "row")
    /\ UNCHANGED <<table, born, dir, lock, groups, execLocals, cleanLocals, faults>>

\* agentcontract.Write replaces codemesh-run.json (temporary file and rename) by
\* the decoded metadata and the new record.
ExecuteFile(p) ==
    /\ pc[p] = "file"
    /\ \/ /\ filed' = filed \cup {at[p]}
          /\ contract' = [contract EXCEPT ![at[p]] = Append(snap[p], RecordOf(p))]
          /\ Goto(p, "row")
          /\ UNCHANGED <<lock, execLocals, cleanLocals, faults>>
       \/ /\ Fault
          /\ Return(p)
          /\ UNCHANGED <<filed, contract>>
    /\ UNCHANGED <<table, born, dir, groups>>

\* UpdateAgentRunMetadata stores the same metadata in the row, finds no row, or
\* fails (5 s timeout, busy or full database).
ExecuteRow(p) ==
    /\ pc[p] = "row"
    /\ \/ /\ rowLog' = IF at[p] \in recorded
                        THEN [rowLog EXCEPT ![at[p]] = Append(snap[p], RecordOf(p))]
                        ELSE rowLog
          /\ UNCHANGED faults
       \/ /\ Fault
          /\ UNCHANGED rowLog
    /\ Return(p)
    /\ UNCHANGED <<recorded, old, born, disk, groups>>

-----------------------------------------------------------------------------
(***************************************************************************)
(* Clean.                                                                  *)
(***************************************************************************)

\* ListAgentRuns, once; the rows that are not younger than the cutoff are candidates.
CleanBegin(p) ==
    /\ pc[p] = "idle"
    /\ todo' = [todo EXCEPT ![p] = recorded \cap old]
    /\ Goto(p, "scan")
    /\ UNCHANGED <<table, born, disk, lock, groups, execLocals, doomed, left, faults>>

\* Mutant: a locked run is deleted with the others.
CleanScanIgnoringLocks(p) ==
    /\ pc[p] = "scan"
    /\ \E r \in todo[p] \ Stray :
         /\ todo' = [todo EXCEPT ![p] = @ \ {r}]
         /\ doomed' = [doomed EXCEPT ![p] = @ \cup {r}]
         /\ lock' = IF LockFree(r) THEN [lock EXCEPT ![r] = p] ELSE lock
    /\ UNCHANGED <<table, born, disk, groups, pc, execLocals, left, faults>>

\* Mutant: managedRunDir is not asked.
CleanScanAnywhere(p) ==
    /\ pc[p] = "scan"
    /\ \E r \in todo[p] :
         /\ LockFree(r)
         /\ todo' = [todo EXCEPT ![p] = @ \ {r}]
         /\ doomed' = [doomed EXCEPT ![p] = @ \cup {r}]
         /\ lock' = [lock EXCEPT ![r] = p]
    /\ UNCHANGED <<table, born, disk, groups, pc, execLocals, left, faults>>

\* Mutant: a missing directory is not a deletion.
CleanScanSkipsMissing(p) ==
    /\ pc[p] = "scan"
    /\ \E r \in todo[p] \ Stray :
         /\ todo' = [todo EXCEPT ![p] = @ \ {r}]
         /\ IF dir[r] # "absent" /\ LockFree(r)
            THEN /\ lock' = [lock EXCEPT ![r] = p]
                 /\ doomed' = [doomed EXCEPT ![p] = @ \cup {r}]
            ELSE UNCHANGED <<lock, doomed>>
    /\ UNCHANGED <<table, born, disk, groups, pc, execLocals, left, faults>>

\* A candidate whose directory is missing is a deletion without a lock; one whose
\* lock is free is locked; one that is locked is kept.
CleanScan(p) ==
    /\ pc[p] = "scan"
    /\ \E r \in todo[p] \ Stray :
         /\ todo' = [todo EXCEPT ![p] = @ \ {r}]
         /\ \/ /\ dir[r] = "absent"
               /\ doomed' = [doomed EXCEPT ![p] = @ \cup {r}]
               /\ UNCHANGED lock
            \/ /\ dir[r] # "absent"
               /\ LockFree(r)
               /\ lock' = [lock EXCEPT ![r] = p]
               /\ doomed' = [doomed EXCEPT ![p] = @ \cup {r}]
            \/ /\ dir[r] # "absent"
               /\ ~LockFree(r)
               /\ UNCHANGED <<lock, doomed>>
    /\ UNCHANGED <<table, born, disk, groups, pc, execLocals, left, faults>>

\* managedRunDir refuses a candidate whose workspace is elsewhere: nothing is deleted.
CleanRefuse(p) ==
    /\ pc[p] = "scan"
    /\ todo[p] \cap Stray # {}
    /\ Return(p)
    /\ UNCHANGED <<table, born, disk, groups, faults>>

\* Every candidate has been looked at.
CleanScanned(p) ==
    /\ pc[p] = "scan"
    /\ todo[p] = {}
    /\ left' = [left EXCEPT ![p] = doomed[p]]
    /\ Goto(p, "remove")
    /\ UNCHANGED <<table, born, disk, lock, groups, execLocals, todo, doomed, faults>>

\* RemoveAll has removed part of the directory: some of the workspace's content, or
\* all of workspace/.
CleanTear(p) ==
    /\ pc[p] = "remove"
    /\ \E r \in left[p] :
         /\ dir[r] = "intact"
         /\ \/ /\ dir' = [dir EXCEPT ![r] = "torn"]
               /\ filed' \in {filed, filed \ {r}}
            \/ /\ dir' = [dir EXCEPT ![r] = "bare"]
               /\ filed' = filed \ {r}
    /\ UNCHANGED <<table, born, contract, lock, groups, pc, execLocals, cleanLocals,
                   faults>>

\* removeManagedRunDir of one deletion is done, or there was nothing to remove.
CleanRemove(p) ==
    /\ pc[p] = "remove"
    /\ \E r \in left[p] :
         /\ dir[r] # "unsafe"
         /\ dir' = [dir EXCEPT ![r] = "absent"]
         /\ filed' = filed \ {r}
         /\ left' = [left EXCEPT ![p] = @ \ {r}]
    /\ UNCHANGED <<table, born, contract, lock, groups, pc, execLocals, todo, doomed,
                   faults>>

\* removeManagedRunDir refuses a path that is a symlink or not a directory; earlier
\* deletions are gone from disk, and no row is deleted.
CleanUnsafe(p) ==
    /\ pc[p] = "remove"
    /\ \E r \in left[p] : dir[r] = "unsafe"
    /\ Return(p)
    /\ UNCHANGED <<table, born, disk, groups, faults>>

CleanRemoved(p) ==
    /\ pc[p] = "remove"
    /\ left[p] = {}
    /\ Goto(p, "purge")
    /\ UNCHANGED <<table, born, disk, lock, groups, execLocals, cleanLocals, faults>>

\* Mutant: rows are deleted by age, not by id.
CleanPurgeByAge(p) ==
    /\ pc[p] = "purge"
    /\ recorded' = recorded \ old
    /\ Return(p)
    /\ UNCHANGED <<old, rowLog, born, disk, groups, faults>>

\* DeleteAgentRuns deletes the rows of all deletions in one transaction.
CleanPurge(p) ==
    /\ pc[p] = "purge"
    /\ recorded' = recorded \ doomed[p]
    /\ Return(p)
    /\ UNCHANGED <<old, rowLog, born, disk, groups, faults>>

\* A lock file that cannot be opened, a RemoveAll or a transaction that fails.
CleanFails(p) ==
    /\ pc[p] \in CleanPC
    /\ Fault
    /\ Return(p)
    /\ UNCHANGED <<table, born, disk, groups>>

-----------------------------------------------------------------------------
(***************************************************************************)
(* The surroundings.                                                       *)
(***************************************************************************)

\* A command ends by itself, supervised or not.
CommandExits(c) ==
    /\ cmdState[c] = "running"
    /\ \E end \in {"ok", "fail"} : cmdState' = [cmdState EXCEPT ![c] = end]
    /\ UNCHANGED <<table, born, disk, lock, issued, cmdRun, pc, execLocals,
                   cleanLocals, faults>>

\* Time passes: created_at of a row is no longer after the cutoff.
Age(r) ==
    /\ r \in recorded \ old
    /\ old' = old \cup {r}
    /\ UNCHANGED <<recorded, rowLog, born, disk, lock, groups, pc, execLocals,
                   cleanLocals, faults>>

\* The user or a command replaces the directory of a run, by a symlink or a file, while
\* no Clean is about to remove it; or the user removes it while nobody works in it.
Replace(r) ==
    /\ r \in recorded
    /\ \A p \in Proc : r \notin doomed[p]
    /\ dir[r] \in {"intact", "torn", "bare"}
    /\ Fault
    /\ \/ dir' = [dir EXCEPT ![r] = "unsafe"]
       \/ lock[r] = NoProc /\ dir' = [dir EXCEPT ![r] = "absent"]
    /\ filed' = filed \ {r}
    /\ UNCHANGED <<table, born, contract, lock, groups, pc, execLocals, cleanLocals>>

\* A codemesh process is killed.
Crash(p) ==
    /\ pc[p] # "idle"
    /\ Fault
    /\ Return(p)
    /\ UNCHANGED <<table, born, disk, groups>>

Prepare(p) ==
    \/ PrepareBegin(p) \/ PrepareClone(p) \/ PrepareWrite(p)
    \/ PrepareRecord(p) \/ PrepareUndo(p)

Execute(p) ==
    \/ ExecuteBegin(p) \/ ExecuteLock(p) \/ ExecuteRelist(p) \/ ExecuteStart(p)
    \/ ExecuteExpire(p) \/ ExecuteReap(p) \/ ExecuteFile(p) \/ ExecuteRow(p)

Clean(p) ==
    \/ CleanBegin(p) \/ CleanScan(p) \/ CleanRefuse(p) \/ CleanScanned(p)
    \/ CleanTear(p) \/ CleanRemove(p) \/ CleanUnsafe(p) \/ CleanRemoved(p)
    \/ CleanPurge(p) \/ CleanFails(p)

Next ==
    \/ \E p \in Proc : Prepare(p) \/ Execute(p) \/ Clean(p) \/ Crash(p)
    \/ \E c \in Cmd : CommandExits(c)
    \/ \E r \in Run : Age(r) \/ Replace(r)

Spec == Init /\ [][Next]_vars
-----------------------------------------------------------------------------
(***************************************************************************)
(* Properties.                                                             *)
(***************************************************************************)

\* A codemesh process waits for the command of request c.
Supervised(c) == \E p \in Proc : pc[p] \in SupervisePC /\ cmd[p] = c

\* At most one supervised command runs in a run, whatever the order in which
\* processes list, lock and list again (Execute, errRunLocked).
OneSupervisedCommand ==
    \A c, d \in Cmd :
        (Supervised(c) /\ Supervised(d) /\ cmdRun[c] = cmdRun[d]) => c = d

\* No step of Prepare or Clean touches the directory of a run while a supervised
\* command works in it; only the user or a command may replace it.
WorkspaceOutlivesCommand ==
    [][\A c \in Cmd :
         Supervised(c) => dir'[cmdRun[c]] \in {dir[cmdRun[c]], "unsafe"}]_vars

\* The audit log in a row never loses, reorders or rewrites a record: a step keeps
\* the log of a row that stays or adds one record (Execute under its lock).
LedgerOnlyGrows ==
    [][\A r \in recorded \cap recorded' :
         \/ rowLog'[r] = rowLog[r]
         \/ \E rec \in Record : rowLog'[r] = Append(rowLog[r], rec)]_vars

\* codemesh-run.json is written before the row and is never more than one record
\* ahead of it, and never behind or different, whatever writes failed.
ContractAheadByOne ==
    \A r \in recorded \cap filed :
        \/ contract[r] = rowLog[r]
        \/ \E rec \in Record : contract[r] = Append(rowLog[r], rec)

\* A record of a row is the record of one command that was run in that run and is
\* over; it says exit 0 exactly when that command succeeded, also when the deadline
\* and the end of the command race.
RecordsAuthentic ==
    \A r \in recorded : \A i \in 1..Len(rowLog[r]) :
        LET rec == rowLog[r][i]
        IN  /\ cmdRun[rec.cmd] = r
            /\ cmdState[rec.cmd] \in {"ok", "fail"}
            /\ rec.exit = 0 <=> cmdState[rec.cmd] = "ok"
            /\ \A j \in 1..Len(rowLog[r]) : rowLog[r][j].cmd = rec.cmd => j = i

\* Nobody else knows the run a Prepare is working on: it is in no row, no other
\* process works in it or is going to delete it, and its workspace is untouched.
PrepareOwnsItsRun ==
    \A p \in Proc : pc[p] \in PreparePC =>
        /\ at[p] \notin recorded
        /\ \A q \in Proc \ {p} : at[q] # at[p] /\ at[p] \notin doomed[q]
        /\ pc[p] = "clone" => dir[at[p]] = "bare"
        /\ pc[p] \in {"write", "record"} => dir[at[p]] = "intact"
        /\ pc[p] = "record" => at[p] \in filed

\* Without a fault, table and disk agree outside of the operations: a row has its
\* whole workspace and contract unless a Clean is about to delete it, and a run
\* directory has its row unless a Prepare is about to insert it or to remove it.
DiskMatchesTable ==
    faults = 0 =>
        \A r \in Run \ Stray :
            /\ \/ r \in recorded => dir[r] = "intact" /\ r \in filed
               \/ \E p \in Proc : pc[p] \in {"remove", "purge"} /\ r \in doomed[p]
            /\ \/ dir[r] # "absent" => r \in recorded
               \/ \E p \in Proc : pc[p] \in PreparePC /\ at[p] = r

\* One row whose workspace is elsewhere stops every Clean from the time it is old: each
\* lists it, keeps it in view whatever else it looks at, and gives up with no row and no
\* directory removed, neither its own nor another run's.
StrayStopsClean ==
    [][/\ Stray \subseteq recorded'
       /\ \A p \in Proc :
            /\ pc[p] = "idle" /\ pc'[p] = "scan" => Stray \cap old \subseteq todo'[p]
            /\ Stray \cap todo[p] # {} =>
                  /\ pc'[p] = "idle" \/ Stray \cap todo'[p] = Stray \cap todo[p]
                  /\ Clean(p) => recorded' = recorded /\ dir' = dir]_vars

\* Progress of an operation that has begun, by whatever process.
Advance(p) ==
    \/ PrepareClone(p) \/ PrepareWrite(p) \/ PrepareRecord(p) \/ PrepareUndo(p)
    \/ ExecuteLock(p) \/ ExecuteRelist(p) \/ ExecuteStart(p) \/ ExecuteExpire(p)
    \/ ExecuteReap(p) \/ ExecuteFile(p) \/ ExecuteRow(p)
    \/ CleanScan(p) \/ CleanRefuse(p) \/ CleanScanned(p) \/ CleanTear(p)
    \/ CleanRemove(p) \/ CleanUnsafe(p) \/ CleanRemoved(p) \/ CleanPurge(p)

\* Processes are scheduled, a command has a deadline (the default is ten minutes),
\* and the user runs clean again and again.  Commands need not end by themselves.
Fairness ==
    /\ \A p \in Proc : WF_vars(Advance(p))
    /\ WF_vars(\E p \in Proc : CleanBegin(p))

FairSpec == Spec /\ Fairness

\* Every operation returns and with it every lock is released, also when the
\* command it supervises never ends by itself.
OperationsReturn == \A p \in Proc : (pc[p] # "idle") ~> (pc[p] = "idle")

\* The row of an old run disappears in the end, also when an earlier Clean was
\* killed or failed after it had removed all or part of the directory, and although
\* a Clean skips locked runs; unless some directory is unsafe.
CleanupConverges ==
    \A r \in Run :
        (r \in recorded \cap old)
            ~> (r \notin recorded \/ \E u \in Run : dir[u] = "unsafe")

\* The command between its start and the end of the Execute that records it.
ActivePC == {"run", "reap", "file", "row"}

\* The abstract ledger: a run is kept while it has a row, and its command is active
\* while the process that holds its lock is in ActivePC.
Ledger == INSTANCE RunLedger WITH
    status <- [r \in Run |->
        IF r \in recorded THEN "kept"
        ELSE IF r \notin born \/ \E p \in Proc : pc[p] \in PreparePC /\ at[p] = r
             THEN "unborn" ELSE "gone"],
    log <- rowLog,
    active <- [r \in Run |->
        IF lock[r] \in Proc /\ pc[lock[r]] \in ActivePC THEN cmd[lock[r]] ELSE 0]

\* The three operations implement the ledger, with any number of processes, kills
\* and failed writes.
ImplementsLedger == Ledger!LedgerSpec

(***************************************************************************)
(* What the documentation says of the program, and the program does not do.*)
(***************************************************************************)

\* docs/commands/agent-run.md:24: "Only one command may run against a given run ID
\* at a time".  A command outlives the codemesh process that started it, and the
\* lock does not.
OneCommandPerRun ==
    \A c, d \in Cmd :
        (cmdState[c] = "running" /\ cmdState[d] = "running" /\ cmdRun[c] = cmdRun[d])
            => c = d
=============================================================================
