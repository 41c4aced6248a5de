--------------------------- MODULE AgentRunsLedger ---------------------------
(***************************************************************************)
(* The audit log of agent runs, the contract file beside it and what Clean *)
(* leaves of either, for any sets of runs and processes and any bounds;    *)
(* and that AgentRuns implements RunLedger.                                *)
(***************************************************************************)
EXTENDS AgentRunsProofs

(***************************************************************************)
(* The invariant, on top of IInv.                                          *)
(***************************************************************************)

\* Who holds a lock is in a Clean, or in an Execute of that very run.
Locks ==
    \A p \in Proc, r \in Run :
        lock[r] = p => pc[p] \in CleanPC \/ (pc[p] \in LockedPC /\ r = at[p])

HeldPC == {"start"} \cup ActivePC

\* An Execute that has listed its run again under the lock: what it decoded is what
\* the row says, the row and the directory stay, and the command is where pc says.
Holding(p) ==
    /\ pc[p] \in HeldPC => snap[p] = rowLog[at[p]]
    /\ pc[p] = "start" => at[p] \in recorded \/ dir[at[p]] = "absent"
    /\ pc[p] \in ActivePC => at[p] \in recorded /\ dir[at[p]] # "absent"
    /\ pc[p] \in SupervisePC => cmdState[cmd[p]] \in {"running", "ok", "fail"}
    /\ pc[p] \in {"file", "row"} => cmdState[cmd[p]] \in {"ok", "fail"}
    /\ pc[p] = "row" => contract[at[p]] = Append(snap[p], RecordOf(p))

\* A Clean deletes no stray run, and what it is done with is gone from the disk.
Deleting(p) ==
    /\ doomed[p] \cap Stray = {}
    /\ pc[p] \in {"remove", "purge"} => \A r \in doomed[p] \ left[p] : dir[r] = "absent"
    /\ pc[p] = "purge" => left[p] = {}

\* Candidates are there to be looked at.
Looking(p) == todo[p] # {} => pc[p] = "scan"

\* RecordsAuthentic of one run, recorded or not, with what makes it inductive: a
\* request that has a record is nobody's any more.
Authentic(r) ==
    \A i \in 1..Len(rowLog[r]) :
        LET rec == rowLog[r][i]
        IN  /\ cmdRun[rec.cmd] = r
            /\ cmdState[rec.cmd] \in {"ok", "fail"}
            /\ rec.exit = 0 <=> cmdState[rec.cmd] = "ok"
            /\ \A j \in 1..Len(rowLog[r]) : rowLog[r][j].cmd = rec.cmd => j = i
            /\ rec.cmd <= issued
            /\ \A p \in Proc : cmd[p] # rec.cmd

\* ContractAheadByOne of one run.
Mirrored(r) ==
    r \in recorded \cap filed =>
        \/ contract[r] = rowLog[r]
        \/ \E rec \in Record : contract[r] = Append(rowLog[r], rec)

\* StrayStopsClean, for the rows there are.
StrayKept == Stray \subseteq recorded

\* Only a fault makes a directory unsafe.
Unharmed == faults = 0 => \A r \in Run : dir[r] # "unsafe"

Audit ==
    /\ Locks
    /\ \A p \in Proc : Holding(p) /\ Deleting(p) /\ Looking(p)
    /\ \A r \in Run : Authentic(r) /\ Mirrored(r)
    /\ StrayKept
    /\ Unharmed
    /\ DiskMatchesTable

LInv == IInv /\ Audit

-----------------------------------------------------------------------------
(***************************************************************************)
(* A process that does not move.                                           *)
(***************************************************************************)

Step(p) == Prepare(p) \/ Execute(p) \/ Clean(p) \/ Crash(p)

Unmoved(o) ==
    /\ pc'[o] = pc[o] /\ at'[o] = at[o] /\ snap'[o] = snap[o] /\ cmd'[o] = cmd[o]
    /\ why'[o] = why[o] /\ todo'[o] = todo[o] /\ doomed'[o] = doomed[o] /\ left'[o] = left[o]

\* A step of one process moves no other, and gives no other a lock.
LEMMA OthersStand ==
    ASSUME TypeOK, NEW p \in Proc, Step(p), NEW o \in Proc, o # p
    PROVE  Unmoved(o) /\ \A r \in Run : lock'[r] = o => lock[r] = o
<1> USE DEF execLocals, cleanLocals
<1>1. CASE Return(p)
  BY <1>1, ReturnEffect, NoProcAssumption DEF Unmoved
<1>2. ASSUME NEW label, Goto(p, label), UNCHANGED <<lock, execLocals, cleanLocals>>
      PROVE  Unmoved(o) /\ \A r \in Run : lock'[r] = o => lock[r] = o
  BY <1>2 DEF Goto, Unmoved, TypeOK
<1>3. CASE PrepareBegin(p)
  BY <1>3 DEF PrepareBegin, Goto, Unmoved, TypeOK
<1>4. CASE PrepareClone(p) \/ PrepareWrite(p) \/ PrepareRecord(p) \/ PrepareUndo(p)
  BY <1>1, <1>2, <1>4 DEF PrepareClone, PrepareWrite, PrepareRecord, PrepareUndo
<1>5. CASE ExecuteBegin(p)
  BY <1>5 DEF ExecuteBegin, Goto, Unmoved, TypeOK
<1>6. CASE ExecuteLock(p)
  <2>1. CASE /\ lock' = [lock EXCEPT ![at[p]] = p]
             /\ Goto(p, "relist")
             /\ UNCHANGED <<execLocals, cleanLocals>>
    BY <2>1 DEF Goto, Unmoved, TypeOK
  <2> QED
    BY <1>1, <1>6, <2>1 DEF ExecuteLock
<1>7. CASE ExecuteRelist(p)
  <2>1. CASE /\ snap' = [snap EXCEPT ![p] = rowLog[at[p]]]
             /\ Goto(p, "start")
             /\ UNCHANGED <<lock, at, cmd, why, cleanLocals>>
    BY <2>1 DEF Goto, Unmoved, TypeOK
  <2> QED
    BY <1>1, <1>7, <2>1 DEF ExecuteRelist
<1>8. CASE ExecuteStart(p) \/ ExecuteReap(p) \/ ExecuteFile(p) \/ ExecuteRow(p)
  BY <1>1, <1>2, <1>8 DEF ExecuteStart, ExecuteReap, ExecuteFile, ExecuteRow
<1>9. CASE ExecuteExpire(p)
  BY <1>9 DEF ExecuteExpire, Goto, Unmoved, TypeOK
<1>10. CASE CleanBegin(p)
  BY <1>10 DEF CleanBegin, Goto, Unmoved, TypeOK
<1>11. CASE CleanScan(p)
  <2>1. PICK r \in todo[p] \ Stray :
          /\ lock' = [lock EXCEPT ![r] = p] \/ UNCHANGED lock
          /\ doomed' = [doomed EXCEPT ![p] = @ \cup {r}] \/ UNCHANGED doomed
    BY <1>11 DEF CleanScan
  <2> QED
    BY <1>11, <2>1 DEF CleanScan, Unmoved, TypeOK
<1>12. CASE CleanScanned(p)
  BY <1>12 DEF CleanScanned, Goto, Unmoved, TypeOK
<1>13. CASE CleanTear(p)
  BY <1>13 DEF CleanTear, Unmoved
<1>14. CASE CleanRemove(p)
  BY <1>14 DEF CleanRemove, Unmoved, TypeOK
<1>15. CASE CleanRemoved(p)
  BY <1>15 DEF CleanRemoved, Goto, Unmoved, TypeOK
<1>16. CASE CleanRefuse(p) \/ CleanUnsafe(p) \/ CleanPurge(p) \/ CleanFails(p) \/ Crash(p)
  BY <1>1, <1>16 DEF CleanRefuse, CleanUnsafe, CleanPurge, CleanFails, Crash
<1> QED
  BY <1>3, <1>4, <1>5, <1>6, <1>7, <1>8, <1>9, <1>10, <1>11, <1>12, <1>13, <1>14, <1>15, <1>16
     DEF Step, Prepare, Execute, Clean

\* What the Execute of o relies on: the row and the file of its run stay, a directory
\* does not come or go, and a command that is over stays over.
Untouched(o) ==
    /\ rowLog'[at[o]] = rowLog[at[o]] /\ contract'[at[o]] = contract[at[o]]
    /\ dir'[at[o]] = "absent" <=> dir[at[o]] = "absent"
    /\ at[o] \in recorded => at[o] \in recorded' \/ dir[at[o]] = "absent"
    /\ \/ cmdState'[cmd[o]] = cmdState[cmd[o]]
       \/ cmdState[cmd[o]] = "running" /\ cmdState'[cmd[o]] \in {"ok", "fail"}

LEMMA HoldingStays ==
    ASSUME NEW o \in Proc, Unmoved(o), pc[o] \in HeldPC => Untouched(o), Holding(o)
    PROVE  Holding(o)'
<1>1. CASE pc[o] \in HeldPC
  <2>1. Untouched(o)
    BY <1>1
  <2>2. cmdState[cmd[o]] \in {"ok", "fail"} => RecordOf(o)' = RecordOf(o)
    BY <2>1 DEF Untouched, Unmoved, RecordOf, ExitCode
  <2> QED
    BY <1>1, <2>1, <2>2 DEF Untouched, Unmoved, Holding, HeldPC, ActivePC, SupervisePC
<1>2. CASE pc[o] \notin HeldPC
  BY <1>2 DEF Unmoved, Holding, HeldPC, ActivePC, SupervisePC
<1> QED
  BY <1>1, <1>2

\* Executes and Cleans keep out of each other's way by the lock, a Prepare by its id.
LEMMA Apart ==
    ASSUME IInv, NEW p \in Proc, Step(p), NEW o \in Proc, o # p, pc[o] \in HeldPC
    PROVE  Untouched(o)
<1> USE DEF IInv, Guards, table, disk, groups, execLocals, cleanLocals
<1> DEFINE r == at[o]
<1>1. /\ r \in Run /\ r \in born /\ lock[r] = o /\ cmd[o] \in Cmd
      /\ pc[p] \in LockedPC => at[p] # r /\ cmd[p] # cmd[o]
      /\ pc[p] \in PreparePC => at[p] # r
  <2>1. r \in Run /\ cmd[o] \in Cmd /\ lock[r] = o
    BY DEF HeldPC, ActivePC, LockedPC, Working, Locking
  <2>2. r \in born
    BY <2>1 DEF Known
  <2>3. pc[p] \in LockedPC => at[p] # r /\ cmd[p] # cmd[o]
    BY <2>1, BoundsAssumption DEF Locking, Requests, Cmd
  <2>4. pc[p] \in PreparePC => at[p] # r
    BY DEF Ownership, Owned
  <2> QED
    BY <2>1, <2>2, <2>3, <2>4
<1>2. CASE Prepare(p)
  <2>1. CASE PrepareBegin(p)
    BY <1>1, <2>1 DEF PrepareBegin, Untouched, TypeOK
  <2>2. CASE PrepareClone(p)
    BY <1>1, <2>2 DEF PrepareClone, PreparePC, Untouched, TypeOK
  <2>3. CASE PrepareWrite(p)
    BY <1>1, <2>3 DEF PrepareWrite, PreparePC, Untouched, TypeOK
  <2>4. CASE PrepareRecord(p)
    BY <1>1, <2>4 DEF PrepareRecord, PreparePC, Untouched, TypeOK
  <2>5. CASE PrepareUndo(p)
    BY <1>1, <2>5 DEF PrepareUndo, PreparePC, Untouched, TypeOK
  <2> QED
    BY <1>2, <2>1, <2>2, <2>3, <2>4, <2>5 DEF Prepare
<1>3. CASE Execute(p)
  <2>1. CASE ExecuteBegin(p) \/ ExecuteLock(p) \/ ExecuteRelist(p) \/ ExecuteReap(p)
    BY <2>1 DEF ExecuteBegin, ExecuteLock, ExecuteRelist, ExecuteReap, Untouched
  <2>2. CASE ExecuteStart(p)
    BY <1>1, <2>2 DEF ExecuteStart, LockedPC, Untouched, TypeOK
  <2>3. CASE ExecuteExpire(p)
    BY <1>1, <2>3 DEF ExecuteExpire, LockedPC, Untouched, TypeOK
  <2>4. CASE ExecuteFile(p)
    BY <1>1, <2>4 DEF ExecuteFile, LockedPC, Untouched, TypeOK
  <2>5. CASE ExecuteRow(p)
    BY <1>1, <2>5 DEF ExecuteRow, LockedPC, Untouched, TypeOK
  <2> QED
    BY <1>3, <2>1, <2>2, <2>3, <2>4, <2>5 DEF Execute
<1>4. CASE Clean(p)
  <2>1. \A s \in doomed[p] : s = r => dir[s] = "absent"
    BY <1>1 DEF Deletions
  <2>2. left[p] \subseteq doomed[p] /\ left[p] \subseteq Run
    BY DEF Known, TypeOK
  <2>3. CASE CleanTear(p) \/ CleanRemove(p)
    BY <1>1, <2>1, <2>2, <2>3 DEF CleanTear, CleanRemove, Untouched, TypeOK
  <2>4. CASE CleanPurge(p)
    BY <1>1, <2>1, <2>4 DEF CleanPurge, Untouched
  <2>5. CASE UNCHANGED <<table, disk, groups>>
    BY <2>5 DEF Untouched
  <2>6. CASE CleanBegin(p) \/ CleanScan(p) \/ CleanRefuse(p) \/ CleanScanned(p)
             \/ CleanUnsafe(p) \/ CleanRemoved(p) \/ CleanFails(p)
    BY <2>5, <2>6 DEF CleanBegin, CleanScan, CleanRefuse, CleanScanned, CleanUnsafe,
                      CleanRemoved, CleanFails
  <2> QED
    BY <1>4, <2>3, <2>4, <2>6 DEF Clean
<1>5. CASE Crash(p)
  BY <1>5 DEF Crash, Untouched
<1> QED
  BY <1>2, <1>3, <1>4, <1>5 DEF Step

-----------------------------------------------------------------------------
(***************************************************************************)
(* Every step keeps the invariant, conjunct by conjunct.                   *)
(***************************************************************************)

Surroundings ==
    \/ \E c \in Cmd : CommandExits(c)
    \/ \E r \in Run : Age(r) \/ Replace(r)
    \/ UNCHANGED vars

LEMMA Steps ==
    [Next]_vars => (\E p \in Proc : Step(p)) \/ Surroundings
BY DEF Next, Step, Surroundings

\* The surroundings move no process, take no lock, write no log and insert or delete
\* no row.
LEMMA AroundThem ==
    ASSUME TypeOK, Surroundings
    PROVE  /\ UNCHANGED <<pc, at, snap, cmd, why, todo, doomed, left, lock, recorded, rowLog,
                          contract, cmdRun, issued, born>>
           /\ \A c \in Cmd : \/ cmdState'[c] = cmdState[c]
                             \/ cmdState[c] = "running" /\ cmdState'[c] \in {"ok", "fail"}
           /\ \A r \in Run : dir[r] = "absent" => dir'[r] = "absent"
           /\ \A r \in Run : lock[r] # NoProc /\ dir'[r] = "absent" => dir[r] = "absent"
           /\ filed' \subseteq filed
<1> USE DEF table, disk, groups, execLocals, cleanLocals
<1>1. CASE \E c \in Cmd : CommandExits(c)
  BY <1>1 DEF CommandExits, TypeOK
<1>2. CASE \E r \in Run : Age(r)
  BY <1>2 DEF Age
<1>3. CASE \E r \in Run : Replace(r)
  BY <1>3 DEF Replace, TypeOK
<1>4. CASE UNCHANGED vars
  BY <1>4 DEF vars
<1> QED
  BY <1>1, <1>2, <1>3, <1>4 DEF Surroundings

LEMMA LocksKept ==
    ASSUME LInv, [Next]_vars
    PROVE  Locks'
<1> USE DEF LInv, IInv, Audit, execLocals, cleanLocals
<1>1. CASE Surroundings
  BY <1>1, AroundThem DEF Locks
<1>2. ASSUME NEW p \in Proc, Step(p)
      PROVE  Locks'
  <2>1. ASSUME NEW r \in Run, lock'[r] = p
        PROVE  pc'[p] \in CleanPC \/ (pc'[p] \in LockedPC /\ r = at'[p])
    <3> USE <2>1
    <3>1. ~Return(p)
      BY ReturnEffect, NoProcAssumption
    <3>2. CASE PrepareBegin(p) \/ CleanBegin(p) \/ ExecuteBegin(p)
      BY <3>2 DEF PrepareBegin, CleanBegin, ExecuteBegin, Locks, CleanPC, LockedPC
    <3>3. CASE PrepareClone(p) \/ PrepareWrite(p) \/ PrepareRecord(p) \/ PrepareUndo(p)
      BY <3>1, <3>3 DEF PrepareClone, PrepareWrite, PrepareRecord, PrepareUndo, Locks,
                        CleanPC, LockedPC
    <3>4. CASE ExecuteLock(p)
      <4>1. /\ pc[p] = "lock" /\ pc'[p] = "relist" /\ at' = at
            /\ \A s \in Run : s # at[p] => lock'[s] = lock[s]
        BY <3>1, <3>4 DEF ExecuteLock, Goto, TypeOK
      <4> QED
        BY <4>1 DEF Locks, CleanPC, LockedPC
    <3>5. ASSUME NEW label \in LockedPC, Goto(p, label), pc[p] \in LockedPC,
                 UNCHANGED <<lock, at>>
          PROVE  pc'[p] \in LockedPC /\ r = at'[p]
      BY <3>5 DEF Goto, TypeOK, Locks, CleanPC, LockedPC
    <3>6. CASE ExecuteRelist(p) \/ ExecuteStart(p) \/ ExecuteExpire(p) \/ ExecuteReap(p)
               \/ ExecuteFile(p) \/ ExecuteRow(p)
      BY <3>1, <3>5, <3>6
         DEF ExecuteRelist, ExecuteStart, ExecuteExpire, ExecuteReap, ExecuteFile,
             ExecuteRow, LockedPC, SupervisePC
    <3>7. CASE CleanScan(p) \/ CleanScanned(p) \/ CleanTear(p) \/ CleanRemove(p)
               \/ CleanRemoved(p)
      BY <3>7 DEF CleanScan, CleanScanned, CleanTear, CleanRemove, CleanRemoved, Goto,
                  TypeOK, CleanPC
    <3>8. CASE CleanRefuse(p) \/ CleanUnsafe(p) \/ CleanPurge(p) \/ CleanFails(p) \/ Crash(p)
      BY <3>1, <3>8 DEF CleanRefuse, CleanUnsafe, CleanPurge, CleanFails, Crash
    <3> QED
      BY <1>2, <3>2, <3>3, <3>4, <3>6, <3>7, <3>8 DEF Step, Prepare, Execute, Clean
  <2>2. ASSUME NEW o \in Proc, o # p, NEW r \in Run, lock'[r] = o
        PROVE  pc'[o] \in CleanPC \/ (pc'[o] \in LockedPC /\ r = at'[o])
    BY <1>2, <2>2, OthersStand DEF Locks, Unmoved
  <2> QED
    BY <2>1, <2>2 DEF Locks
<1> QED
  BY <1>1, <1>2, Steps

LEMMA HoldingKept ==
    ASSUME LInv, [Next]_vars, NEW o \in Proc
    PROVE  Holding(o)'
<1> USE DEF LInv, IInv, Guards, Audit, table, disk, groups, execLocals, cleanLocals
<1>0. ASSUME pc'[o] \notin HeldPC  PROVE Holding(o)'
  BY <1>0 DEF Holding, HeldPC, ActivePC, SupervisePC
<1>1. CASE Surroundings
  <2>1. pc[o] \in HeldPC => at[o] \in Run /\ cmd[o] \in Cmd
    BY DEF HeldPC, ActivePC, Working, LockedPC
  <2>2. pc[o] \in HeldPC => lock[at[o]] # NoProc
    BY NoProcAssumption DEF HeldPC, ActivePC, SupervisePC, LockedPC, Locking
  <2> QED
    BY <1>1, <2>1, <2>2, AroundThem, HoldingStays DEF Unmoved, Untouched
<1>2. ASSUME NEW p \in Proc, p # o, Step(p)
      PROVE  Holding(o)'
  BY <1>2, OthersStand, Apart, HoldingStays
<1>3. CASE Step(o)
  <2>1. CASE Return(o)
    BY <1>0, <2>1, ReturnEffect DEF HeldPC, ActivePC
  <2>2. ASSUME NEW label \in PC \ HeldPC, Goto(o, label)  PROVE Holding(o)'
    BY <1>0, <2>2, GotoTyped
  <2>3. CASE Prepare(o)
    BY <2>1, <2>2, <2>3
       DEF Prepare, PrepareBegin, PrepareClone, PrepareWrite, PrepareRecord, PrepareUndo,
           PC, PreparePC, HeldPC, ActivePC
  <2>4. CASE Clean(o) \/ Crash(o)
    <3>1. CASE UNCHANGED pc /\ pc[o] \in CleanPC
      BY <1>0, <3>1 DEF CleanPC, HeldPC, ActivePC
    <3> QED
      BY <2>1, <2>2, <2>4, <3>1
         DEF Clean, CleanBegin, CleanScan, CleanRefuse, CleanScanned, CleanTear, CleanRemove,
             CleanUnsafe, CleanRemoved, CleanPurge, CleanFails, Crash, PC, CleanPC, HeldPC,
             ActivePC
  <2>5. CASE ExecuteBegin(o) \/ ExecuteLock(o) \/ ExecuteRow(o)
    BY <2>1, <2>2, <2>5
       DEF ExecuteBegin, ExecuteLock, ExecuteRow, PC, LockedPC, HeldPC, ActivePC
  <2>6. CASE ExecuteRelist(o)
    <3>1. CASE /\ at[o] \in recorded
               /\ snap' = [snap EXCEPT ![o] = rowLog[at[o]]]
               /\ Goto(o, "start")
               /\ UNCHANGED <<lock, at, cmd, why, cleanLocals>>
      <4>1. pc'[o] = "start" /\ snap'[o] = rowLog[at[o]] /\ at' = at
            /\ UNCHANGED <<recorded, rowLog>>
        BY <2>6, <3>1 DEF ExecuteRelist, Goto, TypeOK
      <4> QED
        BY <3>1, <4>1 DEF Holding, HeldPC, ActivePC, SupervisePC
    <3> QED
      BY <2>1, <2>6, <3>1 DEF ExecuteRelist
  <2>7. CASE ExecuteStart(o)
    <3>1. CASE /\ RunnableStorage(at[o])
               /\ cmdState' = [cmdState EXCEPT ![cmd[o]] = "running"]
               /\ Goto(o, "run")
               /\ UNCHANGED <<lock, execLocals, cleanLocals>>
      <4>1. /\ pc[o] = "start" /\ pc'[o] = "run" /\ cmdState'[cmd[o]] = "running"
            /\ UNCHANGED <<recorded, rowLog, dir, at, cmd, snap>>
            /\ dir[at[o]] # "absent"
        BY <2>7, <3>1 DEF ExecuteStart, Goto, TypeOK, Working, LockedPC, RunnableStorage
      <4> QED
        BY <4>1 DEF Holding, HeldPC, ActivePC, SupervisePC
    <3> QED
      BY <2>1, <2>7, <3>1 DEF ExecuteStart
  <2>8. CASE ExecuteExpire(o)
    <3>1. /\ pc[o] = "run" /\ pc'[o] = "reap"
          /\ cmdState'[cmd[o]] = IF cmdState[cmd[o]] = "running" THEN "fail" ELSE cmdState[cmd[o]]
          /\ UNCHANGED <<recorded, rowLog, dir, at, cmd, snap>>
      BY <2>8 DEF ExecuteExpire, Goto, TypeOK, Working, LockedPC
    <3> QED
      BY <3>1 DEF Holding, HeldPC, ActivePC, SupervisePC
  <2>9. CASE ExecuteReap(o)
    <3>1. CASE Goto(o, "file") /\ UNCHANGED <<lock, execLocals, cleanLocals>>
      <4>1. /\ pc[o] \in SupervisePC /\ cmdState[cmd[o]] # "running" /\ pc'[o] = "file"
            /\ UNCHANGED <<recorded, rowLog, dir, at, cmd, snap, cmdState>>
        BY <2>9, <3>1 DEF ExecuteReap, Goto, TypeOK
      <4> QED
        BY <4>1 DEF Holding, HeldPC, ActivePC, SupervisePC
    <3> QED
      BY <2>1, <2>9, <3>1 DEF ExecuteReap
  <2>10. CASE ExecuteFile(o)
    <3>1. CASE /\ contract' = [contract EXCEPT ![at[o]] = Append(snap[o], RecordOf(o))]
               /\ Goto(o, "row")
               /\ UNCHANGED <<lock, execLocals, cleanLocals, faults>>
      <4>1. /\ pc[o] = "file" /\ pc'[o] = "row"
            /\ contract'[at[o]] = Append(snap[o], RecordOf(o))
            /\ UNCHANGED <<recorded, rowLog, dir, at, cmd, snap, why, cmdState>>
        BY <2>10, <3>1 DEF ExecuteFile, Goto, TypeOK, Working, LockedPC
      <4>2. RecordOf(o)' = RecordOf(o)
        BY <4>1 DEF RecordOf, ExitCode
      <4> QED
        BY <4>1, <4>2 DEF Holding, HeldPC, ActivePC, SupervisePC
    <3> QED
      BY <2>1, <2>10, <3>1 DEF ExecuteFile
  <2> QED
    BY <1>3, <2>3, <2>4, <2>5, <2>6, <2>7, <2>8, <2>9, <2>10 DEF Step, Execute
<1> QED
  BY <1>1, <1>2, <1>3, Steps

\* What Clean found gone, or has removed, does not come back.
LEMMA AbsentStays ==
    ASSUME IInv, [Next]_vars, NEW o \in Proc, NEW r \in doomed[o], dir[r] = "absent"
    PROVE  dir'[r] = "absent"
<1> USE DEF IInv, Guards, table, disk, groups, execLocals, cleanLocals
<1>1. r \in Run /\ r \in born
  BY DEF TypeOK, Known
<1>2. CASE Surroundings
  BY <1>1, <1>2, AroundThem
<1>3. ASSUME NEW p \in Proc, Step(p)  PROVE dir'[r] = "absent"
  <2>1. pc[p] \in PreparePC => at[p] # r
    BY DEF Ownership, Owned
  <2>2. CASE Prepare(p)
    BY <1>1, <2>1, <2>2 DEF Prepare, PrepareBegin, PrepareClone, PrepareWrite, PrepareRecord,
                            PrepareUndo, PreparePC, TypeOK
  <2>3. CASE Execute(p) \/ Crash(p)
    BY <2>3 DEF Execute, ExecuteBegin, ExecuteLock, ExecuteRelist, ExecuteStart, ExecuteExpire,
                ExecuteReap, ExecuteFile, ExecuteRow, Crash
  <2>4. CASE CleanTear(p) \/ CleanRemove(p)
    BY <1>1, <2>4 DEF CleanTear, CleanRemove, TypeOK
  <2>5. CASE UNCHANGED dir
    BY <2>5
  <2> QED
    BY <1>3, <2>2, <2>3, <2>4, <2>5
       DEF Step, Clean, CleanBegin, CleanScan, CleanRefuse, CleanScanned, CleanUnsafe,
           CleanRemoved, CleanPurge, CleanFails
<1> QED
  BY <1>2, <1>3, Steps

LEMMA DeletingKept ==
    ASSUME LInv, [Next]_vars, NEW o \in Proc
    PROVE  Deleting(o)'
<1> USE DEF LInv, IInv, Audit, execLocals, cleanLocals
<1>1. CASE Unmoved(o)
  BY <1>1, AbsentStays DEF Unmoved, Deleting
<1>2. CASE Surroundings
  BY <1>1, <1>2, AroundThem DEF Unmoved
<1>3. ASSUME NEW p \in Proc, p # o, Step(p)  PROVE Deleting(o)'
  BY <1>1, <1>3, OthersStand
<1>4. CASE Step(o)
  <2>1. CASE Return(o)
    BY <2>1, ReturnEffect DEF Deleting
  <2>2. ASSUME NEW label \in PC \ {"remove", "purge"}, Goto(o, label), UNCHANGED doomed
        PROVE  Deleting(o)'
    BY <2>2, GotoTyped DEF Deleting
  <2>3. CASE Prepare(o)
    BY <2>1, <2>2, <2>3
       DEF Prepare, PrepareBegin, PrepareClone, PrepareWrite, PrepareRecord, PrepareUndo,
           PC, PreparePC
  <2>4. CASE Execute(o)
    BY <2>1, <2>2, <2>4
       DEF Execute, ExecuteBegin, ExecuteLock, ExecuteRelist, ExecuteStart, ExecuteExpire,
           ExecuteReap, ExecuteFile, ExecuteRow, PC, LockedPC
  <2>5. CASE CleanBegin(o)
    BY <2>2, <2>5 DEF CleanBegin, PC, CleanPC
  <2>6. CASE CleanScan(o)
    <3>1. PICK r \in todo[o] \ Stray :
            doomed' = [doomed EXCEPT ![o] = @ \cup {r}] \/ UNCHANGED doomed
      BY <2>6 DEF CleanScan
    <3>2. doomed'[o] \subseteq doomed[o] \cup {r} /\ pc'[o] = "scan"
      BY <2>6, <3>1 DEF CleanScan, TypeOK
    <3> QED
      BY <3>1, <3>2 DEF Deleting
  <2>7. CASE CleanScanned(o)
    BY <2>7 DEF CleanScanned, Goto, Deleting, TypeOK
  <2>8. CASE CleanTear(o)
    BY <1>1, <2>8 DEF CleanTear, Unmoved
  <2>9. CASE CleanRemove(o)
    <3>1. PICK r \in left[o] : /\ dir' = [dir EXCEPT ![r] = "absent"]
                               /\ left' = [left EXCEPT ![o] = @ \ {r}]
      BY <2>9 DEF CleanRemove
    <3>2. /\ left'[o] = left[o] \ {r} /\ dir'[r] = "absent"
          /\ pc'[o] = "remove" /\ pc[o] = "remove" /\ doomed' = doomed
      BY <2>9, <3>1 DEF CleanRemove, TypeOK
    <3> QED
      BY <3>2, AbsentStays DEF Deleting
  <2>10. CASE CleanRemoved(o)
    <3>1. pc[o] = "remove" /\ pc'[o] = "purge" /\ left[o] = {}
          /\ UNCHANGED <<dir, doomed, left>>
      BY <2>10 DEF CleanRemoved, Goto, TypeOK, disk
    <3> QED
      BY <3>1 DEF Deleting
  <2>11. CASE CleanRefuse(o) \/ CleanUnsafe(o) \/ CleanPurge(o) \/ CleanFails(o) \/ Crash(o)
    BY <2>1, <2>11 DEF CleanRefuse, CleanUnsafe, CleanPurge, CleanFails, Crash
  <2> QED
    BY <1>4, <2>3, <2>4, <2>5, <2>6, <2>7, <2>8, <2>9, <2>10, <2>11 DEF Step, Clean
<1> QED
  BY <1>2, <1>3, <1>4, Steps

-----------------------------------------------------------------------------
(***************************************************************************)
(* The logs.                                                               *)
(***************************************************************************)

\* A log is made empty for a new row, and gets one more record from its Execute.
LEMMA Logs ==
    ASSUME LInv, [Next]_vars, NEW r \in Run
    PROVE  \/ rowLog'[r] = rowLog[r]
           \/ r \notin recorded /\ rowLog'[r] = <<>>
           \/ \E p \in Proc : /\ ExecuteRow(p) /\ r = at[p]
                              /\ rowLog'[r] = Append(rowLog[r], RecordOf(p))
<1> USE DEF LInv, IInv, Guards, Audit, table, disk, groups
<1>1. CASE Surroundings
  BY <1>1, AroundThem
<1>2. ASSUME NEW p \in Proc, PrepareRecord(p), rowLog'[r] # rowLog[r]
      PROVE  r \notin recorded /\ rowLog'[r] = <<>>
  <2>1. at[p] \notin recorded
    BY <1>2 DEF PrepareRecord, Ownership, Owned, PreparePC
  <2> QED
    BY <1>2, <2>1 DEF PrepareRecord, TypeOK
<1>3. ASSUME NEW p \in Proc, ExecuteRow(p), rowLog'[r] # rowLog[r]
      PROVE  r = at[p] /\ rowLog'[r] = Append(rowLog[r], RecordOf(p))
  <2>1. snap[p] = rowLog[at[p]]
    BY <1>3 DEF ExecuteRow, Holding, HeldPC, ActivePC
  <2> QED
    BY <1>3, <2>1 DEF ExecuteRow, TypeOK
<1>4. ASSUME NEW p \in Proc, Step(p), ~PrepareRecord(p), ~ExecuteRow(p)  PROVE rowLog' = rowLog
  BY <1>4 DEF Step, Prepare, PrepareBegin, PrepareClone, PrepareWrite, PrepareUndo,
              Execute, ExecuteBegin, ExecuteLock, ExecuteRelist, ExecuteStart, ExecuteExpire,
              ExecuteReap, ExecuteFile, Clean, CleanBegin, CleanScan, CleanRefuse,
              CleanScanned, CleanTear, CleanRemove, CleanUnsafe, CleanRemoved, CleanPurge,
              CleanFails, Crash
<1> QED
  BY <1>1, <1>2, <1>3, <1>4, Steps

\* What happens to a request somebody works on, and to one nobody does.
LEMMA Commands ==
    ASSUME LInv, [Next]_vars
    PROVE  /\ issued' \in {issued, issued + 1}
           /\ \A q \in Proc : cmd'[q] \in {cmd[q], 0, issued + 1}
           /\ \A c \in Cmd : (\A q \in Proc : cmd[q] # c) =>
                 /\ cmdRun'[c] = cmdRun[c]
                 /\ cmdState'[c] = cmdState[c] \/ cmdState[c] = "running"
<1> USE DEF LInv, IInv, table, disk, groups, execLocals, cleanLocals
<1>0. issued \in Nat
  BY BoundsAssumption DEF TypeOK
<1>1. CASE Surroundings
  BY <1>0, <1>1, AroundThem
<1>2. ASSUME NEW p \in Proc, Step(p)
      PROVE  /\ issued' \in {issued, issued + 1}
             /\ cmd'[p] \in {cmd[p], 0, issued + 1}
             /\ \A c \in Cmd : cmd[p] # c => cmdRun'[c] = cmdRun[c] /\ cmdState'[c] = cmdState[c]
  <2>1. CASE Return(p) /\ UNCHANGED groups
    BY <1>0, <2>1, ReturnEffect
  <2>2. CASE UNCHANGED <<groups, cmd>>
    BY <1>0, <2>2
  <2>3. CASE Prepare(p)
    BY <2>1, <2>2, <2>3
       DEF Prepare, PrepareBegin, PrepareClone, PrepareWrite, PrepareRecord, PrepareUndo
  <2>4. CASE ExecuteBegin(p)
    BY <1>0, <2>4 DEF ExecuteBegin, TypeOK
  <2>5. CASE ExecuteStart(p)
    <3>1. cmd'[p] \in {cmd[p], 0}
      BY <2>5, ReturnEffect DEF ExecuteStart
    <3> QED
      BY <1>0, <2>5, <3>1 DEF ExecuteStart, TypeOK
  <2>6. CASE ExecuteExpire(p)
    BY <1>0, <2>6 DEF ExecuteExpire, TypeOK
  <2>7. CASE ExecuteLock(p) \/ ExecuteRelist(p) \/ ExecuteReap(p) \/ ExecuteFile(p)
             \/ ExecuteRow(p)
    BY <2>1, <2>2, <2>7
       DEF ExecuteLock, ExecuteRelist, ExecuteReap, ExecuteFile, ExecuteRow
  <2>8. CASE Clean(p) \/ Crash(p)
    BY <2>1, <2>2, <2>8
       DEF Clean, CleanBegin, CleanScan, CleanRefuse, CleanScanned, CleanTear, CleanRemove,
           CleanUnsafe, CleanRemoved, CleanPurge, CleanFails, Crash
  <2> QED
    BY <1>2, <2>3, <2>4, <2>5, <2>6, <2>7, <2>8 DEF Step, Execute
<1>3. ASSUME NEW p \in Proc, Step(p)
      PROVE  \A q \in Proc : cmd'[q] \in {cmd[q], 0, issued + 1}
  BY <1>2, <1>3, OthersStand DEF Unmoved
<1> QED
  BY <1>1, <1>2, <1>3, Steps

\* A record already in the log: its request is nobody's, so nothing happens to it.
LEMMA RecordStays ==
    ASSUME LInv, [Next]_vars, NEW r \in Run, NEW i \in 1..Len(rowLog[r])
    PROVE  LET rec == rowLog[r][i]
           IN  /\ rec \in Record
               /\ cmdRun'[rec.cmd] = r
               /\ cmdState'[rec.cmd] = cmdState[rec.cmd]
               /\ rec.cmd <= issued'
               /\ \A p \in Proc : cmd'[p] # rec.cmd
<1> USE DEF LInv, IInv, Audit
<1> DEFINE rec == rowLog[r][i]
<1>1. rec \in Record
  BY DEF TypeOK
<1>2. rec.cmd \in Cmd /\ rec.cmd \in Nat /\ rec.cmd # 0 /\ issued \in Nat
  BY <1>1, BoundsAssumption DEF Record, Cmd, TypeOK
<1>3. /\ cmdRun[rec.cmd] = r /\ cmdState[rec.cmd] \in {"ok", "fail"}
      /\ rec.cmd <= issued /\ \A p \in Proc : cmd[p] # rec.cmd
  BY DEF Authentic
<1>4. cmdRun'[rec.cmd] = r /\ cmdState'[rec.cmd] = cmdState[rec.cmd]
  BY <1>2, <1>3, Commands
<1>5. rec.cmd <= issued' /\ \A p \in Proc : cmd'[p] # rec.cmd
  <2>1. issued' \in {issued, issued + 1} /\ \A p \in Proc : cmd'[p] \in {cmd[p], 0, issued + 1}
    BY Commands
  <2>2. rec.cmd # issued + 1
    BY <1>2, <1>3
  <2> QED
    BY <1>2, <1>3, <2>1, <2>2
<1> QED
  BY <1>1, <1>3, <1>4, <1>5

LEMMA AuthenticKept ==
    ASSUME LInv, [Next]_vars, NEW r \in Run
    PROVE  Authentic(r)'
<1> USE DEF LInv, IInv, Guards, Audit
<1>1. CASE rowLog'[r] = rowLog[r]
  <2> SUFFICES ASSUME NEW i \in 1..Len(rowLog[r])
               PROVE  LET rec == rowLog[r][i]
                      IN  /\ cmdRun'[rec.cmd] = r
                          /\ cmdState'[rec.cmd] \in {"ok", "fail"}
                          /\ rec.exit = 0 <=> cmdState'[rec.cmd] = "ok"
                          /\ \A j \in 1..Len(rowLog[r]) : rowLog[r][j].cmd = rec.cmd => j = i
                          /\ rec.cmd <= issued'
                          /\ \A p \in Proc : cmd'[p] # rec.cmd
    BY <1>1 DEF Authentic
  <2> QED
    BY RecordStays DEF Authentic
<1>2. CASE rowLog'[r] = <<>>
  BY <1>2 DEF Authentic
<1>3. ASSUME NEW p \in Proc, ExecuteRow(p), r = at[p],
             rowLog'[r] = Append(rowLog[r], RecordOf(p))
      PROVE  Authentic(r)'
  <2> DEFINE s == rowLog[r]
             n == Len(s)
             last == RecordOf(p)
  <2>1. s \in Seq(Record) /\ n \in Nat
    BY DEF TypeOK
  <2>2. /\ Len(rowLog'[r]) = n + 1 /\ rowLog'[r][n + 1] = last
        /\ \A i \in 1..n : rowLog'[r][i] = s[i]
    BY <1>3, <2>1
  <2>3. pc[p] = "row" /\ cmd[p] \in Cmd /\ cmd[p] # 0 /\ issued \in Nat
    BY <1>3, BoundsAssumption DEF ExecuteRow, Working, LockedPC, Cmd, TypeOK
  <2>4. /\ last.cmd = cmd[p] /\ cmdRun[cmd[p]] = r /\ cmdState[cmd[p]] \in {"ok", "fail"}
        /\ last.exit = 0 <=> cmdState[cmd[p]] = "ok"
    BY <1>3, <2>3 DEF RecordOf, ExitCode, Requests, ActivePC, Holding
  <2>5. /\ UNCHANGED <<issued, cmdRun, cmdState>> /\ cmd'[p] = 0
        /\ \A q \in Proc : q # p => cmd'[q] = cmd[q]
    BY <1>3, ReturnEffect DEF ExecuteRow, groups
  <2>6. \A q \in Proc : cmd'[q] # cmd[p]
    BY <2>3, <2>5 DEF Requests
  <2>7. cmd[p] <= issued'
    BY <2>5 DEF Requests
  <2>8. \A i \in 1..n : s[i].cmd # cmd[p]
    BY DEF Authentic
  <2>9. ASSUME NEW i \in 1..n
        PROVE  /\ cmdRun'[s[i].cmd] = r
               /\ cmdState'[s[i].cmd] \in {"ok", "fail"}
               /\ s[i].exit = 0 <=> cmdState'[s[i].cmd] = "ok"
               /\ \A j \in 1..n : s[j].cmd = s[i].cmd => j = i
               /\ s[i].cmd <= issued'
               /\ \A q \in Proc : cmd'[q] # s[i].cmd
    BY RecordStays DEF Authentic
  <2> SUFFICES ASSUME NEW i \in 1..(n + 1)
               PROVE  LET rec == rowLog'[r][i]
                      IN  /\ cmdRun'[rec.cmd] = r
                          /\ cmdState'[rec.cmd] \in {"ok", "fail"}
                          /\ rec.exit = 0 <=> cmdState'[rec.cmd] = "ok"
                          /\ \A j \in 1..(n + 1) : rowLog'[r][j].cmd = rec.cmd => j = i
                          /\ rec.cmd <= issued'
                          /\ \A q \in Proc : cmd'[q] # rec.cmd
    BY <2>2 DEF Authentic
  <2> HIDE DEF s, n, last
  <2>10. CASE i = n + 1
    <3>1. \A j \in 1..(n + 1) : rowLog'[r][j].cmd = last.cmd => j = i
      <4> SUFFICES ASSUME NEW j \in 1..(n + 1), j # n + 1
                   PROVE  rowLog'[r][j].cmd # last.cmd
        BY <2>10
      <4>1. j \in 1..n
        BY <2>1
      <4> QED
        BY <4>1, <2>2, <2>4, <2>8
    <3> QED
      BY <2>2, <2>4, <2>5, <2>6, <2>7, <2>10, <3>1
  <2>11. CASE i # n + 1
    <3>1. i \in 1..n /\ rowLog'[r][i] = s[i]
      BY <2>1, <2>2, <2>11
    <3>2. \A j \in 1..(n + 1) : rowLog'[r][j].cmd = s[i].cmd => j = i
      <4> SUFFICES ASSUME NEW j \in 1..(n + 1), rowLog'[r][j].cmd = s[i].cmd
                   PROVE  j = i
        OBVIOUS
      <4>1. j # n + 1
        BY <2>2, <2>4, <2>8, <3>1
      <4>2. j \in 1..n
        BY <2>1, <4>1
      <4> QED
        BY <2>2, <2>9, <3>1, <4>2
    <3> QED
      BY <2>9, <3>1, <3>2
  <2> QED
    BY <2>10, <2>11
<1> QED
  BY <1>1, <1>2, <1>3, Logs

\* Which steps change the file of a run, or insert its row.
LEMMA Files ==
    ASSUME LInv, [Next]_vars, NEW r \in Run, r \in recorded' \cap filed'
    PROVE  \/ r \in recorded \cap filed /\ contract'[r] = contract[r]
           \/ contract'[r] = <<>> /\ rowLog'[r] = <<>>
           \/ \E rec \in Record : contract'[r] = Append(rowLog'[r], rec)
<1> USE DEF LInv, IInv, Guards, Audit, table, disk, groups
<1>1. CASE Surroundings
  BY <1>1, AroundThem
<1>2. ASSUME NEW p \in Proc, PrepareBegin(p) \/ PrepareClone(p) \/ PrepareUndo(p)
      PROVE  r \in recorded \cap filed /\ contract'[r] = contract[r]
  BY <1>2 DEF PrepareBegin, PrepareClone, PrepareUndo
<1>3. ASSUME NEW p \in Proc, PrepareWrite(p)
      PROVE  r \in recorded \cap filed /\ contract'[r] = contract[r]
  <2>1. at[p] \notin recorded
    BY <1>3 DEF PrepareWrite, Ownership, Owned, PreparePC
  <2> QED
    BY <1>3, <2>1 DEF PrepareWrite, TypeOK
<1>4. ASSUME NEW p \in Proc, PrepareRecord(p)
      PROVE  \/ r \in recorded \cap filed /\ contract'[r] = contract[r]
             \/ contract'[r] = <<>> /\ rowLog'[r] = <<>>
  <2>1. contract[at[p]] = <<>>
    BY <1>4 DEF PrepareRecord, Ownership, Owned, PreparePC
  <2> QED
    BY <1>4, <2>1 DEF PrepareRecord, TypeOK
<1>5. ASSUME NEW p \in Proc, ExecuteFile(p)
      PROVE  \/ r \in recorded \cap filed /\ contract'[r] = contract[r]
             \/ \E rec \in Record : contract'[r] = Append(rowLog'[r], rec)
  <2>1. RecordOf(p) \in Record /\ snap[p] = rowLog[at[p]]
    BY <1>5, RecordTyped DEF ExecuteFile, Holding, HeldPC, ActivePC
  <2>2. CASE /\ filed' = filed \cup {at[p]}
             /\ contract' = [contract EXCEPT ![at[p]] = Append(snap[p], RecordOf(p))]
    <3>1. recorded' = recorded /\ rowLog' = rowLog
      BY <1>5 DEF ExecuteFile
    <3>2. CASE r = at[p]
      <4>1. contract'[r] = Append(rowLog'[r], RecordOf(p))
        BY <2>1, <2>2, <3>1, <3>2 DEF TypeOK
      <4> QED
        BY <2>1, <4>1
    <3>3. CASE r # at[p]
      BY <2>2, <3>1, <3>3 DEF TypeOK
    <3> QED
      BY <3>2, <3>3
  <2> QED
    BY <1>5, <2>2 DEF ExecuteFile
<1>6. ASSUME NEW p \in Proc, Execute(p), ~ExecuteFile(p)
      PROVE  r \in recorded \cap filed /\ contract'[r] = contract[r]
  BY <1>6 DEF Execute, ExecuteBegin, ExecuteLock, ExecuteRelist, ExecuteStart, ExecuteExpire,
              ExecuteReap, ExecuteRow
<1>7. ASSUME NEW p \in Proc, Clean(p) \/ Crash(p)
      PROVE  r \in recorded \cap filed /\ contract'[r] = contract[r]
  BY <1>7 DEF Clean, CleanBegin, CleanScan, CleanRefuse, CleanScanned, CleanTear, CleanRemove,
              CleanUnsafe, CleanRemoved, CleanPurge, CleanFails, Crash
<1> QED
  BY <1>1, <1>2, <1>3, <1>4, <1>5, <1>6, <1>7, Steps DEF Step, Prepare

LEMMA MirroredKept ==
    ASSUME LInv, [Next]_vars, NEW r \in Run
    PROVE  Mirrored(r)'
<1> USE DEF LInv, Audit
<1> SUFFICES ASSUME r \in recorded' \cap filed'
             PROVE  \/ contract'[r] = rowLog'[r]
                    \/ \E rec \in Record : contract'[r] = Append(rowLog'[r], rec)
  BY DEF Mirrored
<1>1. CASE r \in recorded \cap filed /\ contract'[r] = contract[r]
  <2>1. CASE rowLog'[r] = rowLog[r]
    BY <1>1, <2>1 DEF Mirrored
  <2>2. ASSUME NEW p \in Proc, ExecuteRow(p), r = at[p],
               rowLog'[r] = Append(rowLog[r], RecordOf(p))
        PROVE  contract'[r] = rowLog'[r]
    BY <1>1, <2>2 DEF ExecuteRow, Holding, HeldPC, ActivePC
  <2> QED
    BY <1>1, <2>1, <2>2, Logs
<1> QED
  BY <1>1, Files

\* What Clean deletes it had as a candidate that managedRunDir accepts.
LEMMA StrayStays ==
    ASSUME LInv, [Next]_vars
    PROVE  StrayKept'
<1> USE DEF LInv, IInv, Audit, StrayKept, table
<1>1. CASE Surroundings
  BY <1>1, AroundThem
<1>2. ASSUME NEW p \in Proc, CleanPurge(p)  PROVE StrayKept'
  BY <1>2 DEF CleanPurge, Deleting
<1>3. ASSUME NEW p \in Proc, Step(p), ~CleanPurge(p)  PROVE recorded \subseteq recorded'
  BY <1>3 DEF Step, Prepare, PrepareBegin, PrepareClone, PrepareWrite, PrepareRecord,
              PrepareUndo, Execute, ExecuteBegin, ExecuteLock, ExecuteRelist, ExecuteStart,
              ExecuteExpire, ExecuteReap, ExecuteFile, ExecuteRow, Clean, CleanBegin,
              CleanScan, CleanRefuse, CleanScanned, CleanTear, CleanRemove, CleanUnsafe,
              CleanRemoved, CleanFails, Crash
<1> QED
  BY <1>1, <1>2, <1>3, Steps

\* A Clean that has a stray candidate keeps it until it gives up.
LEMMA LookingKept ==
    ASSUME LInv, [Next]_vars, NEW o \in Proc
    PROVE  Looking(o)'
<1> USE DEF LInv, IInv, Audit, execLocals, cleanLocals
<1>1. CASE Unmoved(o)
  BY <1>1 DEF Unmoved, Looking
<1>2. CASE Surroundings
  BY <1>1, <1>2, AroundThem DEF Unmoved
<1>3. ASSUME NEW p \in Proc, p # o, Step(p)  PROVE Looking(o)'
  BY <1>1, <1>3, OthersStand
<1>4. CASE Step(o)
  <2>1. CASE Return(o)
    BY <2>1, ReturnEffect DEF Looking
  <2>2. ASSUME pc[o] # "scan", UNCHANGED todo  PROVE Looking(o)'
    BY <2>2 DEF Looking
  <2>3. CASE Prepare(o)
    BY <2>1, <2>2, <2>3
       DEF Prepare, PrepareBegin, PrepareClone, PrepareWrite, PrepareRecord, PrepareUndo
  <2>4. CASE Execute(o)
    BY <2>1, <2>2, <2>4
       DEF Execute, ExecuteBegin, ExecuteLock, ExecuteRelist, ExecuteStart, ExecuteExpire,
           ExecuteReap, ExecuteFile, ExecuteRow, LockedPC, SupervisePC
  <2>5. CASE CleanBegin(o)
    BY <2>5 DEF CleanBegin, Goto, Looking, TypeOK
  <2>6. CASE CleanScan(o)
    BY <2>6 DEF CleanScan, Looking
  <2>7. CASE CleanScanned(o)
    BY <2>7 DEF CleanScanned, Looking
  <2>8. CASE CleanTear(o) \/ CleanRemove(o) \/ CleanRemoved(o)
    BY <2>2, <2>8 DEF CleanTear, CleanRemove, CleanRemoved
  <2>9. CASE CleanRefuse(o) \/ CleanUnsafe(o) \/ CleanPurge(o) \/ CleanFails(o) \/ Crash(o)
    BY <2>1, <2>9 DEF CleanRefuse, CleanUnsafe, CleanPurge, CleanFails, Crash
  <2> QED
    BY <1>4, <2>3, <2>4, <2>5, <2>6, <2>7, <2>8, <2>9 DEF Step, Clean
<1> QED
  BY <1>2, <1>3, <1>4, Steps

LEMMA StrayHolds ==
    ASSUME LInv, [Next]_vars, NEW o \in Proc
    PROVE  /\ pc[o] = "idle" /\ pc'[o] = "scan" => Stray \cap old \subseteq todo'[o]
           /\ Stray \cap todo[o] # {} =>
                 /\ pc'[o] = "idle" \/ Stray \cap todo'[o] = Stray \cap todo[o]
                 /\ Clean(o) => recorded' = recorded /\ dir' = dir
<1> USE DEF LInv, IInv, Audit, StrayKept, execLocals, cleanLocals, table, disk
<1>1. CASE pc'[o] = pc[o] /\ todo'[o] = todo[o] /\ ~Clean(o)
  BY <1>1
<1>2. CASE Surroundings /\ ~Clean(o)
  BY <1>1, <1>2, AroundThem
<1>3. ASSUME NEW p \in Proc, p # o, Step(p), ~Clean(o)
      PROVE  pc'[o] = pc[o] /\ todo'[o] = todo[o]
  BY <1>3, OthersStand DEF Unmoved
<1>4. CASE Clean(o)
  <2>1. CASE pc[o] = "idle"
    <3>1. todo[o] = {}
      BY <2>1 DEF Looking
    <3>2. CleanBegin(o)
      BY <1>4, <2>1 DEF Clean, CleanScan, CleanRefuse, CleanScanned, CleanTear, CleanRemove,
                        CleanUnsafe, CleanRemoved, CleanPurge, CleanFails, CleanPC
    <3>3. todo'[o] = recorded \cap old
      BY <3>2 DEF CleanBegin, TypeOK
    <3> QED
      BY <3>1, <3>3
  <2>2. CASE pc[o] = "scan" /\ Stray \cap todo[o] # {}
    <3>1. CASE CleanScan(o)
      <4>1. PICK r \in todo[o] \ Stray : todo' = [todo EXCEPT ![o] = @ \ {r}]
        BY <3>1 DEF CleanScan
      <4>2. todo'[o] = todo[o] \ {r}
        BY <4>1 DEF TypeOK
      <4> QED
        BY <2>2, <3>1, <4>2 DEF CleanScan
    <3>2. CASE CleanRefuse(o) \/ CleanFails(o)
      BY <2>2, <3>2, ReturnEffect DEF CleanRefuse, CleanFails
    <3> QED
      BY <1>4, <2>2, <3>1, <3>2 DEF Clean, CleanBegin, CleanScanned, CleanTear, CleanRemove,
                                    CleanUnsafe, CleanRemoved, CleanPurge
  <2>3. CASE pc[o] # "idle" /\ Stray \cap todo[o] = {}
    BY <2>3
  <2> QED
    BY <2>1, <2>2, <2>3 DEF Looking
<1>5. CASE Step(o) /\ ~Clean(o)
  <2>1. CASE pc[o] = "idle"
    <3>1. todo[o] = {}
      BY <2>1 DEF Looking
    <3>2. pc'[o] # "scan"
      BY <1>5, <2>1 DEF Step, Prepare, PrepareBegin, PrepareClone, PrepareWrite, PrepareRecord,
                        PrepareUndo, PreparePC, Execute, ExecuteBegin, ExecuteLock, ExecuteRelist,
                        ExecuteStart, ExecuteExpire, ExecuteReap, ExecuteFile, ExecuteRow,
                        SupervisePC, Crash, Goto, TypeOK
    <3> QED
      BY <3>1, <3>2
  <2>2. CASE pc[o] = "scan"
    BY <1>5, <2>2, ReturnEffect
       DEF Step, Prepare, PrepareBegin, PrepareClone, PrepareWrite, PrepareRecord,
           PrepareUndo, PreparePC, Execute, ExecuteBegin, ExecuteLock, ExecuteRelist,
           ExecuteStart, ExecuteExpire, ExecuteReap, ExecuteFile, ExecuteRow, SupervisePC, Crash
  <2> QED
    BY <1>5, <2>1, <2>2 DEF Looking
<1> QED
  BY <1>1, <1>2, <1>3, <1>4, <1>5, Steps

\* A step that is no fault leaves faults as they are; a fault counts.
LEMMA Faults ==
    ASSUME LInv, [Next]_vars, faults' = 0
    PROVE  /\ faults = 0
           /\ \A p \in Proc : ~Crash(p) /\ ~CleanFails(p)
           /\ \A r \in Run : ~Replace(r)
<1> USE DEF LInv, IInv, Fault
<1>1. faults \in Nat
  BY BoundsAssumption DEF TypeOK
<1>2. ~Fault
  BY <1>1
<1>3. faults' = faults \/ Fault
  <2>1. CASE Surroundings
    BY <2>1 DEF Surroundings, CommandExits, Age, Replace, vars
  <2>2. ASSUME NEW p \in Proc, Step(p)  PROVE faults' = faults \/ Fault
    BY <2>2 DEF Step, Prepare, PrepareBegin, PrepareClone, PrepareWrite, PrepareRecord,
                PrepareUndo, Execute, ExecuteBegin, ExecuteLock, ExecuteRelist, ExecuteStart,
                ExecuteExpire, ExecuteReap, ExecuteFile, ExecuteRow, Clean, CleanBegin,
                CleanScan, CleanRefuse, CleanScanned, CleanTear, CleanRemove, CleanUnsafe,
                CleanRemoved, CleanPurge, CleanFails, Crash
  <2> QED
    BY <2>1, <2>2, Steps
<1> QED
  BY <1>2, <1>3 DEF Crash, CleanFails, Replace

LEMMA UnharmedKept ==
    ASSUME LInv, [Next]_vars
    PROVE  Unharmed'
<1> USE DEF LInv, IInv, Audit, disk
<1> SUFFICES ASSUME faults' = 0, NEW r \in Run
             PROVE  dir'[r] # "unsafe"
  BY DEF Unharmed
<1>1. dir[r] # "unsafe"
  BY Faults DEF Unharmed
<1>2. CASE Surroundings
  <2>1. UNCHANGED dir
    BY <1>2, Faults DEF Surroundings, CommandExits, Age, vars
  <2> QED
    BY <1>1, <2>1
<1>3. ASSUME NEW p \in Proc, Prepare(p)  PROVE dir'[r] # "unsafe"
  BY <1>1, <1>3 DEF Prepare, PrepareBegin, PrepareClone, PrepareWrite, PrepareRecord,
                    PrepareUndo, TypeOK
<1>4. ASSUME NEW p \in Proc, Execute(p) \/ Crash(p)  PROVE dir'[r] # "unsafe"
  BY <1>1, <1>4 DEF Execute, ExecuteBegin, ExecuteLock, ExecuteRelist, ExecuteStart,
                    ExecuteExpire, ExecuteReap, ExecuteFile, ExecuteRow, Crash
<1>5. ASSUME NEW p \in Proc, Clean(p)  PROVE dir'[r] # "unsafe"
  BY <1>1, <1>5 DEF Clean, CleanBegin, CleanScan, CleanRefuse, CleanScanned, CleanTear,
                    CleanRemove, CleanUnsafe, CleanRemoved, CleanPurge, CleanFails, TypeOK
<1> QED
  BY <1>2, <1>3, <1>4, <1>5, Steps DEF Step

\* The four cases of DiskMatchesTable.
Whole(r) == r \in recorded => dir[r] = "intact" /\ r \in filed
Leaving(r) == \E p \in Proc : pc[p] \in {"remove", "purge"} /\ r \in doomed[p]
Backed(r) == dir[r] # "absent" => r \in recorded
Coming(r) == \E p \in Proc : pc[p] \in PreparePC /\ at[p] = r

Matching(r) == (Whole(r) \/ Leaving(r)) /\ (Backed(r) \/ Coming(r))

\* A step of p that does not concern r, or that p has yet to finish.
LEMMA MatchingStays ==
    ASSUME TypeOK, NEW r, Matching(r), NEW p \in Proc, Step(p),
           dir'[r] = dir[r], r \in filed => r \in filed', r \in recorded' <=> r \in recorded,
           pc[p] \in {"remove", "purge"} /\ r \in doomed[p] =>
                pc'[p] \in {"remove", "purge"} /\ r \in doomed'[p],
           pc[p] \in PreparePC /\ at[p] = r => pc'[p] \in PreparePC /\ at'[p] = r
    PROVE  Matching(r)'
<1>1. \A q \in Proc : q # p => pc'[q] = pc[q] /\ doomed'[q] = doomed[q] /\ at'[q] = at[q]
  BY OthersStand DEF Unmoved
<1>2. Leaving(r) => Leaving(r)'
  BY <1>1 DEF Leaving
<1>3. Coming(r) => Coming(r)'
  BY <1>1 DEF Coming
<1>4. Whole(r) => Whole(r)'
  BY DEF Whole
<1>5. Backed(r) => Backed(r)'
  BY DEF Backed
<1> QED
  BY <1>2, <1>3, <1>4, <1>5 DEF Matching

\* Without a fault a row loses its workspace only to a Clean that then deletes it, and
\* no directory outlives its row.
LEMMA DiskKept ==
    ASSUME LInv, [Next]_vars
    PROVE  DiskMatchesTable'
<1> USE DEF LInv, IInv, Guards, Audit, table, disk, groups, execLocals, cleanLocals
<1> SUFFICES ASSUME faults' = 0, NEW r \in Run \ Stray
             PROVE  Matching(r)'
  BY DEF DiskMatchesTable, Matching, Whole, Leaving, Backed, Coming
<1>0. Matching(r)
  BY Faults DEF DiskMatchesTable, Matching, Whole, Leaving, Backed, Coming
<1>1. CASE Surroundings
  <2>1. UNCHANGED <<recorded, dir, filed, pc, doomed, at>>
    BY <1>1, Faults DEF Surroundings, CommandExits, Age, vars
  <2> QED
    BY <1>0, <2>1 DEF Matching, Whole, Leaving, Backed, Coming
<1>2. ASSUME NEW p \in Proc, Prepare(p)
      PROVE  Matching(r)'
  <2>1. Step(p)
    BY <1>2 DEF Step
  <2>2. CASE PrepareBegin(p)
    <3>1. PICK s \in Run \ born : /\ born' = born \cup {s}
                                  /\ dir' = [dir EXCEPT ![s] = "bare"]
                                  /\ at' = [at EXCEPT ![p] = s]
      BY <2>2 DEF PrepareBegin
    <3>2. /\ pc[p] = "idle" /\ pc'[p] = "clone" /\ at'[p] = s
          /\ UNCHANGED <<recorded, filed>> /\ s \notin recorded
      BY <2>2, <3>1 DEF PrepareBegin, Goto, TypeOK, Known
    <3>3. CASE r = s
      BY <3>2, <3>3 DEF Matching, Whole, Coming, PreparePC
    <3>4. CASE r # s
      BY <1>0, <2>1, <3>1, <3>2, <3>4, MatchingStays DEF PreparePC, TypeOK
    <3> QED
      BY <3>3, <3>4
  <2>3. CASE pc[p] \in PreparePC
    <3>1. at[p] \in Run /\ at[p] \notin recorded /\ pc[p] \notin {"remove", "purge"}
      BY <2>3 DEF Working, Ownership, Owned, PreparePC
    <3>2. CASE PrepareClone(p) \/ PrepareWrite(p)
      <4>1. /\ pc'[p] \in PreparePC /\ at' = at /\ recorded' = recorded
            /\ \A s \in Run : s # at[p] => dir'[s] = dir[s] /\ (s \in filed => s \in filed')
        BY <3>1, <3>2 DEF PrepareClone, PrepareWrite, PreparePC, Goto, TypeOK
      <4>2. CASE r = at[p]
        BY <3>1, <4>1, <4>2 DEF Matching, Whole, Coming
      <4>3. CASE r # at[p]
        BY <1>0, <2>1, <3>1, <4>1, <4>3, MatchingStays
      <4> QED
        BY <4>2, <4>3
    <3>3. CASE PrepareRecord(p)
      <4>1. dir[at[p]] = "intact" /\ at[p] \in filed /\ UNCHANGED <<dir, filed>>
        BY <3>3 DEF PrepareRecord, PreparePC, Ownership, Owned
      <4>2. CASE recorded' = recorded \cup {at[p]}
        <5>1. CASE r = at[p]
          BY <4>1, <4>2, <5>1 DEF Matching, Whole, Backed
        <5>2. CASE r # at[p]
          BY <1>0, <2>1, <3>1, <4>1, <4>2, <5>2, MatchingStays
        <5> QED
          BY <5>1, <5>2
      <4>3. CASE Goto(p, "undo") /\ UNCHANGED <<recorded, execLocals>>
        <5>1. pc'[p] \in PreparePC /\ at' = at
          BY <4>3 DEF Goto, TypeOK, PreparePC
        <5> QED
          BY <1>0, <2>1, <3>1, <4>1, <4>3, <5>1, MatchingStays
      <4> QED
        BY <3>3, <4>2, <4>3 DEF PrepareRecord
    <3>4. CASE PrepareUndo(p)
      <4>1. /\ dir'[at[p]] = "absent" /\ recorded' = recorded
            /\ \A s \in Run : s # at[p] => dir'[s] = dir[s] /\ (s \in filed => s \in filed')
        BY <3>1, <3>4 DEF PrepareUndo, TypeOK
      <4>2. CASE r = at[p]
        BY <3>1, <4>1, <4>2 DEF Matching, Whole, Backed
      <4>3. CASE r # at[p]
        BY <1>0, <2>1, <3>1, <4>1, <4>3, MatchingStays
      <4> QED
        BY <4>2, <4>3
    <3> QED
      BY <1>2, <2>3, <3>2, <3>3, <3>4 DEF Prepare, PrepareBegin, PreparePC
  <2> QED
    BY <1>2, <2>2, <2>3
       DEF Prepare, PrepareClone, PrepareWrite, PrepareRecord, PrepareUndo, PreparePC
<1>3. ASSUME NEW p \in Proc, Execute(p)
      PROVE  Matching(r)'
  <2>1. /\ pc[p] \notin {"remove", "purge"} \cup PreparePC
        /\ UNCHANGED <<recorded, dir>> /\ filed \subseteq filed'
    BY <1>3 DEF Execute, ExecuteBegin, ExecuteLock, ExecuteRelist, ExecuteStart, ExecuteExpire,
                ExecuteReap, ExecuteFile, ExecuteRow, SupervisePC, PreparePC
  <2> QED
    BY <1>0, <1>3, <2>1, MatchingStays DEF Step
<1>4. ASSUME NEW p \in Proc, Clean(p)
      PROVE  Matching(r)'
  <2>1. Step(p)
    BY <1>4 DEF Step
  <2>2. CASE CleanBegin(p) \/ CleanScan(p) \/ CleanRefuse(p) \/ CleanScanned(p)
    <3>1. /\ pc[p] \notin {"remove", "purge"} \cup PreparePC
          /\ UNCHANGED <<recorded, dir, filed>>
      BY <2>2 DEF CleanBegin, CleanScan, CleanRefuse, CleanScanned, PreparePC
    <3> QED
      BY <1>0, <2>1, <3>1, MatchingStays
  <2>3. CASE CleanTear(p) \/ CleanRemove(p)
    <3>1. PICK s \in left[p] :
            /\ dir[s] = "intact" \/ dir'[s] = "absent"
            /\ \A t \in Run : t # s => dir'[t] = dir[t] /\ (t \in filed => t \in filed')
      BY <2>3 DEF CleanTear, CleanRemove, TypeOK
    <3>2. /\ pc[p] = "remove" /\ s \in doomed[p] /\ s \in Run
          /\ UNCHANGED <<recorded, pc, doomed, at>>
      BY <2>3, <3>1 DEF CleanTear, CleanRemove, Known, TypeOK
    <3>3. CASE r = s
      <4>1. Leaving(r)'
        BY <3>2, <3>3 DEF Leaving
      <4>2. Backed(r)' \/ Coming(r)'
        BY <1>0, <3>1, <3>2, <3>3 DEF Matching, Backed, Coming
      <4> QED
        BY <4>1, <4>2 DEF Matching
    <3>4. CASE r # s
      BY <1>0, <2>1, <3>1, <3>2, <3>4, MatchingStays
    <3> QED
      BY <3>3, <3>4
  <2>4. CASE CleanUnsafe(p)
    BY <2>4, Faults DEF CleanUnsafe, Unharmed, TypeOK
  <2>5. CASE CleanRemoved(p)
    <3>1. /\ pc[p] = "remove" /\ pc'[p] = "purge" /\ UNCHANGED <<recorded, dir, filed, doomed>>
      BY <2>5 DEF CleanRemoved, Goto, TypeOK
    <3> QED
      BY <1>0, <2>1, <3>1, MatchingStays DEF PreparePC
  <2>6. CASE CleanPurge(p)
    <3>1. /\ pc[p] = "purge" /\ recorded' = recorded \ doomed[p]
          /\ UNCHANGED <<dir, filed>>
      BY <2>6 DEF CleanPurge
    <3>2. CASE r \in doomed[p]
      <4>1. dir[r] = "absent"
        BY <3>1, <3>2 DEF Deleting
      <4> QED
        BY <3>1, <3>2, <4>1 DEF Matching, Whole, Backed
    <3>3. CASE r \notin doomed[p]
      BY <1>0, <2>1, <3>1, <3>3, MatchingStays DEF PreparePC
    <3> QED
      BY <3>2, <3>3
  <2>7. ~CleanFails(p)
    BY Faults
  <2> QED
    BY <1>4, <2>2, <2>3, <2>4, <2>5, <2>6, <2>7 DEF Clean
<1>5. \A p \in Proc : ~Crash(p)
  BY Faults
<1> QED
  BY <1>1, <1>2, <1>3, <1>4, <1>5, Steps DEF Step

\* The invariant is inductive.
LEMMA AuditInduction == Spec => []LInv
<1>1. Init => Audit
  <2> SUFFICES ASSUME Init
               PROVE  Audit
    OBVIOUS
  <2>1. Locks /\ StrayKept /\ Unharmed
    BY NoProcAssumption DEF Init, Locks, StrayKept, Unharmed
  <2>2. \A p \in Proc : Holding(p) /\ Deleting(p) /\ Looking(p)
    BY DEF Init, Holding, Deleting, Looking, HeldPC, ActivePC, SupervisePC
  <2>3. \A r \in Run : Authentic(r) /\ Mirrored(r)
    BY DEF Init, Authentic, Mirrored
  <2>4. DiskMatchesTable
    BY DEF Init, DiskMatchesTable
  <2> QED
    BY <2>1, <2>2, <2>3, <2>4 DEF Audit
<1>2. LInv /\ [Next]_vars => Audit'
  BY LocksKept, HoldingKept, DeletingKept, LookingKept, AuthenticKept, MirroredKept, StrayStays,
     UnharmedKept, DiskKept DEF Audit
<1>3. IInv /\ Audit /\ [Next]_vars => Audit'
  BY <1>2 DEF LInv
<1>4. LInv <=> IInv /\ Audit
  BY DEF LInv
<1> QED
  BY <1>1, <1>3, <1>4, Induction, PTL DEF Spec

-----------------------------------------------------------------------------
(***************************************************************************)
(* The theorems.                                                           *)
(***************************************************************************)

\* The row of a run whose workspace is elsewhere is never deleted, and from the time it
\* is old every Clean lists it and gives up with nothing removed.
THEOREM StrayRowsKept == Spec => StrayStopsClean
<1>1. ASSUME LInv, [Next]_vars
      PROVE  /\ Stray \subseteq recorded'
             /\ \A p \in Proc :
                  /\ pc[p] = "idle" /\ pc'[p] = "scan" => Stray \cap old \subseteq todo'[p]
                  /\ Stray \cap todo[p] # {} =>
                        /\ pc'[p] = "idle" \/ Stray \cap todo'[p] = Stray \cap todo[p]
                        /\ Clean(p) => recorded' = recorded /\ dir' = dir
  BY <1>1, StrayStays, StrayHolds DEF StrayKept
<1>2. LInv /\ [Next]_vars
        => [/\ Stray \subseteq recorded'
            /\ \A p \in Proc :
                 /\ pc[p] = "idle" /\ pc'[p] = "scan" => Stray \cap old \subseteq todo'[p]
                 /\ Stray \cap todo[p] # {} =>
                       /\ pc'[p] = "idle" \/ Stray \cap todo'[p] = Stray \cap todo[p]
                       /\ Clean(p) => recorded' = recorded /\ dir' = dir]_vars
  BY <1>1
<1> QED
  BY <1>2, AuditInduction, PTL DEF Spec, StrayStopsClean

\* The file is the row's log, or that with the record of the Execute that holds the
\* lock or has failed to write the row.
THEOREM ContractMirrorsRow == Spec => []ContractAheadByOne
<1>1. LInv => ContractAheadByOne
  BY DEF LInv, IInv, TypeOK, Audit, Mirrored, ContractAheadByOne
<1> QED
  BY <1>1, AuditInduction, PTL

\* A record is made when its command is over, and nobody works on its request then.
THEOREM RecordsTrue == Spec => []RecordsAuthentic
<1>1. LInv => RecordsAuthentic
  BY DEF LInv, IInv, TypeOK, Audit, Authentic, RecordsAuthentic
<1> QED
  BY <1>1, AuditInduction, PTL

\* Without a fault, rows and directories go together outside of the operations.
THEOREM DiskAgrees == Spec => []DiskMatchesTable
<1>1. LInv => DiskMatchesTable
  BY DEF LInv, Audit
<1> QED
  BY <1>1, AuditInduction, PTL

\* The log a process has decoded is still the row's when it writes it back with one
\* record more.
THEOREM LogsGrow == Spec => LedgerOnlyGrows
<1>1. ASSUME LInv, [Next]_vars, NEW r \in recorded \cap recorded'
      PROVE  \/ rowLog'[r] = rowLog[r]
             \/ \E rec \in Record : rowLog'[r] = Append(rowLog[r], rec)
  <2>1. r \in Run
    BY <1>1 DEF LInv, IInv, TypeOK
  <2>2. ASSUME NEW p \in Proc, ExecuteRow(p)  PROVE RecordOf(p) \in Record
    BY <1>1, <2>2, RecordTyped DEF LInv, IInv, ExecuteRow
  <2> QED
    BY <1>1, <2>1, <2>2, Logs
<1>2. LInv /\ [Next]_vars
        => [\A r \in recorded \cap recorded' :
               \/ rowLog'[r] = rowLog[r]
               \/ \E rec \in Record : rowLog'[r] = Append(rowLog[r], rec)]_vars
  BY <1>1
<1> QED
  BY <1>2, AuditInduction, PTL DEF Spec, LedgerOnlyGrows

-----------------------------------------------------------------------------
(***************************************************************************)
(* AgentRuns implements RunLedger: the abstract state, run by run.         *)
(***************************************************************************)

StatusOf(r) ==
    IF r \in recorded THEN "kept"
    ELSE IF r \notin born \/ Coming(r) THEN "unborn" ELSE "gone"

ActiveOf(r) ==
    IF lock[r] \in Proc /\ pc[lock[r]] \in ActivePC THEN cmd[lock[r]] ELSE 0

\* The Execute of p has a command under way in r.
UnderWay(p, r) == pc[p] \in ActivePC /\ at[p] = r

\* The active command of a run is that of the one Execute that is under way in it.
ActiveIs(r) ==
    /\ \A p \in Proc : UnderWay(p, r) => ActiveOf(r) = cmd[p]
    /\ (\A p \in Proc : ~UnderWay(p, r)) => ActiveOf(r) = 0

LEMMA ActiveKnown == LInv => \A r \in Run : ActiveIs(r)
<1> SUFFICES ASSUME LInv, NEW r \in Run
             PROVE  ActiveIs(r)
  OBVIOUS
<1>1. ASSUME NEW p \in Proc, UnderWay(p, r)  PROVE ActiveOf(r) = cmd[p]
  BY <1>1 DEF UnderWay, ActiveOf, LInv, IInv, Guards, Locking, LockedPC, ActivePC
<1>2. ASSUME \A p \in Proc : ~UnderWay(p, r)  PROVE ActiveOf(r) = 0
  <2>1. ASSUME lock[r] \in Proc, pc[lock[r]] \in ActivePC  PROVE FALSE
    BY <1>2, <2>1 DEF UnderWay, LInv, Audit, Locks, ActivePC, CleanPC
  <2> QED
    BY <2>1 DEF ActiveOf
<1> QED
  BY <1>1, <1>2 DEF ActiveIs

LEMMA ActiveKnownNext == LInv' => (\A r \in Run : ActiveIs(r))'
BY ActiveKnown, PTL

\* What a step does to the abstract state, by what it does to its process.
Kept(r) == StatusOf(r)' = StatusOf(r)
Still(r) == ActiveOf(r)' = ActiveOf(r)

LEMMA OthersStill ==
    ASSUME LInv, LInv', NEW p \in Proc, Step(p), NEW r \in Run,
           ~UnderWay(p, r), ~UnderWay(p, r)'
    PROVE  Still(r)
<1>1. \A o \in Proc : o # p => UnderWay(o, r)' = UnderWay(o, r) /\ cmd'[o] = cmd[o]
  BY OthersStand DEF LInv, IInv, Unmoved, UnderWay
<1>2. ActiveIs(r) /\ ActiveIs(r)'
  BY ActiveKnown, ActiveKnownNext
<1>3. CASE \E o \in Proc : UnderWay(o, r)
  BY <1>1, <1>2, <1>3 DEF ActiveIs, Still
<1>4. CASE \A o \in Proc : ~UnderWay(o, r)
  BY <1>1, <1>2, <1>4 DEF ActiveIs, Still
<1> QED
  BY <1>3, <1>4

\* Only p itself comes to prepare a run or stops to.
LEMMA OthersCome ==
    ASSUME LInv, NEW p \in Proc, Step(p), NEW r \in Run,
           pc'[p] \in PreparePC /\ at'[p] = r <=> pc[p] \in PreparePC /\ at[p] = r
    PROVE  Coming(r)' <=> Coming(r)
<1>1. \A o \in Proc : o # p => pc'[o] = pc[o] /\ at'[o] = at[o]
  BY OthersStand DEF LInv, IInv, Unmoved
<1> QED
  BY <1>1 DEF Coming

-----------------------------------------------------------------------------
(***************************************************************************)
(* The steps of the ledger, from the abstract state run by run.            *)
(***************************************************************************)

LEMMA Stutters ==
    ASSUME rowLog' = rowLog, \A r \in Run : Kept(r) /\ Still(r)
    PROVE  UNCHANGED Ledger!ledgerVars
BY DEF Ledger!ledgerVars, Kept, Still, StatusOf, ActiveOf, Coming

LEMMA Opens ==
    ASSUME NEW r \in Run, StatusOf(r) = "unborn", StatusOf(r)' = "kept",
           \A s \in Run \ {r} : Kept(s), \A s \in Run : Still(s),
           rowLog' = [rowLog EXCEPT ![r] = <<>>]
    PROVE  Ledger!Open(r)
<1>1. [s \in Run |-> StatusOf(s)]' = [[s \in Run |-> StatusOf(s)] EXCEPT ![r] = "kept"]
  BY DEF Kept
<1>2. UNCHANGED [s \in Run |-> ActiveOf(s)]
  BY DEF Still
<1> QED
  BY <1>1, <1>2 DEF Ledger!Open, StatusOf, ActiveOf, Coming

LEMMA Discards ==
    ASSUME NEW r \in Run, StatusOf(r) = "unborn", StatusOf(r)' = "gone",
           \A s \in Run \ {r} : Kept(s), \A s \in Run : Still(s), rowLog' = rowLog
    PROVE  Ledger!Discard(r)
<1>1. [s \in Run |-> StatusOf(s)]' = [[s \in Run |-> StatusOf(s)] EXCEPT ![r] = "gone"]
  BY DEF Kept
<1>2. UNCHANGED [s \in Run |-> ActiveOf(s)]
  BY DEF Still
<1> QED
  BY <1>1, <1>2 DEF Ledger!Discard, StatusOf, ActiveOf, Coming

LEMMA Begins ==
    ASSUME NEW r \in Run, NEW c, StatusOf(r) = "kept", ActiveOf(r) = 0,
           \A s \in Run : ActiveOf(s) # c, ActiveOf(r)' = c,
           \A s \in Run \ {r} : Still(s), \A s \in Run : Kept(s), rowLog' = rowLog
    PROVE  Ledger!Begin(r, c)
BY DEF Ledger!Begin, Kept, Still, StatusOf, ActiveOf, Coming

LEMMA Finishes ==
    ASSUME NEW r \in Run, NEW rec, StatusOf(r) = "kept", ActiveOf(r) = rec.cmd,
           ActiveOf(r)' = 0, \A s \in Run \ {r} : Still(s), \A s \in Run : Kept(s),
           rowLog' = [rowLog EXCEPT ![r] = Append(rowLog[r], rec)]
    PROVE  Ledger!Finish(r, rec)
BY DEF Ledger!Finish, Kept, Still, StatusOf, ActiveOf, Coming

LEMMA Abandons ==
    ASSUME NEW r \in Run, ActiveOf(r) # 0, ActiveOf(r)' = 0,
           \A s \in Run \ {r} : Still(s), \A s \in Run : Kept(s), rowLog' = rowLog
    PROVE  Ledger!Abandon(r)
BY DEF Ledger!Abandon, Kept, Still, StatusOf, ActiveOf, Coming

LEMMA Retires ==
    ASSUME NEW gone \in SUBSET Run, \A r \in gone : ActiveOf(r) = 0 /\ StatusOf(r)' = "gone",
           \A s \in Run \ gone : Kept(s), \A s \in Run : Still(s), rowLog' = rowLog
    PROVE  Ledger!Retire(gone)
BY DEF Ledger!Retire, Kept, Still, StatusOf, ActiveOf, Coming

-----------------------------------------------------------------------------
(***************************************************************************)
(* Every step of AgentRuns is a step of the ledger or none.                *)
(***************************************************************************)

LedgerStep == Ledger!LedgerNext \/ UNCHANGED Ledger!ledgerVars

LEMMA AllStill ==
    ASSUME LInv, LInv', NEW p \in Proc, Step(p), pc'[p] \in ActivePC <=> pc[p] \in ActivePC,
           pc[p] \in ActivePC => at'[p] = at[p] /\ cmd'[p] = cmd[p]
    PROVE  \A r \in Run : Still(r)
<1> SUFFICES ASSUME NEW r \in Run
             PROVE  Still(r)
  OBVIOUS
<1>1. CASE UnderWay(p, r)
  <2>1. UnderWay(p, r)'
    BY <1>1 DEF UnderWay
  <2> QED
    BY <1>1, <2>1, ActiveKnown, ActiveKnownNext DEF ActiveIs, Still, UnderWay
<1>2. CASE ~UnderWay(p, r)
  <2>1. ~UnderWay(p, r)'
    BY <1>2 DEF UnderWay
  <2> QED
    BY <1>2, <2>1, OthersStill
<1> QED
  BY <1>1, <1>2

LEMMA AllKept ==
    ASSUME LInv, NEW p \in Proc, Step(p), UNCHANGED <<recorded, born>>,
           pc'[p] \in PreparePC <=> pc[p] \in PreparePC,
           pc[p] \in PreparePC => at'[p] = at[p]
    PROVE  \A r \in Run : Kept(r)
<1>1. \A r \in Run : Coming(r)' <=> Coming(r)
  BY OthersCome
<1> QED
  BY <1>1 DEF Kept, StatusOf

\* An Execute comes to the end of its command, or is killed before that.
LEMMA Over ==
    ASSUME LInv, LInv', NEW p \in Proc, Step(p), pc[p] \in ActivePC, pc'[p] \notin ActivePC,
           pc'[p] \notin PreparePC, UNCHANGED <<recorded, born>>, NEW r, r = at[p]
    PROVE  /\ r \in Run /\ cmd[p] \in Cmd
           /\ StatusOf(r) = "kept" /\ ActiveOf(r) = cmd[p] /\ ActiveOf(r)' = 0
           /\ \A s \in Run \ {r} : Still(s)
           /\ \A s \in Run : Kept(s)
<1>1. r \in Run /\ cmd[p] \in Cmd /\ r \in recorded /\ lock[r] = p
  BY DEF LInv, IInv, Working, ActivePC, LockedPC, Audit, Holding, Guards, Locking
<1>2. ActiveOf(r) = cmd[p]
  BY <1>1, ActiveKnown DEF ActiveIs, UnderWay
<1>3. ActiveOf(r)' = 0
  <2>1. ASSUME NEW o \in Proc, UnderWay(o, r)'  PROVE FALSE
    <3>1. o # p /\ UnderWay(o, r)
      BY <2>1, OthersStand DEF UnderWay, LInv, IInv, Unmoved
    <3> QED
      BY <1>1, <3>1 DEF UnderWay, LInv, IInv, Guards, Locking, ActivePC, LockedPC
  <2> QED
    BY <1>1, <2>1, ActiveKnownNext DEF ActiveIs
<1>4. \A s \in Run \ {r} : Still(s)
  BY OthersStill DEF UnderWay
<1>5. \A s \in Run : Kept(s)
  BY AllKept DEF ActivePC, PreparePC
<1> QED
  BY <1>1, <1>2, <1>3, <1>4, <1>5 DEF StatusOf

\* A Prepare ends without a row: its id is used up.
LEMMA Unrecorded ==
    ASSUME LInv, LInv', NEW p \in Proc, Step(p), pc[p] \in PreparePC,
           pc'[p] \notin PreparePC \cup ActivePC, UNCHANGED <<recorded, born, rowLog>>
    PROVE  LedgerStep
<1>1. PICK s \in Run : s = at[p]
  BY DEF LInv, IInv, Working
<1>2. s \in born /\ s \notin recorded /\ Coming(s) /\ ~Coming(s)'
  <2>1. s \in born /\ s \notin recorded /\ \A o \in Proc : o # p => at[o] # s
    BY <1>1 DEF LInv, IInv, Guards, Known, Ownership, Owned
  <2>2. \A o \in Proc : o # p => at'[o] # s
    BY <2>1, OthersStand DEF LInv, IInv, Unmoved
  <2> QED
    BY <1>1, <2>1, <2>2 DEF Coming
<1>3. StatusOf(s) = "unborn" /\ StatusOf(s)' = "gone"
  BY <1>2 DEF StatusOf
<1>4. \A t \in Run \ {s} : Kept(t)
  BY <1>1, OthersCome DEF Kept, StatusOf
<1>5. \A t \in Run : Still(t)
  BY AllStill DEF PreparePC, ActivePC
<1>6. Ledger!Discard(s)
  BY <1>3, <1>4, <1>5, Discards
<1> QED
  BY <1>6 DEF LedgerStep, Ledger!LedgerNext

\* An Execute ends without a record: nobody waits for its command any more.
LEMMA Unlogged ==
    ASSUME LInv, LInv', NEW p \in Proc, Step(p), pc[p] \in ActivePC, pc'[p] = "idle",
           UNCHANGED <<recorded, born, rowLog>>
    PROVE  LedgerStep
<1>1. PICK s : s = at[p]
  OBVIOUS
<1>2. /\ s \in Run /\ ActiveOf(s) \in Cmd /\ ActiveOf(s)' = 0
      /\ \A t \in Run \ {s} : Still(t)
      /\ \A t \in Run : Kept(t)
  BY <1>1, Over DEF ActivePC, PreparePC
<1>3. 0 \notin Cmd
  BY BoundsAssumption DEF Cmd
<1>4. Ledger!Abandon(s)
  BY <1>2, <1>3, Abandons
<1> QED
  BY <1>2, <1>4 DEF LedgerStep, Ledger!LedgerNext

\* A step within Prepare, within Execute or within Clean.
LEMMA Within ==
    ASSUME LInv, LInv', NEW p \in Proc, Step(p), UNCHANGED <<recorded, born, rowLog>>,
           \/ UNCHANGED pc /\ pc[p] \notin PreparePC \cup ActivePC
           \/ pc[p] \notin PreparePC \cup ActivePC /\ pc'[p] \notin PreparePC \cup ActivePC
           \/ pc[p] \in PreparePC /\ pc'[p] \in PreparePC /\ UNCHANGED at
           \/ pc[p] \in ActivePC /\ pc'[p] \in ActivePC /\ UNCHANGED <<at, cmd>>
    PROVE  LedgerStep
<1>1. PreparePC \cap ActivePC = {}
  BY DEF PreparePC, ActivePC
<1>2. \A r \in Run : Kept(r)
  BY <1>1, AllKept
<1>3. \A r \in Run : Still(r)
  BY <1>1, AllStill
<1> QED
  BY <1>2, <1>3, Stutters DEF LedgerStep

\* A run is kept from the transaction that inserts its row.
LEMMA PrepareSteps ==
    ASSUME LInv, LInv', NEW p \in Proc, Prepare(p)
    PROVE  LedgerStep
<1> USE DEF LInv, IInv, table, disk, groups, execLocals, cleanLocals
<1>0. Step(p)
  BY DEF Step
<1>1. CASE PrepareBegin(p)
  <2>1. PICK s \in Run \ born : born' = born \cup {s} /\ at' = [at EXCEPT ![p] = s]
    BY <1>1 DEF PrepareBegin
  <2>2. pc[p] = "idle" /\ pc'[p] = "clone" /\ at'[p] = s /\ UNCHANGED <<recorded, rowLog>>
    BY <1>1, <2>1 DEF PrepareBegin, Goto, TypeOK
  <2>3. \A t \in Run \ {s} : Kept(t)
    <3>1. \A t \in Run \ {s} : Coming(t)' <=> Coming(t)
      BY <1>0, <2>2, OthersCome DEF PreparePC
    <3> QED
      BY <2>1, <2>2, <3>1 DEF Kept, StatusOf
  <2>4. Kept(s)
    <3>1. Coming(s)' /\ s \notin recorded
      BY <2>2 DEF Coming, PreparePC, Guards, Known
    <3> QED
      BY <2>2, <3>1 DEF Kept, StatusOf
  <2>5. \A t \in Run : Still(t)
    BY <1>0, <2>2, AllStill DEF ActivePC
  <2> QED
    BY <2>2, <2>3, <2>4, <2>5, Stutters DEF LedgerStep
<1>2. CASE PrepareClone(p) \/ PrepareWrite(p)
  <2>1. /\ pc[p] \in PreparePC /\ pc'[p] \in PreparePC
        /\ UNCHANGED <<at, recorded, born, rowLog>>
    BY <1>2 DEF PrepareClone, PrepareWrite, PreparePC, Goto, TypeOK
  <2> QED
    BY <1>0, <2>1, Within
<1>3. CASE PrepareRecord(p)
  <2>1. CASE Goto(p, "undo") /\ UNCHANGED <<recorded, rowLog, execLocals>>
    <3>1. /\ pc[p] \in PreparePC /\ pc'[p] \in PreparePC
          /\ UNCHANGED <<at, recorded, born, rowLog>>
      BY <1>3, <2>1 DEF PrepareRecord, PreparePC, Goto, TypeOK
    <3> QED
      BY <1>0, <3>1, Within
  <2>2. CASE /\ recorded' = recorded \cup {at[p]}
             /\ rowLog' = [rowLog EXCEPT ![at[p]] = <<>>]
             /\ Return(p)
    <3>1. pc[p] = "record" /\ pc'[p] = "idle" /\ born' = born
      BY <1>3, <2>2, ReturnEffect DEF PrepareRecord
    <3>2. PICK s \in Run : s = at[p]
      BY <3>1 DEF Working, PreparePC
    <3>3. StatusOf(s) = "unborn" /\ StatusOf(s)' = "kept"
      BY <2>2, <3>1, <3>2 DEF StatusOf, Coming, PreparePC, Guards, Ownership, Owned
    <3>4. \A t \in Run \ {s} : Kept(t)
      <4>1. \A t \in Run \ {s} : Coming(t)' <=> Coming(t)
        BY <1>0, <3>1, <3>2, OthersCome DEF PreparePC
      <4> QED
        BY <2>2, <3>1, <3>2, <4>1 DEF Kept, StatusOf
    <3>5. \A t \in Run : Still(t)
      BY <1>0, <3>1, AllStill DEF ActivePC
    <3>6. Ledger!Open(s)
      BY <2>2, <3>2, <3>3, <3>4, <3>5, Opens
    <3> QED
      BY <3>6 DEF LedgerStep, Ledger!LedgerNext
  <2> QED
    BY <1>3, <2>1, <2>2 DEF PrepareRecord
<1>4. CASE PrepareUndo(p)
  <2>1. /\ pc[p] \in PreparePC /\ pc'[p] = "idle" /\ UNCHANGED <<recorded, born, rowLog>>
    BY <1>4, ReturnEffect DEF PrepareUndo, PreparePC
  <2> QED
    BY <1>0, <2>1, Unrecorded DEF PreparePC, ActivePC
<1> QED
  BY <1>1, <1>2, <1>3, <1>4 DEF Prepare

\* The command is active from its start to the record in the row, and another one
\* begins only in a run where none is.
LEMMA ExecuteSteps ==
    ASSUME LInv, LInv', NEW p \in Proc, Execute(p)
    PROVE  LedgerStep
<1> USE DEF LInv, IInv, table, disk, groups, execLocals, cleanLocals
<1>0. Step(p)
  BY DEF Step
<1>1. ASSUME pc[p] \notin PreparePC \cup ActivePC, pc'[p] \notin PreparePC \cup ActivePC,
             UNCHANGED <<recorded, born, rowLog>>
      PROVE  LedgerStep
  BY <1>0, <1>1, Within
<1>2. ASSUME pc[p] \in ActivePC, pc'[p] = "idle", UNCHANGED <<recorded, born, rowLog>>
      PROVE  LedgerStep
  BY <1>0, <1>2, Unlogged
<1>3. CASE ExecuteBegin(p) \/ ExecuteLock(p) \/ ExecuteRelist(p)
  <2>1. /\ pc[p] \in {"idle", "lock", "relist"} /\ pc'[p] \in {"idle", "lock", "relist", "start"}
        /\ UNCHANGED <<recorded, born, rowLog>>
    BY <1>3, ReturnEffect DEF ExecuteBegin, ExecuteLock, ExecuteRelist, Goto, TypeOK
  <2> QED
    BY <1>1, <2>1 DEF PreparePC, ActivePC
<1>4. CASE ExecuteStart(p)
  <2>1. pc[p] = "start" /\ UNCHANGED <<recorded, born, rowLog>>
    BY <1>4 DEF ExecuteStart
  <2>2. CASE Return(p)
    BY <1>1, <2>1, <2>2, ReturnEffect DEF PreparePC, ActivePC
  <2>3. CASE RunnableStorage(at[p]) /\ Goto(p, "run") /\ UNCHANGED <<lock, execLocals>>
    <3>1. PICK s : s = at[p]
      OBVIOUS
    <3>2. /\ s \in Run /\ cmd[p] \in Cmd /\ lock[s] = p /\ s \in recorded
          /\ pc'[p] = "run" /\ at' = at /\ cmd' = cmd
      BY <2>1, <2>3, <3>1
         DEF Working, Guards, Locking, LockedPC, Audit, Holding, RunnableStorage, Goto, TypeOK
    <3>3. ActiveOf(s) = 0
      <4>1. \A o \in Proc : ~UnderWay(o, s)
        BY <2>1, <3>2 DEF UnderWay, Guards, Locking, LockedPC, ActivePC
      <4> QED
        BY <3>2, <4>1, ActiveKnown DEF ActiveIs
    <3>4. \A t \in Run : ActiveOf(t) # cmd[p]
      <4> SUFFICES ASSUME NEW t \in Run, ActiveOf(t) = cmd[p]  PROVE FALSE
        OBVIOUS
      <4>1. cmd[p] # 0
        BY <3>2, BoundsAssumption DEF Cmd
      <4>2. PICK o \in Proc : UnderWay(o, t)
        BY <4>1, ActiveKnown DEF ActiveIs
      <4>3. cmd[o] = cmd[p]
        BY <4>2, ActiveKnown DEF ActiveIs
      <4> QED
        BY <2>1, <4>1, <4>2, <4>3 DEF UnderWay, ActivePC, Guards, Requests
    <3>5. ActiveOf(s)' = cmd[p]
      <4>1. UnderWay(p, s)'
        BY <3>1, <3>2 DEF UnderWay, ActivePC
      <4> QED
        BY <3>2, <4>1, ActiveKnownNext DEF ActiveIs
    <3>6. \A t \in Run \ {s} : Still(t)
      BY <1>0, <3>1, <3>2, OthersStill DEF UnderWay
    <3>7. \A t \in Run : Kept(t)
      BY <1>0, <2>1, <3>2, AllKept DEF PreparePC
    <3>8. StatusOf(s) = "kept"
      BY <3>2 DEF StatusOf
    <3>9. PICK c \in Cmd : c = cmd[p]
      BY <3>2
    <3>10. Ledger!Begin(s, c)
      BY <2>1, <3>2, <3>3, <3>4, <3>5, <3>6, <3>7, <3>8, <3>9, Begins
    <3> QED
      BY <3>2, <3>10 DEF LedgerStep, Ledger!LedgerNext
  <2> QED
    BY <1>4, <2>2, <2>3 DEF ExecuteStart
<1>5. CASE ExecuteExpire(p)
  <2>1. /\ pc[p] \in ActivePC /\ pc'[p] \in ActivePC
        /\ UNCHANGED <<at, cmd, recorded, born, rowLog>>
    BY <1>5 DEF ExecuteExpire, ActivePC, Goto, TypeOK
  <2> QED
    BY <1>0, <2>1, Within
<1>6. CASE ExecuteReap(p) \/ ExecuteFile(p)
  <2>1. pc[p] \in ActivePC /\ UNCHANGED <<recorded, born, rowLog>>
    BY <1>6 DEF ExecuteReap, ExecuteFile, SupervisePC, ActivePC
  <2>2. CASE Return(p)
    BY <1>2, <2>1, <2>2, ReturnEffect
  <2>3. ASSUME NEW label \in {"file", "row"}, Goto(p, label), UNCHANGED <<at, cmd>>
        PROVE  LedgerStep
    <3>1. pc'[p] \in ActivePC
      BY <2>3 DEF Goto, TypeOK, ActivePC
    <3> QED
      BY <1>0, <2>1, <2>3, <3>1, Within
  <2> QED
    BY <1>6, <2>2, <2>3 DEF ExecuteReap, ExecuteFile
<1>7. CASE ExecuteRow(p)
  <2>1. /\ pc[p] = "row" /\ pc[p] \in ActivePC /\ pc'[p] = "idle"
        /\ UNCHANGED <<recorded, born>>
    BY <1>7, ReturnEffect DEF ExecuteRow, ActivePC
  <2>2. CASE UNCHANGED rowLog
    BY <1>2, <2>1, <2>2
  <2>3. CASE rowLog' = IF at[p] \in recorded
                       THEN [rowLog EXCEPT ![at[p]] = Append(snap[p], RecordOf(p))]
                       ELSE rowLog
    <3>1. PICK s : s = at[p]
      OBVIOUS
    <3>2. /\ s \in Run /\ StatusOf(s) = "kept" /\ ActiveOf(s) = cmd[p] /\ ActiveOf(s)' = 0
          /\ \A t \in Run \ {s} : Still(t)
          /\ \A t \in Run : Kept(t)
      BY <1>0, <2>1, <3>1, Over DEF ActivePC, PreparePC
    <3>3. s \in recorded /\ snap[p] = rowLog[s]
      BY <2>1, <3>1 DEF Audit, Holding, HeldPC
    <3>4. rowLog' = [rowLog EXCEPT ![s] = Append(rowLog[s], RecordOf(p))]
      BY <2>3, <3>1, <3>3
    <3>5. PICK rec \in Record : rec = RecordOf(p)
      BY <2>1, RecordTyped
    <3>6. rec.cmd = cmd[p]
      BY <3>5 DEF RecordOf
    <3>7. Ledger!Finish(s, rec)
      BY <3>2, <3>4, <3>5, <3>6, Finishes
    <3> QED
      BY <3>2, <3>7 DEF LedgerStep, Ledger!LedgerNext
  <2> QED
    BY <1>7, <2>2, <2>3 DEF ExecuteRow
<1> QED
  BY <1>3, <1>4, <1>5, <1>6, <1>7 DEF Execute

\* A run is retired when its row is deleted, and no Execute is in its directory then.
LEMMA CleanSteps ==
    ASSUME LInv, LInv', NEW p \in Proc, Clean(p)
    PROVE  LedgerStep
<1> USE DEF LInv, IInv, table, disk, groups, execLocals, cleanLocals
<1>0. Step(p)
  BY DEF Step
<1>1. CASE CleanPurge(p)
  <2>1. /\ pc[p] = "purge" /\ pc'[p] = "idle" /\ recorded' = recorded \ doomed[p]
        /\ UNCHANGED <<born, rowLog>>
    BY <1>1, ReturnEffect DEF CleanPurge
  <2>2. PICK gone \in SUBSET Run : gone = recorded \cap doomed[p]
    BY DEF TypeOK
  <2>3. ASSUME NEW r \in gone  PROVE ActiveOf(r) = 0 /\ StatusOf(r)' = "gone"
    <3>1. r \in recorded /\ r \in doomed[p] /\ r \in Run /\ r \in born
      BY <2>2, <2>3 DEF Guards, Known
    <3>2. ASSUME NEW o \in Proc, UnderWay(o, r)  PROVE FALSE
      <4>1. lock[r] = o /\ dir[r] # "absent"
        BY <3>2 DEF UnderWay, Guards, Locking, LockedPC, ActivePC, Audit, Holding
      <4>2. lock[r] = p
        BY <3>1, <4>1 DEF Guards, Deletions
      <4> QED
        BY <2>1, <3>2, <4>1, <4>2 DEF UnderWay, ActivePC
    <3>3. ActiveOf(r) = 0
      BY <3>1, <3>2, ActiveKnown DEF ActiveIs
    <3>4. ~Coming(r)
      BY <3>1 DEF Coming, Guards, Ownership, Owned
    <3>5. ~Coming(r)'
      BY <1>0, <2>1, <3>1, <3>4, OthersCome DEF PreparePC
    <3> QED
      BY <2>1, <3>1, <3>3, <3>5 DEF StatusOf
  <2>4. \A t \in Run \ gone : Kept(t)
    <3>1. \A t \in Run : Coming(t)' <=> Coming(t)
      BY <1>0, <2>1, OthersCome DEF PreparePC
    <3> QED
      BY <2>1, <2>2, <3>1 DEF Kept, StatusOf
  <2>5. \A t \in Run : Still(t)
    BY <1>0, <2>1, AllStill DEF ActivePC
  <2>6. Ledger!Retire(gone)
    BY <2>1, <2>3, <2>4, <2>5, Retires
  <2> QED
    BY <2>6 DEF LedgerStep, Ledger!LedgerNext
<1>2. CASE ~CleanPurge(p)
  <2>1. /\ pc[p] \in CleanPC \cup {"idle"} /\ pc'[p] \in CleanPC \cup {"idle"}
        /\ UNCHANGED <<recorded, born, rowLog>>
    <3>1. CASE Return(p)
      BY <1>2, <3>1, ReturnEffect
         DEF Clean, CleanBegin, CleanScan, CleanRefuse, CleanScanned, CleanTear, CleanRemove,
             CleanUnsafe, CleanRemoved, CleanFails, CleanPC
    <3>2. CASE ~Return(p)
      BY <1>2, <3>2
         DEF Clean, CleanBegin, CleanScan, CleanRefuse, CleanScanned, CleanTear, CleanRemove,
             CleanUnsafe, CleanRemoved, CleanFails, CleanPC, Goto, TypeOK
    <3> QED
      BY <3>1, <3>2
  <2> QED
    BY <1>0, <2>1, Within DEF CleanPC, PreparePC, ActivePC
<1> QED
  BY <1>1, <1>2

\* A killed Prepare leaves no run, a killed Execute no record.
LEMMA CrashSteps ==
    ASSUME LInv, LInv', NEW p \in Proc, Crash(p)
    PROVE  LedgerStep
<1> USE DEF LInv, IInv, table, disk, groups, execLocals, cleanLocals
<1>0. Step(p)
  BY DEF Step
<1>1. pc'[p] = "idle" /\ UNCHANGED <<recorded, born, rowLog>>
  BY ReturnEffect DEF Crash
<1>2. CASE pc[p] \in PreparePC
  BY <1>0, <1>1, <1>2, Unrecorded DEF PreparePC, ActivePC
<1>3. CASE pc[p] \in ActivePC
  BY <1>0, <1>1, <1>3, Unlogged
<1>4. CASE pc[p] \notin PreparePC \cup ActivePC
  BY <1>0, <1>1, <1>4, Within DEF PreparePC, ActivePC
<1> QED
  BY <1>2, <1>3, <1>4

\* Nothing the surroundings do is seen in the ledger.
LEMMA AroundSteps ==
    ASSUME LInv, Surroundings
    PROVE  LedgerStep
<1>1. UNCHANGED <<pc, at, cmd, lock, recorded, rowLog, born>>
  BY AroundThem DEF LInv, IInv
<1>2. \A r \in Run : Kept(r) /\ Still(r)
  BY <1>1 DEF Kept, Still, StatusOf, ActiveOf, Coming
<1> QED
  BY <1>1, <1>2, Stutters DEF LedgerStep

\* Prepare, Execute and Clean implement the ledger: a run comes into being once, its log
\* grows by the record of the one command under way in it, whatever is killed or fails
\* in between, and it is retired only while no command is under way.
THEOREM LedgerImplemented == Spec => ImplementsLedger
<1>1. Init => Ledger!LedgerInit
  <2> SUFFICES ASSUME Init
               PROVE  Ledger!LedgerInit
    OBVIOUS
  <2> QED
    BY NoProcAssumption DEF Init, Ledger!LedgerInit
<1>2. LInv /\ LInv' /\ [Next]_vars => [Ledger!LedgerNext]_(Ledger!ledgerVars)
  BY PrepareSteps, ExecuteSteps, CleanSteps, CrashSteps, AroundSteps, Steps
     DEF Step, LedgerStep
<1> QED
  BY <1>1, <1>2, AuditInduction, PTL DEF Spec, ImplementsLedger, Ledger!LedgerSpec
=============================================================================
