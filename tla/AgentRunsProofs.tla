--------------------------- MODULE AgentRunsProofs ---------------------------
(***************************************************************************)
(* Theorems about AgentRuns, for any sets of runs and processes and any    *)
(* bounds: its types, and by an inductive invariant that operations own    *)
(* the runs they work on.                                                  *)
(***************************************************************************)
EXTENDS AgentRuns, TLAPS

\* A process in the middle of Prepare has a run, one in the middle of Execute a run
\* and a request.
Working ==
    \A p \in Proc :
        /\ pc[p] \in PreparePC => at[p] \in Run
        /\ pc[p] \in LockedPC \cup {"lock"} => at[p] \in Run /\ cmd[p] \in Cmd

\* What a return leaves behind has the right types.
LEMMA ReturnTyped ==
    ASSUME TypeOK, Working, NEW p \in Proc, Return(p)
    PROVE  /\ lock' \in [Run -> Proc \cup {NoProc}]
           /\ pc' \in [Proc -> PC]
           /\ at' \in [Proc -> Run \cup {NoRun}]
           /\ snap' \in [Proc -> Seq(Record)]
           /\ cmd' \in [Proc -> Cmd \cup {0}]
           /\ why' \in [Proc -> Why]
           /\ todo' \in [Proc -> SUBSET Run]
           /\ doomed' \in [Proc -> SUBSET Run]
           /\ left' \in [Proc -> SUBSET Run]
           /\ Working'
  BY DEF Return, Goto, TypeOK, Working, PC, PreparePC, LockedPC, CleanPC, Why

\* What a move within an operation does to pc.
LEMMA GotoTyped ==
    ASSUME TypeOK, NEW p \in Proc, NEW label \in PC, Goto(p, label)
    PROVE  /\ pc' \in [Proc -> PC]
           /\ pc'[p] = label
           /\ \A q \in Proc \ {p} : pc'[q] = pc[q]
  BY DEF Goto, TypeOK

\* A move keeps Working when the process has what its new label needs.
LEMMA GotoWorking ==
    ASSUME TypeOK, Working, NEW p \in Proc, NEW label \in PC, Goto(p, label),
           UNCHANGED <<at, cmd>>,
           label \in PreparePC => at[p] \in Run,
           label \in LockedPC \cup {"lock"} => at[p] \in Run /\ cmd[p] \in Cmd
    PROVE  Working'
  BY GotoTyped DEF Working

\* The record an Execute appends is a record.
LEMMA RecordTyped ==
    ASSUME TypeOK, Working, NEW p \in Proc, pc[p] \in {"file", "row"}
    PROVE  RecordOf(p) \in Record
  BY DEF RecordOf, ExitCode, Record, TypeOK, Working, LockedPC

LEMMA FaultTyped ==
    ASSUME TypeOK, Fault
    PROVE  faults' \in 0..MaxFaults
  BY BoundsAssumption DEF Fault, TypeOK

\* The steps of Prepare, Execute and Clean keep the types.
LEMMA PrepareTyped ==
    ASSUME TypeOK, Working, NEW p \in Proc, Prepare(p)
    PROVE  TypeOK' /\ Working'
<1> USE DEF table, disk, groups, execLocals, cleanLocals
<1>1. CASE PrepareBegin(p)
  <2>1. PICK r \in Run \ born : /\ born' = born \cup {r}
                                /\ dir' = [dir EXCEPT ![r] = "bare"]
                                /\ at' = [at EXCEPT ![p] = r]
    BY <1>1 DEF PrepareBegin
  <2>2. pc' \in [Proc -> PC] /\ dir' \in [Run -> DirState]
    BY <1>1, <2>1 DEF PrepareBegin, TypeOK, Goto, PC, PreparePC, DirState
  <2>3. Working'
    BY <1>1, <2>1 DEF PrepareBegin, TypeOK, Working, Goto, PC, PreparePC, LockedPC
  <2> QED
    BY <1>1, <2>1, <2>2, <2>3 DEF PrepareBegin, TypeOK
<1>2. CASE PrepareClone(p)
  <2>1. pc' \in [Proc -> PC]
    BY <1>2 DEF PrepareClone, TypeOK, Goto, PC, PreparePC
  <2>2. dir' \in [Run -> DirState]
    BY <1>2 DEF PrepareClone, TypeOK, DirState
  <2>3. Working'
    BY <1>2, GotoWorking DEF PrepareClone, Working, PC, PreparePC, LockedPC
  <2> QED
    BY <1>2, <2>1, <2>2, <2>3 DEF PrepareClone, TypeOK
<1>3. CASE PrepareWrite(p)
  <2>1. pc' \in [Proc -> PC]
    BY <1>3 DEF PrepareWrite, TypeOK, Goto, PC, PreparePC
  <2>2. at[p] \in Run
    BY <1>3 DEF PrepareWrite, Working, PreparePC
  <2>3. filed' \subseteq Run
    BY <1>3, <2>2 DEF PrepareWrite, TypeOK
  <2>4. contract' \in [Run -> Seq(Record)]
    <3>1. <<>> \in Seq(Record)
      OBVIOUS
    <3> QED
      BY <1>3, <3>1 DEF PrepareWrite, TypeOK
  <2>5. Working'
    BY <1>3, GotoWorking DEF PrepareWrite, Working, PC, PreparePC, LockedPC
  <2> QED
    BY <1>3, <2>1, <2>3, <2>4, <2>5 DEF PrepareWrite, TypeOK
<1>4. CASE PrepareRecord(p)
  <2>1. at[p] \in Run
    BY <1>4 DEF PrepareRecord, Working, PreparePC
  <2>2. CASE Return(p)
    <3>1. recorded' \subseteq Run
      BY <1>4, <2>1 DEF PrepareRecord, TypeOK
    <3>2. rowLog' \in [Run -> Seq(Record)]
      <4>1. <<>> \in Seq(Record)
        OBVIOUS
      <4> QED
        BY <1>4, <4>1 DEF PrepareRecord, TypeOK
    <3> QED
      BY <1>4, <2>2, <3>1, <3>2, ReturnTyped DEF PrepareRecord, TypeOK
  <2>3. CASE Goto(p, "undo") /\ UNCHANGED <<recorded, rowLog, lock, execLocals, cleanLocals>>
    <3>1. pc' \in [Proc -> PC]
      BY <2>3 DEF TypeOK, Goto, PC, PreparePC
    <3>2. Working'
      BY <2>1, <2>3, GotoWorking DEF PC, PreparePC, LockedPC
    <3> QED
      BY <1>4, <2>3, <3>1, <3>2 DEF PrepareRecord, TypeOK
  <2> QED
    BY <1>4, <2>2, <2>3 DEF PrepareRecord
<1>5. CASE PrepareUndo(p)
  <2>1. dir' \in [Run -> DirState]
    BY <1>5 DEF PrepareUndo, TypeOK, DirState
  <2> QED
    BY <1>5, <2>1, ReturnTyped DEF PrepareUndo, TypeOK
<1> QED
  BY <1>1, <1>2, <1>3, <1>4, <1>5 DEF Prepare

LEMMA ExecuteTyped ==
    ASSUME TypeOK, Working, NEW p \in Proc, Execute(p)
    PROVE  TypeOK' /\ Working'
<1> USE DEF table, disk, groups, execLocals, cleanLocals
<1>1. CASE ExecuteBegin(p)
  <2>1. PICK r \in recorded : at' = [at EXCEPT ![p] = r]
    BY <1>1 DEF ExecuteBegin
  <2>2. pc' \in [Proc -> PC] /\ at' \in [Proc -> Run \cup {NoRun}]
    BY <1>1, <2>1 DEF ExecuteBegin, TypeOK, Goto, PC
  <2>3. issued + 1 \in Cmd /\ issued' \in 0..MaxCommands
    BY <1>1, BoundsAssumption DEF ExecuteBegin, TypeOK, Cmd
  <2>4. cmd' \in [Proc -> Cmd \cup {0}]
    BY <1>1, <2>3 DEF ExecuteBegin, TypeOK
  <2>5. Working'
    BY <1>1, <2>1, <2>3 DEF ExecuteBegin, TypeOK, Working, Goto, PC, PreparePC, LockedPC
  <2> QED
    BY <1>1, <2>2, <2>3, <2>4, <2>5 DEF ExecuteBegin, TypeOK
<1>2. CASE ExecuteLock(p)
  <2>1. CASE Return(p)
    BY <1>2, <2>1, ReturnTyped DEF ExecuteLock, TypeOK
  <2>2. CASE /\ lock' = [lock EXCEPT ![at[p]] = p]
             /\ Goto(p, "relist")
             /\ UNCHANGED <<execLocals, cleanLocals>>
    <3>1. pc' \in [Proc -> PC]
      BY <2>2 DEF TypeOK, Goto, PC, LockedPC
    <3>2. lock' \in [Run -> Proc \cup {NoProc}]
      BY <2>2 DEF TypeOK
    <3>3. Working'
      BY <1>2, <2>2, GotoWorking DEF ExecuteLock, Working, PC, PreparePC, LockedPC
    <3> QED
      BY <1>2, <2>2, <3>1, <3>2, <3>3 DEF ExecuteLock, TypeOK
  <2> QED
    BY <1>2, <2>1, <2>2 DEF ExecuteLock
<1>3. CASE ExecuteRelist(p)
  <2>1. CASE Return(p)
    BY <1>3, <2>1, ReturnTyped DEF ExecuteRelist, TypeOK
  <2>2. CASE /\ at[p] \in recorded
             /\ snap' = [snap EXCEPT ![p] = rowLog[at[p]]]
             /\ Goto(p, "start")
             /\ UNCHANGED <<lock, at, cmd, why, cleanLocals>>
    <3>1. pc' \in [Proc -> PC]
      BY <2>2 DEF TypeOK, Goto, PC, LockedPC
    <3>2. snap' \in [Proc -> Seq(Record)]
      BY <2>2 DEF TypeOK
    <3>3. Working'
      BY <1>3, <2>2, GotoWorking DEF ExecuteRelist, Working, PC, PreparePC, LockedPC
    <3> QED
      BY <1>3, <2>2, <3>1, <3>2, <3>3 DEF ExecuteRelist, TypeOK
  <2> QED
    BY <1>3, <2>1, <2>2 DEF ExecuteRelist
<1>4. CASE ExecuteStart(p)
  <2>1. at[p] \in Run /\ cmd[p] \in Cmd
    BY <1>4 DEF ExecuteStart, Working, LockedPC
  <2>2. /\ cmdState' \in [Cmd -> CmdState]
        /\ cmdRun' \in [Cmd -> Run \cup {NoRun}]
    BY <1>4, <2>1 DEF ExecuteStart, TypeOK, CmdState
  <2>3. CASE Return(p)
    BY <1>4, <2>2, <2>3, ReturnTyped DEF ExecuteStart, TypeOK
  <2>4. CASE Goto(p, "run") /\ UNCHANGED <<lock, execLocals, cleanLocals>>
    <3>1. pc' \in [Proc -> PC]
      BY <2>4 DEF TypeOK, Goto, PC, LockedPC
    <3>2. Working'
      BY <2>1, <2>4, GotoWorking DEF PC, PreparePC, LockedPC
    <3> QED
      BY <1>4, <2>2, <2>4, <3>1, <3>2 DEF ExecuteStart, TypeOK
  <2> QED
    BY <1>4, <2>3, <2>4 DEF ExecuteStart
<1>5. CASE ExecuteExpire(p)
  <2>1. /\ why' \in [Proc -> Why]
        /\ cmdState' \in [Cmd -> CmdState]
    BY <1>5 DEF ExecuteExpire, TypeOK, CmdState, Why
  <2>2. pc' \in [Proc -> PC]
    BY <1>5 DEF ExecuteExpire, TypeOK, Goto, PC, LockedPC
  <2>3. Working'
    BY <1>5, GotoWorking DEF ExecuteExpire, Working, PC, PreparePC, LockedPC
  <2> QED
    BY <1>5, <2>1, <2>2, <2>3 DEF ExecuteExpire, TypeOK
<1>6. CASE ExecuteReap(p)
  <2>1. CASE Return(p)
    BY <1>6, <2>1, ReturnTyped DEF ExecuteReap, TypeOK
  <2>2. CASE Goto(p, "file") /\ UNCHANGED <<lock, execLocals, cleanLocals>>
    <3>1. pc' \in [Proc -> PC]
      BY <2>2 DEF TypeOK, Goto, PC, LockedPC
    <3>2. Working'
      BY <1>6, <2>2, GotoWorking
         DEF ExecuteReap, SupervisePC, Working, PC, PreparePC, LockedPC
    <3> QED
      BY <1>6, <2>2, <3>1, <3>2 DEF ExecuteReap, TypeOK
  <2> QED
    BY <1>6, <2>1, <2>2 DEF ExecuteReap
<1>7. CASE ExecuteFile(p)
  <2>1. at[p] \in Run /\ snap[p] \in Seq(Record) /\ RecordOf(p) \in Record
    BY <1>7, RecordTyped DEF ExecuteFile, TypeOK, Working, LockedPC
  <2>2. filed' \subseteq Run /\ contract' \in [Run -> Seq(Record)]
    <3>1. Append(snap[p], RecordOf(p)) \in Seq(Record)
      BY <2>1
    <3>2. contract' \in [Run -> Seq(Record)]
      BY <1>7, <3>1 DEF ExecuteFile, TypeOK
    <3> QED
      BY <1>7, <2>1, <3>2 DEF ExecuteFile, TypeOK
  <2>3. CASE Return(p) /\ Fault
    BY <1>7, <2>2, <2>3, ReturnTyped, FaultTyped DEF ExecuteFile, TypeOK
  <2>4. CASE Goto(p, "row") /\ UNCHANGED <<lock, execLocals, cleanLocals, faults>>
    <3>1. pc' \in [Proc -> PC]
      BY <2>4 DEF TypeOK, Goto, PC, LockedPC
    <3>2. Working'
      BY <1>7, <2>4, GotoWorking DEF ExecuteFile, Working, PC, PreparePC, LockedPC
    <3> QED
      BY <1>7, <2>2, <2>4, <3>1, <3>2 DEF ExecuteFile, TypeOK
  <2> QED
    BY <1>7, <2>3, <2>4 DEF ExecuteFile
<1>8. CASE ExecuteRow(p)
  <2>1. snap[p] \in Seq(Record) /\ RecordOf(p) \in Record
    BY <1>8, RecordTyped DEF ExecuteRow, TypeOK
  <2>2. rowLog' \in [Run -> Seq(Record)]
    <3>1. Append(snap[p], RecordOf(p)) \in Seq(Record)
      BY <2>1
    <3> QED
      BY <1>8, <3>1 DEF ExecuteRow, TypeOK
  <2>3. faults' \in 0..MaxFaults
    BY <1>8, FaultTyped DEF ExecuteRow, TypeOK
  <2> QED
    BY <1>8, <2>2, <2>3, ReturnTyped DEF ExecuteRow, TypeOK
<1> QED
  BY <1>1, <1>2, <1>3, <1>4, <1>5, <1>6, <1>7, <1>8 DEF Execute

LEMMA CleanTyped ==
    ASSUME TypeOK, Working, NEW p \in Proc, Clean(p)
    PROVE  TypeOK' /\ Working'
<1> USE DEF table, disk, groups, execLocals, cleanLocals
<1>1. CASE CleanBegin(p)
  <2>1. pc' \in [Proc -> PC] /\ todo' \in [Proc -> SUBSET Run]
    BY <1>1 DEF CleanBegin, TypeOK, Goto, PC, CleanPC
  <2>2. Working'
    BY <1>1, GotoWorking DEF CleanBegin, PC, CleanPC, PreparePC, LockedPC
  <2> QED
    BY <1>1, <2>1, <2>2 DEF CleanBegin, TypeOK
<1>2. CASE CleanScan(p)
  <2>1. PICK r \in todo[p] \ Stray :
          /\ todo' = [todo EXCEPT ![p] = @ \ {r}]
          /\ doomed' = [doomed EXCEPT ![p] = @ \cup {r}] \/ UNCHANGED doomed
          /\ lock' = [lock EXCEPT ![r] = p] \/ UNCHANGED lock
    BY <1>2 DEF CleanScan
  <2>2. r \in Run
    BY <2>1 DEF TypeOK
  <2>3. todo' \in [Proc -> SUBSET Run]
    BY <2>1 DEF TypeOK
  <2>4. doomed' \in [Proc -> SUBSET Run]
    <3>1. [doomed EXCEPT ![p] = @ \cup {r}] \in [Proc -> SUBSET Run]
      BY <2>2 DEF TypeOK
    <3> QED
      BY <2>1, <3>1 DEF TypeOK
  <2>5. lock' \in [Run -> Proc \cup {NoProc}]
    <3>1. [lock EXCEPT ![r] = p] \in [Run -> Proc \cup {NoProc}]
      BY DEF TypeOK
    <3> QED
      BY <2>1, <3>1 DEF TypeOK
  <2> QED
    BY <1>2, <2>3, <2>4, <2>5 DEF CleanScan, TypeOK, Working
<1>3. CASE CleanRefuse(p)
  BY <1>3, ReturnTyped DEF CleanRefuse, TypeOK
<1>4. CASE CleanScanned(p)
  <2>1. pc' \in [Proc -> PC] /\ left' \in [Proc -> SUBSET Run]
    BY <1>4 DEF CleanScanned, TypeOK, Goto, PC, CleanPC
  <2>2. Working'
    BY <1>4, GotoWorking DEF CleanScanned, PC, CleanPC, PreparePC, LockedPC
  <2> QED
    BY <1>4, <2>1, <2>2 DEF CleanScanned, TypeOK
<1>5. CASE CleanTear(p)
  <2>1. dir' \in [Run -> DirState] /\ filed' \subseteq Run
    BY <1>5 DEF CleanTear, TypeOK, DirState
  <2> QED
    BY <1>5, <2>1 DEF CleanTear, TypeOK, Working
<1>6. CASE CleanRemove(p)
  <2>1. PICK r \in left[p] : /\ dir' = [dir EXCEPT ![r] = "absent"]
                             /\ filed' = filed \ {r}
                             /\ left' = [left EXCEPT ![p] = @ \ {r}]
    BY <1>6 DEF CleanRemove
  <2>2. dir' \in [Run -> DirState] /\ filed' \subseteq Run
    BY <2>1 DEF TypeOK, DirState
  <2>3. left' \in [Proc -> SUBSET Run]
    BY <2>1 DEF TypeOK
  <2> QED
    BY <1>6, <2>2, <2>3 DEF CleanRemove, TypeOK, Working
<1>7. CASE CleanUnsafe(p)
  BY <1>7, ReturnTyped DEF CleanUnsafe, TypeOK
<1>8. CASE CleanRemoved(p)
  <2>1. pc' \in [Proc -> PC]
    BY <1>8 DEF CleanRemoved, TypeOK, Goto, PC, CleanPC
  <2>2. Working'
    BY <1>8, GotoWorking DEF CleanRemoved, PC, CleanPC, PreparePC, LockedPC
  <2> QED
    BY <1>8, <2>1, <2>2 DEF CleanRemoved, TypeOK
<1>9. CASE CleanPurge(p)
  <2>1. recorded' \subseteq Run
    BY <1>9 DEF CleanPurge, TypeOK
  <2> QED
    BY <1>9, <2>1, ReturnTyped DEF CleanPurge, TypeOK
<1>10. CASE CleanFails(p)
  BY <1>10, ReturnTyped, FaultTyped DEF CleanFails, TypeOK
<1> QED
  BY <1>1, <1>2, <1>3, <1>4, <1>5, <1>6, <1>7, <1>8, <1>9, <1>10 DEF Clean

\* Every reachable state has the declared types, and a process in the middle of an
\* operation has what the operation works on.
THEOREM TypeCorrect == Spec => [](TypeOK /\ Working)
<1>1. Init => TypeOK /\ Working
  BY StrayAssumption, BoundsAssumption
     DEF Init, TypeOK, Working, DirState, CmdState, PC, PreparePC, LockedPC, Why
<1>2. TypeOK /\ Working /\ [Next]_vars => TypeOK' /\ Working'
  <2> SUFFICES ASSUME TypeOK, Working, [Next]_vars
               PROVE  TypeOK' /\ Working'
    OBVIOUS
  <2>1. ASSUME NEW p \in Proc, Prepare(p) \/ Execute(p) \/ Clean(p)
        PROVE  TypeOK' /\ Working'
    BY <2>1, PrepareTyped, ExecuteTyped, CleanTyped
  <2>2. ASSUME NEW p \in Proc, Crash(p)
        PROVE  TypeOK' /\ Working'
    BY <2>2, ReturnTyped, FaultTyped DEF Crash, TypeOK, table, disk, groups
  <2>3. ASSUME NEW c \in Cmd, CommandExits(c)
        PROVE  TypeOK' /\ Working'
    BY <2>3 DEF CommandExits, TypeOK, Working, CmdState, table, disk, execLocals,
                cleanLocals
  <2>4. ASSUME NEW r \in Run, Age(r) \/ Replace(r)
        PROVE  TypeOK' /\ Working'
    <3>1. dir' \in [Run -> DirState] /\ filed' \subseteq Run /\ old' \subseteq Run
      BY <2>4 DEF Age, Replace, TypeOK, DirState, table, disk
    <3>2. faults' \in 0..MaxFaults
      BY <2>4, FaultTyped DEF Age, Replace, TypeOK
    <3> QED
      BY <2>4, <3>1, <3>2 DEF Age, Replace, TypeOK, Working, table, disk, groups,
                              execLocals, cleanLocals
  <2>5. CASE UNCHANGED vars
    BY <2>5 DEF vars, TypeOK, Working, table, disk, groups, execLocals, cleanLocals
  <2> QED
    BY <2>1, <2>2, <2>3, <2>4, <2>5 DEF Next
<1> QED
  BY <1>1, <1>2, PTL DEF Spec

-----------------------------------------------------------------------------
(***************************************************************************)
(* The inductive invariant, one conjunct per reason.                       *)
(***************************************************************************)

\* An Execute past the lock holds the lock of its run.
Locking == \A p \in Proc : pc[p] \in LockedPC => lock[at[p]] = p

\* Every run a process refers to has been born.
Known ==
    /\ recorded \subseteq born
    /\ \A p \in Proc : /\ at[p] \in Run => at[p] \in born
                       /\ todo[p] \subseteq born
                       /\ doomed[p] \subseteq born
                       /\ left[p] \subseteq doomed[p]

\* Clean has locked what it is going to delete, or it was gone when Clean looked and
\* stays gone.
Deletions ==
    \A p \in Proc : \A r \in doomed[p] : lock[r] = p \/ dir[r] = "absent"

\* PrepareOwnsItsRun with what makes it inductive: no Clean has the run as a candidate.
Owned(p) ==
    /\ at[p] \notin recorded
    /\ \A q \in Proc : /\ q # p => at[q] # at[p]
                       /\ at[p] \notin todo[q]
                       /\ at[p] \notin doomed[q]
    /\ pc[p] = "clone" => dir[at[p]] = "bare"
    /\ pc[p] \in {"write", "record"} => dir[at[p]] = "intact"
    /\ pc[p] = "record" => at[p] \in filed /\ contract[at[p]] = <<>>

Ownership == \A p \in Proc : pc[p] \in PreparePC => Owned(p)

\* Requests are told apart, and a supervised command runs where its Execute works.
Requests ==
    /\ \A p \in Proc : cmd[p] <= issued
    /\ \A p, q \in Proc : cmd[p] = cmd[q] /\ cmd[p] # 0 => p = q
    /\ \A p \in Proc : pc[p] \in ActivePC => cmdRun[cmd[p]] = at[p]

Guards == Locking /\ Known /\ Deletions /\ Ownership /\ Requests

IInv == TypeOK /\ Working /\ Guards

-----------------------------------------------------------------------------
(***************************************************************************)
(* What the shared steps do, process by process and lock by lock.          *)
(***************************************************************************)

\* A return frees the locks of the process and clears what it refers to.
LEMMA ReturnEffect ==
    ASSUME TypeOK, NEW p \in Proc, Return(p)
    PROVE  /\ pc'[p] = "idle" /\ at'[p] = NoRun /\ cmd'[p] = 0
           /\ todo'[p] = {} /\ doomed'[p] = {} /\ left'[p] = {}
           /\ \A q \in Proc : q # p =>
                /\ pc'[q] = pc[q] /\ at'[q] = at[q] /\ cmd'[q] = cmd[q]
                /\ snap'[q] = snap[q] /\ why'[q] = why[q]
                /\ todo'[q] = todo[q] /\ doomed'[q] = doomed[q] /\ left'[q] = left[q]
           /\ \A r \in Run : lock'[r] = IF lock[r] = p THEN NoProc ELSE lock[r]
  BY DEF Return, Goto, TypeOK

\* A return keeps the guards that are not about the run of a Prepare.
LEMMA ReturnKeepsMost ==
    ASSUME IInv, NEW p \in Proc, Return(p), UNCHANGED <<born, issued, cmdRun>>
    PROVE  /\ Locking'
           /\ recorded' \subseteq born => Known'
           /\ (\A r \in Run : dir'[r] \in {dir[r], "absent"}) => Deletions'
           /\ Requests'
<1> USE DEF IInv, Guards
<1>1. Locking'
  BY ReturnEffect, NoProcAssumption DEF Locking, LockedPC, Working
<1>2. ASSUME recorded' \subseteq born  PROVE Known'
  BY <1>2, ReturnEffect, NoRunAssumption DEF Known
<1>3. ASSUME \A r \in Run : dir'[r] \in {dir[r], "absent"}  PROVE Deletions'
  <2> SUFFICES ASSUME NEW q \in Proc, NEW r \in doomed'[q]
               PROVE  lock'[r] = q \/ dir'[r] = "absent"
    BY DEF Deletions
  <2>1. q # p /\ r \in doomed[q] /\ r \in Run
    BY ReturnEffect DEF TypeOK
  <2> QED
    BY <1>3, <2>1, ReturnEffect DEF Deletions
<1>4. Requests'
  <2>1. issued \in Nat /\ issued' = issued
    BY BoundsAssumption DEF TypeOK
  <2>2. \A q \in Proc : cmd'[q] <= issued'
    BY <2>1, ReturnEffect DEF Requests
  <2>3. \A q, r \in Proc : cmd'[q] = cmd'[r] /\ cmd'[q] # 0 => q = r
    BY ReturnEffect DEF Requests
  <2>4. \A q \in Proc : pc'[q] \in ActivePC => cmdRun'[cmd'[q]] = at'[q]
    BY ReturnEffect DEF Requests, ActivePC
  <2> QED
    BY <2>2, <2>3, <2>4 DEF Requests
<1> QED
  BY <1>1, <1>2, <1>3, <1>4

\* A return keeps all guards when it changes no directory and inserts no row.
LEMMA ReturnKeeps ==
    ASSUME IInv, NEW p \in Proc, Return(p), recorded' \subseteq recorded,
           UNCHANGED <<born, dir, filed, contract, issued, cmdRun>>
    PROVE  Guards'
<1> USE DEF IInv, Guards
<1>1. Locking' /\ Known' /\ Deletions' /\ Requests'
  BY ReturnKeepsMost DEF Known
<1>2. Ownership'
  <2> SUFFICES ASSUME NEW q \in Proc, pc'[q] \in PreparePC
               PROVE  Owned(q)'
    BY DEF Ownership
  <2>1. q # p /\ pc[q] \in PreparePC /\ at'[q] = at[q] /\ pc'[q] = pc[q]
    BY ReturnEffect DEF PreparePC
  <2>2. Owned(q) /\ at[q] \in Run
    BY <2>1 DEF Ownership, Working
  <2>3. \A s \in Proc : at'[s] \in {at[s], NoRun} /\ todo'[s] \subseteq todo[s]
                                                  /\ doomed'[s] \subseteq doomed[s]
    BY ReturnEffect
  <2> QED
    BY <2>1, <2>2, <2>3, NoRunAssumption DEF Owned
<1> QED
  BY <1>1, <1>2

-----------------------------------------------------------------------------
(***************************************************************************)
(* Every step keeps the guards.                                            *)
(***************************************************************************)

\* Prepare takes a run nobody has heard of and works in no other.
LEMMA PrepareKeeps ==
    ASSUME IInv, NEW p \in Proc, Prepare(p)
    PROVE  Guards'
<1> USE DEF IInv, Guards, table, disk, groups, execLocals, cleanLocals
<1>1. CASE PrepareBegin(p)
  <2>1. PICK r \in Run \ born : /\ born' = born \cup {r}
                                /\ dir' = [dir EXCEPT ![r] = "bare"]
                                /\ at' = [at EXCEPT ![p] = r]
    BY <1>1 DEF PrepareBegin
  <2>2. /\ pc[p] = "idle" /\ pc'[p] = "clone" /\ at'[p] = r
        /\ \A q \in Proc : q # p => pc'[q] = pc[q] /\ at'[q] = at[q]
        /\ dir'[r] = "bare" /\ \A s \in Run : s # r => dir'[s] = dir[s]
        /\ UNCHANGED <<recorded, filed, contract, lock, todo, doomed, left, cmd,
                       issued, cmdRun>>
    BY <1>1, <2>1 DEF PrepareBegin, Goto, TypeOK
  <2>3. r \notin recorded /\ \A q \in Proc : at[q] # r /\ r \notin todo[q] /\ r \notin doomed[q]
    BY <2>1 DEF Known, TypeOK
  <2>4. Locking'
    BY <2>2 DEF Locking, LockedPC
  <2>5. Known'
    BY <2>1, <2>2 DEF Known
  <2>6. Deletions'
    BY <2>2, <2>3 DEF Deletions, TypeOK
  <2>7. Ownership'
    <3> SUFFICES ASSUME NEW q \in Proc, pc'[q] \in PreparePC
                 PROVE  Owned(q)'
      BY DEF Ownership
    <3>1. CASE q = p
      BY <2>2, <2>3, <3>1 DEF Owned
    <3>2. CASE q # p
      <4>1. Owned(q) /\ at[q] \in Run
        BY <2>2, <3>2 DEF Ownership, Working
      <4> QED
        BY <2>2, <2>3, <3>2, <4>1 DEF Owned
    <3> QED
      BY <3>1, <3>2
  <2>8. Requests'
    BY <2>2 DEF Requests, ActivePC
  <2> QED
    BY <2>4, <2>5, <2>6, <2>7, <2>8
<1>2. CASE PrepareClone(p)
  <2>1. pc[p] = "clone" /\ Owned(p) /\ at[p] \in Run
    BY <1>2 DEF PrepareClone, Ownership, Working, PreparePC
  <2>2. /\ \/ dir'[at[p]] = "intact" /\ pc'[p] = "write"
           \/ dir'[at[p]] = dir[at[p]] /\ pc'[p] = "undo"
        /\ \A q \in Proc : q # p => pc'[q] = pc[q]
        /\ \A s \in Run : s # at[p] => dir'[s] = dir[s]
        /\ UNCHANGED <<recorded, born, filed, contract, lock, at, todo, doomed, left,
                       cmd, issued, cmdRun>>
    BY <1>2, <2>1 DEF PrepareClone, Goto, TypeOK
  <2>3. Locking'
    BY <2>2 DEF Locking, LockedPC
  <2>4. Known'
    BY <2>2 DEF Known
  <2>5. Deletions'
    BY <2>1, <2>2 DEF Deletions, Owned, TypeOK
  <2>6. Ownership'
    BY <2>1, <2>2 DEF Ownership, Owned, PreparePC, Working
  <2>7. Requests'
    BY <2>2 DEF Requests, ActivePC
  <2> QED
    BY <2>3, <2>4, <2>5, <2>6, <2>7
<1>3. CASE PrepareWrite(p)
  <2>1. pc[p] = "write" /\ Owned(p) /\ at[p] \in Run
    BY <1>3 DEF PrepareWrite, Ownership, Working, PreparePC
  <2>2. /\ \/ /\ pc'[p] = "record" /\ at[p] \in filed'
              /\ contract'[at[p]] = <<>>
           \/ pc'[p] = "undo"
        /\ \A q \in Proc : q # p => pc'[q] = pc[q]
        /\ \A s \in Run : s # at[p] => /\ s \in filed' <=> s \in filed
                                       /\ contract'[s] = contract[s]
        /\ UNCHANGED <<recorded, born, dir, lock, at, todo, doomed, left, cmd, issued,
                       cmdRun>>
    BY <1>3, <2>1 DEF PrepareWrite, Goto, TypeOK
  <2>3. Locking'
    BY <2>2 DEF Locking, LockedPC
  <2>4. Known'
    BY <2>2 DEF Known
  <2>5. Deletions'
    BY <2>2 DEF Deletions
  <2>6. Ownership'
    BY <2>1, <2>2 DEF Ownership, Owned, PreparePC, Working
  <2>7. Requests'
    BY <2>2 DEF Requests, ActivePC
  <2> QED
    BY <2>3, <2>4, <2>5, <2>6, <2>7
<1>4. CASE PrepareRecord(p)
  <2>1. pc[p] = "record" /\ Owned(p) /\ at[p] \in Run /\ at[p] \in born
    BY <1>4 DEF PrepareRecord, Ownership, Working, PreparePC, Known
  <2>2. CASE recorded' = recorded \cup {at[p]} /\ Return(p)
    <3>1. Locking' /\ Known' /\ Deletions' /\ Requests'
      BY <1>4, <2>1, <2>2, ReturnKeepsMost DEF PrepareRecord, Known
    <3>2. Ownership'
      <4> SUFFICES ASSUME NEW q \in Proc, pc'[q] \in PreparePC
                   PROVE  Owned(q)'
        BY DEF Ownership
      <4>1. q # p /\ pc[q] \in PreparePC /\ at'[q] = at[q] /\ pc'[q] = pc[q]
        BY <2>2, ReturnEffect DEF PreparePC
      <4>2. Owned(q) /\ at[q] \in Run /\ at[q] # at[p]
        BY <2>1, <4>1 DEF Ownership, Working, Owned
      <4>3. \A s \in Proc : at'[s] \in {at[s], NoRun} /\ todo'[s] \subseteq todo[s]
                                                      /\ doomed'[s] \subseteq doomed[s]
        BY <2>2, ReturnEffect
      <4>4. UNCHANGED <<dir, filed, contract>>
        BY <1>4 DEF PrepareRecord
      <4> QED
        BY <2>2, <4>1, <4>2, <4>3, <4>4, NoRunAssumption DEF Owned
    <3> QED
      BY <3>1, <3>2
  <2>3. CASE Goto(p, "undo") /\ UNCHANGED <<recorded, rowLog, lock, execLocals, cleanLocals>>
    <3>1. /\ pc'[p] = "undo" /\ \A q \in Proc : q # p => pc'[q] = pc[q]
          /\ UNCHANGED <<recorded, born, dir, filed, contract, lock, at, todo, doomed,
                         left, cmd, issued, cmdRun>>
      BY <1>4, <2>3 DEF PrepareRecord, Goto, TypeOK
    <3>2. Locking' /\ Known' /\ Deletions'
      BY <3>1 DEF Locking, LockedPC, Known, Deletions
    <3>3. Ownership'
      BY <2>1, <3>1 DEF Ownership, Owned, PreparePC
    <3>4. Requests'
      BY <3>1 DEF Requests, ActivePC
    <3> QED
      BY <3>2, <3>3, <3>4
  <2> QED
    BY <1>4, <2>2, <2>3 DEF PrepareRecord
<1>5. CASE PrepareUndo(p)
  <2>1. pc[p] = "undo" /\ Owned(p) /\ at[p] \in Run /\ Return(p)
    BY <1>5 DEF PrepareUndo, Ownership, Working, PreparePC
  <2>2. /\ dir'[at[p]] = "absent"
        /\ \A s \in Run : s # at[p] => dir'[s] = dir[s] /\ (s \in filed' <=> s \in filed)
        /\ UNCHANGED <<recorded, born, contract, issued, cmdRun>>
    BY <1>5, <2>1 DEF PrepareUndo, TypeOK
  <2>3. Locking' /\ Known' /\ Deletions' /\ Requests'
    BY <2>1, <2>2, ReturnKeepsMost DEF Known
  <2>4. Ownership'
    <3> SUFFICES ASSUME NEW q \in Proc, pc'[q] \in PreparePC
                 PROVE  Owned(q)'
      BY DEF Ownership
    <3>1. q # p /\ pc[q] \in PreparePC /\ at'[q] = at[q] /\ pc'[q] = pc[q]
      BY <2>1, ReturnEffect DEF PreparePC
    <3>2. Owned(q) /\ at[q] \in Run /\ at[q] # at[p]
      BY <2>1, <3>1 DEF Ownership, Working, Owned
    <3>3. \A s \in Proc : at'[s] \in {at[s], NoRun} /\ todo'[s] \subseteq todo[s]
                                                    /\ doomed'[s] \subseteq doomed[s]
      BY <2>1, ReturnEffect
    <3> QED
      BY <2>2, <3>1, <3>2, <3>3, NoRunAssumption DEF Owned
  <2> QED
    BY <2>3, <2>4
<1> QED
  BY <1>1, <1>2, <1>3, <1>4, <1>5 DEF Prepare

\* Execute takes a free lock and touches no directory.
LEMMA ExecuteKeeps ==
    ASSUME IInv, NEW p \in Proc, Execute(p)
    PROVE  Guards'
<1> USE DEF IInv, Guards, table, disk, groups, execLocals, cleanLocals
\* A step within Execute that takes nothing and refers to nothing new.
<1>0. ASSUME NEW label \in LockedPC, Goto(p, label), pc[p] \in LockedPC,
             UNCHANGED <<recorded, born, dir, lock, at, todo, doomed, left, cmd, issued>>,
             \A r \in Run : r # at[p] => /\ r \in filed' <=> r \in filed
                                         /\ contract'[r] = contract[r]
      PROVE  /\ Locking' /\ Known' /\ Deletions' /\ Ownership'
             /\ cmdRun' = cmdRun /\ (label \in ActivePC => pc[p] \in ActivePC) => Requests'
  <2>1. pc'[p] = label /\ \A q \in Proc : q # p => pc'[q] = pc[q]
    BY <1>0 DEF Goto, TypeOK
  <2>2. Locking' /\ Known' /\ Deletions'
    BY <1>0, <2>1 DEF Locking, Known, Deletions
  <2>3. Ownership'
    <3> SUFFICES ASSUME NEW q \in Proc, pc'[q] \in PreparePC
                 PROVE  Owned(q)'
      BY DEF Ownership
    <3>1. q # p /\ pc[q] \in PreparePC /\ pc'[q] = pc[q]
      BY <1>0, <2>1 DEF PreparePC, LockedPC
    <3>2. Owned(q) /\ at[q] \in Run /\ at[q] # at[p]
      BY <3>1 DEF Ownership, Working, Owned
    <3> QED
      BY <1>0, <3>1, <3>2 DEF Owned
  <2>4. ASSUME cmdRun' = cmdRun, label \in ActivePC => pc[p] \in ActivePC
        PROVE  Requests'
    BY <1>0, <2>1, <2>4 DEF Requests
  <2> QED
    BY <2>2, <2>3, <2>4
<1>1. CASE ExecuteBegin(p)
  <2>1. PICK r \in recorded : at' = [at EXCEPT ![p] = r]
    BY <1>1 DEF ExecuteBegin
  <2>2. issued \in Nat /\ issued' = issued + 1
    BY <1>1, BoundsAssumption DEF ExecuteBegin, TypeOK
  <2>3. /\ pc[p] = "idle" /\ pc'[p] = "lock" /\ at'[p] = r /\ cmd'[p] = issued + 1
        /\ \A q \in Proc : q # p => pc'[q] = pc[q] /\ at'[q] = at[q] /\ cmd'[q] = cmd[q]
        /\ UNCHANGED <<recorded, born, dir, filed, contract, lock, todo, doomed, left, cmdRun>>
    BY <1>1, <2>1 DEF ExecuteBegin, Goto, TypeOK
  <2>4. Locking' /\ Known' /\ Deletions'
    BY <2>1, <2>3 DEF Locking, LockedPC, Known, Deletions
  <2>5. Ownership'
    BY <2>1, <2>3 DEF Ownership, Owned, PreparePC
  <2>6. Requests'
    <3>1. \A q \in Proc : cmd[q] \in Nat /\ cmd[q] <= issued
      BY BoundsAssumption DEF Requests, TypeOK, Cmd
    <3>2. \A q \in Proc : cmd'[q] <= issued'
      BY <2>2, <2>3, <3>1
    <3>3. \A q \in Proc : q # p => cmd'[q] # cmd'[p]
      BY <2>2, <2>3, <3>1
    <3>4. \A q, s \in Proc : cmd'[q] = cmd'[s] /\ cmd'[q] # 0 => q = s
      BY <2>3, <3>3 DEF Requests
    <3>5. \A q \in Proc : pc'[q] \in ActivePC => cmdRun'[cmd'[q]] = at'[q]
      BY <2>3 DEF Requests, ActivePC
    <3> QED
      BY <3>2, <3>4, <3>5 DEF Requests
  <2> QED
    BY <2>4, <2>5, <2>6
<1>2. CASE ExecuteLock(p)
  <2>1. CASE Return(p)
    BY <1>2, <2>1, ReturnKeeps DEF ExecuteLock
  <2>2. CASE /\ LockFree(at[p])
             /\ lock' = [lock EXCEPT ![at[p]] = p]
             /\ Goto(p, "relist")
             /\ UNCHANGED <<execLocals, cleanLocals>>
    <3>1. /\ at[p] \in Run /\ lock[at[p]] = NoProc
          /\ lock'[at[p]] = p /\ \A r \in Run : r # at[p] => lock'[r] = lock[r]
          /\ pc[p] = "lock" /\ pc'[p] = "relist" /\ \A q \in Proc : q # p => pc'[q] = pc[q]
          /\ UNCHANGED <<recorded, born, dir, filed, contract, at, todo, doomed, left,
                         cmd, issued, cmdRun>>
      BY <1>2, <2>2 DEF ExecuteLock, LockFree, Goto, TypeOK, Working
    <3>2. Locking'
      BY <3>1, NoProcAssumption DEF Locking, Working, LockedPC
    <3>3. Deletions'
      BY <3>1, NoProcAssumption DEF Deletions, TypeOK
    <3>4. Known' /\ Ownership'
      BY <3>1 DEF Known, Ownership, Owned, PreparePC
    <3>5. Requests'
      BY <3>1 DEF Requests, ActivePC
    <3> QED
      BY <3>2, <3>3, <3>4, <3>5
  <2> QED
    BY <1>2, <2>1, <2>2 DEF ExecuteLock
<1>3. CASE ExecuteRelist(p)
  <2>1. CASE Return(p)
    BY <1>3, <2>1, ReturnKeeps DEF ExecuteRelist
  <2>2. CASE Goto(p, "start") /\ UNCHANGED <<lock, at, cmd, why, cleanLocals>>
    BY <1>3, <2>2, <1>0 DEF ExecuteRelist, LockedPC, ActivePC
  <2> QED
    BY <1>3, <2>1, <2>2 DEF ExecuteRelist
<1>4. CASE ExecuteStart(p)
  <2>1. CASE Return(p) /\ UNCHANGED <<cmdState, cmdRun>>
    BY <1>4, <2>1, ReturnKeeps DEF ExecuteStart
  <2>2. CASE /\ cmdRun' = [cmdRun EXCEPT ![cmd[p]] = at[p]]
             /\ Goto(p, "run")
             /\ UNCHANGED <<lock, execLocals, cleanLocals>>
    <3>1. Locking' /\ Known' /\ Deletions' /\ Ownership'
      BY <1>4, <2>2, <1>0 DEF ExecuteStart, LockedPC
    <3>2. Requests'
      <4>1. cmd[p] \in Cmd /\ cmd[p] # 0 /\ pc[p] = "start"
        BY <1>4, BoundsAssumption DEF ExecuteStart, Working, LockedPC, Cmd
      <4>2. /\ cmdRun'[cmd[p]] = at[p]
            /\ \A c \in Cmd : c # cmd[p] => cmdRun'[c] = cmdRun[c]
            /\ \A q \in Proc : q # p => pc'[q] = pc[q]
            /\ UNCHANGED <<at, cmd, issued>>
        BY <1>4, <2>2, <4>1 DEF ExecuteStart, TypeOK, Goto
      <4>3. \A q \in Proc : q # p /\ pc[q] \in ActivePC => cmd[q] \in Cmd /\ cmd[q] # cmd[p]
        BY <4>1 DEF Requests, Working, ActivePC, LockedPC
      <4>4. \A q \in Proc : pc'[q] \in ActivePC => cmdRun'[cmd[q]] = at[q]
        BY <4>2, <4>3 DEF Requests
      <4> QED
        BY <4>2, <4>4 DEF Requests
    <3> QED
      BY <3>1, <3>2
  <2> QED
    BY <1>4, <2>1, <2>2 DEF ExecuteStart
<1>5. CASE ExecuteExpire(p)
  BY <1>5, <1>0 DEF ExecuteExpire, LockedPC, ActivePC
<1>6. CASE ExecuteReap(p)
  <2>1. CASE Return(p)
    BY <1>6, <2>1, ReturnKeeps DEF ExecuteReap
  <2>2. CASE Goto(p, "file") /\ UNCHANGED <<lock, execLocals, cleanLocals>>
    BY <1>6, <2>2, <1>0 DEF ExecuteReap, LockedPC, ActivePC, SupervisePC
  <2> QED
    BY <1>6, <2>1, <2>2 DEF ExecuteReap
<1>7. CASE ExecuteFile(p)
  <2>1. CASE Return(p) /\ UNCHANGED <<filed, contract>>
    BY <1>7, <2>1, ReturnKeeps DEF ExecuteFile
  <2>2. CASE /\ filed' = filed \cup {at[p]}
             /\ contract' = [contract EXCEPT ![at[p]] = Append(snap[p], RecordOf(p))]
             /\ Goto(p, "row")
             /\ UNCHANGED <<lock, execLocals, cleanLocals, faults>>
    <3>1. \A r \in Run : r # at[p] => /\ r \in filed' <=> r \in filed
                                      /\ contract'[r] = contract[r]
      BY <2>2 DEF TypeOK
    <3> QED
      BY <1>7, <2>2, <3>1, <1>0 DEF ExecuteFile, LockedPC, ActivePC
  <2> QED
    BY <1>7, <2>1, <2>2 DEF ExecuteFile
<1>8. CASE ExecuteRow(p)
  BY <1>8, ReturnKeeps DEF ExecuteRow
<1> QED
  BY <1>1, <1>2, <1>3, <1>4, <1>5, <1>6, <1>7, <1>8 DEF Execute

\* Clean takes free locks and changes only what it has locked or found gone.
LEMMA CleanKeeps ==
    ASSUME IInv, NEW p \in Proc, Clean(p)
    PROVE  Guards'
<1> USE DEF IInv, Guards, table, disk, groups, execLocals, cleanLocals
\* A step within Clean that takes nothing and refers to nothing new.
<1>0. ASSUME NEW label \in CleanPC, Goto(p, label), pc[p] \in CleanPC,
             UNCHANGED <<recorded, born, disk, lock, at, todo, doomed, cmd, issued, cmdRun>>,
             \A q \in Proc : left'[q] \subseteq doomed[q]
      PROVE  Guards'
  <2>1. pc'[p] = label /\ \A q \in Proc : q # p => pc'[q] = pc[q]
    BY <1>0 DEF Goto, TypeOK
  <2>2. Locking' /\ Known' /\ Deletions'
    BY <1>0, <2>1 DEF Locking, Known, Deletions, CleanPC, LockedPC
  <2>3. Ownership'
    BY <1>0, <2>1 DEF Ownership, Owned, CleanPC, PreparePC
  <2>4. Requests'
    BY <1>0, <2>1 DEF Requests, CleanPC, ActivePC
  <2> QED
    BY <2>2, <2>3, <2>4
\* The directory of one deletion changes.
<1>1. ASSUME NEW r \in left[p],
             \A s \in Run : s # r => dir'[s] = dir[s] /\ (s \in filed' <=> s \in filed),
             dir[r] = "absent" => dir'[r] = "absent",
             \A q \in Proc : left'[q] \subseteq left[q],
             UNCHANGED <<recorded, born, contract, lock, at, todo, doomed, cmd, issued,
                         cmdRun, pc>>
      PROVE  Guards'
  <2>1. r \in doomed[p] /\ r \in Run
    BY DEF Known, TypeOK
  <2>2. Locking' /\ Known' /\ Requests'
    BY <1>1 DEF Locking, Known, Requests
  <2>3. Deletions'
    <3> SUFFICES ASSUME NEW q \in Proc, NEW s \in doomed[q]
                 PROVE  lock[s] = q \/ dir'[s] = "absent"
      BY <1>1 DEF Deletions
    <3>1. s \in Run
      BY DEF TypeOK
    <3> QED
      BY <1>1, <2>1, <3>1 DEF Deletions
  <2>4. Ownership'
    <3> SUFFICES ASSUME NEW q \in Proc, pc[q] \in PreparePC
                 PROVE  Owned(q)'
      BY <1>1 DEF Ownership
    <3>1. Owned(q) /\ at[q] \in Run /\ at[q] # r
      BY <2>1 DEF Ownership, Working, Owned
    <3> QED
      BY <1>1, <3>1 DEF Owned
  <2> QED
    BY <2>2, <2>3, <2>4
<1>2. CASE CleanBegin(p)
  <2>1. /\ pc[p] = "idle" /\ pc'[p] = "scan" /\ todo'[p] \subseteq recorded
        /\ \A q \in Proc : q # p => pc'[q] = pc[q] /\ todo'[q] = todo[q]
        /\ UNCHANGED <<recorded, born, dir, filed, contract, lock, at, doomed, left, cmd,
                       issued, cmdRun>>
    BY <1>2 DEF CleanBegin, Goto, TypeOK
  <2>2. Locking' /\ Known' /\ Deletions'
    BY <2>1 DEF Locking, LockedPC, Known, Deletions
  <2>3. Ownership'
    <3> SUFFICES ASSUME NEW q \in Proc, pc'[q] \in PreparePC
                 PROVE  Owned(q)'
      BY DEF Ownership
    <3>1. q # p /\ Owned(q)
      BY <2>1 DEF Ownership, PreparePC
    <3> QED
      BY <2>1, <3>1 DEF Owned
  <2>4. Requests'
    BY <2>1 DEF Requests, ActivePC
  <2> QED
    BY <2>2, <2>3, <2>4
<1>3. CASE CleanScan(p)
  <2>1. PICK r \in todo[p] \ Stray :
          /\ todo' = [todo EXCEPT ![p] = @ \ {r}]
          /\ \/ /\ dir[r] = "absent"
                /\ doomed' = [doomed EXCEPT ![p] = @ \cup {r}]
                /\ UNCHANGED lock
             \/ /\ LockFree(r)
                /\ lock' = [lock EXCEPT ![r] = p]
                /\ doomed' = [doomed EXCEPT ![p] = @ \cup {r}]
             \/ UNCHANGED <<lock, doomed>>
    BY <1>3 DEF CleanScan
  <2>2. /\ r \in Run /\ r \in born
        /\ \A q \in Proc : todo'[q] \subseteq todo[q]
        /\ \A q \in Proc : q # p => doomed'[q] = doomed[q]
        /\ doomed[p] \subseteq doomed'[p] /\ doomed'[p] \subseteq doomed[p] \cup {r}
        /\ r \in doomed'[p] => r \in doomed[p] \/ lock'[r] = p \/ dir[r] = "absent"
        /\ \A s \in Run : lock'[s] # lock[s] => lock[s] = NoProc
        /\ UNCHANGED <<recorded, born, dir, filed, contract, at, left, cmd, issued,
                       cmdRun, pc>>
    BY <1>3, <2>1 DEF CleanScan, LockFree, TypeOK, Known
  <2>3. Locking'
    BY <2>2, NoProcAssumption DEF Locking, LockedPC, Working
  <2>4. Known'
    BY <2>2 DEF Known
  <2>5. Deletions'
    <3> SUFFICES ASSUME NEW q \in Proc, NEW s \in doomed'[q]
                 PROVE  lock'[s] = q \/ dir[s] = "absent"
      BY <2>2 DEF Deletions
    <3>1. s \in Run /\ (s \in doomed[q] \/ (q = p /\ s = r))
      BY <2>2 DEF TypeOK
    <3>2. s \in doomed[q] => lock'[s] = q \/ dir[s] = "absent"
      BY <2>2, <3>1, NoProcAssumption DEF Deletions
    <3> QED
      BY <2>2, <3>1, <3>2
  <2>6. Ownership'
    <3> SUFFICES ASSUME NEW q \in Proc, pc[q] \in PreparePC
                 PROVE  Owned(q)'
      BY <2>2 DEF Ownership
    <3>1. Owned(q) /\ at[q] # r
      BY <2>1 DEF Ownership, Owned
    <3> QED
      BY <2>2, <3>1 DEF Owned
  <2>7. Requests'
    BY <2>2 DEF Requests
  <2> QED
    BY <2>3, <2>4, <2>5, <2>6, <2>7
<1>4. CASE CleanRefuse(p)
  BY <1>4, ReturnKeeps DEF CleanRefuse
<1>5. CASE CleanScanned(p)
  <2>1. \A q \in Proc : left'[q] \subseteq doomed[q]
    BY <1>5 DEF CleanScanned, Known, TypeOK
  <2> QED
    BY <1>5, <2>1, <1>0 DEF CleanScanned, CleanPC
<1>6. CASE CleanTear(p)
  <2>1. PICK r \in left[p] :
          /\ dir[r] = "intact"
          /\ \/ dir' = [dir EXCEPT ![r] = "torn"] /\ filed' \in {filed, filed \ {r}}
             \/ dir' = [dir EXCEPT ![r] = "bare"] /\ filed' = filed \ {r}
    BY <1>6 DEF CleanTear
  <2>2. \A s \in Run : s # r => dir'[s] = dir[s] /\ (s \in filed' <=> s \in filed)
    BY <2>1 DEF TypeOK
  <2> QED
    BY <1>6, <2>1, <2>2, <1>1 DEF CleanTear
<1>7. CASE CleanRemove(p)
  <2>1. PICK r \in left[p] : /\ dir' = [dir EXCEPT ![r] = "absent"]
                             /\ filed' = filed \ {r}
                             /\ left' = [left EXCEPT ![p] = @ \ {r}]
    BY <1>7 DEF CleanRemove
  <2>2. /\ \A s \in Run : s # r => dir'[s] = dir[s] /\ (s \in filed' <=> s \in filed)
        /\ r \in Run => dir'[r] = "absent"
        /\ \A q \in Proc : left'[q] \subseteq left[q]
    BY <2>1 DEF TypeOK
  <2>3. r \in Run
    BY <2>1 DEF TypeOK
  <2> QED
    BY <1>7, <2>1, <2>2, <2>3, <1>1 DEF CleanRemove
<1>8. CASE CleanUnsafe(p)
  BY <1>8, ReturnKeeps DEF CleanUnsafe
<1>9. CASE CleanRemoved(p)
  BY <1>9, <1>0 DEF CleanRemoved, CleanPC, Known
<1>10. CASE CleanPurge(p)
  BY <1>10, ReturnKeeps DEF CleanPurge
<1>11. CASE CleanFails(p)
  BY <1>11, ReturnKeeps DEF CleanFails
<1> QED
  BY <1>2, <1>3, <1>4, <1>5, <1>6, <1>7, <1>8, <1>9, <1>10, <1>11 DEF Clean

\* So do a kill, the end of a command, the passing of time and a replaced directory.
LEMMA OthersKeep ==
    ASSUME IInv
    PROVE  /\ \A p \in Proc : Crash(p) => Guards'
           /\ \A c \in Cmd : CommandExits(c) => Guards'
           /\ \A r \in Run : Age(r) \/ Replace(r) => Guards'
           /\ UNCHANGED vars => Guards'
<1> USE DEF IInv, Guards, table, disk, groups, execLocals, cleanLocals
<1>1. ASSUME UNCHANGED <<recorded, born, dir, filed, contract, lock, issued, cmdRun, pc,
                         at, cmd, todo, doomed, left>>
      PROVE  Guards'
  BY <1>1 DEF Locking, Known, Deletions, Ownership, Owned, Requests
<1>2. ASSUME NEW p \in Proc, Crash(p)  PROVE Guards'
  BY <1>2, ReturnKeeps DEF Crash
<1>3. ASSUME NEW c \in Cmd, CommandExits(c)  PROVE Guards'
  BY <1>1, <1>3 DEF CommandExits
<1>4. ASSUME NEW r \in Run, Age(r)  PROVE Guards'
  BY <1>1, <1>4 DEF Age
<1>5. ASSUME NEW r \in Run, Replace(r)  PROVE Guards'
  <2>1. /\ r \in recorded /\ \A p \in Proc : r \notin doomed[p]
        /\ \A s \in Run : s # r => dir'[s] = dir[s] /\ (s \in filed' <=> s \in filed)
        /\ UNCHANGED <<recorded, born, contract, lock, issued, cmdRun, pc, at, cmd, todo,
                       doomed, left>>
    BY <1>5 DEF Replace, TypeOK
  <2>2. Locking' /\ Known' /\ Requests'
    BY <2>1 DEF Locking, Known, Requests
  <2>3. Deletions'
    BY <2>1 DEF Deletions, TypeOK
  <2>4. Ownership'
    BY <2>1 DEF Ownership, Owned, Working
  <2> QED
    BY <2>2, <2>3, <2>4
<1>6. UNCHANGED vars => Guards'
  BY <1>1 DEF vars
<1> QED
  BY <1>2, <1>3, <1>4, <1>5, <1>6

\* The invariant is inductive.
LEMMA Induction == Spec => []IInv
<1>1. Init => Guards
  BY NoRunAssumption, BoundsAssumption
     DEF Init, Guards, Locking, Known, Deletions, Ownership, Requests, LockedPC, PreparePC,
         ActivePC
<1>2. IInv /\ [Next]_vars => Guards'
  BY PrepareKeeps, ExecuteKeeps, CleanKeeps, OthersKeep DEF Next
<1>3. TypeOK /\ Working /\ Guards /\ [Next]_vars => Guards'
  BY <1>2 DEF IInv
<1>4. IInv <=> TypeOK /\ Working /\ Guards
  BY DEF IInv
<1> QED
  BY <1>1, <1>3, <1>4, TypeCorrect, PTL DEF Spec

-----------------------------------------------------------------------------
(***************************************************************************)
(* The theorems.                                                           *)
(***************************************************************************)

\* Two processes that supervise commands in one run hold the lock of that run, so
\* they are one process with one command.
THEOREM OneSupervised == Spec => []OneSupervisedCommand
<1>1. IInv => OneSupervisedCommand
  <2> SUFFICES ASSUME IInv, NEW c \in Cmd, NEW d \in Cmd,
                      Supervised(c), Supervised(d), cmdRun[c] = cmdRun[d]
               PROVE  c = d
    BY DEF OneSupervisedCommand
  <2>1. PICK p \in Proc : pc[p] \in SupervisePC /\ cmd[p] = c
    BY DEF Supervised
  <2>2. PICK q \in Proc : pc[q] \in SupervisePC /\ cmd[q] = d
    BY DEF Supervised
  <2>3. at[p] = cmdRun[c] /\ at[q] = cmdRun[d]
    BY <2>1, <2>2 DEF IInv, Guards, Requests, SupervisePC, ActivePC
  <2>4. lock[at[p]] = p /\ lock[at[q]] = q
    BY <2>1, <2>2 DEF IInv, Guards, Locking, SupervisePC, LockedPC
  <2> QED
    BY <2>1, <2>2, <2>3, <2>4
<1> QED
  BY <1>1, Induction, PTL

\* The run a Prepare works on is its own.
THEOREM PrepareOwns == Spec => []PrepareOwnsItsRun
<1>1. IInv => PrepareOwnsItsRun
  BY DEF IInv, Guards, Ownership, Owned, PrepareOwnsItsRun
<1> QED
  BY <1>1, Induction, PTL

\* Only the user or a command takes the directory away under a supervised command:
\* a Prepare works in no run that has a row, and a Clean that changes a directory
\* holds the lock that the supervisor of the command holds.
THEOREM WorkspaceKept == Spec => WorkspaceOutlivesCommand
<1>1. ASSUME IInv, [Next]_vars, NEW c \in Cmd, Supervised(c)
      PROVE  dir'[cmdRun[c]] \in {dir[cmdRun[c]], "unsafe"}
  <2> USE <1>1 DEF IInv, Guards, table, disk, groups, execLocals, cleanLocals
  <2> PICK p \in Proc : pc[p] \in SupervisePC /\ cmd[p] = c
    BY DEF Supervised
  <2> DEFINE r == at[p]
  <2>1. r = cmdRun[c] /\ lock[r] = p /\ r \in Run /\ r \in born
    BY DEF Requests, Locking, Known, Working, SupervisePC, ActivePC, LockedPC
  <2>2. ASSUME NEW q \in Proc, Prepare(q)  PROVE dir'[r] = dir[r]
    <3>1. CASE PrepareBegin(q)
      BY <2>1, <3>1 DEF PrepareBegin, TypeOK
    <3>2. CASE pc[q] \in PreparePC
      <4>1. p # q
        BY <3>2 DEF SupervisePC, PreparePC
      <4>2. at[q] # r
        BY <3>2, <4>1 DEF Ownership, Owned
      <4> QED
        BY <2>1, <2>2, <4>2
           DEF Prepare, PrepareBegin, PrepareClone, PrepareWrite, PrepareRecord,
               PrepareUndo, TypeOK
    <3> QED
      BY <2>2, <3>1, <3>2
         DEF Prepare, PrepareClone, PrepareWrite, PrepareRecord, PrepareUndo, PreparePC
  <2>3. ASSUME NEW q \in Proc, Execute(q)  PROVE dir' = dir
    BY <2>3 DEF Execute, ExecuteBegin, ExecuteLock, ExecuteRelist, ExecuteStart,
                ExecuteExpire, ExecuteReap, ExecuteFile, ExecuteRow
  <2>4. ASSUME NEW q \in Proc, Clean(q)  PROVE dir'[r] = dir[r]
    <3>1. CASE pc[q] = "remove"
      <4>1. q # p
        BY <3>1 DEF SupervisePC
      <4>2. r \in left[q] => dir[r] = "absent"
        BY <2>1, <4>1 DEF Known, Deletions
      <4> QED
        BY <2>1, <2>4, <3>1, <4>2
           DEF Clean, CleanBegin, CleanScan, CleanRefuse, CleanScanned, CleanTear,
               CleanRemove, CleanUnsafe, CleanRemoved, CleanPurge, CleanFails, TypeOK
    <3>2. CASE pc[q] # "remove"
      BY <2>4, <3>2
         DEF Clean, CleanBegin, CleanScan, CleanRefuse, CleanScanned, CleanTear,
             CleanRemove, CleanUnsafe, CleanRemoved, CleanPurge, CleanFails
    <3> QED
      BY <3>1, <3>2
  <2>5. ASSUME NEW q \in Proc, Crash(q)  PROVE dir' = dir
    BY <2>5 DEF Crash
  <2>6. ASSUME NEW d \in Cmd, CommandExits(d)  PROVE dir' = dir
    BY <2>6 DEF CommandExits
  <2>7. ASSUME NEW s \in Run, Age(s) \/ Replace(s)  PROVE dir'[r] \in {dir[r], "unsafe"}
    BY <2>1, <2>7, NoProcAssumption DEF Age, Replace, TypeOK
  <2>8. CASE UNCHANGED vars
    BY <2>8, <2>1 DEF vars
  <2> QED
    BY <2>1, <2>2, <2>3, <2>4, <2>5, <2>6, <2>7, <2>8 DEF Next
<1>2. IInv /\ [Next]_vars
        => [\A c \in Cmd : Supervised(c) => dir'[cmdRun[c]] \in {dir[cmdRun[c]], "unsafe"}]_vars
  BY <1>1
<1> QED
  BY <1>2, Induction, PTL DEF Spec, WorkspaceOutlivesCommand
=============================================================================
