------------------------------ MODULE Hydration ------------------------------
(***************************************************************************)
(* Filling the desired paths of registered projects: the planner's         *)
(* classification (internal/hydrationplanner), the executor's clone        *)
(* (internal/hydrationexecutor) and the placeholder sentinels              *)
(* (internal/placeholder, bootstrap --placeholders).                       *)
(*                                                                         *)
(* A process is a codemesh invocation: hydrate and access work on one      *)
(* project, bootstrap on several.  Nothing locks a path, so processes, and *)
(* the user's editor and shell, meet in the directory itself.  What is at  *)
(* the path of project x is node[x] and, for a directory, the set of its   *)
(* entries.  An entry is named by what it is and by whose clone it came    *)
(* from:                                                                   *)
(*   git, src     the .git directory and the checked out files of a clone; *)
(*   temp         the .codemesh-clone-* directory of a process, when the   *)
(*                project's path is the workspace root: the temporary      *)
(*                clone of every other project is a sibling of its path;   *)
(*   meta, note, barrier   the three files of a placeholder;               *)
(*   notes, readme, repo   a user's own file, one with the name of a       *)
(*                tracked file, and the .git of another repository.        *)
(*                                                                         *)
(* git is external: a clone that starts creates .git at once and ends,     *)
(* whole or failing, later.  The git process of a killed codemesh dies     *)
(* with it.                                                                *)
(***************************************************************************)
EXTENDS Naturals

CONSTANTS
    Project,    \* projects with a row, and a path of their own
    Proc,       \* codemesh processes that can be alive at the same time
    NoProject,  \* "this process works on no project"
    NoProc,     \* the maker of entries that no clone brought
    UserKind,   \* kinds of entries the user may add
    MaxEdits,   \* bound: the user's changes in one behaviour
    MaxFaults   \* bound: kills and I/O errors

ASSUME NamesAssumption == NoProject \notin Project /\ NoProc \notin Proc
ASSUME UserKindAssumption == UserKind \subseteq {"notes", "readme", "repo"}
ASSUME BoundsAssumption == MaxEdits \in Nat /\ MaxFaults \in Nat

VARIABLES
    atRoot,   \* projects whose path is the workspace root
    node,     \* [Project -> NodeKind], what is at the project's path
    entries,  \* [Project -> SUBSET Entry], the content of that directory
    pc,       \* [Proc -> PC]
    op,       \* [Proc -> Op], hydrate or write placeholders
    plan,     \* [Proc -> [Project -> Class]], the plan being executed
    on,       \* [Proc -> Project \cup {NoProject}], the project in work
    mode,     \* [Proc -> Mode], how the clone gets to its place
    made,     \* processes whose temporary clone directory exists
    temp,     \* [Proc -> SUBSET {"git", "src"}], what is in it
    edits,    \* changes by the user so far
    faults,   \* kills and I/O errors so far
    seen,     \* history: the path when the process last examined it
    noise     \* history: what disturbed the work at the current path

tree == <<node, entries>>
scratch == <<made, temp>>
task == <<op, plan>>
locals == <<on, mode>>
vars == <<atRoot, tree, pc, task, locals, scratch, edits, faults, seen, noise>>

NodeKind == {"absent", "file", "dir"}
Entry == [kind : {"git", "src", "temp", "meta", "note", "barrier"} \cup UserKind,
          by : Proc \cup {NoProc}]
Git(p) == [kind |-> "git", by |-> p]
Src(p) == [kind |-> "src", by |-> p]
Temp(p) == [kind |-> "temp", by |-> p]
Plain(k) == [kind |-> k, by |-> NoProc]
Sentinels == {Plain("meta"), Plain("barrier"), Plain("note")}

\* out: not in the plan (any more); asked: still to be classified.
Class == {"out", "asked", "missing", "placeholder", "present", "refuse"}
Op == {"hydrate", "placeholders"}
\* fresh: git clones straight into the path; fill: the content of a temporary
\* clone is moved into an empty directory; swap: a temporary clone replaces a
\* placeholder; inside: it is moved into the placeholder at the workspace root.
Mode == {"fresh", "fill", "swap", "inside"}

Resting == {"done", "failed", "dead"}
Cloning == {"temp", "guard", "git", "cloning", "undo"}
Placing == {"recheck", "clear", "rename", "unmeta", "unbarrier", "unnote", "move"}
Writing == {"mkdir", "meta", "note", "barrier"}
AtPath == Cloning \cup Placing \cup Writing
PC == Resting \cup {"plan", "next"} \cup AtPath

TypeOK ==
    /\ atRoot \subseteq Project
    /\ node \in [Project -> NodeKind]
    /\ entries \in [Project -> SUBSET Entry]
    /\ \A x \in Project : node[x] # "dir" => entries[x] = {}
    /\ pc \in [Proc -> PC]
    /\ op \in [Proc -> Op]
    /\ plan \in [Proc -> [Project -> Class]]
    /\ on \in [Proc -> Project \cup {NoProject}]
    /\ \A p \in Proc : pc[p] \in AtPath => on[p] \in Project
    /\ mode \in [Proc -> Mode]
    /\ made \subseteq Proc
    /\ temp \in [Proc -> SUBSET {"git", "src"}]
    /\ edits \in 0..MaxEdits
    /\ faults \in 0..MaxFaults
    /\ seen \in [Proc -> [node : NodeKind, entries : SUBSET Entry]]
    /\ noise \in [Proc -> SUBSET {"other", "fault"}]

Nothing == [node |-> "absent", entries |-> {}]
NoPlan == [x \in Project |-> "out"]

\* A workspace before any of its projects was hydrated here.  A project at its root
\* is the only one: its path would nest with any other.
Init ==
    /\ atRoot \in {S \in SUBSET Project : \A x \in S : Project = {x}}
    /\ node \in [Project -> {"absent", "dir"}]
    /\ entries = [x \in Project |-> {}]
    /\ pc = [p \in Proc |-> "done"]
    /\ op = [p \in Proc |-> "hydrate"]
    /\ plan = [p \in Proc |-> NoPlan]
    /\ on = [p \in Proc |-> NoProject]
    /\ mode = [p \in Proc |-> "fresh"]
    /\ made = {}
    /\ temp = [p \in Proc |-> {}]
    /\ edits = 0
    /\ faults = 0
    /\ seen = [p \in Proc |-> Nothing]
    /\ noise = [p \in Proc |-> {}]

-----------------------------------------------------------------------------
(***************************************************************************)
(* The file system.                                                        *)
(***************************************************************************)

Goto(p, label) == pc' = [pc EXCEPT ![p] = label]

\* On to label with the same locals; an operation that returns loses them.
GoOn(p, label) ==
    /\ Goto(p, label)
    /\ IF label \in Resting
       THEN /\ plan' = [plan EXCEPT ![p] = NoPlan]
            /\ on' = [on EXCEPT ![p] = NoProject]
            /\ mode' = [mode EXCEPT ![p] = "fresh"]
            /\ seen' = [seen EXCEPT ![p] = Nothing]
       ELSE UNCHANGED <<plan, locals, seen>>

HasGitDir(x) == \E e \in entries[x] : e.kind \in {"git", "repo"}

\* Mutant: any directory will do.
AnyDirectory(x, allowed) == node[x] = "dir"

Empty(x, allowed) == node[x] = "dir" /\ entries[x] \subseteq allowed

\* placeholder.OwnedByAllowing: exactly the three files, as written.
Owned(x, allowed) == node[x] = "dir" /\ entries[x] \ allowed = Sentinels

\* Everyone else at work at x is disturbed.
Disturbing(x, p) ==
    [q \in Proc |-> IF q # p /\ on[q] = x /\ pc[q] \in AtPath
                    THEN noise[q] \cup {"other"} ELSE noise[q]]

\* The path becomes kind with content es, the temporary clones are those of held
\* with the content t; one that was inside the path and is no longer is gone.
Put(p, x, kind, es, held, t) ==
    LET lost == {q \in Proc : Temp(q) \in entries[x] \ es}
    IN  /\ node' = [node EXCEPT ![x] = kind]
        /\ entries' = [entries EXCEPT ![x] = es]
        /\ made' = held \ lost
        /\ temp' = [q \in Proc |-> IF q \in lost THEN {} ELSE t[q]]
        /\ noise' = Disturbing(x, p)

\* One step of os.RemoveAll(path): an entry, in any order, then the directory.
RemoveStep(p, x) ==
    \/ \E e \in entries[x] : Put(p, x, node[x], entries[x] \ {e}, made, temp)
    \/ /\ entries[x] = {}
       /\ node[x] # "absent"
       /\ Put(p, x, "absent", {}, made, temp)

\* An I/O error in a step of p: nothing is changed, the step is not retried.
Fault(p, label) ==
    /\ faults < MaxFaults
    /\ faults' = faults + 1
    /\ noise' = [noise EXCEPT ![p] = @ \cup {"fault"}]
    /\ GoOn(p, label)
    /\ UNCHANGED <<tree, op, scratch, edits>>

\* p goes on, or fails, without having changed anything.
Pass(p, label) ==
    /\ GoOn(p, label)
    /\ UNCHANGED <<tree, op, scratch, edits, faults, noise>>

\* The project in work is finished: the next one of the plan, or the end.
Finish(p) ==
    /\ plan' = [plan EXCEPT ![p][on[p]] = "out"]
    /\ Goto(p, "next")
    /\ on' = [on EXCEPT ![p] = NoProject]
    /\ mode' = [mode EXCEPT ![p] = "fresh"]
    /\ seen' = [seen EXCEPT ![p] = Nothing]

-----------------------------------------------------------------------------
(***************************************************************************)
(* Planner: classifyProject for each project asked for, one after the      *)
(* other.  A present path is compared with the registered remote before    *)
(* anything is changed: .git of a user's other repository does not match.  *)
(***************************************************************************)

\* A directory that an earlier operation of p left behind is nobody's from now on.
Begin(p) ==
    /\ pc[p] \in Resting
    /\ \E o \in Op, S \in SUBSET Project \ {{}} :
          /\ op' = [op EXCEPT ![p] = o]
          /\ plan' = [plan EXCEPT ![p] = [x \in Project |-> IF x \in S THEN "asked" ELSE "out"]]
    /\ Goto(p, "plan")
    /\ made' = made \ {p}
    /\ temp' = [temp EXCEPT ![p] = {}]
    /\ noise' = [noise EXCEPT ![p] = {}]
    /\ UNCHANGED <<tree, locals, edits, faults, seen>>

ClassOf(x) ==
    CASE HasGitDir(x)                         -> "present"
      [] Owned(x, {})                         -> "placeholder"
      [] node[x] = "absent" \/ Empty(x, {})   -> "missing"
      [] OTHER                                -> "refuse"

Classify(p) ==
    /\ pc[p] = "plan"
    /\ \E x \in Project :
          /\ plan[p][x] = "asked"
          /\ plan' = [plan EXCEPT ![p][x] = ClassOf(x)]
    /\ UNCHANGED <<tree, pc, op, locals, scratch, edits, faults, seen, noise>>

Matches(x) == \E q \in Proc : Git(q) \in entries[x]

\* Execute's first loop: a refusal, or a present path that does not match,
\* ends the operation.  Writing placeholders does not compare.
Preflight(p) ==
    /\ pc[p] = "plan"
    /\ \A x \in Project : plan[p][x] # "asked"
    /\ IF \/ \E x \in Project : plan[p][x] = "refuse"
          \/ op[p] = "hydrate" /\ \E x \in Project : plan[p][x] = "present" /\ ~Matches(x)
       THEN Pass(p, "failed")
       ELSE Pass(p, "next")

Jobs(p) == {x \in Project : plan[p][x] \in {"missing", "placeholder"}}

Complete(p) ==
    /\ pc[p] = "next"
    /\ Jobs(p) = {}
    /\ Pass(p, "done")

-----------------------------------------------------------------------------
(***************************************************************************)
(* Executor.clone.  Until git has finished the steps are those of both     *)
(* ways: straight into an absent path, or into a temporary directory.      *)
(***************************************************************************)

View(x, allowed) == [node |-> node[x], entries |-> entries[x] \ allowed]

\* What os.Stat and the checks after it decide; "stop" is a PathConflictError.
ModeFor(p, x) ==
    IF node[x] = "absent" THEN "fresh"
    ELSE IF plan[p][x] = "placeholder" /\ Owned(x, {})
         THEN IF x \in atRoot THEN "inside" ELSE "swap"
         ELSE IF plan[p][x] = "missing" /\ Empty(x, {}) THEN "fill" ELSE "stop"

\* Mutant: clone goes on with a destination that is neither missing nor a placeholder.
LookUnguarded(p) ==
    /\ pc[p] = "next"
    /\ op[p] = "hydrate"
    /\ \E x \in Jobs(p) :
          /\ on' = [on EXCEPT ![p] = x]
          /\ seen' = [seen EXCEPT ![p] = View(x, {})]
          /\ mode' = [mode EXCEPT ![p] = ModeFor(p, x)]
          /\ Goto(p, IF ModeFor(p, x) = "fresh" THEN "guard" ELSE "temp")
    /\ noise' = [noise EXCEPT ![p] = {}]
    /\ UNCHANGED <<tree, op, plan, scratch, edits, faults>>

Look(p) ==
    /\ pc[p] = "next"
    /\ op[p] = "hydrate"
    /\ \E x \in Jobs(p) :
          IF ModeFor(p, x) = "stop" THEN GoOn(p, "failed")
          ELSE /\ on' = [on EXCEPT ![p] = x]
               /\ seen' = [seen EXCEPT ![p] = View(x, {})]
               /\ mode' = [mode EXCEPT ![p] = ModeFor(p, x)]
               /\ Goto(p, IF ModeFor(p, x) = "fresh" THEN "guard" ELSE "temp")
               /\ UNCHANGED plan
    /\ noise' = [noise EXCEPT ![p] = {}]
    /\ UNCHANGED <<tree, op, scratch, edits, faults>>

WithTemp(p, x) == IF x \in atRoot THEN entries[x] \cup {Temp(p)} ELSE entries[x]

\* os.MkdirTemp, next to the path or, at the workspace root, in it.
MakeTemp(p) ==
    LET x == on[p]
    IN  /\ pc[p] = "temp"
        /\ IF x \in atRoot /\ node[x] # "dir" THEN Pass(p, "failed")
           ELSE /\ Put(p, x, node[x], WithTemp(p, x), made \cup {p}, [temp EXCEPT ![p] = {}])
                /\ Goto(p, "guard")
                /\ UNCHANGED <<task, locals, edits, faults, seen>>

\* The last ensureRealDestinationWithinRoot.  When it fails, only the clone into
\* an empty directory takes its temporary directory away.
Guard(p) ==
    /\ pc[p] = "guard"
    /\ Pass(p, "git")

GuardFails(p) ==
    /\ pc[p] = "guard"
    /\ Fault(p, IF mode[p] = "fill" THEN "undo" ELSE "failed")

\* git clone refuses a destination that is neither absent nor empty, and makes
\* the directories that are missing.
GitStarts(p) ==
    LET x == on[p]
    IN  /\ pc[p] = "git"
        /\ IF mode[p] = "fresh"
           THEN IF node[x] = "absent" \/ Empty(x, {})
                THEN /\ Put(p, x, "dir", {Git(p)}, made, temp)
                     /\ Goto(p, "cloning")
                     /\ UNCHANGED <<task, locals, edits, faults, seen>>
                ELSE Pass(p, "undo")
           ELSE IF x \in atRoot /\ node[x] = "file"
                THEN Pass(p, "undo")
                ELSE /\ Put(p, x, IF x \in atRoot THEN "dir" ELSE node[x], WithTemp(p, x),
                            made \cup {p}, [temp EXCEPT ![p] = {"git"}])
                     /\ Goto(p, "cloning")
                     /\ UNCHANGED <<task, locals, edits, faults, seen>>

\* The checkout fails when its directory is gone or holds an untracked file of
\* the same name.
GitSucceeds(p) ==
    LET x == on[p]
    IN  /\ pc[p] = "cloning"
        /\ IF mode[p] = "fresh"
           THEN /\ Git(p) \in entries[x]
                /\ Plain("readme") \notin entries[x]
                /\ Put(p, x, node[x], entries[x] \cup {Src(p)}, made, temp)
                /\ Finish(p)
                /\ UNCHANGED <<op, edits, faults>>
           ELSE /\ p \in made
                /\ temp' = [temp EXCEPT ![p] = {"git", "src"}]
                /\ Goto(p, "recheck")
                /\ UNCHANGED <<tree, task, locals, made, edits, faults, seen, noise>>

\* Any failure of git clone, of the filter check or of the sparse checkout.
GitFails(p) ==
    /\ pc[p] = "cloning"
    /\ Pass(p, "undo")

\* Mutant: cleanupOnCloneFailure is never set.
UndoNothing(p) == pc[p] = "undo" /\ Pass(p, "failed")

\* os.RemoveAll(clonePath), whose own error is ignored.  A clone straight into
\* the path removes whatever is at the path by now.
Undo(p) ==
    LET x == on[p]
    IN  /\ pc[p] = "undo"
        /\ IF mode[p] # "fresh"
           THEN /\ Put(p, x, node[x], entries[x] \ {Temp(p)}, made \ {p}, [temp EXCEPT ![p] = {}])
                /\ GoOn(p, "failed")
           ELSE \/ node[x] = "absent" /\ Put(p, x, "absent", {}, made, temp) /\ GoOn(p, "failed")
                \/ RemoveStep(p, x) /\ UNCHANGED <<pc, plan, locals, seen>>
        /\ UNCHANGED <<op, edits, faults>>

UndoFails(p) ==
    /\ pc[p] = "undo"
    /\ Fault(p, "failed")

-----------------------------------------------------------------------------
(***************************************************************************)
(* From the temporary clone to the path.                                   *)
(***************************************************************************)

\* What each mode begins to place the clone with.
FirstOf(m) == CASE m = "fill" -> "move" [] m = "swap" -> "clear" [] OTHER -> "unmeta"

\* Mutant: the path is not examined again after the clone.
RecheckTrusting(p) ==
    /\ pc[p] = "recheck"
    /\ seen' = [seen EXCEPT ![p] = View(on[p], {Temp(p)})]
    /\ Goto(p, FirstOf(mode[p]))
    /\ UNCHANGED <<tree, task, locals, scratch, edits, faults, noise>>

\* Mutant: the error return of the second examination forgets the clone.
RecheckLeaving(p) ==
    LET x == on[p]
        unchanged == IF mode[p] = "fill" THEN Empty(x, {Temp(p)}) ELSE Owned(x, {Temp(p)})
    IN  pc[p] = "recheck" /\ Pass(p, IF unchanged THEN FirstOf(mode[p]) ELSE "failed")

\* dirIsEmptyExcept or OwnedByAllowing, when the clone is there.
Recheck(p) ==
    LET x == on[p]
        unchanged == IF mode[p] = "fill" THEN Empty(x, {Temp(p)}) ELSE Owned(x, {Temp(p)})
    IN  /\ pc[p] = "recheck"
        /\ seen' = [seen EXCEPT ![p] = View(x, {Temp(p)})]
        /\ Goto(p, IF unchanged THEN FirstOf(mode[p]) ELSE "undo")
        /\ UNCHANGED <<tree, task, locals, scratch, edits, faults, noise>>

\* os.RemoveAll(project.LocalPath) of a placeholder.
Clear(p) ==
    LET x == on[p]
    IN  /\ pc[p] = "clear"
        /\ \/ node[x] = "absent" /\ Put(p, x, "absent", {}, made, temp) /\ Goto(p, "rename")
           \/ RemoveStep(p, x) /\ UNCHANGED pc
        /\ UNCHANGED <<task, locals, edits, faults, seen>>

\* os.Rename of a directory: its target may be absent or an empty directory.
Rename(p) ==
    LET x == on[p]
    IN  /\ pc[p] = "rename"
        /\ IF node[x] = "absent" \/ Empty(x, {})
           THEN /\ Put(p, x, "dir", {Git(p), Src(p)}, made \ {p}, [temp EXCEPT ![p] = {}])
                /\ Finish(p)
                /\ UNCHANGED <<op, edits, faults>>
           ELSE Pass(p, "undo")

\* os.Remove of one sentinel at the workspace root: it fails when the file is
\* gone; a .git directory in its place is not empty.
Unlink(p, label, e, next) ==
    LET x == on[p]
    IN  /\ pc[p] = label
        /\ IF e \in entries[x]
           THEN /\ Put(p, x, node[x], entries[x] \ {e}, made, temp)
                /\ Goto(p, next)
                /\ UNCHANGED <<task, locals, edits, faults, seen>>
           ELSE Pass(p, "undo")

\* Mutant: SentinelFiles without the note.
StripTwo(p) ==
    \/ Unlink(p, "unmeta", Plain("meta"), "unbarrier")
    \/ Unlink(p, "unbarrier", Plain("barrier"), "move")

Strip(p) ==
    \/ Unlink(p, "unmeta", Plain("meta"), "unbarrier")
    \/ Unlink(p, "unbarrier", Plain("barrier"), "unnote")
    \/ Unlink(p, "unnote", Plain("note"), "move")

\* os.Rename of one entry of the clone.  A .git already there refuses it; files
\* replace files of the same name, and another clone's directories refuse.
MoveEntry(p) ==
    LET x == on[p]
        foreign == {e \in entries[x] : e.kind = "src"}
        replaced == foreign \cup {Plain("readme")}
    IN  /\ pc[p] = "move"
        /\ node[x] = "dir" /\ p \in made
        /\ \/ /\ "git" \in temp[p]
              /\ ~HasGitDir(x) /\ Plain("barrier") \notin entries[x]
              /\ Put(p, x, "dir", entries[x] \cup {Git(p)}, made, [temp EXCEPT ![p] = @ \ {"git"}])
           \/ /\ "src" \in temp[p]
              /\ Put(p, x, "dir", (entries[x] \ replaced) \cup {Src(p)}, made,
                     [temp EXCEPT ![p] = @ \ {"src"}])
        /\ UNCHANGED <<pc, task, locals, edits, faults, seen>>

MoveRefused(p) ==
    LET x == on[p]
    IN  /\ pc[p] = "move"
        /\ \/ node[x] # "dir"
           \/ p \notin made
           \/ "git" \in temp[p] /\ (HasGitDir(x) \/ Plain("barrier") \in entries[x])
           \/ "src" \in temp[p] /\ \E e \in entries[x] : e.kind = "src"
        /\ Pass(p, "undo")

\* os.Remove(clonePath), empty by now.
MoveDone(p) ==
    LET x == on[p]
    IN  /\ pc[p] = "move"
        /\ p \in made
        /\ temp[p] = {}
        /\ Put(p, x, node[x], entries[x] \ {Temp(p)}, made \ {p}, temp)
        /\ Finish(p)
        /\ UNCHANGED <<op, edits, faults>>

\* Every step above may fail for a reason of the machine; only the removal of
\* the emptied temporary directory is not cleaned up after.
PlaceFails(p) ==
    /\ pc[p] \in Placing \cup {"temp"}
    /\ Fault(p, IF pc[p] = "temp" \/ (pc[p] = "move" /\ temp[p] = {}) THEN "failed" ELSE "undo")

-----------------------------------------------------------------------------
(***************************************************************************)
(* placeholder.Write, for each missing project of the plan.                *)
(***************************************************************************)

WriteLook(p) ==
    /\ pc[p] = "next"
    /\ op[p] = "placeholders"
    /\ \E x \in Jobs(p) :
          \/ /\ Owned(x, {})
             /\ plan' = [plan EXCEPT ![p][x] = "out"]
             /\ UNCHANGED <<pc, locals, seen>>
          \/ /\ node[x] = "absent" \/ Empty(x, {})
             /\ on' = [on EXCEPT ![p] = x]
             /\ seen' = [seen EXCEPT ![p] = View(x, {})]
             /\ Goto(p, "mkdir")
             /\ UNCHANGED <<plan, mode>>
          \/ /\ ~Owned(x, {}) /\ node[x] # "absent" /\ ~Empty(x, {})
             /\ GoOn(p, "failed")
    /\ noise' = [noise EXCEPT ![p] = {}]
    /\ UNCHANGED <<tree, op, scratch, edits, faults>>

Mkdir(p) ==
    LET x == on[p]
    IN  /\ pc[p] = "mkdir"
        /\ IF node[x] = "file" THEN Pass(p, "failed")
           ELSE /\ Put(p, x, "dir", entries[x], made, temp)
                /\ Goto(p, "meta")
                /\ UNCHANGED <<task, locals, edits, faults, seen>>

\* os.WriteFile of a sentinel: there must be a directory to write in, and no
\* directory of that name.
WriteFile(p, label, e, next) ==
    LET x == on[p]
    IN  /\ pc[p] = label
        /\ IF node[x] # "dir" \/ (label = "barrier" /\ HasGitDir(x)) THEN Pass(p, "failed")
           ELSE /\ Put(p, x, "dir", entries[x] \cup {e}, made, temp)
                /\ IF next = "next" THEN Finish(p) ELSE GoOn(p, next)
                /\ UNCHANGED <<op, edits, faults>>

WriteSentinel(p) ==
    \/ WriteFile(p, "meta", Plain("meta"), "note")
    \/ WriteFile(p, "note", Plain("note"), "barrier")
    \/ WriteFile(p, "barrier", Plain("barrier"), "next")

WriteFails(p) ==
    /\ pc[p] \in Writing
    /\ Fault(p, "failed")

-----------------------------------------------------------------------------
(***************************************************************************)
(* The environment.                                                        *)
(***************************************************************************)

\* codemesh is killed: nothing deferred runs, nothing is cleaned up.
Crash(p) ==
    /\ pc[p] \notin Resting
    /\ faults < MaxFaults
    /\ faults' = faults + 1
    /\ GoOn(p, "dead")
    /\ UNCHANGED <<tree, op, scratch, edits, noise>>

UserPuts(x, kind, es) ==
    /\ edits < MaxEdits
    /\ edits' = edits + 1
    /\ Put(NoProc, x, kind, es, made, temp)
    /\ UNCHANGED <<pc, task, locals, faults, seen>>

UserAdds(x) ==
    \E k \in UserKind :
        /\ node[x] # "file"
        /\ k = "repo" => ~HasGitDir(x) /\ Plain("barrier") \notin entries[x]
        /\ Plain(k) \notin entries[x]
        /\ UserPuts(x, "dir", entries[x] \cup {Plain(k)})

UserRemoves(x) ==
    \/ \E e \in entries[x] : UserPuts(x, "dir", entries[x] \ {e})
    \/ node[x] # "absent" /\ UserPuts(x, "absent", {})

UserPutsFile(x) == node[x] = "absent" /\ UserPuts(x, "file", {})

User == \E x \in Project : UserAdds(x) \/ UserRemoves(x) \/ UserPutsFile(x)

-----------------------------------------------------------------------------

Hydrate(p) ==
    \/ Look(p) \/ MakeTemp(p) \/ Guard(p) \/ GitStarts(p) \/ GitSucceeds(p) \/ GitFails(p)
    \/ Undo(p) \/ Recheck(p) \/ Clear(p) \/ Rename(p) \/ Strip(p)
    \/ MoveEntry(p) \/ MoveRefused(p) \/ MoveDone(p)
Materialize(p) == WriteLook(p) \/ Mkdir(p) \/ WriteSentinel(p)

\* The steps a process takes by itself once it has begun.
Proceed(p) ==
    /\ Classify(p) \/ Preflight(p) \/ Complete(p) \/ Hydrate(p) \/ Materialize(p)
    /\ UNCHANGED atRoot
Mishap(p) == GuardFails(p) \/ UndoFails(p) \/ PlaceFails(p) \/ WriteFails(p) \/ Crash(p)

Next ==
    \/ \E p \in Proc : Proceed(p)
    \/ /\ User \/ \E p \in Proc : Begin(p) \/ Mishap(p)
       /\ UNCHANGED atRoot

Spec == Init /\ [][Next]_vars

-----------------------------------------------------------------------------
(***************************************************************************)
(* Properties.                                                             *)
(***************************************************************************)

Operate(p) == Proceed(p) \/ Mishap(p)

\* A hydration that fails with nobody else at its path and no fault leaves the
\* path as it found it, whichever of its exits it takes: no half clone, no
\* stripped placeholder, no temporary directory in the workspace root.
FailureRestores ==
    [][\A p \in Proc :
          /\ pc[p] \in AtPath
          /\ pc'[p] = "failed"
          /\ noise'[p] = {}
          => [node |-> node'[on[p]], entries |-> entries'[on[p]]] = seen[p]]_vars

\* A project reported as hydrated, with nobody else at its path and no fault, is
\* the whole clone and nothing but it; one reported as placeholder is exactly
\* the three sentinels.
SuccessIsWhole ==
    [][\A p \in Proc :
          /\ pc[p] \in AtPath
          /\ pc'[p] = "next"
          /\ noise'[p] = {}
          => /\ node'[on[p]] = "dir"
             /\ entries'[on[p]] = IF op[p] = "hydrate" THEN {Git(p), Src(p)} ELSE Sentinels]_vars

\* Whoever else is at the path and whatever fails, codemesh takes away nothing that was
\* there when it last examined the path but a placeholder, and that only when it was
\* whole and held nothing else: files the user added while the clone ran make the swap
\* and the move stop, and a placeholder another process has half written stays.
KeepsWhatItSaw ==
    [][\A p \in Proc : pc[p] \in AtPath /\ Operate(p) =>
          \A e \in (entries[on[p]] \ entries'[on[p]]) \cap seen[p].entries :
              e.by = p \/ seen[p].entries = Sentinels]_vars

\* An operation that returned left its temporary clone behind only if the
\* machine failed it, even when its path was changed under it.
TempCleaned ==
    \A p \in Proc : pc[p] \in {"done", "failed"} /\ p \in made => "fault" \in noise[p]

\* A failing hydration takes away neither a file of the user nor a checkout that
\* another process has finished.
FailureKeepsFiles ==
    [][\A p \in Proc : pc[p] = "undo" /\ Operate(p) =>
          \A e \in entries[on[p]] \ entries'[on[p]] :
              e.by # p => e.kind \notin UserKind \cup {"src"}]_vars

=============================================================================
