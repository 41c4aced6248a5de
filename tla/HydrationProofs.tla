--------------------------- MODULE HydrationProofs ---------------------------
(***************************************************************************)
(* Hydration for any sets of projects and processes and any bounds: what a *)
(* process finds at its path while nobody disturbs it, and that it takes   *)
(* nothing away that it has not examined.                                  *)
(***************************************************************************)
EXTENDS Hydration, TLAPS

(***************************************************************************)
(* The inductive invariant.                                                *)
(***************************************************************************)

\* A temporary clone is an entry of the workspace root only, which then is the path of
\* the only project.
Rooted ==
    /\ \A x \in atRoot : Project = {x}
    /\ \A x \in Project, q \in Proc : Temp(q) \in entries[x] => x \in atRoot

\* What the examination of a path before or after the clone has to have found.
Expected(m) ==
    IF m = "fresh" THEN Nothing
    ELSE [node |-> "dir", entries |-> IF m = "fill" THEN {} ELSE Sentinels]

\* Where a process is in its operation, whatever happens at its path.
Course(p) ==
    /\ pc[p] \notin AtPath => mode[p] = "fresh"
    /\ pc[p] \in Writing => /\ op[p] = "placeholders" /\ mode[p] = "fresh"
                            /\ seen[p].node # "file" /\ seen[p].entries = {}
    /\ pc[p] \in Cloning \cup Placing =>
          /\ op[p] = "hydrate"
          /\ mode[p] = "inside" => on[p] \in atRoot
          /\ mode[p] = "swap" => on[p] \notin atRoot
          /\ pc[p] # "undo" \/ mode[p] = "fresh" => seen[p] = Expected(mode[p])
    /\ pc[p] \in Placing \cup {"temp"} => mode[p] # "fresh"
    /\ pc[p] \in {"clear", "rename"} => mode[p] = "swap"
    /\ pc[p] \in {"unmeta", "unbarrier", "unnote"} => mode[p] = "inside"
    /\ pc[p] = "move" => mode[p] \in {"fill", "inside"}

\* Who still has a temporary clone is at work with it, was killed, or was failed by the
\* machine.
Tidy(p) ==
    p \in made =>
        \/ pc[p] \in (Cloning \cup Placing) \ {"temp"} /\ mode[p] # "fresh"
        \/ pc[p] = "dead"
        \/ pc[p] = "failed" /\ "fault" \in noise[p]

At(p, kind, es) == node[on[p]] = kind /\ entries[on[p]] = es

Own(p) == IF on[p] \in atRoot THEN {Temp(p)} ELSE {}

Moved(p) ==
    (IF "git" \in temp[p] THEN {} ELSE {Git(p)}) \cup (IF "src" \in temp[p] THEN {} ELSE {Src(p)})

\* The path of a process that nobody has disturbed, step by step.
Undisturbed(p) ==
    /\ pc[p] = "temp" => At(p, "dir", seen[p].entries)
    /\ pc[p] \in {"guard", "git"} /\ mode[p] = "fresh" => At(p, "absent", {})
    /\ pc[p] = "cloning" /\ mode[p] = "fresh" => At(p, "dir", {Git(p)})
    /\ pc[p] \in {"guard", "git", "cloning", "recheck"} /\ mode[p] # "fresh" =>
          p \in made /\ At(p, "dir", seen[p].entries \cup Own(p))
    /\ pc[p] \in Placing => p \in made
    /\ pc[p] \in Placing \ {"move"} => temp[p] = {"git", "src"}
    /\ pc[p] = "rename" => At(p, "absent", {})
    /\ pc[p] = "unmeta" => At(p, "dir", Sentinels \cup {Temp(p)})
    /\ pc[p] = "unbarrier" => At(p, "dir", {Plain("barrier"), Plain("note"), Temp(p)})
    /\ pc[p] = "unnote" => At(p, "dir", {Plain("note"), Temp(p)})
    /\ pc[p] = "move" => At(p, "dir", Own(p) \cup Moved(p))
    /\ pc[p] = "undo" => /\ seen[p] = Expected(mode[p])
                         /\ mode[p] # "fresh" => At(p, "dir", seen[p].entries \cup Own(p))
    /\ pc[p] = "mkdir" => At(p, seen[p].node, {})
    /\ pc[p] = "meta" => At(p, "dir", {})
    /\ pc[p] = "note" => At(p, "dir", {Plain("meta")})
    /\ pc[p] = "barrier" => At(p, "dir", {Plain("meta"), Plain("note")})

HInv ==
    /\ TypeOK
    /\ Rooted
    /\ \A p \in Proc : Course(p) /\ Tidy(p) /\ (noise[p] = {} => Undisturbed(p))

-----------------------------------------------------------------------------
(***************************************************************************)
(* Types.                                                                  *)
(***************************************************************************)

LEMMA EntriesTyped ==
    /\ \A p \in Proc : Git(p) \in Entry /\ Src(p) \in Entry /\ Temp(p) \in Entry
    /\ \A k \in {"meta", "note", "barrier"} \cup UserKind : Plain(k) \in Entry
    /\ Sentinels \subseteq Entry
BY DEF Git, Src, Temp, Plain, Entry, Sentinels

\* What the step of p says about the places of processes: types, and nobody else moves.
Places(p) ==
    /\ pc' \in [Proc -> PC] /\ op' \in [Proc -> Op] /\ plan' \in [Proc -> [Project -> Class]]
    /\ on' \in [Proc -> Project \cup {NoProject}] /\ mode' \in [Proc -> Mode]
    /\ seen' \in [Proc -> [node : NodeKind, entries : SUBSET Entry]]
    /\ \A q \in Proc : pc'[q] \in AtPath => on'[q] \in Project
    /\ \A q \in Proc \ {p} : /\ pc'[q] = pc[q] /\ op'[q] = op[q] /\ on'[q] = on[q]
                             /\ mode'[q] = mode[q] /\ seen'[q] = seen[q]

\* A step of p that changes nothing but the path of x, and tells everybody there.
Touch(p, x) ==
    /\ node' \in [Project -> NodeKind] /\ entries' \in [Project -> SUBSET Entry]
    /\ node'[x] # "dir" => entries'[x] = {}
    /\ made' \subseteq Proc /\ temp' \in [Proc -> SUBSET {"git", "src"}]
    /\ noise' = Disturbing(x, p)
    /\ \A y \in Project \ {x} : node'[y] = node[y] /\ entries'[y] = entries[y]
    /\ \A q \in Proc : Temp(q) \in entries'[x] => Temp(q) \in entries[x] \/ x \in atRoot
    /\ \A q \in Proc \ {p} :
          /\ q \in made' => q \in made
          /\ Temp(q) \notin entries[x] => temp'[q] = temp[q] /\ (q \in made => q \in made')

\* A step of p that changes nothing outside of p.
Leave(p) ==
    /\ UNCHANGED tree
    /\ made' \subseteq Proc /\ temp' \in [Proc -> SUBSET {"git", "src"}]
    /\ noise' \in [Proc -> SUBSET {"other", "fault"}]
    /\ \A q \in Proc \ {p} : /\ noise'[q] = noise[q] /\ temp'[q] = temp[q]
                             /\ q \in made' <=> q \in made

LEMMA Labels ==
    /\ AtPath \subseteq PC /\ Resting \subseteq PC /\ {"plan", "next"} \subseteq PC
    /\ AtPath \cap (Resting \cup {"plan", "next"}) = {}
    /\ Cloning \cap Placing = {} /\ Cloning \cap Writing = {} /\ Placing \cap Writing = {}
BY DEF PC, AtPath, Resting, Cloning, Placing, Writing

LEMMA GotoPlaces ==
    ASSUME TypeOK, NEW p \in Proc, NEW label \in PC, Goto(p, label),
           UNCHANGED <<op, plan, on, mode, seen>>, label \in AtPath => on[p] \in Project
    PROVE  Places(p) /\ pc'[p] = label
BY DEF Goto, TypeOK, Places

LEMMA GoOnPlaces ==
    ASSUME TypeOK, NEW p \in Proc, NEW label \in PC, GoOn(p, label), UNCHANGED op,
           label \in AtPath => on[p] \in Project
    PROVE  /\ Places(p) /\ pc'[p] = label
           /\ label \in Resting => mode'[p] = "fresh"
           /\ label \notin Resting => UNCHANGED <<plan, on, mode, seen>>
<1>1. pc' = [pc EXCEPT ![p] = label]
  BY DEF GoOn, Goto
<1>2. CASE label \in Resting
  <2>1. /\ plan' = [plan EXCEPT ![p] = NoPlan] /\ on' = [on EXCEPT ![p] = NoProject]
        /\ mode' = [mode EXCEPT ![p] = "fresh"] /\ seen' = [seen EXCEPT ![p] = Nothing]
    BY <1>2 DEF GoOn
  <2>2. NoPlan \in [Project -> Class] /\ Nothing \in [node : NodeKind, entries : SUBSET Entry]
    BY DEF NoPlan, Class, Nothing, NodeKind
  <2>3. label \notin AtPath
    BY <1>2, Labels
  <2> QED
    BY <1>1, <1>2, <2>1, <2>2, <2>3 DEF TypeOK, Places, Mode
<1>3. CASE label \notin Resting
  <2>1. UNCHANGED <<plan, on, mode, seen>>
    BY <1>3 DEF GoOn, locals
  <2> QED
    BY <1>1, <1>3, <2>1 DEF TypeOK, Places
<1> QED
  BY <1>2, <1>3

LEMMA FinishPlaces ==
    ASSUME TypeOK, NEW p \in Proc, Finish(p), UNCHANGED op
    PROVE  Places(p) /\ pc'[p] = "next" /\ mode'[p] = "fresh"
<1>1. pc' = [pc EXCEPT ![p] = "next"] /\ "next" \in PC \ AtPath
  BY Labels DEF Finish, Goto
<1>2. on' = [on EXCEPT ![p] = NoProject] /\ mode' = [mode EXCEPT ![p] = "fresh"]
  BY DEF Finish
<1>3. plan' \in [Proc -> [Project -> Class]]
  BY DEF Finish, TypeOK, Class
<1>4. seen' = [seen EXCEPT ![p] = Nothing]
  BY DEF Finish
<1>5. Nothing \in [node : NodeKind, entries : SUBSET Entry]
  BY DEF Nothing, NodeKind
<1> QED
  BY <1>1, <1>2, <1>3, <1>4, <1>5 DEF TypeOK, Places, Mode

\* A step that passes and a step that a fault stops leave everything else alone.
LEMMA PassPlaces ==
    ASSUME TypeOK, NEW p \in Proc, NEW label \in PC, Pass(p, label) \/ Fault(p, label),
           label \in AtPath => on[p] \in Project
    PROVE  /\ Places(p) /\ Leave(p) /\ pc'[p] = label /\ UNCHANGED scratch
           /\ label \in Resting => mode'[p] = "fresh"
           /\ label \notin Resting => UNCHANGED <<plan, on, mode, seen>>
           /\ Pass(p, label) => UNCHANGED noise
           /\ Fault(p, label) => "fault" \in noise'[p]
<1>1. GoOn(p, label) /\ UNCHANGED <<op, tree, scratch>>
  BY DEF Pass, Fault
<1>2. noise' \in [Proc -> SUBSET {"other", "fault"}] /\ \A q \in Proc \ {p} : noise'[q] = noise[q]
  <2>1. noise[p] \cup {"fault"} \in SUBSET {"other", "fault"}
    BY DEF TypeOK
  <2>2. CASE noise' = [noise EXCEPT ![p] = noise[p] \cup {"fault"}]
    BY <2>1, <2>2 DEF TypeOK
  <2> QED
    BY <2>2 DEF Pass, Fault, TypeOK
<1>3. Leave(p)
  BY <1>1, <1>2 DEF Leave, scratch, TypeOK
<1>4. Fault(p, label) => "fault" \in noise'[p]
  BY DEF Fault, TypeOK
<1> QED
  BY <1>1, <1>3, <1>4, GoOnPlaces DEF Pass

-----------------------------------------------------------------------------
(***************************************************************************)
(* A process that does not move.                                           *)
(***************************************************************************)

\* What q relies on: nobody moves it, its disturbances are told, and without any its path
\* and its temporary clone stay.
Calm(q) ==
    /\ pc'[q] = pc[q] /\ op'[q] = op[q] /\ on'[q] = on[q]
    /\ mode'[q] = mode[q] /\ seen'[q] = seen[q]
    /\ noise[q] \subseteq noise'[q]
    /\ q \in made' => q \in made
    /\ noise'[q] = {} /\ pc[q] \in AtPath =>
          /\ node'[on[q]] = node[on[q]] /\ entries'[on[q]] = entries[on[q]]
          /\ temp'[q] = temp[q] /\ (q \in made => q \in made')

Kept(q) == Course(q) /\ Tidy(q) /\ (noise[q] = {} => Undisturbed(q))

LEMMA CalmKeeps ==
    ASSUME NEW q \in Proc, Calm(q), Kept(q), UNCHANGED atRoot
    PROVE  Kept(q)'
<1>1. Course(q)'
  BY DEF Calm, Kept, Course
<1>2. Tidy(q)'
  BY DEF Calm, Kept, Tidy
<1>3. ASSUME noise'[q] = {}  PROVE Undisturbed(q)'
  <2>1. Undisturbed(q)
    BY <1>3 DEF Calm, Kept
  <2>2. CASE pc[q] \in AtPath
    BY <1>3, <2>1, <2>2 DEF Calm, Undisturbed, At, Own, Moved
  <2>3. CASE pc[q] \notin AtPath
    BY <2>3 DEF Calm, Undisturbed, AtPath, Cloning, Placing, Writing
  <2> QED
    BY <2>2, <2>3
<1> QED
  BY <1>1, <1>2, <1>3 DEF Kept

LEMMA LeaveCalm ==
    ASSUME NEW p \in Proc, Places(p), Leave(p), NEW q \in Proc \ {p}
    PROVE  Calm(q)
BY DEF Places, Leave, Calm, tree

LEMMA TouchCalm ==
    ASSUME TypeOK, Rooted, NEW p, NEW x \in Project, Touch(p, x), NEW q \in Proc \ {p},
           pc'[q] = pc[q] /\ op'[q] = op[q] /\ on'[q] = on[q] /\ mode'[q] = mode[q],
           seen'[q] = seen[q]
    PROVE  Calm(q)
<1>1. /\ noise[q] \subseteq noise'[q]
      /\ pc[q] \in AtPath /\ on[q] = x => noise'[q] # {}
  BY DEF Touch, Disturbing
<1>2. CASE pc[q] \in AtPath /\ on[q] # x
  <2>1. on[q] \in Project
    BY <1>2 DEF TypeOK
  <2>2. Temp(q) \notin entries[x]
    BY <1>2, <2>1 DEF Rooted
  <2> QED
    BY <1>1, <1>2, <2>1, <2>2 DEF Touch, Calm
<1>3. CASE ~(pc[q] \in AtPath /\ on[q] # x)
  BY <1>1, <1>3 DEF Touch, Calm
<1> QED
  BY <1>2, <1>3

\* The types and the temporary clones after such a step.
LEMMA TreeKept ==
    ASSUME TypeOK, Rooted, UNCHANGED atRoot, NEW p,
           \/ Leave(p)
           \/ \E x \in Project : Touch(p, x)
    PROVE  /\ Rooted'
           /\ node' \in [Project -> NodeKind] /\ entries' \in [Project -> SUBSET Entry]
           /\ \A x \in Project : node'[x] # "dir" => entries'[x] = {}
           /\ made' \subseteq Proc /\ temp' \in [Proc -> SUBSET {"git", "src"}]
           /\ noise' \in [Proc -> SUBSET {"other", "fault"}]
<1>1. CASE Leave(p)
  BY <1>1 DEF Leave, tree, TypeOK, Rooted
<1>2. ASSUME NEW x \in Project, Touch(p, x)
      PROVE  /\ Rooted'
             /\ \A y \in Project : node'[y] # "dir" => entries'[y] = {}
             /\ noise' \in [Proc -> SUBSET {"other", "fault"}]
  <2>1. Rooted'
    BY <1>2 DEF Touch, Rooted
  <2>2. \A y \in Project : node'[y] # "dir" => entries'[y] = {}
    BY <1>2 DEF Touch, TypeOK
  <2>3. noise' \in [Proc -> SUBSET {"other", "fault"}]
    BY <1>2 DEF Touch, Disturbing, TypeOK
  <2> QED
    BY <2>1, <2>2, <2>3
<1> QED
  BY <1>1, <1>2 DEF Touch

-----------------------------------------------------------------------------
(***************************************************************************)
(* A process that moves.                                                   *)
(***************************************************************************)

\* KeepsWhatItSaw, FailureRestores and SuccessIsWhole of a step of p.
Keeps(p) ==
    pc[p] \in AtPath =>
        \A e \in (entries[on[p]] \ entries'[on[p]]) \cap seen[p].entries :
            e.by = p \/ seen[p].entries = Sentinels

Restores(p) ==
    pc[p] \in AtPath /\ pc'[p] = "failed" /\ noise'[p] = {} =>
        [node |-> node'[on[p]], entries |-> entries'[on[p]]] = seen[p]

Whole(p) ==
    pc[p] \in AtPath /\ pc'[p] = "next" /\ noise'[p] = {} =>
        /\ node'[on[p]] = "dir"
        /\ entries'[on[p]] = IF op[p] = "hydrate" THEN {Git(p), Src(p)} ELSE Sentinels

Faithful(p) == Keeps(p) /\ Restores(p) /\ Whole(p)

Good(p) ==
    /\ Places(p)
    /\ Leave(p) \/ \E x \in Project : Touch(p, x)
    /\ Kept(p)'
    /\ Faithful(p)

\* The entries are told apart by what they are, and clones by whose they are.
LEMMA Distinct ==
    ASSUME NEW p \in Proc
    PROVE  /\ Git(p) # Src(p) /\ Git(p) # Temp(p) /\ Src(p) # Temp(p)
           /\ Git(p) \notin Sentinels /\ Src(p) \notin Sentinels /\ Temp(p) \notin Sentinels
           /\ Git(p).by = p /\ Src(p).by = p /\ Temp(p).by = p
           /\ Git(p).kind = "git" /\ Src(p).kind = "src" /\ Temp(p).kind = "temp"
           /\ Plain("readme") \notin Sentinels
           /\ Plain("readme") \notin {Git(p), Src(p), Temp(p)}
           /\ Plain("barrier") \notin {Git(p), Src(p), Temp(p)}
           /\ \A q \in Proc : q # p => Temp(q) \notin {Git(p), Src(p), Temp(p)}
           /\ \A q \in Proc : Temp(q) # Git(p) /\ Temp(q) # Src(p)
           /\ \A k : Plain(k).kind = k
           /\ \A e \in Sentinels : e.kind \in {"meta", "note", "barrier"}
BY DEF Git, Src, Temp, Plain, Sentinels

LEMMA OffPath ==
    ASSUME NEW p \in Proc, pc'[p] \notin AtPath, mode'[p] = "fresh",
           p \in made' => pc'[p] = "dead" \/ (pc'[p] = "failed" /\ "fault" \in noise'[p])
    PROVE  Kept(p)'
BY DEF Kept, Course, Tidy, Undisturbed, AtPath, Cloning, Placing, Writing

\* Between the paths, and when it is killed.
LEMMA BeginGood ==
    ASSUME HInv, NEW p \in Proc, Begin(p)
    PROVE  Good(p)
<1> USE DEF HInv, scratch, locals, tree, task
<1>1. PICK o \in Op, S \in SUBSET Project \ {{}} :
        /\ op' = [op EXCEPT ![p] = o]
        /\ plan' = [plan EXCEPT ![p] = [x \in Project |-> IF x \in S THEN "asked" ELSE "out"]]
  BY DEF Begin
<1>2. /\ pc[p] \in Resting /\ pc' = [pc EXCEPT ![p] = "plan"]
      /\ made' = made \ {p} /\ temp' = [temp EXCEPT ![p] = {}]
      /\ noise' = [noise EXCEPT ![p] = {}] /\ UNCHANGED <<node, entries, on, mode, seen>>
  BY DEF Begin, Goto
<1>3. "plan" \in PC \ AtPath /\ pc[p] \notin AtPath
  BY <1>2, Labels
<1>4. plan' \in [Proc -> [Project -> Class]]
  BY <1>1 DEF TypeOK, Class
<1>5. Places(p)
  BY <1>1, <1>2, <1>3, <1>4 DEF Places, TypeOK
<1>6. Leave(p)
  BY <1>2 DEF Leave, TypeOK
<1>7. Kept(p)'
  BY <1>2, <1>3, OffPath DEF Course, TypeOK
<1> QED
  BY <1>3, <1>5, <1>6, <1>7 DEF Good, Faithful, Keeps, Restores, Whole

LEMMA OffPathGood ==
    ASSUME HInv, NEW p \in Proc, Classify(p) \/ Preflight(p) \/ Complete(p) \/ Crash(p)
    PROVE  Good(p)
<1> USE DEF HInv, scratch, locals, tree, task
<1>1. CASE Classify(p)
  <2>1. PICK x \in Project : plan' = [plan EXCEPT ![p][x] = ClassOf(x)]
    BY <1>1 DEF Classify
  <2>2. plan' \in [Proc -> [Project -> Class]]
    BY <2>1 DEF TypeOK, ClassOf, Class
  <2>3. pc[p] = "plan" /\ UNCHANGED <<tree, pc, op, locals, scratch, seen, noise>>
    BY <1>1 DEF Classify
  <2>4. pc[p] \notin AtPath
    BY <2>3, Labels
  <2>5. Places(p) /\ Leave(p)
    BY <2>2, <2>3 DEF Places, Leave, TypeOK
  <2>6. p \notin made
    BY <2>3 DEF Tidy, Cloning, Placing
  <2>7. Kept(p)'
    BY <2>3, <2>4, <2>6, OffPath DEF Course
  <2> QED
    BY <2>4, <2>5, <2>7 DEF Good, Faithful, Keeps, Restores, Whole
<1>2. CASE Preflight(p) \/ Complete(p)
  <2>1. pc[p] \in {"plan", "next"} /\ pc[p] \notin AtPath
    BY <1>2, Labels DEF Preflight, Complete
  <2>2. p \notin made /\ mode[p] = "fresh"
    BY <2>1 DEF Tidy, Cloning, Placing, Course
  <2>3. ASSUME NEW label \in {"failed", "next", "done"}, Pass(p, label)
        PROVE  Good(p)
    <3>1. label \in PC /\ label \notin AtPath
      BY Labels DEF Resting
    <3>2. /\ Places(p) /\ Leave(p) /\ pc'[p] = label /\ UNCHANGED scratch
          /\ label \in Resting => mode'[p] = "fresh"
          /\ label \notin Resting => UNCHANGED <<plan, on, mode, seen>>
      BY <2>3, <3>1, PassPlaces
    <3>3. Kept(p)'
      BY <2>2, <3>1, <3>2, OffPath
    <3> QED
      BY <2>1, <3>2, <3>3 DEF Good, Faithful, Keeps, Restores, Whole
  <2> QED
    BY <1>2, <2>3 DEF Preflight, Complete
<1>3. CASE Crash(p)
  <2>1. GoOn(p, "dead") /\ UNCHANGED <<tree, op, scratch, noise>>
    BY <1>3 DEF Crash
  <2>2. "dead" \in Resting /\ "dead" \in PC /\ "dead" \notin AtPath
    BY Labels DEF Resting
  <2>3. Places(p) /\ pc'[p] = "dead" /\ mode'[p] = "fresh"
    BY <2>1, <2>2, GoOnPlaces
  <2>4. Leave(p)
    BY <2>1 DEF Leave, TypeOK
  <2>5. Kept(p)'
    BY <2>2, <2>3, OffPath
  <2> QED
    BY <2>1, <2>3, <2>4, <2>5 DEF Good, Faithful, Keeps, Restores, Whole
<1> QED
  BY <1>1, <1>2, <1>3

\* The first examination: what the path is decides how it is going to be filled.
LEMMA LookGood ==
    ASSUME HInv, NEW p \in Proc, Look(p), UNCHANGED atRoot
    PROVE  Good(p)
<1> USE DEF HInv, scratch, locals, tree, task
<1>1. /\ pc[p] = "next" /\ op[p] = "hydrate" /\ noise' = [noise EXCEPT ![p] = {}]
      /\ UNCHANGED <<tree, op, scratch>>
  BY DEF Look
<1>2. pc[p] \notin AtPath /\ p \notin made
  BY <1>1, Labels DEF Tidy, Cloning, Placing
<1>3. Leave(p)
  BY <1>1 DEF Leave, TypeOK
<1>4. Faithful(p)
  BY <1>2 DEF Faithful, Keeps, Restores, Whole
<1>5. PICK x \in Jobs(p) :
        IF ModeFor(p, x) = "stop" THEN GoOn(p, "failed")
        ELSE /\ on' = [on EXCEPT ![p] = x]
             /\ seen' = [seen EXCEPT ![p] = View(x, {})]
             /\ mode' = [mode EXCEPT ![p] = ModeFor(p, x)]
             /\ Goto(p, IF ModeFor(p, x) = "fresh" THEN "guard" ELSE "temp")
             /\ UNCHANGED plan
  BY DEF Look
<1>6. CASE GoOn(p, "failed")
  <2>1. "failed" \in Resting /\ "failed" \in PC /\ "failed" \notin AtPath
    BY Labels DEF Resting
  <2>2. Places(p) /\ pc'[p] = "failed" /\ mode'[p] = "fresh"
    BY <1>1, <1>6, <2>1, GoOnPlaces
  <2>3. Kept(p)'
    BY <1>1, <1>2, <2>1, <2>2, OffPath
  <2> QED
    BY <1>3, <1>4, <2>2, <2>3 DEF Good
<1>7. ASSUME NEW m \in Mode, m = ModeFor(p, x)
      PROVE  Good(p)
  <2>1. /\ on' = [on EXCEPT ![p] = x]
        /\ seen' = [seen EXCEPT ![p] = [node |-> node[x], entries |-> entries[x]]]
        /\ mode' = [mode EXCEPT ![p] = m] /\ UNCHANGED plan
        /\ pc' = [pc EXCEPT ![p] = IF m = "fresh" THEN "guard" ELSE "temp"]
    BY <1>5, <1>7 DEF Goto, View, Mode
  <2>2. x \in Project
    BY DEF Jobs
  <2>3. {"guard", "temp"} \subseteq AtPath /\ AtPath \subseteq PC
    BY Labels DEF AtPath, Cloning
  <2>4. Places(p)
    <3>1. pc' \in [Proc -> PC]
      BY <2>1, <2>3 DEF TypeOK
    <3>2. seen' \in [Proc -> [node : NodeKind, entries : SUBSET Entry]]
      BY <2>1, <2>2 DEF TypeOK
    <3>3. on' \in [Proc -> Project \cup {NoProject}] /\ mode' \in [Proc -> Mode]
      BY <2>1, <2>2 DEF TypeOK
    <3> QED
      BY <1>1, <2>1, <2>2, <3>1, <3>2, <3>3 DEF Places, TypeOK
  <2>5. /\ seen[p]' = Expected(m)
        /\ m = "inside" => x \in atRoot
        /\ m = "swap" => x \notin atRoot
    <3>1. CASE m = "fresh"
      BY <1>7, <2>1, <2>2, <3>1 DEF ModeFor, Expected, Nothing, TypeOK
    <3>2. CASE m = "fill"
      BY <1>7, <2>1, <2>2, <3>2 DEF ModeFor, Expected, Empty, TypeOK
    <3>3. CASE m \in {"swap", "inside"}
      <4>1. Owned(x, {}) /\ (m = "inside" <=> x \in atRoot)
        BY <1>7, <3>3 DEF ModeFor
      <4> QED
        BY <2>1, <2>2, <3>3, <4>1 DEF Expected, Owned, TypeOK
    <3> QED
      BY <3>1, <3>2, <3>3 DEF Mode
  <2>6. /\ on'[p] = x /\ mode'[p] = m /\ op'[p] = "hydrate" /\ p \notin made'
        /\ pc'[p] = IF m = "fresh" THEN "guard" ELSE "temp"
        /\ seen'[p] = [node |-> node[x], entries |-> entries[x]]
    BY <1>1, <1>2, <2>1, <2>3 DEF TypeOK
  <2>7. Course(p)' /\ Tidy(p)'
    BY <2>5, <2>6 DEF Course, Tidy, AtPath, Cloning, Placing, Writing
  <2>8. Undisturbed(p)'
    <3>1. CASE m = "fresh"
      <4>1. node[x] = "absent" /\ entries[x] = {}
        BY <2>5, <2>6, <3>1 DEF Expected, Nothing
      <4> QED
        BY <1>1, <2>6, <3>1, <4>1 DEF Undisturbed, At, Placing
    <3>2. CASE m # "fresh"
      <4>1. node[x] = "dir"
        BY <2>5, <2>6, <3>2 DEF Expected
      <4> QED
        BY <1>1, <2>6, <3>2, <4>1 DEF Undisturbed, At, Placing
    <3> QED
      BY <3>1, <3>2
  <2> QED
    BY <1>3, <1>4, <2>4, <2>7, <2>8 DEF Good, Kept
<1>8. ModeFor(p, x) \in Mode \cup {"stop"}
  BY DEF ModeFor, Mode
<1> QED
  BY <1>5, <1>6, <1>7, <1>8

\* An operation gives up without cleaning up: it has nothing to clean up.
LEMMA PassFailedGood ==
    ASSUME HInv, NEW p \in Proc, UNCHANGED atRoot, pc[p] \in AtPath, Pass(p, "failed"),
           p \notin made,
           noise[p] = {} => [node |-> node[on[p]], entries |-> entries[on[p]]] = seen[p]
    PROVE  Good(p)
<1>1. "failed" \in Resting /\ "failed" \in PC /\ "failed" \notin AtPath
  BY Labels DEF Resting
<1>2. /\ Places(p) /\ Leave(p) /\ pc'[p] = "failed" /\ UNCHANGED scratch /\ mode'[p] = "fresh"
      /\ UNCHANGED noise
  BY <1>1, PassPlaces DEF HInv
<1>3. Kept(p)'
  BY <1>1, <1>2, OffPath DEF scratch
<1>4. Faithful(p)
  BY <1>1, <1>2 DEF Leave, tree, Faithful, Keeps, Restores, Whole
<1> QED
  BY <1>2, <1>3, <1>4 DEF Good

\* A fault ends the operation, at once or after cleaning up.
LEMMA FaultGood ==
    ASSUME HInv, NEW p \in Proc, UNCHANGED atRoot, pc[p] \in AtPath,
           NEW label \in {"failed", "undo"}, Fault(p, label),
           label = "undo" => pc[p] \in Cloning \cup Placing /\ mode[p] # "fresh"
    PROVE  Good(p)
<1>1. "failed" \in Resting /\ "undo" \in Cloning /\ "undo" \notin Resting /\ label \in PC
  BY Labels DEF Resting, Cloning, AtPath
<1>2. /\ Places(p) /\ Leave(p) /\ pc'[p] = label /\ UNCHANGED scratch
      /\ label \in Resting => mode'[p] = "fresh"
      /\ label \notin Resting => UNCHANGED <<plan, on, mode, seen>>
      /\ "fault" \in noise'[p]
  BY <1>1, PassPlaces DEF HInv, TypeOK
<1>3. Kept(p)'
  <2>1. CASE label = "failed"
    <3>1. "failed" \notin AtPath
      BY Labels, <1>1
    <3> QED
      BY <1>1, <1>2, <2>1, <3>1, OffPath
  <2>2. CASE label = "undo"
    <3>1. Places(p) /\ op'[p] = op[p] /\ on'[p] = on[p] /\ mode'[p] = mode[p] /\ seen'[p] = seen[p]
      BY <1>1, <1>2, <2>2 DEF Fault
    <3>2. Course(p)'
      BY <1>2, <2>2, <3>1 DEF HInv, Course, AtPath, Cloning, Placing, Writing
    <3>3. Tidy(p)'
      BY <1>1, <1>2, <2>2, <3>1, Labels DEF Tidy, Cloning
    <3> QED
      BY <1>2, <3>2, <3>3 DEF Kept
  <2> QED
    BY <2>1, <2>2
<1>4. Faithful(p)
  BY <1>2 DEF Leave, tree, Faithful, Keeps, Restores, Whole
<1> QED
  BY <1>2, <1>3, <1>4 DEF Good

\* A clone that fails is cleaned up; if nobody disturbed it, git itself failed.
LEMMA PassUndoGood ==
    ASSUME HInv, NEW p \in Proc, UNCHANGED atRoot, pc[p] \in (Cloning \cup Placing) \ {"temp", "undo"},
           Pass(p, "undo"), noise[p] = {} => pc[p] = "cloning"
    PROVE  Good(p)
<1>1. "undo" \in Cloning /\ "undo" \notin Resting /\ "undo" \in PC /\ pc[p] \in AtPath
  BY Labels DEF Resting, Cloning, AtPath
<1>2. /\ Places(p) /\ Leave(p) /\ pc'[p] = "undo" /\ UNCHANGED scratch
      /\ UNCHANGED <<plan, on, mode, seen, noise>>
  BY <1>1, PassPlaces DEF HInv, TypeOK
<1>3. op' = op /\ UNCHANGED tree
  BY DEF Pass
<1>4. Course(p)'
  BY <1>2, <1>3 DEF HInv, Course, AtPath, Cloning, Placing, Writing
<1>5. Tidy(p)'
  BY <1>2 DEF HInv, Tidy, scratch, Cloning, Placing, Resting
<1>6. ASSUME noise'[p] = {}  PROVE Undisturbed(p)'
  <2>1. pc[p] = "cloning" /\ Undisturbed(p) /\ seen[p] = Expected(mode[p])
    BY <1>2, <1>6 DEF HInv, Course, Cloning
  <2> QED
    BY <1>2, <1>3, <2>1 DEF Undisturbed, At, Own, tree, Placing
<1>7. Faithful(p)
  BY <1>2 DEF Leave, tree, Faithful, Keeps, Restores, Whole
<1> QED
  BY <1>2, <1>4, <1>5, <1>6, <1>7 DEF Good, Kept

-----------------------------------------------------------------------------
(***************************************************************************)
(* The clone.                                                              *)
(***************************************************************************)

LEMMA MakeTempGood ==
    ASSUME HInv, NEW p \in Proc, UNCHANGED atRoot, MakeTemp(p)
    PROVE  Good(p)
<1>1. /\ pc[p] = "temp" /\ pc[p] \in AtPath /\ p \notin made /\ mode[p] # "fresh"
      /\ seen[p] = Expected(mode[p]) /\ op[p] = "hydrate"
  BY DEF MakeTemp, AtPath, Cloning, HInv, Tidy, Course, Placing
<1>2. PICK x \in Project : x = on[p]
  BY <1>1 DEF HInv, TypeOK
<1>3. noise[p] = {} => node[x] = "dir" /\ entries[x] = seen[p].entries
  BY <1>1, <1>2 DEF HInv, Undisturbed, At
<1>4. CASE Pass(p, "failed")
  <2>1. noise[p] = {} => [node |-> node[x], entries |-> entries[x]] = seen[p]
    BY <1>1, <1>3 DEF Expected
  <2> QED
    BY <1>1, <1>2, <1>4, <2>1, PassFailedGood
<1>5. CASE /\ Put(p, x, node[x], WithTemp(p, x), made \cup {p}, [temp EXCEPT ![p] = {}])
           /\ Goto(p, "guard")
           /\ UNCHANGED <<task, locals, edits, faults, seen>>
           /\ x \in atRoot => node[x] = "dir"
  <2>1. "guard" \in PC /\ "guard" \in AtPath
    BY Labels DEF AtPath, Cloning
  <2>2. Places(p) /\ pc'[p] = "guard" /\ op' = op /\ on' = on /\ mode' = mode /\ seen' = seen
    BY <1>1, <1>2, <1>5, <2>1, GotoPlaces DEF HInv, task, locals
  <2>3. WithTemp(p, x) = entries[x] \cup Own(p)
    BY <1>2 DEF WithTemp, Own
  <2>4. /\ node' = [node EXCEPT ![x] = node[x]]
        /\ entries' = [entries EXCEPT ![x] = entries[x] \cup Own(p)]
        /\ made' = made \cup {p} /\ temp' = [temp EXCEPT ![p] = {}]
        /\ noise' = Disturbing(x, p)
    BY <1>5, <2>3 DEF Put, HInv, TypeOK
  <2>5. Touch(p, x)
    <3>1. Own(p) \in SUBSET Entry /\ (Own(p) # {} => x \in atRoot)
      BY <1>2, EntriesTyped DEF Own
    <3> QED
      BY <1>5, <2>4, <3>1 DEF Touch, HInv, TypeOK
  <2>6. noise'[p] = noise[p]
    BY <2>4 DEF Disturbing
  <2>7. Course(p)' /\ Tidy(p)'
    BY <1>1, <2>2 DEF Course, Tidy, HInv, AtPath, Cloning, Placing, Writing
  <2>8. noise'[p] = {} => Undisturbed(p)'
    BY <1>1, <1>2, <1>3, <2>2, <2>4, <2>6 DEF Undisturbed, At, Own, Placing, HInv, TypeOK
  <2>9. Faithful(p)
    BY <1>2, <2>2, <2>4 DEF Faithful, Keeps, Restores, Whole, HInv, TypeOK
  <2> QED
    BY <2>2, <2>5, <2>7, <2>8, <2>9 DEF Good, Kept
<1> QED
  BY <1>2, <1>4, <1>5 DEF MakeTemp

LEMMA GuardGood ==
    ASSUME HInv, NEW p \in Proc, UNCHANGED atRoot, Guard(p) \/ GuardFails(p)
    PROVE  Good(p)
<1>1. pc[p] = "guard" /\ pc[p] \in Cloning /\ pc[p] \in AtPath
  BY DEF Guard, GuardFails, AtPath, Cloning
<1>2. CASE Guard(p)
  <2>1. Pass(p, "git") /\ "git" \in PC /\ "git" \notin Resting
    BY <1>2, Labels DEF Guard, AtPath, Cloning, Resting
  <2>2. /\ Places(p) /\ Leave(p) /\ pc'[p] = "git"
        /\ UNCHANGED <<made, temp, on, mode, seen, noise, op, node, entries>>
    BY <1>1, <2>1, PassPlaces DEF HInv, TypeOK, Pass, scratch, tree
  <2>3. Course(p)' /\ Tidy(p)'
    BY <1>1, <2>2 DEF Course, Tidy, HInv, AtPath, Cloning, Placing, Writing
  <2>4. noise'[p] = {} => Undisturbed(p)'
    BY <1>1, <2>2 DEF Undisturbed, At, Own, Placing, HInv
  <2>5. Faithful(p)
    BY <2>2 DEF Faithful, Keeps, Restores, Whole
  <2> QED
    BY <2>2, <2>3, <2>4, <2>5 DEF Good, Kept
<1>3. CASE GuardFails(p)
  <2>1. (Fault(p, "undo") /\ mode[p] = "fill") \/ Fault(p, "failed")
    BY <1>3 DEF GuardFails
  <2> QED
    BY <1>1, <2>1, FaultGood
<1> QED
  BY <1>2, <1>3

\* git clone begins: it creates .git, straight in the path or in the temporary directory.
LEMMA GitStartsGood ==
    ASSUME HInv, NEW p \in Proc, UNCHANGED atRoot, GitStarts(p)
    PROVE  Good(p)
<1>1. /\ pc[p] = "git" /\ pc[p] \in Cloning /\ pc[p] \in AtPath
      /\ seen[p] = Expected(mode[p]) /\ op[p] = "hydrate"
  BY DEF GitStarts, AtPath, Cloning, HInv, Course
<1>2. PICK x \in Project : x = on[p]
  BY <1>1 DEF HInv, TypeOK
<1>3. noise[p] = {} =>
        IF mode[p] = "fresh" THEN node[x] = "absent" /\ entries[x] = {}
        ELSE p \in made /\ node[x] = "dir" /\ entries[x] = seen[p].entries \cup Own(p)
  BY <1>1, <1>2 DEF HInv, Undisturbed, At
<1>4. WithTemp(p, x) = entries[x] \cup Own(p)
  BY <1>2 DEF WithTemp, Own
<1>5. CASE Pass(p, "undo")
  <2>1. noise[p] # {}
    BY <1>2, <1>3, <1>5 DEF GitStarts, Put, Empty, Pass, Goto, GoOn, HInv, TypeOK
  <2> QED
    BY <1>1, <1>5, <2>1, PassUndoGood
<1>6. CASE Goto(p, "cloning") /\ UNCHANGED <<task, locals, edits, faults, seen>>
  <2>1. "cloning" \in PC /\ "cloning" \in AtPath
    BY Labels DEF AtPath, Cloning
  <2>2. Places(p) /\ pc'[p] = "cloning" /\ op' = op /\ on' = on /\ mode' = mode /\ seen' = seen
    BY <1>1, <1>2, <1>6, <2>1, GotoPlaces DEF HInv, task, locals
  <2>3. Course(p)'
    BY <1>1, <2>2 DEF Course, HInv, AtPath, Cloning, Placing, Writing
  <2>4. CASE /\ mode[p] = "fresh"
             /\ node[x] = "absent" \/ Empty(x, {})
             /\ Put(p, x, "dir", {Git(p)}, made, temp)
    <3>1. entries[x] = {}
      BY <2>4 DEF Empty, HInv, TypeOK
    <3>2. /\ node' = [node EXCEPT ![x] = "dir"] /\ entries' = [entries EXCEPT ![x] = {Git(p)}]
          /\ made' = made /\ temp' = temp /\ noise' = Disturbing(x, p)
      BY <2>4, <3>1 DEF Put, HInv, TypeOK
    <3>3. Touch(p, x)
      BY <3>2, EntriesTyped, Distinct DEF Touch, HInv, TypeOK, NodeKind
    <3>4. Tidy(p)'
      BY <1>1, <2>2, <2>4, <3>2 DEF Tidy, HInv, Cloning, Placing
    <3>5. Undisturbed(p)'
      <4>1. At(p, "dir", {Git(p)})'
        BY <1>2, <2>2, <3>2 DEF At, HInv, TypeOK
      <4> QED
        BY <2>2, <2>4, <4>1 DEF Undisturbed, Placing
    <3>6. Faithful(p)
      BY <1>2, <2>2, <3>1 DEF Faithful, Keeps, Restores, Whole
    <3> QED
      BY <2>2, <2>3, <3>3, <3>4, <3>5, <3>6 DEF Good, Kept
  <2>5. CASE /\ mode[p] # "fresh" /\ ~(x \in atRoot /\ node[x] = "file")
             /\ Put(p, x, IF x \in atRoot THEN "dir" ELSE node[x], WithTemp(p, x),
                    made \cup {p}, [temp EXCEPT ![p] = {"git"}])
    <3>1. /\ node' = [node EXCEPT ![x] = IF x \in atRoot THEN "dir" ELSE node[x]]
          /\ entries' = [entries EXCEPT ![x] = entries[x] \cup Own(p)]
          /\ made' = made \cup {p} /\ temp' = [temp EXCEPT ![p] = {"git"}]
          /\ noise' = Disturbing(x, p)
      BY <1>4, <2>5 DEF Put, HInv, TypeOK
    <3>2. Touch(p, x)
      <4>1. Own(p) \in SUBSET Entry /\ (Own(p) # {} => x \in atRoot)
        BY <1>2, EntriesTyped DEF Own
      <4> QED
        BY <3>1, <4>1 DEF Touch, HInv, TypeOK, NodeKind
    <3>3. noise'[p] = noise[p]
      BY <3>1 DEF Disturbing
    <3>4. Tidy(p)'
      BY <2>2, <2>5 DEF Tidy, Cloning, Placing
    <3>5. noise'[p] = {} => Undisturbed(p)'
      BY <1>2, <1>3, <2>2, <2>5, <3>1, <3>3 DEF Undisturbed, At, Own, Placing, HInv, TypeOK
    <3>6. Faithful(p)
      BY <1>2, <2>2, <3>1 DEF Faithful, Keeps, Restores, Whole, HInv, TypeOK
    <3> QED
      BY <2>2, <2>3, <3>2, <3>4, <3>5, <3>6 DEF Good, Kept
  <2> QED
    BY <1>2, <1>6, <2>1, <2>4, <2>5 DEF GitStarts, Pass, GoOn, Goto, HInv, TypeOK
<1> QED
  BY <1>5, <1>6 DEF GitStarts

\* One step of RemoveAll.
LEMMA RemoveTouches ==
    ASSUME HInv, NEW p \in Proc, NEW x \in Project, RemoveStep(p, x)
    PROVE  /\ Touch(p, x) /\ noise'[p] = noise[p]
           /\ made' \subseteq made
           /\ Temp(p) \notin entries[x] => (p \in made => p \in made') /\ temp'[p] = temp[p]
           /\ node'[x] \in {node[x], "absent"} /\ entries'[x] \subseteq entries[x]
<1>1. CASE /\ entries[x] = {}
           /\ node[x] # "absent"
           /\ Put(p, x, "absent", {}, made, temp)
  BY <1>1 DEF Put, Touch, Disturbing, HInv, TypeOK, NodeKind
<1>2. ASSUME NEW e \in entries[x], Put(p, x, node[x], entries[x] \ {e}, made, temp)
      PROVE  /\ Touch(p, x) /\ noise'[p] = noise[p]
             /\ made' \subseteq made
             /\ Temp(p) \notin entries[x] => (p \in made => p \in made') /\ temp'[p] = temp[p]
             /\ node'[x] \in {node[x], "absent"} /\ entries'[x] \subseteq entries[x]
  <2>1. /\ node' = [node EXCEPT ![x] = node[x]]
        /\ entries' = [entries EXCEPT ![x] = entries[x] \ {e}]
        /\ noise' = Disturbing(x, p)
    BY <1>2 DEF Put
  <2>2. /\ made' \subseteq made /\ temp' \in [Proc -> SUBSET {"git", "src"}]
        /\ \A q \in Proc : Temp(q) \notin entries[x] => temp'[q] = temp[q] /\ (q \in made => q \in made')
    BY <1>2 DEF Put, HInv, TypeOK
  <2>3. entries[x] \ {e} \in SUBSET Entry /\ (node[x] # "dir" => entries[x] \ {e} = {})
    BY DEF HInv, TypeOK
  <2> QED
    BY <2>1, <2>2, <2>3 DEF Touch, Disturbing, HInv, TypeOK
<1> QED
  BY <1>1, <1>2 DEF RemoveStep

\* git clone has checked the files out; a clone straight into the path is in its place.
LEMMA GitSucceedsGood ==
    ASSUME HInv, NEW p \in Proc, UNCHANGED atRoot, GitSucceeds(p)
    PROVE  Good(p)
<1>1. /\ pc[p] = "cloning" /\ pc[p] \in Cloning /\ pc[p] \in AtPath
      /\ seen[p] = Expected(mode[p]) /\ op[p] = "hydrate"
  BY DEF GitSucceeds, AtPath, Cloning, HInv, Course
<1>2. PICK x \in Project : x = on[p]
  BY <1>1 DEF HInv, TypeOK
<1>3. CASE /\ mode[p] = "fresh" /\ Git(p) \in entries[x]
           /\ Put(p, x, node[x], entries[x] \cup {Src(p)}, made, temp)
           /\ Finish(p) /\ UNCHANGED <<op, edits, faults>>
  <2>1. Places(p) /\ pc'[p] = "next" /\ mode'[p] = "fresh"
    BY <1>3, FinishPlaces DEF HInv
  <2>2. /\ node' = [node EXCEPT ![x] = node[x]]
        /\ entries' = [entries EXCEPT ![x] = entries[x] \cup {Src(p)}]
        /\ made' = made /\ temp' = temp /\ noise' = Disturbing(x, p)
    BY <1>3 DEF Put, HInv, TypeOK
  <2>3. Touch(p, x)
    <3>1. node[x] = "dir"
      BY <1>3 DEF HInv, TypeOK
    <3> QED
      BY <2>2, <3>1, EntriesTyped, Distinct DEF Touch, HInv, TypeOK
  <2>4. p \notin made'
    BY <1>3, <2>2, Labels, <1>1 DEF HInv, Tidy, Resting
  <2>5. Kept(p)'
    BY <2>1, <2>4, OffPath, Labels
  <2>6. noise'[p] = noise[p]
    BY <2>2 DEF Disturbing
  <2>7. noise[p] = {} => node[x] = "dir" /\ entries[x] = {Git(p)}
    BY <1>1, <1>2, <1>3 DEF HInv, Undisturbed, At
  <2>8. Faithful(p)
    BY <1>1, <1>2, <2>1, <2>2, <2>6, <2>7 DEF Faithful, Keeps, Restores, Whole, HInv, TypeOK
  <2> QED
    BY <2>1, <2>3, <2>5, <2>8 DEF Good
<1>4. CASE /\ mode[p] # "fresh" /\ p \in made
           /\ temp' = [temp EXCEPT ![p] = {"git", "src"}]
           /\ Goto(p, "recheck")
           /\ UNCHANGED <<tree, task, locals, made, edits, faults, seen, noise>>
  <2>1. "recheck" \in PC
    BY Labels DEF AtPath, Placing
  <2>2. Places(p) /\ pc'[p] = "recheck" /\ op' = op /\ on' = on /\ mode' = mode /\ seen' = seen
    BY <1>1, <1>2, <1>4, <2>1, GotoPlaces DEF HInv, task, locals
  <2>3. Leave(p)
    BY <1>4 DEF Leave, HInv, TypeOK
  <2>4. Course(p)' /\ Tidy(p)'
    BY <1>1, <1>4, <2>2 DEF Course, Tidy, HInv, AtPath, Cloning, Placing, Writing
  <2>5. ASSUME noise'[p] = {}  PROVE Undisturbed(p)'
    <3>1. p \in made /\ At(p, "dir", seen[p].entries \cup Own(p))
      BY <1>1, <1>4, <2>5 DEF HInv, Undisturbed
    <3>2. temp'[p] = {"git", "src"}
      BY <1>4 DEF HInv, TypeOK
    <3>3. p \in made' /\ At(p, "dir", seen[p].entries \cup Own(p))'
      BY <1>4, <2>2, <3>1 DEF At, Own, tree
    <3> QED
      BY <1>4, <2>2, <3>2, <3>3 DEF Undisturbed, Placing
  <2>6. Faithful(p)
    BY <1>4, <2>2 DEF Faithful, Keeps, Restores, Whole, tree
  <2> QED
    BY <2>2, <2>3, <2>4, <2>5, <2>6 DEF Good, Kept
<1> QED
  BY <1>2, <1>3, <1>4 DEF GitSucceeds

\* The clean-up after a clone that failed.
LEMMA UndoGood ==
    ASSUME HInv, NEW p \in Proc, UNCHANGED atRoot, Undo(p)
    PROVE  Good(p)
<1>1. /\ pc[p] = "undo" /\ pc[p] \in Cloning /\ pc[p] \in AtPath /\ op[p] = "hydrate"
      /\ mode[p] = "fresh" => seen[p] = Nothing /\ p \notin made
  BY DEF Undo, AtPath, Cloning, HInv, Course, Tidy, Expected
<1>2. PICK x \in Project : x = on[p]
  BY <1>1 DEF HInv, TypeOK
<1>3. "failed" \in Resting /\ "failed" \in PC /\ "failed" \notin AtPath
  BY Labels DEF Resting
<1>4. ASSUME GoOn(p, "failed"), UNCHANGED op
      PROVE  Places(p) /\ pc'[p] = "failed" /\ mode'[p] = "fresh"
  BY <1>3, <1>4, GoOnPlaces DEF HInv
<1>5. CASE /\ mode[p] # "fresh"
           /\ Put(p, x, node[x], entries[x] \ {Temp(p)}, made \ {p}, [temp EXCEPT ![p] = {}])
           /\ GoOn(p, "failed") /\ UNCHANGED <<op, edits, faults>>
  <2>1. /\ node' = [node EXCEPT ![x] = node[x]]
        /\ entries' = [entries EXCEPT ![x] = entries[x] \ {Temp(p)}]
        /\ made' \subseteq made \ {p} /\ temp' \in [Proc -> SUBSET {"git", "src"}]
        /\ noise' = Disturbing(x, p)
        /\ \A q \in Proc \ {p} : temp'[q] = temp[q] /\ (q \in made => q \in made')
    BY <1>5 DEF Put, HInv, TypeOK, Temp
  <2>2. Touch(p, x)
    BY <2>1 DEF Touch, HInv, TypeOK
  <2>3. Kept(p)'
    BY <1>3, <1>4, <1>5, <2>1, OffPath
  <2>4. ASSUME noise'[p] = {}
        PROVE  [node |-> node'[x], entries |-> entries'[x]] = seen[p]
    <3>1. /\ noise[p] = {} /\ mode[p] \in Mode
          /\ node'[x] = node[x] /\ entries'[x] = entries[x] \ {Temp(p)}
      BY <2>1, <2>4 DEF Disturbing, HInv, TypeOK
    <3>2. node[x] = "dir" /\ entries[x] = seen[p].entries \cup Own(p) /\ seen[p] = Expected(mode[p])
      BY <1>1, <1>2, <1>5, <3>1 DEF HInv, Undisturbed, At
    <3>3. Temp(p) \notin seen[p].entries /\ seen[p].node = "dir"
      BY <1>5, <3>2, Distinct DEF Expected
    <3>4. entries'[x] = seen[p].entries
      BY <3>1, <3>2, <3>3 DEF Own
    <3>5. seen[p] = [node |-> "dir", entries |-> seen[p].entries]
      BY <1>5, <3>2 DEF Expected
    <3> QED
      BY <3>1, <3>2, <3>4, <3>5
  <2>5. Faithful(p)
    BY <1>2, <1>3, <1>4, <1>5, <2>1, <2>4, Distinct DEF Faithful, Keeps, Restores, Whole, HInv, TypeOK
  <2> QED
    BY <1>4, <1>5, <2>2, <2>3, <2>5 DEF Good
<1>6. CASE /\ mode[p] = "fresh" /\ node[x] = "absent" /\ Put(p, x, "absent", {}, made, temp)
           /\ GoOn(p, "failed") /\ UNCHANGED <<op, edits, faults>>
  <2>1. entries[x] = {}
    BY <1>6 DEF HInv, TypeOK
  <2>2. /\ node' = [node EXCEPT ![x] = "absent"] /\ entries' = [entries EXCEPT ![x] = {}]
        /\ made' = made /\ temp' = temp /\ noise' = Disturbing(x, p)
    BY <1>6, <2>1 DEF Put, HInv, TypeOK
  <2>3. Touch(p, x)
    BY <2>2 DEF Touch, HInv, TypeOK, NodeKind
  <2>4. Kept(p)'
    BY <1>1, <1>3, <1>4, <1>6, <2>2, OffPath
  <2>5. Faithful(p)
    BY <1>1, <1>2, <1>4, <1>6, <2>1, <2>2 DEF Faithful, Keeps, Restores, Whole, Nothing, HInv, TypeOK
  <2> QED
    BY <1>4, <1>6, <2>3, <2>4, <2>5 DEF Good
<1>7. CASE /\ mode[p] = "fresh" /\ RemoveStep(p, x)
           /\ UNCHANGED <<pc, plan, locals, seen, op, edits, faults>>
  <2>1. Places(p)
    BY <1>7 DEF Places, HInv, TypeOK, locals
  <2>2. Touch(p, x) /\ (p \in made' => p \in made)
    BY <1>7, RemoveTouches, <1>2 DEF HInv
  <2>3. pc'[p] = "undo" /\ op'[p] = op[p] /\ on'[p] = on[p] /\ mode'[p] = mode[p] /\ seen'[p] = seen[p]
    BY <1>1, <1>7 DEF locals
  <2>4. Course(p)'
    BY <1>1, <2>3 DEF Course, HInv, AtPath, Cloning, Placing, Writing
  <2>5. Tidy(p)'
    BY <1>1, <1>7, <2>2 DEF Tidy
  <2>6. Undisturbed(p)'
    BY <1>1, <1>7, <2>3 DEF Undisturbed, Expected, Placing
  <2>7. Faithful(p)
    BY <1>1, <1>7, <2>3 DEF Faithful, Keeps, Restores, Whole, Nothing
  <2> QED
    BY <2>1, <2>2, <2>4, <2>5, <2>6, <2>7 DEF Good, Kept
<1> QED
  BY <1>2, <1>5, <1>6, <1>7 DEF Undo

\* Faults, and the failure of git itself.
LEMMA MishapGood ==
    ASSUME HInv, NEW p \in Proc, UNCHANGED atRoot,
           GitFails(p) \/ UndoFails(p) \/ PlaceFails(p) \/ WriteFails(p)
    PROVE  Good(p)
<1>1. CASE GitFails(p)
  BY <1>1, PassUndoGood DEF GitFails, Cloning
<1>2. CASE UndoFails(p) \/ WriteFails(p)
  BY <1>2, FaultGood DEF UndoFails, WriteFails, AtPath, Cloning
<1>3. CASE PlaceFails(p)
  <2>1. pc[p] \in Placing \cup {"temp"} /\ mode[p] # "fresh" /\ pc[p] \in AtPath
    BY <1>3 DEF PlaceFails, HInv, Course, AtPath, Cloning
  <2>2. Fault(p, "failed") \/ (Fault(p, "undo") /\ pc[p] \in Placing)
    BY <1>3 DEF PlaceFails, Placing
  <2> QED
    BY <2>1, <2>2, FaultGood
<1> QED
  BY <1>1, <1>2, <1>3

-----------------------------------------------------------------------------
(***************************************************************************)
(* From the temporary clone to the path.                                   *)
(***************************************************************************)

\* The second examination: a path that is as it was is going to be filled.
LEMMA RecheckGood ==
    ASSUME HInv, NEW p \in Proc, UNCHANGED atRoot, Recheck(p)
    PROVE  Good(p)
<1>1. /\ pc[p] = "recheck" /\ pc[p] \in AtPath /\ op[p] = "hydrate"
      /\ mode[p] \in {"fill", "swap", "inside"} /\ seen[p] = Expected(mode[p])
      /\ mode[p] = "inside" => on[p] \in atRoot
      /\ mode[p] = "swap" => on[p] \notin atRoot
  BY DEF Recheck, AtPath, Cloning, Placing, HInv, Course, TypeOK, Mode
<1>2. PICK x \in Project : x = on[p]
  BY <1>1 DEF HInv, TypeOK
<1> DEFINE Unchanged == IF mode[p] = "fill" THEN Empty(x, {Temp(p)}) ELSE Owned(x, {Temp(p)})
           Onward == FirstOf(mode[p])
<1>3. /\ seen' = [seen EXCEPT ![p] = [node |-> node[x], entries |-> entries[x] \ {Temp(p)}]]
      /\ pc' = [pc EXCEPT ![p] = IF Unchanged THEN Onward ELSE "undo"]
      /\ UNCHANGED <<tree, op, plan, on, mode, made, temp, noise>>
  BY <1>1, <1>2 DEF Recheck, View, Goto, task, locals, scratch
<1>4. /\ Onward = IF mode[p] = "fill" THEN "move" ELSE IF mode[p] = "swap" THEN "clear" ELSE "unmeta"
      /\ Onward \in Placing /\ {"undo"} \cup Placing \subseteq PC
  BY Labels DEF FirstOf, Placing, AtPath, Cloning
<1>5. /\ pc'[p] = (IF Unchanged THEN Onward ELSE "undo") /\ op'[p] = "hydrate" /\ on'[p] = x
      /\ mode'[p] = mode[p] /\ seen'[p] = [node |-> node[x], entries |-> entries[x] \ {Temp(p)}]
  BY <1>1, <1>2, <1>3, <1>4 DEF HInv, TypeOK
<1>6. Places(p)
  <2>1. pc' \in [Proc -> PC]
    BY <1>3, <1>4 DEF HInv, TypeOK
  <2>2. seen' \in [Proc -> [node : NodeKind, entries : SUBSET Entry]]
    BY <1>3 DEF HInv, TypeOK
  <2> QED
    BY <1>2, <1>3, <2>1, <2>2 DEF Places, HInv, TypeOK
<1>7. Leave(p)
  BY <1>3 DEF Leave, HInv, TypeOK
<1>8. Tidy(p)'
  BY <1>1, <1>3, <1>4, <1>5 DEF Tidy, Cloning, Placing
<1>9. Faithful(p)
  BY <1>3, <1>4, <1>5 DEF tree, Faithful, Keeps, Restores, Whole, Placing
<1>10. ASSUME noise'[p] = {}
       PROVE  /\ Unchanged /\ p \in made /\ temp[p] = {"git", "src"} /\ node[x] = "dir"
              /\ entries[x] = (IF mode[p] = "fill" THEN {} ELSE Sentinels) \cup Own(p)
  <2>1. /\ p \in made /\ temp[p] = {"git", "src"} /\ node[x] = "dir"
        /\ entries[x] = seen[p].entries \cup Own(p)
    BY <1>1, <1>2, <1>3, <1>10 DEF HInv, Undisturbed, At, Placing
  <2>2. seen[p].entries = IF mode[p] = "fill" THEN {} ELSE Sentinels
    BY <1>1 DEF Expected
  <2> QED
    BY <2>1, <2>2, Distinct DEF Own, Empty, Owned
<1>11. CASE ~Unchanged
  <2>1. Course(p)'
    BY <1>1, <1>3, <1>5, <1>11 DEF Course, AtPath, Cloning, Placing, Writing
  <2> QED
    BY <1>6, <1>7, <1>8, <1>9, <1>10, <1>11, <2>1 DEF Good, Kept
<1>12. CASE Unchanged
  <2>1. seen'[p] = Expected(mode[p])
    BY <1>1, <1>5, <1>12 DEF Expected, Empty, Owned
  <2>2. Course(p)'
    BY <1>1, <1>2, <1>4, <1>5, <1>12, <2>1 DEF Course, AtPath, Cloning, Placing, Writing
  <2>3. ASSUME noise'[p] = {}  PROVE Undisturbed(p)'
    <3>1. /\ p \in made' /\ temp'[p] = {"git", "src"} /\ node'[on'[p]] = "dir"
          /\ entries'[on'[p]] = (IF mode[p] = "fill" THEN {} ELSE Sentinels) \cup Own(p)
          /\ Own(p)' = Own(p)
      BY <1>2, <1>3, <1>5, <1>10, <2>3 DEF tree, Own
    <3>2. CASE mode[p] = "fill"
      <4>1. Moved(p)' = {}
        BY <3>1 DEF Moved
      <4> QED
        BY <1>4, <1>5, <1>12, <3>1, <3>2, <4>1 DEF Undisturbed, At, Placing
    <3>3. CASE mode[p] = "swap"
      BY <1>4, <1>5, <1>12, <3>1, <3>3 DEF Undisturbed, At, Placing
    <3>4. CASE mode[p] = "inside"
      <4>1. Own(p) = {Temp(p)}
        BY <1>1, <1>2, <3>4 DEF Own
      <4> QED
        BY <1>4, <1>5, <1>12, <3>1, <3>4, <4>1 DEF Undisturbed, At, Placing
    <3> QED
      BY <1>1, <3>2, <3>3, <3>4
  <2> QED
    BY <1>6, <1>7, <1>8, <1>9, <2>2, <2>3 DEF Good, Kept
<1> QED
  BY <1>11, <1>12

\* A placeholder is removed.
LEMMA ClearGood ==
    ASSUME HInv, NEW p \in Proc, UNCHANGED atRoot, Clear(p)
    PROVE  Good(p)
<1>1. /\ pc[p] = "clear" /\ pc[p] \in AtPath /\ op[p] = "hydrate" /\ mode[p] = "swap"
      /\ seen[p] = Expected(mode[p]) /\ on[p] \notin atRoot
  BY DEF Clear, AtPath, Cloning, Placing, HInv, Course, TypeOK, Mode
<1>2. PICK x \in Project : x = on[p]
  BY <1>1 DEF HInv, TypeOK
<1>3. seen[p].entries = Sentinels
  BY <1>1 DEF Expected
<1>4. Temp(p) \notin entries[x]
  BY <1>1, <1>2 DEF HInv, Rooted
<1>5. noise[p] = {} => p \in made /\ temp[p] = {"git", "src"}
  BY <1>1 DEF HInv, Undisturbed, Placing
<1>6. op' = op /\ on' = on /\ mode' = mode /\ seen' = seen /\ plan' = plan
  BY DEF Clear, task, locals
<1>7. CASE /\ node[x] = "absent" /\ Put(p, x, "absent", {}, made, temp) /\ Goto(p, "rename")
  <2>1. "rename" \in PC
    BY Labels DEF AtPath, Placing
  <2>2. Places(p) /\ pc'[p] = "rename"
    BY <1>2, <1>6, <1>7, <2>1, GotoPlaces DEF HInv
  <2>3. entries[x] = {}
    BY <1>7 DEF HInv, TypeOK
  <2>4. /\ node' = [node EXCEPT ![x] = "absent"] /\ entries' = [entries EXCEPT ![x] = {}]
        /\ made' = made /\ temp' = temp /\ noise' = Disturbing(x, p)
    BY <1>7, <2>3 DEF Put, HInv, TypeOK
  <2>5. Touch(p, x) /\ noise'[p] = noise[p]
    BY <2>4 DEF Touch, Disturbing, HInv, TypeOK, NodeKind
  <2>6. Course(p)' /\ Tidy(p)'
    BY <1>1, <1>6, <2>2, <2>4 DEF Course, Tidy, AtPath, Cloning, Placing, Writing
  <2>7. noise'[p] = {} => Undisturbed(p)'
    <3>1. At(p, "absent", {})'
      BY <1>2, <1>6, <2>4 DEF At, HInv, TypeOK
    <3> QED
      BY <1>5, <2>2, <2>4, <2>5, <3>1 DEF Undisturbed, At, Placing
  <2>8. Faithful(p)
    BY <1>2, <2>2, <2>3 DEF Faithful, Keeps, Restores, Whole
  <2> QED
    BY <2>2, <2>5, <2>6, <2>7, <2>8 DEF Good, Kept
<1>8. CASE RemoveStep(p, x) /\ UNCHANGED pc
  <2>1. Places(p)
    BY <1>6, <1>8 DEF Places, HInv, TypeOK
  <2>2. /\ Touch(p, x) /\ noise'[p] = noise[p] /\ (p \in made' => p \in made)
        /\ (p \in made => p \in made') /\ temp'[p] = temp[p]
    BY <1>4, <1>8, RemoveTouches
  <2>3. Course(p)' /\ Tidy(p)'
    BY <1>1, <1>6, <1>8, <2>2 DEF Course, Tidy, AtPath, Cloning, Placing, Writing
  <2>4. noise'[p] = {} => Undisturbed(p)'
    BY <1>1, <1>5, <1>8, <2>2 DEF Undisturbed, Placing
  <2>5. Faithful(p)
    BY <1>1, <1>3, <1>8 DEF Faithful, Keeps, Restores, Whole
  <2> QED
    BY <2>1, <2>2, <2>3, <2>4, <2>5 DEF Good, Kept
<1> QED
  BY <1>2, <1>7, <1>8 DEF Clear

\* The temporary clone takes the place of the placeholder.
LEMMA RenameGood ==
    ASSUME HInv, NEW p \in Proc, UNCHANGED atRoot, Rename(p)
    PROVE  Good(p)
<1>1. /\ pc[p] = "rename" /\ pc[p] \in Placing /\ pc[p] \in AtPath /\ op[p] = "hydrate"
      /\ on[p] \notin atRoot
  BY DEF Rename, AtPath, Cloning, Placing, HInv, Course
<1>2. PICK x \in Project : x = on[p]
  BY <1>1 DEF HInv, TypeOK
<1>3. noise[p] = {} => node[x] = "absent"
  BY <1>1, <1>2 DEF HInv, Undisturbed, At
<1>4. CASE Pass(p, "undo") /\ ~(node[x] = "absent" \/ Empty(x, {}))
  BY <1>1, <1>3, <1>4, PassUndoGood
<1>5. CASE /\ node[x] = "absent" \/ Empty(x, {})
           /\ Put(p, x, "dir", {Git(p), Src(p)}, made \ {p}, [temp EXCEPT ![p] = {}])
           /\ Finish(p) /\ UNCHANGED <<op, edits, faults>>
  <2>1. Places(p) /\ pc'[p] = "next" /\ mode'[p] = "fresh"
    BY <1>5, FinishPlaces DEF HInv
  <2>2. entries[x] = {}
    BY <1>5 DEF Empty, HInv, TypeOK
  <2>3. /\ node' = [node EXCEPT ![x] = "dir"]
        /\ entries' = [entries EXCEPT ![x] = {Git(p), Src(p)}]
        /\ made' = made \ {p} /\ temp' = [temp EXCEPT ![p] = {}] /\ noise' = Disturbing(x, p)
    BY <1>5, <2>2 DEF Put, HInv, TypeOK
  <2>4. Touch(p, x)
    BY <2>3, EntriesTyped, Distinct DEF Touch, HInv, TypeOK, NodeKind
  <2>5. Kept(p)'
    BY <2>1, <2>3, OffPath, Labels
  <2>6. Faithful(p)
    BY <1>1, <1>2, <2>1, <2>2, <2>3 DEF Faithful, Keeps, Restores, Whole, HInv, TypeOK
  <2> QED
    BY <2>1, <2>4, <2>5, <2>6 DEF Good
<1> QED
  BY <1>2, <1>4, <1>5 DEF Rename

\* A sentinel at the workspace root is removed.
LEMMA UnlinkGood ==
    ASSUME HInv, NEW p \in Proc, UNCHANGED atRoot, NEW label \in {"unmeta", "unbarrier", "unnote"},
           NEW next \in {"unbarrier", "unnote", "move"}, NEW e \in Sentinels,
           Unlink(p, label, e, next), noise[p] = {} => e \in entries[on[p]],
           ASSUME noise[p] = {}, pc'[p] = next, on'[p] = on[p], seen'[p] = seen[p],
                  p \in made', temp'[p] = {"git", "src"}, node'[on[p]] = "dir",
                  entries'[on[p]] = entries[on[p]] \ {e}, Own(p)' = Own(p)
           PROVE  Undisturbed(p)'
    PROVE  Good(p)
<1>1. /\ pc[p] = label /\ pc[p] \in Placing /\ pc[p] \in AtPath /\ op[p] = "hydrate"
      /\ mode[p] = "inside" /\ on[p] \in atRoot /\ seen[p] = Expected(mode[p])
  BY DEF Unlink, AtPath, Cloning, Placing, HInv, Course
<1>2. PICK x \in Project : x = on[p]
  BY <1>1 DEF HInv, TypeOK
<1>3. CASE Pass(p, "undo") /\ e \notin entries[x]
  <2>1. noise[p] # {}
    BY <1>2, <1>3
  <2> QED
    BY <1>1, <1>3, <2>1, PassUndoGood DEF Cloning
<1>4. CASE /\ e \in entries[x] /\ Put(p, x, node[x], entries[x] \ {e}, made, temp)
           /\ Goto(p, next) /\ UNCHANGED <<task, locals, edits, faults, seen>>
  <2>1. next \in Placing /\ next \in PC
    BY Labels DEF AtPath, Placing
  <2>2. Places(p) /\ pc'[p] = next /\ op' = op /\ on' = on /\ mode' = mode /\ seen' = seen
    BY <1>1, <1>2, <1>4, <2>1, GotoPlaces DEF HInv, task, locals
  <2>3. \A q \in Proc : Temp(q) # e
    BY Distinct
  <2>4. /\ node' = [node EXCEPT ![x] = node[x]]
        /\ entries' = [entries EXCEPT ![x] = entries[x] \ {e}]
        /\ made' = made /\ temp' = temp /\ noise' = Disturbing(x, p)
    BY <1>4, <2>3 DEF Put, HInv, TypeOK
  <2>5. Touch(p, x) /\ noise'[p] = noise[p]
    BY <2>4 DEF Touch, Disturbing, HInv, TypeOK
  <2>6. Course(p)' /\ Tidy(p)'
    BY <1>1, <2>1, <2>2, <2>4 DEF Course, Tidy, AtPath, Cloning, Placing, Writing
  <2>7. ASSUME noise'[p] = {}  PROVE Undisturbed(p)'
    <3>1. p \in made /\ temp[p] = {"git", "src"} /\ Undisturbed(p)
      BY <1>1, <2>5, <2>7 DEF HInv, Undisturbed
    <3>2. node[x] = "dir"
      BY <1>4 DEF HInv, TypeOK
    <3>3. /\ noise[p] = {} /\ on'[p] = on[p] /\ seen'[p] = seen[p] /\ Own(p)' = Own(p)
          /\ p \in made' /\ temp'[p] = {"git", "src"} /\ node'[on[p]] = "dir"
          /\ entries'[on[p]] = entries[on[p]] \ {e}
      BY <1>2, <2>2, <2>4, <2>5, <2>7, <3>1, <3>2 DEF Own, HInv, TypeOK
    <3> QED
      BY <2>2, <3>3
  <2>8. Faithful(p)
    <3>1. seen[p].entries = Sentinels
      BY <1>1 DEF Expected
    <3> QED
      BY <1>2, <2>1, <2>2, <2>4, <3>1 DEF Faithful, Keeps, Restores, Whole, HInv, TypeOK
  <2> QED
    BY <2>2, <2>5, <2>6, <2>7, <2>8 DEF Good, Kept
<1> QED
  BY <1>2, <1>3, <1>4 DEF Unlink

LEMMA StripGood ==
    ASSUME HInv, NEW p \in Proc, UNCHANGED atRoot, Strip(p)
    PROVE  Good(p)
<1>1. {Plain("meta"), Plain("barrier"), Plain("note")} = Sentinels
  BY DEF Sentinels
<1>2. /\ Plain("meta") # Plain("barrier") /\ Plain("meta") # Plain("note")
      /\ Plain("barrier") # Plain("note") /\ Temp(p) \notin Sentinels
  BY Distinct DEF Plain
<1>3. CASE Unlink(p, "unmeta", Plain("meta"), "unbarrier")
  <2>1. noise[p] = {} => At(p, "dir", Sentinels \cup {Temp(p)})
    BY <1>3 DEF Unlink, HInv, Undisturbed
  <2>2. ASSUME noise[p] = {}, pc'[p] = "unbarrier", on'[p] = on[p], p \in made',
               temp'[p] = {"git", "src"}, node'[on[p]] = "dir",
               entries'[on[p]] = entries[on[p]] \ {Plain("meta")}
        PROVE  Undisturbed(p)'
    <3>1. entries'[on[p]] = {Plain("barrier"), Plain("note"), Temp(p)}
      BY <1>1, <1>2, <2>1, <2>2 DEF At
    <3> QED
      BY <2>2, <3>1 DEF Undisturbed, At, Placing
  <2>3. noise[p] = {} => Plain("meta") \in entries[on[p]]
    BY <1>1, <2>1 DEF At
  <2> QED
    BY <1>1, <1>3, <2>2, <2>3, UnlinkGood
<1>4. CASE Unlink(p, "unbarrier", Plain("barrier"), "unnote")
  <2>1. noise[p] = {} => At(p, "dir", {Plain("barrier"), Plain("note"), Temp(p)})
    BY <1>4 DEF Unlink, HInv, Undisturbed
  <2>2. ASSUME noise[p] = {}, pc'[p] = "unnote", on'[p] = on[p], p \in made',
               temp'[p] = {"git", "src"}, node'[on[p]] = "dir",
               entries'[on[p]] = entries[on[p]] \ {Plain("barrier")}
        PROVE  Undisturbed(p)'
    <3>1. entries'[on[p]] = {Plain("note"), Temp(p)}
      BY <1>1, <1>2, <2>1, <2>2 DEF At
    <3> QED
      BY <2>2, <3>1 DEF Undisturbed, At, Placing
  <2>3. noise[p] = {} => Plain("barrier") \in entries[on[p]]
    BY <2>1 DEF At
  <2> QED
    BY <1>1, <1>4, <2>2, <2>3, UnlinkGood
<1>5. CASE Unlink(p, "unnote", Plain("note"), "move")
  <2>1. noise[p] = {} => At(p, "dir", {Plain("note"), Temp(p)})
    BY <1>5 DEF Unlink, HInv, Undisturbed
  <2>2. pc[p] = "unnote" /\ on[p] \in atRoot
    BY <1>5 DEF Unlink, HInv, Course, Placing
  <2>3. ASSUME noise[p] = {}, pc'[p] = "move", on'[p] = on[p], p \in made',
               temp'[p] = {"git", "src"}, node'[on[p]] = "dir",
               entries'[on[p]] = entries[on[p]] \ {Plain("note")}, Own(p)' = Own(p)
        PROVE  Undisturbed(p)'
    <3>1. entries'[on[p]] = {Temp(p)} /\ Own(p)' = {Temp(p)}
      BY <1>1, <1>2, <2>1, <2>2, <2>3 DEF At, Own
    <3>2. Moved(p)' = {}
      BY <2>3 DEF Moved
    <3>3. At(p, "dir", Own(p) \cup Moved(p))'
      BY <2>3, <3>1, <3>2 DEF At
    <3> QED
      BY <2>3, <3>3 DEF Undisturbed, At, Placing
  <2>4. noise[p] = {} => Plain("note") \in entries[on[p]]
    BY <2>1 DEF At
  <2> QED
    BY <1>1, <1>5, <2>3, <2>4, UnlinkGood
<1> QED
  BY <1>3, <1>4, <1>5 DEF Strip

\* The content of the temporary clone is moved, entry by entry, in any order.
LEMMA MoveEntryGood ==
    ASSUME HInv, NEW p \in Proc, UNCHANGED atRoot, MoveEntry(p)
    PROVE  Good(p)
<1>1. /\ pc[p] = "move" /\ pc[p] \in Placing /\ pc[p] \in AtPath /\ op[p] = "hydrate"
      /\ mode[p] \in {"fill", "inside"} /\ seen[p] = Expected(mode[p]) /\ p \in made
      /\ seen[p].entries \subseteq Sentinels
  BY DEF MoveEntry, AtPath, Cloning, Placing, HInv, Course, Expected
<1>2. PICK x \in Project : x = on[p]
  BY <1>1 DEF HInv, TypeOK
<1>3. node[x] = "dir" /\ UNCHANGED <<pc, op, plan, on, mode, seen>>
  BY <1>2 DEF MoveEntry, task, locals
<1>4. Places(p)
  BY <1>3 DEF Places, HInv, TypeOK
<1>5. noise[p] = {} => entries[x] = Own(p) \cup Moved(p)
  BY <1>1, <1>2 DEF HInv, Undisturbed, At
<1>6. Own(p)' = Own(p) /\ Own(p) \subseteq {Temp(p)}
  BY <1>3 DEF Own
<1>7. ASSUME node' = [node EXCEPT ![x] = "dir"], made' = made, noise' = Disturbing(x, p),
             NEW es \in SUBSET Entry, entries' = [entries EXCEPT ![x] = es],
             NEW t \in SUBSET {"git", "src"}, temp' = [temp EXCEPT ![p] = t],
             \A q \in Proc : Temp(q) \in es => Temp(q) \in entries[x],
             \A e \in entries[x] \ es : e \notin seen[p].entries,
             noise[p] = {} => es = Own(p)' \cup Moved(p)'
      PROVE  Good(p)
  <2>1. Touch(p, x)
    BY <1>7 DEF Touch, HInv, TypeOK, NodeKind
  <2>2. Course(p)' /\ Tidy(p)'
    BY <1>1, <1>3, <1>7 DEF Course, Tidy, HInv
  <2>3. noise'[p] = {} => Undisturbed(p)'
    <3>1. node'[on'[p]] = "dir" /\ entries'[on'[p]] = es /\ noise'[p] = noise[p]
      BY <1>2, <1>3, <1>7 DEF Disturbing, HInv, TypeOK
    <3> QED
      BY <1>1, <1>3, <1>7, <3>1 DEF Undisturbed, At, Placing
  <2>4. Faithful(p)
    BY <1>1, <1>2, <1>3, <1>7 DEF Faithful, Keeps, Restores, Whole, HInv, TypeOK
  <2> QED
    BY <1>4, <2>1, <2>2, <2>3, <2>4 DEF Good, Kept
<1>8. CASE /\ "git" \in temp[p]
           /\ Put(p, x, "dir", entries[x] \cup {Git(p)}, made, [temp EXCEPT ![p] = @ \ {"git"}])
  <2>1. /\ node' = [node EXCEPT ![x] = "dir"]
        /\ entries' = [entries EXCEPT ![x] = entries[x] \cup {Git(p)}]
        /\ made' = made /\ noise' = Disturbing(x, p)
        /\ temp' = [temp EXCEPT ![p] = temp[p] \ {"git"}]
    BY <1>8 DEF Put, HInv, TypeOK
  <2>2. PICK es \in SUBSET Entry : es = entries[x] \cup {Git(p)}
    BY EntriesTyped DEF HInv, TypeOK
  <2>3. PICK t \in SUBSET {"git", "src"} : t = temp[p] \ {"git"}
    BY DEF HInv, TypeOK
  <2>4. temp'[p] = t
    BY <2>1, <2>3 DEF HInv, TypeOK
  <2>5. Moved(p)' = Moved(p) \cup {Git(p)}
    BY <1>8, <2>3, <2>4 DEF Moved
  <2>6. noise[p] = {} => es = Own(p)' \cup Moved(p)'
    BY <1>5, <1>6, <2>2, <2>5
  <2>7. \A q \in Proc : Temp(q) \in es => Temp(q) \in entries[x]
    BY <2>2, Distinct
  <2> QED
    BY <1>7, <2>1, <2>2, <2>3, <2>6, <2>7
<1>9. CASE /\ "src" \in temp[p]
           /\ Put(p, x, "dir",
                  (entries[x] \ ({e \in entries[x] : e.kind = "src"} \cup {Plain("readme")}))
                      \cup {Src(p)},
                  made, [temp EXCEPT ![p] = @ \ {"src"}])
  <2> DEFINE replaced == {e \in entries[x] : e.kind = "src"} \cup {Plain("readme")}
  <2>1. \A q \in Proc : Temp(q) \notin replaced
    BY Distinct DEF Temp, Plain
  <2>2. /\ node' = [node EXCEPT ![x] = "dir"]
        /\ entries' = [entries EXCEPT ![x] = (entries[x] \ replaced) \cup {Src(p)}]
        /\ made' = made /\ noise' = Disturbing(x, p)
        /\ temp' = [temp EXCEPT ![p] = temp[p] \ {"src"}]
    BY <1>9, <2>1 DEF Put, HInv, TypeOK
  <2>3. PICK es \in SUBSET Entry : es = (entries[x] \ replaced) \cup {Src(p)}
    BY EntriesTyped DEF HInv, TypeOK
  <2>4. PICK t \in SUBSET {"git", "src"} : t = temp[p] \ {"src"}
    BY DEF HInv, TypeOK
  <2>5. temp'[p] = t
    BY <2>2, <2>4 DEF HInv, TypeOK
  <2>6. noise[p] = {} => es = Own(p)' \cup Moved(p)'
    <3>1. Moved(p)' = Moved(p) \cup {Src(p)} /\ Moved(p) \subseteq {Git(p)}
      BY <1>9, <2>4, <2>5 DEF Moved
    <3>2. \A e \in {Temp(p), Git(p)} : e \notin replaced
      BY Distinct
    <3> QED
      BY <1>5, <1>6, <2>3, <3>1, <3>2
  <2>7. \A q \in Proc : Temp(q) \in es => Temp(q) \in entries[x]
    BY <2>3, Distinct
  <2>8. \A e \in entries[x] \ es : e \notin seen[p].entries
    BY <1>1, <2>3, Distinct
  <2>9. entries' = [entries EXCEPT ![x] = es] /\ temp' = [temp EXCEPT ![p] = t]
    BY <2>2, <2>3, <2>4
  <2> HIDE DEF replaced
  <2> QED
    BY <1>7, <2>2, <2>6, <2>7, <2>8, <2>9
<1> QED
  BY <1>2, <1>8, <1>9 DEF MoveEntry

LEMMA MoveEndGood ==
    ASSUME HInv, NEW p \in Proc, UNCHANGED atRoot, MoveRefused(p) \/ MoveDone(p)
    PROVE  Good(p)
<1>1. /\ pc[p] = "move" /\ pc[p] \in Placing /\ pc[p] \in AtPath /\ op[p] = "hydrate"
  BY DEF MoveRefused, MoveDone, AtPath, Placing, HInv, Course
<1>2. PICK x \in Project : x = on[p]
  BY <1>1 DEF HInv, TypeOK
<1>3. noise[p] = {} => p \in made /\ node[x] = "dir" /\ entries[x] = Own(p) \cup Moved(p)
  BY <1>1, <1>2 DEF HInv, Undisturbed, At
<1>4. CASE MoveRefused(p)
  <2>1. ASSUME noise[p] = {}  PROVE FALSE
    <3>1. \A e \in entries[x] : e = Temp(p) \/ (e = Git(p) /\ "git" \notin temp[p])
                                 \/ (e = Src(p) /\ "src" \notin temp[p])
      BY <1>3, <2>1 DEF Own, Moved
    <3>2. "git" \in temp[p] => ~HasGitDir(x) /\ Plain("barrier") \notin entries[x]
      BY <3>1, Distinct DEF HasGitDir
    <3>3. "src" \in temp[p] => ~\E e \in entries[x] : e.kind = "src"
      BY <3>1, Distinct
    <3> QED
      BY <1>2, <1>3, <1>4, <2>1, <3>2, <3>3 DEF MoveRefused
  <2> QED
    BY <1>1, <1>4, <2>1, PassUndoGood DEF MoveRefused, Cloning
<1>5. CASE MoveDone(p)
  <2>1. /\ p \in made /\ temp[p] = {} /\ Finish(p) /\ UNCHANGED op
        /\ Put(p, x, node[x], entries[x] \ {Temp(p)}, made \ {p}, temp)
    BY <1>2, <1>5 DEF MoveDone
  <2>2. Places(p) /\ pc'[p] = "next" /\ mode'[p] = "fresh"
    BY <2>1, FinishPlaces DEF HInv
  <2>3. /\ node' = [node EXCEPT ![x] = node[x]]
        /\ entries' = [entries EXCEPT ![x] = entries[x] \ {Temp(p)}]
        /\ made' \subseteq made \ {p} /\ temp' \in [Proc -> SUBSET {"git", "src"}]
        /\ noise' = Disturbing(x, p)
        /\ \A q \in Proc \ {p} : temp'[q] = temp[q] /\ (q \in made => q \in made')
    BY <2>1 DEF Put, HInv, TypeOK, Temp
  <2>4. Touch(p, x)
    BY <2>3 DEF Touch, HInv, TypeOK
  <2>5. Kept(p)'
    BY <2>2, <2>3, OffPath, Labels
  <2>6. ASSUME noise'[p] = {}
        PROVE  node'[x] = "dir" /\ entries'[x] = {Git(p), Src(p)}
    <3>1. noise[p] = {} /\ node'[x] = node[x] /\ entries'[x] = entries[x] \ {Temp(p)}
      BY <2>3, <2>6 DEF Disturbing, HInv, TypeOK
    <3>2. Moved(p) = {Git(p), Src(p)}
      BY <2>1 DEF Moved
    <3> QED
      BY <1>3, <3>1, <3>2, Distinct DEF Own
  <2>7. Faithful(p)
    BY <1>1, <1>2, <2>2, <2>3, <2>6, Distinct DEF Faithful, Keeps, Restores, Whole, HInv, TypeOK
  <2> QED
    BY <2>2, <2>4, <2>5, <2>7 DEF Good
<1> QED
  BY <1>4, <1>5

-----------------------------------------------------------------------------
(***************************************************************************)
(* Placeholders.                                                           *)
(***************************************************************************)

LEMMA WriteLookGood ==
    ASSUME HInv, NEW p \in Proc, WriteLook(p), UNCHANGED atRoot
    PROVE  Good(p)
<1> USE DEF HInv, scratch, locals, tree, task
<1>1. /\ pc[p] = "next" /\ op[p] = "placeholders" /\ noise' = [noise EXCEPT ![p] = {}]
      /\ UNCHANGED <<tree, op, scratch>>
  BY DEF WriteLook
<1>2. pc[p] \notin AtPath /\ p \notin made /\ mode[p] = "fresh"
  BY <1>1, Labels DEF Tidy, Course, Cloning, Placing
<1>3. Leave(p)
  BY <1>1 DEF Leave, TypeOK
<1>4. Faithful(p)
  BY <1>2 DEF Faithful, Keeps, Restores, Whole
<1>5. PICK x \in Jobs(p) :
          \/ /\ Owned(x, {})
             /\ plan' = [plan EXCEPT ![p][x] = "out"]
             /\ UNCHANGED <<pc, locals, seen>>
          \/ /\ node[x] = "absent" \/ Empty(x, {})
             /\ on' = [on EXCEPT ![p] = x]
             /\ seen' = [seen EXCEPT ![p] = View(x, {})]
             /\ Goto(p, "mkdir")
             /\ UNCHANGED <<plan, mode>>
          \/ GoOn(p, "failed")
  BY DEF WriteLook
<1>6. x \in Project
  BY DEF Jobs
<1>7. CASE plan' = [plan EXCEPT ![p][x] = "out"] /\ UNCHANGED <<pc, locals, seen>>
  <2>1. plan' \in [Proc -> [Project -> Class]]
    BY <1>7 DEF TypeOK, Class
  <2>2. Places(p)
    BY <1>1, <1>7, <2>1 DEF Places, TypeOK
  <2>3. Kept(p)'
    BY <1>1, <1>2, <1>7, OffPath
  <2> QED
    BY <1>3, <1>4, <2>2, <2>3 DEF Good
<1>8. CASE /\ node[x] = "absent" \/ Empty(x, {})
           /\ on' = [on EXCEPT ![p] = x]
           /\ seen' = [seen EXCEPT ![p] = View(x, {})]
           /\ Goto(p, "mkdir")
           /\ UNCHANGED <<plan, mode>>
  <2>1. "mkdir" \in Writing /\ "mkdir" \in AtPath /\ "mkdir" \in PC
    BY Labels DEF AtPath, Writing
  <2>2. /\ pc' = [pc EXCEPT ![p] = "mkdir"]
        /\ seen' = [seen EXCEPT ![p] = [node |-> node[x], entries |-> entries[x]]]
    BY <1>8 DEF Goto, View
  <2>3. Places(p)
    <3>1. seen' \in [Proc -> [node : NodeKind, entries : SUBSET Entry]]
      BY <1>6, <2>2 DEF TypeOK
    <3> QED
      BY <1>1, <1>6, <1>8, <2>1, <2>2, <3>1 DEF Places, TypeOK
  <2>4. entries[x] = {} /\ node[x] # "file"
    BY <1>6, <1>8 DEF Empty, TypeOK
  <2>5. /\ on'[p] = x /\ mode'[p] = "fresh" /\ op'[p] = "placeholders" /\ p \notin made'
        /\ pc'[p] = "mkdir" /\ seen'[p] = [node |-> node[x], entries |-> {}]
    BY <1>1, <1>2, <1>8, <2>2, <2>4 DEF TypeOK
  <2>6. Course(p)' /\ Tidy(p)'
    BY <2>4, <2>5 DEF Course, Tidy, AtPath, Cloning, Placing, Writing
  <2>7. Undisturbed(p)'
    BY <1>1, <2>4, <2>5 DEF Undisturbed, At, Placing
  <2> QED
    BY <1>3, <1>4, <2>3, <2>6, <2>7 DEF Good, Kept
<1>9. CASE GoOn(p, "failed")
  <2>1. "failed" \in Resting /\ "failed" \in PC /\ "failed" \notin AtPath
    BY Labels DEF Resting
  <2>2. Places(p) /\ pc'[p] = "failed" /\ mode'[p] = "fresh"
    BY <1>1, <1>9, <2>1, GoOnPlaces
  <2>3. Kept(p)'
    BY <1>1, <1>2, <2>1, <2>2, OffPath
  <2> QED
    BY <1>3, <1>4, <2>2, <2>3 DEF Good
<1> QED
  BY <1>5, <1>7, <1>8, <1>9

\* Every step that writes adds one entry, or makes the directory, and goes on.
LEMMA WritingGood ==
    ASSUME HInv, NEW p \in Proc, UNCHANGED atRoot, pc[p] \in Writing,
           NEW x \in Project, x = on[p], NEW es \in SUBSET Entry,
           \A e \in es \ entries[x] : e \in Sentinels, entries[x] \subseteq es,
           Put(p, x, "dir", es, made, temp), UNCHANGED op,
           NEW next \in {"meta", "note", "barrier", "next"},
           IF next = "next" THEN Finish(p) ELSE Goto(p, next) /\ UNCHANGED <<plan, locals, seen>>,
           noise[p] = {} => es = CASE next = "meta"    -> {}
                                   [] next = "note"    -> {Plain("meta")}
                                   [] next = "barrier" -> {Plain("meta"), Plain("note")}
                                   [] next = "next"    -> Sentinels
    PROVE  Good(p)
<1>1. /\ pc[p] \in AtPath /\ op[p] = "placeholders" /\ mode[p] = "fresh" /\ p \notin made
      /\ seen[p].node # "file" /\ seen[p].entries = {}
  BY Labels DEF AtPath, HInv, Course, Tidy, Writing, Cloning, Placing
<1>2. \A q \in Proc : Temp(q) \in es => Temp(q) \in entries[x]
  BY Distinct
<1>3. /\ node' = [node EXCEPT ![x] = "dir"] /\ entries' = [entries EXCEPT ![x] = es]
      /\ made' = made /\ temp' = temp /\ noise' = Disturbing(x, p)
  BY <1>2 DEF Put, HInv, TypeOK
<1>4. Touch(p, x) /\ noise'[p] = noise[p]
  BY <1>2, <1>3 DEF Touch, Disturbing, HInv, TypeOK, NodeKind
<1>5. Keeps(p) /\ node'[x] = "dir" /\ entries'[x] = es
  BY <1>3 DEF Keeps, HInv, TypeOK
<1>6. CASE next = "next"
  <2>1. Places(p) /\ pc'[p] = "next" /\ mode'[p] = "fresh"
    BY <1>6, FinishPlaces DEF HInv
  <2>2. Kept(p)'
    BY <1>1, <1>3, <2>1, OffPath, Labels
  <2>3. noise'[p] = {} => es = Sentinels
    BY <1>4, <1>6
  <2>4. Faithful(p)
    BY <1>1, <1>5, <2>1, <2>3 DEF Faithful, Restores, Whole
  <2> QED
    BY <1>4, <2>1, <2>2, <2>4 DEF Good
<1>7. CASE next # "next"
  <2>1. next \in Writing /\ next \in AtPath /\ next \in PC /\ next \notin {"failed", "next"}
    BY <1>7, Labels DEF AtPath, Writing
  <2>2. Places(p) /\ pc'[p] = next /\ op' = op /\ on' = on /\ mode' = mode /\ seen' = seen
    BY <1>7, <2>1, GotoPlaces DEF HInv, locals
  <2>3. Course(p)' /\ Tidy(p)'
    BY <1>1, <1>3, <2>1, <2>2, Labels DEF Course, Tidy, AtPath, Cloning, Placing, Writing
  <2>4. At(p, "dir", es)'
    BY <1>5, <2>2 DEF At
  <2>5. noise'[p] = {} => Undisturbed(p)'
    BY <1>4, <1>7, <2>2, <2>4 DEF Undisturbed, At, Placing
  <2>6. Faithful(p)
    BY <1>5, <2>1, <2>2 DEF Faithful, Restores, Whole
  <2> QED
    BY <1>4, <2>2, <2>3, <2>5, <2>6 DEF Good, Kept
<1> QED
  BY <1>6, <1>7

LEMMA MkdirGood ==
    ASSUME HInv, NEW p \in Proc, UNCHANGED atRoot, Mkdir(p)
    PROVE  Good(p)
<1>1. /\ pc[p] = "mkdir" /\ pc[p] \in Writing /\ pc[p] \in AtPath /\ p \notin made
      /\ seen[p].node # "file"
  BY Labels DEF Mkdir, AtPath, HInv, Course, Tidy, Writing, Cloning, Placing
<1>2. PICK x \in Project : x = on[p]
  BY <1>1 DEF HInv, TypeOK
<1>3. noise[p] = {} => node[x] = seen[p].node /\ entries[x] = {}
  BY <1>1, <1>2 DEF HInv, Undisturbed, At
<1>4. CASE node[x] = "file" /\ Pass(p, "failed")
  BY <1>1, <1>3, <1>4, PassFailedGood
<1>5. CASE /\ Put(p, x, "dir", entries[x], made, temp)
           /\ Goto(p, "meta") /\ UNCHANGED <<task, locals, edits, faults, seen>>
  <2>1. PICK es \in SUBSET Entry : es = entries[x]
    BY DEF HInv, TypeOK
  <2>2. noise[p] = {} => es = {}
    BY <1>3, <2>1
  <2> QED
    BY <1>1, <1>2, <1>5, <2>1, <2>2, WritingGood DEF task
<1> QED
  BY <1>2, <1>4, <1>5 DEF Mkdir

LEMMA WriteSentinelGood ==
    ASSUME HInv, NEW p \in Proc, UNCHANGED atRoot, WriteSentinel(p)
    PROVE  Good(p)
<1>1. /\ pc[p] \in {"meta", "note", "barrier"} /\ pc[p] \in Writing /\ pc[p] \in AtPath
      /\ p \notin made
  BY Labels DEF WriteSentinel, WriteFile, AtPath, HInv, Course, Tidy, Writing, Cloning, Placing
<1>2. PICK x \in Project : x = on[p]
  BY <1>1 DEF HInv, TypeOK
<1>3. ASSUME noise[p] = {}
      PROVE  /\ node[x] = "dir"
             /\ entries[x] = CASE pc[p] = "meta"    -> {}
                               [] pc[p] = "note"    -> {Plain("meta")}
                               [] pc[p] = "barrier" -> {Plain("meta"), Plain("note")}
  BY <1>1, <1>2, <1>3 DEF HInv, Undisturbed, At
<1>4. noise[p] = {} => ~HasGitDir(x)
  <2>1. noise[p] = {} => entries[x] \subseteq {Plain("meta"), Plain("note")}
    BY <1>1, <1>3
  <2> QED
    BY <2>1 DEF HasGitDir, Plain
<1>5. ASSUME NEW label \in {"meta", "note", "barrier"}, NEW e \in Sentinels,
             NEW next \in {"note", "barrier", "next"}, WriteFile(p, label, e, next),
             noise[p] = {} => entries[x] \cup {e} =
                 CASE next = "note"    -> {Plain("meta")}
                   [] next = "barrier" -> {Plain("meta"), Plain("note")}
                   [] next = "next"    -> Sentinels
      PROVE  Good(p)
  <2>1. CASE (node[x] # "dir" \/ HasGitDir(x)) /\ Pass(p, "failed")
    <3>1. noise[p] # {}
      BY <1>3, <1>4, <2>1
    <3> QED
      BY <1>1, <2>1, <3>1, PassFailedGood
  <2>2. CASE /\ Put(p, x, "dir", entries[x] \cup {e}, made, temp)
             /\ IF next = "next" THEN Finish(p) ELSE GoOn(p, next)
             /\ UNCHANGED op
    <3>1. next \notin Resting
      BY DEF Resting
    <3>2. IF next = "next" THEN Finish(p) ELSE Goto(p, next) /\ UNCHANGED <<plan, locals, seen>>
      BY <2>2, <3>1 DEF GoOn
    <3>3. PICK es \in SUBSET Entry : es = entries[x] \cup {e}
      BY EntriesTyped DEF HInv, TypeOK
    <3>4. noise[p] = {} => es = CASE next = "meta"    -> {}
                                  [] next = "note"    -> {Plain("meta")}
                                  [] next = "barrier" -> {Plain("meta"), Plain("note")}
                                  [] next = "next"    -> Sentinels
      BY <1>5, <3>3
    <3>5. (\A f \in es \ entries[x] : f \in Sentinels) /\ entries[x] \subseteq es
      BY <3>3
    <3> QED
      BY <1>1, <1>2, <2>2, <3>2, <3>3, <3>4, <3>5, WritingGood
  <2> QED
    BY <1>2, <1>5, <2>1, <2>2 DEF WriteFile
<1>6. CASE WriteFile(p, "meta", Plain("meta"), "note")
  <2>1. noise[p] = {} => entries[x] \cup {Plain("meta")} = {Plain("meta")}
    BY <1>3, <1>6 DEF WriteFile
  <2> QED
    BY <1>5, <1>6, <2>1 DEF Sentinels
<1>7. CASE WriteFile(p, "note", Plain("note"), "barrier")
  <2>1. noise[p] = {} => entries[x] \cup {Plain("note")} = {Plain("meta"), Plain("note")}
    BY <1>3, <1>7 DEF WriteFile
  <2> QED
    BY <1>5, <1>7, <2>1 DEF Sentinels
<1>8. CASE WriteFile(p, "barrier", Plain("barrier"), "next")
  <2>1. noise[p] = {} => entries[x] \cup {Plain("barrier")} = Sentinels
    BY <1>3, <1>8 DEF WriteFile, Sentinels
  <2> QED
    BY <1>5, <1>8, <2>1 DEF Sentinels
<1> QED
  BY <1>6, <1>7, <1>8 DEF WriteSentinel

-----------------------------------------------------------------------------
(***************************************************************************)
(* The steps together.                                                     *)
(***************************************************************************)

LEMMA ProceedGood ==
    ASSUME HInv, NEW p \in Proc, Proceed(p)
    PROVE  Good(p)
<1>1. UNCHANGED atRoot
  BY DEF Proceed
<1>2. CASE Classify(p) \/ Preflight(p) \/ Complete(p)
  BY <1>2, OffPathGood
<1>3. CASE Look(p) \/ MakeTemp(p)
  BY <1>1, <1>3, LookGood, MakeTempGood
<1>4. CASE Guard(p) \/ GitStarts(p)
  BY <1>1, <1>4, GuardGood, GitStartsGood
<1>5. CASE GitSucceeds(p) \/ GitFails(p)
  BY <1>1, <1>5, GitSucceedsGood, MishapGood
<1>6. CASE Undo(p) \/ Recheck(p)
  BY <1>1, <1>6, UndoGood, RecheckGood
<1>7. CASE Clear(p) \/ Rename(p) \/ Strip(p)
  BY <1>1, <1>7, ClearGood, RenameGood, StripGood
<1>8. CASE MoveEntry(p) \/ MoveRefused(p) \/ MoveDone(p)
  BY <1>1, <1>8, MoveEntryGood, MoveEndGood
<1>9. CASE Materialize(p)
  BY <1>1, <1>9, WriteLookGood, MkdirGood, WriteSentinelGood DEF Materialize
<1> QED
  BY <1>2, <1>3, <1>4, <1>5, <1>6, <1>7, <1>8, <1>9 DEF Proceed, Hydrate

LEMMA AstrayGood ==
    ASSUME HInv, NEW p \in Proc, Begin(p) \/ Mishap(p), UNCHANGED atRoot
    PROVE  Good(p)
<1>1. CASE GuardFails(p)
  BY <1>1, GuardGood
<1> QED
  BY <1>1, BeginGood, OffPathGood, MishapGood DEF Mishap

\* The user's change of a path is like that of a process that does not move.
LEMMA UserCalm ==
    ASSUME HInv, User, UNCHANGED atRoot
    PROVE  /\ \E x \in Project : Touch(NoProc, x)
           /\ \A q \in Proc : Calm(q)
           /\ UNCHANGED <<pc, op, plan, on, mode, faults, seen>> /\ edits' \in 0..MaxEdits
<1>1. PICK x \in Project, kind \in NodeKind, es \in SUBSET Entry :
          /\ UserPuts(x, kind, es)
          /\ \A q \in Proc : Temp(q) \in es => Temp(q) \in entries[x]
          /\ kind # "dir" => es = {}
  <2>1. PICK x \in Project : UserAdds(x) \/ UserRemoves(x) \/ UserPutsFile(x)
    BY DEF User
  <2>2. CASE UserAdds(x)
    <3>1. PICK k \in UserKind : UserPuts(x, "dir", entries[x] \cup {Plain(k)})
      BY <2>2 DEF UserAdds
    <3>2. /\ entries[x] \cup {Plain(k)} \in SUBSET Entry /\ "dir" \in NodeKind
          /\ \A q \in Proc : Temp(q) # Plain(k)
      BY EntriesTyped, UserKindAssumption DEF HInv, TypeOK, NodeKind, Temp, Plain
    <3> QED
      BY <3>1, <3>2
  <2>3. ASSUME NEW e \in entries[x], UserPuts(x, "dir", entries[x] \ {e})
        PROVE  entries[x] \ {e} \in SUBSET Entry /\ "dir" \in NodeKind
    BY DEF HInv, TypeOK, NodeKind
  <2>4. "absent" \in NodeKind /\ "file" \in NodeKind /\ {} \in SUBSET Entry
    BY DEF NodeKind
  <2> QED
    BY <2>1, <2>2, <2>3, <2>4 DEF UserRemoves, UserPutsFile
<1>2. /\ Put(NoProc, x, kind, es, made, temp) /\ edits < MaxEdits /\ edits' = edits + 1
      /\ UNCHANGED <<pc, op, plan, on, mode, faults, seen>>
  BY <1>1 DEF UserPuts, task, locals
<1>3. /\ node' = [node EXCEPT ![x] = kind] /\ entries' = [entries EXCEPT ![x] = es]
      /\ made' \subseteq made /\ temp' \in [Proc -> SUBSET {"git", "src"}]
      /\ noise' = Disturbing(x, NoProc)
      /\ \A q \in Proc : Temp(q) \notin entries[x] =>
            temp'[q] = temp[q] /\ (q \in made => q \in made')
  BY <1>2 DEF Put, HInv, TypeOK
<1>4. Touch(NoProc, x)
  BY <1>1, <1>3 DEF Touch, HInv, TypeOK
<1>5. \A q \in Proc : Calm(q)
  <2>1. TAKE q \in Proc
  <2>2. q \in Proc \ {NoProc}
    BY NamesAssumption
  <2> QED
    BY <1>2, <1>4, <2>2, TouchCalm DEF HInv
<1>6. edits' \in 0..MaxEdits
  BY <1>2, BoundsAssumption DEF HInv, TypeOK
<1> QED
  BY <1>2, <1>4, <1>5, <1>6

\* Whoever takes a good step, everybody else stays as they are.
LEMMA OthersCalm ==
    ASSUME HInv, NEW p \in Proc, Good(p), NEW q \in Proc \ {p}
    PROVE  Calm(q)
<1>1. CASE Leave(p)
  BY <1>1, LeaveCalm DEF Good
<1>2. ASSUME NEW x \in Project, Touch(p, x)
      PROVE  Calm(q)
  BY <1>2, TouchCalm DEF Good, Places, HInv
<1> QED
  BY <1>1, <1>2 DEF Good

LEMMA Counters ==
    ASSUME HInv, NEW p \in Proc, Proceed(p) \/ Begin(p) \/ Mishap(p)
    PROVE  edits' = edits /\ faults' \in 0..MaxFaults
<1>1. edits' = edits /\ (faults' = faults \/ (faults < MaxFaults /\ faults' = faults + 1))
  <2>1. CASE Classify(p) \/ Preflight(p) \/ Complete(p) \/ Begin(p) \/ Crash(p)
    BY <2>1 DEF Classify, Preflight, Complete, Begin, Crash, Pass
  <2>2. CASE Look(p) \/ MakeTemp(p) \/ Guard(p) \/ GitStarts(p) \/ GitSucceeds(p) \/ GitFails(p)
    BY <2>2 DEF Look, MakeTemp, Guard, GitStarts, GitSucceeds, GitFails, Pass
  <2>3. CASE Undo(p) \/ Recheck(p) \/ Clear(p) \/ Rename(p) \/ Strip(p)
    BY <2>3 DEF Undo, Recheck, Clear, Rename, Strip, Unlink, Pass
  <2>4. CASE MoveEntry(p) \/ MoveRefused(p) \/ MoveDone(p)
    BY <2>4 DEF MoveEntry, MoveRefused, MoveDone, Pass
  <2>5. CASE Materialize(p)
    BY <2>5 DEF Materialize, WriteLook, Mkdir, WriteSentinel, WriteFile, Pass
  <2>6. CASE GuardFails(p) \/ UndoFails(p) \/ PlaceFails(p) \/ WriteFails(p)
    BY <2>6 DEF GuardFails, UndoFails, PlaceFails, WriteFails, Fault
  <2> QED
    BY <2>1, <2>2, <2>3, <2>4, <2>5, <2>6 DEF Proceed, Hydrate, Mishap
<1> QED
  BY <1>1, BoundsAssumption DEF HInv, TypeOK

\* The conjuncts of the invariant, gathered.
LEMMA Gathered ==
    ASSUME HInv, UNCHANGED atRoot, NEW p, Leave(p) \/ \E x \in Project : Touch(p, x),
           pc' \in [Proc -> PC], op' \in [Proc -> Op], plan' \in [Proc -> [Project -> Class]],
           on' \in [Proc -> Project \cup {NoProject}], mode' \in [Proc -> Mode],
           seen' \in [Proc -> [node : NodeKind, entries : SUBSET Entry]],
           \A q \in Proc : pc'[q] \in AtPath => on'[q] \in Project,
           edits' \in 0..MaxEdits, faults' \in 0..MaxFaults,
           \A q \in Proc : Kept(q)'
    PROVE  HInv'
<1>1. /\ Rooted'
      /\ node' \in [Project -> NodeKind] /\ entries' \in [Project -> SUBSET Entry]
      /\ \A x \in Project : node'[x] # "dir" => entries'[x] = {}
      /\ made' \subseteq Proc /\ temp' \in [Proc -> SUBSET {"git", "src"}]
      /\ noise' \in [Proc -> SUBSET {"other", "fault"}]
  BY TreeKept DEF HInv
<1>2. TypeOK'
  BY <1>1 DEF HInv, TypeOK
<1> QED
  BY <1>1, <1>2 DEF HInv, Kept

LEMMA OwnStep ==
    ASSUME HInv, UNCHANGED atRoot, NEW p \in Proc, Proceed(p) \/ Begin(p) \/ Mishap(p)
    PROVE  HInv' /\ Faithful(p) /\ \A q \in Proc \ {p} : Calm(q)
<1>1. Good(p)
  BY ProceedGood, AstrayGood
<1>2. \A q \in Proc \ {p} : Calm(q)
  BY <1>1, OthersCalm
<1>3. \A q \in Proc : Kept(q)'
  <2>1. TAKE q \in Proc
  <2>2. Kept(q)
    BY DEF HInv, Kept
  <2>3. CASE q = p
    BY <1>1, <2>3 DEF Good
  <2>4. CASE q # p
    BY <1>2, <2>2, <2>4, CalmKeeps
  <2> QED
    BY <2>3, <2>4
<1>4. edits' \in 0..MaxEdits /\ faults' \in 0..MaxFaults
  BY Counters DEF HInv, TypeOK
<1>5. HInv'
  BY <1>1, <1>3, <1>4, Gathered DEF Good, Places
<1> QED
  BY <1>1, <1>2, <1>5 DEF Good

LEMMA UserStep ==
    ASSUME HInv, UNCHANGED atRoot, User
    PROVE  HInv' /\ \A q \in Proc : Calm(q)
<1>1. /\ \E x \in Project : Touch(NoProc, x)
      /\ \A q \in Proc : Calm(q)
      /\ UNCHANGED <<pc, op, plan, on, mode, faults, seen>> /\ edits' \in 0..MaxEdits
  BY UserCalm
<1>2. \A q \in Proc : Kept(q)'
  BY <1>1, CalmKeeps DEF HInv, Kept
<1> QED
  BY <1>1, <1>2, Gathered DEF HInv, TypeOK

LEMMA HydrationInit == Init => HInv
<1> SUFFICES ASSUME Init  PROVE HInv
  OBVIOUS
<1>1. TypeOK
  BY BoundsAssumption, Labels
     DEF Init, TypeOK, NodeKind, NoPlan, Class, Nothing, Op, Mode, AtPath, Resting
<1>2. Rooted
  BY DEF Init, Rooted
<1>3. \A p \in Proc : pc[p] = "done" /\ mode[p] = "fresh" /\ p \notin made
  BY DEF Init
<1>4. \A p \in Proc : Course(p) /\ Tidy(p) /\ Undisturbed(p)
  BY <1>3 DEF Course, Tidy, Undisturbed, AtPath, Cloning, Placing, Writing
<1> QED
  BY <1>1, <1>2, <1>4 DEF HInv

LEMMA HydrationStutters ==
    ASSUME HInv, UNCHANGED vars
    PROVE  HInv'
<1>1. UNCHANGED <<atRoot, node, entries, pc, op, plan, on, mode, made, temp, edits, faults, seen,
                  noise>>
  BY DEF vars, tree, task, locals, scratch
<1>2. TypeOK' /\ Rooted'
  BY <1>1 DEF HInv, TypeOK, Rooted
<1>3. \A p \in Proc : Calm(p)
  BY <1>1 DEF Calm
<1>4. \A p \in Proc : Kept(p)'
  BY <1>1, <1>3, CalmKeeps DEF HInv, Kept
<1> QED
  BY <1>2, <1>4 DEF HInv, Kept

LEMMA HydrationNext == HInv /\ [Next]_vars => HInv'
<1> SUFFICES ASSUME HInv, [Next]_vars  PROVE HInv'
  OBVIOUS
<1>1. ASSUME NEW p \in Proc, Proceed(p)  PROVE HInv'
  BY <1>1, OwnStep DEF Proceed
<1>2. ASSUME NEW p \in Proc, Begin(p) \/ Mishap(p), UNCHANGED atRoot  PROVE HInv'
  BY <1>2, OwnStep
<1>3. CASE User /\ UNCHANGED atRoot
  BY <1>3, UserStep
<1> QED
  BY <1>1, <1>2, <1>3, HydrationStutters DEF Next

LEMMA HydrationInduction == Spec => []HInv
BY HydrationInit, HydrationNext, PTL DEF Spec

-----------------------------------------------------------------------------
(***************************************************************************)
(* The theorems.                                                           *)
(***************************************************************************)

\* The types, for any number of processes and projects.
THEOREM HydrationTypes == Spec => []TypeOK
<1>1. HInv => TypeOK
  BY DEF HInv
<1> QED
  BY <1>1, HydrationInduction, PTL

\* An operation that returned has no temporary clone left, unless the machine failed it:
\* whatever others did at its path, every exit of Executor.clone cleans up.
THEOREM NothingLeftBehind == Spec => []TempCleaned
<1>1. HInv => TempCleaned
  BY Labels DEF HInv, Tidy, TempCleaned, AtPath, Cloning, Placing, Resting
<1> QED
  BY <1>1, HydrationInduction, PTL

\* Whoever takes the step: a process either stays, or keeps the three promises.
LEMMA StepsFaithful ==
    ASSUME HInv, [Next]_vars, NEW p \in Proc
    PROVE  /\ pc'[p] = pc[p] \/ Faithful(p)
           /\ Operate(p) => Faithful(p)
<1>1. UNCHANGED atRoot
  BY DEF Next, Proceed, vars
<1>2. Operate(p) => Faithful(p)
  BY <1>1, OwnStep DEF Operate
<1>3. ASSUME NEW q \in Proc, Proceed(q) \/ Begin(q) \/ Mishap(q)
      PROVE  pc'[p] = pc[p] \/ Faithful(p)
  BY <1>1, <1>3, OwnStep DEF Calm
<1>4. ASSUME User  PROVE pc'[p] = pc[p]
  BY <1>1, <1>4, UserStep DEF Calm
<1>5. ASSUME UNCHANGED vars  PROVE pc'[p] = pc[p]
  BY <1>5 DEF vars
<1> QED
  BY <1>2, <1>3, <1>4, <1>5 DEF Next

LEMMA EndsElsewhere ==
    \A label \in AtPath : label # "failed" /\ label # "next"
BY Labels DEF Resting

\* With any number of processes, users' changes and faults, codemesh never takes away what
\* was at the path when it last examined it, except its own clone and a whole placeholder.
THEOREM NothingSeenIsLost == Spec => KeepsWhatItSaw
<1>1. ASSUME HInv, [Next]_vars
      PROVE  \A p \in Proc : pc[p] \in AtPath /\ Operate(p) =>
                 \A e \in (entries[on[p]] \ entries'[on[p]]) \cap seen[p].entries :
                     e.by = p \/ seen[p].entries = Sentinels
  BY <1>1, StepsFaithful DEF Faithful, Keeps
<1>2. HInv /\ [Next]_vars
        => [\A p \in Proc : pc[p] \in AtPath /\ Operate(p) =>
                \A e \in (entries[on[p]] \ entries'[on[p]]) \cap seen[p].entries :
                    e.by = p \/ seen[p].entries = Sentinels]_vars
  BY <1>1
<1> QED
  BY <1>2, HydrationInduction, PTL DEF Spec, KeepsWhatItSaw

\* A hydration that fails with nobody else at its path and no fault of the machine, through
\* any exit and in any of the four ways to place a clone, leaves the path as it was.
THEOREM FailingRestores == Spec => FailureRestores
<1>1. ASSUME HInv, [Next]_vars
      PROVE  \A p \in Proc :
                 /\ pc[p] \in AtPath
                 /\ pc'[p] = "failed"
                 /\ noise'[p] = {}
                 => [node |-> node'[on[p]], entries |-> entries'[on[p]]] = seen[p]
  BY <1>1, StepsFaithful, EndsElsewhere DEF Faithful, Restores
<1>2. HInv /\ [Next]_vars
        => [\A p \in Proc :
                /\ pc[p] \in AtPath
                /\ pc'[p] = "failed"
                /\ noise'[p] = {}
                => [node |-> node'[on[p]], entries |-> entries'[on[p]]] = seen[p]]_vars
  BY <1>1
<1> QED
  BY <1>2, HydrationInduction, PTL DEF Spec, FailureRestores

\* A project is reported as filled, with nobody else at its path and no fault of the
\* machine, only when it is the whole clone, or exactly the placeholder.
THEOREM SucceedingFills == Spec => SuccessIsWhole
<1>1. ASSUME HInv, [Next]_vars
      PROVE  \A p \in Proc :
                 /\ pc[p] \in AtPath
                 /\ pc'[p] = "next"
                 /\ noise'[p] = {}
                 => /\ node'[on[p]] = "dir"
                    /\ entries'[on[p]] = IF op[p] = "hydrate" THEN {Git(p), Src(p)}
                                         ELSE Sentinels
  BY <1>1, StepsFaithful, EndsElsewhere DEF Faithful, Whole
<1>2. HInv /\ [Next]_vars
        => [\A p \in Proc :
                /\ pc[p] \in AtPath
                /\ pc'[p] = "next"
                /\ noise'[p] = {}
                => /\ node'[on[p]] = "dir"
                   /\ entries'[on[p]] = IF op[p] = "hydrate" THEN {Git(p), Src(p)}
                                        ELSE Sentinels]_vars
  BY <1>1
<1> QED
  BY <1>2, HydrationInduction, PTL DEF Spec, SuccessIsWhole
=============================================================================
