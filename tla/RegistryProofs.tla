---------------------------- MODULE RegistryProofs ----------------------------
(***************************************************************************)
(* Theorems about ProjectRegistry, for any remotes, paths, names,          *)
(* manifests and processes and any bounds: its types, that aliases are     *)
(* unique, and that an import is all or nothing.                           *)
(***************************************************************************)
EXTENDS ProjectRegistry, TLAPS

(***************************************************************************)
(* Tables.                                                                 *)
(***************************************************************************)

\* A function from some remotes to rows is a table, and the other way round.
LEMMA TableIntro ==
    ASSUME NEW S \in SUBSET Remote, NEW t \in [S -> Row]
    PROVE  t \in Table
  BY DEF Table

LEMMA TableElim ==
    ASSUME NEW t \in Table
    PROVE  /\ DOMAIN t \in SUBSET Remote
           /\ t \in [DOMAIN t -> Row]
<1>1. PICK S \in SUBSET Remote : t \in [S -> Row]
  BY DEF Table
<1>2. DOMAIN t = S
  BY <1>1
<1> QED
  BY <1>1, <1>2

\* The empty table, one of a single row, one with a row added or replaced.
LEMMA NoRowsTyped == NoRows \in Table /\ DOMAIN NoRows = {}
<1>1. NoRows \in [{} -> Row]
  BY DEF NoRows
<1> QED
  BY <1>1, TableIntro

LEMMA OneTyped ==
    ASSUME NEW x \in Remote, NEW r \in Row
    PROVE  One(x, r) \in Table /\ DOMAIN One(x, r) = {x} /\ One(x, r)[x] = r
<1>1. One(x, r) \in [{x} -> Row]
  BY DEF One
<1> QED
  BY <1>1, TableIntro DEF One

LEMMA WithTyped ==
    ASSUME NEW t \in Table, NEW x \in Remote, NEW r \in Row
    PROVE  /\ With(t, x, r) \in Table
           /\ DOMAIN With(t, x, r) = DOMAIN t \cup {x}
           /\ With(t, x, r)[x] = r
           /\ \A y \in DOMAIN t \ {x} : With(t, x, r)[y] = t[y]
<1>1. DOMAIN t \cup {x} \in SUBSET Remote /\ With(t, x, r) \in [DOMAIN t \cup {x} -> Row]
  BY TableElim DEF With
<1> QED
  BY <1>1, TableIntro DEF With

LEMMA ReplaceTyped ==
    ASSUME NEW t \in Table, NEW x, NEW r, x \in DOMAIN t => r \in Row
    PROVE  [t EXCEPT ![x] = r] \in Table
<1>1. [t EXCEPT ![x] = r] \in [DOMAIN t -> Row]
  BY TableElim
<1> QED
  BY <1>1, TableElim, TableIntro

\* A manifest gives its projects aliases and paths.
LEMMA ManifestElim ==
    ASSUME NEW m \in Manifest
    PROVE  /\ DOMAIN m \in SUBSET Remote
           /\ m \in [DOMAIN m -> Entry]
<1>1. PICK S \in SUBSET Remote : m \in [S -> Entry]
  BY DEF Manifest
<1>2. DOMAIN m = S
  BY <1>1
<1> QED
  BY <1>1, <1>2

LEMMA NoManifestTyped == NoRows \in Manifest
<1>1. NoRows \in [{} -> Entry]
  BY DEF NoRows
<1> QED
  BY <1>1 DEF Manifest

\* What import plans are rows with the aliases of the manifest.
LEMMA TargetTyped ==
    ASSUME NEW t \in Table, NEW m \in Manifest, NEW x \in DOMAIN m
    PROVE  Target(t, m, x) \in Row /\ Target(t, m, x).alias \in Name
<1>1. m[x].alias \in Name /\ m[x].path \in Path
  BY ManifestElim DEF Entry
<1>2. x \in DOMAIN t => LocalPath(t[x], m[x].path) \in Path
  BY <1>1, TableElim DEF LocalPath, Row
<1> QED
  BY <1>1, <1>2 DEF Target, Row, Alias

LEMMA ChangesTyped ==
    ASSUME NEW t \in Table, NEW m \in Manifest
    PROVE  /\ Changes(t, m) \in Table
           /\ \A x \in DOMAIN Changes(t, m) : Changes(t, m)[x].alias \in Name
<1> DEFINE changed == {x \in DOMAIN m : x \in DOMAIN t => t[x] # Target(t, m, x)}
<1>1. changed \in SUBSET Remote
  BY ManifestElim
<1>2. Changes(t, m) = [x \in changed |-> Target(t, m, x)]
  BY DEF Changes
<1>3. [x \in changed |-> Target(t, m, x)] \in [changed -> Row]
  BY TargetTyped
<1>4. \A x \in changed : Target(t, m, x).alias \in Name
  BY TargetTyped
<1> HIDE DEF changed
<1> QED
  BY <1>1, <1>2, <1>3, <1>4, TableIntro

(***************************************************************************)
(* The types.                                                              *)
(***************************************************************************)

\* Those with a lock are in a transaction, and what a phase of import still has to
\* do is among the changes it is about.
Phases ==
    \A p \in Proc :
        /\ p \in holding <=> pc[p] \in Tx
        /\ pc[p] \in {"free", "rewrite"} => todo[p] \subseteq Updates(p)
        /\ pc[p] = "append" => todo[p] \subseteq DOMAIN goal[p] \ DOMAIN listed[p]

Typed == TypeOK /\ Phases

\* Whatever a return leaves of the table and the tree, the rest has its types.
LEMMA ReturnTyped ==
    ASSUME Typed, NEW p \in Proc, NEW label \in Resting, Return(p, label),
           table' \in Table, checkout' \in [Path -> Remote \cup {NoRemote}],
           ops' \in 0..MaxOps, edits' \in 0..MaxEdits, faults' \in 0..MaxFaults,
           noise' \subseteq Proc
    PROVE  Typed'
<1> USE DEF Typed, Return, Goto
<1>1. pc' \in [Proc -> PC] /\ pc'[p] \notin Tx
  BY DEF TypeOK, PC, Resting, Tx
<1>2. draft' \in [Proc -> Table] /\ listed' \in [Proc -> Table] /\ goal' \in [Proc -> Table]
  BY NoRowsTyped DEF TypeOK
<1>3. want' \in [Proc -> Manifest]
  BY NoManifestTyped DEF TypeOK
<1>4. TypeOK'
  BY <1>1, <1>2, <1>3 DEF TypeOK
<1>5. Phases'
  <2> SUFFICES ASSUME NEW q \in Proc
               PROVE  /\ q \in holding' <=> pc'[q] \in Tx
                      /\ pc'[q] \in {"free", "rewrite"} => todo'[q] \subseteq Updates(q)'
                      /\ pc'[q] = "append" => todo'[q] \subseteq DOMAIN goal'[q] \ DOMAIN listed'[q]
    BY DEF Phases
  <2>1. CASE q = p
    BY <1>1, <2>1 DEF Tx
  <2>2. CASE q # p
    <3>1. pc'[q] = pc[q] /\ todo'[q] = todo[q] /\ goal'[q] = goal[q] /\ listed'[q] = listed[q]
      BY <2>2 DEF TypeOK
    <3> QED
      BY <2>2, <3>1 DEF Phases, Updates
  <2> QED
    BY <2>1, <2>2
<1> QED
  BY <1>4, <1>5

\* A process that moves outside of transactions keeps the types, too, when what it
\* changes has them.
LEMMA MoveTyped ==
    ASSUME Typed, NEW p \in Proc, NEW label \in PC \ Tx, pc[p] \notin Tx,
           Goto(p, label), UNCHANGED <<holding, wrote, draft>>,
           table' \in Table, checkout' \in [Path -> Remote \cup {NoRemote}],
           op' \in [Proc -> Op], listed' \in [Proc -> Table], want' \in [Proc -> Manifest],
           goal' \in [Proc -> Table], todo' \in [Proc -> SUBSET Remote],
           visit' \in [Proc -> SUBSET Path], used' \in [Proc -> SUBSET Alias],
           met' \in [Proc -> SUBSET Remote],
           ops' \in 0..MaxOps, edits' \in 0..MaxEdits, faults' \in 0..MaxFaults,
           noise' \subseteq Proc,
           \A q \in Proc \ {p} : /\ listed'[q] = listed[q]
                                 /\ goal'[q] = goal[q]
                                 /\ todo'[q] = todo[q]
    PROVE  Typed'
<1> USE DEF Typed, Goto
<1>1. TypeOK'
  BY DEF TypeOK
<1>2. Phases'
  <2> SUFFICES ASSUME NEW q \in Proc
               PROVE  /\ q \in holding' <=> pc'[q] \in Tx
                      /\ pc'[q] \in {"free", "rewrite"} => todo'[q] \subseteq Updates(q)'
                      /\ pc'[q] = "append" => todo'[q] \subseteq DOMAIN goal'[q] \ DOMAIN listed'[q]
    BY DEF Phases
  <2>1. CASE q = p
    BY <2>1 DEF Tx, TypeOK, Phases
  <2>2. CASE q # p
    BY <2>2 DEF Phases, Updates, TypeOK
  <2> QED
    BY <2>1, <2>2
<1> QED
  BY <1>1, <1>2

\* The steps that only move.
LEMMA PassTyped ==
    ASSUME Typed, NEW p \in Proc, NEW label \in PC \ Tx, pc[p] \notin Tx, Pass(p, label)
    PROVE  Typed'
  BY MoveTyped DEF Pass, Typed, TypeOK, db, locals, importLocals, scanLocals, bounds

LEMMA FailTyped ==
    ASSUME Typed, NEW p \in Proc, Fail(p)
    PROVE  Typed'
  BY ReturnTyped DEF Fail, Typed, TypeOK, Resting, bounds

LEMMA DisturbTyped ==
    ASSUME Typed, NEW p \in Proc, Disturb(p)
    PROVE  noise' \subseteq Proc
  BY DEF Disturb, Typed, TypeOK

(***************************************************************************)
(* The steps of each operation.                                            *)
(***************************************************************************)

\* What the row at hand of an operation is.
LEMMA GoalTyped ==
    ASSUME Typed, NEW p \in Proc, NEW x \in DOMAIN goal[p]
    PROVE  /\ x \in Remote /\ goal[p] \in Table /\ goal[p][x] \in Row
           /\ goal[p][x].alias \in Alias /\ goal[p][x].local \in Path
<1>1. goal[p] \in Table
  BY DEF Typed, TypeOK
<1> QED
  BY <1>1, TableElim DEF Row

LEMMA BeginTyped ==
    ASSUME Typed, NEW p \in Proc, NEW o \in Op, NEW label \in PC \ Tx, Begin(p, o, label),
           listed' \in [Proc -> Table], want' \in [Proc -> Manifest],
           goal' \in [Proc -> Table], todo' \in [Proc -> SUBSET Remote],
           visit' \in [Proc -> SUBSET Path], used' \in [Proc -> SUBSET Alias],
           met' \in [Proc -> SUBSET Remote],
           \A q \in Proc \ {p} : /\ listed'[q] = listed[q]
                                 /\ goal'[q] = goal[q]
                                 /\ todo'[q] = todo[q]
    PROVE  Typed'
<1>1. pc[p] \notin Tx
  BY DEF Begin, Resting, Tx
<1>2. ops' \in 0..MaxOps
  BY BoundsAssumption DEF Begin, Typed, TypeOK
<1>3. op' \in [Proc -> Op] /\ noise' \subseteq Proc
  BY DEF Begin, Typed, TypeOK
<1>4. /\ table' \in Table /\ checkout' \in [Path -> Remote \cup {NoRemote}]
      /\ edits' \in 0..MaxEdits /\ faults' \in 0..MaxFaults
      /\ UNCHANGED <<holding, wrote, draft>>
  BY DEF Begin, Typed, TypeOK, db
<1> QED
  BY <1>1, <1>2, <1>3, <1>4, MoveTyped DEF Begin

LEMMA RecordedTyped ==
    ASSUME Typed, NEW p \in Proc, NEW x \in Remote, NEW alias \in Alias, pc[p] \notin Tx,
           Recorded(p, x, alias),
           table' \in Table, checkout' = checkout, UNCHANGED bounds, noise' \subseteq Proc
    PROVE  Typed'
<1>1. /\ op' \in [Proc -> Op] /\ listed' \in [Proc -> Table] /\ want' \in [Proc -> Manifest]
      /\ todo' \in [Proc -> SUBSET Remote] /\ visit' \in [Proc -> SUBSET Path]
      /\ used' \in [Proc -> SUBSET Alias] /\ met' \in [Proc -> SUBSET Remote]
  BY DEF Recorded, importLocals, Typed, TypeOK
<1>2. goal' \in [Proc -> Table]
  BY NoRowsTyped DEF Recorded, Typed, TypeOK
<1>3. \A q \in Proc \ {p} : listed'[q] = listed[q] /\ goal'[q] = goal[q] /\ todo'[q] = todo[q]
  BY DEF Recorded, importLocals, Typed, TypeOK
<1>4. /\ checkout' \in [Path -> Remote \cup {NoRemote}]
      /\ ops' \in 0..MaxOps /\ edits' \in 0..MaxEdits /\ faults' \in 0..MaxFaults
  BY DEF bounds, Typed, TypeOK
<1>5. "walk" \in PC \ Tx
  BY DEF PC, Tx
<1> QED
  BY <1>1, <1>2, <1>3, <1>4, <1>5, MoveTyped DEF Recorded

LEMMA StoredTyped ==
    ASSUME Typed, NEW p \in Proc, NEW x \in DOMAIN goal[p], pc[p] \notin Tx, Stored(p, x),
           table' \in Table, checkout' = checkout, UNCHANGED bounds, noise' \subseteq Proc
    PROVE  Typed'
<1>1. CASE op[p] = "scan"
  BY <1>1, GoalTyped, RecordedTyped DEF Stored
<1>2. CASE op[p] # "scan"
  BY <1>2, ReturnTyped DEF Stored, Typed, TypeOK, Resting, bounds
<1> QED
  BY <1>1, <1>2

LEMMA AddTyped ==
    ASSUME Typed, NEW p \in Proc, AddStep(p)
    PROVE  Typed'
<1>1. CASE BeginAdd(p)
  <2>1. PICK d \in Path, n \in Name :
            /\ checkout[d] \in Remote
            /\ goal' = [goal EXCEPT ![p] = One(checkout[d], NewRow(n, d))]
    BY <1>1 DEF BeginAdd
  <2>2. One(checkout[d], NewRow(n, d)) \in Table
    BY <2>1, OneTyped DEF NewRow, Row, Alias
  <2>3. "alias" \in PC \ Tx /\ "add" \in Op
    BY DEF PC, Tx, Op
  <2> QED
    BY <1>1, <2>1, <2>2, <2>3, BeginTyped
    DEF BeginAdd, importLocals, scanLocals, Typed, TypeOK
<1>2. CASE CheckAlias(p)
  BY <1>2, FailTyped, PassTyped DEF CheckAlias, PC, Tx
<1>3. CASE CheckRemote(p)
  BY <1>3, FailTyped, PassTyped DEF CheckRemote, PC, Tx
<1>4. CASE Insert(p)
  <2>1. PICK x \in DOMAIN goal[p] :
            IF x \in DOMAIN table \/ ~AliasFree(table, x, goal[p][x].alias) THEN Fail(p)
            ELSE /\ table' = With(table, x, goal[p][x])
                 /\ Stored(p, x)
                 /\ Disturb(p)
                 /\ UNCHANGED <<checkout, bounds>>
    BY <1>4 DEF Insert
  <2>2. CASE Fail(p)
    BY <2>2, FailTyped
  <2>3. CASE /\ table' = With(table, x, goal[p][x])
             /\ Stored(p, x)
             /\ Disturb(p)
             /\ UNCHANGED <<checkout, bounds>>
    <3>1. table' \in Table
      BY <2>3, GoalTyped, WithTyped DEF Typed, TypeOK
    <3>2. pc[p] \notin Tx
      BY <1>4 DEF Insert, Tx
    <3> QED
      BY <2>3, <3>1, <3>2, DisturbTyped, StoredTyped
  <2> QED
    BY <2>1, <2>2, <2>3
<1> QED
  BY <1>1, <1>2, <1>3, <1>4 DEF AddStep

LEMMA FoundTyped ==
    ASSUME NEW r \in Row, NEW d \in Path
    PROVE  FoundAt(r, d) \in Row /\ FoundAt(r, d).alias = r.alias
  BY DEF FoundAt, Row

LEMMA ScanTyped ==
    ASSUME Typed, NEW p \in Proc, ScanStep(p)
    PROVE  Typed'
<1>1. CASE BeginScan(p)
  <2>1. Aliases(table) \subseteq Alias
    BY TableElim DEF Aliases, Row, Typed, TypeOK
  <2>2. "walk" \in PC \ Tx /\ "scan" \in Op
    BY DEF PC, Tx, Op
  <2> QED
    BY <1>1, <2>1, <2>2, BeginTyped DEF BeginScan, importLocals, Typed, TypeOK
<1>2. CASE Walk(p)
  <2>1. PICK d \in visit[p] :
            /\ visit' = [visit EXCEPT ![p] = @ \ {d}]
            /\ IF checkout[d] \in Remote \ met[p]
               THEN /\ \E n \in Name :
                          /\ UniqueAlias(p, d, n)
                          /\ goal' = [goal EXCEPT ![p] = One(checkout[d], NewRow(n, d))]
                    /\ Goto(p, "upsert")
               ELSE UNCHANGED <<pc, goal>>
    BY <1>2 DEF Walk
  <2>2. goal' \in [Proc -> Table] /\ \A q \in Proc \ {p} : goal'[q] = goal[q]
    <3>1. CASE checkout[d] \in Remote \ met[p]
      <4>1. PICK n \in Name : goal' = [goal EXCEPT ![p] = One(checkout[d], NewRow(n, d))]
        BY <2>1, <3>1
      <4>2. d \in Path
        BY DEF Typed, TypeOK
      <4>3. One(checkout[d], NewRow(n, d)) \in Table
        BY <3>1, <4>2, OneTyped DEF NewRow, Row, Alias
      <4> QED
        BY <4>1, <4>3 DEF Typed, TypeOK
    <3>2. CASE checkout[d] \notin Remote \ met[p]
      BY <2>1, <3>2 DEF Typed, TypeOK
    <3> QED
      BY <3>1, <3>2
  <2>3. PICK label \in {"upsert", "walk"} : Goto(p, label)
    BY <1>2, <2>1 DEF Walk, Goto, Typed, TypeOK
  <2>4. label \in PC \ Tx /\ pc[p] \notin Tx
    BY <1>2, <2>3 DEF Walk, PC, Tx
  <2>5. /\ UNCHANGED <<holding, wrote, draft>>
        /\ table' \in Table /\ checkout' \in [Path -> Remote \cup {NoRemote}]
        /\ op' \in [Proc -> Op] /\ listed' \in [Proc -> Table] /\ want' \in [Proc -> Manifest]
        /\ todo' \in [Proc -> SUBSET Remote] /\ visit' \in [Proc -> SUBSET Path]
        /\ used' \in [Proc -> SUBSET Alias] /\ met' \in [Proc -> SUBSET Remote]
        /\ ops' \in 0..MaxOps /\ edits' \in 0..MaxEdits /\ faults' \in 0..MaxFaults
        /\ noise' \subseteq Proc
        /\ \A q \in Proc \ {p} : listed'[q] = listed[q] /\ todo'[q] = todo[q]
    BY <1>2, <2>1 DEF Walk, db, importLocals, bounds, Typed, TypeOK
  <2> QED
    BY <2>2, <2>3, <2>4, <2>5, MoveTyped
<1>3. CASE Upsert(p)
  <2>1. pc[p] \notin Tx
    BY <1>3 DEF Upsert, Tx
  <2>2. PICK x \in DOMAIN goal[p] :
            IF x \notin DOMAIN table THEN Pass(p, "alias")
            ELSE LET found == FoundAt(table[x], goal[p][x].local)
                 IN  /\ IF found = table[x] THEN Recorded(p, x, found.alias)
                        ELSE /\ goal' = [goal EXCEPT ![p] = One(x, found)]
                             /\ Goto(p, "relocate")
                             /\ UNCHANGED <<holding, wrote, draft, op, listed, importLocals, scanLocals>>
                     /\ UNCHANGED <<table, checkout, bounds, noise>>
    BY <1>3 DEF Upsert
  <2> DEFINE found == FoundAt(table[x], goal[p][x].local)
  <2>3. CASE x \notin DOMAIN table
    BY <2>1, <2>2, <2>3, PassTyped DEF PC, Tx
  <2>4. CASE x \in DOMAIN table
    <3>1. x \in Remote /\ found \in Row /\ found.alias \in Alias
      BY <2>4, GoalTyped, TableElim, FoundTyped DEF Typed, TypeOK, Row
    <3> HIDE DEF found
    <3>2. CASE Recorded(p, x, found.alias) /\ UNCHANGED <<table, checkout, bounds, noise>>
      BY <2>1, <3>1, <3>2, RecordedTyped DEF Typed, TypeOK
    <3>3. CASE /\ goal' = [goal EXCEPT ![p] = One(x, found)]
               /\ Goto(p, "relocate")
               /\ UNCHANGED <<holding, wrote, draft, op, listed, importLocals, scanLocals>>
               /\ UNCHANGED <<table, checkout, bounds, noise>>
      <4>1. goal' \in [Proc -> Table] /\ \A q \in Proc \ {p} : goal'[q] = goal[q]
        BY <3>1, <3>3, OneTyped DEF Typed, TypeOK
      <4>2. "relocate" \in PC \ Tx
        BY DEF PC, Tx
      <4> QED
        BY <2>1, <3>3, <4>1, <4>2, MoveTyped
        DEF importLocals, scanLocals, bounds, Typed, TypeOK
    <3> QED
      BY <2>2, <2>4, <3>2, <3>3 DEF found
  <2> QED
    BY <2>3, <2>4
<1>4. CASE Relocate(p)
  <2>1. PICK x \in DOMAIN goal[p] :
            /\ table' = [table EXCEPT ![x] = [goal[p][x] EXCEPT !.alias = table[x].alias]]
            /\ Recorded(p, x, goal[p][x].alias)
    BY <1>4 DEF Relocate
  <2>2. x \in DOMAIN table => [goal[p][x] EXCEPT !.alias = table[x].alias] \in Row
    BY GoalTyped, TableElim DEF Row, Typed, TypeOK
  <2>3. table' \in Table
    BY <2>1, <2>2, ReplaceTyped DEF Typed, TypeOK
  <2>4. pc[p] \notin Tx
    BY <1>4 DEF Relocate, Tx
  <2> QED
    BY <1>4, <2>1, <2>3, <2>4, GoalTyped, DisturbTyped, RecordedTyped DEF Relocate
<1>5. CASE EndScan(p)
  BY <1>5, ReturnTyped DEF EndScan, Typed, TypeOK, Resting, bounds
<1> QED
  BY <1>1, <1>2, <1>3, <1>4, <1>5 DEF ScanStep

LEMMA HydrateTyped ==
    ASSUME Typed, NEW p \in Proc, HydrateStep(p)
    PROVE  Typed'
<1>1. CASE BeginHydrate(p)
  <2>1. PICK x \in DOMAIN table :
            goal' = [goal EXCEPT ![p] = One(x, [table[x] EXCEPT !.local = Placement(table[x])])]
    BY <1>1 DEF BeginHydrate
  <2>2. x \in Remote /\ [table[x] EXCEPT !.local = Placement(table[x])] \in Row
    <3>1. x \in Remote /\ table[x] \in Row
      BY TableElim DEF Typed, TypeOK
    <3>2. Placement(table[x]) \in Path
      BY <3>1 DEF Placement, Row
    <3> QED
      BY <3>1, <3>2 DEF Row
  <2>3. goal' \in [Proc -> Table] /\ \A q \in Proc \ {p} : goal'[q] = goal[q]
    BY <2>1, <2>2, OneTyped DEF Typed, TypeOK
  <2>4. "look" \in PC \ Tx /\ "hydrate" \in Op
    BY DEF PC, Tx, Op
  <2> QED
    BY <1>1, <2>3, <2>4, BeginTyped DEF BeginHydrate, importLocals, scanLocals, Typed, TypeOK
<1>2. CASE Look(p)
  <2>1. (\E label \in {"settle", "clone"} : Pass(p, label)) \/ Fail(p)
    BY <1>2 DEF Look
  <2>2. pc[p] \notin Tx
    BY <1>2 DEF Look, Tx
  <2> QED
    BY <2>1, <2>2, FailTyped, PassTyped DEF PC, Tx
<1>3. CASE Clone(p)
  <2>1. PICK x \in DOMAIN goal[p] :
            IF checkout[goal[p][x].local] # NoRemote THEN Fail(p)
            ELSE /\ checkout' = [checkout EXCEPT ![goal[p][x].local] = x]
                 /\ Goto(p, "settle")
                 /\ Disturb(p)
                 /\ UNCHANGED <<db, locals, bounds>>
    BY <1>3 DEF Clone
  <2>2. CASE Fail(p)
    BY <2>2, FailTyped
  <2>3. CASE /\ checkout' = [checkout EXCEPT ![goal[p][x].local] = x]
             /\ Goto(p, "settle")
             /\ Disturb(p)
             /\ UNCHANGED <<db, locals, bounds>>
    <3>1. checkout' \in [Path -> Remote \cup {NoRemote}]
      BY <2>3, GoalTyped DEF Typed, TypeOK
    <3>2. "settle" \in PC \ Tx /\ pc[p] \notin Tx
      BY <1>3 DEF Clone, PC, Tx
    <3> QED
      BY <2>3, <3>1, <3>2, DisturbTyped, MoveTyped
      DEF db, locals, importLocals, scanLocals, bounds, Typed, TypeOK
  <2> QED
    BY <2>1, <2>2, <2>3
<1>4. CASE Settle(p)
  <2>1. \/ Return(p, "done") /\ UNCHANGED <<table, checkout, bounds, noise>>
        \/ Pass(p, "update")
        \/ Fail(p)
    BY <1>4 DEF Settle
  <2>2. pc[p] \notin Tx /\ "update" \in PC \ Tx
    BY <1>4 DEF Settle, PC, Tx
  <2>3. CASE Return(p, "done") /\ UNCHANGED <<table, checkout, bounds, noise>>
    BY <2>3, ReturnTyped DEF Typed, TypeOK, Resting, bounds
  <2> QED
    BY <2>1, <2>2, <2>3, FailTyped, PassTyped
<1>5. CASE Update(p)
  <2>1. PICK x \in DOMAIN goal[p] :
            IF ~AliasFree(table, x, goal[p][x].alias) THEN Fail(p)
            ELSE /\ table' = With(table, x, goal[p][x])
                 /\ Return(p, "done")
                 /\ Disturb(p)
                 /\ UNCHANGED <<checkout, bounds>>
    BY <1>5 DEF Update
  <2>2. With(table, x, goal[p][x]) \in Table
    BY GoalTyped, WithTyped DEF Typed, TypeOK
  <2> QED
    BY <2>1, <2>2, FailTyped, DisturbTyped, ReturnTyped DEF Typed, TypeOK, Resting, bounds
<1> QED
  BY <1>1, <1>2, <1>3, <1>4, <1>5 DEF HydrateStep

\* A write in the transaction.
LEMMA DraftTyped ==
    ASSUME Typed, NEW p \in Proc, p \in holding, NEW x \in Remote, NEW r \in Row, Draft(p, x, r)
    PROVE  Typed'
<1>1. CASE Fail(p)
  BY <1>1, FailTyped
<1>2. CASE /\ draft' = [draft EXCEPT ![p] = With(@, x, r)]
           /\ wrote' = wrote \cup {p}
           /\ todo' = [todo EXCEPT ![p] = @ \ {x}]
           /\ UNCHANGED <<table, holding, checkout, pc, op, listed, want, goal, scanLocals, bounds, noise>>
  <2>1. draft' \in [Proc -> Table]
    BY <1>2, WithTyped DEF Typed, TypeOK
  <2>2. TypeOK'
    BY <1>2, <2>1 DEF Typed, TypeOK, scanLocals, bounds
  <2>3. Phases'
    BY <1>2 DEF Phases, Updates, Typed, TypeOK
  <2> QED
    BY <2>2, <2>3 DEF Typed
<1> QED
  BY <1>1, <1>2 DEF Draft

\* The end of a phase.
LEMMA PhaseTyped ==
    ASSUME Typed, NEW p \in Proc, NEW label \in Tx, NEW next \in Tx, NEW rest \in SUBSET Remote,
           Phase(p, label, next, rest),
           next \in {"free", "rewrite"} => rest \subseteq Updates(p),
           next = "append" => rest \subseteq DOMAIN goal[p] \ DOMAIN listed[p]
    PROVE  Typed'
<1>1. TypeOK'
  BY DEF Phase, Goto, PC, Tx, db, scanLocals, bounds, Typed, TypeOK
<1>2. Phases'
  BY DEF Phase, Goto, db, Phases, Updates, Typed, TypeOK
<1> QED
  BY <1>1, <1>2 DEF Typed

LEMMA ImportTyped ==
    ASSUME Typed, NEW p \in Proc, ImportStep(p)
    PROVE  Typed'
<1>0. /\ goal[p] \in Table /\ DOMAIN goal[p] \in SUBSET Remote
      /\ listed[p] \in Table /\ DOMAIN listed[p] \in SUBSET Remote
  BY TableElim DEF Typed, TypeOK
<1>1. CASE BeginImport(p)
  <2>1. want' \in [Proc -> Manifest]
    BY <1>1, ManifestsAssumption DEF BeginImport, Typed, TypeOK
  <2>2. "plan" \in PC \ Tx /\ "import" \in Op
    BY DEF PC, Tx, Op
  <2> QED
    BY <1>1, <2>1, <2>2, BeginTyped DEF BeginImport, scanLocals, Typed, TypeOK
<1>2. CASE PlanImport(p)
  <2>1. CASE Fail(p)
    BY <2>1, FailTyped
  <2>2. CASE /\ goal' = [goal EXCEPT ![p] = Changes(listed[p], want[p])]
             /\ Goto(p, "begin")
             /\ UNCHANGED <<db, checkout, op, listed, importLocals, scanLocals, bounds, noise>>
    <3>1. Changes(listed[p], want[p]) \in Table
      BY <1>0, ChangesTyped DEF Typed, TypeOK
    <3>2. "begin" \in PC \ Tx /\ pc[p] \notin Tx
      BY <1>2 DEF PlanImport, PC, Tx
    <3>3. goal' \in [Proc -> Table] /\ \A q \in Proc \ {p} : goal'[q] = goal[q]
      BY <2>2, <3>1 DEF Typed, TypeOK
    <3> QED
      BY <2>2, <3>2, <3>3, MoveTyped DEF db, importLocals, scanLocals, bounds, Typed, TypeOK
  <2> QED
    BY <1>2, <2>1, <2>2 DEF PlanImport
<1>3. CASE BeginTx(p)
  <2>1. CASE Return(p, "done") /\ UNCHANGED <<table, checkout, bounds, noise>>
    BY <2>1, ReturnTyped DEF Typed, TypeOK, Resting, bounds
  <2>2. CASE /\ holding' = holding \cup {p}
             /\ draft' = [draft EXCEPT ![p] = table]
             /\ todo' = [todo EXCEPT ![p] = Renamed(p)]
             /\ Goto(p, "free")
             /\ UNCHANGED <<table, wrote, checkout, op, listed, goal, want, scanLocals, bounds, noise>>
    <3>1. Renamed(p) \subseteq Updates(p) /\ Updates(p) \subseteq Remote
      BY <1>0 DEF Renamed, Updates
    <3>2. TypeOK'
      BY <2>2, <3>1 DEF Goto, PC, Tx, scanLocals, bounds, Typed, TypeOK
    <3>3. Phases'
      BY <2>2, <3>1 DEF Goto, Tx, Phases, Updates, Typed, TypeOK
    <3> QED
      BY <3>2, <3>3 DEF Typed
  <2> QED
    BY <1>3, <2>1, <2>2 DEF BeginTx
<1>4. CASE Free(p)
  <2>1. CASE pc[p] = "free" /\ \E x \in todo[p] : Draft(p, x, [listed[p][x] EXCEPT !.alias = x])
    <3>1. PICK x \in todo[p] : Draft(p, x, [listed[p][x] EXCEPT !.alias = x])
      BY <2>1
    <3>2. x \in Remote /\ x \in DOMAIN listed[p] /\ p \in holding
      BY <1>0, <2>1 DEF Tx, Updates, Phases, Typed, TypeOK
    <3>3. [listed[p][x] EXCEPT !.alias = x] \in Row
      BY <1>0, <3>2, TableElim DEF Row, Alias
    <3> QED
      BY <3>1, <3>2, <3>3, DraftTyped
  <2>2. CASE Phase(p, "free", "rewrite", Updates(p))
    BY <1>0, <2>2, PhaseTyped DEF Tx, Updates
  <2> QED
    BY <1>4, <2>1, <2>2 DEF Free
<1>5. CASE Rewrite(p)
  <2>1. CASE pc[p] = "rewrite" /\ \E x \in todo[p] : Draft(p, x, goal[p][x])
    <3>1. PICK x \in todo[p] : Draft(p, x, goal[p][x])
      BY <2>1
    <3>2. x \in DOMAIN goal[p] /\ p \in holding
      BY <2>1 DEF Tx, Updates, Phases, Typed, TypeOK
    <3> QED
      BY <3>1, <3>2, GoalTyped, DraftTyped
  <2>2. CASE Phase(p, "rewrite", "append", DOMAIN goal[p] \ DOMAIN listed[p])
    BY <1>0, <2>2, PhaseTyped DEF Tx
  <2> QED
    BY <1>5, <2>1, <2>2 DEF Rewrite
<1>6. CASE Append(p)
  <2>1. PICK x \in todo[p] : IF x \in DOMAIN draft[p] THEN Fail(p) ELSE Draft(p, x, goal[p][x])
    BY <1>6 DEF Append
  <2>2. x \in DOMAIN goal[p] /\ p \in holding
    BY <1>6 DEF Append, Tx, Phases, Typed, TypeOK
  <2> QED
    BY <2>1, <2>2, FailTyped, GoalTyped, DraftTyped
<1>7. CASE Commit(p)
  <2>1. draft[p] \in Table
    BY DEF Typed, TypeOK
  <2> QED
    BY <1>7, <2>1, DisturbTyped, ReturnTyped DEF Commit, Typed, TypeOK, Resting, bounds
<1> QED
  BY <1>1, <1>2, <1>3, <1>4, <1>5, <1>6, <1>7 DEF ImportStep

\* The invariant behind the types holds at first and is kept by every step.
LEMMA InitTyped == Init => Typed
<1> SUFFICES ASSUME Init PROVE Typed
  OBVIOUS
<1>1. TypeOK
  BY NoRowsTyped, NoManifestTyped, TableElim, BoundsAssumption
  DEF Init, TypeOK, PC, Op, Resting
<1>2. Phases
  BY DEF Init, Phases, Tx
<1> QED
  BY <1>1, <1>2 DEF Typed

LEMMA NextTyped == Typed /\ [Next]_vars => Typed'
<1> SUFFICES ASSUME Typed, [Next]_vars PROVE Typed'
  OBVIOUS
<1>1. CASE User
  <2>1. edits' \in 0..MaxEdits /\ checkout' \in [Path -> Remote \cup {NoRemote}] /\ noise' \subseteq Proc
    BY <1>1, BoundsAssumption DEF User, Typed, TypeOK
  <2> QED
    BY <1>1, <2>1
    DEF User, db, locals, importLocals, scanLocals, Typed, TypeOK, Phases, Updates
<1>2. ASSUME NEW p \in Proc, Operate(p) PROVE Typed'
  <2>1. CASE Busy(p)
    BY <2>1, ReturnTyped DEF Busy, Typed, TypeOK, Resting, bounds
  <2> QED
    BY <1>2, <2>1, AddTyped, ScanTyped, HydrateTyped, ImportTyped DEF Operate
<1>3. ASSUME NEW p \in Proc, Fault(p) PROVE Typed'
  BY <1>3, BoundsAssumption, ReturnTyped DEF Fault, Typed, TypeOK, Resting
<1>4. CASE UNCHANGED vars
  BY <1>4 DEF vars, db, locals, importLocals, scanLocals, bounds, Typed, TypeOK, Phases, Updates
<1> QED
  BY <1>1, <1>2, <1>3, <1>4 DEF Next

\* The registry is a table of whole rows, and so are the locals of every operation:
\* no interleaving of add, scan, hydrate and import reads a row that is not there.
THEOREM RegistryTyped == Spec => []TypeOK
<1>1. Typed => TypeOK
  BY DEF Typed
<1> QED
  BY InitTyped, NextTyped, <1>1, PTL DEF Spec

-----------------------------------------------------------------------------
(***************************************************************************)
(* Safety.                                                                 *)
(*                                                                         *)
(* AliasesUnique is not inductive: what a transaction has drafted becomes  *)
(* the table at the commit.  The invariant below says what is in a draft   *)
(* at every point of an import: its aliases are distinct, those not of the *)
(* manifest belong to projects still to be rewritten, and it differs from  *)
(* the table, which nobody can write meanwhile, in the import's own        *)
(* changes only, of which those done are there.                            *)
(***************************************************************************)

Unique(t) == \A x, y \in DOMAIN t : x # y => t[x].alias # t[y].alias

\* Projects that may have a temporary alias in p's draft.
Pending(p) == CASE pc[p] = "free"    -> Updates(p)
                [] pc[p] = "rewrite" -> todo[p]
                [] OTHER             -> {}

\* Projects whose change p has drafted.
Finished(p) == CASE pc[p] = "rewrite" -> Updates(p) \ todo[p]
                 [] pc[p] = "append"  -> DOMAIN goal[p] \ todo[p]
                 [] OTHER             -> {}

GoalNamed(p) == \A x \in DOMAIN goal[p] : goal[p][x].alias \in Name

DraftNamed(p) ==
    /\ Unique(draft[p])
    /\ \A x \in DOMAIN draft[p] : draft[p][x].alias \in Name \/ x \in Pending(p)

DraftOverlays(p) ==
    /\ DOMAIN table \subseteq DOMAIN draft[p]
    /\ DOMAIN draft[p] \subseteq DOMAIN table \cup DOMAIN goal[p]
    /\ \A x \in DOMAIN table \ DOMAIN goal[p] : draft[p][x] = table[x]
    /\ \A x \in Finished(p) : x \in DOMAIN draft[p] /\ draft[p][x] = goal[p][x]

Orderly(p) == GoalNamed(p) /\ (p \in holding => DraftNamed(p) /\ DraftOverlays(p))

Safe == Typed /\ AliasesUnique /\ \A p \in Proc : Orderly(p)

(***************************************************************************)
(* What a step of p leaves alone.                                          *)
(***************************************************************************)

\* Nothing of another process.
Apart(p) ==
    \A q \in Proc \ {p} :
        /\ pc'[q] = pc[q] /\ goal'[q] = goal[q] /\ listed'[q] = listed[q]
        /\ todo'[q] = todo[q] /\ draft'[q] = draft[q]
        /\ q \in holding' <=> q \in holding

\* Nothing of the table when another process has a lock on it.
Polite(p) == table' = table \/ ~Blocked(p)

LEMMA ReturnApart ==
    ASSUME Typed, NEW p \in Proc, NEW label, Return(p, label)
    PROVE  Apart(p) /\ p \notin holding' /\ DOMAIN goal'[p] = {}
  BY NoRowsTyped DEF Return, Goto, Apart, Typed, TypeOK

LEMMA FailApart ==
    ASSUME Typed, NEW p \in Proc, Fail(p)
    PROVE  Apart(p) /\ p \notin holding' /\ DOMAIN goal'[p] = {} /\ table' = table
  BY ReturnApart DEF Fail

LEMMA PassApart ==
    ASSUME Typed, NEW p \in Proc, NEW label, Pass(p, label)
    PROVE  /\ Apart(p) /\ table' = table /\ goal' = goal /\ holding' = holding
  BY DEF Pass, Goto, Apart, db, locals, importLocals, Typed, TypeOK

LEMMA RecordedApart ==
    ASSUME Typed, NEW p \in Proc, NEW x, NEW alias, Recorded(p, x, alias)
    PROVE  Apart(p) /\ holding' = holding /\ DOMAIN goal'[p] = {}
  BY NoRowsTyped DEF Recorded, Goto, Apart, importLocals, Typed, TypeOK

LEMMA StoredApart ==
    ASSUME Typed, NEW p \in Proc, NEW x, Stored(p, x), p \notin holding
    PROVE  Apart(p) /\ p \notin holding' /\ DOMAIN goal'[p] = {}
  BY ReturnApart, RecordedApart DEF Stored

\* Then the other processes stay as orderly as they were.
LEMMA OthersOrderly ==
    ASSUME Safe, NEW p \in Proc, Apart(p), Polite(p), NEW q \in Proc \ {p}
    PROVE  Orderly(q)'
<1>1. q \in holding => table' = table
  BY DEF Polite, Blocked
<1>2. /\ pc'[q] = pc[q] /\ goal'[q] = goal[q] /\ listed'[q] = listed[q]
      /\ todo'[q] = todo[q] /\ draft'[q] = draft[q]
      /\ q \in holding' <=> q \in holding
  BY DEF Apart
<1>3. Orderly(q)
  BY DEF Safe
<1>4. GoalNamed(q)'
  BY <1>2, <1>3 DEF Orderly, GoalNamed
<1>5. ASSUME q \in holding' PROVE DraftNamed(q)' /\ DraftOverlays(q)'
  <2>1. Pending(q)' = Pending(q) /\ Finished(q)' = Finished(q)
    BY <1>2 DEF Pending, Finished, Updates
  <2>2. DraftNamed(q) /\ DraftOverlays(q) /\ table' = table
    BY <1>1, <1>2, <1>3, <1>5 DEF Orderly
  <2> QED
    BY <1>2, <2>1, <2>2 DEF DraftNamed, DraftOverlays
<1> QED
  BY <1>4, <1>5 DEF Orderly

\* A step of a process that is in no transaction afterwards is safe when the table
\* it leaves and the rows it has at hand are.
LEMMA QuietSafe ==
    ASSUME Safe, Typed', NEW p \in Proc, Apart(p), Polite(p), p \notin holding',
           AliasesUnique', GoalNamed(p)'
    PROVE  Safe'
<1>1. Orderly(p)'
  BY DEF Orderly
<1> QED
  BY <1>1, OthersOrderly DEF Safe

\* A row stored under an alias that is free keeps aliases unique.
LEMMA WithUnique ==
    ASSUME NEW t \in Table, Unique(t), NEW x \in Remote, NEW r \in Row, AliasFree(t, x, r.alias)
    PROVE  Unique(With(t, x, r))
<1> DEFINE w == With(t, x, r)
<1>1. /\ DOMAIN w = DOMAIN t \cup {x} /\ w[x] = r
      /\ \A y \in DOMAIN t \ {x} : w[y] = t[y]
  BY WithTyped
<1> HIDE DEF w
<1>2. ASSUME NEW y \in DOMAIN w, NEW z \in DOMAIN w, y # z
      PROVE  w[y].alias # w[z].alias
  <2>1. CASE y = x
    BY <1>1, <1>2, <2>1 DEF AliasFree
  <2>2. CASE z = x
    BY <1>1, <1>2, <2>2 DEF AliasFree
  <2>3. CASE y # x /\ z # x
    BY <1>1, <1>2, <2>3 DEF Unique
  <2> QED
    BY <2>1, <2>2, <2>3
<1>3. Unique(w)
  BY <1>2 DEF Unique
<1> QED
  BY <1>3 DEF w

LEMMA WithAliases ==
    ASSUME Safe, NEW x \in Remote, NEW r \in Row, r.alias \in Name,
           AliasFree(table, x, r.alias), table' = With(table, x, r)
    PROVE  AliasesUnique'
<1>1. table \in Table
  BY DEF Safe, Typed, TypeOK
<1>2. Unique(table)
  BY DEF Safe, AliasesUnique, AliasFree, Unique
<1>3. Unique(table')
  BY <1>1, <1>2, WithUnique
<1>4. \A y \in DOMAIN table' : table'[y].alias \in Name
  <2>1. /\ DOMAIN table' = DOMAIN table \cup {x} /\ table'[x] = r
        /\ \A y \in DOMAIN table \ {x} : table'[y] = table[y]
    <3> DEFINE w == With(table, x, r)
    <3>1. /\ DOMAIN w = DOMAIN table \cup {x} /\ w[x] = r
          /\ \A y \in DOMAIN table \ {x} : w[y] = table[y]
      BY <1>1, WithTyped
    <3>2. table' = w
      OBVIOUS
    <3> HIDE DEF w
    <3> QED
      BY <3>1, <3>2
  <2> QED
    BY <2>1 DEF Safe, AliasesUnique
<1> QED
  BY <1>3, <1>4 DEF AliasesUnique, AliasFree, Unique

LEMMA SameAliases ==
    ASSUME Safe, table' = table
    PROVE  AliasesUnique'
  BY DEF Safe, AliasesUnique, AliasFree

(***************************************************************************)
(* The steps outside of transactions.                                      *)
(***************************************************************************)

LEMMA OutsideTx ==
    ASSUME Typed, NEW p \in Proc, pc[p] \notin Tx
    PROVE  p \notin holding
  BY DEF Typed, Phases

LEMMA FailSafe ==
    ASSUME Safe, Typed', NEW p \in Proc, Fail(p)
    PROVE  Safe'
<1>1. Apart(p) /\ p \notin holding' /\ DOMAIN goal'[p] = {} /\ table' = table
  BY FailApart DEF Safe
<1> QED
  BY <1>1, SameAliases, QuietSafe DEF Polite, GoalNamed

LEMMA PassSafe ==
    ASSUME Safe, Typed', NEW p \in Proc, NEW label, Pass(p, label), pc[p] \notin Tx
    PROVE  Safe'
<1>1. /\ Apart(p) /\ table' = table /\ goal' = goal /\ holding' = holding
  BY PassApart DEF Safe
<1>2. GoalNamed(p)'
  BY <1>1 DEF Safe, Orderly, GoalNamed
<1> QED
  BY <1>1, <1>2, OutsideTx, SameAliases, QuietSafe DEF Polite, Safe

\* A return that leaves the table alone.
LEMMA ReturnSafe ==
    ASSUME Safe, Typed', NEW p \in Proc, NEW label, Return(p, label), table' = table
    PROVE  Safe'
<1>1. Apart(p) /\ p \notin holding' /\ DOMAIN goal'[p] = {}
  BY ReturnApart DEF Safe
<1> QED
  BY <1>1, SameAliases, QuietSafe DEF Polite, GoalNamed

\* A step outside of transactions that puts one row at hand and leaves the table.
LEMMA ChooseSafe ==
    ASSUME Safe, Typed', NEW p \in Proc, pc[p] \notin Tx, NEW x \in Remote, NEW r \in Row,
           r.alias \in Name, goal' = [goal EXCEPT ![p] = One(x, r)],
           table' = table, holding' = holding, draft' = draft, todo' = todo,
           \A q \in Proc \ {p} : pc'[q] = pc[q] /\ listed'[q] = listed[q]
    PROVE  Safe'
<1>1. goal'[p] = One(x, r) /\ \A q \in Proc \ {p} : goal'[q] = goal[q]
  BY DEF Safe, Typed, TypeOK
<1>2. GoalNamed(p)'
  <2>1. DOMAIN One(x, r) = {x} /\ One(x, r)[x] = r
    BY OneTyped
  <2> QED
    BY <1>1, <2>1 DEF GoalNamed
<1>3. Apart(p)
  BY <1>1 DEF Apart
<1> QED
  BY <1>2, <1>3, OutsideTx, SameAliases, QuietSafe DEF Polite, Safe

LEMMA AddSafe ==
    ASSUME Safe, Typed', NEW p \in Proc, AddStep(p)
    PROVE  Safe'
<1>1. CASE BeginAdd(p)
  <2>1. PICK d \in Path, n \in Name :
            /\ checkout[d] \in Remote
            /\ goal' = [goal EXCEPT ![p] = One(checkout[d], NewRow(n, d))]
    BY <1>1 DEF BeginAdd
  <2>2. NewRow(n, d) \in Row /\ NewRow(n, d).alias = n
    BY DEF NewRow, Row, Alias
  <2>3. pc[p] \notin Tx /\ \A q \in Proc \ {p} : pc'[q] = pc[q]
    BY <1>1 DEF BeginAdd, Begin, Goto, Resting, Tx, Safe, Typed, TypeOK
  <2>4. UNCHANGED <<table, holding, draft, listed, todo>>
    BY <1>1 DEF BeginAdd, Begin, db, importLocals
  <2> QED
    BY <2>1, <2>2, <2>3, <2>4, ChooseSafe
<1>2. CASE CheckAlias(p)
  <2>1. Fail(p) \/ Pass(p, "remote")
    BY <1>2 DEF CheckAlias
  <2> QED
    BY <1>2, <2>1, FailSafe, PassSafe DEF CheckAlias, Tx
<1>3. CASE CheckRemote(p)
  <2>1. Fail(p) \/ Pass(p, "insert")
    BY <1>3 DEF CheckRemote
  <2> QED
    BY <1>3, <2>1, FailSafe, PassSafe DEF CheckRemote, Tx
<1>4. CASE Insert(p)
  <2>1. PICK x \in DOMAIN goal[p] :
            \/ Fail(p)
            \/ /\ AliasFree(table, x, goal[p][x].alias)
               /\ table' = With(table, x, goal[p][x])
               /\ Stored(p, x)
    BY <1>4 DEF Insert
  <2>2. CASE Fail(p)
    BY <2>2, FailSafe
  <2>3. CASE /\ AliasFree(table, x, goal[p][x].alias)
             /\ table' = With(table, x, goal[p][x])
             /\ Stored(p, x)
    <3>1. p \notin holding
      BY <1>4, OutsideTx DEF Insert, Tx, Safe
    <3>2. Apart(p) /\ p \notin holding' /\ DOMAIN goal'[p] = {}
      BY <2>3, <3>1, StoredApart DEF Safe
    <3>3. x \in Remote /\ goal[p][x] \in Row /\ goal[p][x].alias \in Name
      BY GoalTyped DEF Safe, Orderly, GoalNamed
    <3>4. AliasesUnique'
      BY <2>3, <3>3, WithAliases
    <3> QED
      BY <1>4, <3>2, <3>4, QuietSafe DEF Insert, Polite, GoalNamed
  <2> QED
    BY <2>1, <2>2, <2>3
<1> QED
  BY <1>1, <1>2, <1>3, <1>4 DEF AddStep

LEMMA TableNamed ==
    ASSUME Safe, NEW x \in DOMAIN table
    PROVE  x \in Remote /\ table[x] \in Row /\ table[x].alias \in Name
  BY TableElim DEF Safe, Typed, TypeOK, AliasesUnique

LEMMA ScanSafe ==
    ASSUME Safe, Typed', NEW p \in Proc, ScanStep(p)
    PROVE  Safe'
<1>1. CASE BeginScan(p)
  <2>1. pc[p] \notin Tx /\ goal' = goal /\ holding' = holding /\ table' = table
    BY <1>1 DEF BeginScan, Begin, Resting, Tx, db
  <2>2. Apart(p)
    BY <1>1 DEF BeginScan, Begin, Goto, Apart, db, importLocals, Safe, Typed, TypeOK
  <2>3. GoalNamed(p)'
    BY <2>1 DEF Safe, Orderly, GoalNamed
  <2> QED
    BY <2>1, <2>2, <2>3, OutsideTx, SameAliases, QuietSafe DEF Polite, Safe
<1>2. CASE Walk(p)
  <2>1. PICK d \in visit[p] :
            IF checkout[d] \in Remote \ met[p]
            THEN /\ \E n \in Name : goal' = [goal EXCEPT ![p] = One(checkout[d], NewRow(n, d))]
                 /\ Goto(p, "upsert")
            ELSE UNCHANGED <<pc, goal>>
    BY <1>2 DEF Walk
  <2>2. /\ pc[p] \notin Tx /\ UNCHANGED <<table, holding, draft, listed, todo>>
        /\ \A q \in Proc \ {p} : pc'[q] = pc[q]
    BY <1>2, <2>1 DEF Walk, Goto, Tx, db, importLocals, Safe, Typed, TypeOK
  <2>3. CASE checkout[d] \in Remote \ met[p]
    <3>1. PICK n \in Name : goal' = [goal EXCEPT ![p] = One(checkout[d], NewRow(n, d))]
      BY <2>1, <2>3
    <3>2. d \in Path
      BY DEF Safe, Typed, TypeOK
    <3>3. NewRow(n, d) \in Row /\ NewRow(n, d).alias = n
      BY <3>2 DEF NewRow, Row, Alias
    <3> QED
      BY <2>2, <2>3, <3>1, <3>3, ChooseSafe
  <2>4. CASE checkout[d] \notin Remote \ met[p]
    <3>1. goal' = goal
      BY <2>1, <2>4
    <3>2. Apart(p) /\ GoalNamed(p)'
      BY <2>2, <3>1 DEF Apart, Safe, Orderly, GoalNamed
    <3> QED
      BY <2>2, <3>2, OutsideTx, SameAliases, QuietSafe DEF Polite, Safe
  <2> QED
    BY <2>3, <2>4
<1>3. CASE Upsert(p)
  <2>1. pc[p] \notin Tx
    BY <1>3 DEF Upsert, Tx
  <2>2. PICK x \in DOMAIN goal[p] :
            IF x \notin DOMAIN table THEN Pass(p, "alias")
            ELSE LET found == FoundAt(table[x], goal[p][x].local)
                 IN  /\ IF found = table[x] THEN Recorded(p, x, found.alias)
                        ELSE /\ goal' = [goal EXCEPT ![p] = One(x, found)]
                             /\ Goto(p, "relocate")
                             /\ UNCHANGED <<holding, wrote, draft, op, listed, importLocals, scanLocals>>
                     /\ UNCHANGED <<table, checkout, bounds, noise>>
    BY <1>3 DEF Upsert
  <2> DEFINE found == FoundAt(table[x], goal[p][x].local)
  <2>3. CASE x \notin DOMAIN table
    BY <2>1, <2>2, <2>3, PassSafe
  <2>4. CASE x \in DOMAIN table
    <3>1. x \in Remote /\ found \in Row /\ found.alias \in Name
      BY <2>4, GoalTyped, TableNamed, FoundTyped DEF Safe
    <3> HIDE DEF found
    <3>2. CASE Recorded(p, x, found.alias) /\ table' = table
      <4>1. Apart(p) /\ holding' = holding /\ DOMAIN goal'[p] = {}
        BY <3>2, RecordedApart DEF Safe
      <4> QED
        BY <2>1, <3>2, <4>1, OutsideTx, SameAliases, QuietSafe DEF Polite, GoalNamed, Safe
    <3>3. CASE /\ goal' = [goal EXCEPT ![p] = One(x, found)]
               /\ Goto(p, "relocate")
               /\ UNCHANGED <<holding, wrote, draft, op, listed, importLocals, scanLocals>>
               /\ table' = table
      <4>1. \A q \in Proc \ {p} : pc'[q] = pc[q]
        BY <3>3 DEF Goto, Safe, Typed, TypeOK
      <4> QED
        BY <2>1, <3>1, <3>3, <4>1, ChooseSafe DEF importLocals
    <3> QED
      BY <2>2, <2>4, <3>2, <3>3 DEF found
  <2> QED
    BY <2>3, <2>4
<1>4. CASE Relocate(p)
  <2>1. PICK x \in DOMAIN goal[p] :
            /\ table' = [table EXCEPT ![x] = [goal[p][x] EXCEPT !.alias = table[x].alias]]
            /\ Recorded(p, x, goal[p][x].alias)
    BY <1>4 DEF Relocate
  <2>2. DOMAIN table' = DOMAIN table /\ \A y \in DOMAIN table : table'[y].alias = table[y].alias
    BY <2>1, GoalTyped, TableElim DEF Row, Safe, Typed, TypeOK
  <2>3. AliasesUnique'
    BY <2>2 DEF AliasesUnique, AliasFree, Safe
  <2>4. Apart(p) /\ holding' = holding /\ DOMAIN goal'[p] = {}
    BY <2>1, RecordedApart DEF Safe
  <2>5. pc[p] \notin Tx
    BY <1>4 DEF Relocate, Tx
  <2> QED
    BY <1>4, <2>3, <2>4, <2>5, OutsideTx, QuietSafe DEF Relocate, Polite, GoalNamed, Safe
<1>5. CASE EndScan(p)
  BY <1>5, ReturnSafe DEF EndScan
<1> QED
  BY <1>1, <1>2, <1>3, <1>4, <1>5 DEF ScanStep

LEMMA HydrateSafe ==
    ASSUME Safe, Typed', NEW p \in Proc, HydrateStep(p)
    PROVE  Safe'
<1>1. CASE BeginHydrate(p)
  <2>1. PICK x \in DOMAIN table :
            goal' = [goal EXCEPT ![p] = One(x, [table[x] EXCEPT !.local = Placement(table[x])])]
    BY <1>1 DEF BeginHydrate
  <2> DEFINE r == [table[x] EXCEPT !.local = Placement(table[x])]
  <2>2. x \in Remote /\ r \in Row /\ r.alias \in Name
    <3>1. Placement(table[x]) \in Path
      BY TableNamed DEF Placement, Row
    <3> QED
      BY <3>1, TableNamed DEF Row
  <2>3. pc[p] \notin Tx /\ UNCHANGED <<table, holding, draft, todo>>
    BY <1>1 DEF BeginHydrate, Begin, Resting, Tx, db, importLocals
  <2>4. \A q \in Proc \ {p} : pc'[q] = pc[q] /\ listed'[q] = listed[q]
    BY <1>1 DEF BeginHydrate, Begin, Goto, Safe, Typed, TypeOK
  <2> HIDE DEF r
  <2>5. goal' = [goal EXCEPT ![p] = One(x, r)]
    BY <2>1 DEF r
  <2> QED
    BY <2>2, <2>3, <2>4, <2>5, ChooseSafe
<1>2. CASE Look(p)
  <2>1. (\E label \in {"settle", "clone"} : Pass(p, label)) \/ Fail(p)
    BY <1>2 DEF Look
  <2> QED
    BY <1>2, <2>1, FailSafe, PassSafe DEF Look, Tx
<1>3. CASE Clone(p)
  <2>1. Fail(p) \/ (Goto(p, "settle") /\ UNCHANGED <<db, locals>>)
    BY <1>3 DEF Clone
  <2>2. CASE Fail(p)
    BY <2>2, FailSafe
  <2>3. CASE Goto(p, "settle") /\ UNCHANGED <<db, locals>>
    <3>1. UNCHANGED <<table, holding, draft, goal, listed, todo>>
      BY <2>3 DEF db, locals, importLocals
    <3>2. Apart(p)
      BY <2>3, <3>1 DEF Goto, Apart, Safe, Typed, TypeOK
    <3>3. pc[p] \notin Tx /\ GoalNamed(p)'
      BY <1>3, <3>1 DEF Clone, Tx, Safe, Orderly, GoalNamed
    <3> QED
      BY <3>1, <3>2, <3>3, OutsideTx, SameAliases, QuietSafe DEF Polite, Safe
  <2> QED
    BY <2>1, <2>2, <2>3
<1>4. CASE Settle(p)
  <2>1. (Return(p, "done") /\ table' = table) \/ Pass(p, "update") \/ Fail(p)
    BY <1>4 DEF Settle
  <2> QED
    BY <1>4, <2>1, FailSafe, PassSafe, ReturnSafe DEF Settle, Tx
<1>5. CASE Update(p)
  <2>1. PICK x \in DOMAIN goal[p] :
            \/ Fail(p)
            \/ /\ AliasFree(table, x, goal[p][x].alias)
               /\ table' = With(table, x, goal[p][x])
               /\ Return(p, "done")
    BY <1>5 DEF Update
  <2>2. CASE Fail(p)
    BY <2>2, FailSafe
  <2>3. CASE /\ AliasFree(table, x, goal[p][x].alias)
             /\ table' = With(table, x, goal[p][x])
             /\ Return(p, "done")
    <3>1. Apart(p) /\ p \notin holding' /\ DOMAIN goal'[p] = {}
      BY <2>3, ReturnApart DEF Safe
    <3>2. x \in Remote /\ goal[p][x] \in Row /\ goal[p][x].alias \in Name
      BY GoalTyped DEF Safe, Orderly, GoalNamed
    <3>3. AliasesUnique'
      BY <2>3, <3>2, WithAliases
    <3> QED
      BY <1>5, <3>1, <3>3, QuietSafe DEF Update, Polite, GoalNamed
  <2> QED
    BY <2>1, <2>2, <2>3
<1> QED
  BY <1>1, <1>2, <1>3, <1>4, <1>5 DEF HydrateStep

(***************************************************************************)
(* The steps of import.                                                    *)
(***************************************************************************)

\* A step within the transaction: the others see nothing of it, and its own draft
\* has to stay in order.
LEMMA TxSafe ==
    ASSUME Safe, Typed', NEW p \in Proc, Apart(p), table' = table, goal'[p] = goal[p],
           DraftNamed(p)', DraftOverlays(p)'
    PROVE  Safe'
<1>1. GoalNamed(p)'
  BY DEF Safe, Orderly, GoalNamed
<1>2. Orderly(p)'
  BY <1>1 DEF Orderly
<1> QED
  BY <1>2, OthersOrderly, SameAliases DEF Polite, Safe

\* A row written into the draft: it is one of the import's own, it is the change
\* itself unless its alias is still to come, and it is finished only then.
LEMMA DraftSafe ==
    ASSUME Safe, Typed', NEW p \in Proc, p \in holding, NEW x \in DOMAIN goal[p], NEW r \in Row,
           Draft(p, x, r), x \in todo[p],
           pc[p] = "free" => x \in Updates(p),
           pc[p] # "free" => r = goal[p][x]
    PROVE  Safe'
<1>1. CASE Fail(p)
  BY <1>1, FailSafe
<1>2. CASE /\ AliasFree(draft[p], x, r.alias)
           /\ draft' = [draft EXCEPT ![p] = With(@, x, r)]
           /\ todo' = [todo EXCEPT ![p] = @ \ {x}]
           /\ UNCHANGED <<table, holding, pc, listed, goal>>
  <2>1. /\ draft[p] \in Table /\ x \in Remote
        /\ draft'[p] = With(draft[p], x, r) /\ todo'[p] = todo[p] \ {x}
        /\ pc[p] \in Tx /\ goal[p] \in Table
    BY <1>2, GoalTyped DEF Safe, Typed, TypeOK, Phases
  <2>2. Apart(p)
    BY <1>2 DEF Apart, Safe, Typed, TypeOK
  <2>3. DraftNamed(p) /\ DraftOverlays(p) /\ GoalNamed(p)
    BY DEF Safe, Orderly
  <2> DEFINE d == draft[p]
             w == With(d, x, r)
  <2>4. /\ DOMAIN w = DOMAIN d \cup {x} /\ w[x] = r
        /\ \A y \in DOMAIN d \ {x} : w[y] = d[y]
    <3>1. d \in Table /\ x \in Remote
      BY <2>1
    <3> HIDE DEF d
    <3> QED
      BY <3>1, WithTyped
  <2>5. Unique(w)
    BY <1>2, <2>1, <2>3, WithUnique DEF DraftNamed
  <2>6. draft'[p] = w
    BY <2>1
  <2> HIDE DEF w
  <2>7. ASSUME NEW y \in DOMAIN w PROVE w[y].alias \in Name \/ y \in Pending(p)'
    <3>1. CASE pc[p] = "free"
      <4>1. Pending(p) = Updates(p) /\ Pending(p)' = Updates(p)
        BY <1>2, <3>1 DEF Pending, Updates
      <4> QED
        BY <2>3, <2>4, <2>7, <3>1, <4>1 DEF DraftNamed
    <3>2. CASE pc[p] # "free"
      <4>1. w[x].alias \in Name
        BY <2>3, <2>4, <3>2 DEF GoalNamed
      <4>2. Pending(p)' = Pending(p) \ {x}
        BY <1>2, <2>1, <3>2 DEF Pending
      <4> QED
        BY <2>3, <2>4, <2>7, <4>1, <4>2 DEF DraftNamed
    <3> QED
      BY <3>1, <3>2
  <2>8. DraftNamed(p)'
    BY <2>5, <2>6, <2>7 DEF DraftNamed
  <2>9. ASSUME NEW y \in Finished(p)' PROVE y \in DOMAIN w /\ w[y] = goal[p][y]
    <3>1. pc[p] # "free" /\ y \in Finished(p) \cup {x}
      BY <1>2, <2>1, <2>9 DEF Finished, Updates
    <3> QED
      BY <2>3, <2>4, <3>1 DEF DraftOverlays
  <2>10. DraftOverlays(p)'
    BY <1>2, <2>3, <2>4, <2>6, <2>9 DEF DraftOverlays
  <2> QED
    BY <1>2, <2>2, <2>8, <2>10, TxSafe
<1> QED
  BY <1>1, <1>2 DEF Draft

\* The end of a phase: what it has finished is what the next one begins with.
LEMMA PhaseSafe ==
    ASSUME Safe, Typed', NEW p \in Proc, NEW label, NEW next \in Tx, NEW rest,
           Phase(p, label, next, rest), p \in holding,
           \/ label = "free" /\ next = "rewrite" /\ rest = Updates(p)
           \/ label = "rewrite" /\ next = "append" /\ rest = DOMAIN goal[p] \ DOMAIN listed[p]
    PROVE  Safe'
<1>1. /\ pc[p] = label /\ todo[p] = {} /\ pc'[p] = next /\ todo'[p] = rest
      /\ UNCHANGED <<table, holding, draft, listed, goal>>
  BY DEF Phase, Goto, db, Safe, Typed, TypeOK
<1>2. Apart(p)
  BY DEF Phase, Goto, db, Apart, Safe, Typed, TypeOK
<1>3. DraftNamed(p) /\ DraftOverlays(p)
  BY DEF Safe, Orderly
<1>4. Pending(p)' = Pending(p) /\ Finished(p)' = Finished(p)
  BY <1>1 DEF Pending, Finished, Updates
<1>5. DraftNamed(p)' /\ DraftOverlays(p)'
  BY <1>1, <1>3, <1>4 DEF DraftNamed, DraftOverlays
<1> QED
  BY <1>1, <1>2, <1>5, TxSafe

\* A commit makes the table what it was with the import's changes.
LEMMA CommitExact ==
    ASSUME Safe, NEW p \in Proc, Commit(p)
    PROVE  table' = [x \in DOMAIN table \cup DOMAIN goal[p] |->
                       IF x \in DOMAIN goal[p] THEN goal[p][x] ELSE table[x]]
<1>1. p \in holding /\ pc[p] = "append" /\ todo[p] = {} /\ table' = draft[p]
  BY DEF Commit, Tx, Safe, Typed, Phases
<1>2. DraftOverlays(p) /\ Finished(p) = DOMAIN goal[p]
  BY <1>1 DEF Safe, Orderly, Finished
<1>3. DOMAIN draft[p] = DOMAIN table \cup DOMAIN goal[p]
  BY <1>2 DEF DraftOverlays
<1>4. draft[p] = [x \in DOMAIN draft[p] |-> draft[p][x]]
  BY TableElim DEF Safe, Typed, TypeOK
<1>5. ASSUME NEW x \in DOMAIN draft[p]
      PROVE  draft[p][x] = IF x \in DOMAIN goal[p] THEN goal[p][x] ELSE table[x]
  BY <1>2, <1>3, <1>5 DEF DraftOverlays
<1> QED
  BY <1>1, <1>3, <1>4, <1>5

LEMMA ImportSafe ==
    ASSUME Safe, Typed', NEW p \in Proc, ImportStep(p)
    PROVE  Safe'
<1>0. DOMAIN goal[p] \in SUBSET Remote /\ DOMAIN listed[p] \in SUBSET Remote
  BY TableElim DEF Safe, Typed, TypeOK
<1>1. CASE BeginImport(p)
  <2>1. pc[p] \notin Tx /\ goal' = goal /\ holding' = holding /\ table' = table
    BY <1>1 DEF BeginImport, Begin, Resting, Tx, db
  <2>2. Apart(p)
    BY <1>1 DEF BeginImport, Begin, Goto, Apart, db, Safe, Typed, TypeOK
  <2>3. GoalNamed(p)'
    BY <2>1 DEF Safe, Orderly, GoalNamed
  <2> QED
    BY <2>1, <2>2, <2>3, OutsideTx, SameAliases, QuietSafe DEF Polite, Safe
<1>2. CASE PlanImport(p)
  <2>1. CASE Fail(p)
    BY <2>1, FailSafe
  <2>2. CASE /\ goal' = [goal EXCEPT ![p] = Changes(listed[p], want[p])]
             /\ Goto(p, "begin")
             /\ UNCHANGED <<db, listed, importLocals>>
    <3>1. \A x \in DOMAIN Changes(listed[p], want[p]) : Changes(listed[p], want[p])[x].alias \in Name
      BY ChangesTyped DEF Safe, Typed, TypeOK
    <3>2. goal'[p] = Changes(listed[p], want[p])
      BY <2>2 DEF Safe, Typed, TypeOK
    <3>3. GoalNamed(p)'
      BY <3>1, <3>2 DEF GoalNamed
    <3>4. Apart(p)
      BY <2>2 DEF Goto, Apart, db, importLocals, Safe, Typed, TypeOK
    <3>5. pc[p] \notin Tx /\ table' = table /\ holding' = holding
      BY <1>2, <2>2 DEF PlanImport, Tx, db
    <3> QED
      BY <3>3, <3>4, <3>5, OutsideTx, SameAliases, QuietSafe DEF Polite, Safe
  <2> QED
    BY <1>2, <2>1, <2>2 DEF PlanImport
<1>3. CASE BeginTx(p)
  <2>1. CASE Return(p, "done") /\ table' = table
    BY <2>1, ReturnSafe
  <2>2. CASE /\ holding' = holding \cup {p}
             /\ draft' = [draft EXCEPT ![p] = table]
             /\ todo' = [todo EXCEPT ![p] = Renamed(p)]
             /\ Goto(p, "free")
             /\ UNCHANGED <<table, listed, goal>>
    <3>1. draft'[p] = table /\ pc'[p] = "free" /\ Apart(p)
      BY <2>2 DEF Goto, Apart, Safe, Typed, TypeOK
    <3>2. DraftNamed(p)'
      BY <3>1 DEF DraftNamed, Unique, Safe, AliasesUnique, AliasFree
    <3>3. DraftOverlays(p)'
      BY <2>2, <3>1 DEF DraftOverlays, Finished
    <3> QED
      BY <2>2, <3>1, <3>2, <3>3, TxSafe
  <2> QED
    BY <1>3, <2>1, <2>2 DEF BeginTx
<1>4. CASE Free(p)
  <2>1. p \in holding
    BY <1>4 DEF Free, Phase, Tx, Safe, Typed, Phases
  <2>2. CASE pc[p] = "free" /\ \E x \in todo[p] : Draft(p, x, [listed[p][x] EXCEPT !.alias = x])
    <3>1. PICK x \in todo[p] : Draft(p, x, [listed[p][x] EXCEPT !.alias = x])
      BY <2>2
    <3>2. x \in Updates(p) /\ x \in DOMAIN goal[p] /\ x \in DOMAIN listed[p] /\ x \in Remote
      BY <1>0, <2>2 DEF Updates, Safe, Typed, Phases
    <3>3. [listed[p][x] EXCEPT !.alias = x] \in Row
      <4>1. listed[p][x] \in Row
        BY <3>2, TableElim DEF Safe, Typed, TypeOK
      <4> QED
        BY <3>2, <4>1 DEF Row, Alias
    <3> QED
      BY <2>1, <2>2, <3>1, <3>2, <3>3, DraftSafe
  <2>3. CASE Phase(p, "free", "rewrite", Updates(p))
    BY <2>1, <2>3, PhaseSafe DEF Tx
  <2> QED
    BY <1>4, <2>2, <2>3 DEF Free
<1>5. CASE Rewrite(p)
  <2>1. p \in holding
    BY <1>5 DEF Rewrite, Phase, Tx, Safe, Typed, Phases
  <2>2. CASE pc[p] = "rewrite" /\ \E x \in todo[p] : Draft(p, x, goal[p][x])
    <3>1. PICK x \in todo[p] : Draft(p, x, goal[p][x])
      BY <2>2
    <3>2. x \in DOMAIN goal[p]
      BY <2>2 DEF Updates, Safe, Typed, Phases
    <3> QED
      BY <2>1, <2>2, <3>1, <3>2, GoalTyped, DraftSafe DEF Safe
  <2>3. CASE Phase(p, "rewrite", "append", DOMAIN goal[p] \ DOMAIN listed[p])
    BY <2>1, <2>3, PhaseSafe DEF Tx
  <2> QED
    BY <1>5, <2>2, <2>3 DEF Rewrite
<1>6. CASE Append(p)
  <2>1. PICK x \in todo[p] : Fail(p) \/ Draft(p, x, goal[p][x])
    BY <1>6 DEF Append
  <2>2. x \in DOMAIN goal[p] /\ p \in holding /\ pc[p] = "append"
    BY <1>6 DEF Append, Tx, Safe, Typed, Phases
  <2> QED
    BY <2>1, <2>2, FailSafe, GoalTyped, DraftSafe DEF Safe
<1>7. CASE Commit(p)
  <2>1. p \in holding /\ pc[p] = "append" /\ table' = draft[p]
    BY <1>7 DEF Commit, Tx, Safe, Typed, Phases
  <2>2. DraftNamed(p) /\ Pending(p) = {}
    BY <2>1 DEF Safe, Orderly, Pending
  <2>3. AliasesUnique'
    BY <2>1, <2>2 DEF AliasesUnique, AliasFree, DraftNamed, Unique
  <2>4. Apart(p) /\ p \notin holding' /\ DOMAIN goal'[p] = {}
    BY <1>7, ReturnApart DEF Commit, Safe
  <2> QED
    BY <1>7, <2>3, <2>4, QuietSafe DEF Commit, Polite, GoalNamed
<1> QED
  BY <1>1, <1>2, <1>3, <1>4, <1>5, <1>6, <1>7 DEF ImportStep

(***************************************************************************)
(* The theorems.                                                           *)
(***************************************************************************)

LEMMA InitSafe == Init => Safe
<1> SUFFICES ASSUME Init PROVE Safe
  OBVIOUS
<1>1. DOMAIN table = {} /\ \A p \in Proc : DOMAIN goal[p] = {} /\ p \notin holding
  BY NoRowsTyped DEF Init
<1> QED
  BY <1>1, InitTyped DEF Safe, AliasesUnique, Orderly, GoalNamed

LEMMA NextSafe == Safe /\ [Next]_vars => Safe'
<1> SUFFICES ASSUME Safe, [Next]_vars PROVE Safe'
  OBVIOUS
<1>0. Typed'
  BY NextTyped DEF Safe
<1>1. CASE User \/ UNCHANGED vars
  <2>1. UNCHANGED <<table, holding, draft, pc, goal, listed, todo>>
    BY <1>1 DEF User, vars, db, locals, importLocals
  <2> QED
    BY <1>0, <2>1
    DEF Safe, AliasesUnique, AliasFree, Orderly, GoalNamed, DraftNamed, DraftOverlays,
        Pending, Finished, Updates, Unique
<1>2. ASSUME NEW p \in Proc, Operate(p) PROVE Safe'
  <2>1. CASE Busy(p)
    BY <1>0, <2>1, ReturnSafe DEF Busy
  <2> QED
    BY <1>0, <1>2, <2>1, AddSafe, ScanSafe, HydrateSafe, ImportSafe DEF Operate
<1>3. ASSUME NEW p \in Proc, Fault(p) PROVE Safe'
  BY <1>0, <1>3, ReturnSafe DEF Fault
<1> QED
  BY <1>1, <1>2, <1>3 DEF Next

\* No two projects ever have the same alias and none keeps a temporary one: the
\* checks of add, scan and hydrate are statements of their own, import exchanges
\* aliases through temporary ones, and they may all overlap.
THEOREM UniqueAliases == Spec => []AliasesUnique
<1>1. Safe => AliasesUnique
  BY DEF Safe
<1> QED
  BY InitSafe, NextSafe, <1>1, PTL DEF Spec

\* Whatever other processes do and wherever it fails, an import changes the table
\* once, and then by all of its changes and nothing else.
THEOREM ImportAtomic == Spec => ImportAllOrNothing
<1>1. ASSUME Safe, NEW p \in Proc, ImportStep(p), table' # table
      PROVE  table' = [x \in DOMAIN table \cup DOMAIN goal[p] |->
                         IF x \in DOMAIN goal[p] THEN goal[p][x] ELSE table[x]]
  <2>1. Commit(p)
    BY <1>1
    DEF ImportStep, BeginImport, Begin, PlanImport, BeginTx, Free, Rewrite, Append, Phase,
        Draft, Fail, db
  <2> QED
    BY <1>1, <2>1, CommitExact
<1>2. Safe /\ [Next]_vars
        => [\A p \in Proc : op[p] = "import" /\ ImportStep(p) /\ table' # table =>
               table' = [x \in DOMAIN table \cup DOMAIN goal[p] |->
                           IF x \in DOMAIN goal[p] THEN goal[p][x] ELSE table[x]]]_vars
  BY <1>1
<1> QED
  BY <1>2, InitSafe, NextSafe, PTL DEF Spec, ImportAllOrNothing

=============================================================================
