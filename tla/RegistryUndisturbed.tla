------------------------- MODULE RegistryUndisturbed -------------------------
(***************************************************************************)
(* What an operation on the Project Registry can promise when nobody       *)
(* disturbs it, for any remotes, paths, names, manifests and processes and *)
(* any bounds: the four action properties of ProjectRegistry about scan,   *)
(* hydrate and import.                                                     *)
(*                                                                         *)
(* Each of the operations acts on what it read or decided several steps    *)
(* before.  The invariant says that this is still so of the table and the  *)
(* tree at every one of its steps: Knows, of any process that is not       *)
(* marked as disturbed.                                                    *)
(***************************************************************************)
EXTENDS RegistryProofs

(***************************************************************************)
(* The invariant.                                                          *)
(***************************************************************************)

ScanPC == {"walk", "upsert", "alias", "remote", "insert", "relocate"}
HydratePC == {"look", "clone", "settle", "update"}
ImportPC == {"plan", "begin"} \cup Tx

\* Where the processes of each operation are; one at rest has no row at hand.
Course(p) ==
    /\ op[p] = "add" => pc[p] \in Resting \cup {"alias", "remote", "insert"}
    /\ op[p] = "scan" => pc[p] \in Resting \cup ScanPC
    /\ op[p] = "hydrate" => pc[p] \in Resting \cup HydratePC
    /\ op[p] = "import" => pc[p] \in Resting \cup ImportPC
    /\ pc[p] \in Resting => DOMAIN goal[p] = {}

\* A project that was never imported should be where it is.
AtHome(r) == r.source = "local-only" => r.local = r.canon
Homely(t) == \A x \in DOMAIN t : AtHome(t[x])

Homes == /\ Homely(table)
         /\ \A p \in Proc : Homely(draft[p]) /\ Homely(goal[p]) /\ Homely(listed[p])

\* What scan has decided of the checkout at hand.
ScanHolds(p, x) ==
    /\ DOMAIN goal[p] = {x}
    /\ checkout[goal[p][x].local] = x
    /\ pc[p] # "relocate" => goal[p][x].alias \notin used[p]
    /\ pc[p] \in {"alias", "remote", "insert"} => x \notin DOMAIN table
    /\ pc[p] = "relocate" => /\ x \in DOMAIN table
                             /\ goal[p][x] = FoundAt(table[x], goal[p][x].local)

ScanKnows(p) ==
    /\ Aliases(table) \subseteq used[p]
    /\ \A x \in met[p] : x \in DOMAIN table /\ checkout[table[x].local] = x
    /\ \A d \in Path \ visit[p] : checkout[d] \in Remote => checkout[d] \in met[p] \cup DOMAIN goal[p]
    /\ IF pc[p] = "walk" THEN DOMAIN goal[p] = {} ELSE \E x \in Remote : ScanHolds(p, x)

HydrateHolds(p, x) ==
    /\ DOMAIN goal[p] = {x}
    /\ goal[p][x] = [table[x] EXCEPT !.local = Placement(table[x])]
    /\ pc[p] \in {"settle", "update"} => checkout[goal[p][x].local] = x

HydrateKnows(p) == listed[p] = table /\ \E x \in DOMAIN table : HydrateHolds(p, x)

ImportKnows(p) ==
    /\ listed[p] = table
    /\ pc[p] # "plan" => /\ ~Conflicting(table, want[p])
                         /\ goal[p] = Changes(table, want[p])

\* What an operation nobody has disturbed knows of the table and the tree.
Knows(p) ==
    /\ op[p] = "scan" => ScanKnows(p)
    /\ op[p] = "hydrate" => HydrateKnows(p)
    /\ op[p] = "import" => ImportKnows(p)

Informed(p) == pc[p] \notin Resting /\ p \notin noise => Knows(p)

Undisturbed == Safe /\ Homes /\ \A p \in Proc : Course(p) /\ Informed(p)

(***************************************************************************)
(* The other processes.                                                    *)
(***************************************************************************)

\* A step of p leaves another process where it was, and marks it if it changes what
\* the process has read.
Aside(p) ==
    \A q \in Proc \ {p} :
        /\ pc'[q] = pc[q] /\ op'[q] = op[q] /\ listed'[q] = listed[q]
        /\ want'[q] = want[q] /\ goal'[q] = goal[q]
        /\ visit'[q] = visit[q] /\ used'[q] = used[q] /\ met'[q] = met[q]
        /\ pc[q] \notin Resting /\ q \notin noise' =>
              q \notin noise /\ table' = table /\ checkout' = checkout

\* It knows then what it knew.
LEMMA AsideInformed ==
    ASSUME Undisturbed, NEW p \in Proc, Aside(p), NEW q \in Proc \ {p}
    PROVE  Course(q)' /\ Informed(q)'
<1>1. /\ pc'[q] = pc[q] /\ op'[q] = op[q] /\ listed'[q] = listed[q]
      /\ want'[q] = want[q] /\ goal'[q] = goal[q]
      /\ visit'[q] = visit[q] /\ used'[q] = used[q] /\ met'[q] = met[q]
  BY DEF Aside
<1>2. Course(q)'
  BY <1>1 DEF Undisturbed, Course
<1>3. ASSUME pc'[q] \notin Resting, q \notin noise'
      PROVE  Knows(q)'
  <2>1. Knows(q) /\ table' = table /\ checkout' = checkout
    BY <1>1, <1>3 DEF Aside, Undisturbed, Informed
  <2>2. ScanKnows(q) => ScanKnows(q)'
    BY <1>1, <2>1 DEF ScanKnows, ScanHolds
  <2>3. HydrateKnows(q) => HydrateKnows(q)'
    BY <1>1, <2>1 DEF HydrateKnows, HydrateHolds
  <2>4. ImportKnows(q) => ImportKnows(q)'
    <3>1. Changes(table, want[q])' = Changes(table, want[q])
      BY <1>1, <2>1 DEF Changes, Target, LocalPath
    <3>2. Conflicting(table, want[q])' <=> Conflicting(table, want[q])
      BY <1>1, <2>1 DEF Conflicting, AliasConflict, PathConflict, PathOwner, ClaimedBy
    <3> QED
      BY <1>1, <2>1, <3>1, <3>2 DEF ImportKnows
  <2> QED
    BY <1>1, <2>1, <2>2, <2>3, <2>4 DEF Knows
<1> QED
  BY <1>2, <1>3 DEF Informed

\* The locals of the others.
Behind(p) ==
    \A q \in Proc \ {p} :
        /\ pc'[q] = pc[q] /\ op'[q] = op[q] /\ listed'[q] = listed[q]
        /\ want'[q] = want[q] /\ goal'[q] = goal[q]
        /\ visit'[q] = visit[q] /\ used'[q] = used[q] /\ met'[q] = met[q]

LEMMA ReturnBehind ==
    ASSUME Typed, NEW p \in Proc, NEW label, Return(p, label)
    PROVE  Behind(p)
  BY DEF Return, Goto, Behind, Typed, TypeOK

LEMMA FailAside ==
    ASSUME Typed, NEW p \in Proc, Fail(p)
    PROVE  Aside(p)
  BY ReturnBehind DEF Fail, Behind, Aside

LEMMA PassAside ==
    ASSUME Typed, NEW p \in Proc, NEW label, Pass(p, label)
    PROVE  Aside(p)
  BY DEF Pass, Goto, Aside, db, locals, importLocals, scanLocals, Typed, TypeOK

LEMMA RecordedBehind ==
    ASSUME Typed, NEW p \in Proc, NEW x, NEW alias, Recorded(p, x, alias)
    PROVE  Behind(p)
  BY DEF Recorded, Goto, Behind, importLocals, Typed, TypeOK

LEMMA StoredBehind ==
    ASSUME Typed, NEW p \in Proc, NEW x, Stored(p, x)
    PROVE  Behind(p)
  BY ReturnBehind, RecordedBehind DEF Stored

\* Who is disturbed has no more to expect.
LEMMA DisturbAside ==
    ASSUME Typed, NEW p \in Proc, Behind(p), Disturb(p)
    PROVE  Aside(p)
  BY DEF Disturb, Behind, Aside

\* And who is not sees the table and the tree as they were.
LEMMA SameAside ==
    ASSUME NEW p \in Proc, Behind(p), table' = table, checkout' = checkout,
           noise \ {p} \subseteq noise'
    PROVE  Aside(p)
  BY DEF Behind, Aside

LEMMA BeginAside ==
    ASSUME Typed, NEW p \in Proc, BeginAdd(p) \/ BeginScan(p) \/ BeginHydrate(p) \/ BeginImport(p)
    PROVE  Aside(p)
<1>1. Behind(p)
  BY DEF BeginAdd, BeginScan, BeginHydrate, BeginImport, Begin, Goto, Behind, importLocals,
         scanLocals, Typed, TypeOK
<1>2. table' = table /\ checkout' = checkout /\ noise' = noise \ {p}
  BY DEF BeginAdd, BeginScan, BeginHydrate, BeginImport, Begin, db
<1> QED
  BY <1>1, <1>2, SameAside

LEMMA StepAside ==
    ASSUME Typed, NEW p \in Proc, Operate(p) \/ Fault(p)
    PROVE  Aside(p)
<1>1. CASE BeginAdd(p) \/ BeginScan(p) \/ BeginHydrate(p) \/ BeginImport(p)
  BY <1>1, BeginAside
<1>2. CASE CheckAlias(p) \/ CheckRemote(p) \/ Look(p)
  BY <1>2, FailAside, PassAside DEF CheckAlias, CheckRemote, Look
<1>3. CASE Insert(p)
  BY <1>3, FailAside, StoredBehind, DisturbAside DEF Insert
<1>4. CASE Walk(p)
  BY <1>4, SameAside DEF Walk, Goto, Behind, db, importLocals, Typed, TypeOK
<1>5. CASE Upsert(p)
  <2>1. PICK x \in DOMAIN goal[p] :
            \/ Pass(p, "alias")
            \/ /\ Recorded(p, x, FoundAt(table[x], goal[p][x].local).alias)
               /\ UNCHANGED <<table, checkout, bounds, noise>>
            \/ /\ goal' = [goal EXCEPT ![p] = One(x, FoundAt(table[x], goal[p][x].local))]
               /\ Goto(p, "relocate")
               /\ UNCHANGED <<op, listed, importLocals, scanLocals>>
               /\ UNCHANGED <<table, checkout, bounds, noise>>
    BY <1>5 DEF Upsert
  <2>2. CASE Pass(p, "alias")
    BY <2>2, PassAside
  <2>3. CASE /\ Recorded(p, x, FoundAt(table[x], goal[p][x].local).alias)
             /\ UNCHANGED <<table, checkout, bounds, noise>>
    BY <2>3, RecordedBehind, SameAside
  <2>4. CASE /\ goal' = [goal EXCEPT ![p] = One(x, FoundAt(table[x], goal[p][x].local))]
             /\ Goto(p, "relocate")
             /\ UNCHANGED <<op, listed, importLocals, scanLocals>>
             /\ UNCHANGED <<table, checkout, bounds, noise>>
    BY <2>4, SameAside DEF Goto, Behind, importLocals, scanLocals, Typed, TypeOK
  <2> QED
    BY <2>1, <2>2, <2>3, <2>4
<1>6. CASE Relocate(p)
  BY <1>6, RecordedBehind, DisturbAside DEF Relocate
<1>7. CASE EndScan(p)
  BY <1>7, ReturnBehind, SameAside DEF EndScan
<1>8. CASE Clone(p)
  <2>1. Fail(p) \/ (Goto(p, "settle") /\ Disturb(p) /\ UNCHANGED locals)
    BY <1>8 DEF Clone
  <2>2. CASE Goto(p, "settle") /\ Disturb(p) /\ UNCHANGED locals
    BY <2>2, DisturbAside DEF Goto, Behind, locals, importLocals, scanLocals, Typed, TypeOK
  <2> QED
    BY <2>1, <2>2, FailAside
<1>9. CASE Settle(p)
  BY <1>9, FailAside, PassAside, ReturnBehind, SameAside DEF Settle
<1>10. CASE Update(p)
  BY <1>10, FailAside, ReturnBehind, DisturbAside DEF Update
<1>11. CASE PlanImport(p)
  <2>1. \/ Fail(p)
        \/ /\ goal' = [goal EXCEPT ![p] = Changes(listed[p], want[p])]
           /\ Goto(p, "begin")
           /\ UNCHANGED <<db, checkout, op, listed, importLocals, scanLocals, noise>>
    BY <1>11 DEF PlanImport
  <2>2. CASE /\ goal' = [goal EXCEPT ![p] = Changes(listed[p], want[p])]
             /\ Goto(p, "begin")
             /\ UNCHANGED <<db, checkout, op, listed, importLocals, scanLocals, noise>>
    BY <2>2, SameAside DEF Goto, Behind, db, importLocals, scanLocals, Typed, TypeOK
  <2> QED
    BY <2>1, <2>2, FailAside
<1>12. CASE BeginTx(p)
  <2>1. \/ Return(p, "done") /\ UNCHANGED <<table, checkout, noise>>
        \/ /\ Goto(p, "free")
           /\ UNCHANGED <<table, checkout, op, listed, goal, want, scanLocals, noise>>
    BY <1>12 DEF BeginTx
  <2>2. CASE /\ Goto(p, "free")
             /\ UNCHANGED <<table, checkout, op, listed, goal, want, scanLocals, noise>>
    BY <2>2, SameAside DEF Goto, Behind, scanLocals, Typed, TypeOK
  <2> QED
    BY <2>1, <2>2, ReturnBehind, SameAside
<1>13. CASE Free(p) \/ Rewrite(p) \/ Append(p)
  <2>1. \/ Fail(p)
        \/ /\ \/ UNCHANGED pc
              \/ Goto(p, "rewrite")
              \/ Goto(p, "append")
           /\ UNCHANGED <<table, checkout, op, listed, want, goal, scanLocals, noise>>
    BY <1>13 DEF Free, Rewrite, Append, Draft, Phase, db
  <2>2. CASE /\ \/ UNCHANGED pc
                \/ Goto(p, "rewrite")
                \/ Goto(p, "append")
             /\ UNCHANGED <<table, checkout, op, listed, want, goal, scanLocals, noise>>
    BY <2>2, SameAside DEF Goto, Behind, scanLocals, Typed, TypeOK
  <2> QED
    BY <2>1, <2>2, FailAside
<1>14. CASE Commit(p)
  BY <1>14, ReturnBehind, DisturbAside DEF Commit
<1>15. CASE Busy(p) \/ Fault(p)
  BY <1>15, ReturnBehind, SameAside DEF Busy, Fault
<1> QED
  BY <1>1, <1>2, <1>3, <1>4, <1>5, <1>6, <1>7, <1>8, <1>9, <1>10, <1>11, <1>12, <1>13,
     <1>14, <1>15
  DEF Operate, AddStep, ScanStep, HydrateStep, ImportStep

(***************************************************************************)
(* Projects that were never imported are at home.                          *)
(***************************************************************************)

LEMMA NoRowsHomely == Homely(NoRows)
  BY NoRowsTyped DEF Homely

LEMMA OneHomely ==
    ASSUME NEW x, NEW r, AtHome(r)
    PROVE  Homely(One(x, r))
  BY DEF Homely, One

LEMMA WithHomely ==
    ASSUME NEW t, Homely(t), NEW x, NEW r, AtHome(r)
    PROVE  Homely(With(t, x, r))
  BY DEF Homely, With

LEMMA RenamedHome ==
    ASSUME NEW r \in Row, AtHome(r), NEW n
    PROVE  AtHome([r EXCEPT !.alias = n])
  BY DEF AtHome, Row

LEMMA FoundHome ==
    ASSUME NEW r \in Row, AtHome(r), NEW d
    PROVE  AtHome(FoundAt(r, d))
  BY DEF AtHome, FoundAt, Row

LEMMA PlacedHome ==
    ASSUME NEW r \in Row, AtHome(r)
    PROVE  AtHome([r EXCEPT !.local = Placement(r)])
  BY DEF AtHome, Placement, Row

LEMMA ChangesHomely ==
    ASSUME NEW t, NEW m
    PROVE  Homely(Changes(t, m))
  BY DEF Homely, AtHome, Changes, Target

\* What a step of p leaves, and the rest as it was.
HomesOf(p) == Homely(table') /\ Homely(draft'[p]) /\ Homely(goal'[p]) /\ Homely(listed'[p])

LEMMA ApartHomes ==
    ASSUME Homes, NEW p \in Proc, Apart(p), HomesOf(p)
    PROVE  Homes'
  BY DEF Homes, HomesOf, Apart

LEMMA ReturnHomes ==
    ASSUME Typed, Homes, NEW p \in Proc, NEW label, Return(p, label), Homely(table')
    PROVE  Homes'
<1>1. Apart(p)
  BY ReturnApart
<1>2. HomesOf(p)
  BY NoRowsHomely DEF Return, HomesOf, Typed, TypeOK
<1> QED
  BY <1>1, <1>2, ApartHomes

LEMMA FailHomes ==
    ASSUME Typed, Homes, NEW p \in Proc, Fail(p)
    PROVE  Homes'
  BY ReturnHomes DEF Fail, Homes

LEMMA PassHomes ==
    ASSUME Homes, NEW p \in Proc, NEW label, Pass(p, label)
    PROVE  Homes'
  BY DEF Pass, Homes, db, locals

LEMMA RecordedHomes ==
    ASSUME Typed, Homes, NEW p \in Proc, NEW x, NEW alias, Recorded(p, x, alias), Homely(table')
    PROVE  Homes'
<1>1. Apart(p)
  BY RecordedApart
<1>2. HomesOf(p)
  BY NoRowsHomely DEF Recorded, HomesOf, Homes, Typed, TypeOK
<1> QED
  BY <1>1, <1>2, ApartHomes

LEMMA StoredHomes ==
    ASSUME Typed, Homes, NEW p \in Proc, NEW x, Stored(p, x), Homely(table')
    PROVE  Homes'
  BY ReturnHomes, RecordedHomes DEF Stored

\* A step that gives p a new row to work on, or a new listing, and writes nothing.
LEMMA GoalHomes ==
    ASSUME Typed, Homes, NEW p \in Proc, UNCHANGED <<table, draft>>,
           NEW g, Homely(g), goal' = [goal EXCEPT ![p] = g],
           listed' = listed \/ listed' = [listed EXCEPT ![p] = table]
    PROVE  Homes'
  BY DEF Homes, Typed, TypeOK

LEMMA RowHome ==
    ASSUME Typed, NEW t \in Table, Homely(t), NEW x \in DOMAIN t
    PROVE  t[x] \in Row /\ AtHome(t[x])
  BY TableElim DEF Homely

LEMMA StepHomes ==
    ASSUME Typed, Homes, NEW p \in Proc, Operate(p) \/ Fault(p)
    PROVE  Homes'
<1>0. /\ table \in Table /\ goal[p] \in Table /\ listed[p] \in Table /\ draft[p] \in Table
      /\ Homely(table) /\ Homely(goal[p]) /\ Homely(listed[p]) /\ Homely(draft[p])
  BY DEF Homes, Typed, TypeOK
<1>1. CASE BeginAdd(p)
  <2>1. PICK d \in Path, n \in Name : goal' = [goal EXCEPT ![p] = One(checkout[d], NewRow(n, d))]
    BY <1>1 DEF BeginAdd
  <2>2. Homely(One(checkout[d], NewRow(n, d)))
    BY OneHomely DEF NewRow, AtHome
  <2> QED
    BY <1>1, <2>1, <2>2, GoalHomes DEF BeginAdd, Begin, db
<1>2. CASE CheckAlias(p) \/ CheckRemote(p) \/ Look(p)
  BY <1>2, FailHomes, PassHomes DEF CheckAlias, CheckRemote, Look
<1>3. CASE Insert(p)
  <2>1. PICK x \in DOMAIN goal[p] :
            Fail(p) \/ (table' = With(table, x, goal[p][x]) /\ Stored(p, x))
    BY <1>3 DEF Insert
  <2>2. Homely(With(table, x, goal[p][x]))
    BY <1>0, RowHome, WithHomely
  <2> QED
    BY <2>1, <2>2, FailHomes, StoredHomes
<1>4. CASE BeginScan(p)
  BY <1>4 DEF BeginScan, Begin, db, Homes
<1>5. CASE Walk(p)
  <2>1. \/ goal' = goal
        \/ \E d \in Path, n \in Name : goal' = [goal EXCEPT ![p] = One(checkout[d], NewRow(n, d))]
    BY <1>5 DEF Walk, Typed, TypeOK
  <2>2. CASE goal' = goal
    BY <1>5, <2>2 DEF Walk, db, Homes
  <2>3. ASSUME NEW d \in Path, NEW n \in Name,
               goal' = [goal EXCEPT ![p] = One(checkout[d], NewRow(n, d))]
        PROVE  Homes'
    <3>1. Homely(One(checkout[d], NewRow(n, d)))
      BY OneHomely DEF NewRow, AtHome
    <3> QED
      BY <1>5, <2>3, <3>1, GoalHomes DEF Walk, db
  <2> QED
    BY <2>1, <2>2, <2>3
<1>6. CASE Upsert(p)
  <2>1. PICK x \in DOMAIN goal[p] :
            \/ Pass(p, "alias")
            \/ /\ Recorded(p, x, FoundAt(table[x], goal[p][x].local).alias)
               /\ table' = table
            \/ /\ x \in DOMAIN table
               /\ goal' = [goal EXCEPT ![p] = One(x, FoundAt(table[x], goal[p][x].local))]
               /\ UNCHANGED <<draft, listed, table>>
    BY <1>6 DEF Upsert
  <2>2. ASSUME x \in DOMAIN table PROVE Homely(One(x, FoundAt(table[x], goal[p][x].local)))
    BY <1>0, <2>2, RowHome, FoundHome, OneHomely
  <2> QED
    BY <1>0, <2>1, <2>2, PassHomes, RecordedHomes, GoalHomes
<1>7. CASE Relocate(p)
  <2>1. PICK x \in DOMAIN goal[p] :
            /\ table' = [table EXCEPT ![x] = [goal[p][x] EXCEPT !.alias = table[x].alias]]
            /\ Recorded(p, x, goal[p][x].alias)
    BY <1>7 DEF Relocate
  <2>2. AtHome([goal[p][x] EXCEPT !.alias = table[x].alias])
    BY <1>0, RowHome, RenamedHome
  <2>3. Homely(table')
    BY <1>0, <2>1, <2>2 DEF Homely
  <2> QED
    BY <2>1, <2>3, RecordedHomes
<1>8. CASE EndScan(p)
  BY <1>0, <1>8, ReturnHomes DEF EndScan
<1>9. CASE BeginHydrate(p)
  <2>1. PICK x \in DOMAIN table :
            goal' = [goal EXCEPT ![p] = One(x, [table[x] EXCEPT !.local = Placement(table[x])])]
    BY <1>9 DEF BeginHydrate
  <2>2. Homely(One(x, [table[x] EXCEPT !.local = Placement(table[x])]))
    BY <1>0, RowHome, PlacedHome, OneHomely
  <2> QED
    BY <1>9, <2>1, <2>2, GoalHomes DEF BeginHydrate, Begin, db
<1>10. CASE Clone(p)
  <2>1. Fail(p) \/ UNCHANGED <<db, locals>>
    BY <1>10 DEF Clone
  <2> QED
    BY <2>1, FailHomes DEF db, locals, Homes
<1>11. CASE Settle(p)
  BY <1>0, <1>11, FailHomes, PassHomes, ReturnHomes DEF Settle
<1>12. CASE Update(p)
  <2>1. PICK x \in DOMAIN goal[p] :
            Fail(p) \/ (table' = With(table, x, goal[p][x]) /\ Return(p, "done"))
    BY <1>12 DEF Update
  <2>2. Homely(With(table, x, goal[p][x]))
    BY <1>0, RowHome, WithHomely
  <2> QED
    BY <2>1, <2>2, FailHomes, ReturnHomes
<1>13. CASE BeginImport(p)
  BY <1>13 DEF BeginImport, Begin, db, Homes, Typed, TypeOK
<1>14. CASE PlanImport(p)
  <2>1. Fail(p) \/ (/\ goal' = [goal EXCEPT ![p] = Changes(listed[p], want[p])]
                    /\ UNCHANGED <<table, draft, listed>>)
    BY <1>14 DEF PlanImport, db
  <2> QED
    BY <2>1, FailHomes, GoalHomes, ChangesHomely
<1>15. CASE BeginTx(p)
  <2>1. \/ Return(p, "done") /\ table' = table
        \/ draft' = [draft EXCEPT ![p] = table] /\ UNCHANGED <<table, goal, listed>>
    BY <1>15 DEF BeginTx
  <2> QED
    BY <1>0, <2>1, ReturnHomes DEF Homes, Typed, TypeOK
<1>16. ASSUME NEW x, NEW r, Draft(p, x, r), AtHome(r)
       PROVE  Homes'
  <2>1. \/ Fail(p)
        \/ draft' = [draft EXCEPT ![p] = With(@, x, r)] /\ UNCHANGED <<table, goal, listed>>
    BY <1>16 DEF Draft
  <2>2. Homely(With(draft[p], x, r))
    BY <1>0, <1>16, WithHomely
  <2> QED
    BY <2>1, <2>2, FailHomes DEF Homes, Typed, TypeOK
<1>17. CASE Free(p) \/ Rewrite(p) \/ Append(p)
  <2>1. CASE UNCHANGED <<db, listed, goal>>
    BY <2>1 DEF db, Homes
  <2>2. CASE Fail(p)
    BY <2>2, FailHomes
  <2>3. ASSUME pc[p] = "free", NEW x \in todo[p],
               Draft(p, x, [listed[p][x] EXCEPT !.alias = x])
        PROVE  Homes'
    <3>1. x \in DOMAIN listed[p]
      BY <2>3 DEF Typed, Phases, Updates
    <3> QED
      BY <1>0, <1>16, <2>3, <3>1, RowHome, RenamedHome
  <2>4. ASSUME pc[p] \in {"rewrite", "append"}, NEW x \in todo[p], Draft(p, x, goal[p][x])
        PROVE  Homes'
    <3>1. x \in DOMAIN goal[p]
      BY <2>4 DEF Typed, Phases, Updates
    <3> QED
      BY <1>0, <1>16, <2>4, <3>1, RowHome
  <2> QED
    BY <1>17, <2>1, <2>2, <2>3, <2>4 DEF Free, Rewrite, Append, Phase
<1>18. CASE Commit(p)
  BY <1>0, <1>18, ReturnHomes DEF Commit
<1>19. CASE Busy(p) \/ Fault(p)
  BY <1>0, <1>19, ReturnHomes DEF Busy, Fault
<1> QED
  BY <1>1, <1>2, <1>3, <1>4, <1>5, <1>6, <1>7, <1>8, <1>9, <1>10, <1>11, <1>12, <1>13,
     <1>14, <1>15, <1>17, <1>18, <1>19
  DEF Operate, AddStep, ScanStep, HydrateStep, ImportStep

(***************************************************************************)
(* The process that moves.                                                 *)
(***************************************************************************)

LEMMA ReturnOwn ==
    ASSUME Typed, NEW p \in Proc, NEW label \in Resting, Return(p, label)
    PROVE  Course(p)' /\ Informed(p)'
<1>1. pc'[p] \in Resting /\ DOMAIN goal'[p] = {}
  BY NoRowsTyped DEF Return, Goto, Typed, TypeOK
<1> QED
  BY <1>1 DEF Course, Informed

LEMMA FailOwn ==
    ASSUME Typed, NEW p \in Proc, Fail(p)
    PROVE  Course(p)' /\ Informed(p)'
  BY ReturnOwn DEF Fail, Resting

\* The operation that a label stands for, outside of what add and scan share.
LEMMA Whose ==
    ASSUME Undisturbed, NEW p \in Proc
    PROVE  /\ pc[p] \in {"walk", "upsert", "relocate"} => op[p] = "scan"
           /\ pc[p] \in {"alias", "remote", "insert"} => op[p] \in {"add", "scan"}
           /\ pc[p] \in HydratePC => op[p] = "hydrate"
           /\ pc[p] \in ImportPC => op[p] = "import"
<1>1. Course(p) /\ op[p] \in Op
  BY DEF Undisturbed, Safe, Typed, TypeOK
<1> QED
  BY <1>1 DEF Course, Op, Resting, ScanPC, HydratePC, ImportPC, Tx

\* The row at hand is the one the step works on.
LEMMA ScanRow ==
    ASSUME Undisturbed, NEW p \in Proc, op[p] = "scan", pc[p] \notin Resting \cup {"walk"},
           p \notin noise, NEW x \in DOMAIN goal[p]
    PROVE  ScanKnows(p) /\ ScanHolds(p, x)
<1>1. ScanKnows(p)
  BY DEF Undisturbed, Informed, Knows
<1> QED
  BY <1>1 DEF ScanKnows, ScanHolds

\* What is known on the way from row to row: the row just recorded is where its
\* checkout is.
LEMMA RecordedOwn ==
    ASSUME Undisturbed, NEW p \in Proc, NEW x \in DOMAIN goal[p], NEW n,
           op[p] = "scan", pc[p] \notin Resting \cup {"walk"}, Recorded(p, x, n),
           checkout' = checkout, p \notin noise' => p \notin noise,
           p \notin noise' =>
              /\ Aliases(table') \subseteq used[p] \cup {n}
              /\ x \in DOMAIN table' /\ checkout[table'[x].local] = x
              /\ \A y \in DOMAIN table \ {x} : y \in DOMAIN table' /\ table'[y] = table[y]
    PROVE  Course(p)' /\ Informed(p)'
<1>1. /\ pc'[p] = "walk" /\ op'[p] = "scan" /\ DOMAIN goal'[p] = {} /\ visit'[p] = visit[p]
      /\ used'[p] = used[p] \cup {n} /\ met'[p] = met[p] \cup {x}
  BY NoRowsTyped DEF Recorded, Goto, importLocals, Undisturbed, Safe, Typed, TypeOK
<1>2. Course(p)'
  BY <1>1 DEF Course, ScanPC, Resting
<1>3. ASSUME p \notin noise'
      PROVE  ScanKnows(p)'
  <2>1. ScanKnows(p) /\ DOMAIN goal[p] = {x}
    BY <1>3, ScanRow DEF ScanHolds
  <2>2. (Aliases(table) \subseteq used[p])'
    BY <1>1, <1>3
  <2>3. ASSUME NEW y \in met'[p] PROVE y \in DOMAIN table' /\ checkout'[table'[y].local] = y
    BY <1>1, <1>3, <2>1, <2>3 DEF ScanKnows
  <2>4. ASSUME NEW d \in Path \ visit'[p], checkout'[d] \in Remote
        PROVE  checkout'[d] \in met'[p]
    BY <1>1, <2>1, <2>4 DEF ScanKnows
  <2> QED
    BY <1>1, <2>2, <2>3, <2>4 DEF ScanKnows
<1> QED
  BY <1>1, <1>2, <1>3 DEF Informed, Knows

LEMMA AddOwn ==
    ASSUME Undisturbed, NEW p \in Proc, AddStep(p)
    PROVE  Course(p)' /\ Informed(p)'
<1>0. Typed
  BY DEF Undisturbed, Safe
<1>1. CASE BeginAdd(p)
  <2>1. pc'[p] = "alias" /\ op'[p] = "add"
    BY <1>0, <1>1 DEF BeginAdd, Begin, Goto, Typed, TypeOK
  <2> QED
    BY <2>1 DEF Course, Informed, Knows, Resting
<1>2. CASE CheckAlias(p)
  <2>1. PICK x \in DOMAIN goal[p] :
            IF goal[p][x].alias \in Aliases(table) THEN Fail(p) ELSE Pass(p, "remote")
    BY <1>2 DEF CheckAlias
  <2>2. CASE Fail(p)
    BY <1>0, <2>2, FailOwn
  <2>3. CASE Pass(p, "remote")
    <3>1. /\ pc'[p] = "remote" /\ op[p] \in {"add", "scan"}
          /\ UNCHANGED <<table, checkout, op, goal, visit, used, met, noise>>
      BY <1>0, <1>2, <2>3, Whose
      DEF Pass, Goto, CheckAlias, db, locals, scanLocals, Typed, TypeOK
    <3>2. ASSUME op[p] = "scan", p \notin noise PROVE ScanKnows(p)'
      <4>1. ScanKnows(p)
        BY <1>2, <3>2, ScanRow, <2>1 DEF CheckAlias, Resting
      <4> QED
        BY <1>2, <3>1, <4>1 DEF CheckAlias, ScanKnows, ScanHolds
    <3> QED
      BY <3>1, <3>2 DEF Course, Informed, Knows, ScanPC, Resting
  <2> QED
    BY <2>1, <2>2, <2>3
<1>3. CASE CheckRemote(p)
  <2>1. PICK x \in DOMAIN goal[p] :
            IF x \in DOMAIN table THEN Fail(p) ELSE Pass(p, "insert")
    BY <1>3 DEF CheckRemote
  <2>2. CASE Fail(p)
    BY <1>0, <2>2, FailOwn
  <2>3. CASE Pass(p, "insert")
    <3>1. /\ pc'[p] = "insert" /\ op[p] \in {"add", "scan"}
          /\ UNCHANGED <<table, checkout, op, goal, visit, used, met, noise>>
      BY <1>0, <1>3, <2>3, Whose
      DEF Pass, Goto, CheckRemote, db, locals, scanLocals, Typed, TypeOK
    <3>2. ASSUME op[p] = "scan", p \notin noise PROVE ScanKnows(p)'
      <4>1. ScanKnows(p)
        BY <1>3, <3>2, ScanRow, <2>1 DEF CheckRemote, Resting
      <4> QED
        BY <1>3, <3>1, <4>1 DEF CheckRemote, ScanKnows, ScanHolds
    <3> QED
      BY <3>1, <3>2 DEF Course, Informed, Knows, ScanPC, Resting
  <2> QED
    BY <2>1, <2>2, <2>3
<1>4. CASE Insert(p)
  <2>1. PICK x \in DOMAIN goal[p] :
            IF x \in DOMAIN table \/ ~AliasFree(table, x, goal[p][x].alias) THEN Fail(p)
            ELSE /\ table' = With(table, x, goal[p][x])
                 /\ Stored(p, x)
                 /\ Disturb(p)
                 /\ UNCHANGED <<checkout, bounds>>
    BY <1>4 DEF Insert
  <2>2. CASE Fail(p)
    BY <1>0, <2>2, FailOwn
  <2>3. ASSUME table' = With(table, x, goal[p][x]), Stored(p, x), Disturb(p),
               checkout' = checkout
        PROVE  Course(p)' /\ Informed(p)'
    <3>1. CASE op[p] # "scan"
      BY <1>0, <2>3, <3>1, ReturnOwn DEF Stored, Resting
    <3>2. CASE op[p] = "scan"
      <4>1. Recorded(p, x, goal[p][x].alias)
        BY <2>3, <3>2 DEF Stored
      <4>2. p \notin noise' => p \notin noise
        BY <2>3 DEF Disturb
      <4>3. /\ DOMAIN table' = DOMAIN table \cup {x} /\ table'[x] = goal[p][x]
            /\ \A y \in DOMAIN table \ {x} : table'[y] = table[y]
        <5>1. x \in Remote /\ goal[p][x] \in Row /\ table \in Table
          BY <1>0, GoalTyped DEF Typed, TypeOK
        <5>2. /\ DOMAIN With(table, x, goal[p][x]) = DOMAIN table \cup {x}
              /\ With(table, x, goal[p][x])[x] = goal[p][x]
              /\ \A y \in DOMAIN table \ {x} : With(table, x, goal[p][x])[y] = table[y]
          BY <5>1, WithTyped
        <5> QED
          BY <2>3, <5>2
      <4>4. pc[p] \notin Resting \cup {"walk"}
        BY <1>4 DEF Insert, Resting
      <4>5. ASSUME p \notin noise'
            PROVE  /\ Aliases(table') \subseteq used[p] \cup {goal[p][x].alias}
                   /\ x \in DOMAIN table' /\ checkout[table'[x].local] = x
        <5>1. ScanKnows(p) /\ ScanHolds(p, x)
          BY <3>2, <4>2, <4>4, <4>5, ScanRow
        <5> QED
          BY <4>3, <5>1 DEF ScanKnows, ScanHolds, Aliases
      <4> QED
        BY <2>3, <3>2, <4>1, <4>2, <4>3, <4>4, <4>5, RecordedOwn
    <3> QED
      BY <3>1, <3>2
  <2> QED
    BY <2>1, <2>2, <2>3
<1> QED
  BY <1>1, <1>2, <1>3, <1>4 DEF AddStep

LEMMA ScanOwn ==
    ASSUME Undisturbed, NEW p \in Proc, ScanStep(p)
    PROVE  Course(p)' /\ Informed(p)'
<1>0. Typed
  BY DEF Undisturbed, Safe
<1>1. CASE BeginScan(p)
  <2>1. /\ pc'[p] = "walk" /\ op'[p] = "scan" /\ goal' = goal /\ table' = table
        /\ visit'[p] = Path /\ used'[p] = Aliases(table) /\ met'[p] = {} /\ pc[p] \in Resting
    BY <1>0, <1>1 DEF BeginScan, Begin, Goto, db, Typed, TypeOK
  <2>2. DOMAIN goal[p] = {}
    BY <2>1 DEF Undisturbed, Course
  <2>3. Aliases(table)' = Aliases(table)
    BY <2>1
  <2> QED
    BY <2>1, <2>2, <2>3 DEF Course, Informed, Knows, ScanKnows, ScanPC, Resting
<1>2. CASE Walk(p)
  <2>0. /\ op[p] = "scan" /\ pc[p] = "walk"
        /\ UNCHANGED <<table, checkout, op, used, met, noise>>
    BY <1>2, Whose DEF Walk, db
  <2>1. PICK d \in visit[p] :
            /\ visit' = [visit EXCEPT ![p] = @ \ {d}]
            /\ IF checkout[d] \in Remote \ met[p]
               THEN /\ \E n \in Name :
                          /\ UniqueAlias(p, d, n)
                          /\ goal' = [goal EXCEPT ![p] = One(checkout[d], NewRow(n, d))]
                    /\ Goto(p, "upsert")
               ELSE UNCHANGED <<pc, goal>>
    BY <1>2 DEF Walk
  <2>2. d \in Path /\ visit'[p] = visit[p] \ {d}
    BY <1>0, <2>1 DEF Typed, TypeOK
  <2>3. ASSUME p \notin noise PROVE ScanKnows(p) /\ DOMAIN goal[p] = {}
    BY <2>0, <2>3 DEF Undisturbed, Informed, Knows, ScanKnows, Resting
  <2>4. CASE checkout[d] \in Remote \ met[p]
    <3>1. PICK n \in Name : /\ UniqueAlias(p, d, n)
                            /\ goal' = [goal EXCEPT ![p] = One(checkout[d], NewRow(n, d))]
      BY <2>1, <2>4
    <3>2. pc'[p] = "upsert" /\ goal'[p] = One(checkout[d], NewRow(n, d))
      BY <1>0, <2>1, <2>4, <3>1 DEF Goto, Typed, TypeOK
    <3>3. /\ DOMAIN goal'[p] = {checkout[d]}
          /\ goal'[p][checkout[d]].local = d /\ goal'[p][checkout[d]].alias = n
      BY <3>2 DEF One, NewRow
    <3>4. n \notin used[p]
      BY <3>1 DEF UniqueAlias
    <3>5. ASSUME p \notin noise PROVE ScanKnows(p)'
      <4>1. ScanHolds(p, checkout[d])'
        BY <2>0, <3>2, <3>3, <3>4 DEF ScanHolds
      <4> QED
        BY <2>0, <2>2, <2>3, <2>4, <3>2, <3>3, <3>5, <4>1 DEF ScanKnows
    <3> QED
      BY <2>0, <3>2, <3>5 DEF Course, Informed, Knows, ScanPC, Resting
  <2>5. CASE checkout[d] \notin Remote \ met[p]
    <3>1. pc' = pc /\ goal' = goal
      BY <2>1, <2>5
    <3>2. ASSUME p \notin noise PROVE ScanKnows(p)'
      BY <2>0, <2>2, <2>3, <2>5, <3>1, <3>2 DEF ScanKnows
    <3> QED
      BY <2>0, <3>1, <3>2 DEF Course, Informed, Knows, ScanPC, Resting
  <2> QED
    BY <2>4, <2>5
<1>3. CASE Upsert(p)
  <2>0. op[p] = "scan" /\ pc[p] = "upsert" /\ pc[p] \notin Resting \cup {"walk"}
    BY <1>3, Whose DEF Upsert, Resting
  <2>1. PICK x \in DOMAIN goal[p] :
            IF x \notin DOMAIN table THEN Pass(p, "alias")
            ELSE LET found == FoundAt(table[x], goal[p][x].local)
                 IN  /\ IF found = table[x] THEN Recorded(p, x, found.alias)
                        ELSE /\ goal' = [goal EXCEPT ![p] = One(x, found)]
                             /\ Goto(p, "relocate")
                             /\ UNCHANGED <<holding, wrote, draft, op, listed, importLocals, scanLocals>>
                     /\ UNCHANGED <<table, checkout, bounds, noise>>
    BY <1>3 DEF Upsert
  <2>2. ASSUME p \notin noise PROVE ScanKnows(p) /\ ScanHolds(p, x)
    BY <2>0, <2>2, ScanRow
  <2>3. CASE x \notin DOMAIN table
    <3>1. /\ pc'[p] = "alias"
          /\ UNCHANGED <<table, checkout, op, goal, visit, used, met, noise>>
      BY <1>0, <2>1, <2>3 DEF Pass, Goto, db, locals, scanLocals, Typed, TypeOK
    <3>2. ASSUME p \notin noise PROVE ScanKnows(p)'
      <4>1. ScanHolds(p, x)'
        BY <2>0, <2>2, <2>3, <3>1, <3>2 DEF ScanHolds
      <4> QED
        BY <1>0, <2>0, <2>2, <3>1, <3>2, <4>1, GoalTyped DEF ScanKnows
    <3> QED
      BY <2>0, <3>1, <3>2 DEF Course, Informed, Knows, ScanPC, Resting
  <2>4. ASSUME x \in DOMAIN table
        PROVE  Course(p)' /\ Informed(p)'
    <3> DEFINE found == FoundAt(table[x], goal[p][x].local)
    <3>0. /\ x \in Remote /\ table[x] \in Row /\ goal[p][x].local \in Path
          /\ found.alias = table[x].alias /\ found.local = goal[p][x].local
      BY <1>0, <2>4, GoalTyped, TableElim DEF FoundAt, Row, Typed, TypeOK
    <3>1. CASE found = table[x]
      <4>1. Recorded(p, x, found.alias) /\ UNCHANGED <<table, checkout, noise>>
        BY <2>1, <2>4, <3>1
      <4>2. ASSUME p \notin noise'
            PROVE  /\ Aliases(table') \subseteq used[p] \cup {found.alias}
                   /\ x \in DOMAIN table' /\ checkout[table'[x].local] = x
        BY <2>2, <2>4, <3>0, <3>1, <4>1, <4>2 DEF ScanKnows, ScanHolds
      <4> HIDE DEF found
      <4> QED
        BY <2>0, <2>4, <4>1, <4>2, RecordedOwn
    <3>2. CASE found # table[x]
      <4>1. /\ goal' = [goal EXCEPT ![p] = One(x, found)]
            /\ Goto(p, "relocate")
            /\ UNCHANGED <<op, scanLocals, table, checkout, noise>>
        BY <2>1, <2>4, <3>2
      <4>2. /\ pc'[p] = "relocate" /\ goal'[p] = One(x, found)
            /\ UNCHANGED <<op, visit, used, met, table, checkout, noise>>
        BY <1>0, <4>1 DEF Goto, scanLocals, Typed, TypeOK
      <4>3. DOMAIN goal'[p] = {x} /\ goal'[p][x] = found
        BY <4>2 DEF One
      <4>4. ASSUME p \notin noise PROVE ScanKnows(p)'
        <5>1. ScanHolds(p, x)'
          BY <2>2, <2>4, <3>0, <4>2, <4>3, <4>4 DEF ScanHolds
        <5> QED
          BY <2>0, <2>2, <3>0, <4>2, <4>3, <4>4, <5>1 DEF ScanKnows, ScanHolds
      <4> QED
        BY <2>0, <4>2, <4>4 DEF Course, Informed, Knows, ScanPC, Resting
    <3> QED
      BY <3>1, <3>2
  <2> QED
    BY <2>3, <2>4
<1>4. CASE Relocate(p)
  <2>0. /\ op[p] = "scan" /\ pc[p] = "relocate" /\ pc[p] \notin Resting \cup {"walk"}
        /\ checkout' = checkout /\ Disturb(p)
    BY <1>4, Whose DEF Relocate, Resting
  <2>1. PICK x \in DOMAIN goal[p] :
            /\ table' = [table EXCEPT ![x] = [goal[p][x] EXCEPT !.alias = table[x].alias]]
            /\ Recorded(p, x, goal[p][x].alias)
    BY <1>4 DEF Relocate
  <2>2. p \notin noise' => p \notin noise
    BY <2>0 DEF Disturb
  <2>3. /\ DOMAIN table' = DOMAIN table /\ goal[p][x] \in Row
        /\ \A y \in DOMAIN table : table[y] \in Row
        /\ \A y \in DOMAIN table \ {x} : table'[y] = table[y]
    BY <1>0, <2>1, GoalTyped, TableElim DEF Typed, TypeOK
  <2>4. ASSUME p \notin noise'
        PROVE  /\ Aliases(table') \subseteq used[p] \cup {goal[p][x].alias}
               /\ x \in DOMAIN table' /\ checkout[table'[x].local] = x
    <3>1. ScanKnows(p) /\ ScanHolds(p, x)
      BY <2>0, <2>2, <2>4, ScanRow
    <3>2. x \in DOMAIN table /\ checkout[goal[p][x].local] = x
      BY <2>0, <3>1 DEF ScanHolds
    <3>3. table'[x] = [goal[p][x] EXCEPT !.alias = table[x].alias]
      BY <1>0, <2>1, <3>2, TableElim DEF Typed, TypeOK
    <3>4. table'[x].alias = table[x].alias /\ table'[x].local = goal[p][x].local
      BY <2>3, <3>3 DEF Row
    <3>5. ASSUME NEW y \in DOMAIN table' PROVE table'[y].alias \in used[p]
      <4>1. table'[y].alias = table[y].alias /\ y \in DOMAIN table
        BY <2>3, <3>4, <3>5
      <4> QED
        BY <3>1, <4>1 DEF ScanKnows, Aliases
    <3> QED
      BY <2>3, <3>2, <3>4, <3>5 DEF Aliases
  <2> QED
    BY <2>0, <2>1, <2>2, <2>3, <2>4, RecordedOwn
<1>5. CASE EndScan(p)
  BY <1>0, <1>5, ReturnOwn DEF EndScan, Resting
<1> QED
  BY <1>1, <1>2, <1>3, <1>4, <1>5 DEF ScanStep

LEMMA HydrateOwn ==
    ASSUME Undisturbed, NEW p \in Proc, HydrateStep(p)
    PROVE  Course(p)' /\ Informed(p)'
<1>0. Typed
  BY DEF Undisturbed, Safe
<1>1. CASE BeginHydrate(p)
  <2>1. PICK x \in DOMAIN table :
            goal' = [goal EXCEPT ![p] = One(x, [table[x] EXCEPT !.local = Placement(table[x])])]
    BY <1>1 DEF BeginHydrate
  <2>2. /\ pc'[p] = "look" /\ op'[p] = "hydrate" /\ table' = table /\ listed'[p] = table
        /\ goal'[p] = One(x, [table[x] EXCEPT !.local = Placement(table[x])])
    BY <1>0, <1>1, <2>1 DEF BeginHydrate, Begin, Goto, db, Typed, TypeOK
  <2>3. HydrateHolds(p, x)'
    BY <2>2 DEF HydrateHolds, One
  <2> QED
    BY <2>2, <2>3 DEF Course, Informed, Knows, HydrateKnows, HydratePC, Resting
<1>2. ASSUME pc[p] \in HydratePC
      PROVE  /\ op[p] = "hydrate"
             /\ p \notin noise => HydrateKnows(p) /\ \A x \in DOMAIN goal[p] : HydrateHolds(p, x)
  <2>1. op[p] = "hydrate" /\ pc[p] \notin Resting
    BY <1>2, Whose DEF HydratePC, Resting
  <2> QED
    BY <2>1 DEF Undisturbed, Informed, Knows, HydrateKnows, HydrateHolds
<1>3. ASSUME NEW label \in {"clone", "settle", "update"}, Goto(p, label), pc[p] \in HydratePC,
             table' = table, UNCHANGED locals, p \notin noise' => p \notin noise,
             NEW x \in DOMAIN goal[p],
             p \notin noise' /\ label \in {"settle", "update"} => checkout'[goal[p][x].local] = x
      PROVE  Course(p)' /\ Informed(p)'
  <2>1. pc'[p] = label /\ op' = op /\ goal' = goal /\ listed' = listed
    BY <1>0, <1>3 DEF Goto, locals, Typed, TypeOK
  <2>2. ASSUME p \notin noise' PROVE HydrateKnows(p)'
    <3>1. HydrateKnows(p) /\ HydrateHolds(p, x)
      BY <1>2, <1>3, <2>2
    <3>2. HydrateHolds(p, x)'
      BY <1>3, <2>1, <2>2, <3>1 DEF HydrateHolds
    <3>3. x \in DOMAIN table /\ listed[p] = table
      BY <3>1 DEF HydrateKnows, HydrateHolds
    <3> QED
      BY <1>3, <2>1, <3>2, <3>3 DEF HydrateKnows
  <2> QED
    BY <1>2, <1>3, <2>1, <2>2 DEF Course, Informed, Knows, HydratePC, Resting
<1>4. CASE Look(p)
  <2>1. PICK x \in DOMAIN goal[p] :
            LET there == checkout[goal[p][x].local]
            IN  CASE there = x               -> Pass(p, "settle")
                  [] there = NoRemote        -> Pass(p, "clone")
                  [] there \notin {x, NoRemote} -> Fail(p)
    BY <1>4 DEF Look
  <2>2. x # NoRemote /\ pc[p] \in HydratePC
    BY <1>0, <1>4, GoalTyped, RemoteAssumption DEF Look, HydratePC
  <2>3. CASE checkout[goal[p][x].local] = x
    <3>1. Pass(p, "settle")
      BY <2>1, <2>2, <2>3
    <3> QED
      BY <1>3, <2>2, <2>3, <3>1 DEF Pass, db
  <2>4. CASE checkout[goal[p][x].local] = NoRemote
    <3>1. Pass(p, "clone")
      BY <2>1, <2>2, <2>4
    <3> QED
      BY <1>3, <2>2, <3>1 DEF Pass, db
  <2>5. CASE checkout[goal[p][x].local] \notin {x, NoRemote}
    <3>1. Fail(p)
      BY <2>1, <2>5
    <3> QED
      BY <1>0, <3>1, FailOwn
  <2> QED
    BY <2>3, <2>4, <2>5
<1>5. CASE Clone(p)
  <2>1. PICK x \in DOMAIN goal[p] :
            IF checkout[goal[p][x].local] # NoRemote THEN Fail(p)
            ELSE /\ checkout' = [checkout EXCEPT ![goal[p][x].local] = x]
                 /\ Goto(p, "settle")
                 /\ Disturb(p)
                 /\ UNCHANGED <<db, locals, bounds>>
    BY <1>5 DEF Clone
  <2>2. CASE Fail(p)
    BY <1>0, <2>2, FailOwn
  <2>3. ASSUME checkout' = [checkout EXCEPT ![goal[p][x].local] = x], Goto(p, "settle"),
               Disturb(p), UNCHANGED <<db, locals>>
        PROVE  Course(p)' /\ Informed(p)'
    <3>1. checkout'[goal[p][x].local] = x
      BY <1>0, <2>3, GoalTyped DEF Typed, TypeOK
    <3>2. pc[p] \in HydratePC
      BY <1>5 DEF Clone, HydratePC
    <3> QED
      BY <1>3, <2>3, <3>1, <3>2 DEF Disturb, db
  <2> QED
    BY <2>1, <2>2, <2>3
<1>6. CASE Settle(p)
  <2>1. PICK x \in DOMAIN goal[p] :
            \/ Return(p, "done")
            \/ Fail(p)
            \/ Pass(p, "update")
    BY <1>6 DEF Settle
  <2>2. CASE Pass(p, "update")
    <3>1. pc[p] \in HydratePC /\ pc[p] = "settle"
      BY <1>6 DEF Settle, HydratePC
    <3>2. p \notin noise => checkout[goal[p][x].local] = x
      BY <1>2, <3>1 DEF HydrateHolds
    <3> QED
      BY <1>3, <2>2, <3>1, <3>2 DEF Pass, db
  <2> QED
    BY <1>0, <2>1, <2>2, FailOwn, ReturnOwn DEF Resting
<1>7. CASE Update(p)
  <2>1. Fail(p) \/ Return(p, "done")
    BY <1>7 DEF Update
  <2> QED
    BY <1>0, <2>1, FailOwn, ReturnOwn DEF Resting
<1> QED
  BY <1>1, <1>4, <1>5, <1>6, <1>7 DEF HydrateStep

LEMMA ImportOwn ==
    ASSUME Undisturbed, NEW p \in Proc, ImportStep(p)
    PROVE  Course(p)' /\ Informed(p)'
<1>0. Typed
  BY DEF Undisturbed, Safe
<1>1. CASE BeginImport(p)
  <2>1. pc'[p] = "plan" /\ op'[p] = "import" /\ table' = table /\ listed'[p] = table
    BY <1>0, <1>1 DEF BeginImport, Begin, Goto, db, Typed, TypeOK
  <2> QED
    BY <2>1 DEF Course, Informed, Knows, ImportKnows, ImportPC, Resting
<1>2. ASSUME pc[p] \in ImportPC
      PROVE  op[p] = "import" /\ (p \notin noise => ImportKnows(p))
  <2>1. op[p] = "import" /\ pc[p] \notin Resting
    BY <1>2, Whose DEF ImportPC, Tx, Resting
  <2> QED
    BY <2>1 DEF Undisturbed, Informed, Knows
<1>3. CASE PlanImport(p)
  <2>0. pc[p] = "plan" /\ pc[p] \in ImportPC
    BY <1>3 DEF PlanImport, ImportPC
  <2>1. CASE Conflicting(listed[p], want[p])
    BY <1>0, <1>3, <2>1, FailOwn DEF PlanImport
  <2>2. CASE ~Conflicting(listed[p], want[p])
    <3>1. /\ goal' = [goal EXCEPT ![p] = Changes(listed[p], want[p])]
          /\ Goto(p, "begin")
          /\ UNCHANGED <<db, checkout, op, listed, importLocals, noise>>
      BY <1>3, <2>2 DEF PlanImport
    <3>2. /\ pc'[p] = "begin" /\ goal'[p] = Changes(listed[p], want[p])
          /\ UNCHANGED <<table, checkout, op, listed, want, noise>>
      BY <1>0, <3>1 DEF Goto, db, importLocals, Typed, TypeOK
    <3>3. /\ Changes(table, want[p])' = Changes(table, want[p])
          /\ Conflicting(table, want[p])' <=> Conflicting(table, want[p])
      BY <3>2 DEF Changes, Target, LocalPath, Conflicting, AliasConflict, PathConflict,
                  PathOwner, ClaimedBy
    <3>4. ASSUME p \notin noise PROVE ImportKnows(p)'
      <4>1. listed[p] = table
        BY <1>2, <2>0, <3>4 DEF ImportKnows
      <4> QED
        BY <2>2, <3>2, <3>3, <4>1 DEF ImportKnows
    <3> QED
      BY <1>2, <2>0, <3>2, <3>4 DEF Course, Informed, Knows, ImportPC, Resting
  <2> QED
    BY <2>1, <2>2
<1>4. ASSUME pc[p] \in ImportPC \ {"plan"}, pc'[p] \in Tx,
             UNCHANGED <<table, checkout, op, listed, goal, want, noise>>
      PROVE  Course(p)' /\ Informed(p)'
  <2>1. op[p] = "import" /\ (p \notin noise => ImportKnows(p))
    BY <1>2, <1>4
  <2>2. /\ Changes(table, want[p])' = Changes(table, want[p])
        /\ Conflicting(table, want[p])' <=> Conflicting(table, want[p])
    BY <1>4 DEF Changes, Target, LocalPath, Conflicting, AliasConflict, PathConflict,
                PathOwner, ClaimedBy
  <2>3. pc'[p] \notin Resting
    BY <1>4 DEF Tx, Resting
  <2>4. ASSUME p \notin noise PROVE ImportKnows(p)'
    BY <1>4, <2>1, <2>2, <2>4 DEF ImportKnows
  <2> QED
    BY <1>4, <2>1, <2>3, <2>4 DEF Course, Informed, Knows, ImportPC
<1>5. CASE BeginTx(p)
  <2>1. \/ Return(p, "done")
        \/ /\ Goto(p, "free")
           /\ UNCHANGED <<table, checkout, op, listed, goal, want, noise>>
    BY <1>5 DEF BeginTx
  <2>2. pc[p] \in ImportPC \ {"plan"}
    BY <1>5 DEF BeginTx, ImportPC
  <2>3. CASE /\ Goto(p, "free")
             /\ UNCHANGED <<table, checkout, op, listed, goal, want, noise>>
    <3>1. pc'[p] \in Tx
      BY <1>0, <2>3 DEF Goto, Tx, Typed, TypeOK
    <3> QED
      BY <1>4, <2>2, <2>3, <3>1
  <2> QED
    BY <1>0, <2>1, <2>3, ReturnOwn DEF Resting
<1>6. CASE Free(p) \/ Rewrite(p) \/ Append(p)
  <2>1. \/ Fail(p)
        \/ /\ UNCHANGED pc \/ Goto(p, "rewrite") \/ Goto(p, "append")
           /\ UNCHANGED <<table, checkout, op, listed, goal, want, noise>>
    BY <1>6 DEF Free, Rewrite, Append, Draft, Phase, db
  <2>2. pc[p] \in Tx /\ pc[p] \in ImportPC \ {"plan"}
    BY <1>6 DEF Free, Rewrite, Append, Phase, Tx, ImportPC
  <2>3. CASE /\ UNCHANGED pc \/ Goto(p, "rewrite") \/ Goto(p, "append")
             /\ UNCHANGED <<table, checkout, op, listed, goal, want, noise>>
    <3>1. pc'[p] \in Tx
      BY <1>0, <2>2, <2>3 DEF Goto, Tx, Typed, TypeOK
    <3> QED
      BY <1>4, <2>2, <2>3, <3>1
  <2> QED
    BY <1>0, <2>1, <2>3, FailOwn
<1>7. CASE Commit(p)
  BY <1>0, <1>7, ReturnOwn DEF Commit, Resting
<1> QED
  BY <1>1, <1>3, <1>5, <1>6, <1>7 DEF ImportStep

LEMMA InitUndisturbed == Init => Undisturbed
<1> SUFFICES ASSUME Init PROVE Undisturbed
  OBVIOUS
<1>1. Homes
  BY NoRowsHomely DEF Init, Homes
<1>2. ASSUME NEW p \in Proc PROVE Course(p) /\ Informed(p)
  BY NoRowsTyped DEF Init, Course, Informed, Resting
<1> QED
  BY <1>1, <1>2, InitSafe DEF Undisturbed

LEMMA NextUndisturbed == Undisturbed /\ [Next]_vars => Undisturbed'
<1> SUFFICES ASSUME Undisturbed, [Next]_vars PROVE Undisturbed'
  OBVIOUS
<1>0. Safe' /\ Typed /\ Homes
  BY NextSafe DEF Undisturbed, Safe
<1>1. CASE User \/ UNCHANGED vars
  <2>1. UNCHANGED <<db, pc, locals>>
    BY <1>1 DEF User, vars
  <2>2. Homes'
    BY <1>0, <2>1 DEF Homes, db, locals
  <2>3. ASSUME NEW q \in Proc PROVE Course(q)' /\ Informed(q)'
    <3>1. Course(q)'
      BY <2>1 DEF Undisturbed, Course, locals
    <3>2. CASE UNCHANGED vars
      <4>1. UNCHANGED <<checkout, noise>>
        BY <3>2 DEF vars
      <4> QED
        BY <2>1, <3>1, <4>1
        DEF Undisturbed, Informed, Knows, ScanKnows, ScanHolds, HydrateKnows, HydrateHolds,
            ImportKnows, Changes, Target, LocalPath, Conflicting, AliasConflict, PathConflict,
            PathOwner, ClaimedBy, db, locals, importLocals, scanLocals
    <3>3. CASE User
      <4>1. pc'[q] = pc[q] /\ (pc[q] \notin Resting => q \in noise')
        BY <3>3 DEF User
      <4> QED
        BY <3>1, <4>1 DEF Informed
    <3> QED
      BY <1>1, <3>2, <3>3
  <2> QED
    BY <1>0, <2>2, <2>3 DEF Undisturbed
<1>2. ASSUME NEW p \in Proc, Operate(p) \/ Fault(p) PROVE Undisturbed'
  <2>1. Homes'
    BY <1>0, <1>2, StepHomes
  <2>2. ASSUME NEW q \in Proc \ {p} PROVE Course(q)' /\ Informed(q)'
    BY <1>0, <1>2, StepAside, AsideInformed
  <2>3. Course(p)' /\ Informed(p)'
    <3>1. CASE Busy(p) \/ Fault(p)
      BY <1>0, <3>1, ReturnOwn DEF Busy, Fault, Resting
    <3> QED
      BY <1>2, <3>1, AddOwn, ScanOwn, HydrateOwn, ImportOwn DEF Operate
  <2> QED
    BY <1>0, <2>1, <2>2, <2>3 DEF Undisturbed
<1> QED
  BY <1>1, <1>2 DEF Next

(***************************************************************************)
(* The theorems.                                                           *)
(***************************************************************************)

\* Who failed was not at rest, and is marked: scan's own checks find nothing.
LEMMA FailsDisturbed ==
    ASSUME Undisturbed, NEW p \in Proc, Operate(p) \/ Fault(p),
           op[p] = "scan", pc[p] \notin Resting, pc'[p] = "failed"
    PROVE  p \in noise'
<1>0. Typed /\ Course(p)
  BY DEF Undisturbed, Safe
<1>1. pc[p] \in ScanPC
  BY <1>0 DEF Course
<1>2. CASE Busy(p) \/ Fault(p)
  BY <1>2 DEF Busy, Fault
<1>3. CASE CheckAlias(p) \/ CheckRemote(p) \/ Insert(p)
  <2>1. PICK x \in DOMAIN goal[p] :
            \/ /\ pc[p] \in {"alias", "remote", "insert"} /\ noise' = noise
               /\ x \in DOMAIN table \/ goal[p][x].alias \in Aliases(table)
            \/ \E label \in PC \ {"failed"} : Goto(p, label)
    <3>1. CASE CheckAlias(p)
      BY <3>1 DEF CheckAlias, Fail, Pass, PC
    <3>2. CASE CheckRemote(p)
      BY <3>2 DEF CheckRemote, Fail, Pass, PC
    <3>3. CASE Insert(p)
      <4>1. PICK x \in DOMAIN goal[p] :
                IF x \in DOMAIN table \/ ~AliasFree(table, x, goal[p][x].alias) THEN Fail(p)
                ELSE Stored(p, x)
        BY <3>3 DEF Insert
      <4>2. ~AliasFree(table, x, goal[p][x].alias) => goal[p][x].alias \in Aliases(table)
        BY DEF AliasFree, Aliases
      <4> QED
        BY <3>3, <4>1, <4>2 DEF Insert, Fail, Stored, Recorded, Return, PC, Resting
    <3> QED
      BY <1>3, <3>1, <3>2, <3>3
  <2>2. CASE \E label \in PC \ {"failed"} : Goto(p, label)
    BY <1>0, <2>2 DEF Goto, Typed, TypeOK
  <2>3. ASSUME p \notin noise'
        PROVE  \/ x \notin DOMAIN table /\ goal[p][x].alias \notin Aliases(table)
               \/ \E label \in PC \ {"failed"} : Goto(p, label)
    <3>1. CASE noise' = noise /\ pc[p] \in {"alias", "remote", "insert"}
      <4>1. ScanKnows(p) /\ ScanHolds(p, x)
        BY <2>3, <3>1, ScanRow DEF Resting
      <4> QED
        BY <3>1, <4>1 DEF ScanKnows, ScanHolds
    <3> QED
      BY <2>1, <3>1
  <2> QED
    BY <2>1, <2>2, <2>3
<1>4. CASE Walk(p) \/ Upsert(p) \/ Relocate(p) \/ EndScan(p)
  <2>1. UNCHANGED pc \/ \E label \in PC \ {"failed"} : Goto(p, label)
    BY <1>4
    DEF Walk, Upsert, Relocate, EndScan, Pass, Recorded, Return, PC, Resting
  <2> QED
    BY <1>0, <1>1, <2>1 DEF Goto, Resting, Typed, TypeOK
<1> QED
  BY <1>1, <1>2, <1>3, <1>4
  DEF ScanPC, Operate, AddStep, ScanStep, HydrateStep, ImportStep, BeginAdd, BeginScan,
      BeginHydrate, BeginImport, Begin, Look, Clone, Settle, Update, PlanImport, BeginTx,
      Free, Rewrite, Append, Commit, Phase, Resting

\* Only its own steps take a process elsewhere; a step of another one, or the user's,
\* marks it or leaves the table as it was.
LEMMA OwnStep ==
    ASSUME Undisturbed, Next, NEW p \in Proc, pc[p] \notin Resting
    PROVE  \/ Operate(p) \/ Fault(p)
           \/ pc'[p] = pc[p] /\ (p \notin noise' => table' = table)
<1>0. Typed
  BY DEF Undisturbed, Safe
<1>1. CASE User
  BY <1>1 DEF User, db
<1>2. ASSUME NEW q \in Proc, Operate(q) \/ Fault(q), q # p
      PROVE  pc'[p] = pc[p] /\ (p \notin noise' => table' = table)
  <2>1. Aside(q)
    BY <1>0, <1>2, StepAside
  <2> QED
    BY <1>2, <2>1 DEF Aside
<1> QED
  BY <1>1, <1>2 DEF Next

\* A scan that nobody disturbs never fails over an alias or a remote: every check it
\* makes in the statements of AddProject it has answered before, from the aliases listed
\* at its start and those it gave out.
THEOREM ScanNeverFails == Spec => ScanSucceeds
<1>1. ASSUME Undisturbed, Next, NEW p \in Proc,
             op[p] = "scan", pc[p] \notin Resting, pc'[p] = "failed"
      PROVE  p \in noise'
  <2>1. pc[p] # "failed"
    BY <1>1 DEF Resting
  <2> QED
    BY <1>1, <2>1, OwnStep, FailsDisturbed
<1>2. Undisturbed /\ [Next]_vars
        => [\A p \in Proc : op[p] = "scan" /\ pc[p] \notin Resting /\ pc'[p] = "failed"
               => p \in noise']_vars
  BY <1>1
<1> QED
  BY <1>2, InitUndisturbed, NextUndisturbed, PTL DEF Spec, ScanSucceeds

\* What scan writes keeps the layout of imported projects.
LEMMA ScanKeeps ==
    ASSUME Undisturbed, NEW p \in Proc, Operate(p) \/ Fault(p),
           op[p] = "scan", pc[p] \notin Resting, p \notin noise',
           NEW x \in DOMAIN table, table[x].source = "canonical"
    PROVE  table'[x].source = "canonical" /\ table'[x].canon = table[x].canon
<1>0. Typed /\ Course(p)
  BY DEF Undisturbed, Safe
<1>1. pc[p] \in ScanPC
  BY <1>0 DEF Course
<1>2. CASE Insert(p)
  <2>1. PICK y \in DOMAIN goal[p] :
            \/ table' = table
            \/ y \notin DOMAIN table /\ table' = With(table, y, goal[p][y])
    BY <1>2 DEF Insert, Fail
  <2> QED
    BY <2>1 DEF With
<1>3. CASE Relocate(p)
  <2>1. PICK y \in DOMAIN goal[p] :
            table' = [table EXCEPT ![y] = [goal[p][y] EXCEPT !.alias = table[y].alias]]
    BY <1>3 DEF Relocate
  <2>2. ScanHolds(p, y)
    <3>1. p \notin noise /\ pc[p] \notin Resting \cup {"walk"}
      BY <1>3 DEF Relocate, Disturb, Resting
    <3> QED
      BY <3>1, ScanRow
  <2>3. /\ y \in DOMAIN table /\ goal[p][y] \in Row /\ table[y] \in Row
        /\ goal[p][y] = FoundAt(table[y], goal[p][y].local)
    BY <1>0, <1>3, <2>2, GoalTyped, TableElim DEF ScanHolds, Relocate, Typed, TypeOK
  <2>4. CASE x = y
    <3>1. table'[x] = [goal[p][y] EXCEPT !.alias = table[y].alias]
      BY <1>0, <2>1, <2>3, <2>4, TableElim DEF Typed, TypeOK
    <3>2. table'[x].source = goal[p][y].source /\ table'[x].canon = goal[p][y].canon
      BY <2>3, <3>1 DEF Row
    <3> DEFINE r == table[y]
               d == goal[p][y].local
    <3>3. FoundAt(r, d).source = "canonical" /\ FoundAt(r, d).canon = r.canon
      BY <2>3, <2>4 DEF FoundAt, Row
    <3> QED
      BY <2>3, <2>4, <3>2, <3>3
  <2>5. CASE x # y
    BY <1>0, <2>1, <2>5, TableElim DEF Typed, TypeOK
  <2> QED
    BY <2>4, <2>5
<1>4. CASE ~Insert(p) /\ ~Relocate(p)
  <2>1. table' = table
    BY <1>1, <1>4
    DEF ScanPC, Operate, AddStep, ScanStep, HydrateStep, ImportStep, BeginAdd, BeginScan,
        BeginHydrate, BeginImport, Begin, CheckAlias, CheckRemote, Walk, Upsert, EndScan,
        Look, Clone, Settle, Update, PlanImport, BeginTx, Free, Rewrite, Append, Commit,
        Phase, Busy, Fault, Fail, Pass, db, Resting
  <2> QED
    BY <2>1
<1> QED
  BY <1>2, <1>3, <1>4

\* Scan has been everywhere when it ends, and every checkout it met is registered where
\* it was, or somewhere else where it is.
LEMMA ScanEnds ==
    ASSUME Undisturbed, NEW p \in Proc, Operate(p) \/ Fault(p),
           op[p] = "scan", pc[p] \notin Resting, p \notin noise', pc'[p] = "done",
           NEW d \in Path, checkout[d] \in Remote
    PROVE  checkout[d] \in DOMAIN table /\ checkout[table[checkout[d]].local] = checkout[d]
<1>0. Typed /\ Course(p)
  BY DEF Undisturbed, Safe
<1>1. pc[p] \in ScanPC
  BY <1>0 DEF Course
<1>2. CASE EndScan(p)
  <2>1. pc[p] = "walk" /\ visit[p] = {} /\ p \notin noise
    BY <1>2 DEF EndScan
  <2>2. ScanKnows(p) /\ DOMAIN goal[p] = {}
    BY <2>1 DEF Undisturbed, Informed, Knows, ScanKnows, Resting
  <2>3. checkout[d] \in met[p]
    BY <2>1, <2>2 DEF ScanKnows
  <2> QED
    BY <2>2, <2>3 DEF ScanKnows
<1>3. CASE ~EndScan(p)
  <2>1. UNCHANGED pc \/ \E label \in PC \ {"done"} : Goto(p, label)
    <3>1. CASE Insert(p)
      BY <3>1 DEF Insert, Fail, Stored, Recorded, Return, PC, Resting
    <3>2. CASE CheckAlias(p) \/ CheckRemote(p) \/ Walk(p) \/ Upsert(p) \/ Relocate(p)
      BY <3>2 DEF CheckAlias, CheckRemote, Walk, Upsert, Relocate, Fail, Pass, Recorded, Return,
                  PC, Resting
    <3>3. CASE Busy(p) \/ Fault(p)
      BY <3>3 DEF Busy, Fault, Return, PC, Resting
    <3> QED
      BY <1>1, <1>3, <3>1, <3>2, <3>3
      DEF ScanPC, Operate, AddStep, ScanStep, HydrateStep, ImportStep, BeginAdd, BeginScan,
          BeginHydrate, BeginImport, Begin, Look, Clone, Settle, Update, PlanImport, BeginTx,
          Free, Rewrite, Append, Commit, Phase, Resting
  <2> QED
    BY <1>0, <1>1, <2>1 DEF Goto, ScanPC, Typed, TypeOK
<1> QED
  BY <1>2, <1>3

\* An undisturbed scan leaves imported projects their layout, although it writes whole
\* rows, and registers every checkout at a place where it is.
THEOREM ScanFindsAll == Spec => ScanFinds
<1> DEFINE Found(p) ==
        /\ \A x \in DOMAIN table : table[x].source = "canonical" =>
              table'[x].source = "canonical" /\ table'[x].canon = table[x].canon
        /\ pc'[p] = "done" =>
              \A d \in Path : checkout[d] \in Remote =>
                  checkout[d] \in DOMAIN table /\ checkout[table[checkout[d]].local] = checkout[d]
<1>1. ASSUME Undisturbed, Next, NEW p \in Proc,
             op[p] = "scan", pc[p] \notin Resting, p \notin noise'
      PROVE  Found(p)
  <2>1. CASE Operate(p) \/ Fault(p)
    BY <1>1, <2>1, ScanKeeps, ScanEnds
  <2>2. CASE pc'[p] = pc[p] /\ table' = table
    BY <1>1, <2>2 DEF Resting
  <2> QED
    BY <1>1, <2>1, <2>2, OwnStep
<1>2. Undisturbed /\ [Next]_vars
        => [\A p \in Proc : op[p] = "scan" /\ pc[p] \notin Resting /\ p \notin noise' => Found(p)]_vars
  BY <1>1
<1> QED
  BY <1>2, InitUndisturbed, NextUndisturbed, PTL DEF Spec, ScanFinds

LEMMA HydrateEnds ==
    ASSUME Undisturbed, NEW p \in Proc, Operate(p) \/ Fault(p),
           op[p] = "hydrate", pc[p] \notin Resting, p \notin noise, pc'[p] = "done",
           NEW x \in DOMAIN goal[p]
    PROVE  table'[x].local = table'[x].canon /\ checkout[table'[x].local] = x
<1>0. Typed /\ Course(p) /\ Homes
  BY DEF Undisturbed, Safe
<1>1. pc[p] \in HydratePC
  BY <1>0 DEF Course
<1>2. HydrateHolds(p, x) /\ x \in DOMAIN table /\ listed[p] = table
  <2>1. HydrateKnows(p)
    BY DEF Undisturbed, Informed, Knows
  <2>2. PICK y \in DOMAIN table : HydrateHolds(p, y)
    BY <2>1 DEF HydrateKnows
  <2>3. y = x
    BY <2>2 DEF HydrateHolds
  <2> QED
    BY <2>1, <2>2, <2>3 DEF HydrateKnows
<1>3. /\ table[x] \in Row /\ AtHome(table[x]) /\ x \in Remote
      /\ goal[p][x] = [table[x] EXCEPT !.local = Placement(table[x])]
  BY <1>0, <1>2, RowHome, TableElim DEF HydrateHolds, Homes, Typed, TypeOK
<1>4. goal[p][x].local = goal[p][x].canon /\ goal[p][x].local = Placement(table[x])
  BY <1>3 DEF AtHome, Placement, Row
<1>5. CASE Settle(p)
  <2>1. /\ pc[p] = "settle"
        /\ \E y \in DOMAIN goal[p] :
              IF goal[p][y].local = listed[p][y].local THEN table' = table
              ELSE Pass(p, "update") \/ Fail(p)
    BY <1>5 DEF Settle
  <2>2. DOMAIN goal[p] = {x} /\ checkout[goal[p][x].local] = x
    BY <1>2, <2>1 DEF HydrateHolds
  <2>3. ~Pass(p, "update") /\ ~Fail(p)
    BY <1>0 DEF Pass, Fail, Return, Goto, Typed, TypeOK
  <2>4. table' = table /\ goal[p][x].local = table[x].local
    BY <1>2, <2>1, <2>2, <2>3
  <2>5. table[x].canon = goal[p][x].canon
    BY <1>3 DEF Row
  <2> QED
    BY <1>4, <2>2, <2>4, <2>5
<1>6. CASE Update(p)
  <2>1. /\ pc[p] = "update"
        /\ \E y \in DOMAIN goal[p] : Fail(p) \/ table' = With(table, y, goal[p][y])
    BY <1>6 DEF Update
  <2>2. DOMAIN goal[p] = {x} /\ checkout[goal[p][x].local] = x
    BY <1>2, <2>1 DEF HydrateHolds
  <2>3. ~Fail(p)
    BY <1>0 DEF Fail, Return, Goto, Typed, TypeOK
  <2>4. table'[x] = goal[p][x]
    BY <2>1, <2>2, <2>3 DEF With
  <2> QED
    BY <1>4, <2>2, <2>4
<1>7. CASE ~Settle(p) /\ ~Update(p)
  <2>1. \E label \in PC \ {"done"} : Goto(p, label)
    BY <1>1, <1>7
    DEF HydratePC, Operate, AddStep, ScanStep, HydrateStep, ImportStep, BeginAdd, BeginScan,
        BeginHydrate, BeginImport, Begin, CheckAlias, CheckRemote, Insert, Walk, Upsert,
        Relocate, EndScan, Look, Clone, PlanImport, BeginTx, Free, Rewrite, Append, Commit,
        Phase, Busy, Fault, Fail, Pass, Return, PC, Resting
  <2> QED
    BY <1>0, <2>1 DEF Goto, Typed, TypeOK
<1> QED
  BY <1>5, <1>6, <1>7

\* After an undisturbed hydrate the project is registered where its checkout is, which
\* is its canonical path: also if it was never imported, and so had nothing to record.
THEOREM HydrateRegisters == Spec => HydrateRecords
<1>1. ASSUME Undisturbed, Next, NEW p \in Proc,
             op[p] = "hydrate", pc[p] \notin Resting, pc'[p] = "done", p \notin noise,
             NEW x \in DOMAIN goal[p]
      PROVE  table'[x].local = table'[x].canon /\ checkout[table'[x].local] = x
  <2>1. pc[p] # "done"
    BY <1>1 DEF Resting
  <2> QED
    BY <1>1, <2>1, OwnStep, HydrateEnds
<1>2. Undisturbed /\ [Next]_vars
        => [\A p \in Proc : op[p] = "hydrate" /\ pc[p] \notin Resting /\ pc'[p] = "done"
                            /\ p \notin noise =>
               \A x \in DOMAIN goal[p] :
                   /\ table'[x].local = table'[x].canon
                   /\ checkout[table'[x].local] = x]_vars
  BY <1>1
<1> QED
  BY <1>2, InitUndisturbed, NextUndisturbed, PTL DEF Spec, HydrateRecords

(***************************************************************************)
(* An import of what is imported.                                          *)
(***************************************************************************)

\* The table t with the changes that manifest m asks for.
Settled(t, m) ==
    LET rows == Changes(t, m)
    IN  [x \in DOMAIN t \cup DOMAIN rows |-> IF x \in DOMAIN rows THEN rows[x] ELSE t[x]]

\* A row that is what the manifest wants of its project is so again when it is the row
\* the import finds.
LEMMA TargetAgain ==
    ASSUME NEW t, NEW u, NEW m, NEW x \in DOMAIN u, u[x] = Target(t, m, x)
    PROVE  Target(u, m, x) = u[x]
<1> DEFINE T == Target(t, m, x)
<1>1. /\ T.alias = m[x].alias /\ T.canon = m[x].path /\ T.source = "canonical"
      /\ T = [alias |-> T.alias, local |-> T.local, canon |-> T.canon, source |-> T.source]
  BY DEF Target
<1>2. LocalPath(T, m[x].path) = T.local
  BY <1>1 DEF LocalPath
<1> HIDE DEF T
<1>3. Target(u, m, x) = [alias |-> m[x].alias, local |-> LocalPath(T, m[x].path),
                         canon |-> m[x].path, source |-> "canonical"]
  BY DEF Target, T
<1> QED
  BY <1>1, <1>2, <1>3 DEF T

\* So the second import has nothing to change.
LEMMA NothingLeft ==
    ASSUME NEW t, NEW m
    PROVE  Changes(Settled(t, m), m) = NoRows
<1> DEFINE u == Settled(t, m)
           rows == Changes(t, m)
<1>1. /\ DOMAIN rows = {x \in DOMAIN m : x \in DOMAIN t => t[x] # Target(t, m, x)}
      /\ \A x \in DOMAIN rows : rows[x] = Target(t, m, x)
  BY DEF Changes
<1>2. /\ DOMAIN u = DOMAIN t \cup DOMAIN rows
      /\ \A x \in DOMAIN u : u[x] = IF x \in DOMAIN rows THEN rows[x] ELSE t[x]
  BY DEF Settled
<1> HIDE DEF u, rows
<1>3. ASSUME NEW x \in DOMAIN m
      PROVE  x \in DOMAIN u /\ u[x] = Target(u, m, x)
  <2>1. x \in DOMAIN u /\ u[x] = Target(t, m, x)
    BY <1>1, <1>2
  <2> QED
    BY <2>1, TargetAgain
<1>4. {x \in DOMAIN m : x \in DOMAIN u => u[x] # Target(u, m, x)} = {}
  BY <1>3
<1>5. Changes(u, m) = [x \in {} |-> Target(u, m, x)]
  BY <1>4 DEF Changes
<1>6. [x \in {} |-> Target(u, m, x)] = [x \in {} |-> x]
  OBVIOUS
<1> QED
  BY <1>5, <1>6 DEF u, NoRows

\* Nor has it an alias to fight for.
LEMMA NoFightLeft ==
    ASSUME NEW t, NEW m, ~Conflicting(t, m), NEW x \in DOMAIN m
    PROVE  ~AliasConflict(Settled(t, m), m, x)
<1> DEFINE u == Settled(t, m)
<1>1. ~AliasConflict(t, m, x)
  BY DEF Conflicting
<1>2. ASSUME NEW y \in DOMAIN u \ DOMAIN m PROVE y \in DOMAIN t /\ u[y] = t[y]
  BY <1>2 DEF Settled, Changes
<1> QED
  BY <1>1, <1>2 DEF AliasConflict

LEMMA ImportEnds ==
    ASSUME Undisturbed, NEW p \in Proc, Operate(p) \/ Fault(p),
           pc[p] \in {"begin", "append"}, p \notin noise, pc'[p] = "done"
    PROVE  /\ Changes(table', want[p]) = NoRows
           /\ \A x \in DOMAIN want[p] : ~AliasConflict(table', want[p], x)
<1>0. Typed /\ Safe
  BY DEF Undisturbed, Safe
<1>1. /\ ~Conflicting(table, want[p]) /\ goal[p] = Changes(table, want[p])
      /\ DOMAIN table \subseteq Remote /\ table = [x \in DOMAIN table |-> table[x]]
  <2>1. pc[p] \in ImportPC \ {"plan"} /\ pc[p] \notin Resting
    BY DEF ImportPC, Tx, Resting
  <2>2. op[p] = "import"
    BY <2>1, Whose
  <2> QED
    BY <1>0, <2>1, <2>2, TableElim DEF Undisturbed, Informed, Knows, ImportKnows, Typed, TypeOK
<1>2. table' = Settled(table, want[p])
  <2>1. CASE BeginTx(p)
    <3>1. table' = table /\ DOMAIN goal[p] = {}
      BY <1>0, <2>1 DEF BeginTx, Goto, Typed, TypeOK
    <3> QED
      BY <1>1, <3>1 DEF Settled
  <2>2. CASE Commit(p)
    <3>1. table' = [x \in DOMAIN table \cup DOMAIN goal[p] |->
                      IF x \in DOMAIN goal[p] THEN goal[p][x] ELSE table[x]]
      BY <1>0, <2>2, CommitExact
    <3> QED
      BY <1>1, <3>1 DEF Settled
  <2>3. CASE ~BeginTx(p) /\ ~Commit(p)
    <3>1. UNCHANGED pc \/ Goto(p, "failed")
      BY <2>3
      DEF Operate, AddStep, ScanStep, HydrateStep, ImportStep, BeginAdd, BeginScan,
          BeginHydrate, BeginImport, Begin, CheckAlias, CheckRemote, Insert, Walk, Upsert,
          Relocate, EndScan, Look, Clone, Settle, Update, PlanImport, Free, Rewrite, Append,
          Draft, Phase, Busy, Fault, Fail, Return, Resting
    <3> QED
      BY <1>0, <3>1 DEF Goto, Typed, TypeOK
  <2> QED
    BY <2>1, <2>2, <2>3
<1> QED
  BY <1>1, <1>2, NothingLeft, NoFightLeft

\* What an undisturbed import has written is a table in which the same manifest finds
\* nothing left to write, not even a local path, and no alias that is another's (ApplyImport,
\* PlanImport).  Of path conflicts it says nothing.
THEOREM ImportIsSettled == Spec => ImportSettles
<1>1. ASSUME Undisturbed, Next, NEW p \in Proc,
             pc[p] \in {"begin", "append"}, pc'[p] = "done", p \notin noise
      PROVE  /\ Changes(table', want[p]) = NoRows
             /\ \A x \in DOMAIN want[p] : ~AliasConflict(table', want[p], x)
  <2>1. pc[p] # "done" /\ pc[p] \notin Resting
    BY <1>1 DEF Resting
  <2> QED
    BY <1>1, <2>1, OwnStep, ImportEnds
<1>2. Undisturbed /\ [Next]_vars
        => [\A p \in Proc : pc[p] \in {"begin", "append"} /\ pc'[p] = "done" /\ p \notin noise =>
               /\ Changes(table', want[p]) = NoRows
               /\ \A x \in DOMAIN want[p] : ~AliasConflict(table', want[p], x)]_vars
  BY <1>1
<1> QED
  BY <1>2, InitUndisturbed, NextUndisturbed, PTL DEF Spec, ImportSettles
=============================================================================
