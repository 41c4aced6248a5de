---------------------------- MODULE BootstrapProofs ----------------------------
(***************************************************************************)
(* Theorems about bootstraps that run side by side with one another, with  *)
(* scans and with the user, for any number of processes, projects and      *)
(* paths.  What the plans promise is in ReconciliationProofs.              *)
(***************************************************************************)
EXTENDS Bootstrap, ReconciliationProofs

-----------------------------------------------------------------------------
(***************************************************************************)
(* Trees: what a new node needs above it is made of what may hold it.      *)
(***************************************************************************)

Solid == {"dir", "checkout", "edited"}

LEMMA HoldingSolid ==
    ASSUME NEW node \in Node
    PROVE  /\ Holding(node) \in Node
           /\ node.kind # "file" => Holding(node).kind \in Solid
           /\ node.kind \in Solid => Holding(node) = node
           /\ node.kind \notin {"absent", "empty", "placeholder"} => Holding(node) = node
<1>1. node.kind \in Kind /\ node.of \in Remote \cup {NoRemote} /\ node.alias \in Name \cup {0}
    BY DEF Node
<1>2. CASE node.kind \in {"absent", "empty"}
    BY <1>1, <1>2 DEF Holding, Bare, Node, Kind, Solid
<1>3. CASE node.kind = "placeholder"
    <2>1. Holding(node) = [node EXCEPT !.kind = "edited"]
        BY <1>3 DEF Holding
    <2>2. Holding(node).kind = "edited" /\ Holding(node) \in Node
        BY <1>1, <2>1 DEF Node, Kind
    <2> QED
        BY <1>3, <2>2 DEF Solid
<1>4. CASE node.kind \notin {"absent", "empty", "placeholder"}
    <2>1. Holding(node) = node
        BY <1>4 DEF Holding
    <2> QED
        BY <1>1, <1>4, <2>1 DEF Kind, Solid
<1> QED
    BY <1>2, <1>3, <1>4

LEMMA TreeFacts ==
    ASSUME disk \in Tree, NEW d \in Path
    PROVE  /\ disk[d] \in Node /\ Above[d] \subseteq Path
           /\ disk[d].kind # "absent" => \A q \in Above[d] : disk[q].kind \in Solid
BY AboveAssumption DEF Tree, Solid

\* What is put where nothing stands in the way leaves a tree.
LEMMA PutTree ==
    ASSUME disk \in Tree, NEW d \in Path, NEW node \in Node,
           ~Blocked(d), disk[d].kind \notin Solid
    PROVE  Put(d, node) \in Tree
<1> DEFINE new == Put(d, node)
<1>1. /\ new[d] = node /\ DOMAIN new = Path
      /\ \A q \in Above[d] : new[q] = Holding(disk[q])
      /\ \A q \in Path \ Above[d] : q # d => new[q] = disk[q]
      /\ d \notin Above[d] /\ Above[d] \subseteq Path
    BY AboveAssumption DEF Put
<1>2. new \in [Path -> Node]
    <2>1. \A q \in Path : Holding(disk[q]) \in Node /\ disk[q] \in Node
        BY TreeFacts, HoldingSolid
    <2> QED
        BY <2>1 DEF Put
<1> HIDE DEF new
<1>3. \A q \in Above[d] : new[q].kind \in Solid
    <2>1. \A q \in Above[d] : disk[q] \in Node /\ disk[q].kind # "file"
        BY <1>1, TreeFacts DEF Blocked
    <2> QED
        BY <1>1, <2>1, HoldingSolid
<1>4. ASSUME NEW e \in Path, new[e].kind # "absent", NEW q \in Above[e]
      PROVE  new[q].kind \in Solid
    <2>1. CASE e = d \/ e \in Above[d]
        <3>1. q \in Above[d]
            BY <2>1, AboveAssumption
        <3> QED
            BY <1>3, <3>1
    <2>2. CASE e # d /\ e \notin Above[d]
        <3>1. disk[e].kind # "absent"
            BY <1>1, <1>4, <2>2
        <3>2. q \in Path /\ disk[q].kind \in Solid
            BY <3>1, TreeFacts
        <3>3. q # d
            BY <3>2
        <3> QED
            BY <1>1, <1>3, <3>2, <3>3
    <2> QED
        BY <2>1, <2>2
<1> QED
    BY <1>2, <1>4 DEF Tree, Solid, new

LEMMA MkdirAllTree ==
    ASSUME disk \in Tree, NEW d \in Path, \A q \in Above[d] : disk[q].kind # "file"
    PROVE  /\ MkdirAll(d) \in Tree
           /\ \A q \in Path : MkdirAll(d)[q] # disk[q] =>
                 disk[q].kind \in {"absent", "empty", "placeholder"}
<1> DEFINE new == MkdirAll(d)
           made == {q \in Above[d] : disk[q].kind = "absent"}
           Inner(q) == q \in Above[d] /\ \E z \in made : q \in Above[z]
           Leaf(q) == q \in made /\ \A z \in made : q \notin Above[z]
<1>1. /\ DOMAIN new = Path
      /\ \A q \in Path : Inner(q) => new[q] = Holding(disk[q])
      /\ \A q \in Path : Leaf(q) => new[q] = Bare("empty")
      /\ \A q \in Path : ~Inner(q) /\ ~Leaf(q) => new[q] = disk[q]
    BY DEF MkdirAll
<1>2. \A q \in Path : disk[q] \in Node /\ Holding(disk[q]) \in Node
    BY TreeFacts, HoldingSolid
<1>3. Bare("empty") \in Node
    BY DEF Bare, Node, Kind
<1>4. new = [q \in Path |-> new[q]]
    BY DEF MkdirAll
<1>5. \A q \in Path : Leaf(q) => q \in Above[d] /\ disk[q].kind = "absent" /\ ~Inner(q)
    OBVIOUS
<1>6. \A q \in Path : q \in made => Leaf(q) \/ Inner(q)
    OBVIOUS
<1>7. \A q \in Path : Inner(q) => disk[q].kind # "file"
    OBVIOUS
<1>8. \A e \in Path, q \in Path : q \in Above[e] /\ e \in made => Inner(q)
    BY AboveAssumption
<1>9. \A q \in Path : disk[q].kind # "absent" => q \notin made
    OBVIOUS
<1> HIDE DEF new
<1>10. new \in [Path -> Node]
    BY <1>1, <1>2, <1>3, <1>4, <1>5
<1>11. \A q \in Path : new[q] # disk[q] => disk[q].kind \in {"absent", "empty", "placeholder"}
    BY <1>1, <1>2, <1>5, HoldingSolid
<1>12. ASSUME NEW e \in Path, new[e].kind # "absent", NEW q \in Above[e]
       PROVE  new[q].kind \in Solid
    <2>1. q \in Path
        BY AboveAssumption
    <2>2. CASE disk[e].kind # "absent"
        <3>1. disk[q].kind \in Solid
            BY <2>2, TreeFacts
        <3>2. disk[q].kind # "absent"
            BY <3>1 DEF Solid
        <3>3. ~Leaf(q)
            BY <1>5, <2>1, <3>2
        <3> HIDE DEF Leaf, Inner, made
        <3>4. new[q] = disk[q]
            BY <1>1, <1>2, <2>1, <3>1, <3>3, HoldingSolid
        <3> QED
            BY <3>1, <3>4
    <2>3. CASE disk[e].kind = "absent"
        <3>1. Inner(e) \/ Leaf(e)
            BY <1>1, <1>12, <2>3
        <3>2. e \in made
            BY <2>3, <3>1
        <3>3. Inner(q)
            BY <1>8, <2>1, <3>2
        <3>4. new[q] = Holding(disk[q]) /\ disk[q].kind # "file"
            BY <1>1, <1>7, <2>1, <3>3
        <3> QED
            BY <1>2, <2>1, <3>4, HoldingSolid
    <2> QED
        BY <2>2, <2>3
<1> QED
    BY <1>10, <1>11, <1>12 DEF Tree, Solid, new

-----------------------------------------------------------------------------
(***************************************************************************)
(* The hydration plan: all projects, each at the rank of its alias.        *)
(***************************************************************************)

LEMMA Ranks ==
    ASSUME NEW D, IsFiniteSet(D), NEW f \in [D -> Nat], \A x, y \in D : x # y => f[x] # f[y],
           NEW low \in [D -> SUBSET D], \A x, z \in D : z \in low[x] <=> f[z] <= f[x]
    PROVE  \E g \in [D -> 1..Cardinality(D)] :
              /\ \A x \in D : g[x] = Cardinality(low[x])
              /\ \A x, y \in D : g[x] = g[y] => x = y
              /\ \A i \in 1..Cardinality(D) : \E x \in D : g[x] = i
<1> DEFINE rank(x) == Cardinality(low[x])
           c == Cardinality(D)
<1>1. c \in Nat
    BY FS_CardinalityType
<1>2. ASSUME NEW x \in D
      PROVE  IsFiniteSet(low[x]) /\ rank(x) \in 1..c
    <2>1. IsFiniteSet(low[x]) /\ rank(x) <= c
        BY FS_Subset
    <2>2. x \in low[x]
        OBVIOUS
    <2>3. rank(x) \in Nat /\ rank(x) # 0
        BY <2>1, <2>2, FS_CardinalityType, FS_EmptySet
    <2> QED
        BY <1>1, <2>1, <2>3
<1>3. ASSUME NEW x \in D, NEW y \in D, f[x] < f[y]
      PROVE  rank(x) # rank(y)
    <2>1. low[x] \subseteq low[y] /\ y \in low[y] /\ y \notin low[x]
        BY <1>3
    <2>2. IsFiniteSet(low[y])
        BY <1>2
    <2> QED
        BY <2>1, <2>2, FS_Subset
<1>4. \A x, y \in D : rank(x) = rank(y) => x = y
    <2> SUFFICES ASSUME NEW x \in D, NEW y \in D, x # y
                 PROVE  rank(x) # rank(y)
        OBVIOUS
    <2>1. f[x] < f[y] \/ f[y] < f[x]
        OBVIOUS
    <2> QED
        BY <1>3, <2>1
<1> DEFINE g == [x \in D |-> rank(x)]
<1>5. \A x \in D : g[x] = Cardinality(low[x])
    OBVIOUS
<1> HIDE DEF rank
<1>6. g \in [D -> 1..c] /\ \A x, y \in D : g[x] = g[y] => x = y
    BY <1>2, <1>4
<1>7. IsFiniteSet(1..c) /\ Cardinality(1..c) = c
    BY <1>1, FS_Interval
<1> HIDE DEF g, c
<1>8. g \in Injection(D, 1..c)
    BY <1>6 DEF Injection, IsInjective
<1>9. g \in Surjection(D, 1..c)
    BY <1>7, <1>8, FS_Injection DEF c
<1>10. \A i \in 1..c : \E x \in D : g[x] = i
    BY <1>9 DEF Surjection
<1> QED
    BY <1>5, <1>6, <1>10 DEF c

LEMMA RankedTable ==
    ASSUME NEW t \in Table, IsFiniteSet(DOMAIN t), OwnAliases(t)
    PROVE  \E g \in [DOMAIN t -> 1..Cardinality(DOMAIN t)] :
              /\ \A r \in DOMAIN t :
                    g[r] = Cardinality({z \in DOMAIN t : t[z].alias <= t[r].alias})
              /\ \A r, s \in DOMAIN t : g[r] = g[s] => r = s
              /\ \A i \in 1..Cardinality(DOMAIN t) : \E r \in DOMAIN t : g[r] = i
<1> DEFINE D == DOMAIN t
           f == [r \in D |-> t[r].alias]
           low == [r \in D |-> {z \in D : t[z].alias <= t[r].alias}]
<1>1. \A r \in D : t[r].alias \in Nat
    BY NameAssumption DEF Table, Row
<1>2. /\ f \in [D -> Nat] /\ \A x, y \in D : x # y => f[x] # f[y]
      /\ low \in [D -> SUBSET D] /\ \A x, z \in D : z \in low[x] <=> f[z] <= f[x]
    BY <1>1 DEF OwnAliases
<1>3. \A r \in D : low[r] = {z \in D : t[z].alias <= t[r].alias}
    OBVIOUS
<1>4. IsFiniteSet(D)
    OBVIOUS
<1> HIDE DEF D, f, low
<1>5. \E g \in [D -> 1..Cardinality(D)] :
         /\ \A x \in D : g[x] = Cardinality(low[x])
         /\ \A x, y \in D : g[x] = g[y] => x = y
         /\ \A i \in 1..Cardinality(D) : \E x \in D : g[x] = i
    BY <1>2, <1>4, Ranks
<1>6. PICK g \in [D -> 1..Cardinality(D)] :
         /\ \A x \in D : g[x] = Cardinality(low[x])
         /\ \A x, y \in D : g[x] = g[y] => x = y
         /\ \A i \in 1..Cardinality(D) : \E x \in D : g[x] = i
    BY <1>5
<1>7. \A r \in D : g[r] = Cardinality({z \in D : t[z].alias <= t[r].alias})
    BY <1>3, <1>6
<1> QED
    BY <1>6, <1>7 DEF D

LEMMA PlannedType ==
    ASSUME table \in Table, disk \in Tree, NEW r \in DOMAIN table
    PROVE  /\ Planned(r) \in ActionRecord /\ Planned(r).remote = r
           /\ r \in Remote /\ r # NoRemote /\ table[r] \in Row /\ hydrationPath(table[r]) \in Path
<1>1. r \in Remote /\ table[r] \in Row
    BY DEF Table
<1>2. hydrationPath(table[r]) \in Path /\ table[r].local \in Path
    BY <1>1 DEF hydrationPath, Row
<1>3. StateAt(disk, r, table[r]) \in {"present", "placeholder", "missing", "path-conflict", "unsafe-path"}
    BY DEF StateAt
<1>4. ActionFor(StateAt(disk, r, table[r])) \in {"clone", "none", "refuse"}
    BY DEF ActionFor
<1>5. Planned(r) \in ActionRecord
    BY <1>1, <1>2, <1>3, <1>4 DEF Planned, classifyProject, ActionRecord, Row
<1>6. Planned(r).remote = r
    BY DEF Planned, classifyProject
<1> QED
    BY <1>1, <1>2, <1>5, <1>6, RemoteAssumption

LEMMA PlanAllProjects ==
    ASSUME table \in Table, disk \in Tree, IsFiniteSet(DOMAIN table), OwnAliases(table)
    PROVE  /\ PlanAll \in Seq(ActionRecord)
           /\ \A i \in DOMAIN PlanAll : \E r \in DOMAIN table : PlanAll[i] = Planned(r)
           /\ \A r \in DOMAIN table : \E i \in DOMAIN PlanAll : PlanAll[i] = Planned(r)
<1> DEFINE D == DOMAIN table
           listed(r) == {z \in D : table[z].alias <= table[r].alias}
           at(i) == CHOOSE r \in D : Cardinality(listed(r)) = i
           c == Cardinality(D)
<1>1. PlanAll = [i \in 1..c |-> Planned(at(i))]
    BY DEF PlanAll
<1>2. c \in Nat
    BY FS_CardinalityType
<1>3. \A r \in D : Planned(r) \in ActionRecord
    BY PlannedType
<1>4. PICK g \in [D -> 1..c] :
         /\ \A r \in D : g[r] = Cardinality(listed(r))
         /\ \A r, s \in D : g[r] = g[s] => r = s
         /\ \A i \in 1..c : \E r \in D : g[r] = i
    BY RankedTable
<1> HIDE DEF listed
<1>5. \A i \in 1..c : at(i) \in D /\ g[at(i)] = i
    BY <1>4
<1> HIDE DEF at
<1>6. \A r \in D : g[r] \in 1..c /\ at(g[r]) = r
    BY <1>4, <1>5
<1> HIDE DEF D, c
<1>7. PlanAll \in [1..c -> ActionRecord]
    BY <1>1, <1>3, <1>5
<1>8. PlanAll \in Seq(ActionRecord) /\ DOMAIN PlanAll = 1..c
    BY <1>2, <1>7
<1>9. \A i \in 1..c : PlanAll[i] = Planned(at(i))
    BY <1>1
<1>10. \A i \in DOMAIN PlanAll : \E r \in D : PlanAll[i] = Planned(r)
    BY <1>5, <1>8, <1>9
<1>11. \A r \in D : \E i \in DOMAIN PlanAll : PlanAll[i] = Planned(r)
    BY <1>6, <1>8, <1>9
<1> QED
    BY <1>8, <1>10, <1>11 DEF D

LEMMA RequestType ==
    ASSUME NEW q \in Requests
    PROVE  /\ q \in Request /\ q # NoRequest
           /\ q.entries \in Seq(Entry) /\ Names(q) \in Seq(Name)
           /\ Distinct(Names(q)) \subseteq DOMAIN Names(q) /\ DOMAIN Names(q) \subseteq Nat
<1>1. q \in Request /\ q # NoRequest
    BY RequestsAssumption
<1>2. q.entries \in Seq(Entry) /\ q.aliases \in Seq(Name)
    BY <1>1 DEF Request
<1>3. Names(q) \in Seq(Name)
    <2>1. CASE q.entries = <<>>
        BY <1>2, <2>1 DEF Names
    <2>2. CASE q.entries # <<>>
        <3>1. DOMAIN q.entries = 1..Len(q.entries) /\ Len(q.entries) \in Nat
            BY <1>2
        <3>2. \A i \in DOMAIN q.entries : q.entries[i] \in Entry
            BY <1>2
        <3>3. \A i \in DOMAIN q.entries : q.entries[i].alias \in Name
            BY <3>2 DEF Entry
        <3> QED
            BY <2>2, <3>1, <3>3 DEF Names
    <2> QED
        BY <2>1, <2>2
<1> QED
    BY <1>1, <1>2, <1>3 DEF Distinct

-----------------------------------------------------------------------------
(***************************************************************************)
(* The invariant.  What a process has planned to import keeps the places   *)
(* of projects apart until somebody else writes to the table; so does what *)
(* it has planned to record, as that leaves places and sources as listed.  *)
(***************************************************************************)

Late == {"plan", "check", "run", "persist"}

AsListed(a, t) ==
    /\ a.remote \in DOMAIN t
    /\ a.alias = t[a.remote].alias
    /\ a.source = t[a.remote].source
    /\ a.path = hydrationPath(t[a.remote])

Course(p) ==
    /\ Busy(p) => req[p] \in Requests
    /\ pc[p] \notin Late => acts[p] = <<>>
    /\ OwnAliases(goal[p]) /\ IsFiniteSet(DOMAIN goal[p])
    /\ clean /\ p \notin outdated /\ pc[p] \in {"parents", "import"} => Apart(Merge(table, goal[p]))
    /\ pc[p] \in {"run", "persist"} => todo[p] \subseteq DOMAIN acts[p]
    /\ pc[p] = "persist" => \A i \in todo[p] : Misplaced(acts[p][i])
    /\ \A i \in DOMAIN acts[p] :
          /\ acts[p][i].remote \in DOMAIN table
          /\ p \notin outdated => AsListed(acts[p][i], table)

World ==
    /\ IsFiniteSet(DOMAIN table) /\ OwnAliases(table)
    /\ clean => Apart(table) /\ InOwnPlace(table)

Sound == TypeOK /\ World /\ \A p \in Proc : Course(p)

\* Everything TypeOK says of what the processes remember and of the history.
Remembered ==
    /\ pc \in [Proc -> PC]
    /\ req \in [Proc -> Requests \cup {NoRequest}]
    /\ parents \in [Proc -> SUBSET Path]
    /\ goal \in [Proc -> Table]
    /\ adds \in [Proc -> SUBSET Remote]
    /\ queue \in [Proc -> SUBSET Nat]
    /\ acts \in [Proc -> Seq(ActionRecord)]
    /\ todo \in [Proc -> SUBSET Nat]
    /\ before \in [Proc -> [table : Table, disk : Tree]]
    /\ retry \in [Proc -> BOOLEAN]

Counted ==
    /\ ops \in 0..MaxOps /\ mishaps \in 0..MaxMishaps
    /\ disturbed \subseteq Proc /\ outdated \subseteq Proc
    /\ clean \in BOOLEAN
    /\ halted \in Requests \cup {NoRequest}

LEMMA TypeParts == TypeOK <=> table \in Table /\ disk \in Tree /\ Remembered /\ Counted
BY DEF TypeOK, Remembered, Counted

LEMMA NoRowsFacts ==
    NoRows \in Table /\ DOMAIN NoRows = {} /\ OwnAliases(NoRows) /\ IsFiniteSet(DOMAIN NoRows)
<1>1. DOMAIN NoRows = {} /\ NoRows \in [{} -> Row]
    BY DEF NoRows
<1>2. {} \in SUBSET Remote
    OBVIOUS
<1>3. NoRows \in Table
    BY <1>1, <1>2 DEF Table
<1>4. IsFiniteSet(DOMAIN NoRows)
    BY <1>1, FS_EmptySet
<1> QED
    BY <1>1, <1>3, <1>4 DEF OwnAliases

LEMMA NowhereType == Nowhere \in [table : Table, disk : Tree]
<1>1. Bare("absent") \in Node /\ Bare("absent").kind = "absent"
    BY DEF Bare, Node, Kind
<1>2. [d \in Path |-> Bare("absent")] \in Tree
    BY <1>1 DEF Tree
<1> QED
    BY <1>2, NoRowsFacts DEF Nowhere

\* What ends has nothing left to be wrong about.
LEMMA EndCourse ==
    ASSUME Remembered, NEW p \in Proc, NEW label \in Resting, End(p, label)
    PROVE  Remembered' /\ Course(p)'
<1>1. pc'[p] = label /\ acts'[p] = <<>> /\ goal'[p] = NoRows
    BY DEF Remembered, End, Goto
<1>2. Remembered'
    <2>1. /\ label \in PC /\ NoRequest \in Requests \cup {NoRequest}
          /\ <<>> \in Seq(ActionRecord)
        BY DEF PC
    <2> QED
        BY <2>1, NoRowsFacts, NowhereType DEF Remembered, End, Goto
<1>3. ~Busy(p)' /\ pc'[p] \notin Late /\ pc'[p] \notin {"parents", "import"}
    BY <1>1 DEF Busy, Resting, Late
<1>4. DOMAIN acts'[p] = {}
    BY <1>1
<1> QED
    BY <1>1, <1>2, <1>3, <1>4, NoRowsFacts DEF Course, Late

LEMMA ReturnSound ==
    ASSUME Sound, NEW p \in Proc, NEW label \in Resting, Return(p, label)
    PROVE  TypeOK' /\ Course(p)' /\ World'
<1>1. Remembered /\ Counted /\ table \in Table /\ disk \in Tree /\ World
    BY TypeParts DEF Sound
<1>2. UNCHANGED <<table, disk, bounds, others, clean, halted>> /\ End(p, label)
    BY DEF Return
<1>3. Remembered' /\ Course(p)'
    BY <1>1, <1>2, EndCourse
<1>4. Counted'
    BY <1>1, <1>2 DEF Counted, bounds, others
<1>5. World'
    BY <1>1, <1>2 DEF World
<1>6. table' \in Table /\ disk' \in Tree
    BY <1>1, <1>2
<1>7. TypeOK'
    BY <1>3, <1>4, <1>6, TypeParts DEF TypeOK, Remembered, Counted
<1> QED
    BY <1>3, <1>5, <1>7

-----------------------------------------------------------------------------
(***************************************************************************)
(* The invariant holds at first and each step of a process keeps it, for   *)
(* the table and for the process itself.                                   *)
(***************************************************************************)

LEMMA TangledIs == ASSUME NEW t PROVE Tangled(t) <=> ~InOwnPlace(t)
BY DEF Tangled, InOwnPlace

LEMMA InitSound == Init => Sound
<1> SUFFICES ASSUME Init
             PROVE  Sound
    OBVIOUS
<1>1. /\ table \in Table /\ disk \in Tree /\ IsFiniteSet(DOMAIN table)
      /\ \A r, s \in DOMAIN table : r # s =>
            /\ table[r].alias # table[s].alias
            /\ table[r].source = "canonical" /\ table[s].source = "canonical"
               => ~Overlap(table[r].canon, table[s].canon)
    BY StartAssumption DEF Init
<1>2. OwnAliases(table) /\ Apart(table)
    BY <1>1 DEF OwnAliases, Apart
<1>3. clean => InOwnPlace(table)
    BY TangledIs DEF Init
<1>4. Remembered
    <2>1. <<>> \in Seq(ActionRecord) /\ "idle" \in PC /\ NoRequest \in Requests \cup {NoRequest}
        BY DEF PC, Resting
    <2> QED
        BY <2>1, NoRowsFacts, NowhereType DEF Init, Remembered
<1>5. Counted
    BY BoundsAssumption DEF Init, Counted
<1>6. ASSUME NEW p \in Proc
      PROVE  Course(p)
    <2>1. pc[p] = "idle" /\ acts[p] = <<>> /\ goal[p] = NoRows
        BY DEF Init
    <2>2. ~Busy(p) /\ DOMAIN acts[p] = {}
        BY <2>1 DEF Busy, Resting
    <2> QED
        BY <2>1, <2>2, NoRowsFacts DEF Course, Late
<1> QED
    BY <1>1, <1>2, <1>3, <1>4, <1>5, <1>6, TypeParts DEF Sound, World

LEMMA Concatenated ==
    ASSUME NEW S, NEW u \in Seq(S), NEW v \in Seq(S)
    PROVE  /\ u \o v \in Seq(S)
           /\ \A i \in DOMAIN (u \o v) :
                 \/ i \in DOMAIN u /\ (u \o v)[i] = u[i]
                 \/ \E j \in DOMAIN v : (u \o v)[i] = v[j]
           /\ \A i \in DOMAIN u : i \in DOMAIN (u \o v) /\ (u \o v)[i] = u[i]
           /\ \A j \in DOMAIN v : \E i \in DOMAIN (u \o v) : (u \o v)[i] = v[j]
<1> DEFINE w == u \o v
<1>1. /\ w \in Seq(S) /\ Len(w) = Len(u) + Len(v)
      /\ \A i \in 1..Len(u) : w[i] = u[i]
      /\ \A i \in (Len(u) + 1)..(Len(u) + Len(v)) : w[i] = v[i - Len(u)]
    OBVIOUS
<1>2. DOMAIN w = 1..(Len(u) + Len(v)) /\ DOMAIN u = 1..Len(u) /\ DOMAIN v = 1..Len(v)
    BY <1>1
<1>3. Len(u) \in Nat /\ Len(v) \in Nat
    OBVIOUS
<1> HIDE DEF w
<1>4. ASSUME NEW i \in DOMAIN w
      PROVE  \/ i \in DOMAIN u /\ w[i] = u[i]
             \/ \E j \in DOMAIN v : w[i] = v[j]
    <2>1. CASE i <= Len(u)
        BY <1>1, <1>2, <1>3, <1>4, <2>1
    <2>2. CASE ~(i <= Len(u))
        <3>1. i - Len(u) \in DOMAIN v /\ i \in (Len(u) + 1)..(Len(u) + Len(v))
            BY <1>2, <1>3, <1>4, <2>2
        <3> QED
            BY <1>1, <3>1
    <2> QED
        BY <2>1, <2>2
<1>5. ASSUME NEW j \in DOMAIN v
      PROVE  \E i \in DOMAIN w : w[i] = v[j]
    <2>1. /\ Len(u) + j \in (Len(u) + 1)..(Len(u) + Len(v))
          /\ Len(u) + j \in DOMAIN w /\ (Len(u) + j) - Len(u) = j
        BY <1>2, <1>3, <1>5
    <2>2. w[Len(u) + j] = v[(Len(u) + j) - Len(u)]
        BY <1>1, <2>1
    <2> QED
        BY <2>1, <2>2
<1>6. \A i \in DOMAIN u : i \in DOMAIN w /\ w[i] = u[i]
    BY <1>1, <1>2, <1>3
<1> QED
    BY <1>1, <1>4, <1>5, <1>6 DEF w

LEMMA BeginSound ==
    ASSUME Sound, NEW p \in Proc, NEW q \in Requests, Begin(p, q)
    PROVE  TypeOK' /\ Course(p)' /\ World'
<1>1. Remembered /\ Counted /\ table \in Table /\ disk \in Tree /\ World /\ Course(p)
    BY TypeParts DEF Sound
<1>2. UNCHANGED <<table, disk, parents, goal, adds, acts, todo, mishaps, clean>>
    BY DEF Begin
<1>3. /\ pc'[p] \in {"dryrun", "plan"} /\ req'[p] = q /\ acts'[p] = acts[p] /\ goal'[p] = goal[p]
      /\ acts[p] = <<>>
    <2>1. pc[p] \in Resting
        BY DEF Begin, Busy
    <2>2. pc[p] \notin Late
        BY <2>1 DEF Resting, Late
    <2> QED
        BY <1>1, <1>2, <2>2 DEF Begin, Goto, Remembered, Course
<1>4. Course(p)'
    <2>1. DOMAIN acts'[p] = {} /\ pc'[p] \notin {"parents", "import", "run", "persist"}
        BY <1>3
    <2> QED
        BY <1>1, <1>3, <2>1 DEF Course, Busy
<1>5. Remembered'
    <2>1. {"dryrun", "plan"} \subseteq PC
        BY DEF PC
    <2>2. Distinct(Names(q)) \in SUBSET Nat
        BY RequestType
    <2>3. [table |-> table, disk |-> disk] \in [table : Table, disk : Tree]
        BY <1>1
    <2>4. pc' \in [Proc -> PC]
        BY <1>1, <2>1 DEF Begin, Goto, Remembered
    <2>5. (q = halted /\ Others(p) = {}) \in BOOLEAN
        OBVIOUS
    <2>6. retry' \in [Proc -> BOOLEAN]
        BY <1>1, <2>5 DEF Begin, Remembered
    <2> QED
        BY <1>1, <1>2, <2>2, <2>3, <2>4, <2>6 DEF Begin, Remembered
<1>6. Counted'
    BY <1>1, <1>2, BoundsAssumption DEF Begin, Counted
<1>7. World'
    BY <1>1, <1>2 DEF World
<1>8. TypeOK'
    BY <1>1, <1>2, <1>5, <1>6 DEF TypeOK, Remembered, Counted
<1> QED
    BY <1>4, <1>7, <1>8

\* The type of a step that changes what p remembers and where it is, but no history.
LEMMA Assembled ==
    ASSUME table' \in Table, disk' \in Tree, Remembered', Counted'
    PROVE  TypeOK'
BY DEF TypeOK, Remembered, Counted

LEMMA PassCounted ==
    ASSUME Sound, NEW p, NEW label, Pass(p, label)
    PROVE  /\ table' = table /\ disk' = disk /\ table' \in Table /\ disk' \in Tree
           /\ clean' = clean /\ outdated' = outdated /\ Counted' /\ World'
           /\ before' = before /\ retry' = retry /\ pc' = [pc EXCEPT ![p] = label]
<1>1. Counted /\ table \in Table /\ disk \in Tree /\ World
    BY TypeParts DEF Sound
<1>2. UNCHANGED <<table, disk, bounds, history>> /\ pc' = [pc EXCEPT ![p] = label]
    BY DEF Pass, Goto
<1>3. Counted'
    BY <1>1, <1>2 DEF Counted, bounds, history, others
<1>4. World'
    BY <1>1, <1>2 DEF World, history
<1> QED
    BY <1>1, <1>2, <1>3, <1>4 DEF history, others

LEMMA PassRemembered ==
    ASSUME Remembered, NEW p \in Proc, NEW label \in PC, Pass(p, label), req' = req,
           parents' \in [Proc -> SUBSET Path], goal' \in [Proc -> Table],
           adds' \in [Proc -> SUBSET Remote], queue' \in [Proc -> SUBSET Nat],
           acts' \in [Proc -> Seq(ActionRecord)], todo' \in [Proc -> SUBSET Nat]
    PROVE  Remembered'
<1>1. pc' = [pc EXCEPT ![p] = label] /\ UNCHANGED <<before, retry>>
    BY DEF Pass, Goto, history
<1>2. pc' \in [Proc -> PC]
    BY <1>1 DEF Remembered
<1> QED
    BY <1>1, <1>2 DEF Remembered

LEMMA DryRunSound ==
    ASSUME Sound, NEW p \in Proc, DryRun(p)
    PROVE  TypeOK' /\ Course(p)' /\ World'
<1> DEFINE m == req[p].entries
<1>1. CASE Conflicting(BuildDryRunPlan(table, m, disk))
    <2>1. Return(p, "refused")
        BY <1>1 DEF DryRun, Refuse
    <2> QED
        BY <2>1, ReturnSound DEF Resting
<1>2. CASE ~Conflicting(BuildDryRunPlan(table, m, disk))
    <2>1. Remembered /\ Course(p) /\ pc[p] = "dryrun" /\ Busy(p)
        BY TypeParts DEF Sound, DryRun, Busy, Resting
    <2>2. Pass(p, "entries") /\ UNCHANGED <<req, goal, adds, queue, acts, todo>>
        BY <1>2 DEF DryRun
    <2>3. parents' = [parents EXCEPT ![p] = parents'[p]] /\ parents'[p] \subseteq Path
        <3>1. m \in Seq(Entry)
            BY <2>1, RequestType DEF Course
        <3>2. \A i \in DOMAIN m : m[i] \in Entry
            BY <3>1
        <3>3. {m[i].path : i \in {j \in DOMAIN m : Above[m[j].path] # {}}} \subseteq Path
            BY <3>2 DEF Entry
        <3>4. parents' = [parents EXCEPT ![p] =
                             IF req[p].placeholders THEN {}
                             ELSE {m[i].path : i \in {j \in DOMAIN m : Above[m[j].path] # {}}}]
            BY <1>2 DEF DryRun
        <3> HIDE DEF m
        <3> QED
            BY <2>1, <3>3, <3>4 DEF Remembered
    <2>4. Remembered'
        <3>1. "entries" \in PC /\ parents' \in [Proc -> SUBSET Path]
            BY <2>1, <2>3 DEF PC, Remembered
        <3>2. /\ goal' \in [Proc -> Table] /\ adds' \in [Proc -> SUBSET Remote]
              /\ queue' \in [Proc -> SUBSET Nat] /\ acts' \in [Proc -> Seq(ActionRecord)]
              /\ todo' \in [Proc -> SUBSET Nat]
            BY <2>1, <2>2 DEF Remembered
        <3> QED
            BY <2>1, <2>2, <3>1, <3>2, PassRemembered
    <2>5. pc'[p] = "entries" /\ acts'[p] = <<>>
        BY <2>1, <2>2, PassCounted DEF Remembered, Course, Late
    <2>6. Course(p)'
        <3>1. Busy(p)' /\ DOMAIN acts'[p] = {}
            BY <2>5 DEF Busy, Resting
        <3> QED
            BY <2>1, <2>2, <2>5, <3>1 DEF Course
    <2> QED
        BY <2>2, <2>4, <2>6, PassCounted, Assembled
<1> QED
    BY <1>1, <1>2

LEMMA EntriesSound ==
    ASSUME Sound, NEW p \in Proc, Entries(p)
    PROVE  TypeOK' /\ Course(p)' /\ World'
<1>1. CASE Return(p, "refused")
    BY <1>1, ReturnSound DEF Resting
<1>2. CASE Pass(p, "agree") /\ UNCHANGED locals
    <2>1. Remembered /\ Course(p) /\ pc[p] = "entries" /\ Busy(p)
        BY TypeParts DEF Sound, Entries, Busy, Resting
    <2>2. UNCHANGED <<req, parents, goal, adds, queue, acts, todo>>
        BY <1>2 DEF locals
    <2>3. Remembered'
        <3>1. "agree" \in PC
            BY DEF PC
        <3>2. /\ parents' \in [Proc -> SUBSET Path] /\ goal' \in [Proc -> Table]
              /\ adds' \in [Proc -> SUBSET Remote] /\ queue' \in [Proc -> SUBSET Nat]
              /\ acts' \in [Proc -> Seq(ActionRecord)] /\ todo' \in [Proc -> SUBSET Nat]
            BY <2>1, <2>2 DEF Remembered
        <3> QED
            BY <1>2, <2>1, <2>2, <3>1, <3>2, PassRemembered
    <2>4. pc'[p] = "agree" /\ acts'[p] = <<>>
        BY <1>2, <2>1, <2>2, PassCounted DEF Remembered, Course, Late
    <2>5. Course(p)'
        <3>1. Busy(p)' /\ DOMAIN acts'[p] = {}
            BY <2>4 DEF Busy, Resting
        <3> QED
            BY <2>1, <2>2, <2>4, <3>1 DEF Course
    <2> QED
        BY <1>2, <2>3, <2>5, PassCounted, Assembled
<1> QED
    BY <1>1, <1>2 DEF Entries, Refuse

LEMMA AgreeSound ==
    ASSUME Sound, NEW p \in Proc, Agree(p)
    PROVE  TypeOK' /\ Course(p)' /\ World'
<1> DEFINE m == req[p].entries
           changes == Changes(table, m, disk)
<1>1. CASE Conflicting(PlanImport(table, m, disk))
    <2>1. Return(p, "failed")
        BY <1>1 DEF Agree, Fail
    <2> QED
        BY <2>1, ReturnSound DEF Resting
<1>2. CASE ~Conflicting(PlanImport(table, m, disk))
    <2> DEFINE label == IF parents[p] = {} THEN "import" ELSE "parents"
    <2>1. /\ Remembered /\ Course(p) /\ pc[p] = "agree" /\ Busy(p)
          /\ World /\ table \in Table /\ IsFiniteSet(DOMAIN table)
        BY TypeParts DEF Sound, World, Agree, Busy, Resting
    <2>2. Pass(p, label) /\ UNCHANGED <<req, parents, queue, acts, todo>>
        BY <1>2 DEF Agree
    <2>3. /\ goal' = [goal EXCEPT ![p] = changes]
          /\ adds' = [adds EXCEPT ![p] = DOMAIN changes \ DOMAIN table]
        BY <1>2 DEF Agree
    <2>4. m \in Seq(Entry)
        BY <2>1, RequestType DEF Course
    <2>5. /\ changes \in Table /\ IsFiniteSet(DOMAIN changes)
          /\ DOMAIN changes \subseteq Remote
        BY <2>1, <2>4, ChangesType, IdentitiesType
    <2>6. OwnAliases(changes)
        BY <1>2, <2>1, <2>4, ImportPromise, ChangesOwnAliases
    <2>7. clean => Apart(Merge(table, changes))
        BY <1>2, <2>1, <2>4, ImportKeepsApart DEF World
    <2> HIDE DEF m, changes
    <2>8. Remembered'
        <3>1. "import" \in PC /\ "parents" \in PC
            BY DEF PC
        <3>2. goal' \in [Proc -> Table] /\ adds' \in [Proc -> SUBSET Remote]
            BY <2>1, <2>3, <2>5 DEF Remembered
        <3>3. /\ parents' \in [Proc -> SUBSET Path] /\ queue' \in [Proc -> SUBSET Nat]
              /\ acts' \in [Proc -> Seq(ActionRecord)] /\ todo' \in [Proc -> SUBSET Nat]
            BY <2>1, <2>2 DEF Remembered
        <3> QED
            BY <2>1, <2>2, <3>1, <3>2, <3>3, PassRemembered
    <2>9. /\ pc'[p] \in {"import", "parents"} /\ acts'[p] = <<>> /\ goal'[p] = changes
        BY <2>1, <2>2, <2>3, PassCounted DEF Remembered, Course, Late
    <2>10. Course(p)'
        <3>1. Busy(p)' /\ DOMAIN acts'[p] = {} /\ pc'[p] \notin {"run", "persist"}
            BY <2>9 DEF Busy, Resting
        <3>2. clean' = clean /\ table' = table
            BY <2>2, PassCounted
        <3> QED
            BY <2>1, <2>2, <2>5, <2>6, <2>7, <2>9, <3>1, <3>2 DEF Course
    <2> QED
        BY <2>2, <2>8, <2>10, PassCounted, Assembled
<1> QED
    BY <1>1, <1>2

LEMMA MakeParentSound ==
    ASSUME Sound, NEW p \in Proc, MakeParent(p)
    PROVE  TypeOK' /\ Course(p)' /\ World'
<1>1. PICK d \in parents[p] :
         IF \E q \in Above[d] : disk[q].kind = "file" THEN Fail(p)
         ELSE /\ disk' = MkdirAll(d)
              /\ parents' = [parents EXCEPT ![p] = @ \ {d}]
              /\ Goto(p, IF parents[p] = {d} THEN "import" ELSE "parents")
              /\ Touches(p)
              /\ UNCHANGED <<table, req, goal, adds, queue, acts, todo, bounds,
                             before, outdated, clean, halted, retry>>
    BY DEF MakeParent
<1>2. CASE \E q \in Above[d] : disk[q].kind = "file"
    <2>1. Return(p, "failed")
        BY <1>1, <1>2 DEF Fail
    <2> QED
        BY <2>1, ReturnSound DEF Resting
<1>3. CASE ~\E q \in Above[d] : disk[q].kind = "file"
    <2>1. /\ disk' = MkdirAll(d)
          /\ parents' = [parents EXCEPT ![p] = @ \ {d}]
          /\ Goto(p, IF parents[p] = {d} THEN "import" ELSE "parents")
          /\ Touches(p)
          /\ UNCHANGED <<table, req, goal, adds, queue, acts, todo, bounds,
                         before, outdated, clean, halted, retry>>
        BY <1>1, <1>3
    <2>2. /\ Remembered /\ Counted /\ World /\ Course(p) /\ table \in Table /\ disk \in Tree
          /\ pc[p] = "parents" /\ Busy(p)
        BY TypeParts DEF Sound, MakeParent, Busy, Resting
    <2>3. d \in Path
        BY <2>2 DEF Remembered
    <2>4. disk' \in Tree
        BY <1>3, <2>1, <2>2, <2>3, MkdirAllTree
    <2>5. Remembered'
        BY <2>1, <2>2 DEF Remembered, Goto, PC
    <2>6. Counted'
        BY <2>1, <2>2 DEF Counted, Touches, Others, bounds
    <2>7. World'
        BY <2>1, <2>2 DEF World
    <2>8. pc'[p] \in {"import", "parents"} /\ acts'[p] = <<>>
        BY <2>1, <2>2 DEF Remembered, Goto, Course, Late
    <2>9. Course(p)'
        <3>1. Busy(p)' /\ DOMAIN acts'[p] = {} /\ pc'[p] \notin {"run", "persist"}
            BY <2>8 DEF Busy, Resting
        <3> QED
            BY <2>1, <2>2, <2>8, <3>1 DEF Course
    <2> QED
        BY <2>1, <2>2, <2>4, <2>5, <2>6, <2>7, <2>9, Assembled
<1> QED
    BY <1>2, <1>3

LEMMA ImportSound ==
    ASSUME Sound, NEW p \in Proc, Import(p)
    PROVE  TypeOK' /\ Course(p)' /\ World'
<1> DEFINE rows == goal[p]
           taken == \E r \in DOMAIN rows, s \in DOMAIN table \ DOMAIN rows :
                        rows[r].alias = table[s].alias
<1>1. /\ Remembered /\ Counted /\ World /\ Course(p) /\ table \in Table /\ disk \in Tree
      /\ pc[p] = "import" /\ Busy(p) /\ rows \in Table
      /\ IsFiniteSet(DOMAIN table) /\ IsFiniteSet(DOMAIN rows)
    BY TypeParts DEF Sound, World, Import, Busy, Resting, Course, Remembered
<1>2. CASE taken \/ adds[p] \cap DOMAIN table # {}
    <2>1. Return(p, "failed")
        BY <1>2 DEF Import, Fail
    <2> QED
        BY <2>1, ReturnSound DEF Resting
<1>3. CASE ~(taken \/ adds[p] \cap DOMAIN table # {})
    <2>1. /\ table' = [x \in DOMAIN table \cup DOMAIN rows |->
                          IF x \in DOMAIN rows THEN rows[x] ELSE table[x]]
          /\ goal' = [goal EXCEPT ![p] = NoRows]
          /\ adds' = [adds EXCEPT ![p] = {}]
          /\ Goto(p, "plan")
          /\ IF DOMAIN rows = {} THEN UNCHANGED <<outdated, clean>> ELSE Writes(p)
          /\ UNCHANGED <<disk, req, parents, queue, acts, todo, bounds,
                         before, disturbed, halted, retry>>
        BY <1>3 DEF Import
    <2>2. table' = Merge(table, rows)
        BY <2>1 DEF Merge
    <2>3. table' \in Table /\ IsFiniteSet(DOMAIN table')
        BY <1>1, <2>2, MergeType
    <2>4. OwnAliases(table')
        <3>1. OwnAliases(rows) /\ OwnAliases(table)
            BY <1>1 DEF Course, World
        <3> QED
            BY <1>3, <2>2, <3>1 DEF OwnAliases, Merge
    <2>5. clean' => Apart(table') /\ InOwnPlace(table')
        <3>1. CASE DOMAIN rows = {}
            <4>1. table' = table
                BY <1>1, <2>1, <3>1 DEF Table
            <4> QED
                BY <1>1, <2>1, <3>1, <4>1 DEF World
        <3>2. CASE DOMAIN rows # {}
            <4>1. clean' = (clean /\ p \notin outdated /\ ~Tangled(table'))
                BY <2>1, <3>2 DEF Writes
            <4> QED
                BY <1>1, <2>2, <4>1, TangledIs DEF Course
        <3> QED
            BY <3>1, <3>2
    <2> HIDE DEF rows
    <2>6. Remembered'
        BY <1>1, <2>1, NoRowsFacts DEF Remembered, Goto, PC
    <2>7. Counted'
        BY <1>1, <2>1 DEF Counted, Writes, Others, bounds
    <2>8. pc'[p] = "plan" /\ acts'[p] = <<>> /\ goal'[p] = NoRows
        BY <1>1, <2>1 DEF Remembered, Goto, Course, Late
    <2>9. Course(p)'
        <3>1. DOMAIN acts'[p] = {}
            BY <2>8
        <3> QED
            BY <1>1, <2>1, <2>8, <3>1, NoRowsFacts DEF Course, Busy, Resting
    <2> QED
        BY <1>1, <2>1, <2>3, <2>4, <2>5, <2>6, <2>7, <2>9, Assembled DEF World
<1> QED
    BY <1>2, <1>3

\* What Planned says of a project is so, and is as the project is listed.
LEMMA PlannedListed ==
    ASSUME table \in Table, disk \in Tree, NEW r \in DOMAIN table
    PROVE  AsListed(Planned(r), table) /\ Planned(r).observed = table[r].local
BY DEF AsListed, Planned, classifyProject

LEMMA PlanWithSound ==
    ASSUME Sound, NEW p \in Proc, pc[p] = "plan", NEW plan \in Seq(ActionRecord),
           \A j \in DOMAIN plan : \E r \in DOMAIN table : plan[j] = Planned(r),
           NEW rest \in SUBSET Nat, PlanWith(p, plan, rest)
    PROVE  TypeOK' /\ Course(p)' /\ World'
<1>1. CASE Return(p, "refused")
    BY <1>1, ReturnSound DEF Resting
<1>2. CASE ~Return(p, "refused")
    <2>1. /\ acts' = [acts EXCEPT ![p] = acts[p] \o plan]
          /\ queue' = [queue EXCEPT ![p] = rest]
          /\ Pass(p, IF rest = {} THEN "check" ELSE "plan")
          /\ UNCHANGED <<req, parents, goal, adds, todo>>
        BY <1>2 DEF PlanWith, Refuse
    <2>2. /\ Remembered /\ Course(p) /\ Busy(p) /\ table \in Table /\ disk \in Tree
          /\ acts[p] \in Seq(ActionRecord)
        BY TypeParts DEF Sound, Busy, Resting, Remembered
    <2>3. acts[p] \o plan \in Seq(ActionRecord)
        BY <2>2, Concatenated
    <2>4. Remembered'
        BY <2>1, <2>2, <2>3, PassCounted DEF Remembered, PC
    <2>5. /\ pc'[p] \in {"check", "plan"} /\ acts'[p] = acts[p] \o plan
          /\ table' = table /\ outdated' = outdated
        BY <2>1, <2>2, PassCounted DEF Remembered
    <2>6. ASSUME NEW i \in DOMAIN acts'[p]
          PROVE  /\ acts'[p][i].remote \in DOMAIN table
                 /\ p \notin outdated => AsListed(acts'[p][i], table)
        <3>1. CASE i \in DOMAIN acts[p] /\ acts'[p][i] = acts[p][i]
            BY <2>2, <3>1 DEF Course
        <3>2. CASE \E j \in DOMAIN plan : acts'[p][i] = plan[j]
            <4>1. PICK r \in DOMAIN table : acts'[p][i] = Planned(r)
                BY <3>2
            <4> QED
                BY <2>2, <4>1, PlannedListed, PlannedType
        <3> QED
            BY <2>2, <2>5, <2>6, <3>1, <3>2, Concatenated
    <2>7. Course(p)'
        <3>1. Busy(p)' /\ pc'[p] \in Late /\ pc'[p] \notin {"parents", "import", "run", "persist"}
            BY <2>5 DEF Busy, Resting, Late
        <3> QED
            BY <2>1, <2>2, <2>5, <2>6, <3>1 DEF Course
    <2> QED
        BY <2>1, <2>4, <2>7, PassCounted, Assembled
<1> QED
    BY <1>1, <1>2

LEMMA PlanSound ==
    ASSUME Sound, NEW p \in Proc, Plan(p)
    PROVE  TypeOK' /\ Course(p)' /\ World'
<1>1. /\ table \in Table /\ disk \in Tree /\ IsFiniteSet(DOMAIN table) /\ OwnAliases(table)
      /\ pc[p] = "plan" /\ queue[p] \in SUBSET Nat
    BY TypeParts DEF Sound, World, Plan, Remembered
<1>2. CASE PlanWith(p, PlanAll, {})
    BY <1>1, <1>2, PlanAllProjects, PlanWithSound
<1>3. CASE Refuse(p)
    BY <1>3, ReturnSound DEF Refuse, Resting
<1>4. ASSUME NEW i \in queue[p], NEW r \in Known(table, Names(req[p])[i]),
             PlanWith(p, <<Planned(r)>>, queue[p] \ {i})
      PROVE  TypeOK' /\ Course(p)' /\ World'
    <2>1. r \in DOMAIN table
        BY DEF Known
    <2>2. Planned(r) \in ActionRecord
        BY <1>1, <2>1, PlannedType
    <2>3. <<Planned(r)>> \in Seq(ActionRecord) /\ DOMAIN <<Planned(r)>> = {1}
        BY <2>2
    <2>4. \A j \in DOMAIN <<Planned(r)>> : <<Planned(r)>>[j] = Planned(r)
        BY <2>3
    <2>5. queue[p] \ {i} \in SUBSET Nat
        BY <1>1
    <2> QED
        BY <1>1, <1>4, <2>1, <2>3, <2>4, <2>5, PlanWithSound
<1> QED
    BY <1>2, <1>3, <1>4 DEF Plan

LEMMA CheckSound ==
    ASSUME Sound, NEW p \in Proc, Check(p)
    PROVE  TypeOK' /\ Course(p)' /\ World'
<1>1. CASE Return(p, "refused")
    BY <1>1, ReturnSound DEF Resting
<1>2. CASE ~Return(p, "refused")
    <2> DEFINE clones == {i \in DOMAIN acts[p] : acts[p][i].action = "clone"}
    <2>1. /\ todo' = [todo EXCEPT ![p] = clones] /\ Pass(p, "run")
          /\ UNCHANGED <<req, parents, goal, adds, queue, acts>>
        BY <1>2 DEF Check, Refuse
    <2>2. /\ Remembered /\ Course(p) /\ pc[p] = "check" /\ Busy(p)
          /\ acts[p] \in Seq(ActionRecord)
        BY TypeParts DEF Sound, Check, Busy, Resting, Remembered
    <2>3. clones \subseteq DOMAIN acts[p] /\ clones \in SUBSET Nat
        BY <2>2
    <2> HIDE DEF clones
    <2>4. Remembered'
        <3>1. "run" \in PC /\ todo' \in [Proc -> SUBSET Nat]
            BY <2>1, <2>2, <2>3 DEF PC, Remembered
        <3>2. /\ parents' \in [Proc -> SUBSET Path] /\ goal' \in [Proc -> Table]
              /\ adds' \in [Proc -> SUBSET Remote] /\ queue' \in [Proc -> SUBSET Nat]
              /\ acts' \in [Proc -> Seq(ActionRecord)]
            BY <2>1, <2>2 DEF Remembered
        <3> QED
            BY <2>1, <2>2, <3>1, <3>2, PassRemembered
    <2>5. /\ pc'[p] = "run" /\ acts' = acts /\ todo'[p] = clones /\ table' = table
          /\ outdated' = outdated
        BY <2>1, <2>2, PassCounted DEF Remembered
    <2>6. Course(p)'
        <3>1. Busy(p)' /\ pc'[p] \in Late
            BY <2>5 DEF Busy, Resting, Late
        <3> QED
            BY <2>1, <2>2, <2>3, <2>5, <3>1 DEF Course
    <2> QED
        BY <2>1, <2>4, <2>6, PassCounted, Assembled
<1> QED
    BY <1>1, <1>2

LEMMA RanSound ==
    ASSUME Sound, NEW p \in Proc, Ran(p)
    PROVE  TypeOK' /\ Course(p)' /\ World'
<1> DEFINE moved == {i \in DOMAIN acts[p] : Misplaced(acts[p][i])}
<1>1. /\ todo' = [todo EXCEPT ![p] = moved] /\ Pass(p, "persist")
      /\ UNCHANGED <<req, parents, goal, adds, queue, acts>>
    BY DEF Ran
<1>2. /\ Remembered /\ Course(p) /\ pc[p] = "run" /\ Busy(p)
      /\ acts[p] \in Seq(ActionRecord)
    BY TypeParts DEF Sound, Ran, Busy, Resting, Remembered
<1>3. moved \subseteq DOMAIN acts[p] /\ moved \in SUBSET Nat /\ \A i \in moved : Misplaced(acts[p][i])
    BY <1>2
<1> HIDE DEF moved
<1>4. Remembered'
    <2>1. "persist" \in PC /\ todo' \in [Proc -> SUBSET Nat]
        BY <1>1, <1>2, <1>3 DEF PC, Remembered
    <2>2. /\ parents' \in [Proc -> SUBSET Path] /\ goal' \in [Proc -> Table]
          /\ adds' \in [Proc -> SUBSET Remote] /\ queue' \in [Proc -> SUBSET Nat]
          /\ acts' \in [Proc -> Seq(ActionRecord)]
        BY <1>1, <1>2 DEF Remembered
    <2> QED
        BY <1>1, <1>2, <2>1, <2>2, PassRemembered
<1>5. /\ pc'[p] = "persist" /\ acts' = acts /\ todo'[p] = moved /\ table' = table
      /\ outdated' = outdated
    BY <1>1, <1>2, PassCounted DEF Remembered
<1>6. \A i \in todo'[p] : Misplaced(acts'[p][i])
    BY <1>3, <1>5
<1>7. Course(p)'
    <2>1. Busy(p)' /\ pc'[p] \in Late
        BY <1>5 DEF Busy, Resting, Late
    <2> QED
        BY <1>1, <1>2, <1>3, <1>5, <1>6, <2>1 DEF Course
<1> QED
    BY <1>1, <1>4, <1>7, PassCounted, Assembled

LEMMA ReadyPut ==
    ASSUME disk \in Tree, NEW p, NEW a \in ActionRecord, Ready(p, a)
    PROVE  /\ ~Blocked(a.path) /\ a.path \in Path
           /\ disk[a.path].kind \in {"absent", "empty", "placeholder"}
           /\ \A node \in Node : Put(a.path, node) \in Tree
<1>1. a.path \in Path
    BY DEF ActionRecord
<1>2. Free(a.path) \/ Owned(a)
    BY DEF Ready
<1>3. Free(a.path) => ~Blocked(a.path) /\ disk[a.path].kind \in {"absent", "empty"}
    BY DEF Free
<1>4. Owned(a) => ~Blocked(a.path) /\ disk[a.path].kind = "placeholder"
    <2> SUFFICES ASSUME Owned(a)
                 PROVE  ~Blocked(a.path) /\ disk[a.path].kind = "placeholder"
        OBVIOUS
    <2>1. disk[a.path].kind = "placeholder"
        BY DEF Owned, PlaceholderOf
    <2>2. \A q \in Above[a.path] : disk[q].kind \in Solid
        BY <1>1, <2>1, TreeFacts
    <2> QED
        BY <2>1, <2>2 DEF Blocked, Solid
<1>5. disk[a.path].kind \notin Solid
    BY <1>2, <1>3, <1>4 DEF Solid
<1> QED
    BY <1>1, <1>2, <1>3, <1>4, <1>5, PutTree

LEMMA ProductType ==
    ASSUME NEW p, NEW a \in ActionRecord
    PROVE  /\ Product(p, a) \in Node
           /\ [Product(p, a) EXCEPT !.kind = "edited"] \in Node
           /\ Product(p, a).kind \in {"checkout", "placeholder"}
<1>1. a.remote \in Remote \cup {NoRemote} /\ a.alias \in Name
    BY DEF ActionRecord
<1>2. /\ PlaceholderOf(a.remote, a.alias) \in Node
      /\ CheckoutOf(a.remote) \in Node
    BY <1>1 DEF PlaceholderOf, CheckoutOf, Node, Kind
<1>3. Product(p, a) \in Node /\ Product(p, a).kind \in {"checkout", "placeholder"}
    BY <1>2 DEF Product, PlaceholderOf, CheckoutOf
<1>4. [Product(p, a) EXCEPT !.kind = "edited"] \in Node
    BY <1>3 DEF Node, Kind
<1> QED
    BY <1>3, <1>4

LEMMA RunSound ==
    ASSUME Sound, NEW p \in Proc, Run(p)
    PROVE  TypeOK' /\ Course(p)' /\ World'
<1>1. /\ Remembered /\ Counted /\ World /\ Course(p) /\ table \in Table /\ disk \in Tree
      /\ pc[p] = "run" /\ Busy(p) /\ acts[p] \in Seq(ActionRecord)
    BY TypeParts DEF Sound, Run, Busy, Resting, Remembered
<1>2. CASE Return(p, "refused") \/ Return(p, "failed")
    BY <1>2, ReturnSound DEF Resting
<1>3. ASSUME NEW i \in todo[p], Ready(p, acts[p][i]),
             disk' = Put(acts[p][i].path, Product(p, acts[p][i])),
             todo' = [todo EXCEPT ![p] = @ \ {i}],
             disturbed' = disturbed \/ Touches(p),
             UNCHANGED <<table, pc, req, parents, goal, adds, queue, acts, bounds,
                         before, outdated, clean, halted, retry>>
      PROVE  TypeOK' /\ Course(p)' /\ World'
    <2>1. i \in DOMAIN acts[p]
        BY <1>1 DEF Course
    <2>2. acts[p][i] \in ActionRecord
        BY <1>1, <2>1
    <2>3. disk' \in Tree
        BY <1>1, <1>3, <2>2, ReadyPut, ProductType
    <2>4. Remembered'
        BY <1>1, <1>3 DEF Remembered
    <2>5. Counted'
        BY <1>1, <1>3 DEF Counted, Touches, Others, bounds
    <2>6. World'
        BY <1>1, <1>3 DEF World
    <2>7. todo'[p] \subseteq DOMAIN acts[p]
        BY <1>1, <1>3 DEF Remembered, Course
    <2>8. Course(p)'
        BY <1>1, <1>3, <2>7 DEF Course, Busy
    <2> QED
        BY <1>1, <1>3, <2>3, <2>4, <2>5, <2>6, <2>8, Assembled
<1> QED
    <2>1. PICK i \in todo[p] :
             LET a == acts[p][i]
                 stuck == Blocked(a.path) /\ ~req[p].placeholders
             IN  \/ /\ Ready(p, a)
                    /\ disk' = Put(a.path, Product(p, a))
                    /\ todo' = [todo EXCEPT ![p] = @ \ {i}]
                    /\ IF disk' = disk THEN UNCHANGED disturbed ELSE Touches(p)
                    /\ UNCHANGED <<table, pc, req, parents, goal, adds, queue, acts, bounds,
                                   before, outdated, clean, halted, retry>>
                 \/ ~Ready(p, a) /\ stuck /\ Fail(p)
                 \/ ~Ready(p, a) /\ ~stuck /\ Refuse(p)
        BY DEF Run
    <2> QED
        BY <1>2, <1>3, <2>1 DEF Refuse, Fail

LEMMA DoneSound ==
    ASSUME Sound, NEW p \in Proc, Done(p)
    PROVE  TypeOK' /\ Course(p)' /\ World'
BY ReturnSound DEF Done, Resting

\* An interrupted MkdirAll has made some of the directories.
LEMMA MadeTree ==
    ASSUME disk \in Tree, NEW d \in Path, ~Blocked(d), NEW new \in Made(d)
    PROVE  /\ new \in Tree
           /\ \A q \in Path : q \notin Above[d] => new[q] = disk[q]
           /\ \A q \in Path : disk[q].kind # "file" => new[q].kind # "file"
           /\ \A q \in Path : new[q] # disk[q] =>
                 disk[q].kind \in {"absent", "empty", "placeholder"}
<1>1. PICK e \in Above[d] \cup {d} : new = MkdirAll(e)
    BY DEF Made
<1>2. e \in Path /\ Above[e] \subseteq Above[d] /\ Above[d] \subseteq Path
    BY AboveAssumption
<1>3. \A q \in Above[e] : disk[q].kind # "file"
    BY <1>2 DEF Blocked
<1>4. /\ new \in Tree
      /\ \A q \in Path : new[q] # disk[q] => disk[q].kind \in {"absent", "empty", "placeholder"}
    BY <1>1, <1>2, <1>3, MkdirAllTree
<1>5. \A q \in Path : \/ q \in Above[e] /\ new[q] = Holding(disk[q])
                      \/ q \in Above[e] /\ new[q] = Bare("empty")
                      \/ new[q] = disk[q]
    <2> SUFFICES ASSUME NEW q \in Path
                 PROVE  \/ q \in Above[e] /\ new[q] = Holding(disk[q])
                        \/ q \in Above[e] /\ new[q] = Bare("empty")
                        \/ new[q] = disk[q]
        OBVIOUS
    <2> DEFINE made == {z \in Above[e] : disk[z].kind = "absent"}
    <2>1. new[q] = CASE q \in Above[e] /\ (\E z \in made : q \in Above[z]) -> Holding(disk[q])
                     [] q \in made /\ (\A z \in made : q \notin Above[z]) -> Bare("empty")
                     [] OTHER -> disk[q]
        BY <1>1 DEF MkdirAll
    <2>2. CASE q \in Above[e] /\ (\E z \in made : q \in Above[z])
        BY <2>1, <2>2
    <2>3. CASE ~(q \in Above[e] /\ (\E z \in made : q \in Above[z]))
               /\ q \in made /\ (\A z \in made : q \notin Above[z])
        BY <2>1, <2>3
    <2>4. CASE /\ ~(q \in Above[e] /\ (\E z \in made : q \in Above[z]))
               /\ ~(q \in made /\ (\A z \in made : q \notin Above[z]))
        BY <2>1, <2>4
    <2> QED
        BY <2>2, <2>3, <2>4
<1>6. Bare("empty").kind # "file"
    BY DEF Bare
<1>7. \A q \in Path : disk[q].kind # "file" => Holding(disk[q]).kind # "file"
    BY TreeFacts, HoldingSolid DEF Solid
<1>8. \A q \in Path : disk[q].kind # "file" => new[q].kind # "file"
    BY <1>5, <1>6, <1>7
<1> QED
    BY <1>2, <1>4, <1>5, <1>8

LEMMA PartialType ==
    ASSUME disk \in Tree, NEW p, NEW a \in ActionRecord
    PROVE  Partial(p, a) \subseteq Node
<1>1. /\ Bare("empty") \in Node /\ Bare("dir") \in Node /\ Bare("absent") \in Node
    BY DEF Bare, Node, Kind
<1>2. a.path \in Path /\ disk[a.path] \in Node
    BY TreeFacts DEF ActionRecord
<1>3. [disk[a.path] EXCEPT !.kind = "edited"] \in Node
    BY <1>2 DEF Node, Kind
<1>4. Product(p, a) \in Node /\ [Product(p, a) EXCEPT !.kind = "edited"] \in Node
    BY ProductType
<1>5. CASE req[p].placeholders /\ Owned(a)
    BY <1>5 DEF Partial
<1>6. CASE req[p].placeholders /\ ~Owned(a)
    BY <1>1, <1>4, <1>6 DEF Partial
<1>7. CASE ~req[p].placeholders /\ Owned(a)
    BY <1>1, <1>3, <1>7 DEF Partial
<1>8. CASE ~req[p].placeholders /\ ~Owned(a)
    BY <1>1, <1>4, <1>8 DEF Partial
<1> QED
    BY <1>5, <1>6, <1>7, <1>8

LEMMA RemainsCases ==
    ASSUME NEW p, NEW new \in Remains(p)
    PROVE  \/ new = disk
           \/ /\ pc[p] = "parents"
              /\ \E d \in parents[p] : ~Blocked(d) /\ new \in Made(d)
           \/ /\ pc[p] = "run"
              /\ \E i \in todo[p] : Ready(p, acts[p][i]) /\ new \in Left(p, acts[p][i])
<1>1. new = disk \/ new \in LeftOfParents(p) \/ new \in LeftOfActions(p)
    BY DEF Remains
<1>2. new \in LeftOfParents(p) =>
          \E d \in {e \in parents[p] : pc[p] = "parents" /\ ~Blocked(e)} : new \in Made(d)
    BY DEF LeftOfParents
<1>3. new \in LeftOfActions(p) =>
          \E i \in {j \in todo[p] : pc[p] = "run" /\ Due(j, todo[p]) /\ Ready(p, acts[p][j])} :
              new \in Left(p, acts[p][i])
    BY DEF LeftOfActions
<1> QED
    BY <1>1, <1>2, <1>3

LEMMA RemainsTree ==
    ASSUME Sound, NEW p \in Proc, NEW new \in Remains(p)
    PROVE  new \in Tree
<1>1. Remembered /\ Course(p) /\ disk \in Tree
    BY TypeParts DEF Sound
<1>2. CASE new = disk
    BY <1>1, <1>2
<1>3. CASE \E d \in parents[p] : ~Blocked(d) /\ new \in Made(d)
    <2>1. PICK d \in parents[p] : ~Blocked(d) /\ new \in Made(d)
        BY <1>3
    <2>2. d \in Path
        BY <1>1, <2>1 DEF Remembered
    <2> QED
        BY <1>1, <2>1, <2>2, MadeTree
<1>4. CASE pc[p] = "run" /\ \E i \in todo[p] : Ready(p, acts[p][i]) /\ new \in Left(p, acts[p][i])
    <2>1. PICK i \in todo[p] : Ready(p, acts[p][i]) /\ new \in Left(p, acts[p][i])
        BY <1>4
    <2> DEFINE a == acts[p][i]
    <2>2. acts[p] \in Seq(ActionRecord) /\ i \in DOMAIN acts[p]
        BY <1>1, <1>4, <2>1 DEF Remembered, Course
    <2>3. a \in ActionRecord
        BY <2>2
    <2>4. new \in Left(p, a) /\ Ready(p, a)
        BY <2>1
    <2> HIDE DEF a
    <2>5. a.path \in Path /\ ~Blocked(a.path) /\ \A node \in Node : Put(a.path, node) \in Tree
        BY <1>1, <2>3, <2>4, ReadyPut
    <2>6. CASE new \in Made(a.path)
        BY <1>1, <2>5, <2>6, MadeTree
    <2>7. CASE \E node \in Partial(p, a) : new = Put(a.path, node)
        BY <1>1, <2>3, <2>5, <2>7, PartialType
    <2> QED
        BY <2>4, <2>6, <2>7 DEF Left
<1> QED
    BY <1>2, <1>3, <1>4, RemainsCases

LEMMA BreakSound ==
    ASSUME Sound, NEW p \in Proc, Break(p)
    PROVE  TypeOK' /\ Course(p)' /\ World'
<1>1. /\ Remembered /\ Counted /\ World /\ Course(p) /\ table \in Table
    BY TypeParts DEF Sound
<1>2. /\ \E label \in {"failed", "refused"} : End(p, label)
      /\ UNCHANGED <<table, ops, outdated, clean>>
      /\ disturbed' = disturbed \cup {p} \cup {q \in Others(p) : disk' # disk}
      /\ Mishap /\ disk' \in Remains(p)
    BY DEF Break
<1>3. Remembered' /\ Course(p)'
    BY <1>1, <1>2, EndCourse DEF Resting
<1>4. halted' \in Requests \cup {NoRequest}
    BY <1>1 DEF Break, Remembered
<1>5. mishaps' \in 0..MaxMishaps
    BY <1>1, <1>2, BoundsAssumption DEF Mishap, Counted
<1>6. Counted'
    BY <1>1, <1>2, <1>4, <1>5 DEF Counted, Others
<1>7. World'
    BY <1>1, <1>2 DEF World
<1>8. disk' \in Tree
    BY <1>2, RemainsTree
<1> QED
    BY <1>1, <1>2, <1>3, <1>6, <1>7, <1>8, Assembled

\* Recording where a project has been cloned leaves its source and the place it was
\* imported for, unless the plan was outdated.
LEMMA PersistRow ==
    ASSUME Sound, NEW p \in Proc, pc[p] = "persist", NEW i \in todo[p],
           Known(table, acts[p][i].alias) \ {acts[p][i].remote} = {},
           table' = [table EXCEPT ![acts[p][i].remote] =
                        [alias |-> acts[p][i].alias, local |-> acts[p][i].path,
                         canon |-> acts[p][i].path, source |-> "canonical"]]
    PROVE  LET r == acts[p][i].remote
           IN  /\ i \in DOMAIN acts[p] /\ r \in DOMAIN table
               /\ table' \in Table /\ DOMAIN table' = DOMAIN table
               /\ OwnAliases(table')
               /\ \A s \in DOMAIN table : s # r => table'[s] = table[s]
               /\ table'[r].local = acts[p][i].path
               /\ p \notin outdated =>
                     /\ table[r].source = "canonical"
                     /\ table'[r].alias = table[r].alias
                     /\ table'[r].canon = table[r].canon
                     /\ table'[r].source = table[r].source
<1> DEFINE a == acts[p][i]
           r == a.remote
           new == [alias |-> a.alias, local |-> a.path, canon |-> a.path, source |-> "canonical"]
<1>1. /\ Course(p) /\ table \in Table /\ acts[p] \in Seq(ActionRecord) /\ OwnAliases(table)
    BY TypeParts DEF Sound, World, Remembered
<1>2. i \in DOMAIN acts[p] /\ r \in DOMAIN table /\ Misplaced(a)
    BY <1>1 DEF Course
<1>3. a \in ActionRecord
    BY <1>1, <1>2
<1>4. new \in Row
    BY <1>3 DEF ActionRecord, Row
<1>5. PICK S \in SUBSET Remote : table \in [S -> Row]
    BY <1>1 DEF Table
<1>6. p \notin outdated => AsListed(a, table)
    BY <1>1, <1>2 DEF Course
<1>7. table' = [table EXCEPT ![r] = new]
    OBVIOUS
<1>8. Known(table, a.alias) \ {r} = {}
    OBVIOUS
<1>9. new.alias = a.alias /\ new.local = a.path /\ new.canon = a.path /\ new.source = "canonical"
    OBVIOUS
<1>10. a.source = "canonical"
    BY <1>2 DEF Misplaced
<1> HIDE DEF a, new
<1>11. table' \in [S -> Row] /\ DOMAIN table' = DOMAIN table
    BY <1>4, <1>5, <1>7
<1>12. table' \in Table
    BY <1>11 DEF Table
<1>13. table'[r] = new /\ \A s \in DOMAIN table : s # r => table'[s] = table[s]
    BY <1>2, <1>7
<1>14. OwnAliases(table')
    <2>1. \A s \in DOMAIN table : s # r => table[s].alias # a.alias
        BY <1>8 DEF Known
    <2> QED
        BY <1>1, <1>9, <1>11, <1>13, <2>1 DEF OwnAliases
<1>15. p \notin outdated =>
          /\ table[r].source = "canonical" /\ table[r].alias = a.alias /\ table[r].canon = a.path
    BY <1>6, <1>10 DEF AsListed, hydrationPath
<1> QED
    BY <1>2, <1>9, <1>11, <1>12, <1>13, <1>14, <1>15 DEF a

LEMMA PersistSound ==
    ASSUME Sound, NEW p \in Proc, Persist(p)
    PROVE  TypeOK' /\ Course(p)' /\ World'
<1>1. /\ Remembered /\ Counted /\ World /\ Course(p) /\ table \in Table /\ disk \in Tree
      /\ pc[p] = "persist"
    BY TypeParts DEF Sound, Persist
<1>2. PICK i \in todo[p] :
         LET a == acts[p][i]
         IN  IF Known(table, a.alias) \ {a.remote} # {} THEN Fail(p)
             ELSE /\ table' = [table EXCEPT ![a.remote] =
                                 [alias |-> a.alias, local |-> a.path,
                                  canon |-> a.path, source |-> "canonical"]]
                  /\ todo' = [todo EXCEPT ![p] = @ \ {i}]
                  /\ Writes(p)
                  /\ UNCHANGED <<disk, pc, req, parents, goal, adds, queue, acts, bounds,
                                 before, disturbed, halted, retry>>
    BY DEF Persist
<1> DEFINE a == acts[p][i]
           r == a.remote
<1>3. CASE Known(table, a.alias) \ {r} # {}
    BY <1>2, <1>3, ReturnSound DEF Fail, Resting
<1>4. CASE Known(table, a.alias) \ {r} = {}
    <2>1. /\ table' = [table EXCEPT ![acts[p][i].remote] =
                          [alias |-> acts[p][i].alias, local |-> acts[p][i].path,
                           canon |-> acts[p][i].path, source |-> "canonical"]]
          /\ todo' = [todo EXCEPT ![p] = @ \ {i}]
          /\ Writes(p)
          /\ UNCHANGED <<disk, pc, req, parents, goal, adds, queue, acts, bounds,
                         before, disturbed, halted, retry>>
        BY <1>2, <1>4
    <2>2. /\ i \in DOMAIN acts[p] /\ r \in DOMAIN table
          /\ table' \in Table /\ DOMAIN table' = DOMAIN table
          /\ OwnAliases(table')
          /\ \A s \in DOMAIN table : s # r => table'[s] = table[s]
          /\ p \notin outdated =>
                /\ table[r].source = "canonical"
                /\ table'[r].alias = table[r].alias
                /\ table'[r].canon = table[r].canon
                /\ table'[r].source = table[r].source
        BY <1>1, <1>4, <2>1, PersistRow
    <2> HIDE DEF a, r
    <2>3. clean' => /\ clean /\ p \notin outdated /\ InOwnPlace(table')
        BY <2>1, TangledIs DEF Writes
    <2>4. clean' => Apart(table')
        <3>1. p \notin outdated => \A s \in DOMAIN table : /\ table'[s].canon = table[s].canon
                                                           /\ table'[s].source = table[s].source
            BY <2>2
        <3> QED
            BY <1>1, <2>2, <2>3, <3>1 DEF Apart, World
    <2>5. World'
        BY <1>1, <2>2, <2>3, <2>4 DEF World
    <2>6. Remembered'
        BY <1>1, <2>1 DEF Remembered
    <2>7. Counted'
        BY <1>1, <2>1 DEF Counted, Writes, Others, bounds
    <2>8. p \notin outdated' => p \notin outdated
        BY <2>1 DEF Writes
    <2>9. ASSUME NEW j \in DOMAIN acts[p], p \notin outdated
          PROVE  AsListed(acts[p][j], table')
        <3>1. AsListed(acts[p][j], table)
            BY <1>1, <2>9 DEF Course
        <3>2. CASE acts[p][j].remote # r
            BY <2>2, <3>1, <3>2 DEF AsListed
        <3>3. CASE acts[p][j].remote = r
            BY <2>2, <2>9, <3>1, <3>3 DEF AsListed, hydrationPath
        <3> QED
            BY <3>2, <3>3
    <2>10. todo'[p] \subseteq todo[p]
        BY <1>1, <2>1 DEF Remembered
    <2>11. Course(p)'
        <3>1. pc[p] \in Late /\ pc[p] \notin {"parents", "import"}
            BY <1>1 DEF Late
        <3> QED
            BY <1>1, <2>1, <2>2, <2>8, <2>9, <2>10, <3>1 DEF Course, Busy
    <2> QED
        BY <1>1, <2>1, <2>2, <2>5, <2>6, <2>7, <2>11, Assembled
<1> QED
    BY <1>3, <1>4

-----------------------------------------------------------------------------
(***************************************************************************)
(* What a step is to everybody else.                                       *)
(***************************************************************************)

Untouched(s) ==
    /\ pc'[s] = pc[s] /\ req'[s] = req[s] /\ parents'[s] = parents[s] /\ goal'[s] = goal[s]
    /\ adds'[s] = adds[s] /\ queue'[s] = queue[s] /\ acts'[s] = acts[s] /\ todo'[s] = todo[s]
    /\ before'[s] = before[s] /\ retry'[s] = retry[s]

\* s knows of what has happened meanwhile.
Told(s) ==
    /\ s \in outdated => s \in outdated'
    /\ s \in disturbed => s \in disturbed'
    /\ table' # table /\ Busy(s) => s \in outdated'
    /\ disk' # disk /\ Busy(s) => s \in disturbed'

Grown == DOMAIN table \subseteq DOMAIN table' /\ (clean' => clean)

LEMMA EndUntouched ==
    ASSUME Remembered, NEW p \in Proc, NEW label, End(p, label), NEW s \in Proc \ {p}
    PROVE  Untouched(s)
BY DEF Remembered, End, Goto, Untouched

LEMMA ReturnOthers ==
    ASSUME Remembered, NEW p \in Proc, NEW label, Return(p, label), NEW s \in Proc \ {p}
    PROVE  Untouched(s) /\ Told(s) /\ Grown
BY EndUntouched DEF Return, Told, Grown, others

LEMMA PassOthers ==
    ASSUME Remembered, NEW p \in Proc, NEW label, Pass(p, label), NEW s \in Proc \ {p}
    PROVE  /\ Told(s) /\ Grown
           /\ pc'[s] = pc[s] /\ before'[s] = before[s] /\ retry'[s] = retry[s]
BY DEF Remembered, Pass, Goto, Told, Grown, history, others

LEMMA PlanningOthers ==
    ASSUME Remembered, NEW p \in Proc,
           (\E q \in Requests : Begin(p, q)) \/ DryRun(p) \/ Entries(p) \/ Agree(p) \/ Plan(p)
           \/ Check(p) \/ Ran(p) \/ Done(p),
           NEW s \in Proc \ {p}
    PROVE  Untouched(s) /\ Told(s) /\ Grown
<1>1. CASE \E q \in Requests : Begin(p, q)
    BY <1>1 DEF Remembered, Begin, Goto, Untouched, Told, Grown
<1>2. CASE DryRun(p)
    <2>1. CASE Return(p, "refused")
        BY <2>1, ReturnOthers
    <2>2. CASE ~Return(p, "refused")
        <3>1. /\ \E S : parents' = [parents EXCEPT ![p] = S]
              /\ Pass(p, "entries") /\ UNCHANGED <<req, goal, adds, queue, acts, todo>>
            BY <1>2, <2>2 DEF DryRun, Refuse
        <3> QED
            BY <3>1, PassOthers DEF Remembered, Untouched
    <2> QED
        BY <2>1, <2>2
<1>3. CASE Entries(p)
    <2>1. CASE Return(p, "refused")
        BY <2>1, ReturnOthers
    <2>2. CASE ~Return(p, "refused")
        <3>1. Pass(p, "agree") /\ UNCHANGED locals
            BY <1>3, <2>2 DEF Entries, Refuse
        <3> QED
            BY <3>1, PassOthers DEF Untouched, locals
    <2> QED
        BY <2>1, <2>2
<1>4. CASE Agree(p)
    <2>1. CASE Return(p, "failed")
        BY <2>1, ReturnOthers
    <2>2. CASE ~Return(p, "failed")
        <3>1. /\ \E g : goal' = [goal EXCEPT ![p] = g]
              /\ \E S : adds' = [adds EXCEPT ![p] = S]
              /\ \E label : Pass(p, label)
              /\ UNCHANGED <<req, parents, queue, acts, todo>>
            BY <1>4, <2>2 DEF Agree, Fail
        <3> QED
            BY <3>1, PassOthers DEF Remembered, Untouched
    <2> QED
        BY <2>1, <2>2
<1>5. CASE Plan(p)
    <2>1. CASE Return(p, "refused")
        BY <2>1, ReturnOthers
    <2>2. CASE ~Return(p, "refused")
        <3>1. /\ \E u : acts' = [acts EXCEPT ![p] = u]
              /\ \E S : queue' = [queue EXCEPT ![p] = S]
              /\ \E label : Pass(p, label)
              /\ UNCHANGED <<req, parents, goal, adds, todo>>
            BY <1>5, <2>2 DEF Plan, PlanWith, Refuse
        <3> QED
            BY <3>1, PassOthers DEF Remembered, Untouched
    <2> QED
        BY <2>1, <2>2
<1>6. CASE Check(p)
    <2>1. CASE Return(p, "refused")
        BY <2>1, ReturnOthers
    <2>2. CASE ~Return(p, "refused")
        <3>1. /\ \E S : todo' = [todo EXCEPT ![p] = S]
              /\ Pass(p, "run") /\ UNCHANGED <<req, parents, goal, adds, queue, acts>>
            BY <1>6, <2>2 DEF Check, Refuse
        <3> QED
            BY <3>1, PassOthers DEF Remembered, Untouched
    <2> QED
        BY <2>1, <2>2
<1>7. CASE Ran(p)
    <2>1. /\ \E S : todo' = [todo EXCEPT ![p] = S]
          /\ Pass(p, "persist") /\ UNCHANGED <<req, parents, goal, adds, queue, acts>>
        BY <1>7 DEF Ran
    <2> QED
        BY <2>1, PassOthers DEF Remembered, Untouched
<1>8. CASE Done(p)
    BY <1>8, ReturnOthers DEF Done
<1> QED
    BY <1>1, <1>2, <1>3, <1>4, <1>5, <1>6, <1>7, <1>8

LEMMA WritingOthers ==
    ASSUME Sound, NEW p \in Proc,
           MakeParent(p) \/ Import(p) \/ Run(p) \/ Persist(p) \/ Break(p),
           NEW s \in Proc \ {p}
    PROVE  Untouched(s) /\ Told(s) /\ Grown
<1>1. Remembered /\ table \in Table
    BY TypeParts DEF Sound
<1>2. ASSUME NEW label, Return(p, label)
      PROVE  Untouched(s) /\ Told(s) /\ Grown
    BY <1>1, <1>2, ReturnOthers
<1>3. CASE MakeParent(p)
    <2>1. CASE Return(p, "failed")
        BY <1>2, <2>1
    <2>2. CASE ~Return(p, "failed")
        <3>1. /\ \E S : parents' = [parents EXCEPT ![p] = S]
              /\ \E label : Goto(p, label)
              /\ Touches(p)
              /\ UNCHANGED <<table, req, goal, adds, queue, acts, todo, bounds,
                             before, outdated, clean, halted, retry>>
            BY <1>3, <2>2 DEF MakeParent, Fail
        <3> QED
            BY <1>1, <3>1 DEF Remembered, Untouched, Told, Grown, Goto, Touches, Others
    <2> QED
        BY <2>1, <2>2
<1>4. CASE Import(p)
    <2>1. CASE Return(p, "failed")
        BY <1>2, <2>1
    <2>2. CASE ~Return(p, "failed")
        <3>1. /\ table' = Merge(table, goal[p])
              /\ goal' = [goal EXCEPT ![p] = NoRows]
              /\ adds' = [adds EXCEPT ![p] = {}]
              /\ Goto(p, "plan")
              /\ IF DOMAIN goal[p] = {} THEN UNCHANGED <<outdated, clean>> ELSE Writes(p)
              /\ UNCHANGED <<disk, req, parents, queue, acts, todo, bounds,
                             before, disturbed, halted, retry>>
            BY <1>4, <2>2 DEF Import, Fail, Merge
        <3>2. DOMAIN table \subseteq DOMAIN table' /\ (DOMAIN goal[p] = {} => table' = table)
            BY <1>1, <3>1 DEF Merge, Table
        <3>3. (clean' => clean) /\ (s \in outdated => s \in outdated')
              /\ (table' # table /\ Busy(s) => s \in outdated')
            BY <3>1, <3>2 DEF Writes, Others
        <3>4. Untouched(s)
            BY <1>1, <3>1 DEF Remembered, Untouched, Goto
        <3> QED
            BY <3>1, <3>2, <3>3, <3>4 DEF Told, Grown
    <2> QED
        BY <2>1, <2>2
<1>5. CASE Run(p)
    <2>1. CASE Return(p, "refused") \/ Return(p, "failed")
        BY <1>2, <2>1
    <2>2. CASE ~(Return(p, "refused") \/ Return(p, "failed"))
        <3>1. /\ \E S : todo' = [todo EXCEPT ![p] = S]
              /\ IF disk' = disk THEN UNCHANGED disturbed ELSE Touches(p)
              /\ UNCHANGED <<table, pc, req, parents, goal, adds, queue, acts, bounds,
                             before, outdated, clean, halted, retry>>
            BY <1>5, <2>2 DEF Run, Refuse, Fail
        <3> QED
            BY <1>1, <3>1 DEF Remembered, Untouched, Told, Grown, Touches, Others
    <2> QED
        BY <2>1, <2>2
<1>6. CASE Persist(p)
    <2>1. CASE Return(p, "failed")
        BY <1>2, <2>1
    <2>2. CASE ~Return(p, "failed")
        <3>1. /\ \E r, row : table' = [table EXCEPT ![r] = row]
              /\ \E S : todo' = [todo EXCEPT ![p] = S]
              /\ Writes(p)
              /\ UNCHANGED <<disk, pc, req, parents, goal, adds, queue, acts, bounds,
                             before, disturbed, halted, retry>>
            BY <1>6, <2>2 DEF Persist, Fail
        <3> QED
            BY <1>1, <3>1 DEF Remembered, Untouched, Told, Grown, Writes, Others
    <2> QED
        BY <2>1, <2>2
<1>7. CASE Break(p)
    <2>1. /\ \E label : End(p, label)
          /\ disturbed' = disturbed \cup {p} \cup {q \in Others(p) : disk' # disk}
          /\ UNCHANGED <<table, ops, outdated, clean>>
        BY <1>7 DEF Break
    <2>2. Untouched(s)
        BY <1>1, <2>1, EndUntouched
    <2> QED
        BY <2>1, <2>2 DEF Told, Grown, Others
<1> QED
    BY <1>3, <1>4, <1>5, <1>6, <1>7

LEMMA OthersCourse ==
    ASSUME Sound, NEW s \in Proc, Untouched(s), Told(s), Grown
    PROVE  Course(s)'
<1>1. Course(s)
    BY DEF Sound
<1>2. CASE table' = table
    BY <1>1, <1>2 DEF Course, Busy, Untouched, Told, Grown
<1>3. CASE table' # table /\ Busy(s)
    BY <1>1, <1>3 DEF Course, Busy, Untouched, Told, Grown
<1>4. CASE ~Busy(s)
    <2>1. pc[s] \notin Late /\ pc[s] \notin {"parents", "import"}
        BY <1>4 DEF Busy, Late, Resting
    <2>2. acts'[s] = <<>> /\ DOMAIN acts'[s] = {}
        BY <1>1, <2>1 DEF Course, Untouched
    <2> QED
        BY <1>1, <1>4, <2>1, <2>2 DEF Course, Busy, Untouched, Late
<1> QED
    BY <1>2, <1>3, <1>4

LEMMA StepSound ==
    ASSUME Sound, NEW p \in Proc, Step(p)
    PROVE  Sound'
<1>1. /\ TypeOK' /\ Course(p)' /\ World'
      /\ \A s \in Proc \ {p} : Untouched(s) /\ Told(s) /\ Grown
    <2>0. Remembered
        BY TypeParts DEF Sound
    <2>1. CASE \E q \in Requests : Begin(p, q)
        BY <2>0, <2>1, BeginSound, PlanningOthers
    <2>2. CASE DryRun(p)
        BY <2>0, <2>2, DryRunSound, PlanningOthers
    <2>3. CASE Entries(p)
        BY <2>0, <2>3, EntriesSound, PlanningOthers
    <2>4. CASE Agree(p)
        BY <2>0, <2>4, AgreeSound, PlanningOthers
    <2>5. CASE MakeParent(p)
        BY <2>5, MakeParentSound, WritingOthers
    <2>6. CASE Import(p)
        BY <2>6, ImportSound, WritingOthers
    <2>7. CASE Plan(p)
        BY <2>0, <2>7, PlanSound, PlanningOthers
    <2>8. CASE Check(p)
        BY <2>0, <2>8, CheckSound, PlanningOthers
    <2>9. CASE Run(p)
        BY <2>9, RunSound, WritingOthers
    <2>10. CASE Ran(p)
        BY <2>0, <2>10, RanSound, PlanningOthers
    <2>11. CASE Persist(p)
        BY <2>11, PersistSound, WritingOthers
    <2>12. CASE Done(p)
        BY <2>0, <2>12, DoneSound, PlanningOthers
    <2>13. CASE Break(p)
        BY <2>13, BreakSound, WritingOthers
    <2> QED
        BY <2>1, <2>2, <2>3, <2>4, <2>5, <2>6, <2>7, <2>8, <2>9, <2>10, <2>11, <2>12,
           <2>13 DEF Step
<1>2. \A s \in Proc \ {p} : Course(s)'
    BY <1>1, OthersCourse
<1> QED
    BY <1>1, <1>2 DEF Sound

LEMMA OutsideOthers ==
    ASSUME Sound, User \/ \E r \in DOMAIN table, d \in Path : Scan(r, d), NEW s \in Proc
    PROVE  Untouched(s) /\ Told(s) /\ Grown
<1>1. table \in Table
    BY DEF Sound, TypeOK
<1>2. CASE User
    BY <1>2 DEF User, Untouched, Told, Grown, locals
<1>3. CASE \E r \in DOMAIN table, d \in Path : Scan(r, d)
    <2>1. \E r, row : table' = [table EXCEPT ![r] = row]
        BY <1>3 DEF Scan
    <2>2. DOMAIN table' = DOMAIN table
        BY <1>1, <2>1 DEF Table
    <2> QED
        BY <1>3, <2>2 DEF Scan, Untouched, Told, Grown, locals
<1> QED
    BY <1>2, <1>3

LEMMA UserSound ==
    ASSUME Sound, User
    PROVE  Sound'
<1>1. /\ Remembered /\ Counted /\ World /\ table \in Table
    BY TypeParts DEF Sound
<1>2. /\ disk' \in Tree /\ UNCHANGED <<table, pc, locals, ops, before, outdated, clean, retry>>
      /\ disturbed' \subseteq disturbed \cup Proc /\ Mishap /\ halted' = NoRequest
    BY DEF User
<1>3. Remembered'
    BY <1>1, <1>2 DEF Remembered, locals
<1>4. Counted'
    BY <1>1, <1>2, BoundsAssumption DEF Counted, Mishap
<1>5. World'
    BY <1>1, <1>2 DEF World
<1>6. \A s \in Proc : Course(s)'
    BY OutsideOthers, OthersCourse
<1>7. TypeOK'
    BY <1>1, <1>2, <1>3, <1>4, Assembled
<1> QED
    BY <1>5, <1>6, <1>7 DEF Sound

LEMMA ScanSound ==
    ASSUME Sound, NEW r \in DOMAIN table, NEW d \in Path, Scan(r, d)
    PROVE  Sound'
<1>1. Remembered /\ Counted /\ World /\ table \in Table /\ disk \in Tree
    BY TypeParts DEF Sound
<1> DEFINE row == IF table[r].source = "canonical" THEN [table[r] EXCEPT !.local = d]
                  ELSE [table[r] EXCEPT !.local = d, !.canon = d]
<1>2. /\ table' = [table EXCEPT ![r] = row]
      /\ UNCHANGED <<disk, pc, locals, ops, before, disturbed, retry>>
      /\ outdated' \subseteq outdated \cup Proc /\ Mishap /\ halted' = NoRequest
      /\ clean' = (clean /\ ~Tangled(table'))
    BY DEF Scan
<1>3. PICK S \in SUBSET Remote : table \in [S -> Row]
    BY <1>1 DEF Table
<1>4. /\ row \in Row /\ row.alias = table[r].alias /\ row.source = table[r].source
      /\ table[r].source = "canonical" => row.canon = table[r].canon
    <2>1. table[r] \in Row
        BY <1>3
    <2> QED
        BY <2>1 DEF Row
<1> HIDE DEF row
<1>5. table' \in [S -> Row] /\ DOMAIN table' = DOMAIN table
    BY <1>2, <1>3, <1>4
<1>6. table' \in Table
    BY <1>5 DEF Table
<1>7. \A s \in DOMAIN table :
         /\ table'[s].alias = table[s].alias /\ table'[s].source = table[s].source
         /\ table[s].source = "canonical" => table'[s].canon = table[s].canon
    BY <1>2, <1>3, <1>4
<1>8. World'
    <2>1. OwnAliases(table')
        BY <1>1, <1>5, <1>7 DEF World, OwnAliases
    <2>2. clean' => Apart(table')
        <3> SUFFICES ASSUME clean', NEW x \in DOMAIN table, NEW y \in DOMAIN table, x # y,
                            table'[x].source = "canonical", table'[y].source = "canonical"
                     PROVE  ~Overlap(table'[x].canon, table'[y].canon)
            BY <1>5 DEF Apart
        <3>1. Apart(table)
            BY <1>1, <1>2 DEF World
        <3>2. table'[x].canon = table[x].canon /\ table'[y].canon = table[y].canon
            BY <1>7
        <3>3. table[x].source = "canonical" /\ table[y].source = "canonical"
            BY <1>7
        <3> QED
            BY <3>1, <3>2, <3>3 DEF Apart
    <2>3. clean' => InOwnPlace(table')
        BY <1>2, TangledIs
    <2> QED
        BY <1>1, <1>5, <2>1, <2>2, <2>3 DEF World
<1>9. Remembered'
    BY <1>1, <1>2 DEF Remembered, locals
<1>10. Counted'
    BY <1>1, <1>2, BoundsAssumption DEF Counted, Mishap
<1>11. \A s \in Proc : Course(s)'
    BY OutsideOthers, OthersCourse
<1>12. TypeOK'
    BY <1>1, <1>2, <1>6, <1>9, <1>10, Assembled
<1> QED
    BY <1>8, <1>11, <1>12 DEF Sound

LEMMA NextSound == Sound /\ [Next]_vars => Sound'
<1> SUFFICES ASSUME Sound, [Next]_vars
             PROVE  Sound'
    OBVIOUS
<1>1. CASE \E p \in Proc : Step(p)
    BY <1>1, StepSound
<1>2. CASE User
    BY <1>2, UserSound
<1>3. CASE \E r \in DOMAIN table, d \in Path : Scan(r, d)
    BY <1>3, ScanSound
<1>4. CASE UNCHANGED vars
    <2>1. /\ UNCHANGED <<table, disk, pc, req, parents, goal, adds, queue, acts, todo>>
          /\ UNCHANGED <<ops, mishaps, before, disturbed, outdated, clean, halted, retry>>
        BY <1>4 DEF vars, locals, bounds, history, others
    <2>2. TypeOK' /\ World'
        BY <2>1 DEF Sound, TypeOK, World
    <2>3. \A p \in Proc : Course(p)'
        BY <2>1 DEF Sound, Course, Busy
    <2> QED
        BY <2>2, <2>3 DEF Sound
<1> QED
    BY <1>1, <1>2, <1>3, <1>4 DEF Next

\* Every variable has its type; what a command puts into the tree leaves a tree, in which
\* only directories have something in them.
THEOREM BootstrapTyped == Spec => []TypeOK
<1>1. Sound => TypeOK
    BY DEF Sound
<1> QED
    BY <1>1, InitSound, NextSound, PTL DEF Spec

\* The drift plan of a bootstrap finds a manifest in conflict just when its import plan
\* would (BuildDryRunPlan and PlanImport), for any number of entries.
THEOREM PlannersAlike == Spec => []PlannersAgree
<1>1. Sound => PlannersAgree
    <2> SUFFICES ASSUME Sound, NEW p \in Proc, pc[p] = "dryrun"
                 PROVE  Conflicting(BuildDryRunPlan(table, req[p].entries, disk))
                            <=> Conflicting(PlanImport(table, req[p].entries, disk))
        BY DEF PlannersAgree
    <2>1. req[p] \in Requests
        BY DEF Sound, Course, Busy, Resting
    <2>2. req[p].entries \in Seq(Entry)
        BY <2>1, RequestType
    <2> QED
        BY <2>2, PlansAgree
<1> QED
    BY <1>1, InitSound, NextSound, PTL DEF Spec

\* No two projects ever have an alias in common; nor do imported projects have places in
\* one another's way, until an outdated plan is written or a project turns up in the
\* place of another (ApplyImportPlan, persistClonedCanonicalPlacements).
THEOREM LayoutStaysDisjoint == Spec => []LayoutDisjoint
<1>1. Sound => LayoutDisjoint
    BY DEF Sound, World, OwnAliases, Apart, LayoutDisjoint
<1> QED
    BY <1>1, InitSound, NextSound, PTL DEF Spec

-----------------------------------------------------------------------------
(***************************************************************************)
(* A bootstrap nobody interferes with.  While p is alone, the table and    *)
(* the tree are what it found, but for what it has done itself; the places *)
(* it is going to fill are kept free by its own plan, and every project it *)
(* was asked for has an action or is still to be planned.                  *)
(***************************************************************************)

Early == {"dryrun", "entries", "agree"}
Between == {"parents", "import"}
Blank == {"absent", "empty", "placeholder"}

\* The table p is after.
Aim(p) ==
    LET was == before[p]
        m == req[p].entries
    IN  IF m = <<>> THEN was.table ELSE Merge(was.table, Changes(was.table, m, was.disk))

SamePlaces(t, u) ==
    /\ DOMAIN t = DOMAIN u
    /\ \A r \in DOMAIN t : /\ t[r].alias = u[r].alias
                           /\ t[r].canon = u[r].canon
                           /\ t[r].source = u[r].source

TableKept(p) ==
    /\ pc[p] \in Early \cup Between => table = before[p].table
    /\ pc[p] \in Between => goal[p] = Changes(before[p].table, req[p].entries, before[p].disk)
    /\ pc[p] \in {"plan", "check", "run"} =>
          /\ table = Aim(p)
          /\ \A i \in DOMAIN acts[p] : acts[p][i].observed = table[acts[p][i].remote].local
    /\ pc[p] = "persist" => SamePlaces(table, Aim(p))

TreeKept(p) ==
    /\ pc[p] \in Early => disk = before[p].disk
    /\ req[p].placeholders /\ pc[p] \notin {"run", "persist"} => disk = before[p].disk
    /\ \A d \in Path : disk[d] # before[p].disk[d] => before[p].disk[d].kind \in Blank

ManifestKept(p) ==
    /\ pc[p] \in Early \cup Between => /\ req[p].entries # <<>>
                                       /\ queue[p] = Distinct(Names(req[p]))
    /\ pc[p] \in {"entries", "agree"} \cup Between /\ req[p].placeholders => parents[p] = {}
    /\ pc[p] \notin Early /\ req[p].entries # <<>> =>
          ~Conflicting(PlanImport(before[p].table, req[p].entries, before[p].disk))

Covered(p) ==
    /\ pc[p] = "plan" =>
          /\ req[p].all => queue[p] = {}
          /\ \A r \in Asked(p) : \/ \E i \in DOMAIN acts[p] : acts[p][i].remote = r
                                 \/ \E i \in queue[p] : Names(req[p])[i] = table[r].alias
                                 \/ req[p].all
    /\ pc[p] \in {"check", "run", "persist"} =>
          \A r \in Asked(p) : \E i \in DOMAIN acts[p] : acts[p][i].remote = r

\* The action a is still true of the tree.
Timely(a) ==
    /\ a.action \in {"none", "clone"} /\ (a.action = "none" <=> a.state = "present")
    /\ a.action = "none" => disk[a.path].kind = "checkout"
    /\ a.action = "clone" => Free(a.path) \/ Owned(a)

There(p, a) ==
    /\ disk[a.path].kind = "checkout"
    /\ ~req[p].placeholders => disk[a.path] = CheckoutOf(a.remote)

ActsKept(p) ==
    /\ pc[p] \in {"plan", "check"} => \A i \in DOMAIN acts[p] : Timely(acts[p][i])
    /\ pc[p] \in {"run", "persist"} =>
          /\ \A i, j \in DOMAIN acts[p] :
                acts[p][i] # acts[p][j] => ~Overlap(acts[p][i].path, acts[p][j].path)
          /\ \A i \in DOMAIN acts[p] : /\ acts[p][i].action \in {"none", "clone"}
                                       /\ acts[p][i].action = "none" => There(p, acts[p][i])

Running(p) ==
    pc[p] = "run" =>
        /\ \A i \in todo[p] : acts[p][i].action = "clone"
        /\ \A i \in DOMAIN acts[p] : acts[p][i].action = "clone" =>
              /\ i \in todo[p] \/ disk[acts[p][i].path] = Product(p, acts[p][i])
              /\ req[p].placeholders =>
                    /\ Free(acts[p][i].path) \/ Owned(acts[p][i])
                    /\ disk[acts[p][i].path]
                          \in {before[p].disk[acts[p][i].path], Product(p, acts[p][i])}

Recording(p) ==
    pc[p] = "persist" => \A i \in DOMAIN acts[p] : acts[p][i].action = "clone" =>
        /\ disk[acts[p][i].path] = Product(p, acts[p][i])
        /\ i \in todo[p] \/ table[acts[p][i].remote].local = acts[p][i].path

Undisturbed(p) ==
    /\ TableKept(p) /\ TreeKept(p) /\ ManifestKept(p) /\ Covered(p)
    /\ ActsKept(p) /\ Running(p) /\ Recording(p)

AllUndisturbed == \A p \in Proc : Busy(p) /\ Alone(p) => Undisturbed(p)

LEMMA AloneStays ==
    ASSUME NEW s \in Proc, Told(s), Busy(s), Alone(s)'
    PROVE  Alone(s) /\ table' = table /\ disk' = disk
BY DEF Told, Alone

LEMMA StaysUndisturbed ==
    ASSUME NEW s \in Proc, Untouched(s), Undisturbed(s), table' = table, disk' = disk
    PROVE  Undisturbed(s)'
<1> USE DEF Untouched
<1>1. TableKept(s)'
    BY DEF Undisturbed, TableKept, Aim
<1>2. TreeKept(s)'
    BY DEF Undisturbed, TreeKept
<1>3. ManifestKept(s)'
    BY DEF Undisturbed, ManifestKept
<1>4. Covered(s)'
    BY DEF Undisturbed, Covered, Asked
<1>5. ActsKept(s)'
    BY DEF Undisturbed, ActsKept, Timely, There, Free, Blocked, Owned
<1>6. Running(s)'
    BY DEF Undisturbed, Running, Product, Free, Blocked, Owned
<1>7. Recording(s)'
    BY DEF Undisturbed, Recording, Product
<1> QED
    BY <1>1, <1>2, <1>3, <1>4, <1>5, <1>6, <1>7 DEF Undisturbed

LEMMA PlannedTimely ==
    ASSUME table \in Table, disk \in Tree, NEW r \in DOMAIN table, Planned(r).action # "refuse"
    PROVE  Timely(Planned(r))
<1> DEFINE a == Planned(r)
           state == StateAt(disk, r, table[r])
           d == hydrationPath(table[r])
<1>1. /\ a.remote = r /\ a.alias = table[r].alias /\ a.path = d
      /\ a.action = ActionFor(state) /\ a.state = state
    BY DEF Planned, classifyProject
<1>2. d \in Path /\ disk[d] \in Node /\ table[r] \in Row
    BY PlannedType, TreeFacts
<1>3. state \in {"present", "placeholder", "missing", "path-conflict", "unsafe-path"}
    BY DEF StateAt
<1>4. state \notin {"path-conflict", "unsafe-path"}
    BY <1>1, <1>3 DEF ActionFor
<1>5. CASE state = "present"
    <2>1. disk[d].kind = "checkout"
        BY <1>5 DEF StateAt
    <2> QED
        BY <1>1, <1>5, <2>1 DEF Timely, ActionFor
<1>6. CASE state = "placeholder"
    <2>1. disk[d] = PlaceholderOf(r, table[r].alias)
        BY <1>6 DEF StateAt
    <2> QED
        BY <1>1, <1>6, <2>1 DEF Timely, ActionFor, Owned
<1>7. CASE state = "missing"
    <2>1. \/ disk[d].kind = "empty"
          \/ disk[d].kind = "absent" /\ ~Occupied(disk, d)
        BY <1>7 DEF StateAt
    <2>2. disk[d].kind = "empty" => ~Blocked(d)
        BY <1>2, TreeFacts DEF Blocked, Solid
    <2>3. Free(d)
        BY <2>1, <2>2 DEF Free, Blocked, Occupied
    <2> QED
        BY <1>1, <1>7, <2>3 DEF Timely, ActionFor
<1> QED
    BY <1>3, <1>4, <1>5, <1>6, <1>7

LEMMA DistinctCovers ==
    ASSUME NEW S, NEW u \in Seq(S), NEW j \in DOMAIN u
    PROVE  \E i \in Distinct(u) : u[i] = u[j]
<1> DEFINE T == {k \in DOMAIN u : u[k] = u[j]}
<1>1. T \in SUBSET Nat /\ T # {} /\ DOMAIN u = 1..Len(u)
    OBVIOUS
<1> HIDE DEF T
<1>2. PICK i \in T : \A k \in T : i <= k
    BY <1>1, Least
<1>3. i \in DOMAIN u /\ u[i] = u[j]
    BY DEF T
<1>4. \A k \in 1..(i - 1) : u[k] # u[i]
    BY <1>1, <1>2, <1>3 DEF T
<1> QED
    BY <1>3, <1>4 DEF Distinct

\* Putting something where there is room for it changes nothing else but what is above.
LEMMA PutEffect ==
    ASSUME disk \in Tree, NEW p, NEW a \in ActionRecord, Ready(p, a), NEW node \in Node
    PROVE  LET new == Put(a.path, node)
           IN  /\ new[a.path] = node
               /\ \A d \in Path : ~Overlap(d, a.path) => new[d] = disk[d]
               /\ \A d \in Path : d # a.path /\ disk[d].kind # "file" => new[d].kind # "file"
               /\ \A d \in Path : new[d] # disk[d] => disk[d].kind \in Blank
<1> DEFINE new == Put(a.path, node)
<1>1. /\ a.path \in Path /\ disk[a.path].kind \in Blank
      /\ \A q \in Above[a.path] : disk[q].kind # "file"
    BY ReadyPut DEF Blocked, Blank
<1>2. /\ new[a.path] = node
      /\ \A d \in Path : d # a.path /\ d \in Above[a.path] => new[d] = Holding(disk[d])
      /\ \A d \in Path : d # a.path /\ d \notin Above[a.path] => new[d] = disk[d]
    BY <1>1 DEF Put
<1> HIDE DEF new
<1>3. \A d \in Path : ~Overlap(d, a.path) => new[d] = disk[d]
    BY <1>2 DEF Overlap
<1>4. ASSUME NEW d \in Path, d # a.path, disk[d].kind # "file"
      PROVE  new[d].kind # "file"
    BY <1>2, <1>4, TreeFacts, HoldingSolid DEF Solid
<1>5. ASSUME NEW d \in Path, new[d] # disk[d]
      PROVE  disk[d].kind \in Blank
    BY <1>1, <1>2, <1>5, TreeFacts, HoldingSolid DEF Blank
<1> QED
    BY <1>2, <1>3, <1>4, <1>5 DEF new

\* And so does a part of it.
LEMMA LeftEffect ==
    ASSUME disk \in Tree, NEW p, NEW a \in ActionRecord, Ready(p, a), NEW new \in Left(p, a)
    PROVE  /\ \A d \in Path : ~Overlap(d, a.path) => new[d] = disk[d]
           /\ \A d \in Path : d # a.path /\ disk[d].kind # "file" => new[d].kind # "file"
           /\ \A d \in Path : new[d] # disk[d] => disk[d].kind \in Blank
<1>1. a.path \in Path /\ ~Blocked(a.path)
    BY ReadyPut
<1>2. CASE new \in Made(a.path)
    BY <1>1, <1>2, MadeTree DEF Overlap, Blank
<1>3. CASE \E node \in Partial(p, a) : new = Put(a.path, node)
    BY <1>3, PartialType, PutEffect
<1> QED
    BY <1>2, <1>3 DEF Left

LEMMA BeginUndisturbed ==
    ASSUME Sound, NEW p \in Proc, NEW q \in Requests, Begin(p, q)
    PROVE  Undisturbed(p)'
<1>1. Remembered /\ Course(p)
    BY TypeParts DEF Sound
<1>2. /\ pc'[p] = (IF q.entries # <<>> THEN "dryrun" ELSE "plan")
      /\ req'[p] = q /\ queue'[p] = Distinct(Names(q)) /\ table' = table /\ disk' = disk
      /\ before'[p] = [table |-> table, disk |-> disk] /\ acts' = acts
    BY <1>1 DEF Begin, Goto, Remembered
<1>3. before'[p].table = table /\ before'[p].disk = disk
    BY <1>2
<1>4. acts'[p] = <<>>
    <2>1. pc[p] \in Resting
        BY DEF Begin, Busy
    <2> QED
        BY <1>1, <1>2, <2>1 DEF Course, Resting, Late
<1>5. DOMAIN acts'[p] = {}
    BY <1>4
<1>6. TableKept(p)'
    BY <1>2, <1>3, <1>5 DEF TableKept, Aim, Early, Between
<1>7. TreeKept(p)'
    BY <1>2, <1>3 DEF TreeKept
<1>8. ManifestKept(p)'
    BY <1>2, <1>3 DEF ManifestKept, Early, Between
<1>9. Covered(p)'
    <2>1. CASE q.entries # <<>>
        BY <1>2, <2>1 DEF Covered
    <2>2. CASE q.entries = <<>>
        <3>1. q \in Request /\ Names(q) = q.aliases /\ Names(q) \in Seq(Name)
            BY <2>2, RequestType DEF Names
        <3>2. q.all => Distinct(Names(q)) = {}
            BY <3>1 DEF Request, Distinct
        <3>3. ASSUME NEW r \in Asked(p)', ~q.all
              PROVE  \E i \in queue'[p] : Names(req'[p])[i] = table'[r].alias
            <4>1. r \in DOMAIN table /\ table[r].alias \in {q.aliases[i] : i \in DOMAIN q.aliases}
                BY <1>2, <2>2, <3>3 DEF Asked
            <4>2. PICK j \in DOMAIN Names(q) : Names(q)[j] = table[r].alias
                BY <3>1, <4>1
            <4>3. PICK i \in Distinct(Names(q)) : Names(q)[i] = Names(q)[j]
                BY <3>1, DistinctCovers
            <4> QED
                BY <1>2, <4>2, <4>3
        <3> QED
            BY <1>2, <2>2, <3>2, <3>3 DEF Covered
    <2> QED
        BY <2>1, <2>2
<1>10. ActsKept(p)' /\ Running(p)' /\ Recording(p)'
    BY <1>2, <1>5 DEF ActsKept, Running, Recording
<1> QED
    BY <1>6, <1>7, <1>8, <1>9, <1>10 DEF Undisturbed

\* Between two plans nothing is there to be wrong but the table, the tree and the manifest.
LEMMA NothingPlanned ==
    ASSUME NEW p, TableKept(p)', TreeKept(p)', ManifestKept(p)', pc'[p] \in Early \cup Between
    PROVE  Undisturbed(p)'
BY DEF Undisturbed, Covered, ActsKept, Running, Recording, Early, Between

LEMMA DryRunUndisturbed ==
    ASSUME Sound, NEW p \in Proc, Undisturbed(p), DryRun(p), Busy(p)'
    PROVE  Undisturbed(p)'
<1>1. Remembered /\ pc[p] = "dryrun"
    BY TypeParts DEF Sound, DryRun
<1>2. ~Return(p, "refused")
    BY <1>1 DEF Return, End, Goto, Busy, Resting, Remembered
<1>3. /\ Pass(p, "entries") /\ UNCHANGED <<req, goal, adds, queue, acts, todo>>
      /\ req[p].placeholders => parents' = [parents EXCEPT ![p] = {}]
    BY <1>2 DEF DryRun, Refuse
<1>4. /\ pc'[p] = "entries" /\ table' = table /\ disk' = disk /\ before' = before
      /\ req[p].placeholders => parents'[p] = {}
    BY <1>1, <1>3, PassCounted DEF Remembered
<1>5. TableKept(p)'
    BY <1>1, <1>3, <1>4 DEF Undisturbed, TableKept, Early, Between
<1>6. TreeKept(p)'
    BY <1>1, <1>3, <1>4 DEF Undisturbed, TreeKept, Early
<1>7. ManifestKept(p)'
    BY <1>1, <1>3, <1>4 DEF Undisturbed, ManifestKept, Early
<1> QED
    BY <1>4, <1>5, <1>6, <1>7, NothingPlanned DEF Early

LEMMA EntriesUndisturbed ==
    ASSUME Sound, NEW p \in Proc, Undisturbed(p), Entries(p), Busy(p)'
    PROVE  Undisturbed(p)'
<1>1. Remembered /\ pc[p] = "entries"
    BY TypeParts DEF Sound, Entries
<1>2. ~Return(p, "refused")
    BY <1>1 DEF Return, End, Goto, Busy, Resting, Remembered
<1>3. Pass(p, "agree") /\ UNCHANGED <<req, parents, goal, adds, queue, acts, todo>>
    BY <1>2 DEF Entries, Refuse, locals
<1>4. /\ pc'[p] = "agree" /\ table' = table /\ disk' = disk /\ before' = before
    BY <1>1, <1>3, PassCounted DEF Remembered
<1>5. TableKept(p)'
    BY <1>1, <1>3, <1>4 DEF Undisturbed, TableKept, Early, Between
<1>6. TreeKept(p)'
    BY <1>1, <1>3, <1>4 DEF Undisturbed, TreeKept, Early
<1>7. ManifestKept(p)'
    BY <1>1, <1>3, <1>4 DEF Undisturbed, ManifestKept, Early
<1> QED
    BY <1>4, <1>5, <1>6, <1>7, NothingPlanned DEF Early

LEMMA AgreeUndisturbed ==
    ASSUME Sound, NEW p \in Proc, Undisturbed(p), Agree(p), Busy(p)'
    PROVE  Undisturbed(p)'
<1>1. Remembered /\ pc[p] = "agree"
    BY TypeParts DEF Sound, Agree
<1>2. ~Return(p, "failed")
    BY <1>1 DEF Return, End, Goto, Busy, Resting, Remembered
<1>3. /\ Pass(p, IF parents[p] = {} THEN "import" ELSE "parents")
      /\ UNCHANGED <<req, parents, queue, acts, todo>>
      /\ goal' = [goal EXCEPT ![p] = Changes(table, req[p].entries, disk)]
      /\ ~Conflicting(PlanImport(table, req[p].entries, disk))
    BY <1>2 DEF Agree, Fail
<1>4. /\ pc'[p] \in Between /\ table' = table /\ disk' = disk /\ before' = before
      /\ goal'[p] = Changes(table, req[p].entries, disk)
    BY <1>1, <1>3, PassCounted DEF Remembered, Between
<1>5. table = before[p].table /\ disk = before[p].disk
    BY <1>1 DEF Undisturbed, TableKept, TreeKept, Early
<1>6. TableKept(p)'
    BY <1>1, <1>3, <1>4, <1>5 DEF TableKept, Early, Between
<1>7. TreeKept(p)'
    BY <1>1, <1>3, <1>4, <1>5 DEF TreeKept
<1>8. ManifestKept(p)'
    BY <1>1, <1>3, <1>4, <1>5 DEF Undisturbed, ManifestKept, Early
<1> QED
    BY <1>4, <1>6, <1>7, <1>8, NothingPlanned

LEMMA MakeParentUndisturbed ==
    ASSUME Sound, NEW p \in Proc, Undisturbed(p), MakeParent(p), Busy(p)'
    PROVE  Undisturbed(p)'
<1>1. Remembered /\ pc[p] = "parents" /\ disk \in Tree
    BY TypeParts DEF Sound, MakeParent
<1>2. ~Return(p, "failed")
    BY <1>1 DEF Return, End, Goto, Busy, Resting, Remembered
<1>3. PICK d \in parents[p] :
         /\ ~\E q \in Above[d] : disk[q].kind = "file"
         /\ disk' = MkdirAll(d)
         /\ parents' = [parents EXCEPT ![p] = @ \ {d}]
         /\ Goto(p, IF parents[p] = {d} THEN "import" ELSE "parents")
         /\ UNCHANGED <<table, req, goal, adds, queue, acts, todo, bounds,
                        before, outdated, clean, halted, retry>>
    BY <1>2 DEF MakeParent, Fail
<1>4. d \in Path /\ pc'[p] \in Between
    BY <1>1, <1>3 DEF Remembered, Goto, Between
<1>5. ~req[p].placeholders
    BY <1>1, <1>3 DEF Undisturbed, ManifestKept, Between
<1>6. \A q \in Path : disk'[q] # disk[q] => disk[q].kind \in Blank
    BY <1>1, <1>3, <1>4, MkdirAllTree DEF Blank
<1>7. TableKept(p)'
    BY <1>1, <1>3, <1>4 DEF Undisturbed, TableKept, Early, Between
<1>8. TreeKept(p)'
    BY <1>1, <1>3, <1>4, <1>5, <1>6 DEF Undisturbed, TreeKept, Early, Between
<1>9. ManifestKept(p)'
    BY <1>1, <1>3, <1>4, <1>5 DEF Undisturbed, ManifestKept, Early, Between
<1> QED
    BY <1>4, <1>7, <1>8, <1>9, NothingPlanned

LEMMA ImportUndisturbed ==
    ASSUME Sound, NEW p \in Proc, Undisturbed(p), Import(p), Busy(p)'
    PROVE  Undisturbed(p)'
<1> DEFINE m == req[p].entries
           t == before[p].table
           d == before[p].disk
<1>1. Remembered /\ Course(p) /\ pc[p] = "import" /\ Busy(p)
    BY TypeParts DEF Sound, Import, Busy, Resting
<1>2. ~Return(p, "failed")
    BY <1>1 DEF Return, End, Goto, Busy, Resting, Remembered
<1>3. /\ table' = Merge(table, goal[p])
      /\ Goto(p, "plan")
      /\ UNCHANGED <<disk, req, parents, queue, acts, todo, bounds,
                     before, disturbed, halted, retry>>
    BY <1>2 DEF Import, Fail, Merge
<1>4. pc'[p] = "plan" /\ acts'[p] = <<>> /\ DOMAIN acts'[p] = {}
    BY <1>1, <1>3 DEF Remembered, Goto, Course, Late
<1>5. /\ m # <<>> /\ table = t /\ goal[p] = Changes(t, m, d)
      /\ queue[p] = Distinct(Names(req[p])) /\ ~Conflicting(PlanImport(t, m, d))
    BY <1>1 DEF Undisturbed, TableKept, ManifestKept, Between, Early
<1>6. t \in Table /\ m \in Seq(Entry) /\ req[p] \in Requests
    BY <1>1, RequestType DEF Remembered, Course
<1>7. table' = Merge(t, Changes(t, m, d))
    BY <1>3, <1>5
<1>8. TableKept(p)'
    BY <1>3, <1>4, <1>5, <1>7 DEF TableKept, Aim, Early, Between
<1>9. TreeKept(p)'
    BY <1>1, <1>3, <1>4 DEF Undisturbed, TreeKept, Early
<1>10. ManifestKept(p)'
    BY <1>3, <1>4, <1>5 DEF ManifestKept, Early, Between
<1>11. ASSUME NEW r \in Identities(m)
       PROVE  \E i \in queue[p] : Names(req[p])[i] = table'[r].alias
    <2>1. PICK j \in DOMAIN m : Wanted(m, r) = m[j] /\ m[j].remote = r
        BY <1>6, WantedEntry
    <2>2. table'[r].alias = m[j].alias
        <3>1. \A x \in Identities(m) : table'[x] = NewRow(t, m, d, x)
            BY <1>6, <1>7, MergedRows
        <3>2. NewRow(t, m, d, r).alias = Wanted(m, r).alias
            BY <1>6, NewRowType
        <3> QED
            BY <2>1, <3>1, <3>2
    <2>3. Names(req[p]) \in Seq(Name)
        BY <1>6, RequestType
    <2>4. j \in DOMAIN Names(req[p]) /\ Names(req[p])[j] = m[j].alias
        BY <1>5 DEF Names
    <2>5. PICK i \in Distinct(Names(req[p])) : Names(req[p])[i] = Names(req[p])[j]
        BY <2>3, <2>4, DistinctCovers
    <2> QED
        BY <1>5, <2>2, <2>4, <2>5
<1>12. Covered(p)'
    <2>1. Asked(p)' = Identities(m)
        BY <1>3, <1>5 DEF Asked
    <2>2. ~req[p].all
        BY <1>5, <1>6, RequestType DEF Request
    <2> QED
        BY <1>3, <1>4, <1>11, <2>1, <2>2 DEF Covered
<1>13. ActsKept(p)' /\ Running(p)' /\ Recording(p)'
    BY <1>4 DEF ActsKept, Running, Recording
<1> QED
    BY <1>8, <1>9, <1>10, <1>12, <1>13 DEF Undisturbed

LEMMA PlanWithUndisturbed ==
    ASSUME Sound, NEW p \in Proc, Undisturbed(p), pc[p] = "plan",
           NEW plan \in Seq(ActionRecord),
           \A j \in DOMAIN plan : \E r \in DOMAIN table : plan[j] = Planned(r),
           NEW rest \in SUBSET queue[p], PlanWith(p, plan, rest), Busy(p)',
           \A r \in Asked(p) : \/ \E i \in DOMAIN acts[p] : acts[p][i].remote = r
                               \/ \E j \in DOMAIN plan : plan[j].remote = r
                               \/ \E i \in rest : Names(req[p])[i] = table[r].alias
    PROVE  Undisturbed(p)'
<1>1. Remembered /\ table \in Table /\ disk \in Tree /\ acts[p] \in Seq(ActionRecord)
    BY TypeParts DEF Sound, Remembered
<1>2. ~Return(p, "refused")
    BY <1>1 DEF Return, End, Goto, Busy, Resting, Remembered
<1>3. /\ acts' = [acts EXCEPT ![p] = acts[p] \o plan]
      /\ queue' = [queue EXCEPT ![p] = rest]
      /\ Pass(p, IF rest = {} THEN "check" ELSE "plan")
      /\ UNCHANGED <<req, parents, goal, adds, todo>>
      /\ \A j \in DOMAIN plan : plan[j].action # "refuse"
    BY <1>2 DEF PlanWith, Refuse
<1>4. /\ pc'[p] = (IF rest = {} THEN "check" ELSE "plan")
      /\ acts'[p] = acts[p] \o plan /\ queue'[p] = rest /\ table' = table /\ disk' = disk
      /\ before' = before
    BY <1>1, <1>3, PassCounted DEF Remembered
<1>5. ASSUME NEW j \in DOMAIN plan
      PROVE  /\ plan[j].observed = table[plan[j].remote].local
             /\ Timely(plan[j])
    <2>1. PICK r \in DOMAIN table : plan[j] = Planned(r)
        OBVIOUS
    <2>2. Planned(r).action # "refuse"
        BY <1>3, <2>1
    <2> QED
        BY <1>1, <2>1, <2>2, PlannedTimely, PlannedListed, PlannedType
<1>6. \A i \in DOMAIN acts[p] : /\ acts[p][i].observed = table[acts[p][i].remote].local
                                /\ Timely(acts[p][i])
    BY DEF Undisturbed, TableKept, ActsKept
<1> DEFINE new == acts[p] \o plan
<1>7. /\ \A i \in DOMAIN new :
            \/ i \in DOMAIN acts[p] /\ new[i] = acts[p][i]
            \/ \E j \in DOMAIN plan : new[i] = plan[j]
      /\ \A i \in DOMAIN acts[p] : i \in DOMAIN new /\ new[i] = acts[p][i]
      /\ \A j \in DOMAIN plan : \E i \in DOMAIN new : new[i] = plan[j]
    BY <1>1, Concatenated
<1>8. acts'[p] = new
    BY <1>4
<1> HIDE DEF new
<1>9. \A i \in DOMAIN new : /\ new[i].observed = table[new[i].remote].local
                            /\ Timely(new[i])
    BY <1>5, <1>6, <1>7
<1>10. TableKept(p)'
    <2>1. table = Aim(p) /\ Aim(p)' = Aim(p)
        BY <1>3, <1>4 DEF Undisturbed, TableKept, Aim
    <2> QED
        BY <1>4, <1>8, <1>9, <2>1 DEF TableKept, Early, Between
<1>11. TreeKept(p)'
    BY <1>3, <1>4 DEF Undisturbed, TreeKept, Early
<1>12. ManifestKept(p)'
    BY <1>3, <1>4 DEF Undisturbed, ManifestKept, Early, Between
<1>13. Covered(p)'
    <2>1. Asked(p)' = Asked(p)
        BY <1>3, <1>4 DEF Asked
    <2>2. \A r \in Asked(p) : \/ \E i \in DOMAIN new : new[i].remote = r
                              \/ \E i \in rest : Names(req[p])[i] = table[r].alias
        BY <1>7
    <2>3. req[p].all => rest = {}
        BY DEF Undisturbed, Covered
    <2> QED
        BY <1>3, <1>4, <1>8, <2>1, <2>2, <2>3 DEF Covered
<1>14. ActsKept(p)'
    <2>1. pc'[p] \notin {"run", "persist"}
        BY <1>4
    <2>2. \A i \in DOMAIN acts'[p] : Timely(acts[p][i])'
        BY <1>4, <1>8, <1>9 DEF Timely, Free, Blocked, Owned
    <2> QED
        BY <2>1, <2>2 DEF ActsKept
<1>15. Running(p)' /\ Recording(p)'
    BY <1>4 DEF Running, Recording
<1> QED
    BY <1>10, <1>11, <1>12, <1>13, <1>14, <1>15 DEF Undisturbed

LEMMA PlanUndisturbed ==
    ASSUME Sound, NEW p \in Proc, Undisturbed(p), Plan(p), Busy(p)'
    PROVE  Undisturbed(p)'
<1>1. /\ Remembered /\ Course(p) /\ table \in Table /\ disk \in Tree /\ IsFiniteSet(DOMAIN table)
      /\ OwnAliases(table) /\ pc[p] = "plan" /\ Busy(p)
    BY TypeParts DEF Sound, World, Plan, Busy, Resting
<1>2. ~Refuse(p)
    BY <1>1 DEF Refuse, Return, End, Goto, Busy, Resting, Remembered
<1>3. /\ req[p].all => queue[p] = {}
      /\ \A r \in Asked(p) : \/ \E i \in DOMAIN acts[p] : acts[p][i].remote = r
                             \/ \E i \in queue[p] : Names(req[p])[i] = table[r].alias
                             \/ req[p].all
    BY <1>1 DEF Undisturbed, Covered
<1>4. Asked(p) \subseteq DOMAIN table
    <2>1. CASE req[p].entries = <<>>
        BY <2>1 DEF Asked
    <2>2. CASE req[p].entries # <<>>
        <3>1. table = Merge(before[p].table,
                            Changes(before[p].table, req[p].entries, before[p].disk))
            BY <1>1, <2>2 DEF Undisturbed, TableKept, Aim
        <3>2. before[p].table \in Table /\ req[p].entries \in Seq(Entry)
            BY <1>1, RequestType DEF Remembered, Course
        <3>3. Identities(req[p].entries) \subseteq DOMAIN table
            <4>1. DOMAIN table = DOMAIN before[p].table \cup Identities(req[p].entries)
                BY <3>1, <3>2, MergedRows
            <4> QED
                BY <4>1
        <3> QED
            BY <2>2, <3>3 DEF Asked
    <2> QED
        BY <2>1, <2>2
<1>5. CASE req[p].all /\ PlanWith(p, PlanAll, {})
    <2>1. /\ PlanAll \in Seq(ActionRecord)
          /\ \A i \in DOMAIN PlanAll : \E r \in DOMAIN table : PlanAll[i] = Planned(r)
          /\ \A r \in DOMAIN table : \E i \in DOMAIN PlanAll : PlanAll[i] = Planned(r)
        BY <1>1, PlanAllProjects
    <2>2. \A r \in Asked(p) : \E i \in DOMAIN PlanAll : PlanAll[i].remote = r
        BY <1>1, <1>4, <2>1, PlannedType
    <2> HIDE DEF PlanAll
    <2> QED
        BY <1>1, <1>5, <2>1, <2>2, PlanWithUndisturbed
<1>6. ASSUME NEW i \in queue[p], NEW r \in Known(table, Names(req[p])[i]),
             PlanWith(p, <<Planned(r)>>, queue[p] \ {i})
      PROVE  Undisturbed(p)'
    <2> DEFINE plan == <<Planned(r)>>
    <2>1. r \in DOMAIN table /\ table[r].alias = Names(req[p])[i]
        BY DEF Known
    <2>2. Planned(r) \in ActionRecord /\ Planned(r).remote = r
        BY <1>1, <2>1, PlannedType
    <2>3. plan \in Seq(ActionRecord) /\ DOMAIN plan = {1} /\ plan[1] = Planned(r)
        BY <2>2
    <2> HIDE DEF plan
    <2>4. \A j \in DOMAIN plan : \E s \in DOMAIN table : plan[j] = Planned(s)
        BY <2>1, <2>3
    <2>5. ASSUME NEW s \in Asked(p)
          PROVE  \/ \E k \in DOMAIN acts[p] : acts[p][k].remote = s
                 \/ \E j \in DOMAIN plan : plan[j].remote = s
                 \/ \E k \in queue[p] \ {i} : Names(req[p])[k] = table[s].alias
        <3>1. CASE Names(req[p])[i] = table[s].alias
            <4>1. s = r
                BY <1>1, <1>4, <2>1, <3>1 DEF OwnAliases
            <4> QED
                BY <2>2, <2>3, <4>1
        <3>2. CASE Names(req[p])[i] # table[s].alias
            BY <1>3, <3>2
        <3> QED
            BY <3>1, <3>2
    <2>6. PlanWith(p, plan, queue[p] \ {i})
        BY <1>6 DEF plan
    <2>7. queue[p] \ {i} \in SUBSET queue[p]
        OBVIOUS
    <2> QED
        BY <1>1, <2>3, <2>4, <2>5, <2>6, <2>7, PlanWithUndisturbed
<1> QED
    BY <1>2, <1>5, <1>6 DEF Plan

LEMMA CheckUndisturbed ==
    ASSUME Sound, NEW p \in Proc, Undisturbed(p), Check(p), Busy(p)'
    PROVE  Undisturbed(p)'
<1> DEFINE clones == {i \in DOMAIN acts[p] : acts[p][i].action = "clone"}
<1>1. Remembered /\ pc[p] = "check" /\ acts[p] \in Seq(ActionRecord)
    BY TypeParts DEF Sound, Check, Remembered
<1>2. ~Return(p, "refused")
    BY <1>1 DEF Return, End, Goto, Busy, Resting, Remembered
<1>3. /\ todo' = [todo EXCEPT ![p] = clones] /\ Pass(p, "run")
      /\ UNCHANGED <<req, parents, goal, adds, queue, acts>>
      /\ IF req[p].placeholders THEN Preflight(ActsOf(p)) ELSE Matching(ActsOf(p))
    BY <1>2 DEF Check, Refuse
<1>4. /\ pc'[p] = "run" /\ todo'[p] = clones /\ table' = table /\ disk' = disk
      /\ before' = before /\ acts' = acts /\ req' = req
    BY <1>1, <1>3, PassCounted DEF Remembered
<1>5. \A i \in DOMAIN acts[p] : Timely(acts[p][i])
    BY <1>1 DEF Undisturbed, ActsKept
<1>6. \A i, j \in DOMAIN acts[p] :
         acts[p][i] # acts[p][j] => ~Overlap(acts[p][i].path, acts[p][j].path)
    <2>1. PathsApart(ActsOf(p))
        BY <1>3 DEF Preflight, Matching
    <2>2. \A i \in DOMAIN acts[p] : acts[p][i].action # "refuse"
        BY <1>5 DEF Timely
    <2> QED
        BY <2>1, <2>2 DEF PathsApart, ActsOf
<1>7. \A i \in DOMAIN acts[p] : acts[p][i].action = "none" => There(p, acts[p][i])
    <2> SUFFICES ASSUME NEW i \in DOMAIN acts[p], acts[p][i].action = "none"
                 PROVE  There(p, acts[p][i])
        OBVIOUS
    <2>1. disk[acts[p][i].path].kind = "checkout" /\ acts[p][i].state = "present"
        BY <1>5 DEF Timely
    <2>2. ~req[p].placeholders => disk[acts[p][i].path] = CheckoutOf(acts[p][i].remote)
        BY <1>3, <2>1 DEF Matching, ActsOf
    <2> QED
        BY <2>1, <2>2 DEF There
<1>8. TableKept(p)'
    <2>1. table = Aim(p) /\ Aim(p)' = Aim(p)
        BY <1>1, <1>4 DEF Undisturbed, TableKept, Aim
    <2> QED
        BY <1>1, <1>4, <2>1 DEF Undisturbed, TableKept, Early, Between
<1>9. TreeKept(p)'
    BY <1>4 DEF Undisturbed, TreeKept, Early
<1>10. ManifestKept(p)'
    BY <1>1, <1>4 DEF Undisturbed, ManifestKept, Early, Between
<1>11. Covered(p)'
    <2>1. Asked(p)' = Asked(p)
        BY <1>4 DEF Asked
    <2> QED
        BY <1>1, <1>4, <2>1 DEF Undisturbed, Covered
<1>12. ActsKept(p)'
    <2>1. \A i \in DOMAIN acts[p] : acts[p][i].action \in {"none", "clone"}
        BY <1>5 DEF Timely
    <2> QED
        BY <1>4, <1>6, <1>7, <2>1 DEF ActsKept, There
<1>13. Running(p)'
    <2>1. \A i \in DOMAIN acts[p] : acts[p][i].action = "clone" =>
             i \in clones /\ (Free(acts[p][i].path) \/ Owned(acts[p][i]))
        BY <1>5 DEF Timely
    <2>2. \A i \in clones : acts[p][i].action = "clone"
        OBVIOUS
    <2>3. req[p].placeholders => disk = before[p].disk
        BY <1>1 DEF Undisturbed, TreeKept
    <2> HIDE DEF clones
    <2> QED
        BY <1>4, <2>1, <2>2, <2>3 DEF Running, Free, Blocked, Owned
<1>14. Recording(p)'
    BY <1>4 DEF Recording
<1> QED
    BY <1>8, <1>9, <1>10, <1>11, <1>12, <1>13, <1>14 DEF Undisturbed

LEMMA RunUndisturbed ==
    ASSUME Sound, NEW p \in Proc, Undisturbed(p), Run(p), Busy(p)'
    PROVE  Undisturbed(p)'
<1>1. /\ Remembered /\ Course(p) /\ pc[p] = "run" /\ acts[p] \in Seq(ActionRecord)
      /\ disk \in Tree
    BY TypeParts DEF Sound, Run, Remembered
<1>2. ~Return(p, "refused") /\ ~Return(p, "failed")
    BY <1>1 DEF Return, End, Goto, Busy, Resting, Remembered
<1>3. PICK i \in todo[p] :
         /\ Ready(p, acts[p][i])
         /\ disk' = Put(acts[p][i].path, Product(p, acts[p][i]))
         /\ todo' = [todo EXCEPT ![p] = @ \ {i}]
         /\ UNCHANGED <<table, pc, req, parents, goal, adds, queue, acts, bounds,
                        before, outdated, clean, halted, retry>>
    BY <1>2 DEF Run, Refuse, Fail
<1> DEFINE a == acts[p][i]
<1>4. i \in DOMAIN acts[p] /\ \A j \in DOMAIN acts[p] : acts[p][j] \in ActionRecord
    BY <1>1, <1>3 DEF Course
<1>5. a \in ActionRecord /\ a.path \in Path /\ \A j \in DOMAIN acts[p] : acts[p][j].path \in Path
    BY <1>4 DEF ActionRecord
<1>6. /\ disk'[a.path] = Product(p, a)
      /\ \A d \in Path : ~Overlap(d, a.path) => disk'[d] = disk[d]
      /\ \A d \in Path : d # a.path /\ disk[d].kind # "file" => disk'[d].kind # "file"
      /\ \A d \in Path : disk'[d] # disk[d] => disk[d].kind \in Blank
    <2>1. Product(p, a) \in Node
        BY <1>5, ProductType
    <2>2. LET new == Put(a.path, Product(p, a))
          IN  /\ new[a.path] = Product(p, a)
              /\ \A d \in Path : ~Overlap(d, a.path) => new[d] = disk[d]
              /\ \A d \in Path : d # a.path /\ disk[d].kind # "file" => new[d].kind # "file"
              /\ \A d \in Path : new[d] # disk[d] => disk[d].kind \in Blank
        BY <1>1, <1>3, <1>5, <2>1, PutEffect
    <2> QED
        BY <1>3, <2>2
<1>7. todo'[p] = todo[p] \ {i} /\ pc'[p] = "run"
    BY <1>1, <1>3 DEF Remembered
<1>8. /\ \A j, k \in DOMAIN acts[p] :
            acts[p][j] # acts[p][k] => ~Overlap(acts[p][j].path, acts[p][k].path)
      /\ \A j \in DOMAIN acts[p] : /\ acts[p][j].action \in {"none", "clone"}
                                   /\ acts[p][j].action = "none" => There(p, acts[p][j])
      /\ \A j \in DOMAIN acts[p] : acts[p][j].action = "clone" =>
            /\ j \in todo[p] \/ disk[acts[p][j].path] = Product(p, acts[p][j])
            /\ req[p].placeholders =>
                  /\ Free(acts[p][j].path) \/ Owned(acts[p][j])
                  /\ disk[acts[p][j].path]
                        \in {before[p].disk[acts[p][j].path], Product(p, acts[p][j])}
      /\ \A j \in todo[p] : acts[p][j].action = "clone"
    BY <1>1 DEF Undisturbed, ActsKept, Running
<1>9. \A j \in DOMAIN acts[p] : acts[p][j] # a => disk'[acts[p][j].path] = disk[acts[p][j].path]
    BY <1>4, <1>5, <1>6, <1>8
<1>10. disk[a.path].kind \in Blank
    BY <1>1, <1>3, <1>5, ReadyPut DEF Blank
<1>12. TableKept(p)'
    <2>1. table = Aim(p) /\ Aim(p)' = Aim(p)
        BY <1>1, <1>3 DEF Undisturbed, TableKept, Aim
    <2> QED
        BY <1>1, <1>3, <1>7, <2>1 DEF Undisturbed, TableKept, Early, Between
<1>13. TreeKept(p)'
    BY <1>3, <1>6, <1>7 DEF Undisturbed, TreeKept, Early
<1>14. ManifestKept(p)'
    BY <1>1, <1>3, <1>7 DEF Undisturbed, ManifestKept, Early, Between
<1>15. Covered(p)'
    <2>1. Asked(p)' = Asked(p)
        BY <1>3 DEF Asked
    <2> QED
        BY <1>1, <1>3, <1>7, <2>1 DEF Undisturbed, Covered
<1>16. ActsKept(p)'
    <2>1. ASSUME NEW j \in DOMAIN acts[p], acts[p][j].action = "none"
          PROVE  There(p, acts[p][j])'
        <3>1. There(p, acts[p][j]) /\ disk[acts[p][j].path].kind = "checkout"
            BY <1>8, <2>1 DEF There
        <3>2. acts[p][j] # a
            BY <1>10, <3>1 DEF Blank
        <3> QED
            BY <1>3, <1>9, <3>1, <3>2 DEF There
    <2> QED
        BY <1>3, <1>7, <1>8, <2>1 DEF ActsKept
<1>17. Running(p)'
    <2>1. ASSUME NEW j \in DOMAIN acts[p], acts[p][j].action = "clone"
          PROVE  j \in todo'[p] \/ disk'[acts[p][j].path] = Product(p, acts[p][j])
        <3>1. CASE acts[p][j] = a
            BY <1>6, <3>1
        <3>2. CASE acts[p][j] # a
            BY <1>7, <1>8, <1>9, <2>1, <3>2
        <3> QED
            BY <3>1, <3>2
    <2>2. ASSUME NEW j \in DOMAIN acts[p], acts[p][j].action = "clone", req[p].placeholders
          PROVE  Free(acts[p][j].path)' \/ Owned(acts[p][j])'
        <3> DEFINE b == acts[p][j]
        <3>1. CASE b = a
            BY <1>3, <1>6, <2>2, <3>1 DEF Product, Owned
        <3>2. CASE b # a /\ Owned(b)
            BY <1>3, <1>9, <3>2 DEF Owned
        <3>3. CASE b # a /\ Free(b.path)
            <4>1. ~Overlap(b.path, a.path) /\ a.path \notin Above[b.path]
                BY <1>4, <1>8, <3>3 DEF Overlap
            <4>2. \A q \in Above[b.path] : q \in Path /\ q # a.path /\ disk[q].kind # "file"
                BY <1>5, <3>3, <4>1, AboveAssumption DEF Free, Blocked
            <4>3. \A q \in Above[b.path] : disk'[q].kind # "file"
                BY <1>6, <4>2
            <4>4. disk'[b.path] = disk[b.path] /\ disk[b.path].kind \in {"absent", "empty"}
                BY <1>9, <3>3 DEF Free
            <4> QED
                BY <1>3, <4>3, <4>4 DEF Free, Blocked
        <3> QED
            BY <1>8, <2>2, <3>1, <3>2, <3>3
    <2>3. ASSUME NEW j \in DOMAIN acts[p], acts[p][j].action = "clone", req[p].placeholders
          PROVE  disk'[acts[p][j].path]
                    \in {before[p].disk[acts[p][j].path], Product(p, acts[p][j])}
        <3>1. CASE acts[p][j] = a
            BY <1>6, <3>1
        <3>2. CASE acts[p][j] # a
            BY <1>8, <1>9, <2>3, <3>2
        <3> QED
            BY <3>1, <3>2
    <2>4. \A j \in DOMAIN acts[p] : acts[p][j].action = "clone" =>
             /\ j \in todo'[p] \/ disk'[acts[p][j].path] = Product(p, acts[p][j])'
             /\ req[p].placeholders =>
                   /\ Free(acts[p][j].path)' \/ Owned(acts[p][j])'
                   /\ disk'[acts[p][j].path]
                         \in {before[p].disk[acts[p][j].path], Product(p, acts[p][j])'}
        BY <1>3, <2>1, <2>2, <2>3 DEF Product
    <2>5. \A j \in todo'[p] : acts'[p][j].action = "clone"
        BY <1>3, <1>7, <1>8
    <2> QED
        BY <1>3, <1>7, <2>4, <2>5 DEF Running, Product, Free, Blocked, Owned
<1>18. Recording(p)'
    BY <1>7 DEF Recording
<1> QED
    BY <1>12, <1>13, <1>14, <1>15, <1>16, <1>17, <1>18 DEF Undisturbed

LEMMA RanUndisturbed ==
    ASSUME Sound, NEW p \in Proc, Undisturbed(p), Ran(p), p \notin outdated
    PROVE  Undisturbed(p)'
<1> DEFINE moved == {i \in DOMAIN acts[p] : Misplaced(acts[p][i])}
<1>1. /\ Remembered /\ Course(p) /\ pc[p] = "run" /\ todo[p] = {} /\ table \in Table
      /\ acts[p] \in Seq(ActionRecord)
    BY TypeParts DEF Sound, Ran, Remembered
<1>2. /\ todo' = [todo EXCEPT ![p] = moved] /\ Pass(p, "persist")
      /\ UNCHANGED <<req, parents, goal, adds, queue, acts>>
    BY DEF Ran
<1>3. /\ pc'[p] = "persist" /\ todo'[p] = moved /\ table' = table /\ disk' = disk
      /\ before' = before /\ acts' = acts /\ req' = req
    BY <1>1, <1>2, PassCounted DEF Remembered
<1>4. ASSUME NEW i \in DOMAIN acts[p], acts[p][i].action = "clone", i \notin moved
      PROVE  table[acts[p][i].remote].local = acts[p][i].path
    <2>1. /\ acts[p][i].remote \in DOMAIN table /\ AsListed(acts[p][i], table)
          /\ acts[p][i].observed = table[acts[p][i].remote].local
        BY <1>1 DEF Course, Undisturbed, TableKept
    <2>2. acts[p][i].remote # NoRemote
        BY <1>1, <2>1, RemoteAssumption DEF Table
    <2>3. acts[p][i].source # "canonical" \/ acts[p][i].observed = acts[p][i].path
        BY <1>4, <2>2 DEF Misplaced
    <2> QED
        BY <2>1, <2>3 DEF AsListed, hydrationPath
<1>5. TableKept(p)'
    <2>1. table = Aim(p) /\ Aim(p)' = Aim(p)
        BY <1>1, <1>3 DEF Undisturbed, TableKept, Aim
    <2> QED
        BY <1>3, <2>1 DEF TableKept, SamePlaces, Early, Between
<1>6. TreeKept(p)'
    BY <1>3 DEF Undisturbed, TreeKept, Early
<1>7. ManifestKept(p)'
    BY <1>1, <1>3 DEF Undisturbed, ManifestKept, Early, Between
<1>8. Covered(p)'
    <2>1. Asked(p)' = Asked(p)
        BY <1>3 DEF Asked
    <2> QED
        BY <1>1, <1>3, <2>1 DEF Undisturbed, Covered
<1>9. ActsKept(p)'
    BY <1>1, <1>3 DEF Undisturbed, ActsKept, There
<1>10. Running(p)'
    BY <1>3 DEF Running
<1>11. Recording(p)'
    <2>1. \A i \in DOMAIN acts[p] : acts[p][i].action = "clone" =>
             disk[acts[p][i].path] = Product(p, acts[p][i])
        BY <1>1 DEF Undisturbed, Running
    <2> HIDE DEF moved
    <2> QED
        BY <1>3, <1>4, <2>1 DEF Recording, Product
<1> QED
    BY <1>5, <1>6, <1>7, <1>8, <1>9, <1>10, <1>11 DEF Undisturbed

LEMMA PersistUndisturbed ==
    ASSUME Sound, NEW p \in Proc, Undisturbed(p), Persist(p), Busy(p)', p \notin outdated
    PROVE  Undisturbed(p)'
<1>1. /\ Remembered /\ Course(p) /\ pc[p] = "persist" /\ acts[p] \in Seq(ActionRecord)
    BY TypeParts DEF Sound, Persist, Remembered
<1>2. ~Return(p, "failed")
    BY <1>1 DEF Return, End, Goto, Busy, Resting, Remembered
<1>3. PICK i \in todo[p] :
         /\ Known(table, acts[p][i].alias) \ {acts[p][i].remote} = {}
         /\ table' = [table EXCEPT ![acts[p][i].remote] =
                         [alias |-> acts[p][i].alias, local |-> acts[p][i].path,
                          canon |-> acts[p][i].path, source |-> "canonical"]]
         /\ todo' = [todo EXCEPT ![p] = @ \ {i}]
         /\ UNCHANGED <<disk, pc, req, parents, goal, adds, queue, acts, bounds,
                        before, disturbed, halted, retry>>
    BY <1>2 DEF Persist, Fail
<1> DEFINE r == acts[p][i].remote
<1>4. /\ i \in DOMAIN acts[p] /\ r \in DOMAIN table
      /\ DOMAIN table' = DOMAIN table
      /\ \A s \in DOMAIN table : s # r => table'[s] = table[s]
      /\ table'[r].local = acts[p][i].path
      /\ table'[r].alias = table[r].alias
      /\ table'[r].canon = table[r].canon
      /\ table'[r].source = table[r].source
      /\ table[r].source = "canonical"
    BY <1>1, <1>3, PersistRow
<1>5. todo'[p] = todo[p] \ {i} /\ pc'[p] = "persist"
    BY <1>1, <1>3 DEF Remembered
<1>6. \A j \in DOMAIN acts[p] : acts[p][j].remote \in DOMAIN table /\ AsListed(acts[p][j], table)
    BY <1>1 DEF Course
<1> HIDE DEF r
<1>7. TableKept(p)'
    <2>1. SamePlaces(table, Aim(p)) /\ Aim(p)' = Aim(p)
        BY <1>1, <1>3 DEF Undisturbed, TableKept, Aim
    <2>2. SamePlaces(table', Aim(p))
        BY <1>4, <2>1 DEF SamePlaces
    <2> QED
        BY <1>5, <2>1, <2>2 DEF TableKept, Early, Between
<1>8. TreeKept(p)'
    BY <1>1, <1>3, <1>5 DEF Undisturbed, TreeKept, Early
<1>9. ManifestKept(p)'
    BY <1>1, <1>3, <1>5 DEF Undisturbed, ManifestKept, Early, Between
<1>10. Covered(p)'
    <2>1. \A s \in DOMAIN table : table'[s].alias = table[s].alias
        BY <1>4
    <2>2. Asked(p)' = Asked(p)
        BY <1>3, <1>4, <2>1 DEF Asked
    <2> QED
        BY <1>1, <1>3, <1>5, <2>2 DEF Undisturbed, Covered
<1>11. ActsKept(p)'
    BY <1>1, <1>3, <1>5 DEF Undisturbed, ActsKept, There
<1>12. Running(p)'
    BY <1>5 DEF Running
<1>13. Recording(p)'
    <2>1. ASSUME NEW j \in DOMAIN acts[p], acts[p][j].action = "clone"
          PROVE  /\ disk[acts[p][j].path] = Product(p, acts[p][j])
                 /\ j \in todo'[p] \/ table'[acts[p][j].remote].local = acts[p][j].path
        <3>1. /\ disk[acts[p][j].path] = Product(p, acts[p][j])
              /\ j \in todo[p] \/ table[acts[p][j].remote].local = acts[p][j].path
            BY <1>1, <2>1 DEF Undisturbed, Recording
        <3>2. CASE acts[p][j].remote = r
            <4>1. acts[p][j].path = table[r].canon /\ acts[p][i].path = table[r].canon
                BY <1>4, <1>6, <3>2 DEF AsListed, hydrationPath, r
            <4> QED
                BY <1>4, <3>1, <3>2, <4>1
        <3>3. CASE acts[p][j].remote # r
            <4>1. j # i
                BY <3>3 DEF r
            <4> QED
                BY <1>4, <1>5, <1>6, <3>1, <3>3, <4>1
        <3> QED
            BY <3>2, <3>3
    <2> QED
        BY <1>3, <1>5, <2>1 DEF Recording, Product
<1> QED
    BY <1>7, <1>8, <1>9, <1>10, <1>11, <1>12, <1>13 DEF Undisturbed

\* No step of p takes back that others have interfered with it, but a new command.
LEMMA OwnAlone ==
    ASSUME NEW p \in Proc, Alone(p)',
           DryRun(p) \/ Entries(p) \/ Agree(p) \/ MakeParent(p) \/ Import(p) \/ Plan(p)
           \/ Check(p) \/ Run(p) \/ Ran(p) \/ Persist(p)
    PROVE  Alone(p)
<1> USE DEF Alone, Return, Pass, history, others
<1>1. CASE DryRun(p) \/ Entries(p) \/ Agree(p)
    BY <1>1 DEF DryRun, Entries, Agree, Refuse, Fail
<1>2. CASE Plan(p) \/ Check(p) \/ Ran(p)
    BY <1>2 DEF Plan, PlanWith, Check, Ran, Refuse
<1>3. CASE MakeParent(p)
    BY <1>3 DEF MakeParent, Fail, Touches
<1>4. CASE Import(p)
    BY <1>4 DEF Import, Fail, Writes
<1>5. CASE Run(p)
    BY <1>5 DEF Run, Refuse, Fail, Touches
<1>6. CASE Persist(p)
    BY <1>6 DEF Persist, Fail, Writes
<1> QED
    BY <1>1, <1>2, <1>3, <1>4, <1>5, <1>6

LEMMA EndsResting ==
    ASSUME Remembered, NEW p \in Proc, NEW label \in Resting, End(p, label)
    PROVE  ~Busy(p)'
BY DEF Remembered, End, Goto, Busy

LEMMA OwnUndisturbed ==
    ASSUME Sound, NEW p \in Proc, Busy(p) /\ Alone(p) => Undisturbed(p), Step(p),
           Busy(p)', Alone(p)'
    PROVE  Undisturbed(p)'
<1>0. Remembered /\ {"done", "failed", "refused"} \subseteq Resting
    BY TypeParts DEF Sound, Resting
<1>1. CASE \E q \in Requests : Begin(p, q)
    BY <1>1, BeginUndisturbed
<1>2. CASE Done(p) \/ Break(p)
    BY <1>0, <1>2, EndsResting DEF Done, Return, Break
<1>3. CASE \/ DryRun(p) \/ Entries(p) \/ Agree(p) \/ MakeParent(p) \/ Import(p) \/ Plan(p)
           \/ Check(p) \/ Run(p) \/ Ran(p) \/ Persist(p)
    <2>1. Alone(p) /\ p \notin outdated
        BY <1>3, OwnAlone DEF Alone
    <2>2. Busy(p)
        BY <1>3 DEF Busy, Resting, DryRun, Entries, Agree, MakeParent, Import, Plan, Check, Run,
                    Ran, Persist
    <2>3. Undisturbed(p)
        BY <2>1, <2>2
    <2>4. CASE DryRun(p) \/ Entries(p) \/ Agree(p) \/ MakeParent(p) \/ Import(p)
        BY <2>3, <2>4, DryRunUndisturbed, EntriesUndisturbed, AgreeUndisturbed,
           MakeParentUndisturbed, ImportUndisturbed
    <2>5. CASE Plan(p) \/ Check(p) \/ Run(p) \/ Ran(p) \/ Persist(p)
        BY <2>1, <2>3, <2>5, PlanUndisturbed, CheckUndisturbed, RunUndisturbed, RanUndisturbed,
           PersistUndisturbed
    <2> QED
        BY <1>3, <2>4, <2>5
<1> QED
    BY <1>1, <1>2, <1>3 DEF Step

LEMMA OthersUndisturbed ==
    ASSUME NEW s \in Proc, Busy(s) /\ Alone(s) => Undisturbed(s), Untouched(s), Told(s),
           Busy(s)', Alone(s)'
    PROVE  Undisturbed(s)'
<1>1. Busy(s)
    BY DEF Busy, Untouched
<1>2. Alone(s) /\ table' = table /\ disk' = disk
    BY <1>1, AloneStays
<1> QED
    BY <1>1, <1>2, StaysUndisturbed

LEMMA StepOthers ==
    ASSUME Sound, NEW p \in Proc, Step(p), NEW s \in Proc \ {p}
    PROVE  Untouched(s) /\ Told(s)
<1>0. Remembered
    BY TypeParts DEF Sound
<1>1. CASE \/ \E q \in Requests : Begin(p, q)
           \/ DryRun(p) \/ Entries(p) \/ Agree(p) \/ Plan(p) \/ Check(p) \/ Ran(p) \/ Done(p)
    BY <1>0, <1>1, PlanningOthers
<1>2. CASE MakeParent(p) \/ Import(p) \/ Run(p) \/ Persist(p) \/ Break(p)
    BY <1>2, WritingOthers
<1> QED
    BY <1>1, <1>2 DEF Step

LEMMA InitUndisturbed == Init => AllUndisturbed
BY DEF Init, AllUndisturbed, Busy, Resting

LEMMA NextUndisturbed == Sound /\ AllUndisturbed /\ [Next]_vars => AllUndisturbed'
<1> SUFFICES ASSUME Sound, AllUndisturbed, [Next]_vars, NEW s \in Proc, Busy(s)', Alone(s)'
             PROVE  Undisturbed(s)'
    BY DEF AllUndisturbed
<1>0. Busy(s) /\ Alone(s) => Undisturbed(s)
    BY DEF AllUndisturbed
<1>1. ASSUME NEW p \in Proc, Step(p)
      PROVE  Undisturbed(s)'
    <2>1. CASE s = p
        BY <1>0, <1>1, <2>1, OwnUndisturbed
    <2>2. CASE s # p
        BY <1>0, <1>1, <2>2, StepOthers, OthersUndisturbed
    <2> QED
        BY <2>1, <2>2
<1>2. CASE User \/ \E r \in DOMAIN table, d \in Path : Scan(r, d)
    BY <1>0, <1>2, OutsideOthers, OthersUndisturbed
<1>3. CASE UNCHANGED vars
    BY <1>0, <1>3, OthersUndisturbed
       DEF vars, locals, bounds, history, others, Untouched, Told
<1> QED
    BY <1>1, <1>2, <1>3 DEF Next

-----------------------------------------------------------------------------
(***************************************************************************)
(* How a command ends.                                                     *)
(***************************************************************************)

\* A process ends by a step of its own.
LEMMA EndsItself ==
    ASSUME Sound, Next, NEW p \in Proc, Busy(p), pc'[p] \in {"done", "refused", "failed"}
    PROVE  Step(p) /\ Busy(p)
<1>0. Busy(p) /\ pc'[p] # pc[p]
    BY DEF Busy, Resting
<1>1. ASSUME NEW s \in Proc, Step(s), s # p
      PROVE  FALSE
    BY <1>0, <1>1, StepOthers DEF Untouched
<1>2. CASE User \/ \E r \in DOMAIN table, d \in Path : Scan(r, d)
    BY <1>0, <1>2, OutsideOthers DEF Untouched
<1> QED
    BY <1>1, <1>2 DEF Next

LEMMA EndsHow ==
    ASSUME Remembered, NEW p \in Proc, Busy(p), Step(p), pc'[p] \in {"done", "refused"}
    PROVE  \/ pc'[p] = "done" /\ Done(p)
           \/ /\ pc'[p] = "refused" /\ Refuse(p)
              /\ DryRun(p) \/ Entries(p) \/ Plan(p) \/ Check(p) \/ Run(p)
           \/ pc'[p] = "refused" /\ Break(p) /\ Mistaken(p)
<1>0. /\ \A label : Return(p, label) => pc'[p] = label
      /\ \A label : Goto(p, label) => pc'[p] = label
      /\ \A label : Pass(p, label) => pc'[p] = label
    BY DEF Remembered, Return, End, Goto, Pass
<1>1. CASE \E q \in Requests : Begin(p, q)
    BY <1>1 DEF Begin
<1>2. CASE DryRun(p) \/ Entries(p)
    BY <1>0, <1>2 DEF DryRun, Entries, Refuse
<1>3. CASE Agree(p)
    BY <1>0, <1>3 DEF Agree, Fail
<1>4. CASE MakeParent(p)
    BY <1>0, <1>4 DEF MakeParent, Fail
<1>5. CASE Import(p)
    BY <1>0, <1>5 DEF Import, Fail
<1>6. CASE Plan(p)
    <2>1. ASSUME NEW plan, NEW rest, PlanWith(p, plan, rest)
          PROVE  Refuse(p)
        BY <1>0, <2>1 DEF PlanWith, Refuse
    <2>2. Refuse(p)
        BY <1>6, <2>1 DEF Plan
    <2> QED
        BY <1>0, <1>6, <2>2 DEF Refuse
<1>7. CASE Check(p)
    BY <1>0, <1>7 DEF Check, Refuse
<1>8. CASE Run(p)
    <2>1. Refuse(p) \/ Fail(p) \/ pc' = pc
        BY <1>8 DEF Run
    <2>2. Refuse(p)
        BY <1>0, <2>1 DEF Fail, Busy, Resting
    <2> QED
        BY <1>0, <1>8, <2>2 DEF Refuse
<1>9. CASE Ran(p)
    BY <1>0, <1>9 DEF Ran
<1>10. CASE Persist(p)
    <2>1. Fail(p) \/ pc' = pc
        BY <1>10 DEF Persist
    <2> QED
        BY <1>0, <2>1 DEF Fail, Busy, Resting
<1>11. CASE Done(p)
    BY <1>0, <1>11 DEF Done
<1>12. CASE Break(p)
    <2>1. \/ End(p, "failed")
          \/ Mistaken(p) /\ End(p, "refused")
        BY <1>12 DEF Break
    <2>2. End(p, "failed") => pc'[p] = "failed"
        BY DEF Remembered, End, Goto
    <2>3. End(p, "refused") => pc'[p] = "refused"
        BY DEF Remembered, End, Goto
    <2> QED
        BY <1>12, <2>1, <2>2, <2>3
<1> QED
    BY <1>1, <1>2, <1>3, <1>4, <1>5, <1>6, <1>7, <1>8, <1>9, <1>10, <1>11, <1>12 DEF Step

LEMMA DoneInPlace ==
    ASSUME Sound, NEW p \in Proc, Undisturbed(p), Alone(p), pc[p] = "persist", todo[p] = {}
    PROVE  /\ \A i \in DOMAIN req[p].entries :
                LET e == req[p].entries[i]
                IN  /\ e.remote \in DOMAIN table
                    /\ table[e.remote].alias = e.alias
                    /\ table[e.remote].canon = e.path
                    /\ table[e.remote].source = "canonical"
           /\ \A x \in Asked(p) :
                LET node == disk[hydrationPath(table[x])]
                IN  \/ node = CheckoutOf(x)
                    \/ req[p].placeholders /\ (\/ node.kind = "checkout"
                                               \/ node = PlaceholderOf(x, table[x].alias))
           /\ \A a \in ActsOf(p) : a.action = "clone" => table[a.remote].local = a.path
<1> DEFINE m == req[p].entries
           t == before[p].table
           d == before[p].disk
<1>1. /\ Course(p) /\ Busy(p) /\ p \notin outdated /\ IsFiniteSet(DOMAIN table)
      /\ before[p] \in [table : Table, disk : Tree]
    BY TypeParts DEF Sound, World, Remembered, Busy, Resting, Alone
<1>2. req[p] \in Requests /\ m \in Seq(Entry) /\ t \in Table
    BY <1>1, RequestType DEF Course
<1>3. /\ \A i \in DOMAIN acts[p] : acts[p][i].action = "clone" =>
            /\ disk[acts[p][i].path] = Product(p, acts[p][i])
            /\ table[acts[p][i].remote].local = acts[p][i].path
      /\ \A r \in Asked(p) : \E i \in DOMAIN acts[p] : acts[p][i].remote = r
      /\ \A i \in DOMAIN acts[p] : /\ acts[p][i].action \in {"none", "clone"}
                                   /\ acts[p][i].action = "none" => There(p, acts[p][i])
      /\ SamePlaces(table, Aim(p))
    BY DEF Undisturbed, Recording, Covered, ActsKept, TableKept
<1>4. ASSUME NEW i \in DOMAIN m
      PROVE  /\ m[i].remote \in DOMAIN table
             /\ table[m[i].remote].alias = m[i].alias
             /\ table[m[i].remote].canon = m[i].path
             /\ table[m[i].remote].source = "canonical"
    <2> DEFINE new == Merge(t, Changes(t, m, d))
    <2>1. m # <<>> /\ Aim(p) = new
        BY <1>4 DEF Aim
    <2>2. /\ DOMAIN new = DOMAIN t \cup Identities(m)
          /\ \A x \in Identities(m) : new[x] = NewRow(t, m, d, x)
          /\ \A x \in DOMAIN t \ Identities(m) : new[x] = t[x]
        <3>1. t \in Table /\ m \in Seq(Entry)
            BY <1>2
        <3> HIDE DEF t, m, d
        <3> QED
            BY <3>1, MergedRows
    <2>4. SamePlaces(table, new)
        BY <1>3, <2>1
    <2> HIDE DEF new
    <2>5. DOMAIN table = DOMAIN new
        BY <2>4 DEF SamePlaces
    <2>6. IsFiniteSet(DOMAIN t)
        BY <1>1, <2>2, <2>5, FS_Subset
    <2>7. ~Conflicting(PlanImport(t, m, d))
        BY <2>1 DEF Undisturbed, ManifestKept, Early
    <2>8. Distinguished(m)
        BY <1>2, <2>6, <2>7, ImportPromise
    <2>9. Wanted(m, m[i].remote) = m[i] /\ m[i].remote \in Identities(m)
        BY <1>2, <2>8, WantedIs
    <2>10. new[m[i].remote] = NewRow(t, m, d, m[i].remote)
        BY <2>2, <2>9
    <2>11. /\ NewRow(t, m, d, m[i].remote).alias = m[i].alias
           /\ NewRow(t, m, d, m[i].remote).canon = m[i].path
           /\ NewRow(t, m, d, m[i].remote).source = "canonical"
        BY <1>2, <2>9, NewRowType
    <2> QED
        BY <2>2, <2>4, <2>5, <2>9, <2>10, <2>11 DEF SamePlaces
<1>5. ASSUME NEW x \in Asked(p)
      PROVE  LET node == disk[hydrationPath(table[x])]
             IN  \/ node = CheckoutOf(x)
                 \/ req[p].placeholders /\ (\/ node.kind = "checkout"
                                            \/ node = PlaceholderOf(x, table[x].alias))
    <2>1. PICK i \in DOMAIN acts[p] : acts[p][i].remote = x
        BY <1>3
    <2>2. acts[p][i].path = hydrationPath(table[x]) /\ acts[p][i].alias = table[x].alias
        BY <1>1, <2>1 DEF Course, AsListed
    <2>3. CASE acts[p][i].action = "none"
        BY <1>3, <2>1, <2>2, <2>3 DEF There
    <2>4. CASE acts[p][i].action = "clone"
        BY <1>3, <2>1, <2>2, <2>4 DEF Product
    <2> QED
        BY <1>3, <2>3, <2>4
<1>6. \A a \in ActsOf(p) : a.action = "clone" => table[a.remote].local = a.path
    BY <1>3 DEF ActsOf
<1> QED
    BY <1>4, <1>5, <1>6

\* A bootstrap during which nobody else has changed the table or the tree and which
\* reports success has every project it was asked for in its place, on disk and in the
\* table (Executor.Execute, persistClonedCanonicalPlacements).
THEOREM SuccessInPlace == Spec => SuccessIsInPlace
<1>1. ASSUME Sound, AllUndisturbed, Next, NEW p \in Proc, Ends(p, "done"), Alone(p)
      PROVE  Undisturbed(p) /\ pc[p] = "persist" /\ todo[p] = {}
    <2>1. Busy(p) /\ pc'[p] = "done"
        BY <1>1 DEF Ends
    <2>2. Done(p)
        BY <1>1, <2>1, TypeParts, EndsItself, EndsHow DEF Sound
    <2> QED
        BY <1>1, <2>1, <2>2 DEF AllUndisturbed, Done
<1>2. Sound /\ AllUndisturbed /\ [Next]_vars =>
        [\A p \in Proc : Ends(p, "done") /\ Alone(p) =>
          /\ \A i \in DOMAIN req[p].entries :
                LET e == req[p].entries[i]
                IN  /\ e.remote \in DOMAIN table
                    /\ table[e.remote].alias = e.alias
                    /\ table[e.remote].canon = e.path
                    /\ table[e.remote].source = "canonical"
          /\ \A x \in Asked(p) :
                LET node == disk[hydrationPath(table[x])]
                IN  \/ node = CheckoutOf(x)
                    \/ req[p].placeholders /\ (\/ node.kind = "checkout"
                                               \/ node = PlaceholderOf(x, table[x].alias))
          /\ \A a \in ActsOf(p) : a.action = "clone" => table[a.remote].local = a.path]_vars
    BY <1>1, DoneInPlace
<1> QED
    BY <1>2, InitSound, NextSound, InitUndisturbed, NextUndisturbed, PTL DEF Spec, SuccessIsInPlace

\* What a command that breaks off in its clones or updates has touched.
LEMMA BreakEffect ==
    ASSUME Sound, NEW p \in Proc, Undisturbed(p), pc[p] \in {"run", "persist"},
           disk' \in Remains(p), disk' # disk
    PROVE  \E i \in todo[p] :
              /\ pc[p] = "run" /\ i \in DOMAIN acts[p] /\ acts[p][i] \in ActionRecord
              /\ \A d \in Path : ~Overlap(d, acts[p][i].path) => disk'[d] = disk[d]
              /\ \A d \in Path : d # acts[p][i].path /\ disk[d].kind # "file"
                                 => disk'[d].kind # "file"
              /\ \A d \in Path : disk'[d] # disk[d] => disk[d].kind \in Blank
              /\ \A j \in DOMAIN acts[p] : acts[p][j].path # acts[p][i].path =>
                    /\ disk'[acts[p][j].path] = disk[acts[p][j].path]
                    /\ acts[p][i].path \notin Above[acts[p][j].path]
<1>1. Remembered /\ Course(p) /\ disk \in Tree
    BY TypeParts DEF Sound
<1>2. PICK i \in todo[p] : /\ pc[p] = "run" /\ Ready(p, acts[p][i])
                           /\ disk' \in Left(p, acts[p][i])
    BY RemainsCases
<1>3. /\ i \in DOMAIN acts[p] /\ acts[p] \in Seq(ActionRecord)
      /\ \A j \in DOMAIN acts[p] : acts[p][j] \in ActionRecord
    BY <1>1, <1>2 DEF Course, Remembered
<1>4. \A j \in DOMAIN acts[p] : acts[p][j].path \in Path
    BY <1>3 DEF ActionRecord
<1> DEFINE a == acts[p][i]
<1>5. a \in ActionRecord /\ Ready(p, a) /\ disk' \in Left(p, a)
    BY <1>2, <1>3
<1>6. /\ \A d \in Path : ~Overlap(d, a.path) => disk'[d] = disk[d]
      /\ \A d \in Path : d # a.path /\ disk[d].kind # "file" => disk'[d].kind # "file"
      /\ \A d \in Path : disk'[d] # disk[d] => disk[d].kind \in Blank
    <2> HIDE DEF a
    <2> QED
        BY <1>1, <1>5, LeftEffect
<1>7. \A j \in DOMAIN acts[p] : acts[p][j].path # a.path => ~Overlap(acts[p][j].path, a.path)
    BY <1>2, <1>3 DEF Undisturbed, ActsKept
<1>8. \A j \in DOMAIN acts[p] : acts[p][j].path # a.path =>
         /\ disk'[acts[p][j].path] = disk[acts[p][j].path]
         /\ a.path \notin Above[acts[p][j].path]
    BY <1>4, <1>6, <1>7 DEF Overlap
<1> QED
    BY <1>2, <1>3, <1>5, <1>6, <1>8

LEMMA RefusedKeeps ==
    ASSUME Sound, NEW p \in Proc, Undisturbed(p),
           \/ Refuse(p) /\ (DryRun(p) \/ Entries(p) \/ Plan(p) \/ Check(p) \/ Run(p))
           \/ Break(p) /\ Mistaken(p)
    PROVE  /\ table' = before[p].table \/ (req[p].entries # <<>> /\ table' = Imported(p))
           /\ \A d \in Path : disk'[d] # before[p].disk[d] =>
                 before[p].disk[d].kind \in {"absent", "empty", "placeholder"}
           /\ req[p].placeholders =>
                 \/ disk' = before[p].disk
                 \/ /\ mishaps' # mishaps
                    /\ \E i \in todo[p] : \A a \in ActsOf(p) :
                          a.action = "clone" /\ a.path # acts[p][i].path =>
                              disk'[a.path] \in {before[p].disk[a.path], Product(p, a)}
<1>1. /\ pc[p] \in {"dryrun", "entries", "plan", "check", "run"} /\ table' = table
      /\ Remembered /\ Counted /\ Course(p)
    BY TypeParts DEF Sound, DryRun, Entries, Plan, Check, Run, Mistaken, Break, Refuse, Return
<1>2. table = before[p].table \/ (req[p].entries # <<>> /\ table = Imported(p))
    <2>1. CASE pc[p] \in {"dryrun", "entries"}
        BY <2>1 DEF Undisturbed, TableKept, Early
    <2>2. CASE pc[p] \in {"plan", "check", "run"}
        <3> DEFINE new == Merge(before[p].table,
                                Changes(before[p].table, req[p].entries, before[p].disk))
        <3>1. table = Aim(p)
            BY <2>2 DEF Undisturbed, TableKept
        <3>2. Aim(p) = IF req[p].entries = <<>> THEN before[p].table ELSE new
            BY DEF Aim
        <3>3. Imported(p) = new
            BY DEF Imported, Merge
        <3> HIDE DEF new
        <3> QED
            BY <3>1, <3>2, <3>3
    <2> QED
        BY <1>1, <2>1, <2>2
<1>3. \A d \in Path : disk[d] # before[p].disk[d] => before[p].disk[d].kind \in Blank
    BY DEF Undisturbed, TreeKept
<1>4. req[p].placeholders /\ pc[p] # "run" => disk = before[p].disk
    BY <1>1 DEF Undisturbed, TreeKept
<1>5. CASE disk' = disk /\ ~(req[p].placeholders /\ pc[p] = "run")
    BY <1>1, <1>2, <1>3, <1>4, <1>5 DEF Blank
<1>6. CASE Refuse(p) /\ (DryRun(p) \/ Entries(p) \/ Plan(p) \/ Check(p) \/ Run(p))
    <2>1. ASSUME req[p].placeholders, pc[p] = "run"
          PROVE  FALSE
        <3>1. Run(p) /\ pc'[p] # pc[p]
            BY <1>1, <1>6, <2>1 DEF Refuse, Return, End, Goto, Remembered, DryRun, Entries, Plan,
                                   Check
        <3>2. PICK i \in todo[p] : ~Ready(p, acts[p][i])
            BY <3>1 DEF Run
        <3>3. i \in DOMAIN acts[p] /\ acts[p][i].action = "clone"
            BY <1>1, <2>1, <3>2 DEF Undisturbed, Running, Course
        <3>4. Free(acts[p][i].path) \/ Owned(acts[p][i])
            BY <2>1, <3>3 DEF Undisturbed, Running
        <3> QED
            BY <2>1, <3>2, <3>4 DEF Ready
    <2>2. disk' = disk
        BY <1>6 DEF Refuse, Return
    <2> QED
        BY <1>5, <2>1, <2>2
<1>7. CASE Break(p) /\ Mistaken(p)
    <2>1. disk' \in Remains(p) /\ mishaps' # mishaps
        BY <1>1, <1>7, BoundsAssumption DEF Break, Mishap, Counted
    <2>2. CASE pc[p] # "run"
        <3>1. pc[p] \notin {"parents", "run"}
            BY <1>1, <2>2
        <3>2. disk' = disk
            BY <2>1, <3>1, RemainsCases
        <3> QED
            BY <1>5, <2>2, <3>2
    <2>3. CASE pc[p] = "run" /\ ~req[p].placeholders
        <3>1. disk' = disk
            BY <1>7, <2>3 DEF Mistaken
        <3> QED
            BY <1>5, <2>3, <3>1
    <2>4. CASE pc[p] = "run" /\ req[p].placeholders
        <3>1. todo[p] # {}
            BY <1>7, <2>4 DEF Mistaken
        <3>2. \A a \in ActsOf(p) : a.action = "clone" =>
                 disk[a.path] \in {before[p].disk[a.path], Product(p, a)}
            BY <2>4 DEF Undisturbed, Running, ActsOf
        <3>3. CASE disk' = disk
            <4>1. PICK i \in todo[p] : TRUE
                BY <3>1
            <4>2. \A a \in ActsOf(p) : a.action = "clone" /\ a.path # acts[p][i].path =>
                     disk'[a.path] \in {before[p].disk[a.path], Product(p, a)}
                BY <3>2, <3>3
            <4> QED
                BY <1>1, <1>2, <1>3, <2>1, <3>3, <4>2 DEF Blank
        <3>4. CASE disk' # disk
            <4>1. PICK i \in todo[p] :
                     /\ \A d \in Path : disk'[d] # disk[d] => disk[d].kind \in Blank
                     /\ \A j \in DOMAIN acts[p] : acts[p][j].path # acts[p][i].path =>
                           disk'[acts[p][j].path] = disk[acts[p][j].path]
                BY <2>1, <2>4, <3>4, BreakEffect
            <4>2. \A a \in ActsOf(p) : a.action = "clone" /\ a.path # acts[p][i].path =>
                     disk'[a.path] \in {before[p].disk[a.path], Product(p, a)}
                BY <3>2, <4>1 DEF ActsOf
            <4>3. \A d \in Path : disk'[d] # before[p].disk[d] => before[p].disk[d].kind \in Blank
                BY <1>3, <4>1
            <4> QED
                BY <1>1, <1>2, <2>1, <4>2, <4>3 DEF Blank
        <3> QED
            BY <3>3, <3>4
    <2> QED
        BY <2>2, <2>3, <2>4
<1> QED
    BY <1>6, <1>7

\* A bootstrap during which nobody else has changed the table or the tree and which is
\* refused has imported all of its manifest or nothing, and has put something only where
\* there was nothing, or an unedited placeholder.  It has written no placeholder, unless
\* one could not be written: then each of the others is whole or has not been begun
\* (bootstrap.Placeholders, materializePlaceholders, Executor.Execute).
THEOREM RefusalKeeps == Spec => RefusalKeepsWhatWasThere
<1>1. ASSUME Sound, AllUndisturbed, Next, NEW p \in Proc, Ends(p, "refused"), Alone(p)
      PROVE  /\ table' = before[p].table \/ (req[p].entries # <<>> /\ table' = Imported(p))
             /\ \A d \in Path : disk'[d] # before[p].disk[d] =>
                   before[p].disk[d].kind \in {"absent", "empty", "placeholder"}
             /\ req[p].placeholders =>
                   \/ disk' = before[p].disk
                   \/ /\ mishaps' # mishaps
                      /\ \E i \in todo[p] : \A a \in ActsOf(p) :
                            a.action = "clone" /\ a.path # acts[p][i].path =>
                                disk'[a.path] \in {before[p].disk[a.path], Product(p, a)}
    <2>1. Busy(p) /\ pc'[p] = "refused"
        BY <1>1 DEF Ends
    <2>2. \/ Refuse(p) /\ (DryRun(p) \/ Entries(p) \/ Plan(p) \/ Check(p) \/ Run(p))
          \/ Break(p) /\ Mistaken(p)
        BY <1>1, <2>1, TypeParts, EndsItself, EndsHow DEF Sound
    <2>3. Undisturbed(p)
        BY <1>1, <2>1 DEF AllUndisturbed
    <2> QED
        BY <1>1, <2>2, <2>3, RefusedKeeps
<1>2. Sound /\ AllUndisturbed /\ [Next]_vars =>
        [\A p \in Proc : Ends(p, "refused") /\ Alone(p) =>
          /\ table' = before[p].table \/ (req[p].entries # <<>> /\ table' = Imported(p))
          /\ \A d \in Path : disk'[d] # before[p].disk[d] =>
                before[p].disk[d].kind \in {"absent", "empty", "placeholder"}
          /\ req[p].placeholders =>
                \/ disk' = before[p].disk
                \/ /\ mishaps' # mishaps
                   /\ \E i \in todo[p] : \A a \in ActsOf(p) :
                         a.action = "clone" /\ a.path # acts[p][i].path =>
                             disk'[a.path] \in {before[p].disk[a.path], Product(p, a)}]_vars
    BY <1>1
<1> QED
    BY <1>2, InitSound, NextSound, InitUndisturbed, NextUndisturbed, PTL
       DEF Spec, RefusalKeepsWhatWasThere

-----------------------------------------------------------------------------
(***************************************************************************)
(* Running a broken-off bootstrap again.  A bootstrap of a manifest that   *)
(* breaks off in its clones leaves the table as the manifest wants it, and *)
(* at each of its places what was there before or what was to come there.  *)
(* From there all three plans find nothing against the manifest, nothing   *)
(* is left to import, and there is room for whatever is still to be put.   *)
(***************************************************************************)

\* The projects of the manifest are registered as it wants them.
InPlan(t, m) ==
    /\ Distinguished(m)
    /\ \A i \in DOMAIN m : /\ m[i].path \notin Outside
                           /\ m[i].remote \in DOMAIN t
                           /\ t[m[i].remote].alias = m[i].alias
                           /\ t[m[i].remote].canon = m[i].path
                           /\ t[m[i].remote].source = "canonical"

\* Placeholders are only written when the other projects are not in one another's way.
Spread(t, m) ==
    \A r, s \in DOMAIN t \ Identities(m) : r # s => ~Overlap(t[r].local, t[s].local)

\* Where e wants its project there is room for it, or it is there.
Placeable(q, e) ==
    \/ Free(e.path)
    \/ disk[e.path] = PlaceholderOf(e.remote, e.alias)
    \/ IF q.placeholders THEN disk[e.path].kind = "checkout" ELSE disk[e.path] = CheckoutOf(e.remote)

Resumable(q) ==
    /\ InPlan(table, q.entries)
    /\ q.placeholders => Spread(table, q.entries)
    /\ \A i \in DOMAIN q.entries : Placeable(q, q.entries[i])

HaltedKept ==
    halted # NoRequest => /\ \A p \in Proc : ~Busy(p)
                          /\ halted.entries # <<>> => Resumable(halted)

\* There is room for a as it was planned.
Fitting(a) == IF a.state = "placeholder" THEN Owned(a) ELSE Free(a.path)

Importing(p) ==
    /\ pc[p] \in {"entries", "agree"} \cup Between =>
          parents[p] \subseteq {req[p].entries[i].path : i \in DOMAIN req[p].entries}
    /\ pc[p] \in Between => adds[p] \subseteq DOMAIN goal[p]

\* Every project has one action, and none while it is to be planned.
Planning(p) ==
    /\ pc[p] = "plan" => queue[p] \subseteq Distinct(Names(req[p]))
    /\ \A i \in DOMAIN acts[p] : \E j \in DOMAIN req[p].entries :
          /\ acts[p][i].remote = req[p].entries[j].remote
          /\ pc[p] = "plan" => j \notin queue[p]
    /\ \A i, j \in DOMAIN acts[p] : i # j => acts[p][i].remote # acts[p][j].remote

Placing(p) ==
    /\ pc[p] \in {"plan", "check"} =>
          \A i \in DOMAIN acts[p] : acts[p][i].action = "clone" => Fitting(acts[p][i])
    /\ pc[p] = "run" => \A i \in todo[p] : Fitting(acts[p][i])

\* What p leaves alone.
Leaving(p) ==
    /\ req[p].placeholders /\ pc[p] \notin {"dryrun", "entries"} =>
          Spread(before[p].table, req[p].entries)
    /\ pc[p] \in Late => \A r \in DOMAIN table \ Identities(req[p].entries) :
          r \in DOMAIN before[p].table /\ table[r].local = before[p].table[r].local

Orderly(p) == Importing(p) /\ Planning(p) /\ Placing(p) /\ Leaving(p)

AllOrderly == \A p \in Proc : Busy(p) /\ Alone(p) /\ req[p].entries # <<>> => Orderly(p)

\* p runs again what has broken off.
Again(p) == retry[p] /\ req[p].entries # <<>> /\ Untangled(before[p].table, req[p].entries)

Resuming(p) ==
    /\ InPlan(before[p].table, req[p].entries)
    /\ req[p].placeholders => Spread(before[p].table, req[p].entries)
    /\ pc[p] \notin {"run", "persist"} =>
          \A i \in DOMAIN req[p].entries : Placeable(req[p], req[p].entries[i])

AllResuming == \A p \in Proc : Busy(p) /\ Alone(p) /\ Again(p) => Resuming(p)

\* Nothing to be imported, and nobody in the way.
LEMMA NothingToImport ==
    ASSUME NEW t \in Table, NEW m \in Seq(Entry), NEW d, InPlan(t, m)
    PROVE  DOMAIN Changes(t, m, d) = {} /\ Merge(t, Changes(t, m, d)) = t
<1>1. ASSUME NEW r \in Identities(m)
      PROVE  r \in DOMAIN t /\ t[r] = NewRow(t, m, d, r)
    <2>1. PICK i \in DOMAIN m : Wanted(m, r) = m[i] /\ m[i].remote = r
        BY WantedEntry
    <2>2. /\ r \in DOMAIN t /\ t[r].alias = m[i].alias /\ t[r].canon = m[i].path
          /\ t[r].source = "canonical"
        BY <2>1 DEF InPlan
    <2>3. t[r] \in Row
        BY <2>2 DEF Table
    <2>4. LocalPath(d, t[r], m[i].path) = t[r].local
        BY <2>2 DEF LocalPath
    <2>5. NewRow(t, m, d, r) = [alias |-> m[i].alias, local |-> t[r].local,
                                canon |-> m[i].path, source |-> "canonical"]
        BY <2>1, <2>2, <2>4 DEF NewRow
    <2> QED
        BY <2>2, <2>3, <2>5 DEF Row
<1>2. DOMAIN Changes(t, m, d) = {}
    BY <1>1, ChangesRows
<1>3. DOMAIN t \cup {} = DOMAIN t /\ t = [r \in DOMAIN t |-> t[r]]
    BY DEF Table
<1> QED
    BY <1>2, <1>3 DEF Merge

LEMMA NoneInTheWay ==
    ASSUME NEW t \in Table, IsFiniteSet(DOMAIN t), OwnAliases(t), NEW m \in Seq(Entry), NEW d,
           InPlan(t, m), Untangled(t, m)
    PROVE  /\ Distinguished(m) /\ Unclaimed(t, m, d)
           /\ \A i \in DOMAIN m : Drift(t, d, m[i]) = "unchanged"
<1>1. DOMAIN t \subseteq Remote
    BY DEF Table
<1>2. \A i \in DOMAIN m : m[i].alias \in Name
    <2>1. \A i \in DOMAIN m : m[i] \in Entry
        OBVIOUS
    <2> QED
        BY <2>1 DEF Entry
<1>3. ASSUME NEW i \in DOMAIN m
      PROVE  AliasOwner(t, m)[m[i].alias] \in {NoRemote, m[i].remote}
    <2> DEFINE z == AliasOwner(t, m)[m[i].alias]
    <2>1. z # NoRemote => z \in DOMAIN t /\ t[z].alias = m[i].alias
        BY <1>1, <1>2, OwnersTyped
    <2> HIDE DEF z
    <2>2. m[i].remote \in DOMAIN t /\ t[m[i].remote].alias = m[i].alias
        BY DEF InPlan
    <2>3. z \in {NoRemote, m[i].remote}
        BY <2>1, <2>2 DEF OwnAliases
    <2> QED
        BY <2>3 DEF z
<1>4. ASSUME NEW i \in DOMAIN m, NEW e \in Path, Overlap(e, m[i].path)
      PROVE  Claimed(t, m, d)[e] \in {NoRemote, m[i].remote}
    <2> DEFINE z == Claimed(t, m, d)[e]
    <2>1. z # NoRemote => z \in DOMAIN t /\ e \in Claims(t, m, d, z)
        BY ClaimsRemembered
    <2> HIDE DEF z
    <2>2. z # NoRemote => z \in DOMAIN t /\ (e = t[z].local \/ e = t[z].canon)
        BY <2>1 DEF Claims
    <2>3. z \in {NoRemote, m[i].remote}
        BY <1>4, <2>2 DEF Untangled
    <2> QED
        BY <2>3 DEF z
<1>5. \A i \in DOMAIN m : m[i].path \notin Outside /\ Drift(t, d, m[i]) = "unchanged"
    BY DEF InPlan, Drift
<1> QED
    BY <1>3, <1>4, <1>5 DEF InPlan, Unclaimed

\* The plan of a project that can be placed.
LEMMA PlaceablePlanned ==
    ASSUME table \in Table, disk \in Tree, NEW q, q.entries \in Seq(Entry),
           InPlan(table, q.entries), NEW i \in DOMAIN q.entries, Placeable(q, q.entries[i])
    PROVE  LET e == q.entries[i]
               a == Planned(e.remote)
           IN  /\ a.remote = e.remote /\ a.alias = e.alias /\ a.path = e.path
               /\ a.action \in {"none", "clone"}
               /\ a.state = "present" /\ ~q.placeholders => disk[e.path] = CheckoutOf(e.remote)
<1> DEFINE e == q.entries[i]
           r == e.remote
           a == Planned(r)
           state == StateAt(disk, r, table[r])
<1>1. /\ r \in DOMAIN table /\ table[r].alias = e.alias /\ table[r].canon = e.path
      /\ table[r].source = "canonical" /\ e.path \notin Outside
    BY DEF InPlan
<1>2. hydrationPath(table[r]) = e.path
    BY <1>1 DEF hydrationPath
<1>3. /\ a.remote = r /\ a.alias = e.alias /\ a.path = e.path
      /\ a.state = state /\ a.action = ActionFor(state)
    BY <1>1, <1>2 DEF Planned, classifyProject
<1>4. e.path \in Path /\ disk[e.path] \in Node
    BY <1>1, <1>2, PlannedType, TreeFacts
<1>5. \/ disk[e.path].kind = "checkout"
      \/ disk[e.path] = PlaceholderOf(r, e.alias)
      \/ disk[e.path].kind = "empty"
      \/ disk[e.path].kind = "absent" /\ ~Occupied(disk, e.path)
    BY DEF Placeable, Free, Blocked, Occupied, CheckoutOf
<1>6. state \in {"present", "placeholder", "missing"}
    BY <1>1, <1>2, <1>5 DEF StateAt
<1>7. state = "present" => disk[e.path].kind = "checkout"
    BY <1>1, <1>2 DEF StateAt
<1>8. disk[e.path].kind = "checkout" /\ ~q.placeholders => disk[e.path] = CheckoutOf(r)
    BY DEF Placeable, Free, PlaceholderOf
<1>9. a.action \in {"none", "clone"}
    BY <1>3, <1>6 DEF ActionFor
<1> QED
    BY <1>3, <1>7, <1>8, <1>9

LEMMA PlannedFitting ==
    ASSUME table \in Table, disk \in Tree, NEW r \in DOMAIN table, Planned(r).action = "clone"
    PROVE  Fitting(Planned(r))
<1> DEFINE a == Planned(r)
           state == StateAt(disk, r, table[r])
           d == hydrationPath(table[r])
<1>1. /\ a.remote = r /\ a.alias = table[r].alias /\ a.path = d
      /\ a.action = ActionFor(state) /\ a.state = state
    BY DEF Planned, classifyProject
<1>2. d \in Path /\ disk[d] \in Node
    BY PlannedType, TreeFacts
<1>3. state \in {"missing", "placeholder"}
    BY <1>1 DEF ActionFor
<1>4. CASE state = "placeholder"
    <2>1. disk[d] = PlaceholderOf(r, table[r].alias)
        BY <1>4 DEF StateAt
    <2> QED
        BY <1>1, <1>4, <2>1 DEF Fitting, Owned
<1>5. CASE state = "missing"
    <2>1. \/ disk[d].kind = "empty"
          \/ disk[d].kind = "absent" /\ ~Occupied(disk, d)
        BY <1>5 DEF StateAt
    <2>2. disk[d].kind = "empty" => ~Blocked(d)
        BY <1>2, TreeFacts DEF Blocked, Solid
    <2>3. Free(d)
        BY <2>1, <2>2 DEF Free, Blocked, Occupied
    <2> QED
        BY <1>1, <1>5, <2>3 DEF Fitting
<1> QED
    BY <1>3, <1>4, <1>5

\* Of a manifest nothing is in the way of the hydration plan is that of its projects.
LEMMA EntriesPlanned ==
    ASSUME table \in Table, IsFiniteSet(DOMAIN table), OwnAliases(table), NEW m \in Seq(Entry),
           InPlan(table, m), Untangled(table, m), NEW a \in PlanEntries(table, m, disk)
    PROVE  \/ \E i \in DOMAIN m : a = Planned(m[i].remote)
           \/ \E r \in DOMAIN table \ Identities(m) : a = added(table, r)
<1> DEFINE plan == BuildDryRunPlan(table, m, disk)
           planned(d) ==
               CASE d.drift \in {"unchanged", "moved"} ->
                      classifyProject(disk, d.remote,
                                      [table[d.remote] EXCEPT !.canon = d.path, !.source = "canonical"])
                 [] d.drift = "missing" -> actionFromDrift(d, "missing")
                 [] d.drift = "conflicting" -> actionFromDrift(d, "path-conflict")
<1>1. /\ Distinguished(m) /\ Unclaimed(table, m, disk)
      /\ \A i \in DOMAIN m : Drift(table, disk, m[i]) = "unchanged"
    BY NoneInTheWay
<1>2. \A i \in DOMAIN plan : i \in DOMAIN m /\ plan[i] = NoteOf(table, disk, m[i])
    <2>1. \A i \in DOMAIN m : Drift(table, disk, m[i]) # "conflicting"
        BY <1>1
    <2> QED
        BY <1>1, <2>1, PlanFits
<1>3. \/ \E i \in DOMAIN plan : a = planned(plan[i])
      \/ \E r \in DOMAIN table \ Identities(m) : a = added(table, r)
    BY DEF PlanEntries
<1> HIDE DEF plan
<1>4. ASSUME NEW i \in DOMAIN plan
      PROVE  i \in DOMAIN m /\ planned(plan[i]) = Planned(m[i].remote)
    <2> DEFINE r == m[i].remote
    <2>1. i \in DOMAIN m /\ plan[i] = NoteOf(table, disk, m[i])
        BY <1>2
    <2>2. plan[i].drift = "unchanged" /\ plan[i].remote = r /\ plan[i].path = m[i].path
        BY <1>1, <2>1 DEF NoteOf
    <2>3. planned(plan[i]) = classifyProject(disk, r,
                                 [table[r] EXCEPT !.canon = m[i].path, !.source = "canonical"])
        BY <2>2
    <2>4. r \in DOMAIN table /\ table[r].canon = m[i].path /\ table[r].source = "canonical"
        BY <2>1 DEF InPlan
    <2>5. table[r] \in Row
        BY <2>4 DEF Table
    <2>6. [table[r] EXCEPT !.canon = m[i].path, !.source = "canonical"] = table[r]
        BY <2>4, <2>5 DEF Row
    <2> QED
        BY <2>1, <2>3, <2>6 DEF Planned
<1> HIDE DEF planned
<1> QED
    BY <1>3, <1>4

\* The three plans find nothing against a manifest that is in the table and whose
\* projects can be placed.
LEMMA NothingAgainst ==
    ASSUME table \in Table, disk \in Tree, IsFiniteSet(DOMAIN table), OwnAliases(table),
           NEW q, q.entries \in Seq(Entry), InPlan(table, q.entries), Untangled(table, q.entries),
           q.placeholders => Spread(table, q.entries),
           \A i \in DOMAIN q.entries : Placeable(q, q.entries[i])
    PROVE  LET m == q.entries
               plan == PlanEntries(table, m, disk)
           IN  /\ ~Conflicting(BuildDryRunPlan(table, m, disk))
               /\ ~Conflicting(PlanImport(table, m, disk))
               /\ \A a \in plan : a.action # "refuse"
               /\ q.placeholders => Preflight(plan)
<1> DEFINE m == q.entries
           plan == PlanEntries(table, m, disk)
<1>1. /\ Distinguished(m) /\ Unclaimed(table, m, disk)
      /\ \A i \in DOMAIN m : Drift(table, disk, m[i]) = "unchanged"
    BY NoneInTheWay
<1>2. ~Conflicting(BuildDryRunPlan(table, m, disk)) /\ ~Conflicting(PlanImport(table, m, disk))
    <2>1. \A i \in DOMAIN m : Drift(table, disk, m[i]) # "conflicting"
        BY <1>1
    <2> QED
        BY <1>1, <2>1, PlanFits
<1>3. \A a \in plan : \/ \E i \in DOMAIN m : a = Planned(m[i].remote)
                      \/ \E r \in DOMAIN table \ Identities(m) : a = added(table, r)
    BY EntriesPlanned
<1> HIDE DEF plan
<1>4. \A i \in DOMAIN m : /\ Planned(m[i].remote).path = m[i].path
                          /\ Planned(m[i].remote).action \in {"none", "clone"}
                          /\ m[i].path \notin Outside
    BY PlaceablePlanned DEF InPlan
<1>5. \A r : added(table, r).path = table[r].local /\ added(table, r).action = "none"
    BY DEF added
<1>6. \A a \in plan : a.action # "refuse"
    BY <1>3, <1>4, <1>5
<1>7. \A a \in plan : a.action = "clone" => a.path \notin Outside
    BY <1>3, <1>4, <1>5
<1>8. ASSUME q.placeholders, NEW a \in plan, NEW b \in plan, a # b
      PROVE  ~Overlap(a.path, b.path)
    <2>1. \A i \in DOMAIN m, r \in DOMAIN table \ Identities(m) :
             ~Overlap(table[r].local, m[i].path) /\ ~Overlap(m[i].path, table[r].local)
        <3>1. \A i \in DOMAIN m : m[i].remote \in Identities(m)
            BY DEF Identities
        <3> QED
            BY <3>1, OverlapSymmetric DEF Untangled
    <2>2. CASE \E i \in DOMAIN m : a = Planned(m[i].remote)
        <3>1. PICK i \in DOMAIN m : a = Planned(m[i].remote)
            BY <2>2
        <3>2. CASE \E j \in DOMAIN m : b = Planned(m[j].remote)
            <4>1. PICK j \in DOMAIN m : b = Planned(m[j].remote)
                BY <3>2
            <4>2. i # j
                BY <1>8, <3>1, <4>1
            <4> QED
                BY <1>1, <1>4, <3>1, <4>1, <4>2 DEF Distinguished
        <3>3. CASE \E r \in DOMAIN table \ Identities(m) : b = added(table, r)
            BY <1>4, <1>5, <2>1, <3>1, <3>3
        <3> QED
            BY <1>3, <3>2, <3>3
    <2>3. CASE \E r \in DOMAIN table \ Identities(m) : a = added(table, r)
        <3>1. PICK r \in DOMAIN table \ Identities(m) : a = added(table, r)
            BY <2>3
        <3>2. CASE \E j \in DOMAIN m : b = Planned(m[j].remote)
            BY <1>4, <1>5, <2>1, <3>1, <3>2
        <3>3. CASE \E s \in DOMAIN table \ Identities(m) : b = added(table, s)
            <4>1. PICK s \in DOMAIN table \ Identities(m) : b = added(table, s)
                BY <3>3
            <4>2. r # s
                BY <1>8, <3>1, <4>1
            <4> QED
                BY <1>5, <1>8, <3>1, <4>1, <4>2 DEF Spread
        <3> QED
            BY <1>3, <3>2, <3>3
    <2> QED
        BY <1>3, <2>2, <2>3
<1>9. q.placeholders => Preflight(plan)
    BY <1>7, <1>8 DEF Preflight, PathsApart
<1> QED
    BY <1>2, <1>6, <1>9 DEF plan

\* What a process at work on a manifest may count on.
LEMMA AtWork ==
    ASSUME Sound, NEW p \in Proc, Busy(p), req[p].entries # <<>>
    PROVE  /\ Remembered /\ Course(p) /\ table \in Table /\ disk \in Tree
           /\ IsFiniteSet(DOMAIN table) /\ OwnAliases(table)
           /\ req[p] \in Requests /\ req[p].entries \in Seq(Entry) /\ ~req[p].all
           /\ \A i \in DOMAIN req[p].entries : req[p].entries[i] \in Entry
           /\ before[p].table \in Table /\ before[p].disk \in Tree
           /\ acts[p] \in Seq(ActionRecord) /\ parents[p] \subseteq Path
<1>1. /\ Remembered /\ Course(p) /\ table \in Table /\ disk \in Tree
      /\ IsFiniteSet(DOMAIN table) /\ OwnAliases(table)
    BY TypeParts DEF Sound, World
<1>2. req[p] \in Requests /\ req[p].entries \in Seq(Entry) /\ req[p] \in Request
    BY <1>1, RequestType DEF Course
<1>3. ~req[p].all
    BY <1>2 DEF Request
<1>4. \A i \in DOMAIN req[p].entries : req[p].entries[i] \in Entry
    BY <1>2
<1>5. /\ before[p] \in [table : Table, disk : Tree]
      /\ acts[p] \in Seq(ActionRecord) /\ parents[p] \subseteq Path
    BY <1>1 DEF Remembered
<1> QED
    BY <1>1, <1>2, <1>3, <1>4, <1>5

\* After the import the table is as the manifest wants it.
LEMMA LateInPlan ==
    ASSUME Sound, NEW p \in Proc, Undisturbed(p), pc[p] \in Late, req[p].entries # <<>>
    PROVE  InPlan(table, req[p].entries)
<1> DEFINE m == req[p].entries
           t == before[p].table
           d == before[p].disk
           new == Merge(t, Changes(t, m, d))
<1>1. Busy(p)
    BY DEF Busy, Resting, Late
<1>2. m \in Seq(Entry) /\ t \in Table /\ IsFiniteSet(DOMAIN table)
    BY <1>1, AtWork
<1>3. ~Conflicting(PlanImport(t, m, d)) /\ Aim(p) = new
    BY DEF Undisturbed, ManifestKept, Early, Late, Aim
<1>4. SamePlaces(table, new)
    BY <1>3 DEF Undisturbed, TableKept, SamePlaces, Late
<1> HIDE DEF m, t, d
<1>5. /\ DOMAIN new = DOMAIN t \cup Identities(m)
      /\ \A x \in Identities(m) : new[x] = NewRow(t, m, d, x)
    BY <1>2, MergedRows
<1> HIDE DEF new
<1>6. DOMAIN table = DOMAIN new
    BY <1>4 DEF SamePlaces
<1>7. IsFiniteSet(DOMAIN t)
    BY <1>2, <1>5, <1>6, FS_Subset
<1>8. Distinguished(m) /\ Unclaimed(t, m, d)
    BY <1>2, <1>3, <1>7, ImportPromise
<1>9. ASSUME NEW i \in DOMAIN m
      PROVE  /\ m[i].path \notin Outside
             /\ m[i].remote \in DOMAIN table
             /\ table[m[i].remote].alias = m[i].alias
             /\ table[m[i].remote].canon = m[i].path
             /\ table[m[i].remote].source = "canonical"
    <2>1. Wanted(m, m[i].remote) = m[i] /\ m[i].remote \in Identities(m)
        BY <1>2, <1>8, WantedIs
    <2>2. new[m[i].remote] = NewRow(t, m, d, m[i].remote) /\ m[i].remote \in DOMAIN new
        BY <1>5, <2>1
    <2>3. /\ NewRow(t, m, d, m[i].remote).alias = m[i].alias
          /\ NewRow(t, m, d, m[i].remote).canon = m[i].path
          /\ NewRow(t, m, d, m[i].remote).source = "canonical"
        BY <1>2, <2>1, NewRowType
    <2>4. m[i].path \notin Outside
        BY <1>8 DEF Unclaimed
    <2> QED
        BY <1>4, <1>6, <2>2, <2>3, <2>4 DEF SamePlaces
<1>10. InPlan(table, m)
    BY <1>8, <1>9 DEF InPlan
<1> QED
    BY <1>10 DEF m

\* An action of the hydration plan is that of an entry of the manifest.
LEMMA ActOfEntry ==
    ASSUME Sound, NEW p \in Proc, Undisturbed(p), Planning(p), p \notin outdated,
           pc[p] \in Late, req[p].entries # <<>>, NEW k \in DOMAIN acts[p]
    PROVE  \E j \in DOMAIN req[p].entries :
              LET e == req[p].entries[j]
              IN  /\ acts[p][k].remote = e.remote
                  /\ acts[p][k].alias = e.alias
                  /\ acts[p][k].path = e.path
                  /\ pc[p] = "plan" => j \notin queue[p]
<1>1. PICK j \in DOMAIN req[p].entries :
         /\ acts[p][k].remote = req[p].entries[j].remote
         /\ pc[p] = "plan" => j \notin queue[p]
    BY DEF Planning
<1>2. InPlan(table, req[p].entries)
    BY LateInPlan
<1>3. AsListed(acts[p][k], table)
    BY DEF Sound, Course
<1> QED
    BY <1>1, <1>2, <1>3 DEF AsListed, hydrationPath, InPlan

-----------------------------------------------------------------------------
(***************************************************************************)
(* Each step of a bootstrap of a manifest keeps its order.                 *)
(***************************************************************************)

\* Before the import there is no action to be out of order.
LEMMA NothingOrdered ==
    ASSUME NEW p, pc'[p] \in Early \cup Between, acts'[p] = <<>>, Importing(p)',
           req'[p].placeholders /\ pc'[p] \notin {"dryrun", "entries"} =>
              Spread(before'[p].table, req'[p].entries)
    PROVE  Orderly(p)'
<1>1. DOMAIN acts'[p] = {}
    OBVIOUS
<1>2. pc'[p] \notin Late
    BY DEF Early, Between, Late
<1>3. Planning(p)'
    BY <1>1, <1>2 DEF Planning, Late
<1>4. Placing(p)'
    BY <1>1, <1>2 DEF Placing, Late
<1>5. Leaving(p)'
    BY <1>2 DEF Leaving
<1> QED
    BY <1>3, <1>4, <1>5 DEF Orderly

LEMMA BeginOrderly ==
    ASSUME Sound, NEW p \in Proc, NEW q \in Requests, Begin(p, q), req'[p].entries # <<>>
    PROVE  Orderly(p)'
<1>1. Remembered /\ Course(p)
    BY TypeParts DEF Sound
<1>2. req'[p] = q /\ acts' = acts
    BY <1>1 DEF Begin, Remembered
<1>3. pc'[p] = "dryrun"
    BY <1>1, <1>2 DEF Begin, Goto, Remembered
<1>4. acts'[p] = <<>>
    <2>1. pc[p] \in Resting
        BY DEF Begin, Busy
    <2> QED
        BY <1>1, <1>2, <2>1 DEF Course, Resting, Late
<1> QED
    BY <1>3, <1>4, NothingOrdered DEF Importing, Early, Between

LEMMA DryRunOrderly ==
    ASSUME Sound, NEW p \in Proc, DryRun(p), Busy(p)', req[p].entries # <<>>
    PROVE  Orderly(p)'
<1> DEFINE m == req[p].entries
<1>1. Remembered /\ Course(p) /\ pc[p] = "dryrun"
    BY TypeParts DEF Sound, DryRun
<1>2. ~Return(p, "refused")
    BY <1>1 DEF Return, End, Goto, Busy, Resting, Remembered
<1>3. /\ Pass(p, "entries") /\ UNCHANGED <<req, goal, adds, queue, acts, todo>>
      /\ parents' = [parents EXCEPT ![p] =
                        IF req[p].placeholders THEN {}
                        ELSE {m[i].path : i \in {j \in DOMAIN m : Above[m[j].path] # {}}}]
    BY <1>2 DEF DryRun, Refuse
<1>4. pc'[p] = "entries" /\ acts'[p] = <<>>
    BY <1>1, <1>3, PassCounted DEF Remembered, Course, Late
<1>5. parents'[p] \subseteq {m[i].path : i \in DOMAIN m}
    <2>1. p \in DOMAIN parents
        BY <1>1 DEF Remembered
    <2> HIDE DEF m
    <2> QED
        BY <1>3, <2>1
<1>6. Importing(p)'
    BY <1>3, <1>4, <1>5 DEF Importing, Between
<1> QED
    BY <1>4, <1>6, NothingOrdered DEF Early

LEMMA EntriesOrderly ==
    ASSUME Sound, NEW p \in Proc, Undisturbed(p), Orderly(p), Entries(p), Busy(p)',
           req[p].entries # <<>>
    PROVE  Orderly(p)'
<1> DEFINE m == req[p].entries
           plan == PlanEntries(table, m, disk)
<1>1. Remembered /\ Course(p) /\ pc[p] = "entries"
    BY TypeParts DEF Sound, Entries
<1>2. ~Return(p, "refused")
    BY <1>1 DEF Return, End, Goto, Busy, Resting, Remembered
<1>3. /\ Pass(p, "agree") /\ UNCHANGED <<req, parents, goal, adds, queue, acts, todo>>
      /\ req[p].placeholders => Preflight(plan)
    BY <1>2 DEF Entries, Refuse, locals
<1>4. /\ pc'[p] = "agree" /\ acts'[p] = <<>> /\ before' = before
    BY <1>1, <1>3, PassCounted DEF Remembered, Course, Late
<1>5. table = before[p].table
    BY <1>1 DEF Undisturbed, TableKept, Early
<1>6. ASSUME req[p].placeholders
      PROVE  Spread(table, m)
    <2>1. PathsApart(plan)
        BY <1>3, <1>6 DEF Preflight
    <2>2. \A r \in DOMAIN table \ Identities(m) : added(table, r) \in plan
        BY DEF PlanEntries
    <2>3. \A r : /\ added(table, r).remote = r /\ added(table, r).path = table[r].local
                 /\ added(table, r).action = "none"
        BY DEF added
    <2> HIDE DEF plan
    <2> QED
        BY <2>1, <2>2, <2>3 DEF PathsApart, Spread
<1>7. Importing(p)'
    BY <1>1, <1>3, <1>4 DEF Orderly, Importing, Between
<1> QED
    BY <1>3, <1>4, <1>5, <1>6, <1>7, NothingOrdered DEF Early

LEMMA AgreeOrderly ==
    ASSUME Sound, NEW p \in Proc, Orderly(p), Agree(p), Busy(p)', req[p].entries # <<>>
    PROVE  Orderly(p)'
<1> DEFINE changes == Changes(table, req[p].entries, disk)
<1>1. Remembered /\ Course(p) /\ pc[p] = "agree"
    BY TypeParts DEF Sound, Agree
<1>2. ~Return(p, "failed")
    BY <1>1 DEF Return, End, Goto, Busy, Resting, Remembered
<1>3. /\ Pass(p, IF parents[p] = {} THEN "import" ELSE "parents")
      /\ UNCHANGED <<req, parents, queue, acts, todo>>
      /\ goal' = [goal EXCEPT ![p] = changes]
      /\ adds' = [adds EXCEPT ![p] = DOMAIN changes \ DOMAIN table]
    BY <1>2 DEF Agree, Fail
<1> HIDE DEF changes
<1>4. /\ pc'[p] \in Between /\ acts'[p] = <<>> /\ before' = before
      /\ goal'[p] = changes /\ adds'[p] = DOMAIN changes \ DOMAIN table
    BY <1>1, <1>3, PassCounted DEF Remembered, Between, Course, Late
<1>5. Importing(p)'
    BY <1>1, <1>3, <1>4 DEF Orderly, Importing
<1>6. req[p].placeholders => Spread(before[p].table, req[p].entries)
    BY <1>1 DEF Orderly, Leaving
<1> QED
    BY <1>3, <1>4, <1>5, <1>6, NothingOrdered

LEMMA MakeParentOrderly ==
    ASSUME Sound, NEW p \in Proc, Orderly(p), MakeParent(p), Busy(p)', req[p].entries # <<>>
    PROVE  Orderly(p)'
<1>1. Remembered /\ Course(p) /\ pc[p] = "parents"
    BY TypeParts DEF Sound, MakeParent
<1>2. ~Return(p, "failed")
    BY <1>1 DEF Return, End, Goto, Busy, Resting, Remembered
<1>3. PICK d \in parents[p] :
         /\ parents' = [parents EXCEPT ![p] = @ \ {d}]
         /\ Goto(p, IF parents[p] = {d} THEN "import" ELSE "parents")
         /\ UNCHANGED <<table, req, goal, adds, queue, acts, todo, bounds,
                        before, outdated, clean, halted, retry>>
    BY <1>2 DEF MakeParent, Fail
<1>4. /\ pc'[p] \in Between /\ acts'[p] = <<>> /\ parents'[p] \subseteq parents[p]
    BY <1>1, <1>3 DEF Remembered, Goto, Between, Course, Late
<1>5. Importing(p)'
    BY <1>1, <1>3, <1>4 DEF Orderly, Importing, Between
<1>6. req[p].placeholders => Spread(before[p].table, req[p].entries)
    BY <1>1 DEF Orderly, Leaving
<1> QED
    BY <1>3, <1>4, <1>5, <1>6, NothingOrdered

LEMMA ImportOrderly ==
    ASSUME Sound, NEW p \in Proc, Undisturbed(p), Orderly(p), Import(p), Busy(p)',
           req[p].entries # <<>>
    PROVE  Orderly(p)'
<1> DEFINE m == req[p].entries
           t == before[p].table
           d == before[p].disk
<1>1. Remembered /\ Course(p) /\ pc[p] = "import" /\ Busy(p)
    BY TypeParts DEF Sound, Import, Busy, Resting
<1>2. ~Return(p, "failed")
    BY <1>1 DEF Return, End, Goto, Busy, Resting, Remembered
<1>3. /\ table' = Merge(table, goal[p])
      /\ Goto(p, "plan")
      /\ UNCHANGED <<disk, req, parents, queue, acts, todo, bounds,
                     before, disturbed, halted, retry>>
    BY <1>2 DEF Import, Fail, Merge
<1>4. pc'[p] = "plan" /\ acts'[p] = <<>> /\ DOMAIN acts'[p] = {}
    BY <1>1, <1>3 DEF Remembered, Goto, Course, Late
<1>5. /\ table' = Merge(t, Changes(t, m, d)) /\ queue[p] = Distinct(Names(req[p]))
    BY <1>1, <1>3 DEF Undisturbed, TableKept, ManifestKept, Between
<1>6. t \in Table /\ m \in Seq(Entry)
    BY <1>1, AtWork
<1>7. ASSUME NEW r \in DOMAIN table' \ Identities(m)
      PROVE  r \in DOMAIN t /\ table'[r].local = t[r].local
    <2> DEFINE new == Merge(t, Changes(t, m, d))
    <2> HIDE DEF t, m, d
    <2>1. /\ DOMAIN new = DOMAIN t \cup Identities(m)
          /\ \A x \in DOMAIN t \ Identities(m) : new[x] = t[x]
        BY <1>6, MergedRows
    <2>2. table' = new
        BY <1>5
    <2> HIDE DEF new
    <2> QED
        BY <1>7, <2>1, <2>2
<1>8. Importing(p)'
    BY <1>4 DEF Importing, Between
<1>9. Planning(p)'
    BY <1>3, <1>4, <1>5 DEF Planning
<1>10. Placing(p)'
    BY <1>4 DEF Placing
<1>11. Leaving(p)'
    BY <1>1, <1>3, <1>4, <1>7 DEF Orderly, Leaving
<1> QED
    BY <1>8, <1>9, <1>10, <1>11 DEF Orderly

\* A plan goes on with an action for one entry, or ends the command.
LEMMA PlanOfEntry ==
    ASSUME Sound, NEW p \in Proc, Undisturbed(p), Orderly(p), Plan(p), req[p].entries # <<>>
    PROVE  \E i \in DOMAIN req[p].entries :
              LET r == req[p].entries[i].remote
              IN  /\ i \in queue[p] /\ r \in DOMAIN table
                  /\ \/ Refuse(p) /\ Planned(r).action = "refuse"
                     \/ /\ Planned(r).action # "refuse"
                        /\ acts' = [acts EXCEPT ![p] = Append(@, Planned(r))]
                        /\ queue' = [queue EXCEPT ![p] = @ \ {i}]
                        /\ Pass(p, IF queue[p] = {i} THEN "check" ELSE "plan")
                        /\ UNCHANGED <<req, parents, goal, adds, todo>>
<1> DEFINE m == req[p].entries
<1>1. pc[p] = "plan" /\ Busy(p) /\ pc[p] \in Late
    BY DEF Plan, Busy, Resting, Late
<1>2. /\ m \in Seq(Entry) /\ ~req[p].all /\ OwnAliases(table) /\ table \in Table /\ disk \in Tree
      /\ acts[p] \in Seq(ActionRecord)
    BY <1>1, AtWork
<1>3. InPlan(table, m)
    BY <1>1, LateInPlan
<1>4. \A i \in queue[p] : i \in DOMAIN m /\ Names(req[p])[i] = m[i].alias
    BY <1>1 DEF Orderly, Planning, Names, Distinct
<1>5. PICK i \in queue[p] :
         LET rows == Known(table, Names(req[p])[i])
         IN  \/ rows = {} /\ Refuse(p)
             \/ \E x \in rows : PlanWith(p, <<Planned(x)>>, queue[p] \ {i})
    BY <1>2 DEF Plan
<1> DEFINE r == m[i].remote
<1>6. i \in DOMAIN m /\ r \in DOMAIN table /\ table[r].alias = m[i].alias
    BY <1>3, <1>4 DEF InPlan
<1>7. Known(table, Names(req[p])[i]) = {r}
    BY <1>2, <1>4, <1>6 DEF Known, OwnAliases
<1>8. PlanWith(p, <<Planned(r)>>, queue[p] \ {i})
    BY <1>5, <1>7
<1>9. Planned(r) \in ActionRecord
    BY <1>2, <1>6, PlannedType
<1>10. CASE Planned(r).action = "refuse"
    <2>1. 1 \in DOMAIN <<Planned(r)>> /\ <<Planned(r)>>[1] = Planned(r)
        OBVIOUS
    <2>2. Refuse(p)
        BY <1>8, <1>10, <2>1 DEF PlanWith
    <2> QED
        BY <1>6, <1>10, <2>2
<1>11. CASE Planned(r).action # "refuse"
    <2>1. \A k \in DOMAIN <<Planned(r)>> : <<Planned(r)>>[k].action # "refuse"
        BY <1>11
    <2>2. /\ acts' = [acts EXCEPT ![p] = @ \o <<Planned(r)>>]
          /\ queue' = [queue EXCEPT ![p] = queue[p] \ {i}]
          /\ Pass(p, IF queue[p] \ {i} = {} THEN "check" ELSE "plan")
          /\ UNCHANGED <<req, parents, goal, adds, todo>>
        BY <1>8, <2>1 DEF PlanWith
    <2>3. acts[p] \o <<Planned(r)>> = Append(acts[p], Planned(r))
        BY <1>2, <1>9
    <2>4. (queue[p] \ {i} = {}) = (queue[p] = {i})
        BY <1>5
    <2>5. Pass(p, IF queue[p] = {i} THEN "check" ELSE "plan")
        BY <2>2, <2>4
    <2> QED
        BY <1>6, <1>11, <2>2, <2>3, <2>5
<1> QED
    BY <1>10, <1>11

LEMMA PlanOrderly ==
    ASSUME Sound, NEW p \in Proc, Undisturbed(p), Orderly(p), Plan(p), Busy(p)',
           p \notin outdated, req[p].entries # <<>>
    PROVE  Orderly(p)'
<1> DEFINE m == req[p].entries
<1>1. Remembered /\ Course(p) /\ pc[p] = "plan" /\ Busy(p) /\ pc[p] \in Late
    BY TypeParts DEF Sound, Plan, Busy, Resting, Late
<1>2. /\ m \in Seq(Entry) /\ table \in Table /\ disk \in Tree /\ acts[p] \in Seq(ActionRecord)
    BY <1>1, AtWork
<1>3. Distinguished(m)
    BY <1>1, LateInPlan DEF InPlan
<1>4. ~Refuse(p)
    BY <1>1 DEF Refuse, Return, End, Goto, Busy, Resting, Remembered
<1>5. PICK i \in DOMAIN m :
         /\ i \in queue[p] /\ m[i].remote \in DOMAIN table
         /\ acts' = [acts EXCEPT ![p] = Append(@, Planned(m[i].remote))]
         /\ queue' = [queue EXCEPT ![p] = @ \ {i}]
         /\ Pass(p, IF queue[p] = {i} THEN "check" ELSE "plan")
         /\ UNCHANGED <<req, parents, goal, adds, todo>>
    BY <1>4, PlanOfEntry
<1> DEFINE a == Planned(m[i].remote)
           u == acts[p]
           w == Append(u, a)
<1>6. /\ pc'[p] \in {"plan", "check"} /\ acts'[p] = w /\ queue'[p] = queue[p] \ {i}
      /\ table' = table /\ disk' = disk /\ before' = before /\ req' = req
    BY <1>1, <1>5, PassCounted DEF Remembered
<1>7. a \in ActionRecord /\ a.remote = m[i].remote
    BY <1>2, <1>5, PlannedType
<1>8. a.action = "clone" => Fitting(a)
    BY <1>2, <1>5, PlannedFitting
<1>9. queue[p] \subseteq Distinct(Names(req[p]))
    BY <1>1 DEF Orderly, Planning
<1>10. \A k \in DOMAIN u : \E j \in DOMAIN m : u[k].remote = m[j].remote /\ j \notin queue[p]
    BY <1>1 DEF Orderly, Planning
<1>11. \A k, l \in DOMAIN u : k # l => u[k].remote # u[l].remote
    BY DEF Orderly, Planning
<1>12. \A k \in DOMAIN u : u[k].action = "clone" => Fitting(u[k])
    BY <1>1 DEF Orderly, Placing
<1> HIDE DEF a, u, m
<1>13. \A k \in DOMAIN u : u[k].remote # a.remote
    BY <1>3, <1>5, <1>7, <1>10 DEF Distinguished
<1>14. u \in Seq(ActionRecord)
    BY <1>2 DEF u
<1>15. /\ w \in Seq(ActionRecord) /\ Len(w) = Len(u) + 1 /\ w[Len(u) + 1] = a
       /\ \A k \in 1..Len(u) : w[k] = u[k]
    BY <1>7, <1>14, Appended
<1>16. Len(u) \in Nat /\ DOMAIN u = 1..Len(u)
    BY <1>14
<1> HIDE DEF w
<1>17. DOMAIN w = 1..(Len(u) + 1)
    BY <1>15
<1>18. \A k \in DOMAIN w : \/ k \in DOMAIN u /\ w[k] = u[k]
                           \/ k = Len(u) + 1 /\ w[k] = a
    <2>1. \A k \in 1..(Len(u) + 1) : k \in 1..Len(u) \/ k = Len(u) + 1
        BY <1>16
    <2>2. w[Len(u) + 1] = a /\ \A k \in 1..Len(u) : w[k] = u[k]
        BY <1>15
    <2> QED
        BY <1>16, <1>17, <2>1, <2>2
<1>19. \A k \in DOMAIN w : \E j \in DOMAIN m : w[k].remote = m[j].remote /\ j \notin queue'[p]
    BY <1>5, <1>6, <1>7, <1>10, <1>18
<1>20. \A k, l \in DOMAIN w : k # l => w[k].remote # w[l].remote
    BY <1>11, <1>13, <1>18
<1>21. \A k \in DOMAIN w : w[k].action = "clone" => Fitting(w[k])
    BY <1>8, <1>12, <1>18
<1>22. Importing(p)'
    BY <1>6 DEF Importing, Between
<1>23. Planning(p)'
    BY <1>6, <1>9, <1>19, <1>20 DEF Planning, m
<1>24. Placing(p)'
    BY <1>6, <1>21 DEF Placing, Fitting, Free, Blocked, Owned
<1>25. Leaving(p)'
    BY <1>1, <1>6 DEF Orderly, Leaving, Late
<1> QED
    BY <1>22, <1>23, <1>24, <1>25 DEF Orderly

LEMMA CheckOrderly ==
    ASSUME Sound, NEW p \in Proc, Orderly(p), Check(p), Busy(p)'
    PROVE  Orderly(p)'
<1> DEFINE clones == {i \in DOMAIN acts[p] : acts[p][i].action = "clone"}
<1>1. Remembered /\ pc[p] = "check"
    BY TypeParts DEF Sound, Check
<1>2. ~Return(p, "refused")
    BY <1>1 DEF Return, End, Goto, Busy, Resting, Remembered
<1>3. /\ todo' = [todo EXCEPT ![p] = clones] /\ Pass(p, "run")
      /\ UNCHANGED <<req, parents, goal, adds, queue, acts>>
    BY <1>2 DEF Check, Refuse
<1>4. /\ pc'[p] = "run" /\ todo'[p] = clones /\ table' = table /\ disk' = disk
      /\ before' = before /\ acts' = acts /\ req' = req
    BY <1>1, <1>3, PassCounted DEF Remembered
<1>5. \A i \in clones : Fitting(acts[p][i])
    BY <1>1 DEF Orderly, Placing
<1> HIDE DEF clones
<1>6. Importing(p)'
    BY <1>4 DEF Importing, Between
<1>7. Planning(p)'
    BY <1>1, <1>4 DEF Orderly, Planning
<1>8. Placing(p)'
    BY <1>4, <1>5 DEF Placing, Fitting, Free, Blocked, Owned
<1>9. Leaving(p)'
    BY <1>1, <1>4 DEF Orderly, Leaving, Late
<1> QED
    BY <1>6, <1>7, <1>8, <1>9 DEF Orderly

LEMMA RunOrderly ==
    ASSUME Sound, NEW p \in Proc, Undisturbed(p), Orderly(p), Run(p), Busy(p)'
    PROVE  Orderly(p)'
<1>1. /\ Remembered /\ Course(p) /\ pc[p] = "run" /\ acts[p] \in Seq(ActionRecord)
      /\ disk \in Tree
    BY TypeParts DEF Sound, Run, Remembered
<1>2. ~Return(p, "refused") /\ ~Return(p, "failed")
    BY <1>1 DEF Return, End, Goto, Busy, Resting, Remembered
<1>3. PICK i \in todo[p] :
         /\ Ready(p, acts[p][i])
         /\ disk' = Put(acts[p][i].path, Product(p, acts[p][i]))
         /\ todo' = [todo EXCEPT ![p] = @ \ {i}]
         /\ UNCHANGED <<table, pc, req, parents, goal, adds, queue, acts, bounds,
                        before, outdated, clean, halted, retry>>
    BY <1>2 DEF Run, Refuse, Fail
<1> DEFINE a == acts[p][i]
           new == Put(a.path, Product(p, a))
<1>4. todo[p] \subseteq DOMAIN acts[p] /\ \A j \in DOMAIN acts[p] : acts[p][j] \in ActionRecord
    BY <1>1 DEF Course
<1>5. a \in ActionRecord /\ \A j \in DOMAIN acts[p] : acts[p][j].path \in Path
    BY <1>3, <1>4 DEF ActionRecord
<1>6. /\ \A d \in Path : ~Overlap(d, a.path) => new[d] = disk[d]
      /\ \A d \in Path : d # a.path /\ disk[d].kind # "file" => new[d].kind # "file"
    <2>1. Product(p, a) \in Node
        BY <1>5, ProductType
    <2> QED
        BY <1>1, <1>3, <1>5, <2>1, PutEffect
<1>7. todo'[p] = todo[p] \ {i} /\ pc'[p] = "run" /\ disk' = new
    BY <1>1, <1>3 DEF Remembered
<1> HIDE DEF new
<1>8. ASSUME NEW j \in todo'[p]
      PROVE  Fitting(acts[p][j])'
    <2> DEFINE b == acts[p][j]
    <2>1. j \in todo[p] /\ j # i /\ j \in DOMAIN acts[p] /\ i \in DOMAIN acts[p]
        BY <1>3, <1>4, <1>7
    <2>2. b.remote # a.remote
        BY <2>1 DEF Orderly, Planning
    <2>3. ~Overlap(b.path, a.path) /\ b.path # a.path /\ a.path \notin Above[b.path]
        BY <1>1, <2>1, <2>2 DEF Undisturbed, ActsKept, Overlap
    <2>4. Fitting(b)
        BY <1>1, <2>1 DEF Orderly, Placing
    <2>5. b.path \in Path /\ Above[b.path] \subseteq Path
        BY <1>5, <2>1, AboveAssumption
    <2>6. disk'[b.path] = disk[b.path]
        BY <1>6, <1>7, <2>3, <2>5
    <2>7. ~Blocked(b.path) => \A q \in Above[b.path] : disk'[q].kind # "file"
        <3>1. \A q \in Above[b.path] : disk[q].kind # "file" => new[q].kind # "file"
            BY <1>6, <2>3, <2>5
        <3> QED
            BY <1>7, <3>1 DEF Blocked
    <2>8. acts'[p][j] = b
        BY <1>3
    <2> HIDE DEF b
    <2>9. CASE b.state = "placeholder"
        BY <2>4, <2>6, <2>8, <2>9 DEF Fitting, Owned
    <2>10. CASE b.state # "placeholder"
        BY <2>4, <2>6, <2>7, <2>8, <2>10 DEF Fitting, Free, Blocked
    <2> QED
        BY <2>9, <2>10
<1>9. Importing(p)'
    BY <1>7 DEF Importing, Between
<1>10. Planning(p)'
    BY <1>1, <1>3, <1>7 DEF Orderly, Planning
<1>11. Placing(p)'
    BY <1>7, <1>8 DEF Placing
<1>12. Leaving(p)'
    BY <1>1, <1>3, <1>7 DEF Orderly, Leaving, Late
<1> QED
    BY <1>9, <1>10, <1>11, <1>12 DEF Orderly

LEMMA RanOrderly ==
    ASSUME Sound, NEW p \in Proc, Orderly(p), Ran(p)
    PROVE  Orderly(p)'
<1>1. Remembered /\ pc[p] = "run"
    BY TypeParts DEF Sound, Ran
<1>2. Pass(p, "persist") /\ UNCHANGED <<req, parents, goal, adds, queue, acts>>
    BY DEF Ran
<1>3. /\ pc'[p] = "persist" /\ table' = table /\ before' = before /\ acts' = acts /\ req' = req
    BY <1>1, <1>2, PassCounted DEF Remembered
<1>4. Importing(p)' /\ Placing(p)'
    BY <1>3 DEF Importing, Between, Placing
<1>5. Planning(p)'
    BY <1>1, <1>3 DEF Orderly, Planning
<1>6. Leaving(p)'
    BY <1>1, <1>3 DEF Orderly, Leaving, Late
<1> QED
    BY <1>4, <1>5, <1>6 DEF Orderly

LEMMA PersistOrderly ==
    ASSUME Sound, NEW p \in Proc, Orderly(p), Persist(p), Busy(p)'
    PROVE  Orderly(p)'
<1>1. Remembered /\ Course(p) /\ pc[p] = "persist"
    BY TypeParts DEF Sound, Persist
<1>2. ~Return(p, "failed")
    BY <1>1 DEF Return, End, Goto, Busy, Resting, Remembered
<1>3. PICK i \in todo[p] :
         /\ Known(table, acts[p][i].alias) \ {acts[p][i].remote} = {}
         /\ table' = [table EXCEPT ![acts[p][i].remote] =
                         [alias |-> acts[p][i].alias, local |-> acts[p][i].path,
                          canon |-> acts[p][i].path, source |-> "canonical"]]
         /\ todo' = [todo EXCEPT ![p] = @ \ {i}]
         /\ UNCHANGED <<disk, pc, req, parents, goal, adds, queue, acts, bounds,
                        before, disturbed, halted, retry>>
    BY <1>2 DEF Persist, Fail
<1> DEFINE r == acts[p][i].remote
<1>4. /\ i \in DOMAIN acts[p] /\ DOMAIN table' = DOMAIN table
      /\ \A s \in DOMAIN table : s # r => table'[s] = table[s]
    BY <1>1, <1>3, PersistRow
<1>5. r \in Identities(req[p].entries)
    BY <1>4 DEF Orderly, Planning, Identities
<1> HIDE DEF r
<1>6. Importing(p)' /\ Placing(p)'
    BY <1>1, <1>3 DEF Importing, Between, Placing
<1>7. Planning(p)'
    BY <1>1, <1>3 DEF Orderly, Planning
<1>8. Leaving(p)'
    BY <1>1, <1>3, <1>4, <1>5 DEF Orderly, Leaving, Late
<1> QED
    BY <1>6, <1>7, <1>8 DEF Orderly

LEMMA StaysOrderly ==
    ASSUME NEW s \in Proc, Untouched(s), Orderly(s), table' = table, disk' = disk
    PROVE  Orderly(s)'
<1> USE DEF Untouched
<1>1. Importing(s)'
    BY DEF Orderly, Importing
<1>2. Planning(s)'
    BY DEF Orderly, Planning
<1>3. Placing(s)'
    BY DEF Orderly, Placing, Fitting, Free, Blocked, Owned
<1>4. Leaving(s)'
    BY DEF Orderly, Leaving
<1> QED
    BY <1>1, <1>2, <1>3, <1>4 DEF Orderly

\* The steps of a command at work, which neither begin it nor end it.
Works(p) == \/ DryRun(p) \/ Entries(p) \/ Agree(p) \/ MakeParent(p) \/ Import(p) \/ Plan(p)
            \/ Check(p) \/ Run(p) \/ Ran(p) \/ Persist(p)

LEMMA StepCases ==
    ASSUME Sound, NEW p \in Proc, Step(p)
    PROVE  \/ \E q \in Requests : Begin(p, q)
           \/ Busy(p) /\ Works(p)
           \/ Done(p) \/ Break(p)
<1>1. ASSUME Works(p)
      PROVE  Busy(p)
    BY <1>1 DEF Works, Busy, Resting, DryRun, Entries, Agree, MakeParent, Import, Plan, Check,
                Run, Ran, Persist
<1> QED
    BY <1>1 DEF Step, Works

\* None of them changes what was asked for, or what it has to do with what broke off.
LEMMA WorkKeeps ==
    ASSUME Sound, NEW p \in Proc, Works(p), Busy(p)'
    PROVE  /\ req' = req /\ before' = before /\ retry' = retry /\ halted' = halted
           /\ Alone(p)' => Alone(p)
<1>0. Remembered
    BY TypeParts DEF Sound
<1>1. ~Refuse(p) /\ ~Fail(p)
    BY <1>0 DEF Refuse, Fail, Return, End, Goto, Busy, Resting, Remembered
<1>2. Alone(p)' => Alone(p)
    BY OwnAlone DEF Works
<1>3. CASE DryRun(p) \/ Entries(p) \/ Agree(p)
    BY <1>1, <1>2, <1>3 DEF DryRun, Entries, Agree, Pass, history, locals
<1>4. CASE Plan(p) \/ Check(p) \/ Ran(p)
    BY <1>1, <1>2, <1>4 DEF Plan, PlanWith, Check, Ran, Pass, history
<1>5. CASE MakeParent(p) \/ Import(p)
    BY <1>1, <1>2, <1>5 DEF MakeParent, Import
<1>6. CASE Run(p) \/ Persist(p)
    BY <1>1, <1>2, <1>6 DEF Run, Persist
<1> QED
    BY <1>3, <1>4, <1>5, <1>6 DEF Works

\* A step of a command at work goes on, or returns an error.
LEMMA WorksOrEnds ==
    ASSUME Sound, NEW p \in Proc, Busy(p), Works(p), ~Busy(p)'
    PROVE  Refuse(p) \/ Fail(p)
<1>1. Remembered
    BY TypeParts DEF Sound
<1>2. ASSUME NEW label, Pass(p, label) \/ Goto(p, label), label \notin Resting
      PROVE  FALSE
    BY <1>1, <1>2 DEF Pass, Goto, Busy, Remembered
<1>3. CASE DryRun(p) \/ Entries(p) \/ Agree(p)
    BY <1>2, <1>3 DEF DryRun, Entries, Agree, Resting
<1>4. CASE Plan(p)
    BY <1>2, <1>4 DEF Plan, PlanWith, Resting
<1>5. CASE Check(p) \/ Ran(p)
    BY <1>2, <1>5 DEF Check, Ran, Resting
<1>6. CASE MakeParent(p) \/ Import(p)
    BY <1>2, <1>6 DEF MakeParent, Import, Resting
<1>7. CASE Run(p) \/ Persist(p)
    BY <1>7 DEF Run, Persist, Busy
<1> QED
    BY <1>3, <1>4, <1>5, <1>6, <1>7 DEF Works

LEMMA EndsBusy ==
    ASSUME Sound, NEW p \in Proc, Done(p) \/ Break(p)
    PROVE  ~Busy(p)'
<1>1. Remembered /\ {"done", "failed", "refused"} \subseteq Resting
    BY TypeParts DEF Sound, Resting
<1> QED
    BY <1>1, EndsResting DEF Done, Return, Break

LEMMA OwnOrderly ==
    ASSUME Sound, NEW p \in Proc, Step(p), Busy(p)', Alone(p)', req'[p].entries # <<>>,
           Busy(p) /\ Alone(p) => Undisturbed(p),
           Busy(p) /\ Alone(p) /\ req[p].entries # <<>> => Orderly(p)
    PROVE  Orderly(p)'
<1>1. CASE \E q \in Requests : Begin(p, q)
    BY <1>1, BeginOrderly
<1>2. CASE Busy(p) /\ Works(p)
    <2>1. Alone(p) /\ req[p].entries # <<>>
        BY <1>2, WorkKeeps
    <2>2. Undisturbed(p) /\ Orderly(p) /\ p \notin outdated
        BY <1>2, <2>1 DEF Alone
    <2>3. CASE DryRun(p) \/ Entries(p) \/ Agree(p) \/ MakeParent(p) \/ Import(p)
        BY <2>1, <2>2, <2>3, DryRunOrderly, EntriesOrderly, AgreeOrderly, MakeParentOrderly,
           ImportOrderly
    <2>4. CASE Plan(p) \/ Check(p) \/ Run(p) \/ Ran(p) \/ Persist(p)
        BY <2>1, <2>2, <2>4, PlanOrderly, CheckOrderly, RunOrderly, RanOrderly, PersistOrderly
    <2> QED
        BY <1>2, <2>3, <2>4 DEF Works
<1> QED
    BY <1>1, <1>2, StepCases, EndsBusy

LEMMA OthersOrderly ==
    ASSUME NEW s \in Proc, Busy(s) /\ Alone(s) /\ req[s].entries # <<>> => Orderly(s),
           Untouched(s), Told(s), Busy(s)', Alone(s)', req'[s].entries # <<>>
    PROVE  Orderly(s)'
<1>1. Busy(s) /\ req[s].entries # <<>>
    BY DEF Busy, Untouched
<1>2. Alone(s) /\ table' = table /\ disk' = disk
    BY <1>1, AloneStays
<1> QED
    BY <1>1, <1>2, StaysOrderly

LEMMA InitOrderly == Init => AllOrderly
BY DEF Init, AllOrderly, Busy, Resting

LEMMA NextOrderly == Sound /\ AllUndisturbed /\ AllOrderly /\ [Next]_vars => AllOrderly'
<1> SUFFICES ASSUME Sound, AllUndisturbed, AllOrderly, [Next]_vars, NEW s \in Proc,
                    Busy(s)', Alone(s)', req'[s].entries # <<>>
             PROVE  Orderly(s)'
    BY DEF AllOrderly
<1>0. /\ Busy(s) /\ Alone(s) => Undisturbed(s)
      /\ Busy(s) /\ Alone(s) /\ req[s].entries # <<>> => Orderly(s)
    BY DEF AllUndisturbed, AllOrderly
<1>1. ASSUME NEW p \in Proc, Step(p)
      PROVE  Orderly(s)'
    <2>1. CASE s = p
        BY <1>0, <1>1, <2>1, OwnOrderly
    <2>2. CASE s # p
        BY <1>0, <1>1, <2>2, StepOthers, OthersOrderly
    <2> QED
        BY <2>1, <2>2
<1>2. CASE User \/ \E r \in DOMAIN table, d \in Path : Scan(r, d)
    BY <1>0, <1>2, OutsideOthers, OthersOrderly
<1>3. CASE UNCHANGED vars
    BY <1>0, <1>3, OthersOrderly DEF vars, locals, bounds, history, others, Untouched, Told
<1> QED
    BY <1>1, <1>2, <1>3 DEF Next

-----------------------------------------------------------------------------
(***************************************************************************)
(* What breaks off in its clones, alone, can be taken up again.            *)
(***************************************************************************)

LEMMA BreaksResumable ==
    ASSUME Sound, NEW p \in Proc, Undisturbed(p), Orderly(p), Breaks(p),
           req[p].entries # <<>>, NEW q \in Requests, q = req[p],
           disk' \in Remains(p), table' = table
    PROVE  Resumable(q)'
<1> DEFINE m == q.entries
           t == before[p].table
<1>1. /\ Busy(p) /\ pc[p] \in Late /\ p \notin outdated /\ pc[p] \in {"run", "persist"}
      /\ Course(p) /\ disk \in Tree /\ acts[p] \in Seq(ActionRecord)
    BY TypeParts DEF Sound, Remembered, Breaks, Busy, Resting, Late, Alone
<1>2. InPlan(table, m)
    BY <1>1, LateInPlan
<1>3. q.placeholders => Spread(table, m)
    <2>1. \A r \in DOMAIN table \ Identities(m) : r \in DOMAIN t /\ table[r].local = t[r].local
        BY <1>1 DEF Orderly, Leaving
    <2>2. q.placeholders => Spread(t, m)
        BY <1>1 DEF Orderly, Leaving
    <2> HIDE DEF t, m
    <2> QED
        BY <2>1, <2>2 DEF Spread
<1>4. ASSUME NEW k \in DOMAIN acts[p], acts[p][k].action = "clone"
      PROVE  /\ \/ disk'[acts[p][k].path] = disk[acts[p][k].path]
                \/ disk'[acts[p][k].path].kind \in {"absent", "empty"}
             /\ Fitting(acts[p][k]) \/ disk[acts[p][k].path] = Product(p, acts[p][k])
             /\ \A z \in Above[acts[p][k].path] : disk'[z].kind # "file"
    <2> DEFINE a == acts[p][k]
    <2>0. acts[p][k] \in ActionRecord
        BY <1>1
    <2>1. a \in ActionRecord /\ a.path \in Path /\ disk[a.path] \in Node
        BY <1>1, <2>0, TreeFacts DEF ActionRecord
    <2>2. Fitting(a) \/ disk[a.path] = Product(p, a)
        BY <1>1, <1>4 DEF Undisturbed, Running, Recording, Orderly, Placing
    <2>3. \A z \in Above[a.path] : z \in Path /\ disk[z].kind # "file"
        <3>1. Above[a.path] \subseteq Path
            BY <2>1, AboveAssumption
        <3>2. Free(a.path) => \A z \in Above[a.path] : disk[z].kind # "file"
            BY DEF Free, Blocked
        <3>3. Owned(a) => disk[a.path].kind # "absent"
            BY DEF Owned, PlaceholderOf
        <3>4. disk[a.path] = Product(p, a) => disk[a.path].kind # "absent"
            BY <2>1, ProductType
        <3>5. disk[a.path].kind # "absent" => \A z \in Above[a.path] : disk[z].kind # "file"
            BY <1>1, <2>1, TreeFacts DEF Solid
        <3> QED
            BY <2>2, <3>1, <3>2, <3>3, <3>4, <3>5 DEF Fitting
    <2>4. CASE disk' = disk
        BY <2>2, <2>3, <2>4
    <2>5. CASE disk' # disk
        <3>1. PICK i \in todo[p] :
                 /\ i \in DOMAIN acts[p]
                 /\ \A d \in Path : d # acts[p][i].path /\ disk[d].kind # "file"
                                    => disk'[d].kind # "file"
                 /\ \A j \in DOMAIN acts[p] : acts[p][j].path # acts[p][i].path =>
                       /\ disk'[acts[p][j].path] = disk[acts[p][j].path]
                       /\ acts[p][i].path \notin Above[acts[p][j].path]
            BY <1>1, <2>5, BreakEffect
        <3>2. \/ disk'[acts[p][i].path] = disk[acts[p][i].path]
              \/ disk'[acts[p][i].path].kind \in {"absent", "empty"}
            BY DEF Breaks
        <3>3. acts[p][i].path \notin Above[a.path]
            BY <2>1, <3>1, AboveAssumption
        <3>4. \A z \in Above[a.path] : disk'[z].kind # "file"
            BY <2>3, <3>1, <3>3
        <3> QED
            BY <2>2, <3>1, <3>2, <3>4
    <2> QED
        BY <2>4, <2>5
<1>5. ASSUME NEW k \in DOMAIN acts[p], acts[p][k].action = "none"
      PROVE  disk'[acts[p][k].path] = disk[acts[p][k].path] /\ There(p, acts[p][k])
    <2>1. There(p, acts[p][k]) /\ disk[acts[p][k].path].kind = "checkout"
        BY <1>1, <1>5 DEF Undisturbed, ActsKept, There
    <2>2. acts[p][k].path \in Path
        <3>1. acts[p][k] \in ActionRecord
            BY <1>1
        <3> QED
            BY <3>1 DEF ActionRecord
    <2>3. disk' # disk => \A d \in Path : disk'[d] # disk[d] => disk[d].kind \in Blank
        BY <1>1, BreakEffect
    <2> QED
        BY <2>1, <2>2, <2>3 DEF Blank
<1>6. ASSUME NEW i \in DOMAIN m
      PROVE  Placeable(q, m[i])'
    <2>1. m[i].remote \in Asked(p)
        BY DEF Asked, Identities
    <2>2. PICK k \in DOMAIN acts[p] : acts[p][k].remote = m[i].remote
        BY <1>1, <2>1 DEF Undisturbed, Covered
    <2> DEFINE a == acts[p][k]
    <2>3. a.remote = m[i].remote /\ a.alias = m[i].alias /\ a.path = m[i].path
        BY <1>1, <1>2, <2>2 DEF Course, AsListed, hydrationPath, InPlan
    <2>4. a.action \in {"none", "clone"}
        BY <1>1 DEF Undisturbed, ActsKept
    <2>5. a.action = "none" => disk'[a.path] = disk[a.path] /\ There(p, a)
        BY <1>5
    <2>6. a.action = "clone" =>
             /\ disk'[a.path] = disk[a.path] \/ disk'[a.path].kind \in {"absent", "empty"}
             /\ Fitting(a) \/ disk[a.path] = Product(p, a)
             /\ \A z \in Above[a.path] : disk'[z].kind # "file"
        BY <1>4
    <2> HIDE DEF a, m
    <2>7. CASE a.action = "none"
        BY <2>3, <2>5, <2>7 DEF Placeable, There
    <2>8. CASE a.action = "clone"
        <3>1. CASE disk'[a.path].kind \in {"absent", "empty"}
            BY <2>3, <2>6, <2>8, <3>1 DEF Placeable, Free, Blocked
        <3>2. CASE disk'[a.path] = disk[a.path]
            <4>1. CASE Free(a.path)
                BY <2>3, <2>6, <2>8, <3>2, <4>1 DEF Placeable, Free, Blocked
            <4>2. CASE Owned(a)
                BY <2>3, <3>2, <4>2 DEF Placeable, Owned
            <4>3. CASE disk[a.path] = Product(p, a)
                BY <2>3, <3>2, <4>3 DEF Placeable, Product, CheckoutOf
            <4> QED
                BY <2>6, <2>8, <4>1, <4>2, <4>3 DEF Fitting
        <3> QED
            BY <2>6, <2>8, <3>1, <3>2
    <2> QED
        BY <2>4, <2>7, <2>8
<1>7. InPlan(table', m) /\ (q.placeholders => Spread(table', m))
    BY <1>2, <1>3
<1> QED
    BY <1>6, <1>7 DEF Resumable

LEMMA ResumableStays ==
    ASSUME NEW q, Resumable(q), table' = table, disk' = disk
    PROVE  Resumable(q)'
BY DEF Resumable, Placeable, Free, Blocked

LEMMA InitHalted == Init => HaltedKept
BY DEF Init, HaltedKept

LEMMA NextHalted == Sound /\ AllUndisturbed /\ AllOrderly /\ HaltedKept /\ [Next]_vars => HaltedKept'
<1> SUFFICES ASSUME Sound, AllUndisturbed, AllOrderly, HaltedKept, [Next]_vars,
                    halted' # NoRequest
             PROVE  /\ \A s \in Proc : ~Busy(s)'
                    /\ halted'.entries # <<>> => Resumable(halted)'
    BY DEF HaltedKept
<1>1. ASSUME NEW p \in Proc, Break(p)
      PROVE  /\ \A s \in Proc : ~Busy(s)'
             /\ halted'.entries # <<>> => Resumable(halted)'
    <2>1. /\ Breaks(p) /\ Others(p) = {} /\ Alone(p) /\ Busy(p)
          /\ halted' = req[p] /\ table' = table /\ disk' \in Remains(p)
        BY <1>1 DEF Break, Breaks
    <2>2. Undisturbed(p) /\ (req[p].entries # <<>> => Orderly(p))
        BY <2>1 DEF AllUndisturbed, AllOrderly
    <2>3. ASSUME NEW s \in Proc
          PROVE  ~Busy(s)'
        <3>1. CASE s = p
            BY <1>1, <3>1, EndsBusy
        <3>2. CASE s # p
            <4>1. ~Busy(s)
                BY <2>1, <3>2 DEF Others
            <4> QED
                BY <1>1, <3>2, <4>1, StepOthers DEF Step, Untouched, Busy
        <3> QED
            BY <3>1, <3>2
    <2>4. PICK q \in Requests : q = req[p]
        BY <2>1 DEF Sound, Course
    <2>5. req[p].entries # <<>> => Resumable(q)'
        BY <2>1, <2>2, <2>4, BreaksResumable
    <2> QED
        BY <2>1, <2>3, <2>4, <2>5 DEF Resumable, Placeable, Free, Blocked
<1>2. ASSUME NEW p \in Proc, Busy(p), Works(p) \/ Done(p)
      PROVE  FALSE
    <2>1. halted' = halted
        <3>1. CASE Done(p)
            BY <3>1 DEF Done, Return
        <3>2. CASE Works(p) /\ Busy(p)'
            BY <3>2, WorkKeeps
        <3>3. CASE Works(p) /\ ~Busy(p)'
            BY <1>2, <3>3, WorksOrEnds DEF Return, Refuse, Fail
        <3> QED
            BY <1>2, <3>1, <3>2, <3>3
    <2> QED
        BY <1>2, <2>1 DEF HaltedKept
<1>3. CASE UNCHANGED vars
    <2>1. UNCHANGED <<table, disk, pc, halted>>
        BY <1>3 DEF vars, history
    <2> QED
        BY <2>1 DEF HaltedKept, Busy, Resumable, Placeable, Free, Blocked
<1>4. \A p \in Proc, q \in Requests : ~Begin(p, q)
    BY DEF Begin
<1>5. ~User /\ \A r, d : ~Scan(r, d)
    BY DEF User, Scan
<1>6. CASE \E p \in Proc : Step(p)
    <2>1. PICK p \in Proc : Step(p)
        BY <1>6
    <2>2. Done(p) => Busy(p)
        BY DEF Done, Busy, Resting
    <2> QED
        BY <1>1, <1>2, <1>4, <2>1, <2>2, StepCases
<1> QED
    BY <1>3, <1>5, <1>6 DEF Next

-----------------------------------------------------------------------------
(***************************************************************************)
(* A bootstrap that is run again finds the room its predecessor has left   *)
(* and keeps it until it clones.                                           *)
(***************************************************************************)

LEMMA BeginResuming ==
    ASSUME Sound, HaltedKept, NEW p \in Proc, NEW q \in Requests, Begin(p, q),
           retry'[p], req'[p].entries # <<>>
    PROVE  Resuming(p)'
<1>1. Remembered
    BY TypeParts DEF Sound
<1>2. /\ req'[p] = q /\ retry'[p] = (q = halted /\ Others(p) = {})
      /\ before'[p] = [table |-> table, disk |-> disk] /\ table' = table /\ disk' = disk
    BY <1>1 DEF Begin, Remembered
<1>3. q = halted /\ q # NoRequest /\ before'[p].table = table
    <2>1. q = halted
        BY <1>2, Zenon
    <2> QED
        BY <1>2, <2>1, RequestsAssumption
<1>4. Resumable(q)
    BY <1>2, <1>3 DEF HaltedKept
<1>5. \A i \in DOMAIN q.entries : Placeable(q, q.entries[i])
    BY <1>4 DEF Resumable
<1>6. \A i \in DOMAIN q.entries : Placeable(req[p], req[p].entries[i])'
    BY <1>2, <1>5 DEF Placeable, Free, Blocked
<1>7. InPlan(table, q.entries) /\ (q.placeholders => Spread(table, q.entries))
    BY <1>4 DEF Resumable
<1> QED
    BY <1>2, <1>3, <1>6, <1>7 DEF Resuming

\* What did not touch the tree, or has come to the clones.
LEMMA ResumingOn ==
    ASSUME NEW p, Resuming(p), req'[p] = req[p], before'[p] = before[p],
           \/ disk' = disk /\ pc[p] \notin {"run", "persist"}
           \/ pc'[p] \in {"run", "persist"}
    PROVE  Resuming(p)'
BY DEF Resuming, Placeable, Free, Blocked

LEMMA MakeParentResuming ==
    ASSUME Sound, NEW p \in Proc, Orderly(p), Resuming(p), MakeParent(p), Busy(p)',
           req[p].entries # <<>>
    PROVE  Resuming(p)'
<1> DEFINE m == req[p].entries
<1>1. Remembered /\ pc[p] = "parents" /\ Busy(p)
    BY TypeParts DEF Sound, MakeParent, Busy, Resting
<1>2. disk \in Tree /\ (\A i \in DOMAIN m : m[i] \in Entry) /\ parents[p] \subseteq Path
    BY <1>1, AtWork
<1>3. ~Return(p, "failed")
    BY <1>1 DEF Return, End, Goto, Busy, Resting, Remembered
<1>4. PICK d \in parents[p] :
         /\ ~\E q \in Above[d] : disk[q].kind = "file"
         /\ disk' = MkdirAll(d)
         /\ UNCHANGED <<table, req, goal, adds, queue, acts, todo, bounds,
                        before, outdated, clean, halted, retry>>
    BY <1>3 DEF MakeParent, Fail
<1> DEFINE new == MkdirAll(d)
<1>5. /\ \A q \in Path : q \notin Above[d] => new[q] = disk[q]
      /\ \A q \in Path : \/ new[q] = disk[q]
                         \/ new[q] = Bare("empty")
                         \/ q \in Above[d] /\ new[q] = Holding(disk[q])
    BY DEF MkdirAll
<1>6. \A q \in Path : disk[q].kind # "file" => new[q].kind # "file"
    <2>1. Bare("empty").kind # "file"
        BY DEF Bare
    <2>2. \A q \in Path : disk[q].kind # "file" => Holding(disk[q]).kind # "file"
        BY <1>2, TreeFacts, HoldingSolid DEF Solid
    <2> HIDE DEF new
    <2> QED
        BY <1>5, <2>1, <2>2
<1> HIDE DEF new
<1>7. /\ InPlan(before[p].table, m)
      /\ req[p].placeholders => Spread(before[p].table, m)
      /\ \A i \in DOMAIN m : Placeable(req[p], m[i])
    BY <1>1 DEF Resuming
<1>8. ASSUME NEW i \in DOMAIN m
      PROVE  Placeable(req[p], m[i])'
    <2>1. m[i].path \in Path /\ Above[m[i].path] \subseteq Path
        BY <1>2, AboveAssumption DEF Entry
    <2>2. PICK j \in DOMAIN m : d = m[j].path
        BY <1>1, <1>4 DEF Orderly, Importing, Between
    <2>3. m[i].path \notin Above[d]
        BY <1>7, <2>1, <2>2, AboveAssumption DEF InPlan, Distinguished, Overlap
    <2>4. disk'[m[i].path] = disk[m[i].path]
        BY <1>4, <1>5, <2>1, <2>3 DEF new
    <2>5. ~Blocked(m[i].path) => \A q \in Above[m[i].path] : disk'[q].kind # "file"
        BY <1>4, <1>6, <2>1 DEF Blocked, new
    <2>6. req' = req
        BY <1>4
    <2> QED
        BY <1>7, <2>4, <2>5, <2>6 DEF Placeable, Free, Blocked
<1> QED
    BY <1>4, <1>7, <1>8 DEF Resuming

LEMMA OwnResuming ==
    ASSUME Sound, HaltedKept, NEW p \in Proc, Step(p), Busy(p)', Alone(p)', Again(p)',
           Busy(p) /\ Alone(p) /\ req[p].entries # <<>> => Orderly(p),
           Busy(p) /\ Alone(p) /\ Again(p) => Resuming(p)
    PROVE  Resuming(p)'
<1>0. Remembered
    BY TypeParts DEF Sound
<1>1. CASE \E q \in Requests : Begin(p, q)
    BY <1>1, BeginResuming DEF Again
<1>2. CASE Busy(p) /\ Works(p)
    <2>1. /\ req' = req /\ before' = before /\ retry' = retry /\ Alone(p)
        BY <1>2, WorkKeeps
    <2>2. Again(p) /\ req[p].entries # <<>>
        BY <2>1 DEF Again
    <2>3. Resuming(p) /\ Orderly(p)
        BY <1>2, <2>1, <2>2
    <2>4. ~Refuse(p) /\ ~Fail(p)
        BY <1>0 DEF Refuse, Fail, Return, End, Goto, Busy, Resting, Remembered
    <2>5. CASE DryRun(p) \/ Entries(p) \/ Agree(p) \/ Plan(p) \/ Import(p) \/ Check(p)
        <3>1. disk' = disk
            BY <2>4, <2>5 DEF DryRun, Entries, Agree, Plan, PlanWith, Import, Check, Pass
        <3>2. pc[p] \notin {"run", "persist"}
            BY <2>5 DEF DryRun, Entries, Agree, Plan, Import, Check
        <3> QED
            BY <2>1, <2>3, <3>1, <3>2, ResumingOn
    <2>6. CASE MakeParent(p)
        BY <2>2, <2>3, <2>6, MakeParentResuming
    <2>7. CASE Run(p) \/ Persist(p)
        <3>1. pc' = pc /\ pc[p] \in {"run", "persist"}
            BY <2>4, <2>7 DEF Run, Persist
        <3> QED
            BY <2>1, <2>3, <3>1, ResumingOn
    <2>8. CASE Ran(p)
        <3>1. pc'[p] = "persist"
            BY <1>0, <2>8 DEF Ran, Pass, Goto, Remembered
        <3> QED
            BY <2>1, <2>3, <3>1, ResumingOn
    <2> QED
        BY <1>2, <2>5, <2>6, <2>7, <2>8 DEF Works
<1> QED
    BY <1>1, <1>2, StepCases, EndsBusy

LEMMA OthersResuming ==
    ASSUME NEW s \in Proc, Busy(s) /\ Alone(s) /\ Again(s) => Resuming(s),
           Untouched(s), Told(s), Busy(s)', Alone(s)', Again(s)'
    PROVE  Resuming(s)'
<1>1. Busy(s) /\ Again(s)
    BY DEF Busy, Again, Untouched
<1>2. Alone(s) /\ table' = table /\ disk' = disk
    BY <1>1, AloneStays
<1>3. Resuming(s)
    BY <1>1, <1>2
<1> QED
    BY <1>2, <1>3 DEF Untouched, Resuming, Placeable, Free, Blocked

LEMMA InitResuming == Init => AllResuming
BY DEF Init, AllResuming, Busy, Resting

LEMMA NextResuming ==
    Sound /\ AllOrderly /\ HaltedKept /\ AllResuming /\ [Next]_vars => AllResuming'
<1> SUFFICES ASSUME Sound, AllOrderly, HaltedKept, AllResuming, [Next]_vars, NEW s \in Proc,
                    Busy(s)', Alone(s)', Again(s)'
             PROVE  Resuming(s)'
    BY DEF AllResuming
<1>0. /\ Busy(s) /\ Alone(s) /\ req[s].entries # <<>> => Orderly(s)
      /\ Busy(s) /\ Alone(s) /\ Again(s) => Resuming(s)
    BY DEF AllOrderly, AllResuming
<1>1. ASSUME NEW p \in Proc, Step(p)
      PROVE  Resuming(s)'
    <2>1. CASE s = p
        BY <1>0, <1>1, <2>1, OwnResuming
    <2>2. CASE s # p
        BY <1>0, <1>1, <2>2, StepOthers, OthersResuming
    <2> QED
        BY <2>1, <2>2
<1>2. CASE User \/ \E r \in DOMAIN table, d \in Path : Scan(r, d)
    BY <1>0, <1>2, OutsideOthers, OthersResuming
<1>3. CASE UNCHANGED vars
    BY <1>0, <1>3, OthersResuming DEF vars, locals, bounds, history, others, Untouched, Told
<1> QED
    BY <1>1, <1>2, <1>3 DEF Next

-----------------------------------------------------------------------------
(***************************************************************************)
(* Nothing stops it.                                                       *)
(***************************************************************************)

\* Until the import, the plans find nothing against the manifest.
LEMMA PlansGoOn ==
    ASSUME Sound, NEW p \in Proc, Undisturbed(p), Again(p), Resuming(p),
           DryRun(p) \/ Entries(p) \/ Agree(p)
    PROVE  ~Refuse(p) /\ ~Fail(p)
<1> DEFINE q == req[p]
           m == q.entries
           plan == PlanEntries(table, m, disk)
<1>1. /\ Remembered /\ pc[p] \in Early /\ Busy(p) /\ m # <<>>
    BY TypeParts DEF Sound, DryRun, Entries, Agree, Early, Busy, Resting, Again
<1>2. /\ table \in Table /\ disk \in Tree /\ IsFiniteSet(DOMAIN table) /\ OwnAliases(table)
      /\ m \in Seq(Entry)
    BY <1>1, AtWork
<1>3. table = before[p].table
    BY <1>1 DEF Undisturbed, TableKept
<1>4. /\ InPlan(table, m) /\ Untangled(table, m) /\ (q.placeholders => Spread(table, m))
      /\ \A i \in DOMAIN m : Placeable(q, m[i])
    BY <1>1, <1>3 DEF Resuming, Again, Early
<1>5. /\ ~Conflicting(BuildDryRunPlan(table, m, disk))
      /\ ~Conflicting(PlanImport(table, m, disk))
      /\ \A a \in plan : a.action # "refuse"
      /\ q.placeholders => Preflight(plan)
    <2> HIDE DEF q
    <2> QED
        BY <1>2, <1>4, NothingAgainst
<1>6. /\ Refuse(p) => pc'[p] = "refused"
      /\ Fail(p) => pc'[p] = "failed"
      /\ \A label : Pass(p, label) => pc'[p] = label
    BY <1>1 DEF Remembered, Refuse, Fail, Return, End, Goto, Pass
<1> HIDE DEF plan
<1>7. CASE DryRun(p)
    BY <1>5, <1>6, <1>7 DEF DryRun
<1>8. CASE Entries(p)
    <2>1. Pass(p, "agree")
        BY <1>5, <1>8 DEF Entries, plan
    <2> QED
        BY <1>6, <2>1
<1>9. CASE Agree(p)
    <2>1. Pass(p, "parents") \/ Pass(p, "import")
        BY <1>5, <1>9 DEF Agree
    <2> QED
        BY <1>6, <2>1
<1> QED
    BY <1>7, <1>8, <1>9

\* No file is above a place with room, or with the project in it; and there is nothing to
\* import that could have been taken.
LEMMA ImportGoesOn ==
    ASSUME Sound, NEW p \in Proc, Undisturbed(p), Orderly(p), Again(p), Resuming(p),
           MakeParent(p) \/ Import(p)
    PROVE  ~Refuse(p) /\ ~Fail(p)
<1> DEFINE m == req[p].entries
           t == before[p].table
<1>1. /\ Remembered /\ pc[p] \in Between /\ Busy(p) /\ m # <<>>
    BY TypeParts DEF Sound, MakeParent, Import, Between, Busy, Resting, Again
<1>2. /\ disk \in Tree /\ m \in Seq(Entry) /\ t \in Table
      /\ \A i \in DOMAIN m : m[i] \in Entry
    BY <1>1, AtWork
<1>3. InPlan(t, m) /\ \A i \in DOMAIN m : Placeable(req[p], m[i])
    BY <1>1 DEF Resuming, Between
<1>4. /\ Refuse(p) => pc'[p] = "refused"
      /\ Fail(p) => pc'[p] = "failed"
      /\ \A label : Goto(p, label) => pc'[p] = label
    BY <1>1 DEF Remembered, Refuse, Fail, Return, End, Goto
<1>5. CASE MakeParent(p)
    <2>1. PICK d \in parents[p] :
             IF \E q \in Above[d] : disk[q].kind = "file" THEN Fail(p)
             ELSE Goto(p, IF parents[p] = {d} THEN "import" ELSE "parents")
        BY <1>5 DEF MakeParent
    <2>2. PICK i \in DOMAIN m : d = m[i].path
        BY <1>1 DEF Orderly, Importing
    <2>3. d \in Path
        BY <1>2, <2>2 DEF Entry
    <2>4. ~Blocked(d)
        <3>1. CASE Free(d)
            BY <3>1 DEF Free
        <3>2. CASE disk[d].kind \in {"placeholder", "checkout"}
            BY <1>2, <2>3, <3>2, TreeFacts DEF Blocked, Solid
        <3>3. Placeable(req[p], m[i])
            BY <1>3
        <3>4. /\ PlaceholderOf(m[i].remote, m[i].alias).kind = "placeholder"
              /\ CheckoutOf(m[i].remote).kind = "checkout"
            BY DEF PlaceholderOf, CheckoutOf
        <3> QED
            BY <2>2, <3>1, <3>2, <3>3, <3>4 DEF Placeable
    <2>5. Goto(p, "import") \/ Goto(p, "parents")
        BY <2>1, <2>4 DEF Blocked
    <2> QED
        BY <1>4, <2>5
<1>6. CASE Import(p)
    <2>1. goal[p] = Changes(t, m, before[p].disk)
        BY <1>1 DEF Undisturbed, TableKept
    <2>2. DOMAIN goal[p] = {}
        <3> DEFINE d == before[p].disk
        <3> HIDE DEF t, m, d
        <3>1. t \in Table /\ m \in Seq(Entry) /\ InPlan(t, m)
            BY <1>2, <1>3
        <3>2. DOMAIN Changes(t, m, d) = {}
            BY <3>1, NothingToImport
        <3> QED
            BY <2>1, <3>2 DEF d
    <2>3. adds[p] = {}
        BY <1>1, <2>2 DEF Orderly, Importing
    <2>4. Goto(p, "plan")
        BY <1>6, <2>2, <2>3 DEF Import
    <2> QED
        BY <1>4, <2>4
<1> QED
    BY <1>5, <1>6

\* Each project is registered and has room, no two are in each other's way.
LEMMA PlanningGoesOn ==
    ASSUME Sound, NEW p \in Proc, Undisturbed(p), Orderly(p), Again(p), Resuming(p),
           p \notin outdated, Plan(p) \/ Check(p)
    PROVE  ~Refuse(p) /\ ~Fail(p)
<1> DEFINE q == req[p]
           m == q.entries
<1>1. /\ Remembered /\ pc[p] \in {"plan", "check"} /\ pc[p] \in Late /\ Busy(p) /\ m # <<>>
    BY TypeParts DEF Sound, Plan, Check, Late, Busy, Resting, Again
<1>2. /\ table \in Table /\ disk \in Tree /\ m \in Seq(Entry)
    BY <1>1, AtWork
<1>3. InPlan(table, m)
    BY <1>1, LateInPlan
<1>4. \A i \in DOMAIN m : Placeable(q, m[i])
    BY <1>1 DEF Resuming
<1>5. /\ Refuse(p) => pc'[p] = "refused"
      /\ Fail(p) => pc'[p] = "failed"
      /\ \A label : Pass(p, label) => pc'[p] = label
    BY <1>1 DEF Remembered, Refuse, Fail, Return, End, Goto, Pass
<1>6. CASE Plan(p)
    <2>1. PICK i \in DOMAIN m :
             LET r == m[i].remote
             IN  \/ Refuse(p) /\ Planned(r).action = "refuse"
                 \/ /\ Planned(r).action # "refuse"
                    /\ Pass(p, IF queue[p] = {i} THEN "check" ELSE "plan")
        BY <1>1, <1>6, PlanOfEntry
    <2>2. Planned(m[i].remote).action # "refuse"
        <3> HIDE DEF q
        <3>1. Planned(m[i].remote).action \in {"none", "clone"}
            BY <1>2, <1>3, <1>4, PlaceablePlanned
        <3> QED
            BY <3>1
    <2>3. Pass(p, "check") \/ Pass(p, "plan")
        BY <2>1, <2>2
    <2> QED
        BY <1>5, <2>3
<1>7. CASE Check(p)
    <2>0. Planning(p) /\ pc[p] = "check"
        BY <1>7 DEF Orderly, Check
    <2>1. \A k \in DOMAIN acts[p] : \E j \in DOMAIN m :
             /\ acts[p][k].remote = m[j].remote
             /\ acts[p][k].path = m[j].path
        BY <1>1, <2>0, ActOfEntry
    <2>2. PathsApart(ActsOf(p))
        <3> SUFFICES ASSUME NEW k \in DOMAIN acts[p], NEW l \in DOMAIN acts[p],
                            acts[p][k] # acts[p][l]
                     PROVE  ~Overlap(acts[p][k].path, acts[p][l].path)
            BY DEF PathsApart, ActsOf
        <3>1. acts[p][k].remote # acts[p][l].remote
            BY <2>0 DEF Planning
        <3>2. PICK i \in DOMAIN m : acts[p][k].remote = m[i].remote /\ acts[p][k].path = m[i].path
            BY <2>1
        <3>3. PICK j \in DOMAIN m : acts[p][l].remote = m[j].remote /\ acts[p][l].path = m[j].path
            BY <2>1
        <3>4. i # j
            BY <3>1, <3>2, <3>3
        <3> QED
            BY <1>3, <3>2, <3>3, <3>4 DEF InPlan, Distinguished
    <2>3. \A a \in ActsOf(p) : a.path \notin Outside
        BY <1>3, <2>1 DEF ActsOf, InPlan
    <2>4. ASSUME ~q.placeholders, NEW k \in DOMAIN acts[p], acts[p][k].state = "present"
          PROVE  disk[acts[p][k].path] = CheckoutOf(acts[p][k].remote)
        <3>1. disk[acts[p][k].path].kind = "checkout"
            BY <2>0, <2>4 DEF Undisturbed, ActsKept, Timely
        <3>2. PICK j \in DOMAIN m : acts[p][k].remote = m[j].remote /\ acts[p][k].path = m[j].path
            BY <2>1
        <3>3. Placeable(q, m[j])
            BY <1>4
        <3>4. PlaceholderOf(m[j].remote, m[j].alias).kind # "checkout"
            BY DEF PlaceholderOf
        <3> QED
            BY <2>4, <3>1, <3>2, <3>3, <3>4 DEF Placeable, Free
    <2>5. IF q.placeholders THEN Preflight(ActsOf(p)) ELSE Matching(ActsOf(p))
        BY <2>2, <2>3, <2>4 DEF Preflight, Matching, ActsOf
    <2>6. Pass(p, "run")
        BY <1>7, <2>5 DEF Check
    <2> QED
        BY <1>5, <2>6
<1> QED
    BY <1>6, <1>7

\* What is to be put has room, and what is recorded takes nobody's alias: so it is with
\* every bootstrap of a manifest nobody interferes with.
LEMMA PlacingGoesOn ==
    ASSUME Sound, NEW p \in Proc, Undisturbed(p), Orderly(p), p \notin outdated,
           req[p].entries # <<>>, Run(p) \/ Ran(p) \/ Persist(p)
    PROVE  ~Refuse(p) /\ ~Fail(p)
<1>1. /\ Remembered /\ Course(p) /\ pc[p] \in {"run", "persist"} /\ pc[p] \in Late
      /\ OwnAliases(table)
    BY TypeParts DEF Sound, World, Run, Ran, Persist, Late
<1>2. /\ Refuse(p) => pc'[p] = "refused"
      /\ Fail(p) => pc'[p] = "failed"
      /\ \A label : Pass(p, label) => pc'[p] = label
    BY <1>1 DEF Remembered, Refuse, Fail, Return, End, Goto, Pass
<1>3. CASE Run(p)
    <2>1. pc[p] = "run"
        BY <1>3 DEF Run
    <2>2. PICK i \in todo[p] :
             \/ Ready(p, acts[p][i]) /\ pc' = pc
             \/ ~Ready(p, acts[p][i])
        BY <1>3 DEF Run
    <2>3. \A j \in todo[p] : Ready(p, acts[p][j])
        <3> SUFFICES ASSUME NEW j \in todo[p]
                     PROVE  Ready(p, acts[p][j])
            OBVIOUS
        <3>1. j \in DOMAIN acts[p] /\ acts[p][j].action = "clone" /\ Fitting(acts[p][j])
            BY <1>1, <2>1 DEF Course, Undisturbed, Running, Orderly, Placing
        <3>2. acts[p][j].path \notin Outside
            BY <1>1, <3>1, ActOfEntry, LateInPlan DEF Orderly, InPlan
        <3>3. req[p].placeholders => Free(acts[p][j].path) \/ Owned(acts[p][j])
            BY <2>1, <3>1 DEF Undisturbed, Running
        <3> QED
            BY <3>1, <3>2, <3>3 DEF Ready, Fitting
    <2>4. pc' = pc
        BY <1>3, <2>3 DEF Run
    <2> QED
        BY <1>2, <2>1, <2>4
<1>4. CASE Ran(p)
    BY <1>2, <1>4 DEF Ran
<1>5. CASE Persist(p)
    <2>1. pc[p] = "persist"
        BY <1>5 DEF Persist
    <2>2. ASSUME NEW i \in todo[p]
          PROVE  Known(table, acts[p][i].alias) \ {acts[p][i].remote} = {}
        <3>1. AsListed(acts[p][i], table)
            BY <1>1, <2>1 DEF Course
        <3> QED
            BY <1>1, <3>1 DEF AsListed, Known, OwnAliases
    <2>3. pc' = pc
        BY <1>5, <2>2 DEF Persist
    <2> QED
        BY <1>2, <2>1, <2>3
<1> QED
    BY <1>3, <1>4, <1>5

\* A bootstrap of a manifest that broke off in its clones or updates, left no half of one,
\* and is run again by itself, is neither refused nor does it fail, unless somebody else changes the
\* table or the tree meanwhile or it breaks off again (bootstrap.Run, Executor.Execute,
\* persistClonedCanonicalPlacements); each of its projects wanting a place no other one
\* is registered at or belongs to.
THEOREM RetrySucceeds == Spec => RetryGoesThrough
<1>1. ASSUME Sound, AllUndisturbed, AllOrderly, HaltedKept, AllResuming, Next, NEW p \in Proc,
             Ends(p, "refused") \/ Ends(p, "failed"), retry[p], req[p].entries # <<>>,
             Untangled(before[p].table, req[p].entries), p \notin disturbed' \cup outdated
      PROVE  FALSE
    <2>0. Remembered
        BY <1>1, TypeParts DEF Sound
    <2>1. Busy(p) /\ pc'[p] \in {"refused", "failed"}
        BY <1>1 DEF Ends
    <2>2. Step(p)
        BY <1>1, <2>1, EndsItself
    <2>3. Works(p)
        <3>1. ~Break(p)
            BY <1>1 DEF Break
        <3>2. ~Done(p)
            BY <2>0, <2>1 DEF Done, Return, End, Goto, Remembered
        <3>3. \A q \in Requests : ~Begin(p, q)
            BY <2>1 DEF Begin
        <3> QED
            BY <1>1, <2>2, <3>1, <3>2, <3>3, StepCases
    <2>4. Refuse(p) \/ Fail(p)
        <3>1. ~Busy(p)'
            BY <2>1 DEF Busy, Resting
        <3> QED
            BY <1>1, <2>1, <2>3, <3>1, WorksOrEnds
    <2>5. disturbed' = disturbed
        BY <2>4 DEF Refuse, Fail, Return, others
    <2>6. Alone(p) /\ p \notin outdated /\ Again(p)
        BY <1>1, <2>5 DEF Alone, Again
    <2>7. Undisturbed(p) /\ Orderly(p) /\ Resuming(p)
        BY <1>1, <2>1, <2>6 DEF AllUndisturbed, AllOrderly, AllResuming
    <2> QED
        BY <1>1, <2>3, <2>4, <2>6, <2>7, PlansGoOn, ImportGoesOn, PlanningGoesOn, PlacingGoesOn
           DEF Works
<1>2. Sound /\ AllUndisturbed /\ AllOrderly /\ HaltedKept /\ AllResuming /\ [Next]_vars =>
        [\A p \in Proc : (Ends(p, "refused") \/ Ends(p, "failed")) /\ retry[p]
                       /\ req[p].entries # <<>> /\ Untangled(before[p].table, req[p].entries)
                       => p \in disturbed' \cup outdated]_vars
    BY <1>1
<1> QED
    BY <1>2, InitSound, NextSound, InitUndisturbed, NextUndisturbed, InitOrderly, NextOrderly,
       InitHalted, NextHalted, InitResuming, NextResuming, PTL DEF Spec, RetryGoesThrough
=============================================================================
