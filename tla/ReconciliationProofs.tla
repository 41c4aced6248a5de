-------------------------- MODULE ReconciliationProofs --------------------------
(***************************************************************************)
(* Facts about the planners of Reconciliation, for manifests and tables of *)
(* any size.  The plans are recursive functions over the entries; what     *)
(* they compute is proved by induction on the number of entries that have  *)
(* been gone through.  The induction is over a set of numbers and rests on *)
(* the least element of its complement.                                    *)
(***************************************************************************)
EXTENDS Reconciliation, FiniteSets, FiniteSetTheorems, WellFoundedInduction, TLAPS

-----------------------------------------------------------------------------
(***************************************************************************)
(* Induction, and the largest number of a finite set.                      *)
(***************************************************************************)

LEMMA Least ==
    ASSUME NEW T \in SUBSET Nat, T # {}
    PROVE  \E n \in T : \A k \in T : n <= k
<1> DEFINE R == OpToRel(<, Nat)
<1>1. IsWellFoundedOn(R, Nat)
    BY NatLessThanWellFounded
<1>2. \A i, j \in Nat : i < j => <<i, j>> \in R
    BY DEF OpToRel
<1> HIDE DEF R
<1>3. PICK n \in T : \A k \in T : ~(<<k, n>> \in R)
    BY <1>1, WFMin
<1>4. \A k \in T : ~(k < n)
    BY <1>2, <1>3
<1> QED
    BY <1>4

LEMMA NatInduct ==
    ASSUME NEW T, 0 \in T, \A n \in Nat : n \in T => n + 1 \in T
    PROVE  \A n \in Nat : n \in T
<1> SUFFICES ASSUME Nat \ T # {}
             PROVE  FALSE
    OBVIOUS
<1>1. PICK n \in Nat \ T : \A k \in Nat \ T : n <= k
    BY Least
<1>2. n # 0 /\ n - 1 \in Nat /\ n - 1 \notin Nat \ T
    BY <1>1
<1>3. (n - 1) + 1 \in T
    BY <1>2
<1> QED
    BY <1>1, <1>3

LEMMA ImageFinite ==
    ASSUME NEW S, IsFiniteSet(S), NEW f
    PROVE  IsFiniteSet({f[x] : x \in S})
<1> DEFINE T == {f[x] : x \in S}
           g == [x \in S |-> f[x]]
<1>1. g \in [S -> T] /\ \A y \in T : \E x \in S : g[x] = y
    OBVIOUS
<1>2. g \in Surjection(S, T)
    BY <1>1 DEF Surjection
<1> HIDE DEF g, T
<1>3. IsFiniteSet(T)
    BY <1>2, FS_Surjection
<1> QED
    BY <1>3 DEF T

LEMMA Largest ==
    ASSUME NEW S \in SUBSET Nat, IsFiniteSet(S), S # {}
    PROVE  \E n \in S : \A k \in S : k <= n
<1> DEFINE HasLargest(U) == \E n \in U : \A k \in U : k <= n
           T == {c \in Nat : \A U \in SUBSET Nat :
                                IsFiniteSet(U) /\ Cardinality(U) = c + 1 => HasLargest(U)}
<1>1. 0 \in T
    <2> SUFFICES ASSUME NEW U \in SUBSET Nat, IsFiniteSet(U), Cardinality(U) = 1
                 PROVE  HasLargest(U)
        OBVIOUS
    <2>1. PICK n : U = {n}
        BY FS_Singleton
    <2> QED
        BY <2>1
<1>2. ASSUME NEW c \in Nat, c \in T
      PROVE  c + 1 \in T
    <2> SUFFICES ASSUME NEW U \in SUBSET Nat, IsFiniteSet(U), Cardinality(U) = (c + 1) + 1
                 PROVE  HasLargest(U)
        OBVIOUS
    <2>0. U # {}
        BY FS_EmptySet
    <2>1. PICK x \in U : TRUE
        BY <2>0
    <2>2. IsFiniteSet(U \ {x}) /\ Cardinality(U \ {x}) = c + 1
        BY FS_RemoveElement
    <2>3. PICK n \in U \ {x} : \A k \in U \ {x} : k <= n
        BY <1>2, <2>2
    <2>4. CASE x <= n
        BY <2>3, <2>4
    <2>5. CASE ~(x <= n)
        <3>1. \A k \in U : k <= x
            BY <2>3, <2>5
        <3> QED
            BY <3>1
    <2> QED
        BY <2>4, <2>5
<1> HIDE DEF T
<1>3. \A c \in Nat : c \in T
    BY <1>1, <1>2, NatInduct
<1>4. Cardinality(S) \in Nat /\ Cardinality(S) # 0
    BY FS_CardinalityType, FS_EmptySet
<1>5. Cardinality(S) - 1 \in T
    BY <1>3, <1>4
<1> QED
    BY <1>4, <1>5 DEF T

-----------------------------------------------------------------------------
(***************************************************************************)
(* What the two plans remember after each entry.                           *)
(***************************************************************************)

DriftAccs(t, m, disk, acc) ==
    /\ acc[0] = Start(t, m, disk)
    /\ \A n \in 1..Len(m) : acc[n] = DriftStep(t, disk, acc[n - 1], m[n])
    /\ BuildDryRunPlan(t, m, disk) = acc[Len(m)].drifts

ImportAccs(t, m, disk, acc) ==
    /\ acc[0] = Start(t, m, disk)
    /\ \A n \in 1..Len(m) : acc[n] = ImportStep(t, disk, acc[n - 1], m[n])
    /\ PlanImport(t, m, disk) = acc[Len(m)].drifts

LEMMA DriftAccsExist ==
    ASSUME NEW t, NEW m \in Seq(Entry), NEW disk
    PROVE  \E acc : DriftAccs(t, m, disk, acc)
<1> DEFINE IsAcc(g, n) == g = [k \in 0..n |-> IF k = 0 THEN Start(t, m, disk)
                                              ELSE DriftStep(t, disk, g[k - 1], m[k])]
           T == {n \in Nat : \E g : IsAcc(g, n)}
<1>1. 0 \in T
    <2> DEFINE g == [k \in 0..0 |-> Start(t, m, disk)]
    <2>1. IsAcc(g, 0)
        OBVIOUS
    <2> QED
        BY <2>1
<1>2. ASSUME NEW n \in Nat, n \in T
      PROVE  n + 1 \in T
    <2>1. PICK g : IsAcc(g, n)
        BY <1>2
    <2> DEFINE h == [k \in 0..(n + 1) |-> IF k = n + 1 THEN DriftStep(t, disk, g[n], m[n + 1])
                                          ELSE g[k]]
    <2>2. ASSUME NEW k \in 0..(n + 1)
          PROVE  h[k] = IF k = 0 THEN Start(t, m, disk) ELSE DriftStep(t, disk, h[k - 1], m[k])
        <3>1. CASE k = n + 1
            BY <3>1
        <3>2. CASE k # n + 1
            <4>1. k \in 0..n /\ h[k] = g[k]
                BY <3>2
            <4>2. k # 0 => h[k - 1] = g[k - 1]
                BY <4>1
            <4> QED
                BY <2>1, <4>1, <4>2
        <3> QED
            BY <3>1, <3>2
    <2>3. IsAcc(h, n + 1)
        BY <2>2
    <2> HIDE DEF h, IsAcc
    <2> QED
        BY <2>3
<1> HIDE DEF T
<1>3. Len(m) \in T
    BY <1>1, <1>2, NatInduct
<1> DEFINE acc == CHOOSE g : IsAcc(g, Len(m))
<1>4. IsAcc(acc, Len(m))
    BY <1>3 DEF T
<1>5. BuildDryRunPlan(t, m, disk) = acc[Len(m)].drifts
    BY DEF BuildDryRunPlan
<1> HIDE DEF acc
<1>6. acc[0] = Start(t, m, disk)
    BY <1>4
<1>7. ASSUME NEW n \in 1..Len(m)
      PROVE  acc[n] = DriftStep(t, disk, acc[n - 1], m[n])
    <2>1. n \in 0..Len(m) /\ n # 0
        OBVIOUS
    <2> QED
        BY <1>4, <2>1
<1> HIDE DEF IsAcc
<1> QED
    BY <1>5, <1>6, <1>7 DEF DriftAccs

LEMMA ImportAccsExist ==
    ASSUME NEW t, NEW m \in Seq(Entry), NEW disk
    PROVE  \E acc : ImportAccs(t, m, disk, acc)
<1> DEFINE IsAcc(g, n) == g = [k \in 0..n |-> IF k = 0 THEN ImportStart(t, m, disk)
                                              ELSE ImportStep(t, disk, g[k - 1], m[k])]
           T == {n \in Nat : \E g : IsAcc(g, n)}
<1>1. 0 \in T
    <2> DEFINE g == [k \in 0..0 |-> ImportStart(t, m, disk)]
    <2>1. IsAcc(g, 0)
        OBVIOUS
    <2> QED
        BY <2>1
<1>2. ASSUME NEW n \in Nat, n \in T
      PROVE  n + 1 \in T
    <2>1. PICK g : IsAcc(g, n)
        BY <1>2
    <2> DEFINE h == [k \in 0..(n + 1) |-> IF k = n + 1 THEN ImportStep(t, disk, g[n], m[n + 1])
                                          ELSE g[k]]
    <2>2. ASSUME NEW k \in 0..(n + 1)
          PROVE  h[k] = IF k = 0 THEN ImportStart(t, m, disk)
                        ELSE ImportStep(t, disk, h[k - 1], m[k])
        <3>1. CASE k = n + 1
            BY <3>1
        <3>2. CASE k # n + 1
            <4>1. k \in 0..n /\ h[k] = g[k]
                BY <3>2
            <4>2. k # 0 => h[k - 1] = g[k - 1]
                BY <4>1
            <4> QED
                BY <2>1, <4>1, <4>2
        <3> QED
            BY <3>1, <3>2
    <2>3. IsAcc(h, n + 1)
        BY <2>2
    <2> HIDE DEF h, IsAcc
    <2> QED
        BY <2>3
<1> HIDE DEF T
<1>3. Len(m) \in T
    BY <1>1, <1>2, NatInduct
<1> DEFINE acc == CHOOSE g : IsAcc(g, Len(m))
<1>4. IsAcc(acc, Len(m))
    BY <1>3 DEF T
<1>5. PlanImport(t, m, disk) = acc[Len(m)].drifts
    BY DEF PlanImport
<1> HIDE DEF acc
<1>6. acc[0] = Start(t, m, disk)
    BY <1>4 DEF ImportStart
<1>7. ASSUME NEW n \in 1..Len(m)
      PROVE  acc[n] = ImportStep(t, disk, acc[n - 1], m[n])
    <2>1. n \in 0..Len(m) /\ n # 0
        OBVIOUS
    <2> QED
        BY <1>4, <2>1
<1> HIDE DEF IsAcc
<1> QED
    BY <1>5, <1>6, <1>7 DEF ImportAccs

-----------------------------------------------------------------------------
(***************************************************************************)
(* One entry.                                                              *)
(***************************************************************************)

DriftWord == {"missing", "unchanged", "moved", "conflicting"}
Note == [drift : DriftWord, remote : Remote, alias : Name, path : Path]

Clear(acc, e) == ~Lost(acc, e) /\ ~AliasConflict(acc, e) /\ ~PathConflict(acc, e)

\* An entry neither plan has anything to say against.
Fits(t, disk, acc, e) == Clear(acc, e) /\ Drift(t, disk, e) # "conflicting"

LEMMA DriftWords ==
    ASSUME NEW t, NEW disk, NEW e
    PROVE  Drift(t, disk, e) \in DriftWord
BY DEF Drift, DriftWord

LEMMA NotedDrifts ==
    ASSUME NEW acc, acc.drifts \in Seq(Note), NEW e \in Entry, NEW word \in DriftWord,
           NEW alias, NEW path
    PROVE  LET n == Noted(acc, e, word, alias, path).drifts
           IN  /\ n \in Seq(Note)
               /\ Conflicting(n) <=> Conflicting(acc.drifts) \/ word = "conflicting"
<1> DEFINE d == [drift |-> word, remote |-> e.remote, alias |-> e.alias, path |-> e.path]
           n == Append(acc.drifts, d)
<1>1. d \in Note
    BY DEF Note, Entry
<1>2. d.drift = word
    OBVIOUS
<1>3. Noted(acc, e, word, alias, path).drifts = n
    BY DEF Noted
<1> HIDE DEF d
<1>4. /\ n \in Seq(Note) /\ Len(n) = Len(acc.drifts) + 1
      /\ n[Len(acc.drifts) + 1] = d
      /\ \A i \in 1..Len(acc.drifts) : n[i] = acc.drifts[i]
    BY <1>1
<1>5. DOMAIN n = 1..(Len(acc.drifts) + 1) /\ DOMAIN acc.drifts = 1..Len(acc.drifts)
    BY <1>4
<1> HIDE DEF n
<1>6. Conflicting(acc.drifts) => Conflicting(n)
    BY <1>4, <1>5 DEF Conflicting
<1>7. word = "conflicting" => Conflicting(n)
    BY <1>2, <1>4, <1>5 DEF Conflicting
<1>8. Conflicting(n) => Conflicting(acc.drifts) \/ word = "conflicting"
    <2> SUFFICES ASSUME NEW i \in 1..(Len(acc.drifts) + 1), n[i].drift = "conflicting"
                 PROVE  Conflicting(acc.drifts) \/ word = "conflicting"
        BY <1>5 DEF Conflicting
    <2>1. CASE i = Len(acc.drifts) + 1
        BY <1>2, <1>4, <2>1
    <2>2. CASE i # Len(acc.drifts) + 1
        <3>1. i \in 1..Len(acc.drifts)
            BY <2>2
        <3> QED
            BY <1>4, <1>5, <3>1 DEF Conflicting
    <2> QED
        BY <2>1, <2>2
<1> QED
    BY <1>3, <1>4, <1>6, <1>7, <1>8

LEMMA DriftStepDrifts ==
    ASSUME NEW t, NEW disk, NEW acc, acc.drifts \in Seq(Note), NEW e \in Entry
    PROVE  LET n == DriftStep(t, disk, acc, e).drifts
           IN  /\ n \in Seq(Note)
               /\ Conflicting(n) <=> Conflicting(acc.drifts) \/ ~Fits(t, disk, acc, e)
<1> DEFINE word == IF Lost(acc, e) \/ AliasConflict(acc, e) \/ PathConflict(acc, e)
                   THEN "conflicting" ELSE Drift(t, disk, e)
           alias == ~Lost(acc, e) /\ ~AliasConflict(acc, e)
           path == ~Lost(acc, e) /\ ~PathConflict(acc, e)
<1>1. DriftStep(t, disk, acc, e) = Noted(acc, e, word, alias, path)
    BY DEF DriftStep
<1>2. word \in DriftWord
    BY DriftWords DEF DriftWord
<1>3. word = "conflicting" <=> ~Fits(t, disk, acc, e)
    BY DEF Fits, Clear
<1> HIDE DEF word, alias, path
<1> QED
    BY <1>1, <1>2, <1>3, NotedDrifts

LEMMA ImportStepDrifts ==
    ASSUME NEW t, NEW disk, NEW acc, acc.drifts \in Seq(Note), NEW e \in Entry
    PROVE  LET n == ImportStep(t, disk, acc, e).drifts
           IN  /\ n \in Seq(Note)
               /\ Conflicting(n) <=> Conflicting(acc.drifts) \/ ~Fits(t, disk, acc, e)
<1> DEFINE early == Lost(acc, e) \/ AliasConflict(acc, e) \/ PathConflict(acc, e)
           word == IF early THEN "conflicting" ELSE Drift(t, disk, e)
           alias == word # "conflicting"
           path == ~early
<1>1. ImportStep(t, disk, acc, e) = Noted(acc, e, word, alias, path)
    BY DEF ImportStep
<1>2. word \in DriftWord
    BY DriftWords DEF DriftWord
<1>3. word = "conflicting" <=> ~Fits(t, disk, acc, e)
    BY DEF Fits, Clear
<1> HIDE DEF word, alias, path
<1> QED
    BY <1>1, <1>2, <1>3, NotedDrifts

\* An entry that fits both plans note alike: it has its alias and its path from then on.
LEMMA FittingStep ==
    ASSUME NEW t, NEW disk, NEW acc, NEW e, Fits(t, disk, acc, e)
    PROVE  /\ DriftStep(t, disk, acc, e) = Noted(acc, e, Drift(t, disk, e), TRUE, TRUE)
           /\ ImportStep(t, disk, acc, e) = Noted(acc, e, Drift(t, disk, e), TRUE, TRUE)
<1>1. /\ ~(Lost(acc, e) \/ AliasConflict(acc, e) \/ PathConflict(acc, e))
      /\ (~Lost(acc, e) /\ ~AliasConflict(acc, e)) = TRUE
      /\ (~Lost(acc, e) /\ ~PathConflict(acc, e)) = TRUE
      /\ (Drift(t, disk, e) # "conflicting") = TRUE
    BY DEF Fits, Clear
<1> QED
    BY <1>1 DEF DriftStep, ImportStep

-----------------------------------------------------------------------------
(***************************************************************************)
(* The two plans find the same manifests in conflict: until the first      *)
(* conflict they remember the same, and both remember that there was one.  *)
(***************************************************************************)

LEMMA StartDrifts ==
    ASSUME NEW t, NEW m, NEW disk
    PROVE  /\ Start(t, m, disk).drifts \in Seq(Note)
           /\ ~Conflicting(Start(t, m, disk).drifts)
<1>1. Start(t, m, disk).drifts = <<>>
    BY DEF Start
<1> QED
    BY <1>1 DEF Conflicting

LEMMA AccsAgree ==
    ASSUME NEW t, NEW m \in Seq(Entry), NEW disk, NEW d, NEW i,
           DriftAccs(t, m, disk, d), ImportAccs(t, m, disk, i)
    PROVE  \A n \in 0..Len(m) :
              /\ d[n].drifts \in Seq(Note) /\ i[n].drifts \in Seq(Note)
              /\ \/ d[n] = i[n] /\ ~Conflicting(d[n].drifts)
                 \/ Conflicting(d[n].drifts) /\ Conflicting(i[n].drifts)
<1> DEFINE Good(n) == /\ d[n].drifts \in Seq(Note) /\ i[n].drifts \in Seq(Note)
                      /\ \/ d[n] = i[n] /\ ~Conflicting(d[n].drifts)
                         \/ Conflicting(d[n].drifts) /\ Conflicting(i[n].drifts)
           T == {n \in Nat : n <= Len(m) => Good(n)}
<1>1. 0 \in T
    <2>1. d[0] = i[0] /\ d[0] = Start(t, m, disk)
        BY DEF DriftAccs, ImportAccs
    <2> QED
        BY <2>1, StartDrifts
<1>2. ASSUME NEW n \in Nat, n \in T
      PROVE  n + 1 \in T
    <2> SUFFICES ASSUME n + 1 <= Len(m)
                 PROVE  Good(n + 1)
        OBVIOUS
    <2>1. n + 1 \in 1..Len(m) /\ (n + 1) - 1 = n /\ Good(n)
        BY <1>2
    <2>2. m[n + 1] \in Entry
        BY <2>1
    <2>3. /\ d[n + 1] = DriftStep(t, disk, d[n], m[n + 1])
          /\ i[n + 1] = ImportStep(t, disk, i[n], m[n + 1])
        BY <2>1 DEF DriftAccs, ImportAccs
    <2>4. /\ d[n + 1].drifts \in Seq(Note) /\ i[n + 1].drifts \in Seq(Note)
          /\ Conflicting(d[n + 1].drifts)
                <=> Conflicting(d[n].drifts) \/ ~Fits(t, disk, d[n], m[n + 1])
          /\ Conflicting(i[n + 1].drifts)
                <=> Conflicting(i[n].drifts) \/ ~Fits(t, disk, i[n], m[n + 1])
        BY <2>1, <2>2, <2>3, DriftStepDrifts, ImportStepDrifts
    <2>5. CASE d[n] = i[n] /\ Fits(t, disk, d[n], m[n + 1])
        <3>1. DriftStep(t, disk, d[n], m[n + 1]) = ImportStep(t, disk, d[n], m[n + 1])
            BY <2>5, FittingStep
        <3>2. d[n + 1] = i[n + 1]
            BY <2>3, <2>5, <3>1
        <3> QED
            BY <2>4, <3>2
    <2>6. CASE ~(d[n] = i[n] /\ Fits(t, disk, d[n], m[n + 1]))
        BY <2>1, <2>4, <2>6
    <2> QED
        BY <2>5, <2>6
<1> HIDE DEF T
<1>3. \A n \in Nat : n \in T
    BY <1>1, <1>2, NatInduct
<1> QED
    BY <1>3 DEF T

\* For every table, manifest and tree the drift plan finds a conflict just when the
\* import plan does.
LEMMA PlansAgree ==
    ASSUME NEW t, NEW m \in Seq(Entry), NEW disk
    PROVE  Conflicting(BuildDryRunPlan(t, m, disk)) <=> Conflicting(PlanImport(t, m, disk))
<1>1. PICK d : DriftAccs(t, m, disk, d)
    BY DriftAccsExist
<1>2. PICK i : ImportAccs(t, m, disk, i)
    BY ImportAccsExist
<1>3. Len(m) \in 0..Len(m)
    OBVIOUS
<1>4. \/ d[Len(m)] = i[Len(m)]
      \/ Conflicting(d[Len(m)].drifts) /\ Conflicting(i[Len(m)].drifts)
    BY <1>1, <1>2, <1>3, AccsAgree
<1> QED
    BY <1>1, <1>2, <1>4 DEF DriftAccs, ImportAccs

-----------------------------------------------------------------------------
(***************************************************************************)
(* What an import plan without conflicts promises.                         *)
(***************************************************************************)

Owner == Remote \cup {NoRemote}

LEMMA OwnersTyped ==
    ASSUME NEW t, DOMAIN t \subseteq Remote, NEW m
    PROVE  /\ AliasOwner(t, m) \in [Name -> Owner]
           /\ \A n \in Name : AliasOwner(t, m)[n] # NoRemote =>
                 LET z == AliasOwner(t, m)[n] IN z \in DOMAIN t /\ t[z].alias = n
<1> DEFINE owners(n) == {x \in DOMAIN t : /\ t[x].alias = n
                                          /\ x \in Identities(m) => DesiredAlias(m, x) = n}
<1>1. AliasOwner(t, m) = [n \in Name |-> IF owners(n) = {} THEN NoRemote
                                         ELSE CHOOSE x \in owners(n) : TRUE]
    BY DEF AliasOwner
<1>2. ASSUME NEW n \in Name, owners(n) # {}
      PROVE  (CHOOSE x \in owners(n) : TRUE) \in owners(n)
    BY <1>2
<1>3. \A n \in Name : owners(n) \subseteq {x \in DOMAIN t : t[x].alias = n}
    OBVIOUS
<1> HIDE DEF owners
<1> QED
    BY <1>1, <1>2, <1>3 DEF Owner

\* Of several claims to a path the planners remember one.
LEMMA ClaimsRemembered ==
    ASSUME NEW t \in Table, IsFiniteSet(DOMAIN t), NEW m, NEW disk
    PROVE  /\ Claimed(t, m, disk) \in [Path -> Owner]
           /\ \A d \in Path :
                 /\ Claimed(t, m, disk)[d] # NoRemote =>
                       LET z == Claimed(t, m, disk)[d]
                       IN  z \in DOMAIN t /\ d \in Claims(t, m, disk, z)
                 /\ \A x \in DOMAIN t :
                       d \in Claims(t, m, disk, x) => Claimed(t, m, disk)[d] # NoRemote
<1> DEFINE claimants(d) == {x \in DOMAIN t : d \in Claims(t, m, disk, x)}
           last(d) == CHOOSE x \in claimants(d) : \A y \in claimants(d) : t[y].alias <= t[x].alias
<1>1. Claimed(t, m, disk) = [d \in Path |-> IF claimants(d) = {} THEN NoRemote ELSE last(d)]
    BY DEF Claimed
<1>2. DOMAIN t \subseteq Remote /\ \A x \in DOMAIN t : t[x].alias \in Nat
    BY NameAssumption DEF Table, Row
<1>3. ASSUME NEW d \in Path, claimants(d) # {}
      PROVE  last(d) \in claimants(d)
    <2> DEFINE S == {t[x].alias : x \in claimants(d)}
               f == [x \in claimants(d) |-> t[x].alias]
    <2>1. IsFiniteSet(claimants(d))
        BY FS_Subset
    <2> HIDE DEF claimants
    <2>2. IsFiniteSet(S)
        <3>1. IsFiniteSet({f[x] : x \in claimants(d)})
            <4> HIDE DEF f
            <4> QED
                BY <2>1, ImageFinite
        <3>2. {f[x] : x \in claimants(d)} = S
            OBVIOUS
        <3> QED
            BY <3>1, <3>2
    <2>3. S \in SUBSET Nat /\ S # {}
        BY <1>2, <1>3 DEF claimants
    <2>4. PICK n \in S : \A k \in S : k <= n
        BY <2>2, <2>3, Largest
    <2>5. PICK x \in claimants(d) : t[x].alias = n
        BY <2>4
    <2>6. \A y \in claimants(d) : t[y].alias <= t[x].alias
        BY <2>4, <2>5
    <2> QED
        BY <2>5, <2>6
<1> HIDE DEF last
<1>4. ASSUME NEW d \in Path
      PROVE  /\ Claimed(t, m, disk)[d] # NoRemote => Claimed(t, m, disk)[d] \in claimants(d)
             /\ claimants(d) # {} => Claimed(t, m, disk)[d] # NoRemote
    BY <1>1, <1>2, <1>3, RemoteAssumption
<1>5. Claimed(t, m, disk) \in [Path -> Owner]
    BY <1>1, <1>2, <1>3 DEF Owner
<1> HIDE DEF claimants
<1> QED
    BY <1>4, <1>5 DEF claimants

LEMMA AllFit ==
    ASSUME NEW t, NEW m \in Seq(Entry), NEW disk, NEW acc, ImportAccs(t, m, disk, acc),
           ~Conflicting(PlanImport(t, m, disk))
    PROVE  \A n \in 1..Len(m) :
              /\ Fits(t, disk, acc[n - 1], m[n])
              /\ acc[n] = Noted(acc[n - 1], m[n], Drift(t, disk, m[n]), TRUE, TRUE)
<1> DEFINE Fit(n) == \A k \in 1..n : Fits(t, disk, acc[k - 1], m[k])
           T == {n \in Nat : n <= Len(m) => /\ acc[n].drifts \in Seq(Note)
                                            /\ Fit(n) \/ Conflicting(acc[n].drifts)}
<1>1. 0 \in T
    BY StartDrifts DEF ImportAccs
<1>2. ASSUME NEW n \in Nat, n \in T
      PROVE  n + 1 \in T
    <2> SUFFICES ASSUME n + 1 <= Len(m)
                 PROVE  /\ acc[n + 1].drifts \in Seq(Note)
                        /\ Fit(n + 1) \/ Conflicting(acc[n + 1].drifts)
        OBVIOUS
    <2>1. n + 1 \in 1..Len(m) /\ (n + 1) - 1 = n
        OBVIOUS
    <2>2. m[n + 1] \in Entry
        BY <2>1
    <2>3. acc[n + 1] = ImportStep(t, disk, acc[n], m[n + 1])
        BY <2>1 DEF ImportAccs
    <2>4. /\ acc[n + 1].drifts \in Seq(Note)
          /\ Conflicting(acc[n + 1].drifts)
                <=> Conflicting(acc[n].drifts) \/ ~Fits(t, disk, acc[n], m[n + 1])
        BY <1>2, <2>2, <2>3, ImportStepDrifts
    <2>5. ASSUME ~Conflicting(acc[n + 1].drifts), NEW k \in 1..(n + 1)
          PROVE  Fits(t, disk, acc[k - 1], m[k])
        <3>1. CASE k = n + 1
            BY <2>1, <2>4, <2>5, <3>1
        <3>2. CASE k # n + 1
            BY <1>2, <2>4, <2>5, <3>2
        <3> QED
            BY <3>1, <3>2
    <2> QED
        BY <2>4, <2>5
<1> HIDE DEF T
<1>3. Len(m) \in T
    BY <1>1, <1>2, NatInduct
<1>4. Fit(Len(m))
    BY <1>3 DEF T, ImportAccs
<1>5. ASSUME NEW n \in 1..Len(m)
      PROVE  /\ Fits(t, disk, acc[n - 1], m[n])
             /\ acc[n] = Noted(acc[n - 1], m[n], Drift(t, disk, m[n]), TRUE, TRUE)
    <2>1. Fits(t, disk, acc[n - 1], m[n])
        BY <1>4
    <2>2. ImportStep(t, disk, acc[n - 1], m[n])
             = Noted(acc[n - 1], m[n], Drift(t, disk, m[n]), TRUE, TRUE)
        BY <2>1, FittingStep
    <2>3. acc[n] = ImportStep(t, disk, acc[n - 1], m[n])
        BY DEF ImportAccs
    <2> QED
        BY <2>1, <2>2, <2>3
<1> QED
    BY <1>5

\* After n entries that fit: what they have asked for is theirs, and no claim of a
\* listed project has been overridden.
Kept(t, m, disk, acc, n) ==
    /\ acc[n].owner \in [Name -> Owner] /\ acc[n].seen \in [Path -> Owner]
    /\ \A j \in 1..n : /\ m[j].remote \in acc[n].ids
                       /\ acc[n].owner[m[j].alias] = m[j].remote
                       /\ acc[n].seen[m[j].path] = m[j].remote
    /\ \A d \in Path : Claimed(t, m, disk)[d] # NoRemote =>
          acc[n].seen[d] = Claimed(t, m, disk)[d]
    /\ \A a \in Name : AliasOwner(t, m)[a] # NoRemote => acc[n].owner[a] = AliasOwner(t, m)[a]

LEMMA AllKept ==
    ASSUME NEW t \in Table, IsFiniteSet(DOMAIN t), NEW m \in Seq(Entry), NEW disk, NEW acc,
           acc[0] = Start(t, m, disk),
           \A n \in 1..Len(m) :
              /\ Clear(acc[n - 1], m[n])
              /\ acc[n] = Noted(acc[n - 1], m[n], Drift(t, disk, m[n]), TRUE, TRUE)
    PROVE  \A n \in 0..Len(m) : Kept(t, m, disk, acc, n)
<1> DEFINE T == {n \in Nat : n <= Len(m) => Kept(t, m, disk, acc, n)}
<1>1. 0 \in T
    <2>1. DOMAIN t \subseteq Remote
        BY DEF Table
    <2> QED
        BY <2>1, OwnersTyped, ClaimsRemembered DEF Kept, Start
<1>2. ASSUME NEW n \in Nat, n \in T
      PROVE  n + 1 \in T
    <2> SUFFICES ASSUME n + 1 <= Len(m)
                 PROVE  Kept(t, m, disk, acc, n + 1)
        OBVIOUS
    <2> DEFINE e == m[n + 1]
               a == acc[n]
    <2>1. n + 1 \in 1..Len(m) /\ (n + 1) - 1 = n /\ Kept(t, m, disk, acc, n)
        BY <1>2
    <2>2. e \in Entry
        BY <2>1
    <2>3. e.remote \in Remote /\ e.alias \in Name /\ e.path \in Path
        BY <2>2 DEF Entry
    <2>4. acc[n + 1] = Noted(a, e, Drift(t, disk, e), TRUE, TRUE) /\ Clear(a, e)
        BY <2>1
    <2> HIDE DEF e, a
    <2>5. /\ acc[n + 1].ids = a.ids \cup {e.remote}
          /\ acc[n + 1].owner = [a.owner EXCEPT ![e.alias] = e.remote]
          /\ acc[n + 1].seen = [a.seen EXCEPT ![e.path] = e.remote]
        BY <2>4 DEF Noted
    <2>6. a.owner[e.alias] \in {NoRemote, e.remote} /\ a.seen[e.path] \in {NoRemote, e.remote}
        BY <2>3, <2>4 DEF Clear, AliasConflict, PathConflict, PathTaken, Taken, Overlap
    <2>7. a.owner \in [Name -> Owner] /\ a.seen \in [Path -> Owner]
        BY <2>1 DEF Kept, a
    <2>8. acc[n + 1].owner \in [Name -> Owner] /\ acc[n + 1].seen \in [Path -> Owner]
        BY <2>3, <2>5, <2>7 DEF Owner
    <2>9. ASSUME NEW j \in 1..(n + 1)
          PROVE  /\ m[j].remote \in acc[n + 1].ids
                 /\ acc[n + 1].owner[m[j].alias] = m[j].remote
                 /\ acc[n + 1].seen[m[j].path] = m[j].remote
        <3>1. CASE j = n + 1
            BY <2>3, <2>5, <2>7, <3>1 DEF e
        <3>2. CASE j # n + 1
            <4>1. j \in 1..n /\ j \in 1..Len(m)
                BY <3>2
            <4>2. m[j] \in Entry
                BY <4>1
            <4>3. m[j].remote \in Remote /\ m[j].alias \in Name /\ m[j].path \in Path
                BY <4>2 DEF Entry
            <4>4. /\ m[j].remote \in a.ids /\ a.owner[m[j].alias] = m[j].remote
                  /\ a.seen[m[j].path] = m[j].remote
                BY <2>1, <4>1 DEF Kept, a
            <4>5. m[j].remote # NoRemote
                BY <4>3, RemoteAssumption
            <4> QED
                BY <2>3, <2>5, <2>6, <2>7, <4>3, <4>4, <4>5
        <3> QED
            BY <3>1, <3>2
    <2>10. ASSUME NEW d \in Path, Claimed(t, m, disk)[d] # NoRemote
           PROVE  acc[n + 1].seen[d] = Claimed(t, m, disk)[d]
        <3>1. a.seen[d] = Claimed(t, m, disk)[d]
            BY <2>1, <2>10 DEF Kept, a
        <3> QED
            BY <2>3, <2>5, <2>6, <2>7, <2>10, <3>1
    <2>11. ASSUME NEW k \in Name, AliasOwner(t, m)[k] # NoRemote
           PROVE  acc[n + 1].owner[k] = AliasOwner(t, m)[k]
        <3>1. a.owner[k] = AliasOwner(t, m)[k]
            BY <2>1, <2>11 DEF Kept, a
        <3> QED
            BY <2>3, <2>5, <2>6, <2>7, <2>11, <3>1
    <2> QED
        BY <2>8, <2>9, <2>10, <2>11 DEF Kept
<1> HIDE DEF T
<1>3. \A n \in Nat : n \in T
    BY <1>1, <1>2, NatInduct
<1> QED
    BY <1>3 DEF T

\* The entries of a manifest do not ask for the same twice.
Distinguished(m) ==
    \A i, j \in DOMAIN m : i # j => /\ m[i].remote # m[j].remote
                                    /\ m[i].alias # m[j].alias
                                    /\ ~Overlap(m[i].path, m[j].path)

\* Nor for what listed projects have.
Unclaimed(t, m, disk) ==
    \A i \in DOMAIN m :
        /\ m[i].path \notin Outside
        /\ AliasOwner(t, m)[m[i].alias] \in {NoRemote, m[i].remote}
        /\ \A d \in Path : Overlap(d, m[i].path) =>
              Claimed(t, m, disk)[d] \in {NoRemote, m[i].remote}

LEMMA OverlapSymmetric ==
    ASSUME NEW d, NEW q, Overlap(d, q)
    PROVE  Overlap(q, d)
BY DEF Overlap

LEMMA ImportPromise ==
    ASSUME NEW t \in Table, IsFiniteSet(DOMAIN t), NEW m \in Seq(Entry), NEW disk,
           ~Conflicting(PlanImport(t, m, disk))
    PROVE  /\ Distinguished(m)
           /\ Unclaimed(t, m, disk)
           /\ \A i \in DOMAIN m : Drift(t, disk, m[i]) # "conflicting"
<1>1. PICK acc : ImportAccs(t, m, disk, acc)
    BY ImportAccsExist
<1>2. \A n \in 1..Len(m) :
         /\ Fits(t, disk, acc[n - 1], m[n])
         /\ acc[n] = Noted(acc[n - 1], m[n], Drift(t, disk, m[n]), TRUE, TRUE)
    BY <1>1, AllFit
<1>3. acc[0] = Start(t, m, disk)
    BY <1>1 DEF ImportAccs
<1>4. \A n \in 0..Len(m) : Kept(t, m, disk, acc, n)
    BY <1>2, <1>3, AllKept DEF Fits
<1>5. DOMAIN m = 1..Len(m)
    OBVIOUS
<1>6. \A i \in DOMAIN m : m[i].remote \in Remote /\ m[i].alias \in Name /\ m[i].path \in Path
    <2>1. \A i \in DOMAIN m : m[i] \in Entry
        OBVIOUS
    <2> QED
        BY <2>1 DEF Entry
<1>7. ASSUME NEW i \in DOMAIN m, NEW j \in DOMAIN m, i < j
      PROVE  /\ m[i].remote # m[j].remote
             /\ m[i].alias # m[j].alias
             /\ ~Overlap(m[i].path, m[j].path)
    <2> DEFINE a == acc[j - 1]
    <2>1. j \in 1..Len(m) /\ j - 1 \in 0..Len(m) /\ i \in 1..(j - 1)
        BY <1>5, <1>7
    <2>2. Clear(a, m[j]) /\ Kept(t, m, disk, acc, j - 1)
        BY <1>2, <1>4, <2>1 DEF Fits
    <2>3. /\ m[i].remote \in a.ids /\ a.owner[m[i].alias] = m[i].remote
          /\ a.seen[m[i].path] = m[i].remote
        BY <2>1, <2>2 DEF Kept
    <2>4. m[i].remote # m[j].remote
        BY <2>2, <2>3 DEF Clear, Lost, Repeated
    <2>5. m[i].remote # NoRemote
        BY <1>6, RemoteAssumption
    <2> QED
        BY <1>6, <2>2, <2>3, <2>4, <2>5
        DEF Clear, AliasConflict, PathConflict, PathTaken, Taken
<1>8. Distinguished(m)
    <2> SUFFICES ASSUME NEW i \in DOMAIN m, NEW j \in DOMAIN m, i # j
                 PROVE  /\ m[i].remote # m[j].remote
                        /\ m[i].alias # m[j].alias
                        /\ ~Overlap(m[i].path, m[j].path)
        BY DEF Distinguished
    <2>1. i < j \/ j < i
        BY <1>5
    <2> QED
        BY <1>7, <2>1, OverlapSymmetric
<1>9. ASSUME NEW i \in DOMAIN m
      PROVE  /\ m[i].path \notin Outside
             /\ AliasOwner(t, m)[m[i].alias] \in {NoRemote, m[i].remote}
             /\ \A d \in Path : Overlap(d, m[i].path) =>
                   Claimed(t, m, disk)[d] \in {NoRemote, m[i].remote}
    <2> DEFINE a == acc[i - 1]
    <2>1. i \in 1..Len(m) /\ i - 1 \in 0..Len(m)
        BY <1>5
    <2>2. Clear(a, m[i]) /\ Kept(t, m, disk, acc, i - 1)
        BY <1>2, <1>4, <2>1 DEF Fits
    <2>3. m[i].path \notin Outside
        BY <2>2 DEF Clear, Lost
    <2>4. a.owner[m[i].alias] \in {NoRemote, m[i].remote}
        BY <2>2 DEF Clear, AliasConflict, Taken
    <2>5. \A d \in Path : Overlap(d, m[i].path) => a.seen[d] \in {NoRemote, m[i].remote}
        BY <2>2 DEF Clear, PathConflict, PathTaken, Taken
    <2>6. /\ \A d \in Path : Claimed(t, m, disk)[d] # NoRemote => a.seen[d] = Claimed(t, m, disk)[d]
          /\ \A k \in Name : AliasOwner(t, m)[k] # NoRemote => a.owner[k] = AliasOwner(t, m)[k]
        BY <2>2 DEF Kept
    <2> QED
        BY <1>6, <2>3, <2>4, <2>5, <2>6
<1> QED
    BY <1>2, <1>5, <1>8, <1>9 DEF Unclaimed, Fits

-----------------------------------------------------------------------------
(***************************************************************************)
(* The table an import leaves behind.                                      *)
(***************************************************************************)

Wanted(m, x) == m[CHOOSE i \in DOMAIN m : m[i].remote = x]

NewRow(t, m, disk, x) ==
    LET e == Wanted(m, x)
    IN  [alias |-> e.alias,
         local |-> IF x \in DOMAIN t THEN LocalPath(disk, t[x], e.path) ELSE e.path,
         canon |-> e.path, source |-> "canonical"]

Merge(t, rows) ==
    [x \in DOMAIN t \cup DOMAIN rows |-> IF x \in DOMAIN rows THEN rows[x] ELSE t[x]]

\* No two rows have an alias in common; no two imported projects have places in one
\* another's way; no project is registered in the place another one was imported for.
OwnAliases(t) == \A x, y \in DOMAIN t : x # y => t[x].alias # t[y].alias
Apart(t) ==
    \A x, y \in DOMAIN t :
        x # y /\ t[x].source = "canonical" /\ t[y].source = "canonical"
            => ~Overlap(t[x].canon, t[y].canon)
InOwnPlace(t) ==
    \A x, y \in DOMAIN t : x # y /\ t[y].source = "canonical" => t[x].local # t[y].canon

LEMMA WantedEntry ==
    ASSUME NEW m \in Seq(Entry), NEW x \in Identities(m)
    PROVE  /\ \E i \in DOMAIN m : Wanted(m, x) = m[i] /\ m[i].remote = x
           /\ Wanted(m, x) \in Entry /\ Wanted(m, x).remote = x /\ x \in Remote
<1>1. PICK i \in DOMAIN m : m[i].remote = x
    BY DEF Identities
<1> DEFINE j == CHOOSE j \in DOMAIN m : m[j].remote = x
<1>2. j \in DOMAIN m /\ m[j].remote = x
    BY <1>1
<1>3. Wanted(m, x) = m[j]
    BY DEF Wanted
<1> HIDE DEF j
<1>4. m[j] \in Entry
    BY <1>2
<1> QED
    BY <1>2, <1>3, <1>4 DEF Entry

LEMMA WantedIs ==
    ASSUME NEW m \in Seq(Entry), Distinguished(m), NEW i \in DOMAIN m
    PROVE  Wanted(m, m[i].remote) = m[i] /\ m[i].remote \in Identities(m)
<1>1. m[i].remote \in Identities(m)
    BY DEF Identities
<1>2. PICK j \in DOMAIN m : Wanted(m, m[i].remote) = m[j] /\ m[j].remote = m[i].remote
    BY <1>1, WantedEntry
<1> QED
    BY <1>1, <1>2 DEF Distinguished

LEMMA ChangesRows ==
    ASSUME NEW t, NEW m, NEW disk
    PROVE  Changes(t, m, disk) =
               [x \in {z \in Identities(m) : z \in DOMAIN t => t[z] # NewRow(t, m, disk, z)}
                    |-> NewRow(t, m, disk, x)]
BY DEF Changes, NewRow, Wanted

LEMMA NewRowType ==
    ASSUME NEW t \in Table, NEW m \in Seq(Entry), NEW disk, NEW x \in Identities(m)
    PROVE  /\ NewRow(t, m, disk, x) \in Row
           /\ NewRow(t, m, disk, x).alias = Wanted(m, x).alias
           /\ NewRow(t, m, disk, x).canon = Wanted(m, x).path
           /\ NewRow(t, m, disk, x).source = "canonical"
<1>1. Wanted(m, x).alias \in Name /\ Wanted(m, x).path \in Path
    BY WantedEntry DEF Entry
<1>2. x \in DOMAIN t => LocalPath(disk, t[x], Wanted(m, x).path) \in Path
    <2>1. x \in DOMAIN t => t[x] \in Row
        BY DEF Table
    <2> QED
        BY <1>1, <2>1 DEF LocalPath, Row
<1> QED
    BY <1>1, <1>2 DEF NewRow, Row

LEMMA IdentitiesType ==
    ASSUME NEW m \in Seq(Entry)
    PROVE  Identities(m) \subseteq Remote /\ IsFiniteSet(Identities(m))
<1>1. Identities(m) \subseteq Remote
    <2>1. \A i \in DOMAIN m : m[i] \in Entry
        OBVIOUS
    <2> QED
        BY <2>1 DEF Identities, Entry
<1>2. IsFiniteSet(1..Len(m))
    BY FS_Interval
<1>3. DOMAIN m = 1..Len(m)
    OBVIOUS
<1>4. IsFiniteSet(Identities(m))
    <2> DEFINE f == [i \in DOMAIN m |-> m[i].remote]
    <2>1. IsFiniteSet({f[i] : i \in DOMAIN m})
        <3> HIDE DEF f
        <3> QED
            BY <1>2, <1>3, ImageFinite
    <2>2. {f[i] : i \in DOMAIN m} = Identities(m)
        BY DEF Identities
    <2> QED
        BY <2>1, <2>2
<1> QED
    BY <1>1, <1>4

LEMMA ChangesType ==
    ASSUME NEW t \in Table, NEW m \in Seq(Entry), NEW disk
    PROVE  /\ Changes(t, m, disk) \in Table
           /\ DOMAIN Changes(t, m, disk) \subseteq Identities(m)
           /\ IsFiniteSet(DOMAIN Changes(t, m, disk))
<1> DEFINE S == {z \in Identities(m) : z \in DOMAIN t => t[z] # NewRow(t, m, disk, z)}
           c == [x \in S |-> NewRow(t, m, disk, x)]
<1>1. Changes(t, m, disk) = c
    BY ChangesRows
<1>2. S \subseteq Identities(m) /\ S \in SUBSET Remote
    BY IdentitiesType
<1>3. c \in [S -> Row]
    BY <1>2, NewRowType
<1>4. IsFiniteSet(S)
    BY <1>2, IdentitiesType, FS_Subset
<1> HIDE DEF S
<1>5. DOMAIN c = S
    OBVIOUS
<1> HIDE DEF c
<1>6. c \in Table
    BY <1>2, <1>3 DEF Table
<1> QED
    BY <1>1, <1>2, <1>4, <1>5, <1>6

LEMMA MergeType ==
    ASSUME NEW t \in Table, IsFiniteSet(DOMAIN t), NEW rows \in Table, IsFiniteSet(DOMAIN rows)
    PROVE  Merge(t, rows) \in Table /\ IsFiniteSet(DOMAIN Merge(t, rows))
<1>1. /\ DOMAIN t \subseteq Remote /\ DOMAIN rows \subseteq Remote
      /\ \A x \in DOMAIN t : t[x] \in Row
      /\ \A x \in DOMAIN rows : rows[x] \in Row
    BY DEF Table
<1> DEFINE D == DOMAIN t \cup DOMAIN rows
<1>2. D \in SUBSET Remote /\ IsFiniteSet(D)
    BY <1>1, FS_Union
<1>3. Merge(t, rows) \in [D -> Row]
    BY <1>1 DEF Merge
<1> HIDE DEF D
<1>4. Merge(t, rows) \in Table
    BY <1>2, <1>3 DEF Table
<1> QED
    BY <1>2, <1>3, <1>4

\* The rows of the entries are as they ask, changed or not.
LEMMA MergedRows ==
    ASSUME NEW t \in Table, NEW m \in Seq(Entry), NEW disk
    PROVE  LET new == Merge(t, Changes(t, m, disk))
           IN  /\ DOMAIN new = DOMAIN t \cup Identities(m)
               /\ \A x \in Identities(m) : new[x] = NewRow(t, m, disk, x)
               /\ \A x \in DOMAIN t \ Identities(m) : new[x] = t[x]
<1> DEFINE S == {z \in Identities(m) : z \in DOMAIN t => t[z] # NewRow(t, m, disk, z)}
           c == Changes(t, m, disk)
<1>1. DOMAIN c = S /\ \A x \in S : c[x] = NewRow(t, m, disk, x)
    BY ChangesRows
<1>2. /\ DOMAIN t \cup S = DOMAIN t \cup Identities(m)
      /\ S \subseteq Identities(m)
      /\ \A x \in Identities(m) \ S : x \in DOMAIN t /\ t[x] = NewRow(t, m, disk, x)
    OBVIOUS
<1> HIDE DEF S, c
<1>3. /\ DOMAIN Merge(t, c) = DOMAIN t \cup Identities(m)
      /\ \A x \in S : Merge(t, c)[x] = NewRow(t, m, disk, x)
      /\ \A x \in DOMAIN t \ S : Merge(t, c)[x] = t[x]
    BY <1>1, <1>2 DEF Merge
<1>4. \A x \in Identities(m) : Merge(t, c)[x] = NewRow(t, m, disk, x)
    BY <1>2, <1>3
<1> QED
    BY <1>2, <1>3, <1>4 DEF c

\* An import planned without conflicts keeps the places of imported projects apart.
LEMMA ImportKeepsApart ==
    ASSUME NEW t \in Table, IsFiniteSet(DOMAIN t), NEW m \in Seq(Entry), NEW disk,
           ~Conflicting(PlanImport(t, m, disk)), Apart(t), InOwnPlace(t)
    PROVE  Apart(Merge(t, Changes(t, m, disk)))
<1> DEFINE new == Merge(t, Changes(t, m, disk))
<1>1. Distinguished(m) /\ Unclaimed(t, m, disk)
    BY ImportPromise
<1>2. /\ DOMAIN new = DOMAIN t \cup Identities(m)
      /\ \A x \in Identities(m) : new[x].canon = Wanted(m, x).path
      /\ \A x \in DOMAIN t \ Identities(m) : new[x] = t[x]
    <2>1. /\ DOMAIN new = DOMAIN t \cup Identities(m)
          /\ \A x \in Identities(m) : new[x] = NewRow(t, m, disk, x)
          /\ \A x \in DOMAIN t \ Identities(m) : new[x] = t[x]
        BY MergedRows
    <2>2. \A x \in Identities(m) : NewRow(t, m, disk, x).canon = Wanted(m, x).path
        BY NewRowType
    <2> HIDE DEF new
    <2> QED
        BY <2>1, <2>2
<1> HIDE DEF new
<1>3. ASSUME NEW x \in Identities(m), NEW y \in Identities(m), x # y
      PROVE  ~Overlap(new[x].canon, new[y].canon)
    <2>1. PICK i \in DOMAIN m : Wanted(m, x) = m[i] /\ m[i].remote = x
        BY WantedEntry
    <2>2. PICK j \in DOMAIN m : Wanted(m, y) = m[j] /\ m[j].remote = y
        BY WantedEntry
    <2> QED
        BY <1>1, <1>2, <1>3, <2>1, <2>2 DEF Distinguished
<1>4. ASSUME NEW x \in Identities(m), NEW y \in DOMAIN t \ Identities(m),
             t[y].source = "canonical"
      PROVE  ~Overlap(t[y].canon, new[x].canon)
    <2> DEFINE d == t[y].canon
    <2>1. PICK i \in DOMAIN m : Wanted(m, x) = m[i] /\ m[i].remote = x
        BY WantedEntry
    <2>2. t[y] \in Row
        BY DEF Table
    <2>3. d \in Path
        BY <2>2 DEF Row
    <2>4. d \in Claims(t, m, disk, y)
        BY DEF Claims
    <2>5. Claimed(t, m, disk)[d] # NoRemote
        BY <2>3, <2>4, ClaimsRemembered
    <2>6. /\ Claimed(t, m, disk)[d] \in DOMAIN t
          /\ d \in Claims(t, m, disk, Claimed(t, m, disk)[d])
        BY <2>3, <2>5, ClaimsRemembered
    <2>7. ASSUME Overlap(d, m[i].path)
          PROVE  FALSE
        <3>1. Claimed(t, m, disk)[d] = x
            BY <1>1, <2>1, <2>3, <2>5, <2>7 DEF Unclaimed
        <3>2. x \in DOMAIN t /\ d = t[x].local
            BY <2>6, <3>1 DEF Claims
        <3> QED
            BY <1>4, <3>2 DEF InOwnPlace
    <2> QED
        BY <1>2, <2>1, <2>7
<1>5. ASSUME NEW x \in DOMAIN new, NEW y \in DOMAIN new, x # y,
             new[x].source = "canonical", new[y].source = "canonical"
      PROVE  ~Overlap(new[x].canon, new[y].canon)
    <2>1. CASE x \in Identities(m) /\ y \in Identities(m)
        BY <1>3, <1>5, <2>1
    <2>2. CASE x \in Identities(m) /\ y \notin Identities(m)
        BY <1>2, <1>4, <1>5, <2>2, OverlapSymmetric
    <2>3. CASE x \notin Identities(m) /\ y \in Identities(m)
        BY <1>2, <1>4, <1>5, <2>3, OverlapSymmetric
    <2>4. CASE x \notin Identities(m) /\ y \notin Identities(m)
        BY <1>2, <1>5, <2>4 DEF Apart
    <2> QED
        BY <2>1, <2>2, <2>3, <2>4
<1> QED
    BY <1>5 DEF Apart, new

\* The rows an import writes have aliases of their own.
LEMMA ChangesOwnAliases ==
    ASSUME NEW t \in Table, NEW m \in Seq(Entry), NEW disk, Distinguished(m)
    PROVE  OwnAliases(Changes(t, m, disk))
<1> DEFINE c == Changes(t, m, disk)
<1>1. /\ DOMAIN c \subseteq Identities(m)
      /\ \A x \in DOMAIN c : c[x] = NewRow(t, m, disk, x)
    BY ChangesRows
<1> HIDE DEF c
<1>2. \A x \in DOMAIN c : c[x].alias = Wanted(m, x).alias
    BY <1>1, NewRowType
<1>3. ASSUME NEW x \in DOMAIN c, NEW y \in DOMAIN c, x # y
      PROVE  c[x].alias # c[y].alias
    <2>1. PICK i \in DOMAIN m : Wanted(m, x) = m[i] /\ m[i].remote = x
        BY <1>1, WantedEntry
    <2>2. PICK j \in DOMAIN m : Wanted(m, y) = m[j] /\ m[j].remote = y
        BY <1>1, WantedEntry
    <2> QED
        BY <1>2, <1>3, <2>1, <2>2 DEF Distinguished
<1> QED
    BY <1>3 DEF OwnAliases, c

-----------------------------------------------------------------------------
(***************************************************************************)
(* A manifest whose entries do not ask for the same twice, nor for what is *)
(* others', has no conflict.                                               *)
(***************************************************************************)

NoteOf(t, disk, e) ==
    [drift |-> Drift(t, disk, e), remote |-> e.remote, alias |-> e.alias, path |-> e.path]

\* After n entries nothing is taken but what they have asked for and what was taken before.
Taking(t, m, disk, acc, n) ==
    /\ acc[n].owner \in [Name -> Owner] /\ acc[n].seen \in [Path -> Owner]
    /\ acc[n].ids \subseteq {m[j].remote : j \in 1..n}
    /\ \A a \in Name : \/ acc[n].owner[a] = AliasOwner(t, m)[a]
                       \/ \E j \in 1..n : m[j].alias = a
    /\ \A d \in Path : \/ acc[n].seen[d] = Claimed(t, m, disk)[d]
                       \/ \E j \in 1..n : m[j].path = d
    /\ acc[n].drifts \in Seq(Note) /\ Len(acc[n].drifts) = n
    /\ \A k \in 1..n : acc[n].drifts[k] = NoteOf(t, disk, m[k])

LEMMA StillFits ==
    ASSUME NEW t, NEW m \in Seq(Entry), NEW disk, NEW acc, NEW n \in 0..Len(m), n < Len(m),
           Distinguished(m), Unclaimed(t, m, disk), Taking(t, m, disk, acc, n),
           Drift(t, disk, m[n + 1]) # "conflicting"
    PROVE  Fits(t, disk, acc[n], m[n + 1])
<1> DEFINE e == m[n + 1]
           a == acc[n]
<1>1. n + 1 \in DOMAIN m /\ \A j \in 1..n : j \in DOMAIN m /\ j # n + 1
    OBVIOUS
<1>2. e \in Entry
    BY <1>1
<1>3. e.remote \in Remote /\ e.alias \in Name /\ e.path \in Path
    BY <1>2 DEF Entry
<1>4. \A j \in 1..n : /\ m[j].remote # e.remote /\ m[j].alias # e.alias
                      /\ ~Overlap(m[j].path, e.path)
    BY <1>1 DEF Distinguished
<1>5. ~Lost(a, e)
    <2>1. e.remote \notin a.ids
        BY <1>4 DEF Taking
    <2> QED
        BY <1>1, <2>1 DEF Lost, Repeated, Unclaimed
<1>6. ~AliasConflict(a, e)
    <2>1. a.owner[e.alias] = AliasOwner(t, m)[e.alias]
        BY <1>3, <1>4 DEF Taking
    <2> QED
        BY <1>1, <2>1 DEF AliasConflict, Taken, Unclaimed
<1>7. ~PathConflict(a, e)
    <2> SUFFICES ASSUME NEW d \in Path, Overlap(d, e.path)
                 PROVE  a.seen[d] \in {NoRemote, e.remote}
        BY DEF PathConflict, PathTaken, Taken
    <2>1. a.seen[d] = Claimed(t, m, disk)[d]
        BY <1>4 DEF Taking
    <2> QED
        BY <1>1, <2>1 DEF Unclaimed
<1> QED
    BY <1>5, <1>6, <1>7 DEF Fits, Clear

LEMMA Appended ==
    ASSUME NEW S, NEW u \in Seq(S), NEW v \in S
    PROVE  LET w == Append(u, v)
           IN  /\ w \in Seq(S) /\ Len(w) = Len(u) + 1 /\ w[Len(u) + 1] = v
               /\ \A k \in 1..Len(u) : w[k] = u[k]
OBVIOUS

LEMMA TakingStep ==
    ASSUME NEW t, NEW m \in Seq(Entry), NEW disk, NEW acc, NEW n \in 0..Len(m), n < Len(m),
           Taking(t, m, disk, acc, n),
           acc[n + 1] = Noted(acc[n], m[n + 1], Drift(t, disk, m[n + 1]), TRUE, TRUE)
    PROVE  Taking(t, m, disk, acc, n + 1)
<1> DEFINE e == m[n + 1]
           a == acc[n]
           b == acc[n + 1]
<1>1. /\ n + 1 \in DOMAIN m /\ n \in Nat /\ n + 1 \in 1..(n + 1)
      /\ \A j \in 1..n : j \in 1..(n + 1)
    OBVIOUS
<1>2. e \in Entry
    BY <1>1
<1>3. e.remote \in Remote /\ e.alias \in Name /\ e.path \in Path
    BY <1>2 DEF Entry
<1>4. /\ b.ids = a.ids \cup {e.remote}
      /\ b.owner = [a.owner EXCEPT ![e.alias] = e.remote]
      /\ b.seen = [a.seen EXCEPT ![e.path] = e.remote]
      /\ b.drifts = Append(a.drifts, NoteOf(t, disk, e))
    BY DEF Noted, NoteOf
<1>5. /\ a.owner \in [Name -> Owner] /\ a.seen \in [Path -> Owner]
      /\ a.drifts \in Seq(Note) /\ Len(a.drifts) = n
    BY DEF Taking
<1>6. b.owner \in [Name -> Owner] /\ b.seen \in [Path -> Owner]
    <2>1. e.remote \in Owner
        BY <1>3 DEF Owner
    <2> QED
        BY <1>3, <1>4, <1>5, <2>1
<1>7. b.ids \subseteq {m[j].remote : j \in 1..(n + 1)}
    <2> SUFFICES ASSUME NEW x \in b.ids
                 PROVE  \E j \in 1..(n + 1) : x = m[j].remote
        OBVIOUS
    <2>1. x = e.remote \/ x \in {m[j].remote : j \in 1..n}
        BY <1>4 DEF Taking
    <2> QED
        BY <1>1, <2>1
<1>8. ASSUME NEW k \in Name
      PROVE  b.owner[k] = AliasOwner(t, m)[k] \/ \E j \in 1..(n + 1) : m[j].alias = k
    <2>1. CASE k = e.alias
        BY <1>1, <2>1
    <2>2. CASE k # e.alias
        <3>1. b.owner[k] = a.owner[k]
            BY <1>4, <1>5, <2>2
        <3>2. a.owner[k] = AliasOwner(t, m)[k] \/ \E j \in 1..n : m[j].alias = k
            BY DEF Taking
        <3> QED
            BY <1>1, <3>1, <3>2
    <2> QED
        BY <2>1, <2>2
<1>9. ASSUME NEW d \in Path
      PROVE  b.seen[d] = Claimed(t, m, disk)[d] \/ \E j \in 1..(n + 1) : m[j].path = d
    <2>1. CASE d = e.path
        BY <1>1, <2>1
    <2>2. CASE d # e.path
        <3>1. b.seen[d] = a.seen[d]
            BY <1>4, <1>5, <2>2
        <3>2. a.seen[d] = Claimed(t, m, disk)[d] \/ \E j \in 1..n : m[j].path = d
            BY DEF Taking
        <3> QED
            BY <1>1, <3>1, <3>2
    <2> QED
        BY <2>1, <2>2
<1>10. NoteOf(t, disk, e) \in Note
    BY <1>3, DriftWords DEF NoteOf, Note
<1>11. /\ b.drifts \in Seq(Note) /\ Len(b.drifts) = n + 1
       /\ b.drifts[n + 1] = NoteOf(t, disk, e)
       /\ \A k \in 1..n : b.drifts[k] = a.drifts[k]
    <2> DEFINE s == a.drifts
               v == NoteOf(t, disk, e)
    <2>1. s \in Seq(Note) /\ Len(s) = n /\ v \in Note /\ b.drifts = Append(s, v)
        BY <1>4, <1>5, <1>10
    <2> HIDE DEF s, v
    <2>2. LET w == Append(s, v)
          IN  /\ w \in Seq(Note) /\ Len(w) = Len(s) + 1 /\ w[Len(s) + 1] = v
              /\ \A k \in 1..Len(s) : w[k] = s[k]
        BY <2>1, Appended
    <2>3. /\ b.drifts \in Seq(Note) /\ Len(b.drifts) = n + 1 /\ b.drifts[n + 1] = v
          /\ \A k \in 1..n : b.drifts[k] = s[k]
        BY <2>1, <2>2
    <2> QED
        BY <2>3 DEF s, v
<1>12. ASSUME NEW k \in 1..(n + 1)
       PROVE  b.drifts[k] = NoteOf(t, disk, m[k])
    <2>1. CASE k = n + 1
        BY <1>11, <2>1
    <2>2. CASE k # n + 1
        <3>1. k \in 1..n
            BY <1>1, <2>2
        <3> QED
            BY <1>11, <3>1 DEF Taking
    <2> QED
        BY <2>1, <2>2
<1> QED
    BY <1>6, <1>7, <1>8, <1>9, <1>11, <1>12 DEF Taking

LEMMA PlanFits ==
    ASSUME NEW t \in Table, IsFiniteSet(DOMAIN t), NEW m \in Seq(Entry), NEW disk,
           Distinguished(m), Unclaimed(t, m, disk),
           \A i \in DOMAIN m : Drift(t, disk, m[i]) # "conflicting"
    PROVE  LET plan == BuildDryRunPlan(t, m, disk)
           IN  /\ ~Conflicting(plan) /\ ~Conflicting(PlanImport(t, m, disk))
               /\ \A i \in DOMAIN plan : i \in DOMAIN m /\ plan[i] = NoteOf(t, disk, m[i])
<1>1. PICK acc : DriftAccs(t, m, disk, acc)
    BY DriftAccsExist
<1> DEFINE T == {n \in Nat : n <= Len(m) => Taking(t, m, disk, acc, n)}
<1>2. 0 \in T
    <2>1. DOMAIN t \subseteq Remote
        BY DEF Table
    <2>2. /\ acc[0].ids = {} /\ acc[0].owner = AliasOwner(t, m)
          /\ acc[0].seen = Claimed(t, m, disk) /\ acc[0].drifts = <<>>
        BY <1>1 DEF DriftAccs, Start
    <2>3. /\ AliasOwner(t, m) \in [Name -> Owner] /\ Claimed(t, m, disk) \in [Path -> Owner]
        BY <2>1, OwnersTyped, ClaimsRemembered
    <2>4. acc[0].drifts \in Seq(Note) /\ Len(acc[0].drifts) = 0 /\ 1..0 = {}
        BY <2>2
    <2> QED
        BY <2>2, <2>3, <2>4 DEF Taking
<1>3. ASSUME NEW n \in Nat, n \in T
      PROVE  n + 1 \in T
    <2> SUFFICES ASSUME n + 1 <= Len(m)
                 PROVE  Taking(t, m, disk, acc, n + 1)
        OBVIOUS
    <2>1. /\ n \in 0..Len(m) /\ n < Len(m) /\ n + 1 \in 1..Len(m) /\ (n + 1) - 1 = n
          /\ n + 1 \in DOMAIN m /\ Taking(t, m, disk, acc, n)
        BY <1>3
    <2>2. Fits(t, disk, acc[n], m[n + 1])
        BY <2>1, StillFits
    <2>3. acc[n + 1] = DriftStep(t, disk, acc[n], m[n + 1])
        BY <1>1, <2>1 DEF DriftAccs
    <2>4. DriftStep(t, disk, acc[n], m[n + 1])
             = Noted(acc[n], m[n + 1], Drift(t, disk, m[n + 1]), TRUE, TRUE)
        BY <2>2, FittingStep
    <2>5. acc[n + 1] = Noted(acc[n], m[n + 1], Drift(t, disk, m[n + 1]), TRUE, TRUE)
        BY <2>3, <2>4
    <2> QED
        BY <2>1, <2>5, TakingStep
<1> HIDE DEF T
<1>4. Len(m) \in T
    BY <1>2, <1>3, NatInduct
<1>5. Taking(t, m, disk, acc, Len(m))
    BY <1>4 DEF T
<1> DEFINE plan == BuildDryRunPlan(t, m, disk)
<1>6. plan = acc[Len(m)].drifts
    BY <1>1 DEF DriftAccs
<1> HIDE DEF plan
<1>7. \A i \in DOMAIN plan : i \in DOMAIN m /\ plan[i] = NoteOf(t, disk, m[i])
    BY <1>5, <1>6 DEF Taking
<1>8. ~Conflicting(plan)
    BY <1>7 DEF Conflicting, NoteOf
<1> QED
    BY <1>7, <1>8, PlansAgree DEF plan
=============================================================================
