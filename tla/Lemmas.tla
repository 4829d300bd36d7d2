------------------------------- MODULE Lemmas -------------------------------
(***************************************************************************)
(* What the proofs of several modules rest on.                             *)
(*                                                                         *)
(* Induction and recursion: a property to be proved by induction is given  *)
(* as the set of the numbers that have it, and a function to be defined by *)
(* recursion by the functions its steps apply, so that every lemma is      *)
(* about sets and functions only.                                          *)
(*                                                                         *)
(* The filter of Lists, and the SQL statements of Tables for any table:    *)
(* what they leave in it, and that none of them reorders the rows it keeps.*)
(***************************************************************************)
EXTENDS Tables, Lists, NaturalsInduction, WellFoundedInduction, TLAPS

\* A set of naturals that is not empty has a least element.
LEMMA EarliestExists ==
    ASSUME NEW T, T \subseteq Nat, T # {}
    PROVE  \E x \in T : \A y \in T : x <= y
<1> DEFINE R == OpToRel(<, Nat)
<1>1. IsWellFoundedOn(R, Nat)
  BY NatLessThanWellFounded
<1>2. \A x, y \in Nat : y < x => <<y, x>> \in R
  BY DEF OpToRel
<1> HIDE DEF R
<1>3. PICK x \in T : \A y \in T : ~ (<<y, x>> \in R)
  BY <1>1, WFMin
<1>4. ASSUME NEW y \in T PROVE x <= y
  <2>1. x \in Nat /\ y \in Nat
    OBVIOUS
  <2>2. ~ (y < x)
    BY <1>2, <1>3, <2>1
  <2> QED
    BY <2>1, <2>2
<1> QED
  BY <1>4

\* Induction, for a property given as a set.
LEMMA InductionUpTo ==
    ASSUME NEW n \in Nat, NEW T, 0 \in T, \A i \in 0..(n - 1) : i \in T => i + 1 \in T
    PROVE  0..n \subseteq T
<1> SUFFICES ASSUME NEW m \in 0..n, m \notin T PROVE FALSE
  OBVIOUS
<1> DEFINE B == {i \in Nat : i <= n /\ i \notin T}
<1>1. m \in B /\ B \subseteq Nat
  OBVIOUS
<1>2. PICK x \in B : \A y \in B : x <= y
  BY <1>1, EarliestExists
<1>3. x \in Nat /\ x # 0 /\ x <= n
  OBVIOUS
<1>4. x - 1 \in 0..(n - 1) /\ x - 1 \notin B
  BY <1>2, <1>3
<1>5. x - 1 \in T
  BY <1>3, <1>4
<1>6. (x - 1) + 1 \in T
  BY <1>4, <1>5
<1> QED
  BY <1>3, <1>6

\* What the function that a recursion over 0..n defines satisfies: start is its
\* value at 0, step[i][v] its value at i when v is the one before.
Follows(f, n, V, start, step) ==
    /\ f \in [0..n -> V] /\ f[0] = start
    /\ \A i \in 1..n : f[i] = step[i][f[i - 1]]

\* There is one.
LEMMA RecursionExists ==
    ASSUME NEW n \in Nat, NEW V, NEW start \in V, NEW step \in [1..n -> [V -> V]]
    PROVE  \E f : Follows(f, n, V, start, step)
<1> DEFINE Upto(m, f) == /\ f \in [0..m -> V] /\ f[0] = start
                         /\ \A i \in 1..m : f[i] = step[i][f[i - 1]]
           T == {m \in 0..n : \E f \in [0..m -> V] : Upto(m, f)}
<1>1. 0 \in T
  <2> DEFINE f == [i \in 0..0 |-> start]
  <2>1. f \in [0..0 -> V] /\ f[0] = start
    OBVIOUS
  <2> HIDE DEF f
  <2>2. Upto(0, f)
    BY <2>1
  <2>3. \E ff \in [0..0 -> V] : Upto(0, ff)
    BY <2>1, <2>2
  <2> HIDE DEF Upto
  <2> QED
    BY <2>3
<1>2. ASSUME NEW m \in 0..(n - 1), m \in T
      PROVE  m + 1 \in T
  <2>1. PICK f \in [0..m -> V] : Upto(m, f)
    BY <1>2
  <2> DEFINE g == [i \in 0..(m + 1) |-> IF i = m + 1 THEN step[m + 1][f[m]] ELSE f[i]]
  <2>2. m + 1 \in 1..n /\ f[m] \in V /\ step[m + 1][f[m]] \in V
    BY <2>1
  <2>3. \A i \in 0..m : g[i] = f[i] /\ f[i] \in V
    BY <2>1
  <2>4. g[m + 1] = step[m + 1][f[m]]
    OBVIOUS
  <2>5. g \in [0..(m + 1) -> V]
    BY <2>2, <2>3, <2>4
  <2> HIDE DEF g
  <2>6. \A i \in 1..(m + 1) : g[i] = step[i][g[i - 1]]
    <3> SUFFICES ASSUME NEW i \in 1..(m + 1) PROVE g[i] = step[i][g[i - 1]]
      OBVIOUS
    <3>1. CASE i = m + 1
      BY <2>3, <2>4, <3>1
    <3>2. CASE i # m + 1
      <4>1. i \in 1..m /\ i \in 0..m /\ i - 1 \in 0..m
        BY <3>2
      <4> QED
        BY <2>1, <2>3, <4>1
    <3> QED
      BY <3>1, <3>2
  <2>7. g[0] = start
    BY <2>1, <2>3
  <2> QED
    BY <2>2, <2>5, <2>6, <2>7
<1> HIDE DEF T
<1>3. 0..n \subseteq T
  <2>1. \A m \in 0..(n - 1) : m \in T => m + 1 \in T
    BY <1>2
  <2> QED
    BY <1>1, <2>1, InductionUpTo, Zenon
<1> QED
  <2>1. n \in T
    BY <1>3
  <2> QED
    BY <2>1 DEF T, Follows

-----------------------------------------------------------------------------
(* The filter of Lists.                                                    *)

\* Its loop: what it has kept of the first i elements.
FilterLoop(s, keep) ==
    CHOOSE kept : kept = [i \in 0..Len(s) |->
        IF i = 0 THEN <<>>
        ELSE IF s[i] \in keep THEN Append(kept[i - 1], s[i]) ELSE kept[i - 1]]

\* The filter is what its loop has kept in the end.
LEMMA FilterIsLoop ==
    ASSUME NEW s, NEW keep
    PROVE  FilterSeq(s, keep) = FilterLoop(s, keep)[Len(s)]
BY DEF FilterSeq, FilterLoop

\* The loop satisfies its recursion.
LEMMA FilterLoopDef ==
    ASSUME NEW S, NEW s \in Seq(S), NEW keep
    PROVE  /\ FilterLoop(s, keep) \in [0..Len(s) -> Seq(S)]
           /\ FilterLoop(s, keep)[0] = <<>>
           /\ \A i \in 1..Len(s) :
                 FilterLoop(s, keep)[i] = IF s[i] \in keep THEN Append(FilterLoop(s, keep)[i - 1], s[i])
                                                     ELSE FilterLoop(s, keep)[i - 1]
<1> DEFINE n == Len(s)
           none == <<>>
           Step(v, i) == IF s[i] \in keep THEN Append(v, s[i]) ELSE v
           step == [i \in 1..n |-> [v \in Seq(S) |-> Step(v, i)]]
<1>1. n \in Nat /\ \A i \in 1..n : s[i] \in S
  OBVIOUS
<1>2. step \in [1..n -> [Seq(S) -> Seq(S)]]
  BY <1>1
<1>3. \A v \in Seq(S), i \in 1..n : step[i][v] = Step(v, i)
  OBVIOUS
<1>a. none \in Seq(S)
  OBVIOUS
<1> HIDE DEF step, n, none
<1>4. PICK f \in [0..n -> Seq(S)] :
         f[0] = none /\ \A i \in 1..n : f[i] = step[i][f[i - 1]]
  <2> DEFINE V == Seq(S)
  <2>1. n \in Nat /\ none \in V /\ step \in [1..n -> [V -> V]]
    BY <1>1, <1>2, <1>a
  <2> HIDE DEF V
  <2>2. \E f : Follows(f, n, V, none, step)
    BY <2>1, RecursionExists
  <2> QED
    BY <2>2 DEF V, Follows
<1>5. f = [i \in 0..Len(s) |->
             IF i = 0 THEN none
             ELSE IF s[i] \in keep THEN Append(f[i - 1], s[i]) ELSE f[i - 1]]
  <2>1. \A i \in 0..n : i # 0 => i \in 1..n /\ f[i - 1] \in Seq(S)
    BY <1>1, <1>4
  <2> QED
    BY <1>1, <1>3, <1>4, <2>1 DEF n
<1> DEFINE kept == FilterLoop(s, keep)
           Body(k) == [i \in 0..n |-> IF i = 0 THEN none ELSE Step(k[i - 1], i)]
<1>6. kept = Body(kept)
  BY <1>5 DEF FilterLoop, none, n
<1> HIDE DEF kept
<1>7. /\ kept[0] = none
      /\ \A i \in 1..n : kept[i] = Step(kept[i - 1], i)
  <2> HIDE DEF Step
  <2> QED
    BY <1>1, <1>6
<1>8. kept = [i \in 0..n |-> kept[i]]
  BY <1>6
<1> DEFINE T == {i \in 0..n : kept[i] \in Seq(S)}
<1>9. 0 \in T
  BY <1>1, <1>a, <1>7
<1>10. \A i \in 0..(n - 1) : i \in T => i + 1 \in T
  <2> SUFFICES ASSUME NEW i \in 0..(n - 1), kept[i] \in Seq(S) PROVE kept[i + 1] \in Seq(S)
    BY <1>1
  <2>1. i + 1 \in 1..n /\ (i + 1) - 1 = i
    BY <1>1
  <2>2. kept[i + 1] = Step(kept[i], i + 1) /\ s[i + 1] \in S
    BY <1>1, <1>7, <2>1
  <2> QED
    BY <2>2
<1>11. 0..n \subseteq T
  <2> HIDE DEF T
  <2> QED
    BY <1>1, <1>9, <1>10, InductionUpTo
<1>12. kept \in [0..n -> Seq(S)]
  BY <1>8, <1>11
<1> QED
  BY <1>7, <1>12 DEF kept, n, none

\* Filtering a list gives a list of the same kind of elements.
LEMMA FilterType ==
    ASSUME NEW S, NEW s \in Seq(S), NEW keep
    PROVE  FilterSeq(s, keep) \in Seq(S)
<1>1. FilterLoop(s, keep) \in [0..Len(s) -> Seq(S)]
  BY FilterLoopDef
<1>2. Len(s) \in 0..Len(s)
  OBVIOUS
<1> QED
  BY <1>1, <1>2, FilterIsLoop

\* A list all of whose elements are kept is left as it is.
LEMMA FilterAll ==
    ASSUME NEW S, NEW s \in Seq(S), NEW keep, \A i \in 1..Len(s) : s[i] \in keep
    PROVE  FilterSeq(s, keep) = s
<1> DEFINE n == Len(s)
           kept == FilterLoop(s, keep)
           T == {i \in 0..n : Len(kept[i]) = i /\ \A j \in 1..i : kept[i][j] = s[j]}
<1>1. /\ kept \in [0..n -> Seq(S)] /\ kept[0] = <<>> /\ n \in Nat
      /\ \A i \in 1..n : kept[i] = Append(kept[i - 1], s[i]) /\ s[i] \in S
  <2>1. /\ kept \in [0..n -> Seq(S)] /\ kept[0] = <<>>
        /\ \A i \in 1..n : kept[i] = IF s[i] \in keep THEN Append(kept[i - 1], s[i])
                                                      ELSE kept[i - 1]
    BY FilterLoopDef
  <2>2. n \in Nat /\ \A i \in 1..n : s[i] \in S /\ s[i] \in keep
    OBVIOUS
  <2> HIDE DEF kept, n
  <2> QED
    BY <2>1, <2>2
<1> HIDE DEF kept, n
<1>2. 0 \in T
  BY <1>1
<1>3. \A i \in 0..(n - 1) : i \in T => i + 1 \in T
  <2> SUFFICES ASSUME NEW i \in 0..(n - 1), i \in T PROVE i + 1 \in T
    OBVIOUS
  <2>1. /\ i + 1 \in 1..n /\ i \in 0..n /\ (i + 1) - 1 = i
        /\ kept[i] \in Seq(S) /\ Len(kept[i]) = i
    BY <1>1
  <2>2. kept[i + 1] = Append(kept[i], s[i + 1]) /\ s[i + 1] \in S
    BY <1>1, <2>1
  <2>3. Len(kept[i + 1]) = i + 1
    BY <2>1, <2>2
  <2>4. \A j \in 1..(i + 1) : kept[i + 1][j] = s[j]
    BY <2>1, <2>2
  <2> QED
    BY <2>1, <2>3, <2>4
<1>4. 0..n \subseteq T
  <2> HIDE DEF T
  <2> QED
    BY <1>1, <1>2, <1>3, InductionUpTo
<1>5. n \in T /\ n \in 0..n
  BY <1>1, <1>4
<1>6. Len(kept[n]) = n /\ \A j \in 1..n : kept[n][j] = s[j]
  BY <1>5
<1>7. kept[n] \in Seq(S) /\ s \in Seq(S) /\ Len(s) = n
  BY <1>1, <1>5 DEF n
<1>8. kept[n] = s
  BY <1>6, <1>7
<1> QED
  BY <1>8, FilterIsLoop DEF kept, n

\* What a filtered list holds are elements of the list that are kept.
LEMMA FilterRange ==
    ASSUME NEW S, NEW s \in Seq(S), NEW keep, NEW j \in DOMAIN FilterSeq(s, keep)
    PROVE  \E i \in 1..Len(s) : FilterSeq(s, keep)[j] = s[i] /\ s[i] \in keep
<1> DEFINE n == Len(s)
           kept == FilterLoop(s, keep)
           Good == {x \in S \cap keep : \E i \in 1..n : x = s[i]}
           T == {i \in 0..n : kept[i] \in Seq(Good)}
<1>1. /\ kept \in [0..n -> Seq(S)] /\ kept[0] = <<>> /\ n \in Nat
      /\ \A i \in 1..n : kept[i] = IF s[i] \in keep THEN Append(kept[i - 1], s[i])
                                                    ELSE kept[i - 1]
      /\ \A i \in 1..n : s[i] \in S
  BY FilterLoopDef
<1>g. \A i \in 1..n : s[i] \in keep => s[i] \in Good
  BY <1>1
<1> HIDE DEF kept, n
<1>2. 0 \in T
  <2> HIDE DEF Good
  <2> QED
    BY <1>1
<1>3. \A i \in 0..(n - 1) : i \in T => i + 1 \in T
  <2> HIDE DEF Good
  <2> SUFFICES ASSUME NEW i \in 0..(n - 1), i \in T PROVE i + 1 \in T
    OBVIOUS
  <2>1. i + 1 \in 1..n /\ i + 1 \in 0..n /\ (i + 1) - 1 = i /\ kept[i] \in Seq(Good)
    BY <1>1
  <2>2. CASE s[i + 1] \in keep
    <3>1. kept[i + 1] = Append(kept[i], s[i + 1]) /\ s[i + 1] \in Good
      BY <1>1, <1>g, <2>1, <2>2
    <3>2. Append(kept[i], s[i + 1]) \in Seq(Good)
      BY <2>1, <3>1
    <3> QED
      BY <2>1, <3>1, <3>2
  <2>3. CASE s[i + 1] \notin keep
    BY <1>1, <2>1, <2>3
  <2> QED
    BY <2>2, <2>3
<1>4. 0..n \subseteq T
  <2> HIDE DEF T
  <2> QED
    BY <1>1, <1>2, <1>3, InductionUpTo
<1>5. kept[n] \in Seq(Good)
  BY <1>1, <1>4
<1>6. FilterSeq(s, keep) = kept[n]
  BY FilterIsLoop DEF kept, n
<1>7. FilterSeq(s, keep)[j] \in Good
  <2> HIDE DEF Good
  <2> QED
    BY <1>5, <1>6
<1> QED
  BY <1>7 DEF n

-----------------------------------------------------------------------------
(* The statements of Tables.                                               *)

\* Every row of t is in u, under some name; or every row but that of name.
KeepsAllRows(t, u) == \A n \in DOMAIN t : \E k \in DOMAIN u : u[k].id = t[n].id

KeepsRows(t, u, name) ==
    \A n \in DOMAIN t \ {name} : \E k \in DOMAIN u : u[k].id = t[n].id

\* An upsert gives a new row the next id, keeps the place of an old one, and
\* loses none.
LEMMA UpsertOrder ==
    ASSUME NEW S, NEW R, NEW t, IsTable(t, S, R), NEW name \in S,
           NEW rec \in R, NEW pos \in Positions, NEW id \in Nat, DistinctIds(t, id)
    PROVE  /\ DistinctIds(Upsert(t, name, rec, pos, id), NextId(t, name, id))
           /\ KeepsOrder(t, Upsert(t, name, rec, pos, id))
           /\ KeepsAllRows(t, Upsert(t, name, rec, pos, id))
<1> DEFINE u == Upsert(t, name, rec, pos, id)
<1>1. /\ DOMAIN u = DOMAIN t \cup {name}
      /\ \A n \in DOMAIN t : u[n].id = t[n].id /\ u[n].pos = t[n].pos
      /\ name \notin DOMAIN t => u[name].id = id
  BY DEF Upsert, IsTable
<1> HIDE DEF u
<1>2. DistinctIds(u, NextId(t, name, id))
  BY <1>1 DEF DistinctIds, NextId
<1>3. ASSUME NEW n \in DOMAIN t, NEW k \in DOMAIN u, t[n].id = u[k].id
      PROVE  k = n
  BY <1>1, <1>3 DEF DistinctIds
<1>4. KeepsOrder(t, u)
  BY <1>1, <1>3 DEF KeepsOrder, Before
<1>5. KeepsAllRows(t, u)
  BY <1>1 DEF KeepsAllRows
<1> QED
  BY <1>2, <1>4, <1>5 DEF u

\* So does a rename: the row keeps its id and its position.
LEMMA RenameOrder ==
    ASSUME NEW S, NEW R, NEW t, IsTable(t, S, R), NEW old, NEW new \in S,
           NEW rec \in R, NEW id \in Nat, DistinctIds(t, id), ~ RenameConflict(t, old, new)
    PROVE  /\ DistinctIds(RenameRow(t, old, new, rec), id)
           /\ KeepsOrder(t, RenameRow(t, old, new, rec))
           /\ KeepsAllRows(t, RenameRow(t, old, new, rec))
<1> DEFINE u == RenameRow(t, old, new, rec)
           Moved(n) == IF n = old THEN new ELSE n
<1>1. CASE old \notin DOMAIN t
  <2>1. u = t
    BY <1>1 DEF RenameRow
  <2>2. KeepsOrder(t, t)
    BY DEF KeepsOrder, Before, DistinctIds
  <2>3. KeepsAllRows(t, t)
    BY DEF KeepsAllRows
  <2> QED
    BY <2>1, <2>2, <2>3
<1>2. CASE old \in DOMAIN t
  <2>1. /\ DOMAIN u = (DOMAIN t \ {old}) \cup {new}
        /\ \A n \in DOMAIN t : /\ Moved(n) \in DOMAIN u
                               /\ u[Moved(n)].id = t[n].id
                               /\ u[Moved(n)].pos = t[n].pos
        /\ \A k \in DOMAIN u : \E n \in DOMAIN t : k = Moved(n)
    BY <1>2 DEF RenameRow, RenameConflict, IsTable
  <2>2. \A m, n \in DOMAIN t : Moved(m) = Moved(n) => m = n
    BY <1>2 DEF RenameConflict
  <2> HIDE DEF u, Moved
  <2>3. DistinctIds(u, id)
    <3>1. ASSUME NEW k \in DOMAIN u
          PROVE  u[k].id \in Nat /\ u[k].id < id
      <4>1. PICK n \in DOMAIN t : k = Moved(n)
        BY <2>1
      <4>2. u[k].id = t[n].id
        BY <2>1, <4>1
      <4> QED
        BY <4>2 DEF DistinctIds
    <3>2. ASSUME NEW k \in DOMAIN u, NEW l \in DOMAIN u, u[k].id = u[l].id
          PROVE  k = l
      <4>1. PICK m \in DOMAIN t : k = Moved(m)
        BY <2>1
      <4>2. PICK n \in DOMAIN t : l = Moved(n)
        BY <2>1
      <4>3. t[m].id = t[n].id
        BY <2>1, <3>2, <4>1, <4>2
      <4> QED
        BY <4>1, <4>2, <4>3 DEF DistinctIds
    <3> QED
      BY <3>1, <3>2 DEF DistinctIds
  <2>4. ASSUME NEW n \in DOMAIN t, NEW k \in DOMAIN u, t[n].id = u[k].id
        PROVE  k = Moved(n)
    BY <2>1, <2>4 DEF DistinctIds
  <2>5. KeepsOrder(t, u)
    BY <2>1, <2>4 DEF KeepsOrder, Before
  <2>6. KeepsAllRows(t, u)
    BY <2>1 DEF KeepsAllRows
  <2> QED
    BY <2>3, <2>5, <2>6 DEF u
<1> QED
  BY <1>1, <1>2

\* A deletion loses one row and moves none.
LEMMA DeleteOrder ==
    ASSUME NEW S, NEW R, NEW t, IsTable(t, S, R), NEW name, NEW id \in Nat,
           DistinctIds(t, id)
    PROVE  /\ DistinctIds(DeleteRow(t, name), id)
           /\ KeepsOrder(t, DeleteRow(t, name))
           /\ KeepsRows(t, DeleteRow(t, name), name)
BY DEF DeleteRow, DistinctIds, KeepsOrder, KeepsRows, Before, IsTable

\* What is left as it was is in order.
LEMMA SameOrder ==
    ASSUME NEW t, NEW id, DistinctIds(t, id)
    PROVE  KeepsOrder(t, t)
BY DEF KeepsOrder, Before, DistinctIds

\* An upsert of a record under a name leaves a table.
LEMMA UpsertTable ==
    ASSUME NEW S, NEW R, NEW t, IsTable(t, S, R), NEW name \in S, NEW rec \in R,
           NEW pos \in Positions, NEW id \in Nat
    PROVE  IsTable(Upsert(t, name, rec, pos, id), S, R)
BY DEF Upsert, IsTable

\* So does a rename.
LEMMA RenameTable ==
    ASSUME NEW S, NEW R, NEW t, IsTable(t, S, R), NEW old, NEW new \in S, NEW rec \in R
    PROVE  IsTable(RenameRow(t, old, new, rec), S, R)
<1>1. CASE old \notin DOMAIN t
  BY <1>1 DEF RenameRow
<1>2. CASE old \in DOMAIN t
  BY <1>2 DEF RenameRow, IsTable
<1> QED
  BY <1>1, <1>2

\* And a deletion.
LEMMA DeleteTable ==
    ASSUME NEW S, NEW R, NEW t, IsTable(t, S, R), NEW name
    PROVE  IsTable(DeleteRow(t, name), S, R)
BY DEF DeleteRow, IsTable
=============================================================================
