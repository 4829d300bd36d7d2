--------------------------- MODULE PipelineProofs ---------------------------
(***************************************************************************)
(* Proofs about Pipeline: for any store, with or without circles, any      *)
(* operators and any sources out of reach, the stack of conversions gives  *)
(* an answer that the recursive reading of the store gives too; and only a *)
(* circle of sources uses the goroutine's stack up.                        *)
(***************************************************************************)
EXTENDS Pipeline, Lemmas, FiniteSetTheorems

-----------------------------------------------------------------------------
(* The recursions of the reference.                                        *)

\* What the first i operators make of the outcomes.
DoneUpTo(outcomes, ops, meaning) ==
    CHOOSE done : done = [i \in 0..Len(ops) |->
        IF i = 0 THEN outcomes ELSE After(done[i - 1], ops[i], meaning)]

\* The outcomes of the first i members.
GatheredUpTo(names, meaning) ==
    CHOOSE all : all = [i \in 0..Len(names) |->
        IF i = 0 THEN {Ok(<<>>)} ELSE With(all[i - 1], names[i], meaning)]

\* The operators follow their recursion.
LEMMA OperatedIs ==
    ASSUME NEW outcomes, NEW ops, NEW meaning, Len(ops) \in Nat
    PROVE  /\ Operated(outcomes, ops, meaning) = DoneUpTo(outcomes, ops, meaning)[Len(ops)]
           /\ DoneUpTo(outcomes, ops, meaning)[0] = outcomes
           /\ \A i \in 1..Len(ops) :
                 DoneUpTo(outcomes, ops, meaning)[i]
                    = After(DoneUpTo(outcomes, ops, meaning)[i - 1], ops[i], meaning)
<1> DEFINE n == Len(ops)
           St(v, i) == After(v, ops[i], meaning)
           Body(f, i) == IF i = 0 THEN outcomes ELSE St(f[i - 1], i)
           T == {m \in 0..n : \E f : f = [i \in 0..m |-> Body(f, i)]}
           done == DoneUpTo(outcomes, ops, meaning)
<1> HIDE DEF St
<1>1. 0 \in T
  <2> DEFINE f == [i \in 0..0 |-> outcomes]
  <2>1. f = [i \in 0..0 |-> Body(f, i)]
    OBVIOUS
  <2> HIDE DEF f
  <2> QED
    BY <2>1
<1>2. \A m \in 0..(n - 1) : m \in T => m + 1 \in T
  <2> SUFFICES ASSUME NEW m \in 0..(n - 1), NEW f, f = [i \in 0..m |-> Body(f, i)]
               PROVE  \E g : g = [i \in 0..(m + 1) |-> Body(g, i)]
    OBVIOUS
  <2> DEFINE g == [i \in 0..(m + 1) |-> IF i = m + 1 THEN St(f[m], m + 1) ELSE f[i]]
  <2>1. \A i \in 0..m : g[i] = f[i] /\ f[i] = Body(f, i)
    <3> HIDE DEF Body
    <3> QED
      OBVIOUS
  <2>2. g[m + 1] = St(g[m], m + 1)
    OBVIOUS
  <2>3. \A i \in 0..(m + 1) : g[i] = Body(g, i)
    <3> SUFFICES ASSUME NEW i \in 0..(m + 1) PROVE g[i] = Body(g, i)
      OBVIOUS
    <3> HIDE DEF g
    <3>1. CASE i = 0
      BY <2>1, <3>1
    <3>2. CASE i \in 1..m
      BY <2>1, <3>2
    <3>3. CASE i = m + 1
      BY <2>2, <3>3
    <3> QED
      BY <3>1, <3>2, <3>3
  <2>4. g = [i \in 0..(m + 1) |-> g[i]]
    OBVIOUS
  <2>5. g = [i \in 0..(m + 1) |-> Body(g, i)]
    <3> HIDE DEF g, Body
    <3> QED
      BY <2>3, <2>4
  <2> QED
    BY <2>5
<1>3. n \in T
  <2>1. n \in Nat
    OBVIOUS
  <2> HIDE DEF n, T
  <2>2. 0..n \subseteq T
    BY <1>1, <1>2, <2>1, InductionUpTo
  <2> QED
    BY <2>1, <2>2
<1>4. done = [i \in 0..n |-> Body(done, i)]
  BY <1>3 DEF DoneUpTo, St
<1>5. Operated(outcomes, ops, meaning) = done[n]
  BY DEF Operated, DoneUpTo
<1>6. \A i \in 0..n : done[i] = Body(done, i)
  <2> HIDE DEF done, Body
  <2> QED
    BY <1>4
<1>7. done[0] = outcomes /\ \A i \in 1..n : done[i] = St(done[i - 1], i)
  <2> HIDE DEF done
  <2> QED
    BY <1>6
<1> QED
  BY <1>5, <1>7 DEF St

\* So do the members.
LEMMA GatheredIs ==
    ASSUME NEW names, NEW meaning, Len(names) \in Nat
    PROVE  /\ Gathered(names, meaning) = GatheredUpTo(names, meaning)[Len(names)]
           /\ GatheredUpTo(names, meaning)[0] = {Ok(<<>>)}
           /\ \A i \in 1..Len(names) :
                 GatheredUpTo(names, meaning)[i]
                    = With(GatheredUpTo(names, meaning)[i - 1], names[i], meaning)
<1> DEFINE n == Len(names)
           none == {Ok(<<>>)}
           St(v, i) == With(v, names[i], meaning)
           Body(f, i) == IF i = 0 THEN none ELSE St(f[i - 1], i)
           T == {m \in 0..n : \E f : f = [i \in 0..m |-> Body(f, i)]}
           all == GatheredUpTo(names, meaning)
<1> HIDE DEF St, none
<1>1. 0 \in T
  <2> DEFINE f == [i \in 0..0 |-> none]
  <2>1. f = [i \in 0..0 |-> Body(f, i)]
    OBVIOUS
  <2> HIDE DEF f
  <2> QED
    BY <2>1
<1>2. \A m \in 0..(n - 1) : m \in T => m + 1 \in T
  <2> SUFFICES ASSUME NEW m \in 0..(n - 1), NEW f, f = [i \in 0..m |-> Body(f, i)]
               PROVE  \E g : g = [i \in 0..(m + 1) |-> Body(g, i)]
    OBVIOUS
  <2> DEFINE g == [i \in 0..(m + 1) |-> IF i = m + 1 THEN St(f[m], m + 1) ELSE f[i]]
  <2>1. \A i \in 0..m : g[i] = f[i] /\ f[i] = Body(f, i)
    <3> HIDE DEF Body
    <3> QED
      OBVIOUS
  <2>2. g[m + 1] = St(g[m], m + 1)
    OBVIOUS
  <2>3. \A i \in 0..(m + 1) : g[i] = Body(g, i)
    <3> SUFFICES ASSUME NEW i \in 0..(m + 1) PROVE g[i] = Body(g, i)
      OBVIOUS
    <3> HIDE DEF g
    <3>1. CASE i = 0
      BY <2>1, <3>1
    <3>2. CASE i \in 1..m
      BY <2>1, <3>2
    <3>3. CASE i = m + 1
      BY <2>2, <3>3
    <3> QED
      BY <3>1, <3>2, <3>3
  <2>4. g = [i \in 0..(m + 1) |-> g[i]]
    OBVIOUS
  <2>5. g = [i \in 0..(m + 1) |-> Body(g, i)]
    <3> HIDE DEF g, Body
    <3> QED
      BY <2>3, <2>4
  <2> QED
    BY <2>5
<1>3. n \in T
  <2>1. n \in Nat
    OBVIOUS
  <2> HIDE DEF n, T
  <2>2. 0..n \subseteq T
    BY <1>1, <1>2, <2>1, InductionUpTo
  <2> QED
    BY <2>1, <2>2
<1>4. all = [i \in 0..n |-> Body(all, i)]
  BY <1>3 DEF GatheredUpTo, St, none
<1>5. Gathered(names, meaning) = all[n]
  BY DEF Gathered, GatheredUpTo
<1>6. \A i \in 0..n : all[i] = Body(all, i)
  <2> HIDE DEF all, Body
  <2> QED
    BY <1>4
<1>7. all[0] = none /\ \A i \in 1..n : all[i] = St(all[i - 1], i)
  <2> HIDE DEF all
  <2> QED
    BY <1>6
<1> QED
  BY <1>5, <1>7 DEF St, none

\* What a source means on a stack with room for d conversions, f being the
\* meanings at less room.
MeaningAt(c, off, f, d) ==
    [s \in Present(c) |->
        IF d = 0 THEN {Crashed}
        ELSE Operated(Listed(c, off, s, FALSE, f[d - 1]), c[s[1]][s[2]].process, f[d - 1])]

\* And so do the meanings of the sources.
LEMMA MeaningIs ==
    ASSUME NEW c, NEW off
    PROVE  \A d \in 0..MaxDepth : Meaning(c, off)[d] = MeaningAt(c, off, Meaning(c, off), d)
<1> DEFINE n == MaxDepth
           none == [s \in Present(c) |-> {Crashed}]
           St(v, i) == [s \in Present(c) |-> Operated(Listed(c, off, s, FALSE, v), c[s[1]][s[2]].process, v)]
           Body(f, i) == IF i = 0 THEN none ELSE St(f[i - 1], i)
           T == {m \in 0..n : \E f : f = [i \in 0..m |-> Body(f, i)]}
           Is(f) == f = [d \in 0..n |-> MeaningAt(c, off, f, d)]
           to == CHOOSE f : Is(f)
<1>0. n \in Nat
  BY PipelineAssumptions
<1> HIDE DEF St, none
<1>1. 0 \in T
  <2> DEFINE f == [i \in 0..0 |-> none]
  <2>1. f = [i \in 0..0 |-> Body(f, i)]
    OBVIOUS
  <2> HIDE DEF f
  <2> QED
    BY <1>0, <2>1
<1>2. \A m \in 0..(n - 1) : m \in T => m + 1 \in T
  <2> SUFFICES ASSUME NEW m \in 0..(n - 1), NEW f, f = [i \in 0..m |-> Body(f, i)]
               PROVE  \E g : g = [i \in 0..(m + 1) |-> Body(g, i)]
    BY <1>0
  <2> DEFINE g == [i \in 0..(m + 1) |-> IF i = m + 1 THEN St(f[m], m + 1) ELSE f[i]]
  <2>1. \A i \in 0..m : g[i] = f[i] /\ f[i] = Body(f, i)
    <3> HIDE DEF Body
    <3> QED
      OBVIOUS
  <2>2. g[m + 1] = St(g[m], m + 1)
    OBVIOUS
  <2>3. \A i \in 0..(m + 1) : g[i] = Body(g, i)
    <3> SUFFICES ASSUME NEW i \in 0..(m + 1) PROVE g[i] = Body(g, i)
      OBVIOUS
    <3> HIDE DEF g
    <3>1. CASE i = 0
      BY <2>1, <3>1
    <3>2. CASE i \in 1..m
      BY <2>1, <3>2
    <3>3. CASE i = m + 1
      BY <2>2, <3>3
    <3> QED
      BY <3>1, <3>2, <3>3
  <2>4. g = [i \in 0..(m + 1) |-> g[i]]
    OBVIOUS
  <2>5. g = [i \in 0..(m + 1) |-> Body(g, i)]
    <3> HIDE DEF g, Body
    <3> QED
      BY <2>3, <2>4
  <2> QED
    BY <2>5
<1>3. n \in T
  <2> HIDE DEF n, T
  <2>1. 0..n \subseteq T
    BY <1>0, <1>1, <1>2, InductionUpTo
  <2> QED
    BY <1>0, <2>1
<1>4. PICK f : f = [i \in 0..n |-> Body(f, i)]
  BY <1>3
<1>5. \A i \in 0..n : Body(f, i) = MeaningAt(c, off, f, i)
  BY DEF St, none, MeaningAt
<1>6. Is(f)
  <2> HIDE DEF Body
  <2> QED
    BY <1>4, <1>5
<1>7. Is(to)
  <2> HIDE DEF Is
  <2> QED
    BY <1>6
<1>8. Meaning(c, off) = to
  BY DEF Meaning, MeaningAt
<1>9. \A d \in 0..n : to[d] = MeaningAt(c, off, to, d)
  <2> HIDE DEF to
  <2> QED
    BY <1>7
<1> HIDE DEF to
<1> QED
  BY <1>8, <1>9

\* Every source has a meaning, at every depth of the stack.
LEMMA MeaningDomain ==
    ASSUME NEW c, NEW off, NEW d \in 0..MaxDepth
    PROVE  DOMAIN Meaning(c, off)[d] = Present(c)
<1>1. Meaning(c, off)[d] = MeaningAt(c, off, Meaning(c, off), d)
  BY MeaningIs
<1> QED
  BY <1>1 DEF MeaningAt

\* Its meaning where the stack is used up.
LEMMA MeaningEnd ==
    ASSUME NEW c, NEW off, NEW s \in Present(c)
    PROVE  Meaning(c, off)[0][s] = {Crashed}
<1>1. 0 \in 0..MaxDepth
  BY PipelineAssumptions
<1>2. Meaning(c, off)[0] = MeaningAt(c, off, Meaning(c, off), 0)
  BY <1>1, MeaningIs
<1> QED
  BY <1>2 DEF MeaningAt

\* Its meaning elsewhere: its nodes with its own operators done.
LEMMA MeaningStep ==
    ASSUME NEW c, NEW off, NEW d \in 1..MaxDepth, NEW s \in Present(c)
    PROVE  Meaning(c, off)[d][s]
              = Operated(Listed(c, off, s, FALSE, Meaning(c, off)[d - 1]),
                         c[s[1]][s[2]].process, Meaning(c, off)[d - 1])
<1>1. d \in 0..MaxDepth /\ d # 0
  BY PipelineAssumptions
<1>2. Meaning(c, off)[d] = MeaningAt(c, off, Meaning(c, off), d)
  BY <1>1, MeaningIs
<1> QED
  BY <1>1, <1>2 DEF MeaningAt

-----------------------------------------------------------------------------
(* Lists that are worked off from the front.                               *)

\* s is what is left of t.
Remains(s, t) ==
    /\ s \in Seq(Range(t)) /\ Len(s) <= Len(t)
    /\ \A i \in 1..Len(s) : s[i] = t[Len(t) - Len(s) + i]

\* How much of t is done.
Past(s, t) == Len(t) - Len(s)

\* At the beginning nothing is.
LEMMA RemainsAll ==
    ASSUME NEW t, IsList(t)
    PROVE  Remains(t, t) /\ Past(t, t) = 0
BY DEF IsList, Remains, Past

\* One element less is left.
LEMMA RemainsTail ==
    ASSUME NEW t, IsList(t), NEW s, Remains(s, t), s # <<>>
    PROVE  /\ Remains(Tail(s), t)
           /\ Past(s, t) \in 0..(Len(t) - 1)
           /\ Past(Tail(s), t) = Past(s, t) + 1
           /\ Past(Tail(s), t) \in 1..Len(t)
           /\ Head(s) = t[Past(Tail(s), t)]
<1>1. s \in Seq(Range(t)) /\ Len(s) \in Nat /\ Len(t) \in Nat /\ Len(s) <= Len(t) /\ Len(s) > 0
  BY DEF IsList, Remains
<1>2. Tail(s) \in Seq(Range(t)) /\ Len(Tail(s)) = Len(s) - 1
      /\ \A i \in 1..Len(Tail(s)) : Tail(s)[i] = s[i + 1]
  BY <1>1
<1>3. Head(s) = s[1] /\ s[1] = t[Len(t) - Len(s) + 1]
  BY <1>1 DEF Remains
<1>4. ASSUME NEW i \in 1..Len(Tail(s))
      PROVE  Tail(s)[i] = t[Len(t) - Len(Tail(s)) + i]
  <2>1. i + 1 \in 1..Len(s)
    BY <1>1, <1>2
  <2>2. Tail(s)[i] = t[Len(t) - Len(s) + (i + 1)]
    BY <1>2, <2>1 DEF Remains
  <2>3. Len(t) - Len(s) + (i + 1) = Len(t) - Len(Tail(s)) + i
    BY <1>1, <1>2
  <2> QED
    BY <2>2, <2>3
<1>5. Len(t) - Len(s) + 1 = Len(t) - Len(Tail(s))
  BY <1>1, <1>2
<1> QED
  BY <1>1, <1>2, <1>3, <1>4, <1>5 DEF Remains, Past

\* What is done is a part of the list.
LEMMA PastIn ==
    ASSUME NEW t, IsList(t), NEW s, Remains(s, t)
    PROVE  Past(s, t) \in 0..Len(t) /\ Len(t) \in Nat /\ (s = <<>> => Past(s, t) = Len(t))
BY DEF IsList, Remains, Past

-----------------------------------------------------------------------------
(* Stores.                                                                 *)

\* The store c has records of the store d, and no other.
Within(c, d) ==
    /\ c = [sub |-> c.sub, col |-> c.col]
    /\ \A kind \in {"sub", "col"} : /\ DOMAIN c[kind] \subseteq DOMAIN d[kind]
                                   /\ \A n \in DOMAIN c[kind] : c[kind][n] = d[kind][n]

\* What the deletions leave of a store.
IsStore(c) == \E d \in Catalogs : Within(c, d)

\* The sources of a store.
LEMMA PresentIs ==
    ASSUME NEW c
    PROVE  /\ \A kind, name : <<kind, name>> \in Present(c) <=> kind \in {"sub", "col"} /\ name \in DOMAIN c[kind]
           /\ \A s \in Present(c) : s = <<s[1], s[2]>> /\ s[1] \in {"sub", "col"} /\ s[2] \in DOMAIN c[s[1]]
BY DEF Present

\* What deletions leave has the records it had.
LEMMA SourceStays ==
    ASSUME NEW c, NEW d, Within(c, d), d = [sub |-> d.sub, col |-> d.col], NEW s \in Present(c)
    PROVE  /\ s \in Present(d) /\ c[s[1]][s[2]] = d[s[1]][s[2]]
           /\ s[1] = "col" => s[2] \in DOMAIN d.col /\ d[s[1]][s[2]] = d.col[s[2]]
<1>1. s = <<s[1], s[2]>> /\ s[1] \in {"sub", "col"} /\ s[2] \in DOMAIN c[s[1]]
  BY PresentIs
<1>2. s[2] \in DOMAIN d[s[1]] /\ c[s[1]][s[2]] = d[s[1]][s[2]]
  BY <1>1 DEF Within
<1>3. s \in Present(d)
  BY <1>1, <1>2, PresentIs
<1>4. d["col"] = d.col
  OBVIOUS
<1> QED
  BY <1>2, <1>3, <1>4

\* The records have lists of operators, and of members.
LEMMA StoreRecords ==
    ASSUME NEW c, IsStore(c), NEW s \in Present(c)
    PROVE  /\ Process(c[s[1]][s[2]].process)
           /\ s[1] = "col" => IsList(c[s[1]][s[2]].subscriptions)
<1>1. PICK d \in Catalogs : Within(c, d)
  BY DEF IsStore
<1>2. /\ d = [sub |-> d.sub, col |-> d.col]
      /\ \A x \in Present(d) : Process(d[x[1]][x[2]].process)
      /\ \A n \in DOMAIN d.col : IsList(d.col[n].subscriptions)
  BY PipelineAssumptions
<1>3. /\ s \in Present(d) /\ c[s[1]][s[2]] = d[s[1]][s[2]]
      /\ s[1] = "col" => s[2] \in DOMAIN d.col /\ d[s[1]][s[2]] = d.col[s[2]]
  BY <1>1, <1>2, SourceStays
<1> QED
  BY <1>2, <1>3

\* A store has fewer sources than the goroutine's stack has room for.
LEMMA StoreFinite ==
    ASSUME NEW c, IsStore(c)
    PROVE  /\ IsFiniteSet(Present(c)) /\ Cardinality(Present(c)) \in Nat
           /\ Cardinality(Present(c)) < MaxDepth /\ MaxDepth \in Nat \ {0}
<1>1. PICK d \in Catalogs : Within(c, d)
  BY DEF IsStore
<1>2. /\ d = [sub |-> d.sub, col |-> d.col]
      /\ IsFiniteSet(Present(d)) /\ Cardinality(Present(d)) < MaxDepth
      /\ MaxDepth \in Nat
  BY PipelineAssumptions
<1>3. Present(c) \subseteq Present(d)
  BY <1>1, <1>2, SourceStays
<1>4. IsFiniteSet(Present(c)) /\ Cardinality(Present(c)) <= Cardinality(Present(d))
  BY <1>2, <1>3, FS_Subset
<1>5. Cardinality(Present(c)) \in Nat /\ Cardinality(Present(d)) \in Nat
  BY <1>2, <1>4, FS_CardinalityType
<1> QED
  BY <1>2, <1>4, <1>5

\* A store has subscriptions and collections.
LEMMA StoreShape ==
    ASSUME NEW c, IsStore(c)
    PROVE  c = [sub |-> c.sub, col |-> c.col]
BY DEF IsStore, Within

-----------------------------------------------------------------------------
(* What the conversion of the source s means when it is the k-th on the    *)
(* stack; the first one of a share link has the link's operators.          *)

\* The outcomes of the conversions it may start.
Below(c, off, k) == Meaning(c, off)[MaxDepth - k]

OpsAt(c, r, s, k) == IF k = 1 /\ r.by # "download" THEN r.ops ELSE c[s[1]][s[2]].process

\* After its first i members, before its operators, after the first i of these
\* and in the end.
InOrder(c, off, s, k)    == GatheredUpTo(c[s[1]][s[2]].subscriptions, Below(c, off, k))
Begun(c, off, r, s, k)   == Listed(c, off, s, k = 1 /\ r.by = "sub", Below(c, off, k))
Treated(c, off, r, s, k) == DoneUpTo(Begun(c, off, r, s, k), OpsAt(c, r, s, k), Below(c, off, k))
Total(c, off, r, s, k)   == Treated(c, off, r, s, k)[Len(OpsAt(c, r, s, k))]

\* Its operators are a list of operators.
LEMMA OpsAtIs ==
    ASSUME NEW c, IsStore(c), NEW r \in Requests, NEW s \in Present(c), NEW k
    PROVE  Process(OpsAt(c, r, s, k)) /\ IsList(OpsAt(c, r, s, k)) /\ Len(OpsAt(c, r, s, k)) \in Nat
<1>1. Process(c[s[1]][s[2]].process)
  BY StoreRecords
<1>2. Process(r.ops)
  BY PipelineAssumptions
<1>3. Process(OpsAt(c, r, s, k))
  BY <1>1, <1>2 DEF OpsAt
<1> QED
  BY <1>3 DEF Process, IsList

\* The operators one after the other.
LEMMA TreatedIs ==
    ASSUME NEW c, IsStore(c), NEW off, NEW r \in Requests, NEW s \in Present(c), NEW k
    PROVE  /\ Treated(c, off, r, s, k)[0] = Begun(c, off, r, s, k)
           /\ \A i \in 1..Len(OpsAt(c, r, s, k)) :
                 Treated(c, off, r, s, k)[i]
                    = After(Treated(c, off, r, s, k)[i - 1], OpsAt(c, r, s, k)[i], Below(c, off, k))
           /\ Total(c, off, r, s, k) = Operated(Begun(c, off, r, s, k), OpsAt(c, r, s, k), Below(c, off, k))
BY OpsAtIs, OperatedIs DEF Treated, Total

\* The members one after the other.
LEMMA InOrderIs ==
    ASSUME NEW c, IsStore(c), NEW off, NEW s \in Present(c), NEW k, s[1] = "col"
    PROVE  /\ InOrder(c, off, s, k)[0] = {Ok(<<>>)}
           /\ Len(c[s[1]][s[2]].subscriptions) \in Nat
           /\ \A i \in 1..Len(c[s[1]][s[2]].subscriptions) :
                 InOrder(c, off, s, k)[i]
                    = With(InOrder(c, off, s, k)[i - 1], c[s[1]][s[2]].subscriptions[i], Below(c, off, k))
<1> DEFINE names == c[s[1]][s[2]].subscriptions
<1>1. Len(names) \in Nat
  BY StoreRecords DEF IsList
<1> QED
  BY <1>1, GatheredIs DEF InOrder

\* One member more.
LEMMA InOrderNext ==
    ASSUME NEW c, IsStore(c), NEW off, NEW s \in Present(c), NEW k, s[1] = "col",
           NEW i \in 1..Len(c[s[1]][s[2]].subscriptions)
    PROVE  InOrder(c, off, s, k)[i]
              = With(InOrder(c, off, s, k)[i - 1], c[s[1]][s[2]].subscriptions[i], Below(c, off, k))
BY InOrderIs

\* Before the first of them there are no nodes.
LEMMA InOrderStart ==
    ASSUME NEW c, IsStore(c), NEW off, NEW s \in Present(c), NEW k, s[1] = "col"
    PROVE  Ok(<<>>) \in InOrder(c, off, s, k)[0]
<1> DEFINE names == c[s[1]][s[2]].subscriptions
<1>0. Len(names) \in Nat
  BY StoreRecords DEF IsList
<1>1. InOrder(c, off, s, k)[0] = {Ok(<<>>)}
  BY <1>0, GatheredIs DEF InOrder
<1> QED
  BY <1>1

\* A collection, before its own operators, is what its members are together.
LEMMA CollectedIs ==
    ASSUME NEW c, IsStore(c), NEW off, NEW r, NEW s \in Present(c), NEW k, s[1] = "col",
           NEW got \in InOrder(c, off, s, k)[Len(c[s[1]][s[2]].subscriptions)]
    PROVE  Collected(s[2], got) \in Begun(c, off, r, s, k)
<1> DEFINE names == c[s[1]][s[2]].subscriptions
<1>1. Len(names) \in Nat
  BY StoreRecords DEF IsList
<1>2. got \in Gathered(names, Below(c, off, k))
  BY <1>1, GatheredIs DEF InOrder
<1>3. Begun(c, off, r, s, k) = {Collected(s[2], x) : x \in Gathered(names, Below(c, off, k))}
  BY DEF Begun, Listed
<1> QED
  BY <1>2, <1>3

\* What the conversions mean that one may start: what they mean one deeper on
\* the stack, and the end of the process where there is no room for them.
LEMMA BelowIs ==
    ASSUME NEW c, IsStore(c), NEW off, NEW r \in Requests, NEW k \in 1..MaxDepth
    PROVE  /\ DOMAIN Below(c, off, k) = Present(c)
           /\ \A s \in Present(c) : Below(c, off, k)[s]
                 = IF k = MaxDepth THEN {Crashed} ELSE Total(c, off, r, s, k + 1)
<1>1. MaxDepth \in Nat
  BY PipelineAssumptions
<1>2. MaxDepth - k \in 0..MaxDepth
  BY <1>1
<1>3. DOMAIN Below(c, off, k) = Present(c)
  BY <1>2, MeaningDomain DEF Below
<1>4. CASE k = MaxDepth
  <2>1. MaxDepth - k = 0
    BY <1>1, <1>4
  <2>2. Below(c, off, k) = Meaning(c, off)[0]
    BY <2>1 DEF Below
  <2>3. \A s \in Present(c) : Meaning(c, off)[0][s] = {Crashed}
    BY MeaningEnd
  <2> QED
    BY <1>3, <1>4, <2>2, <2>3
<1>5. CASE k # MaxDepth
  <2>1. MaxDepth - k \in 1..MaxDepth /\ (MaxDepth - k) - 1 = MaxDepth - (k + 1) /\ k + 1 # 1
    BY <1>1, <1>5
  <2>2. ASSUME NEW s \in Present(c) PROVE Below(c, off, k)[s] = Total(c, off, r, s, k + 1)
    <3>1. Below(c, off, k)[s] = Operated(Listed(c, off, s, FALSE, Below(c, off, k + 1)),
                                         c[s[1]][s[2]].process, Below(c, off, k + 1))
      <4> DEFINE d == MaxDepth - k
      <4>1. \A x \in Present(c) :
               Meaning(c, off)[d][x] = Operated(Listed(c, off, x, FALSE, Meaning(c, off)[d - 1]),
                                                c[x[1]][x[2]].process, Meaning(c, off)[d - 1])
        <5>1. d \in 1..MaxDepth
          BY <2>1
        <5> HIDE DEF d
        <5> QED
          BY <5>1, MeaningStep
      <4>2. Below(c, off, k) = Meaning(c, off)[d] /\ Below(c, off, k + 1) = Meaning(c, off)[d - 1]
        BY <2>1 DEF Below
      <4> HIDE DEF d
      <4> QED
        BY <4>1, <4>2
    <3>2. OpsAt(c, r, s, k + 1) = c[s[1]][s[2]].process
      BY <2>1 DEF OpsAt
    <3>3. Begun(c, off, r, s, k + 1) = Listed(c, off, s, FALSE, Below(c, off, k + 1))
      BY <2>1 DEF Begun
    <3>4. Total(c, off, r, s, k + 1)
            = Operated(Begun(c, off, r, s, k + 1), OpsAt(c, r, s, k + 1), Below(c, off, k + 1))
      BY TreatedIs
    <3> QED
      BY <3>1, <3>2, <3>3, <3>4
  <2> QED
    BY <1>3, <1>5, <2>2
<1> QED
  BY <1>4, <1>5

\* What follows a list is an outcome of the next operator, and anything else
\* stays as it is.
LEMMA AfterIs ==
    ASSUME NEW outcomes, NEW op, NEW meaning, NEW o
    PROVE  /\ o \in outcomes /\ o.st # "ok" => o \in After(outcomes, op, meaning)
           /\ \A list : Ok(list) \in outcomes /\ o \in Outcomes(op, list, meaning)
                           => o \in After(outcomes, op, meaning)
<1> DEFINE Part(q) == IF q.st = "ok" THEN Outcomes(op, q.list, meaning) ELSE {q}
<1>1. After(outcomes, op, meaning) = UNION {Part(q) : q \in outcomes}
  BY DEF After
<1>2. ASSUME o \in outcomes, o.st # "ok" PROVE o \in After(outcomes, op, meaning)
  <2>1. o \in Part(o)
    BY <1>2
  <2> HIDE DEF Part
  <2> QED
    BY <1>1, <1>2, <2>1
<1>3. ASSUME NEW list, Ok(list) \in outcomes, o \in Outcomes(op, list, meaning)
      PROVE  o \in After(outcomes, op, meaning)
  <2>1. o \in Part(Ok(list))
    BY <1>3 DEF Ok
  <2> HIDE DEF Part
  <2> QED
    BY <1>1, <1>3, <2>1
<1> QED
  BY <1>2, <1>3

\* The same for the next member.
LEMMA WithOther ==
    ASSUME NEW outcomes, NEW name, NEW meaning, NEW o \in outcomes, o.st # "ok"
    PROVE  o \in With(outcomes, name, meaning)
<1> DEFINE member == <<"sub", name>>
           Part(q) == IF q.st = "ok" THEN {Gather(q.list, got) : got \in meaning[member]} ELSE {q}
<1>1. CASE member \notin DOMAIN meaning
  BY <1>1 DEF With
<1>2. CASE member \in DOMAIN meaning
  <2>1. With(outcomes, name, meaning) = UNION {Part(q) : q \in outcomes}
    BY <1>2 DEF With
  <2>2. o \in Part(o)
    OBVIOUS
  <2> HIDE DEF Part
  <2> QED
    BY <2>1, <2>2
<1> QED
  BY <1>1, <1>2

\* A member's nodes come behind the others'.
LEMMA WithMember ==
    ASSUME NEW outcomes, NEW name, NEW meaning, <<"sub", name>> \in DOMAIN meaning,
           NEW list, Ok(list) \in outcomes, NEW o \in meaning[<<"sub", name>>]
    PROVE  Gather(list, o) \in With(outcomes, name, meaning)
<1> DEFINE member == <<"sub", name>>
           Part(q) == IF q.st = "ok" THEN {Gather(q.list, got) : got \in meaning[member]} ELSE {q}
<1>1. With(outcomes, name, meaning) = UNION {Part(q) : q \in outcomes}
  BY DEF With
<1>2. Gather(list, o) \in Part(Ok(list))
  BY DEF Ok
<1> HIDE DEF Part
<1> QED
  BY <1>1, <1>2

\* What is not a list is not treated further.
LEMMA TreatedSticky ==
    ASSUME NEW c, IsStore(c), NEW off, NEW r \in Requests, NEW s \in Present(c), NEW k,
           NEW i \in 0..Len(OpsAt(c, r, s, k)), NEW o, o.st # "ok", o \in Treated(c, off, r, s, k)[i]
    PROVE  o \in Total(c, off, r, s, k)
<1> DEFINE n == Len(OpsAt(c, r, s, k))
           W(j) == Treated(c, off, r, s, k)[j]
           T == {d \in 0..(n - i) : o \in W(i + d)}
<1>1. n \in Nat
  BY OpsAtIs
<1>2. n - i \in Nat /\ i \in Nat
  BY <1>1
<1>3. \A j \in 1..n : W(j) = After(W(j - 1), OpsAt(c, r, s, k)[j], Below(c, off, k))
  BY TreatedIs
<1>4. W(i) = W(i + 0)
  BY <1>2
<1> HIDE DEF n, W
<1>5. 0 \in T
  BY <1>2, <1>4 DEF W
<1>6. ASSUME NEW d \in 0..((n - i) - 1), d \in T PROVE d + 1 \in T
  <2>1. i + (d + 1) \in 1..n /\ (i + (d + 1)) - 1 = i + d /\ d + 1 \in 0..(n - i)
    BY <1>1, <1>2
  <2>2. W(i + (d + 1)) = After(W(i + d), OpsAt(c, r, s, k)[i + (d + 1)], Below(c, off, k))
    BY <1>3, <2>1
  <2>3. o \in W(i + d)
    BY <1>6
  <2>4. o \in W(i + (d + 1))
    BY <2>2, <2>3, AfterIs
  <2> QED
    BY <2>1, <2>4
<1>7. n - i \in T
  <2> HIDE DEF T
  <2>1. 0..(n - i) \subseteq T
    BY <1>2, <1>5, <1>6, InductionUpTo
  <2> QED
    BY <1>2, <2>1
<1>8. o \in W(i + (n - i)) /\ i + (n - i) = n
  BY <1>1, <1>2, <1>7
<1> QED
  BY <1>8 DEF W, n, Total

\* The same of the members, where an error is not such an outcome.
LEMMA InOrderSticky ==
    ASSUME NEW c, IsStore(c), NEW off, NEW r \in Requests, NEW s \in Present(c), NEW k, s[1] = "col",
           NEW i \in 0..Len(c[s[1]][s[2]].subscriptions), NEW o, o.st # "ok", o \in InOrder(c, off, s, k)[i]
    PROVE  o \in Total(c, off, r, s, k)
<1> DEFINE names == c[s[1]][s[2]].subscriptions
           n == Len(names)
           W(j) == InOrder(c, off, s, k)[j]
           T == {d \in 0..(n - i) : o \in W(i + d)}
<1>1. n \in Nat /\ (\A j \in 1..n : W(j) = With(W(j - 1), names[j], Below(c, off, k)))
  <2>1. n \in Nat
    BY StoreRecords DEF IsList
  <2>2. ASSUME NEW j \in 1..n
        PROVE  InOrder(c, off, s, k)[j] = With(InOrder(c, off, s, k)[j - 1], names[j], Below(c, off, k))
    BY InOrderNext
  <2> QED
    BY <2>1, <2>2
<1>2. n - i \in Nat /\ i \in Nat
  <2>1. i \in 0..n
    OBVIOUS
  <2> HIDE DEF n
  <2> QED
    BY <1>1, <2>1
<1>3. W(i) = W(i + 0)
  BY <1>2
<1>4. o \in W(i)
  OBVIOUS
<1> HIDE DEF n, W, names
<1>5. 0 \in T
  BY <1>2, <1>3, <1>4
<1>6. ASSUME NEW d \in 0..((n - i) - 1), d \in T PROVE d + 1 \in T
  <2>1. i + (d + 1) \in 1..n /\ (i + (d + 1)) - 1 = i + d /\ d + 1 \in 0..(n - i)
    BY <1>1, <1>2
  <2>2. W(i + (d + 1)) = With(W(i + d), names[i + (d + 1)], Below(c, off, k))
    BY <1>1, <2>1
  <2>3. o \in W(i + d)
    BY <1>6
  <2>4. o \in W(i + (d + 1))
    BY <2>2, <2>3, WithOther
  <2> QED
    BY <2>1, <2>4
<1>7. n - i \in T
  <2> HIDE DEF T
  <2>1. 0..(n - i) \subseteq T
    BY <1>2, <1>5, <1>6, InductionUpTo
  <2> QED
    BY <1>2, <2>1
<1>8. o \in W(n)
  <2>1. o \in W(i + (n - i)) /\ i + (n - i) = n
    BY <1>1, <1>2, <1>7
  <2> QED
    BY <2>1
<1>9. Collected(s[2], o) = o
  BY DEF Collected
<1>10. o \in Begun(c, off, r, s, k)
  <2>1. o \in InOrder(c, off, s, k)[Len(c[s[1]][s[2]].subscriptions)]
    BY <1>8 DEF W, n, names
  <2>2. Collected(s[2], o) \in Begun(c, off, r, s, k)
    BY <2>1, CollectedIs
  <2> QED
    BY <1>9, <2>2
<1>11. o \in Treated(c, off, r, s, k)[0]
  BY <1>10, TreatedIs
<1>12. 0 \in 0..Len(OpsAt(c, r, s, k))
  BY OpsAtIs
<1> QED
  BY <1>11, <1>12, TreatedSticky

\* What the next operator makes of a list.
LEMMA OpOutcome ==
    ASSUME NEW c, IsStore(c), NEW off, NEW r \in Requests, NEW s \in Present(c), NEW k,
           NEW i \in 1..Len(OpsAt(c, r, s, k)), NEW list, Ok(list) \in Treated(c, off, r, s, k)[i - 1],
           NEW o, o \in Outcomes(OpsAt(c, r, s, k)[i], list, Below(c, off, k))
    PROVE  o \in Treated(c, off, r, s, k)[i]
<1>1. Treated(c, off, r, s, k)[i] = After(Treated(c, off, r, s, k)[i - 1], OpsAt(c, r, s, k)[i], Below(c, off, k))
  BY TreatedIs
<1> QED
  BY <1>1, AfterIs

\* What the next member adds to a list.
LEMMA MemberOutcome ==
    ASSUME NEW c, IsStore(c), NEW off, NEW r \in Requests, NEW s \in Present(c), NEW k \in 1..MaxDepth, s[1] = "col",
           NEW i \in 1..Len(c[s[1]][s[2]].subscriptions), NEW list, Ok(list) \in InOrder(c, off, s, k)[i - 1],
           NEW name, name = c[s[1]][s[2]].subscriptions[i]
    PROVE  /\ <<"sub", name>> \notin Present(c) => Ok(list) \in InOrder(c, off, s, k)[i]
           /\ <<"sub", name>> \in Present(c) =>
                \A o \in Below(c, off, k)[<<"sub", name>>] : Gather(list, o) \in InOrder(c, off, s, k)[i]
<1>1. InOrder(c, off, s, k)[i] = With(InOrder(c, off, s, k)[i - 1], name, Below(c, off, k))
  <2> DEFINE names == c[s[1]][s[2]].subscriptions
  <2>1. \A j \in 1..Len(names) :
           InOrder(c, off, s, k)[j] = With(InOrder(c, off, s, k)[j - 1], names[j], Below(c, off, k))
    BY InOrderIs
  <2>2. i \in 1..Len(names) /\ name = names[i]
    OBVIOUS
  <2> HIDE DEF names
  <2> QED
    BY <2>1, <2>2
<1>2. DOMAIN Below(c, off, k) = Present(c)
  BY BelowIs
<1>3. CASE <<"sub", name>> \notin Present(c)
  BY <1>1, <1>2, <1>3 DEF With
<1>4. CASE <<"sub", name>> \in Present(c)
  BY <1>1, <1>2, <1>4, WithMember
<1> QED
  BY <1>3, <1>4

-----------------------------------------------------------------------------
(* The conversions on the stack.                                           *)

Src(f) == <<f.kind, f.name>>

\* The operators and the members that the k-th conversion has in all.
OpsOf(c, r, f, k) == OpsAt(c, r, Src(f), k)
Names(c, f)       == c[f.kind][f.name].subscriptions

IsFrame(f) ==
    f = [kind |-> f.kind, name |-> f.name, ops |-> f.ops, into |-> f.into, list |-> f.list,
         pc |-> f.pc, raw |-> f.raw, todo |-> f.todo]

\* A conversion with another list, one whose nodes are there, one that is at its
\* next member and one that is at its next operator.
WithList(f, list) == [f EXCEPT !.list = list]
Loaded(f, list)   == [f EXCEPT !.pc = "apply", !.list = list]
WithTodo(f, todo) == [f EXCEPT !.todo = todo]
WithOps(f, ops)   == [f EXCEPT !.ops = ops]

\* One with another list has the rest of its fields as before.
LEMMA WithListIs ==
    ASSUME NEW f, IsFrame(f), NEW list
    PROVE  LET g == WithList(f, list)
           IN /\ IsFrame(g) /\ g.pc = f.pc /\ g.list = list /\ g.ops = f.ops /\ g.todo = f.todo
              /\ g.kind = f.kind /\ g.name = f.name /\ g.into = f.into /\ g.raw = f.raw
BY DEF IsFrame, WithList

\* So has one whose nodes are there,
LEMMA LoadedIs ==
    ASSUME NEW f, IsFrame(f), NEW list
    PROVE  LET g == Loaded(f, list)
           IN /\ IsFrame(g) /\ g.pc = "apply" /\ g.list = list /\ g.ops = f.ops /\ g.todo = f.todo
              /\ g.kind = f.kind /\ g.name = f.name /\ g.into = f.into /\ g.raw = f.raw
<1> DEFINE g1 == [f EXCEPT !.pc = "apply"]
<1>1. /\ IsFrame(g1) /\ g1.pc = "apply" /\ g1.ops = f.ops /\ g1.todo = f.todo
      /\ g1.kind = f.kind /\ g1.name = f.name /\ g1.into = f.into /\ g1.raw = f.raw
  BY DEF IsFrame
<1>2. Loaded(f, list) = WithList(g1, list)
  BY DEF Loaded, WithList
<1> HIDE DEF g1
<1> QED
  BY <1>1, <1>2, WithListIs

\* one that is at its next member,
LEMMA WithTodoIs ==
    ASSUME NEW f, IsFrame(f), NEW todo
    PROVE  LET g == WithTodo(f, todo)
           IN /\ IsFrame(g) /\ g.pc = f.pc /\ g.list = f.list /\ g.ops = f.ops /\ g.todo = todo
              /\ g.kind = f.kind /\ g.name = f.name /\ g.into = f.into /\ g.raw = f.raw
BY DEF IsFrame, WithTodo

\* and one that is at its next operator.
LEMMA WithOpsIs ==
    ASSUME NEW f, IsFrame(f), NEW ops
    PROVE  LET g == WithOps(f, ops)
           IN /\ IsFrame(g) /\ g.pc = f.pc /\ g.list = f.list /\ g.ops = ops /\ g.todo = f.todo
              /\ g.kind = f.kind /\ g.name = f.name /\ g.into = f.into /\ g.raw = f.raw
BY DEF IsFrame, WithOps

\* f is the k-th conversion of a request r that found the store c.
Stands(c, r, f, k) ==
    /\ IsFrame(f)
    /\ Src(f) \in Present(c)
    /\ f.into \in {"top", "member", "front", "back", "replace"}
    /\ f.into = "top" <=> k = 1
    /\ f.pc \in {"fetch", "members", "apply"}
    /\ Remains(f.ops, OpsOf(c, r, f, k))
    /\ f.pc = "fetch" => f.kind = "sub" /\ f.raw = c[f.kind][f.name].content /\ f.ops = OpsOf(c, r, f, k)
    /\ f.pc = "members" => f.kind = "col" /\ Remains(f.todo, Names(c, f)) /\ f.ops = OpsOf(c, r, f, k)
    /\ f.pc # "fetch" /\ k = 1 /\ ~r.known => f.kind = "col"

\* It waits for the conversion g, of its member or of its operator's source.
Waits(c, r, f, k, g) ==
    /\ f.pc \in {"members", "apply"}
    /\ f.pc = "members" =>
          LET at == Past(f.todo, Names(c, f))
          IN /\ at \in 1..Len(Names(c, f))
             /\ Src(g) = <<"sub", Names(c, f)[at]>> /\ g.into = "member"
    /\ f.pc = "apply" =>
          LET at == Past(f.ops, OpsOf(c, r, f, k))
              op == OpsOf(c, r, f, k)[at]
          IN /\ at \in 1..Len(OpsOf(c, r, f, k))
             /\ ~op.disabled /\ op.type = AddProxies
             /\ Src(g) = Source(op.args) /\ g.name # "" /\ g.into = Position(op.args)

\* Its list is one it may have there, before the member or the operator that it
\* waits for when late = 1.
Holds(c, off, r, f, k, late) ==
    /\ f.pc = "members" => Ok(f.list) \in InOrder(c, off, Src(f), k)[Past(f.todo, Names(c, f)) - late]
    /\ f.pc = "apply" => Ok(f.list) \in Treated(c, off, r, Src(f), k)[Past(f.ops, OpsOf(c, r, f, k)) - late]

\* What the k-th conversion comes to.
TotalOf(c, off, r, f, k) == Total(c, off, r, Src(f), k)

\* An outcome of what a conversion waits for gives one of its own.
LEMMA Passed ==
    ASSUME NEW c, IsStore(c), NEW off, NEW r \in Requests, NEW k \in 1..MaxDepth, NEW f, NEW g,
           Stands(c, r, f, k), Waits(c, r, f, k, g), Holds(c, off, r, f, k, 1), Src(g) \in Present(c),
           NEW o \in Below(c, off, k)[Src(g)]
    PROVE  /\ f.pc = "members" => Gather(f.list, o) \in InOrder(c, off, Src(f), k)[Past(f.todo, Names(c, f))]
           /\ f.pc = "apply" =>
                Joined(OpsOf(c, r, f, k)[Past(f.ops, OpsOf(c, r, f, k))].args, f.list, o)
                   \in Treated(c, off, r, Src(f), k)[Past(f.ops, OpsOf(c, r, f, k))]
<1> DEFINE s == Src(f)
<1>1. s \in Present(c) /\ s[1] = f.kind /\ s[2] = f.name
  BY DEF Stands, Src
<1>2. CASE f.pc = "members"
  <2> DEFINE at == Past(f.todo, Names(c, f))
             name == Names(c, f)[at]
  <2>1. f.kind = "col" /\ at \in 1..Len(Names(c, f)) /\ Src(g) = <<"sub", name>>
    BY <1>2 DEF Stands, Waits
  <2>2. Ok(f.list) \in InOrder(c, off, s, k)[at - 1]
    BY <1>2 DEF Holds
  <2>3. Names(c, f) = c[s[1]][s[2]].subscriptions
    BY <1>1 DEF Names
  <2> HIDE DEF s, at
  <2>4. Gather(f.list, o) \in InOrder(c, off, s, k)[at]
    BY <1>1, <2>1, <2>2, <2>3, MemberOutcome
  <2> QED
    BY <1>2, <2>4 DEF s, at
<1>3. CASE f.pc = "apply"
  <2> DEFINE ops == OpsOf(c, r, f, k)
             at == Past(f.ops, ops)
             op == ops[at]
  <2>1. at \in 1..Len(ops) /\ ~op.disabled /\ op.type = AddProxies
        /\ Src(g) = Source(op.args) /\ g.name # ""
    BY <1>3 DEF Waits
  <2>2. Ok(f.list) \in Treated(c, off, r, s, k)[at - 1]
    BY <1>3 DEF Holds
  <2>3. ops = OpsAt(c, r, s, k)
    BY DEF OpsOf
  <2>4. DOMAIN Below(c, off, k) = Present(c)
    BY BelowIs
  <2>5. Source(op.args)[2] = g.name
    <3>1. Src(g)[2] = g.name
      BY DEF Src
    <3> QED
      BY <2>1, <3>1
  <2>6. Joined(op.args, f.list, o) \in Outcomes(op, f.list, Below(c, off, k))
    BY <2>1, <2>4, <2>5 DEF Outcomes
  <2> HIDE DEF s, at, ops
  <2>7. Joined(op.args, f.list, o) \in Treated(c, off, r, s, k)[at]
    BY <1>1, <2>1, <2>2, <2>3, <2>6, OpOutcome
  <2> QED
    BY <1>3, <2>7 DEF s, at, ops
<1> QED
  BY <1>2, <1>3

\* Nothing but a list, and an error of a member, is stopped on its way down.
LEMMA Spreads ==
    ASSUME NEW c, IsStore(c), NEW off, NEW r \in Requests, NEW k \in 1..MaxDepth, NEW f, NEW g,
           Stands(c, r, f, k), Waits(c, r, f, k, g), Holds(c, off, r, f, k, 1), Src(g) \in Present(c),
           NEW o \in Below(c, off, k)[Src(g)], o.st # "ok", g.into = "member" => o.st # "err"
    PROVE  o \in TotalOf(c, off, r, f, k)
<1> DEFINE s == Src(f)
<1>1. s \in Present(c) /\ s[1] = f.kind /\ s[2] = f.name
  BY DEF Stands, Src
<1>2. CASE f.pc = "members"
  <2> DEFINE at == Past(f.todo, Names(c, f))
  <2>1. f.kind = "col" /\ at \in 1..Len(Names(c, f)) /\ o.st # "err"
    BY <1>2 DEF Stands, Waits
  <2>2. Gather(f.list, o) \in InOrder(c, off, s, k)[at]
    BY <1>2, Passed
  <2>3. Gather(f.list, o) = o
    BY <2>1 DEF Gather
  <2>4. Names(c, f) = c[s[1]][s[2]].subscriptions
    BY <1>1 DEF Names
  <2>5. Len(c[s[1]][s[2]].subscriptions) \in Nat
    BY <1>1, <2>1, InOrderIs
  <2> HIDE DEF s, at
  <2>6. at \in 0..Len(c[s[1]][s[2]].subscriptions)
    BY <2>1, <2>4, <2>5
  <2>7. o \in Total(c, off, r, s, k)
    BY <1>1, <2>1, <2>2, <2>3, <2>6, InOrderSticky
  <2> QED
    BY <2>7 DEF TotalOf, s
<1>3. CASE f.pc = "apply"
  <2> DEFINE ops == OpsOf(c, r, f, k)
             at == Past(f.ops, ops)
  <2>1. at \in 1..Len(ops)
    BY <1>3 DEF Waits
  <2>2. Joined(ops[at].args, f.list, o) \in Treated(c, off, r, s, k)[at]
    BY <1>3, Passed
  <2>3. Joined(ops[at].args, f.list, o) = o
    BY DEF Joined
  <2>4. ops = OpsAt(c, r, s, k) /\ Len(OpsAt(c, r, s, k)) \in Nat
    BY <1>1, OpsAtIs DEF OpsOf
  <2> HIDE DEF s, at, ops
  <2>5. at \in 0..Len(OpsAt(c, r, s, k))
    BY <2>1, <2>4
  <2>6. o \in Total(c, off, r, s, k)
    BY <1>1, <2>2, <2>3, <2>5, TreatedSticky
  <2> QED
    BY <2>6 DEF TotalOf, s
<1> QED
  BY <1>2, <1>3 DEF Waits

-----------------------------------------------------------------------------
(* The stack as a whole.                                                   *)

\* Every conversion but the last one waits for the next.
Walk(c, r, st) ==
    /\ IsList(st) /\ Len(st) \in 1..MaxDepth
    /\ \A k \in 1..Len(st) : Stands(c, r, st[k], k)
    /\ \A k \in 1..(Len(st) - 1) : Waits(c, r, st[k], k, st[k + 1])

\* Every one of them holds a list that it may have there.
Right(c, off, r, st) ==
    /\ \A k \in 1..(Len(st) - 1) : Holds(c, off, r, st[k], k, 1)
    /\ Holds(c, off, r, st[Len(st)], Len(st), 0)

\* The last conversion goes on.
LEMMA Replaced ==
    ASSUME NEW c, NEW r, NEW st, Walk(c, r, st), NEW g, Stands(c, r, g, Len(st)),
           Src(g) = Src(st[Len(st)]), g.into = st[Len(st)].into
    PROVE  LET st2 == [st EXCEPT ![Len(st)] = g]
           IN /\ Walk(c, r, st2) /\ Src(st2[1]) = Src(st[1])
              /\ \A off : /\ \A k \in 1..(Len(st) - 1) : Holds(c, off, r, st[k], k, 1)
                          /\ Holds(c, off, r, g, Len(st), 0)
                          => Right(c, off, r, st2)
<1> DEFINE n == Len(st)
           st2 == [st EXCEPT ![n] = g]
<1>1. IsList(st) /\ n \in 1..MaxDepth /\ MaxDepth \in Nat
  BY PipelineAssumptions DEF Walk
<1>2. st2 \in Seq(Range(st) \cup {g}) /\ Len(st2) = n /\ st2[n] = g
  BY <1>1 DEF IsList
<1>3. \A k \in 1..(n - 1) : k \in 1..n /\ st2[k] = st[k] /\ k + 1 \in 1..n
  BY <1>1 DEF IsList
<1>4. \A k \in 1..(n - 1) : k + 1 # n => st2[k + 1] = st[k + 1]
  BY <1>1, <1>3 DEF IsList
<1>5. IsList(st2)
  <2>1. \A i \in 1..n : st2[i] \in Range(st2)
    BY <1>1, <1>2 DEF Range, IsList
  <2> HIDE DEF st2
  <2> QED
    BY <1>2, <2>1 DEF IsList
<1> HIDE DEF st2
<1>6. ASSUME NEW k \in 1..n PROVE Stands(c, r, st2[k], k)
  <2>1. CASE k = n
    BY <1>2, <2>1
  <2>2. CASE k # n
    <3>1. k \in 1..(n - 1)
      BY <1>1, <2>2
    <3> QED
      BY <1>3, <3>1 DEF Walk
  <2> QED
    BY <2>1, <2>2
<1>7. ASSUME NEW k \in 1..(n - 1) PROVE Waits(c, r, st2[k], k, st2[k + 1])
  <2>1. Waits(c, r, st[k], k, st[k + 1])
    BY DEF Walk
  <2>2. Src(st2[k + 1]) = Src(st[k + 1]) /\ st2[k + 1].into = st[k + 1].into
    BY <1>1, <1>2, <1>4
  <2>3. st2[k + 1].name = st[k + 1].name
    BY <2>2 DEF Src
  <2>4. Waits(c, r, st[k], k, st2[k + 1])
    BY <2>1, <2>2, <2>3 DEF Waits
  <2> QED
    BY <1>3, <2>4
<1>8. Src(st2[1]) = Src(st[1])
  <2>1. CASE n = 1
    BY <1>2, <2>1
  <2>2. CASE n # 1
    <3>1. 1 \in 1..(n - 1)
      BY <1>1, <2>2
    <3> QED
      BY <1>3, <3>1
  <2> QED
    BY <2>1, <2>2
<1>9. ASSUME NEW off, \A k \in 1..(n - 1) : Holds(c, off, r, st[k], k, 1), Holds(c, off, r, g, n, 0)
      PROVE  Right(c, off, r, st2)
  BY <1>2, <1>3, <1>9 DEF Right
<1>10. Walk(c, r, st2)
  BY <1>1, <1>2, <1>5, <1>6, <1>7 DEF Walk
<1> QED
  BY <1>8, <1>9, <1>10 DEF st2

\* What the last conversion asked for is gone; it is the last one again.
LEMMA Shortened ==
    ASSUME NEW c, NEW r, NEW st, Walk(c, r, st), NEW m \in 1..(Len(st) - 1)
    PROVE  LET st2 == SubSeq(st, 1, m)
           IN /\ Walk(c, r, st2) /\ st2[1] = st[1] /\ Len(st2) = m /\ st2[m] = st[m]
              /\ \A off : Right(c, off, r, st) =>
                    /\ \A k \in 1..(m - 1) : Holds(c, off, r, st2[k], k, 1)
                    /\ Holds(c, off, r, st2[m], m, 1)
<1> DEFINE n == Len(st)
           st2 == SubSeq(st, 1, m)
<1>1. IsList(st) /\ n \in 1..MaxDepth /\ MaxDepth \in Nat
  BY PipelineAssumptions DEF Walk
<1>2. m \in 1..n /\ n \in Nat
  BY <1>1
<1>3. st2 \in Seq(Range(st)) /\ Len(st2) = m /\ \A k \in 1..m : st2[k] = st[k]
  BY <1>1, <1>2 DEF IsList
<1>4. IsList(st2)
  <2> HIDE DEF st2
  <2>1. m \in Nat
    BY <1>2
  <2>2. \A k \in 1..Len(st2) : st2[k] \in Range(st2)
    BY <1>3, <2>1 DEF Range
  <2> QED
    BY <1>3, <2>2 DEF IsList
<1>5. \A k \in 1..m : k \in 1..n
  BY <1>1, <1>2
<1>6. \A k \in 1..(m - 1) : k \in 1..(n - 1) /\ k \in 1..m /\ k + 1 \in 1..m
  BY <1>1, <1>2
<1> HIDE DEF st2
<1>7. \A k \in 1..m : Stands(c, r, st2[k], k)
  BY <1>3, <1>5 DEF Walk
<1>8. \A k \in 1..(m - 1) : Waits(c, r, st2[k], k, st2[k + 1])
  BY <1>3, <1>6 DEF Walk
<1>9. Walk(c, r, st2)
  BY <1>1, <1>2, <1>3, <1>4, <1>7, <1>8 DEF Walk
<1>10. ASSUME NEW off, Right(c, off, r, st)
       PROVE  /\ \A k \in 1..(m - 1) : Holds(c, off, r, st2[k], k, 1)
              /\ Holds(c, off, r, st2[m], m, 1)
  BY <1>3, <1>6, <1>10 DEF Right
<1>11. st2[1] = st[1] /\ st2[m] = st[m]
  BY <1>2, <1>3
<1> QED
  BY <1>3, <1>9, <1>10, <1>11 DEF st2

\* It asks for another one.
LEMMA Pushed ==
    ASSUME NEW c, NEW r, NEW st, Walk(c, r, st), Len(st) < MaxDepth, NEW g, Stands(c, r, g, Len(st)),
           Src(g) = Src(st[Len(st)]), g.into = st[Len(st)].into,
           NEW h, Stands(c, r, h, Len(st) + 1), Waits(c, r, g, Len(st), h)
    PROVE  LET st2 == Append([st EXCEPT ![Len(st)] = g], h)
           IN /\ Walk(c, r, st2) /\ Src(st2[1]) = Src(st[1])
              /\ \A off : /\ Right(c, off, r, st) /\ Holds(c, off, r, g, Len(st), 1)
                          /\ Holds(c, off, r, h, Len(st) + 1, 0)
                          => Right(c, off, r, st2)
<1> DEFINE n == Len(st)
           st1 == [st EXCEPT ![n] = g]
           st2 == Append(st1, h)
<1>1. IsList(st) /\ n \in 1..MaxDepth /\ MaxDepth \in Nat
  BY PipelineAssumptions DEF Walk
<1>2. Walk(c, r, st1) /\ Src(st1[1]) = Src(st[1])
  BY Replaced
<1>3. Len(st1) = n /\ st1[n] = g /\ \A k \in 1..(n - 1) : st1[k] = st[k]
  BY <1>1 DEF IsList
<1>4. st1 \in Seq(Range(st1))
  BY <1>2 DEF Walk, IsList
<1> HIDE DEF st1
<1>5. /\ st2 \in Seq(Range(st1) \cup {h}) /\ Len(st2) = n + 1 /\ st2[n + 1] = h
      /\ \A k \in 1..n : st2[k] = st1[k]
  BY <1>1, <1>3, <1>4
<1>6. IsList(st2)
  <2>1. \A i \in 1..(n + 1) : st2[i] \in Range(st2)
    BY <1>1, <1>5 DEF Range
  <2> QED
    BY <1>5, <2>1 DEF IsList
<1> HIDE DEF st2
<1>7. ASSUME NEW k \in 1..(n + 1) PROVE Stands(c, r, st2[k], k)
  <2>1. CASE k = n + 1
    BY <1>5, <2>1
  <2>2. CASE k # n + 1
    <3>1. k \in 1..n
      BY <1>1, <2>2
    <3> QED
      BY <1>2, <1>3, <1>5, <3>1 DEF Walk
  <2> QED
    BY <2>1, <2>2
<1>8. ASSUME NEW k \in 1..n PROVE Waits(c, r, st2[k], k, st2[k + 1])
  <2>1. CASE k = n
    BY <1>1, <1>3, <1>5, <2>1
  <2>2. CASE k # n
    <3>1. k \in 1..(n - 1) /\ k + 1 \in 1..n
      BY <1>1, <2>2
    <3> QED
      BY <1>2, <1>3, <1>5, <3>1 DEF Walk
  <2> QED
    BY <2>1, <2>2
<1>9. Walk(c, r, st2)
  <2>1. n + 1 \in 1..MaxDepth /\ (n + 1) - 1 = n
    BY <1>1
  <2> QED
    BY <1>5, <1>6, <1>7, <1>8, <2>1 DEF Walk
<1>10. Src(st2[1]) = Src(st[1])
  BY <1>1, <1>2, <1>5
<1>11. ASSUME NEW off, Right(c, off, r, st), Holds(c, off, r, g, n, 1), Holds(c, off, r, h, n + 1, 0)
       PROVE  Right(c, off, r, st2)
  <2>1. ASSUME NEW k \in 1..n PROVE Holds(c, off, r, st2[k], k, 1)
    <3>1. CASE k = n
      BY <1>1, <1>3, <1>5, <1>11, <3>1
    <3>2. CASE k # n
      <4>1. k \in 1..(n - 1)
        BY <1>1, <3>2
      <4> QED
        BY <1>3, <1>5, <1>11, <4>1 DEF Right
    <3> QED
      BY <3>1, <3>2
  <2>2. (n + 1) - 1 = n
    BY <1>1
  <2> QED
    BY <1>5, <1>11, <2>1, <2>2 DEF Right
<1> QED
  BY <1>9, <1>10, <1>11 DEF st1, st2

\* What is not stopped on its way down comes from the n-th conversion to the
\* m-th.
LEMMA Down ==
    ASSUME NEW c, IsStore(c), NEW off, NEW r \in Requests, NEW st, Walk(c, r, st), Right(c, off, r, st),
           NEW n \in 1..Len(st), NEW o \in TotalOf(c, off, r, st[n], n), o.st # "ok", NEW m \in 1..n,
           \A k \in (m + 1)..n : st[k].into = "member" => o.st # "err"
    PROVE  o \in TotalOf(c, off, r, st[m], m)
<1> DEFINE T == {d \in 0..(n - m) : o \in TotalOf(c, off, r, st[n - d], n - d)}
<1>1. n \in 1..MaxDepth /\ MaxDepth \in Nat /\ n - m \in Nat /\ m \in Nat /\ Len(st) \in Nat /\ n <= Len(st)
  BY PipelineAssumptions DEF Walk
<1>2. 0 \in T
  <2>1. n - 0 = n
    BY <1>1
  <2> QED
    BY <1>1, <2>1
<1>3. ASSUME NEW d \in 0..((n - m) - 1), d \in T PROVE d + 1 \in T
  <2> DEFINE k == n - (d + 1)
             f == st[k]
             g == st[k + 1]
  <2>1. k + 1 = n - d /\ k \in 1..(Len(st) - 1) /\ k \in 1..Len(st) /\ k + 1 \in 1..Len(st) /\ k + 1 \in (m + 1)..n
        /\ k \in 1..MaxDepth /\ k # MaxDepth /\ d + 1 \in 0..(n - m)
    <3>1. PICK len \in Nat : len = Len(st)
      BY <1>1
    <3>2. n \in Nat /\ m \in Nat /\ d \in Nat /\ d <= (n - m) - 1 /\ m >= 1 /\ n <= len /\ n <= MaxDepth /\ MaxDepth \in Nat
      BY <1>1, <3>1
    <3>3. k \in Nat /\ k + 1 = n - d /\ k >= m /\ k + 1 <= n
      BY <3>2
    <3> HIDE DEF k
    <3>4. k \in 1..(len - 1) /\ k \in 1..len /\ k + 1 \in 1..len
      BY <3>2, <3>3
    <3>5. k + 1 \in (m + 1)..n /\ k \in 1..MaxDepth /\ k # MaxDepth
      BY <3>2, <3>3
    <3>6. d + 1 \in 0..(n - m)
      BY <3>2
    <3> QED
      BY <3>1, <3>3, <3>4, <3>5, <3>6
  <2>2. o \in TotalOf(c, off, r, g, k + 1)
    BY <1>3, <2>1
  <2> HIDE DEF k
  <2>3. Stands(c, r, f, k) /\ Stands(c, r, g, k + 1) /\ Waits(c, r, f, k, g) /\ Holds(c, off, r, f, k, 1)
    BY <2>1 DEF Walk, Right
  <2>4. g.into = "member" => o.st # "err"
    BY <2>1
  <2>5. Src(g) \in Present(c)
    BY <2>3 DEF Stands
  <2>6. o \in Below(c, off, k)[Src(g)]
    BY <2>1, <2>2, <2>5, BelowIs DEF TotalOf
  <2> HIDE DEF f, g
  <2>7. o \in TotalOf(c, off, r, f, k)
    BY <2>1, <2>3, <2>4, <2>5, <2>6, Spreads
  <2> QED
    BY <2>1, <2>7 DEF k, f
<1>4. n - m \in T
  <2> HIDE DEF T
  <2>1. 0..(n - m) \subseteq T
    BY <1>1, <1>2, <1>3, InductionUpTo
  <2> QED
    BY <1>1, <2>1
<1>5. n - (n - m) = m
  BY <1>1
<1> QED
  BY <1>4, <1>5

\* A bounded set of naturals that is not empty has a greatest element.
LEMMA LatestExists ==
    ASSUME NEW n \in Nat, NEW T, T \subseteq 1..n, T # {}
    PROVE  \E x \in T : \A y \in T : y <= x
<1> DEFINE U == {n - x : x \in T}
<1>1. U \subseteq Nat /\ U # {}
  <2>1. PICK t \in T : TRUE
    OBVIOUS
  <2>2. n - t \in U
    OBVIOUS
  <2> QED
    BY <2>2
<1>2. PICK u \in U : \A v \in U : u <= v
  BY <1>1, EarliestExists
<1>3. PICK x \in T : u = n - x
  OBVIOUS
<1>4. ASSUME NEW y \in T PROVE y <= x
  <2>1. n - x <= n - y
    BY <1>2, <1>3
  <2>2. x \in Nat /\ y \in Nat
    OBVIOUS
  <2> QED
    BY <2>1, <2>2
<1> QED
  BY <1>4

\* The last member on the stack.
LastMember(st) ==
    LET members == {k \in DOMAIN st : st[k].into = "member"}
    IN CHOOSE k \in members : \A j \in members : j <= k

\* There is one, and a collection waits for it.
LEMMA LastMemberIs ==
    ASSUME NEW c, NEW r, NEW st, Walk(c, r, st), \E k \in DOMAIN st : st[k].into = "member"
    PROVE  /\ LastMember(st) \in 2..Len(st)
           /\ st[LastMember(st)].into = "member"
           /\ \A k \in (LastMember(st) + 1)..Len(st) : st[k].into # "member"
<1> DEFINE members == {k \in DOMAIN st : st[k].into = "member"}
           last == LastMember(st)
<1>1. Len(st) \in Nat /\ DOMAIN st = 1..Len(st) /\ 1 \in 1..Len(st)
  BY DEF Walk, IsList
<1>2. members \subseteq 1..Len(st) /\ members # {}
  BY <1>1
<1>3. \E k \in members : \A j \in members : j <= k
  <2> HIDE DEF members
  <2> QED
    BY <1>1, <1>2, LatestExists
<1>4. last \in members /\ \A j \in members : j <= last
  <2>1. last = CHOOSE k \in members : \A j \in members : j <= k
    BY DEF LastMember
  <2> HIDE DEF members, last
  <2> QED
    BY <1>3, <2>1
<1>5. st[1].into = "top"
  <2>1. Stands(c, r, st[1], 1)
    BY <1>1 DEF Walk
  <2> QED
    BY <2>1 DEF Stands
<1> HIDE DEF last
<1>6. last \in 1..Len(st) /\ st[last].into = "member" /\ last # 1
  BY <1>1, <1>4, <1>5
<1>7. ASSUME NEW k \in (last + 1)..Len(st) PROVE st[k].into # "member"
  <2>1. k \in 1..Len(st) /\ ~ (k <= last)
    BY <1>1, <1>6
  <2> QED
    BY <1>1, <1>4, <2>1
<1> QED
  BY <1>1, <1>6, <1>7 DEF last

\* An error of the n-th conversion is the request's when no member is under way.
LEMMA FailedRequest ==
    ASSUME NEW c, IsStore(c), NEW off, NEW r \in Requests, NEW st, Walk(c, r, st), Right(c, off, r, st),
           \A k \in DOMAIN st : st[k].into # "member",
           NEW n \in 1..Len(st), Err \in TotalOf(c, off, r, st[n], n)
    PROVE  Err \in TotalOf(c, off, r, st[1], 1)
<1>1. Len(st) \in Nat /\ DOMAIN st = 1..Len(st) /\ 1 \in 1..n
  BY DEF Walk, IsList
<1>2. Err.st # "ok"
  BY DEF Err
<1>3. \A k \in (1 + 1)..n : st[k].into = "member" => Err.st # "err"
  BY <1>1
<1> QED
  BY <1>1, <1>2, <1>3, Down

\* Otherwise it is the last member's, whose collection passes it over.
LEMMA FailedMember ==
    ASSUME NEW c, IsStore(c), NEW r \in Requests, NEW st, Walk(c, r, st),
           \E k \in DOMAIN st : st[k].into = "member"
    PROVE  LET st2 == SubSeq(st, 1, LastMember(st) - 1)
           IN /\ Walk(c, r, st2) /\ Src(st2[1]) = Src(st[1])
              /\ \A off : /\ Right(c, off, r, st)
                          /\ \E j \in 1..Len(st) : /\ Err \in TotalOf(c, off, r, st[j], j)
                                                   /\ \A i \in (j + 1)..Len(st) : st[i].into # "member"
                          => Right(c, off, r, st2)
<1> DEFINE n == Len(st)
           k == LastMember(st) - 1
           f == st[k]
           g == st[k + 1]
           st2 == SubSeq(st, 1, k)
<1>1. n \in 1..MaxDepth /\ MaxDepth \in Nat /\ k \in 1..(n - 1) /\ k + 1 = LastMember(st)
      /\ k \in 1..MaxDepth /\ k # MaxDepth /\ k \in 1..n /\ k + 1 \in 1..n
  <2>1. n \in 1..MaxDepth /\ MaxDepth \in Nat
    BY PipelineAssumptions DEF Walk
  <2> QED
    BY <2>1, LastMemberIs
<1>2. g.into = "member" /\ \A j \in ((k + 1) + 1)..n : st[j].into # "member"
  BY <1>1, LastMemberIs
<1> HIDE DEF k
<1>3. /\ Walk(c, r, st2) /\ st2[1] = st[1] /\ Len(st2) = k /\ st2[k] = st[k]
      /\ \A off : Right(c, off, r, st) => \A j \in 1..(k - 1) : Holds(c, off, r, st2[j], j, 1)
  BY <1>1, Shortened
<1>4. ASSUME NEW off, Right(c, off, r, st), NEW p \in 1..n, Err \in TotalOf(c, off, r, st[p], p),
             \A i \in (p + 1)..n : st[i].into # "member"
      PROVE  Right(c, off, r, st2)
  <2>1. Stands(c, r, f, k) /\ Stands(c, r, g, k + 1) /\ Waits(c, r, f, k, g) /\ Holds(c, off, r, f, k, 1)
    BY <1>1, <1>4 DEF Walk, Right
  <2>2. Err.st # "ok" /\ Err.st = "err"
    BY DEF Err
  <2>3. k + 1 \in 1..p /\ \A j \in ((k + 1) + 1)..p : st[j].into = "member" => Err.st # "err"
    BY <1>1, <1>2, <1>4
  <2>4. Err \in TotalOf(c, off, r, g, k + 1)
    BY <1>1, <1>4, <2>2, <2>3, Down
  <2>5. Src(g) \in Present(c)
    BY <2>1 DEF Stands
  <2>6. Err \in Below(c, off, k)[Src(g)]
    BY <1>1, <2>4, <2>5, BelowIs DEF TotalOf
  <2>7. f.pc = "members"
    <3>1. \A args : Position(args) # "member"
      BY DEF Position
    <3> QED
      BY <1>2, <2>1, <3>1 DEF Waits
  <2> HIDE DEF f, g
  <2>8. Gather(f.list, Err) \in InOrder(c, off, Src(f), k)[Past(f.todo, Names(c, f))]
    BY <1>1, <2>1, <2>5, <2>6, <2>7, Passed
  <2>9. Gather(f.list, Err) = Ok(f.list)
    BY <2>2 DEF Gather
  <2>10. Past(f.todo, Names(c, f)) \in Nat
    BY <2>1, <2>7 DEF Waits
  <2>11. Past(f.todo, Names(c, f)) - 0 = Past(f.todo, Names(c, f))
    BY <2>10
  <2>12. Holds(c, off, r, f, k, 0)
    BY <2>7, <2>8, <2>9, <2>11 DEF Holds
  <2> QED
    BY <1>3, <1>4, <2>12 DEF Right, f
<1> QED
  BY <1>3, <1>4 DEF k

\* A panic, or the end of the process, is the request's.
LEMMA Ended ==
    ASSUME NEW c, IsStore(c), NEW off, NEW r \in Requests, NEW st, Walk(c, r, st), Right(c, off, r, st),
           NEW o \in TotalOf(c, off, r, st[Len(st)], Len(st)), o.st \notin {"ok", "err"}
    PROVE  o \in TotalOf(c, off, r, st[1], 1)
<1>1. 1 \in 1..Len(st) /\ Len(st) \in 1..Len(st)
  BY DEF Walk
<1> QED
  BY <1>1, Down

-----------------------------------------------------------------------------
(* The end of the goroutine's stack.                                       *)

\* Where there is no room for what a conversion asks for, the process ends.
LEMMA Overflow ==
    ASSUME NEW c, IsStore(c), NEW off, NEW r \in Requests, NEW st, Walk(c, r, st), Right(c, off, r, st),
           Len(st) = MaxDepth, NEW g, Stands(c, r, g, Len(st)), Src(g) = Src(st[Len(st)]),
           NEW h, Waits(c, r, g, Len(st), h), Src(h) \in Present(c), Holds(c, off, r, g, Len(st), 1)
    PROVE  Crashed \in TotalOf(c, off, r, st[1], 1)
<1>1. Len(st) \in 1..MaxDepth
  BY DEF Walk
<1>2. Crashed \in Below(c, off, Len(st))[Src(h)]
  <2>1. MaxDepth - MaxDepth = 0
    BY PipelineAssumptions
  <2>2. Below(c, off, Len(st)) = Meaning(c, off)[0]
    BY <2>1 DEF Below
  <2>3. Meaning(c, off)[0][Src(h)] = {Crashed}
    BY MeaningEnd
  <2> QED
    BY <2>2, <2>3
<1>3. Crashed.st \notin {"ok", "err"}
  BY DEF Crashed
<1>4. Crashed \in TotalOf(c, off, r, g, Len(st))
  BY <1>1, <1>2, <1>3, Spreads
<1>5. Crashed \in TotalOf(c, off, r, st[Len(st)], Len(st))
  BY <1>4 DEF TotalOf
<1> QED
  BY <1>3, <1>5, Ended

\* A conversion that runs its source's own operators waits for what the source
\* asks for.
LEMMA WaitsForAsked ==
    ASSUME NEW c, IsStore(c), NEW r \in Requests, NEW k, k # 1, NEW f, Stands(c, r, f, k),
           NEW g, Waits(c, r, f, k, g), Src(g) \in Present(c)
    PROVE  Src(g) \in Asks(c, Src(f))
<1> DEFINE s == Src(f)
           rec == c[s[1]][s[2]]
           pulling == {i \in DOMAIN rec.process : ~rec.process[i].disabled /\ rec.process[i].type = AddProxies}
           pulled == {Source(rec.process[i].args) : i \in pulling}
           members == {<<"sub", rec.subscriptions[i]>> : i \in DOMAIN rec.subscriptions}
<1>1. s \in Present(c) /\ s[1] = f.kind /\ s[2] = f.name
  BY DEF Stands, Src
<1>2. rec = c[f.kind][f.name]
  BY <1>1
<1>3. IsList(rec.process) /\ (s[1] = "col" => IsList(rec.subscriptions))
  BY <1>1, StoreRecords DEF Process
<1>4. Asks(c, s) = (pulled \cup (IF s[1] = "sub" THEN {} ELSE members)) \cap Present(c)
  BY DEF Asks
<1>5. CASE f.pc = "members"
  <2> DEFINE at == Past(f.todo, Names(c, f))
  <2>1. f.kind = "col" /\ at \in 1..Len(Names(c, f)) /\ Src(g) = <<"sub", Names(c, f)[at]>>
    BY <1>5 DEF Stands, Waits
  <2>2. Names(c, f) = rec.subscriptions
    BY <1>2 DEF Names
  <2>3. DOMAIN rec.subscriptions = 1..Len(rec.subscriptions)
    BY <1>1, <1>3, <2>1 DEF IsList
  <2> HIDE DEF at, rec, s
  <2>4. Src(g) \in members
    BY <2>1, <2>2, <2>3
  <2>5. s[1] # "sub"
    BY <1>1, <2>1
  <2> HIDE DEF members, pulled
  <2> QED
    BY <1>4, <2>4, <2>5 DEF s
<1>6. CASE f.pc = "apply"
  <2> DEFINE at == Past(f.ops, OpsOf(c, r, f, k))
  <2>1. OpsOf(c, r, f, k) = rec.process
    BY DEF OpsOf, OpsAt
  <2>2. /\ at \in 1..Len(rec.process)
        /\ ~rec.process[at].disabled /\ rec.process[at].type = AddProxies
        /\ Src(g) = Source(rec.process[at].args)
    BY <1>6, <2>1 DEF Waits
  <2>3. DOMAIN rec.process = 1..Len(rec.process)
    BY <1>3 DEF IsList
  <2> HIDE DEF at, rec, s
  <2>4. at \in pulling
    BY <2>2, <2>3
  <2> HIDE DEF pulling
  <2>5. Src(g) \in pulled
    BY <2>2, <2>4
  <2> HIDE DEF members, pulled
  <2> QED
    BY <1>4, <2>5 DEF s
<1> QED
  BY <1>5, <1>6 DEF Waits

\* As many sources as the stack has room for, each asking for the next, have a
\* circle among them.
LEMMA LongChain ==
    ASSUME NEW c, IsStore(c), NEW q \in [2..(MaxDepth + 1) -> Present(c)],
           \A k \in 2..MaxDepth : q[k + 1] \in Asks(c, q[k])
    PROVE  ~Acyclic(c)
<1>1. /\ IsFiniteSet(Present(c)) /\ Cardinality(Present(c)) \in Nat
      /\ Cardinality(Present(c)) < MaxDepth /\ MaxDepth \in Nat \ {0}
  BY StoreFinite
<1>2. IsFiniteSet(2..(MaxDepth + 1)) /\ Cardinality(2..(MaxDepth + 1)) = MaxDepth
  <2>1. 2 \in Int /\ MaxDepth + 1 \in Int /\ ~(2 > MaxDepth + 1) /\ (MaxDepth + 1) - 2 + 1 = MaxDepth
    BY <1>1
  <2> QED
    BY <2>1, FS_Interval
<1>3. \E x, y \in 2..(MaxDepth + 1) : x # y /\ q[x] = q[y]
  BY <1>1, <1>2, FS_PigeonHole
<1>4. PICK i \in 2..(MaxDepth + 1), j \in 2..(MaxDepth + 1) : i < j /\ q[i] = q[j]
  BY <1>1, <1>3
<1> DEFINE S == {q[k] : k \in i..(j - 1)}
           asks == [s \in Present(c) |-> Asks(c, s)]
<1>5. i \in i..(j - 1) /\ \A k \in i..(j - 1) : k \in 2..MaxDepth /\ k \in 2..(MaxDepth + 1) /\ k \in Int
  BY <1>1, <1>4
<1>6. S \in (SUBSET Present(c)) \ {{}} /\ q[i] \in S
  BY <1>5
<1>7. ASSUME Acyclic(c) PROVE FALSE
  <2>1. \A U \in (SUBSET Present(c)) \ {{}} : \E s \in U : asks[s] \cap U = {}
    BY <1>7 DEF Acyclic
  <2> HIDE DEF asks
  <2>2. PICK s \in S : asks[s] \cap S = {}
    <3> HIDE DEF S
    <3> QED
      BY <1>6, <2>1
  <2>3. PICK k \in i..(j - 1) : s = q[k]
    OBVIOUS
  <2>4. q[k + 1] \in asks[s]
    BY <1>5, <2>3 DEF asks
  <2>5. q[k + 1] \in S
    <3>1. CASE k + 1 = j
      BY <1>4, <1>6, <3>1
    <3>2. CASE k + 1 # j
      <4>1. k + 1 \in i..(j - 1)
        BY <1>4, <1>5, <3>2
      <4> QED
        BY <4>1
    <3> QED
      BY <3>1, <3>2
  <2> HIDE DEF S
  <2> QED
    BY <2>2, <2>4, <2>5
<1> QED
  BY <1>7

\* So a stack that is used up has a circle of sources on it.
LEMMA UsedUp ==
    ASSUME NEW c, IsStore(c), NEW r \in Requests, NEW st, Walk(c, r, st), Len(st) = MaxDepth,
           NEW g, Stands(c, r, g, Len(st)), Src(g) = Src(st[Len(st)]),
           NEW h, Waits(c, r, g, Len(st), h), Src(h) \in Present(c)
    PROVE  ~Acyclic(c)
<1> DEFINE n == MaxDepth
           q == [k \in 2..(n + 1) |-> IF k = n + 1 THEN Src(h) ELSE Src(st[k])]
<1>1. n \in Nat \ {0} /\ Len(st) = n
  BY StoreFinite
<1>2. \A k \in 2..n : k \in 1..n /\ k \in 2..(n + 1) /\ k # n + 1 /\ k # 1
  BY <1>1
<1>3. \A k \in 2..n : Stands(c, r, st[k], k) /\ Src(st[k]) \in Present(c) /\ q[k] = Src(st[k])
  BY <1>1, <1>2 DEF Walk, Stands
<1>4. q[n + 1] = Src(h)
  BY <1>1
<1>5. q \in [2..(n + 1) -> Present(c)]
  <2>1. \A k \in 2..(n + 1) : k = n + 1 \/ k \in 2..n
    BY <1>1
  <2>2. \A k \in 2..(n + 1) : q[k] \in Present(c)
    <3> HIDE DEF q
    <3> QED
      BY <1>3, <1>4, <2>1
  <2> QED
    BY <2>2
<1>6. ASSUME NEW k \in 2..n PROVE q[k + 1] \in Asks(c, q[k])
  <2>1. CASE k = n
    <3>1. n # 1 /\ Src(g) = q[k] /\ q[k + 1] = Src(h)
      BY <1>1, <1>2, <1>3, <1>4, <2>1
    <3> HIDE DEF q
    <3> QED
      BY <1>1, <2>1, <3>1, WaitsForAsked
  <2>2. CASE k # n
    <3>1. k \in 1..(n - 1) /\ k + 1 \in 2..n
      BY <1>1, <2>2
    <3>2. Waits(c, r, st[k], k, st[k + 1]) /\ k # 1
      BY <1>1, <1>2, <3>1 DEF Walk
    <3>3. q[k + 1] = Src(st[k + 1]) /\ Src(st[k + 1]) \in Present(c) /\ Stands(c, r, st[k], k) /\ q[k] = Src(st[k])
      BY <1>3, <3>1
    <3> HIDE DEF q
    <3> QED
      BY <3>2, <3>3, WaitsForAsked
  <2> QED
    BY <2>1, <2>2
<1> HIDE DEF q
<1> QED
  BY <1>5, <1>6, LongChain

-----------------------------------------------------------------------------
(* The request being served.                                               *)

\* An operator gives a list, an error or a panic.
LEMMA RunOutcomes ==
    ASSUME NEW op, NEW list, NEW out \in Run(op, list)
    PROVE  out = Err \/ out = Panic \/ (out = Ok(out.list) /\ out.st = "ok")
<1>1. \A l : Ok(l) = Ok(Ok(l).list) /\ Ok(l).st = "ok"
  BY DEF Ok
<1>2. \E l : out \in {Err, Panic, Ok(l)}
  <2>1. conditionalFilter(op.args, list) \in {Err, Panic} \/ \E l : conditionalFilter(op.args, list) = Ok(l)
    BY DEF conditionalFilter
  <2> QED
    BY <2>1 DEF Run
<1> QED
  BY <1>1, <1>2

\* The request found the store c; as long as there was no edit, that is the store.
Serving(c) ==
    /\ IsStore(c) /\ Within(catalog, c)
    /\ acyclic => Acyclic(c)
    /\ Walk(c, req, stack)
    /\ edits = 0 => catalog = c /\ Src(stack[1]) = Asked /\ Right(c, down, req, stack)

\* The inductive invariant.
Inv ==
    /\ IsStore(catalog) /\ edits \in Nat
    /\ req = NoReq => answer = None
    /\ stack # <<>> => req \in Requests /\ answer = None /\ \E c : Serving(c)
    /\ AnswersMatchReference

\* A target that is not known, which a subscription finds out before its nodes.
Early == ~req.known /\ Asked[1] = "sub"

\* What the first conversion comes to is what is expected.
LEMMA ExpectedIs ==
    ASSUME req \in Requests, NEW c, Serving(c), edits = 0, ~Early,
           NEW o \in TotalOf(c, down, req, stack[1], 1)
    PROVE  (IF o.st = "ok" /\ ~req.known THEN Err ELSE o) \in Expected
<1> DEFINE s == Asked
<1>1. IsStore(c) /\ catalog = c /\ Src(stack[1]) = s /\ Walk(c, req, stack)
  BY DEF Serving
<1>2. Src(stack[1]) \in Present(c)
  <2>1. Stands(c, req, stack[1], 1)
    BY <1>1 DEF Walk
  <2> QED
    BY <2>1 DEF Stands
<1>3. o \in Total(c, down, req, s, 1)
  BY <1>1 DEF TotalOf
<1>4. OpsAt(c, req, s, 1) = AskedOps
  BY <1>1 DEF OpsAt, AskedOps
<1>5. Begun(c, down, req, s, 1) = Listed(c, down, s, req.by = "sub", Below(c, down, 1))
  BY DEF Begun
<1>6. o \in Operated(Begun(c, down, req, s, 1), OpsAt(c, req, s, 1), Below(c, down, 1))
  BY <1>1, <1>2, <1>3, TreatedIs
<1>7. o \in Answers
  BY <1>1, <1>4, <1>5, <1>6 DEF Answers, Below
<1>8. s \in Present(catalog)
  BY <1>1, <1>2
<1>9. Expected = IF req.known THEN Answers ELSE {IF x.st = "ok" THEN Err ELSE x : x \in Answers}
  BY <1>8 DEF Expected, Early
<1>10. req.known \in BOOLEAN
  BY PipelineAssumptions
<1>11. CASE req.known
  BY <1>7, <1>9, <1>11
<1>12. CASE ~req.known
  BY <1>7, <1>9, <1>12
<1> QED
  BY <1>10, <1>11, <1>12

\* An error where the target is not known.
LEMMA EarlyErr == Early => Err \in Expected
BY DEF Early, Expected

\* The request goes on.
LEMMA GoesOn ==
    ASSUME Inv, stack # <<>>, NEW c, Serving(c), UNCHANGED <<catalog, down, req, edits, acyclic, answer>>,
           Walk(c, req, stack'), Src(stack'[1]) = Src(stack[1]), edits = 0 => Right(c, down, req, stack')
    PROVE  Inv'
<1>1. Serving(c)'
  BY DEF Serving, Asked
<1>2. AnswersMatchReference'
  BY DEF Inv, AnswersMatchReference, Expected, Answers, AskedOps, Asked
<1> QED
  BY <1>1, <1>2 DEF Inv

\* The client gets its answer.
LEMMA GivesAnswer ==
    ASSUME Inv, stack # <<>>, UNCHANGED <<catalog, down, req, edits, acyclic>>, stack' = <<>>,
           edits = 0 => answer' \in Expected, acyclic => answer' # Crashed
    PROVE  Inv'
<1>1. req # NoReq
  <2>1. req \in Requests
    BY DEF Inv
  <2>2. req.by \in {"download", "sub", "col"}
    BY <2>1, PipelineAssumptions
  <2>3. NoReq.by = "nobody"
    BY DEF NoReq
  <2> QED
    BY <2>2, <2>3
<1>2. AnswersMatchReference'
  BY DEF AnswersMatchReference, Expected, Answers, AskedOps, Asked
<1> QED
  BY <1>1, <1>2 DEF Inv

\* Once a conversion is past its fetch or deeper on the stack, the target is known
\* or a collection is asked for.
LEMMA NotEarly ==
    ASSUME req \in Requests, NEW c, Serving(c), edits = 0, Len(stack) # 1 \/ Top.pc # "fetch"
    PROVE  ~Early
<1>1. Walk(c, req, stack) /\ Src(stack[1]) = Asked
  BY DEF Serving
<1>2. Len(stack) \in 1..MaxDepth /\ MaxDepth \in Nat /\ Stands(c, req, stack[1], 1)
  BY <1>1, PipelineAssumptions DEF Walk
<1>3. stack[1].pc # "fetch"
  <2>1. CASE Len(stack) = 1
    BY <2>1 DEF Top
  <2>2. CASE Len(stack) # 1
    <3>1. 1 \in 1..(Len(stack) - 1)
      BY <1>2, <2>2
    <3>2. Waits(c, req, stack[1], 1, stack[1 + 1])
      BY <1>1, <3>1 DEF Walk
    <3> QED
      BY <3>2 DEF Waits
  <2> QED
    BY <2>1, <2>2
<1>4. ~req.known => stack[1].kind = "col"
  BY <1>2, <1>3 DEF Stands
<1>5. Asked[1] = stack[1].kind
  <2>1. Src(stack[1])[1] = stack[1].kind
    BY DEF Src
  <2> QED
    BY <1>1, <2>1
<1> QED
  BY <1>4, <1>5 DEF Early

\* The n-th conversion fails.
LEMMA FailStep ==
    ASSUME Inv, stack # <<>>, NEW c, Serving(c), Fail(stack), UNCHANGED <<catalog, down, req, edits, acyclic>>,
           edits = 0 => \/ Early /\ Len(stack) = 1
                        \/ \E n \in 1..Len(stack) : /\ Err \in TotalOf(c, down, req, stack[n], n)
                                                    /\ \A k \in (n + 1)..Len(stack) : stack[k].into # "member"
    PROVE  Inv'
<1> DEFINE members == {k \in DOMAIN stack : stack[k].into = "member"}
<1>1. IsStore(c) /\ Walk(c, req, stack) /\ req \in Requests /\ (edits = 0 => Right(c, down, req, stack))
  BY DEF Serving, Inv
<1>2. IF members = {} THEN stack' = <<>> /\ answer' = Err
      ELSE stack' = SubSeq(stack, 1, LastMember(stack) - 1) /\ UNCHANGED answer
  BY DEF Fail, LastMember
<1>3. CASE members = {}
  <2>1. stack' = <<>> /\ answer' = Err /\ \A k \in DOMAIN stack : stack[k].into # "member"
    BY <1>2, <1>3
  <2>2. ASSUME edits = 0 PROVE Err \in Expected
    <3>1. CASE Early
      BY <3>1, EarlyErr
    <3>2. CASE ~Early
      <4>1. PICK n \in 1..Len(stack) : Err \in TotalOf(c, down, req, stack[n], n)
        BY <2>2, <3>2
      <4>2. Err \in TotalOf(c, down, req, stack[1], 1)
        BY <1>1, <2>1, <2>2, <4>1, FailedRequest
      <4>3. Err.st # "ok"
        BY DEF Err
      <4> QED
        BY <1>1, <2>2, <3>2, <4>2, <4>3, ExpectedIs
    <3> QED
      BY <3>1, <3>2
  <2>3. Err # Crashed
    BY DEF Err, Crashed
  <2> QED
    BY <2>1, <2>2, <2>3, GivesAnswer
<1>4. CASE members # {}
  <2>1. \E k \in DOMAIN stack : stack[k].into = "member"
    BY <1>4
  <2>2. stack' = SubSeq(stack, 1, LastMember(stack) - 1) /\ UNCHANGED answer
    BY <1>2, <1>4
  <2>3. Walk(c, req, stack') /\ Src(stack'[1]) = Src(stack[1])
    BY <1>1, <2>1, <2>2, FailedMember
  <2>4. ASSUME edits = 0 PROVE Right(c, down, req, stack')
    <3>1. Len(stack) # 1
      <4>1. LastMember(stack) \in 2..Len(stack)
        BY <1>1, <2>1, LastMemberIs
      <4>2. ASSUME Len(stack) = 1 PROVE FALSE
        <5>1. LastMember(stack) \in 2..1
          BY <4>1, <4>2
        <5> QED
          BY <5>1
      <4> QED
        BY <4>2
    <3>2. \E n \in 1..Len(stack) : /\ Err \in TotalOf(c, down, req, stack[n], n)
                                   /\ \A k \in (n + 1)..Len(stack) : stack[k].into # "member"
      BY <2>4, <3>1
    <3> QED
      BY <1>1, <2>1, <2>2, <2>4, <3>2, FailedMember
  <2> QED
    BY <2>2, <2>3, <2>4, GoesOn
<1> QED
  BY <1>3, <1>4

\* The last conversion goes on.
LEMMA BecomesStep ==
    ASSUME Inv, stack # <<>>, NEW c, Serving(c), NEW g, Becomes(g), UNCHANGED <<catalog, down, req, edits, acyclic>>,
           Stands(c, req, g, Len(stack)), Src(g) = Src(Top), g.into = Top.into,
           edits = 0 => Holds(c, down, req, g, Len(stack), 0)
    PROVE  Inv'
<1>1. Walk(c, req, stack) /\ (edits = 0 => Right(c, down, req, stack))
  BY DEF Serving
<1>2. stack' = [stack EXCEPT ![Len(stack)] = g] /\ UNCHANGED answer
  BY DEF Becomes
<1>3. Src(g) = Src(stack[Len(stack)]) /\ g.into = stack[Len(stack)].into
  BY DEF Top
<1>4. Walk(c, req, stack') /\ Src(stack'[1]) = Src(stack[1])
  <2> DEFINE st2 == [stack EXCEPT ![Len(stack)] = g]
  <2>1. Walk(c, req, st2) /\ Src(st2[1]) = Src(stack[1])
    BY <1>1, <1>3, Replaced
  <2>2. stack' = st2
    BY <1>2
  <2> HIDE DEF st2
  <2> QED
    BY <2>1, <2>2
<1>5. ASSUME edits = 0 PROVE Right(c, down, req, stack')
  <2>1. \A k \in 1..(Len(stack) - 1) : Holds(c, down, req, stack[k], k, 1)
    BY <1>1, <1>5 DEF Right
  <2> QED
    BY <1>1, <1>2, <1>3, <1>5, <2>1, Replaced
<1> QED
  BY <1>2, <1>4, <1>5, GoesOn

\* It asks for another one.
LEMMA PushStep ==
    ASSUME Inv, stack # <<>>, NEW c, Serving(c), NEW g, NEW h, Push(g, h),
           UNCHANGED <<catalog, down, req, edits, acyclic>>, Top.pc # "fetch",
           Stands(c, req, g, Len(stack)), Src(g) = Src(Top), g.into = Top.into,
           Stands(c, req, h, Len(stack) + 1), Waits(c, req, g, Len(stack), h),
           edits = 0 => Holds(c, down, req, g, Len(stack), 1) /\ Holds(c, down, req, h, Len(stack) + 1, 0)
    PROVE  Inv'
<1>1. IsStore(c) /\ Walk(c, req, stack) /\ req \in Requests /\ (edits = 0 => Right(c, down, req, stack))
      /\ (acyclic => Acyclic(c))
  BY DEF Serving, Inv
<1>2. Src(g) = Src(stack[Len(stack)]) /\ g.into = stack[Len(stack)].into
  BY DEF Top
<1>3. CASE Len(stack) < MaxDepth
  <2>1. stack' = Append([stack EXCEPT ![Len(stack)] = g], h) /\ UNCHANGED answer
    BY <1>3 DEF Push
  <2>2. Walk(c, req, stack') /\ Src(stack'[1]) = Src(stack[1])
    BY <1>1, <1>2, <1>3, <2>1, Pushed
  <2>3. ASSUME edits = 0 PROVE Right(c, down, req, stack')
    BY <1>1, <1>2, <1>3, <2>1, <2>3, Pushed
  <2> QED
    BY <2>1, <2>2, <2>3, GoesOn
<1>4. CASE ~(Len(stack) < MaxDepth)
  <2>1. stack' = <<>> /\ answer' = Crashed
    BY <1>4 DEF Push
  <2>2. Len(stack) = MaxDepth
    BY <1>1, <1>4, PipelineAssumptions DEF Walk
  <2>3. Src(h) \in Present(c)
    BY DEF Stands
  <2>4. ~Acyclic(c)
    BY <1>1, <1>2, <2>2, <2>3, UsedUp
  <2>5. ASSUME edits = 0 PROVE Crashed \in Expected
    <3>1. Crashed \in TotalOf(c, down, req, stack[1], 1)
      BY <1>1, <1>2, <2>2, <2>3, <2>5, Overflow
    <3>2. Crashed.st # "ok"
      BY DEF Crashed
    <3>3. ~Early
      BY <1>1, <2>5, NotEarly
    <3> QED
      BY <1>1, <2>5, <3>1, <3>2, <3>3, ExpectedIs
  <2> QED
    BY <1>1, <2>1, <2>4, <2>5, GivesAnswer
<1> QED
  BY <1>3, <1>4

\* What is known of the last conversion.
LEMMA TopIs ==
    ASSUME Inv, stack # <<>>, NEW c, Serving(c)
    PROVE  /\ IsStore(c) /\ req \in Requests
           /\ Len(stack) \in 1..MaxDepth /\ MaxDepth \in Nat
           /\ Stands(c, req, Top, Len(stack)) /\ Top = stack[Len(stack)]
           /\ Src(Top) \in Present(c) /\ Src(Top)[1] = Top.kind /\ Src(Top)[2] = Top.name
           /\ edits = 0 => catalog = c /\ Holds(c, down, req, Top, Len(stack), 0)
<1>1. Walk(c, req, stack) /\ (edits = 0 => catalog = c /\ Right(c, down, req, stack))
  BY DEF Serving
<1>2. Len(stack) \in 1..MaxDepth /\ MaxDepth \in Nat
  BY <1>1, PipelineAssumptions DEF Walk
<1>3. Stands(c, req, Top, Len(stack))
  BY <1>1, <1>2 DEF Walk, Top
<1>4. IsStore(c) /\ req \in Requests
  BY DEF Serving, Inv
<1>5. edits = 0 => Holds(c, down, req, Top, Len(stack), 0)
  BY <1>1 DEF Right, Top
<1>6. Src(Top) \in Present(c)
  BY <1>3 DEF Stands
<1>7. Src(Top)[1] = Top.kind /\ Src(Top)[2] = Top.name
  BY DEF Src
<1> QED
  BY <1>1, <1>2, <1>3, <1>4, <1>5, <1>6, <1>7 DEF Top

\* The k-th conversion, when it begins.
Fresh(c, r, s, k, into) == Frame(s[1], s[2], c[s[1]][s[2]], OpsAt(c, r, s, k), into)

\* It begins with nothing done.
LEMMA Started ==
    ASSUME NEW c, IsStore(c), NEW off, NEW r \in Requests, NEW s \in Present(c), NEW k,
           NEW into \in {"top", "member", "front", "back", "replace"}, into = "top" <=> k = 1
    PROVE  LET h == Fresh(c, r, s, k, into)
           IN /\ Stands(c, r, h, k) /\ Holds(c, off, r, h, k, 0)
              /\ Src(h) = s /\ h.into = into /\ h.name = s[2]
<1> DEFINE kind == s[1]
           name == s[2]
           rec == c[kind][name]
           ops == OpsAt(c, r, s, k)
           h == Fresh(c, r, s, k, into)
<1>1. s = <<kind, name>> /\ kind \in {"sub", "col"} /\ name \in DOMAIN c[kind]
  BY PresentIs
<1>2. IsList(ops) /\ (kind = "col" => IsList(rec.subscriptions))
  BY OpsAtIs, StoreRecords
<1>3. h = [kind |-> kind, name |-> name, ops |-> ops, into |-> into, list |-> <<>>,
           pc |-> IF kind = "sub" THEN "fetch" ELSE "members",
           raw |-> IF kind = "sub" THEN rec.content ELSE <<>>,
           todo |-> IF kind = "sub" THEN <<>> ELSE rec.subscriptions]
  BY DEF Frame, Fresh
<1> HIDE DEF rec, ops, kind, name, h
<1>4. /\ h.kind = kind /\ h.name = name /\ h.ops = ops /\ h.into = into /\ h.list = <<>>
      /\ kind = "sub" => h.pc = "fetch" /\ h.raw = rec.content
      /\ kind = "col" => h.pc = "members" /\ h.todo = rec.subscriptions
  BY <1>1, <1>3
<1>5. IsFrame(h)
  BY <1>3 DEF IsFrame
<1>6. Src(h) = s
  BY <1>1, <1>4 DEF Src
<1>7. OpsOf(c, r, h, k) = ops
  BY <1>6 DEF OpsOf, ops
<1>8. kind = "col" => Names(c, h) = rec.subscriptions
  BY <1>4 DEF Names, rec
<1>9. Stands(c, r, h, k)
  <2>1. Remains(h.ops, OpsOf(c, r, h, k))
    BY <1>2, <1>4, <1>7, RemainsAll
  <2>2. kind = "col" => Remains(h.todo, Names(c, h))
    BY <1>2, <1>4, <1>8, RemainsAll
  <2>3. h.into \in {"top", "member", "front", "back", "replace"} /\ (h.into = "top" <=> k = 1)
    BY <1>4
  <2>4. h.pc = "fetch" => h.raw = c[h.kind][h.name].content /\ h.ops = OpsOf(c, r, h, k)
    BY <1>1, <1>4, <1>7 DEF rec
  <2>5. /\ h.pc \in {"fetch", "members", "apply"} /\ (h.pc = "fetch" => h.kind = "sub")
        /\ (h.pc # "fetch" => h.kind = "col" /\ kind = "col")
    BY <1>1, <1>4
  <2> QED
    BY <1>1, <1>4, <1>5, <1>6, <1>7, <2>1, <2>2, <2>3, <2>4, <2>5 DEF Stands
<1>10. Holds(c, off, r, h, k, 0)
  <2>1. h.pc # "apply"
    BY <1>1, <1>4
  <2>2. ASSUME h.pc = "members" PROVE Ok(h.list) \in InOrder(c, off, Src(h), k)[Past(h.todo, Names(c, h)) - 0]
    <3>1. kind = "col"
      BY <1>1, <1>4, <2>2
    <3>2. Past(h.todo, Names(c, h)) = 0
      BY <1>2, <1>4, <1>8, <3>1, RemainsAll
    <3>3. Ok(<<>>) \in InOrder(c, off, s, k)[0]
      BY <3>1, InOrderStart DEF kind
    <3>4. Past(h.todo, Names(c, h)) - 0 = 0
      BY <3>2
    <3> QED
      BY <1>4, <1>6, <3>3, <3>4
  <2> QED
    BY <2>1, <2>2 DEF Holds
<1> QED
  BY <1>4, <1>6, <1>9, <1>10 DEF h, name

\* So does one that another asks for.
LEMMA Callee ==
    ASSUME NEW c, Serving(c), req \in Requests, NEW kind \in {"sub", "col"}, NEW name \in DOMAIN catalog[kind],
           NEW into \in {"member", "front", "back", "replace"}, NEW n \in 1..MaxDepth
    PROVE  LET h == Begin(kind, name, catalog[kind][name].process, into)
           IN /\ Stands(c, req, h, n + 1) /\ Holds(c, down, req, h, n + 1, 0)
              /\ Src(h) = <<kind, name>> /\ h.into = into /\ h.name = name
<1> DEFINE h == Begin(kind, name, catalog[kind][name].process, into)
           s == <<kind, name>>
           k == n + 1
<1>1. IsStore(c) /\ Within(catalog, c)
  BY DEF Serving
<1>2. name \in DOMAIN c[kind] /\ catalog[kind][name] = c[kind][name]
  BY <1>1 DEF Within
<1>3. k # 1
  OBVIOUS
<1>4. s \in Present(c) /\ s[1] = kind /\ s[2] = name
  BY <1>2, PresentIs
<1> HIDE DEF k, s
<1>5. h = Fresh(c, req, s, k, into)
  BY <1>2, <1>3, <1>4 DEF Begin, Fresh, OpsAt
<1>6. into \in {"top", "member", "front", "back", "replace"} /\ (into = "top" <=> k = 1)
  BY <1>3
<1> HIDE DEF h
<1>7. /\ Stands(c, req, h, k) /\ Holds(c, down, req, h, k, 0)
      /\ Src(h) = s /\ h.into = into /\ h.name = s[2]
  <2> DEFINE q == Fresh(c, req, s, k, into)
  <2>1. s \in Present(c) /\ IsStore(c) /\ req \in Requests
    BY <1>1, <1>4
  <2>2. /\ Stands(c, req, q, k) /\ Holds(c, down, req, q, k, 0)
        /\ Src(q) = s /\ q.into = into /\ q.name = s[2]
    BY <1>6, <2>1, Started
  <2> HIDE DEF q
  <2>3. h = q
    BY <1>5 DEF q
  <2> QED
    BY <2>2, <2>3
<1> QED
  BY <1>4, <1>7 DEF h, k, s

\* A subscription is fetched and its nodes are tagged.
LEMMA SubProxiesStep == Inv /\ SubProxies => Inv'
<1> SUFFICES ASSUME Inv, SubProxies PROVE Inv'
  OBVIOUS
<1> DEFINE n == Len(stack)
           f == Top
           s == Src(f)
           tagged(p) == Set(p, "_subName", <<f.name>>)
           plain == f.into = "top" /\ req.by # "download"
           nodes == Parse(f.raw)
           list == IF plain THEN nodes ELSE Each(nodes, tagged)
           g == [f EXCEPT !.pc = "apply", !.list = list]
<1>1. stack # <<>> /\ f.pc = "fetch" /\ UNCHANGED <<catalog, down, req, edits, acyclic>>
  BY DEF SubProxies
<1>2. IF f.name \in down \/ (f.into = "top" /\ ~req.known) THEN Fail(stack) ELSE Becomes(g)
  BY DEF SubProxies
<1>3. PICK c : Serving(c)
  BY <1>1 DEF Inv
<1>4. /\ IsStore(c) /\ req \in Requests /\ n \in 1..MaxDepth /\ MaxDepth \in Nat
      /\ Stands(c, req, f, n) /\ f = stack[n]
      /\ s \in Present(c) /\ s[1] = f.kind /\ s[2] = f.name
      /\ edits = 0 => catalog = c /\ Holds(c, down, req, f, n, 0)
  BY <1>1, <1>3, TopIs
<1>5. f.kind = "sub" /\ f.raw = c[f.kind][f.name].content /\ f.ops = OpsOf(c, req, f, n) /\ (f.into = "top" <=> n = 1)
  BY <1>1, <1>4 DEF Stands
<1>6. ASSUME edits = 0, n = 1 PROVE Asked = s
  BY <1>3, <1>4, <1>6 DEF Serving
<1>7. Begun(c, down, req, s, n)
        = IF f.name \in down THEN {Err}
          ELSE {Ok(IF n = 1 /\ req.by = "sub" THEN nodes ELSE TagSub(nodes, f.name))}
  <2>1. Begun(c, down, req, s, n)
          = IF s[1] = "col" THEN {Collected(s[2], got) : got \in Gathered(c[s[1]][s[2]].subscriptions, Below(c, down, n))}
            ELSE IF s[2] \in down THEN {Err}
            ELSE {Ok(IF n = 1 /\ req.by = "sub" THEN Parse(c[s[1]][s[2]].content) ELSE TagSub(Parse(c[s[1]][s[2]].content), s[2]))}
    BY DEF Begun, Listed
  <2> HIDE DEF s
  <2> QED
    BY <1>4, <1>5, <2>1
<1>8. Treated(c, down, req, s, n)[0] = Begun(c, down, req, s, n)
  BY <1>4, TreatedIs
<1>9. CASE f.name \in down \/ (f.into = "top" /\ ~req.known)
  <2>1. ASSUME edits = 0, ~(Early /\ n = 1) PROVE Err \in TotalOf(c, down, req, stack[n], n)
    <3>1. f.name \in down
      <4>1. CASE n = 1
        BY <1>4, <1>5, <1>6, <1>9, <2>1, <4>1 DEF Early
      <4>2. CASE n # 1
        BY <1>5, <1>9, <4>2
      <4> QED
        BY <4>1, <4>2
    <3>2. Err \in Treated(c, down, req, s, n)[0] /\ Err.st # "ok"
      BY <1>7, <1>8, <3>1 DEF Err
    <3>3. 0 \in 0..Len(OpsAt(c, req, s, n))
      BY <1>4, OpsAtIs
    <3>4. Err \in Total(c, down, req, s, n)
      BY <1>4, <3>2, <3>3, TreatedSticky
    <3> QED
      BY <1>4, <3>4 DEF TotalOf
  <2>2. n \in 1..Len(stack) /\ \A k \in (n + 1)..Len(stack) : stack[k].into # "member"
    BY <1>4
  <2>3. Fail(stack)
    BY <1>2, <1>9
  <2> QED
    BY <1>1, <1>3, <2>1, <2>2, <2>3, FailStep
<1>10. CASE ~(f.name \in down \/ (f.into = "top" /\ ~req.known))
  <2>1. Becomes(g)
    BY <1>2, <1>10
  <2>2. IsFrame(f)
    BY <1>4 DEF Stands
  <2>3. /\ IsFrame(g) /\ g.pc = "apply" /\ g.list = list /\ g.ops = f.ops
        /\ g.kind = f.kind /\ g.name = f.name /\ g.into = f.into
    <3>1. g = Loaded(f, list)
      BY DEF Loaded
    <3> HIDE DEF list, f, g
    <3> QED
      BY <2>2, <3>1, LoadedIs
  <2> HIDE DEF g
  <2>4. Src(g) = s /\ OpsOf(c, req, g, n) = OpsOf(c, req, f, n)
    BY <2>3 DEF Src, OpsOf
  <2>5. Stands(c, req, g, n)
    BY <1>4, <1>5, <1>10, <2>3, <2>4 DEF Stands
  <2>6. ASSUME edits = 0 PROVE Holds(c, down, req, g, n, 0)
    <3>1. IsList(OpsOf(c, req, f, n))
      BY <1>4, OpsAtIs DEF OpsOf
    <3>2. Past(g.ops, OpsOf(c, req, g, n)) - 0 = 0
      BY <1>5, <2>3, <2>4, <3>1, RemainsAll
    <3>3. g.list = IF n = 1 /\ req.by = "sub" THEN nodes ELSE TagSub(nodes, f.name)
      <4>1. Each(nodes, tagged) = TagSub(nodes, f.name)
        BY DEF TagSub
      <4>2. plain <=> n = 1 /\ req.by = "sub"
        <5>1. req.by \in {"download", "sub", "col"}
          BY <1>4, PipelineAssumptions
        <5>2. CASE n = 1
          <6>1. Asked[1] = "sub"
            BY <1>4, <1>5, <1>6, <2>6, <5>2
          <6>2. req.by # "download" => req.by = "sub"
            BY <6>1 DEF Asked
          <6> QED
            BY <1>5, <5>1, <5>2, <6>2
        <5>3. CASE n # 1
          BY <1>5, <5>3
        <5> QED
          BY <5>2, <5>3
      <4> HIDE DEF plain
      <4> QED
        BY <2>3, <4>1, <4>2
    <3>4. Ok(g.list) \in Treated(c, down, req, s, n)[0]
      BY <1>7, <1>8, <1>10, <3>3
    <3> QED
      BY <2>3, <2>4, <3>2, <3>4 DEF Holds
  <2> QED
    BY <1>1, <1>3, <2>1, <2>3, <2>4, <2>5, <2>6, BecomesStep
<1> QED
  BY <1>9, <1>10

\* A collection's next member is asked for, or passed over when it has no record.
LEMMA CollectionMemberStep == Inv /\ CollectionMember => Inv'
<1> SUFFICES ASSUME Inv, CollectionMember PROVE Inv'
  OBVIOUS
<1> DEFINE n == Len(stack)
           f == Top
           s == Src(f)
           name == Head(f.todo)
           g == WithTodo(f, Tail(f.todo))
           h == Begin("sub", name, catalog["sub"][name].process, "member")
<1>1. stack # <<>> /\ f.pc = "members" /\ f.todo # <<>> /\ UNCHANGED <<catalog, down, req, edits, acyclic>>
  BY DEF CollectionMember
<1>2. IF name \in DOMAIN catalog["sub"] THEN Push(g, h) ELSE Becomes(g)
  BY DEF CollectionMember, WithTodo
<1>3. PICK c : Serving(c)
  BY <1>1 DEF Inv
<1>4. /\ IsStore(c) /\ req \in Requests /\ n \in 1..MaxDepth /\ MaxDepth \in Nat
      /\ Stands(c, req, f, n) /\ f = stack[n]
      /\ s \in Present(c) /\ s[1] = f.kind /\ s[2] = f.name
      /\ edits = 0 => catalog = c /\ Holds(c, down, req, f, n, 0)
  BY <1>1, <1>3, TopIs
<1>5. f.kind = "col" /\ Remains(f.todo, Names(c, f)) /\ f.ops = OpsOf(c, req, f, n) /\ IsFrame(f)
  BY <1>1, <1>4 DEF Stands
<1> DEFINE names == Names(c, f)
<1>6. names = c[s[1]][s[2]].subscriptions /\ IsList(names)
  BY <1>4, <1>5, StoreRecords DEF Names
<1>7. /\ Remains(Tail(f.todo), names) /\ Past(f.todo, names) \in 0..(Len(names) - 1)
      /\ Past(Tail(f.todo), names) = Past(f.todo, names) + 1
      /\ Past(Tail(f.todo), names) \in 1..Len(names) /\ name = names[Past(Tail(f.todo), names)]
  BY <1>1, <1>5, <1>6, RemainsTail
<1>8. /\ IsFrame(g) /\ g.pc = f.pc /\ g.list = f.list /\ g.ops = f.ops /\ g.todo = Tail(f.todo)
      /\ g.kind = f.kind /\ g.name = f.name /\ g.into = f.into /\ g.raw = f.raw
  BY <1>5, WithTodoIs
<1> HIDE DEF f, g, names, name
<1>9. Src(g) = s /\ OpsOf(c, req, g, n) = OpsOf(c, req, f, n) /\ Names(c, g) = names
  BY <1>8 DEF Src, OpsOf, Names, names
<1>10. Stands(c, req, g, n)
  BY <1>1, <1>4, <1>5, <1>7, <1>8, <1>9 DEF Stands
<1>11. edits = 0 => Ok(f.list) \in InOrder(c, down, s, n)[Past(f.todo, names)]
  <2>1. Past(f.todo, names) - 0 = Past(f.todo, names)
    BY <1>7
  <2> QED
    BY <1>1, <1>4, <2>1 DEF Holds, names
<1>12. Past(g.todo, Names(c, g)) - 1 = Past(f.todo, names) /\ Past(g.todo, Names(c, g)) - 0 = Past(f.todo, names) + 1
  BY <1>7, <1>8, <1>9
<1>13. CASE name \in DOMAIN catalog["sub"]
  <2>1. Push(g, h)
    BY <1>2, <1>13
  <2>2. /\ Stands(c, req, h, n + 1) /\ Holds(c, down, req, h, n + 1, 0)
        /\ Src(h) = <<"sub", name>> /\ h.into = "member" /\ h.name = name
    BY <1>3, <1>4, <1>13, Callee
  <2> HIDE DEF h
  <2>3. Waits(c, req, g, n, h)
    BY <1>1, <1>7, <1>8, <1>9, <2>2 DEF Waits
  <2>4. edits = 0 => Holds(c, down, req, g, n, 1)
    BY <1>1, <1>8, <1>9, <1>11, <1>12 DEF Holds
  <2> QED
    BY <1>1, <1>3, <1>8, <1>9, <1>10, <2>1, <2>2, <2>3, <2>4, PushStep DEF f
<1>14. CASE name \notin DOMAIN catalog["sub"]
  <2>1. Becomes(g)
    BY <1>2, <1>14
  <2>2. ASSUME edits = 0 PROVE Holds(c, down, req, g, n, 0)
    <3>1. <<"sub", name>> \notin Present(c)
      BY <1>4, <1>14, <2>2, PresentIs
    <3> DEFINE at == Past(f.todo, names) + 1
    <3>2. at \in 1..Len(c[s[1]][s[2]].subscriptions) /\ at - 1 = Past(f.todo, names)
          /\ name = c[s[1]][s[2]].subscriptions[at]
      <4>1. Past(f.todo, names) \in Int
        BY <1>6, <1>7
      <4>2. at - 1 = Past(f.todo, names)
        BY <4>1
      <4> QED
        BY <1>6, <1>7, <4>2
    <3>3. Ok(f.list) \in InOrder(c, down, s, n)[at - 1]
      BY <1>11, <2>2, <3>2
    <3>4. s[1] = "col"
      BY <1>4, <1>5
    <3> HIDE DEF at, s
    <3>5. Ok(f.list) \in InOrder(c, down, s, n)[at]
      BY <1>4, <3>1, <3>2, <3>3, <3>4, MemberOutcome
    <3> QED
      BY <1>1, <1>8, <1>9, <1>12, <3>5 DEF Holds, at
  <2> QED
    BY <1>1, <1>3, <1>8, <1>9, <1>10, <2>1, <2>2, BecomesStep DEF f
<1> QED
  BY <1>13, <1>14

\* The nodes of the members are tagged; none at all is an error.
LEMMA CollectionProxiesStep == Inv /\ CollectionProxies => Inv'
<1> SUFFICES ASSUME Inv, CollectionProxies PROVE Inv'
  OBVIOUS
<1> DEFINE n == Len(stack)
           f == Top
           s == Src(f)
           tagged(p) == Set(p, "_collectionName", <<f.name>>)
           list == Each(f.list, tagged)
           g == Loaded(f, list)
<1>1. stack # <<>> /\ f.pc = "members" /\ f.todo = <<>> /\ UNCHANGED <<catalog, down, req, edits, acyclic>>
  BY DEF CollectionProxies
<1>2. IF f.list = <<>> THEN Fail(stack) ELSE Becomes(g)
  BY DEF CollectionProxies, Loaded
<1>3. PICK c : Serving(c)
  BY <1>1 DEF Inv
<1>4. /\ IsStore(c) /\ req \in Requests /\ n \in 1..MaxDepth /\ MaxDepth \in Nat
      /\ Stands(c, req, f, n) /\ f = stack[n]
      /\ s \in Present(c) /\ s[1] = f.kind /\ s[2] = f.name
      /\ edits = 0 => catalog = c /\ Holds(c, down, req, f, n, 0)
  BY <1>1, <1>3, TopIs
<1>5. f.kind = "col" /\ Remains(f.todo, Names(c, f)) /\ f.ops = OpsOf(c, req, f, n) /\ IsFrame(f)
  BY <1>1, <1>4 DEF Stands
<1> DEFINE names == Names(c, f)
<1>6. names = c[s[1]][s[2]].subscriptions /\ IsList(names)
  BY <1>4, <1>5, StoreRecords DEF Names
<1>7. Past(f.todo, names) - 0 = Len(names)
  BY <1>1, <1>5, <1>6, PastIn
<1>8. list = TagCol(f.list, f.name)
  BY DEF TagCol
<1> HIDE DEF f, g, names, list
<1>9. ASSUME edits = 0 PROVE Collected(f.name, Ok(f.list)) \in Treated(c, down, req, s, n)[0]
  <2>1. Ok(f.list) \in InOrder(c, down, s, n)[Len(names)]
    BY <1>1, <1>4, <1>7, <1>9 DEF Holds, names
  <2>2. s[1] = "col"
    BY <1>4, <1>5
  <2>3. Treated(c, down, req, s, n)[0] = Begun(c, down, req, s, n)
    BY <1>4, TreatedIs
  <2> HIDE DEF s
  <2>4. Collected(s[2], Ok(f.list)) \in Begun(c, down, req, s, n)
    BY <1>4, <1>6, <2>1, <2>2, CollectedIs
  <2> QED
    BY <1>4, <2>3, <2>4
<1>10. CASE f.list = <<>>
  <2>1. Fail(stack)
    BY <1>2, <1>10
  <2>2. ASSUME edits = 0 PROVE Err \in TotalOf(c, down, req, stack[n], n)
    <3>1. Collected(f.name, Ok(f.list)) = Err
      BY <1>10 DEF Collected, Ok
    <3>2. Err \in Treated(c, down, req, s, n)[0] /\ Err.st # "ok"
      BY <1>9, <2>2, <3>1 DEF Err
    <3>3. 0 \in 0..Len(OpsAt(c, req, s, n))
      BY <1>4, OpsAtIs
    <3>4. Err \in Total(c, down, req, s, n)
      BY <1>4, <3>2, <3>3, TreatedSticky
    <3> QED
      BY <1>4, <3>4 DEF TotalOf
  <2>3. n \in 1..Len(stack) /\ \A k \in (n + 1)..Len(stack) : stack[k].into # "member"
    BY <1>4
  <2> QED
    BY <1>1, <1>3, <2>1, <2>2, <2>3, FailStep
<1>11. CASE f.list # <<>>
  <2>1. Becomes(g)
    BY <1>2, <1>11
  <2>2. /\ IsFrame(g) /\ g.pc = "apply" /\ g.list = list /\ g.ops = f.ops
        /\ g.kind = f.kind /\ g.name = f.name /\ g.into = f.into
    BY <1>5, LoadedIs DEF g
  <2>3. Src(g) = s /\ OpsOf(c, req, g, n) = OpsOf(c, req, f, n)
    BY <2>2 DEF Src, OpsOf
  <2>4. Stands(c, req, g, n)
    BY <1>4, <1>5, <2>2, <2>3 DEF Stands
  <2>5. ASSUME edits = 0 PROVE Holds(c, down, req, g, n, 0)
    <3>1. IsList(OpsOf(c, req, f, n))
      BY <1>4, OpsAtIs DEF OpsOf
    <3>2. Past(g.ops, OpsOf(c, req, g, n)) - 0 = 0
      BY <1>5, <2>2, <2>3, <3>1, RemainsAll
    <3>3. Collected(f.name, Ok(f.list)) = Ok(g.list)
      BY <1>8, <1>11, <2>2 DEF Collected, Ok
    <3> QED
      BY <1>9, <2>2, <2>3, <2>5, <3>2, <3>3 DEF Holds
  <2> QED
    BY <1>1, <1>3, <2>1, <2>2, <2>3, <2>4, <2>5, BecomesStep DEF f
<1> QED
  BY <1>10, <1>11

\* The next operator runs, or asks for its source.
LEMMA ApplyStep == Inv /\ Apply => Inv'
<1> SUFFICES ASSUME Inv, Apply PROVE Inv'
  OBVIOUS
<1> DEFINE n == Len(stack)
           f == Top
           s == Src(f)
           op == Head(f.ops)
           g == WithOps(f, Tail(f.ops))
<1>1. stack # <<>> /\ f.pc = "apply" /\ f.ops # <<>> /\ UNCHANGED <<catalog, down, req, edits, acyclic>>
  BY DEF Apply
<1>2. /\ CASE op.disabled -> Becomes(g)
           [] ~op.disabled /\ op.type = AddProxies -> addProxiesFromSubscription(f)
           [] OTHER -> \E out \in Run(op, f.list) :
                CASE out.st = "ok" -> Becomes([g EXCEPT !.list = out.list])
                  [] out.st = "err" -> Fail(stack)
                  [] out.st = "panic" -> stack' = <<>> /\ answer' = Panic
  BY DEF Apply, WithOps
<1>3. PICK c : Serving(c)
  BY <1>1 DEF Inv
<1>4. /\ IsStore(c) /\ req \in Requests /\ n \in 1..MaxDepth /\ MaxDepth \in Nat
      /\ Stands(c, req, f, n) /\ f = stack[n]
      /\ s \in Present(c) /\ s[1] = f.kind /\ s[2] = f.name
      /\ edits = 0 => catalog = c /\ Holds(c, down, req, f, n, 0)
  BY <1>1, <1>3, TopIs
<1>5. IsFrame(f) /\ Remains(f.ops, OpsOf(c, req, f, n))
  BY <1>4 DEF Stands
<1> DEFINE ops == OpsOf(c, req, f, n)
           at == Past(Tail(f.ops), ops)
<1>6. ops = OpsAt(c, req, s, n) /\ IsList(ops) /\ Process(ops)
  BY <1>4, OpsAtIs DEF OpsOf
<1>7. /\ Remains(Tail(f.ops), ops) /\ Past(f.ops, ops) \in 0..(Len(ops) - 1)
      /\ at = Past(f.ops, ops) + 1 /\ at \in 1..Len(ops) /\ op = ops[at]
  BY <1>1, <1>5, <1>6, RemainsTail
<1>8. /\ IsFrame(g) /\ g.pc = f.pc /\ g.list = f.list /\ g.ops = Tail(f.ops) /\ g.todo = f.todo
      /\ g.kind = f.kind /\ g.name = f.name /\ g.into = f.into /\ g.raw = f.raw
  BY <1>5, WithOpsIs
<1>9. op.disabled \in BOOLEAN
  <2>1. at \in DOMAIN ops
    BY <1>6, <1>7 DEF IsList
  <2> QED
    BY <1>6, <1>7, <2>1 DEF Process
<1> HIDE DEF f, g, ops, op, at
<1>10. Src(g) = s /\ OpsOf(c, req, g, n) = ops
  BY <1>8 DEF Src, OpsOf, ops
<1>11. Stands(c, req, g, n)
  BY <1>1, <1>4, <1>5, <1>7, <1>8, <1>10 DEF Stands
<1>12. edits = 0 => Ok(f.list) \in Treated(c, down, req, s, n)[at - 1]
  <2>1. Past(f.ops, ops) - 0 = at - 1
    BY <1>7
  <2> QED
    BY <1>1, <1>4, <2>1 DEF Holds, ops
<1>13. ASSUME edits = 0, NEW o \in Outcomes(op, f.list, Below(c, down, n))
       PROVE  o \in Treated(c, down, req, s, n)[at]
  BY <1>4, <1>6, <1>7, <1>12, <1>13, OpOutcome
<1>14. Past(g.ops, OpsOf(c, req, g, n)) = at /\ at - 0 = at
  BY <1>7, <1>8, <1>10 DEF at
<1>15. ASSUME edits = 0, NEW o \in Outcomes(op, f.list, Below(c, down, n)), o.st # "ok"
       PROVE  o \in TotalOf(c, down, req, stack[n], n)
  <2>1. o \in Treated(c, down, req, s, n)[at]
    BY <1>13, <1>15
  <2>2. at \in 0..Len(OpsAt(c, req, s, n))
    BY <1>6, <1>7
  <2>3. o \in Total(c, down, req, s, n)
    BY <1>4, <1>15, <2>1, <2>2, TreatedSticky
  <2> QED
    BY <1>4, <2>3 DEF TotalOf
<1>16. n \in 1..Len(stack) /\ \A k \in (n + 1)..Len(stack) : stack[k].into # "member"
  BY <1>4
<1>17. CASE op.disabled
  <2>1. Becomes(g)
    BY <1>2, <1>17
  <2>2. Ok(f.list) \in Outcomes(op, f.list, Below(c, down, n))
    BY <1>17 DEF Outcomes
  <2>3. edits = 0 => Holds(c, down, req, g, n, 0)
    BY <1>1, <1>8, <1>10, <1>13, <1>14, <2>2 DEF Holds
  <2> QED
    BY <1>1, <1>3, <1>8, <1>10, <1>11, <2>1, <2>3, BecomesStep DEF f
<1>18. CASE ~op.disabled /\ op.type = AddProxies
  <2> DEFINE kind == Source(op.args)[1]
             name == Source(op.args)[2]
             h == Begin(kind, name, catalog[kind][name].process, Position(op.args))
  <2>1. IF name = "" \/ name \notin DOMAIN catalog[kind] THEN Fail(stack) ELSE Push(g, h)
    <3>1. addProxiesFromSubscription(f)
      BY <1>2, <1>18
    <3> QED
      BY <3>1 DEF addProxiesFromSubscription, op, g, WithOps
  <2>2. Source(op.args) = <<kind, name>> /\ kind \in {"sub", "col"}
    BY DEF Source, SourceKind
  <2>3. DOMAIN Below(c, down, n) = Present(c)
    BY <1>4, BelowIs
  <2> HIDE DEF kind, name
  <2>4. CASE name = "" \/ name \notin DOMAIN catalog[kind]
    <3>1. ASSUME edits = 0 PROVE Err \in TotalOf(c, down, req, stack[n], n)
      <4>1. name = "" \/ Source(op.args) \notin DOMAIN Below(c, down, n)
        <5>1. catalog = c /\ (<<kind, name>> \in Present(c) <=> kind \in {"sub", "col"} /\ name \in DOMAIN c[kind])
          BY <1>4, <3>1, PresentIs
        <5>2. name = "" \/ <<kind, name>> \notin Present(c)
          BY <2>4, <5>1
        <5> QED
          BY <2>2, <2>3, <5>2
      <4>2. Source(op.args)[2] = name
        BY DEF name
      <4>3. Outcomes(op, f.list, Below(c, down, n)) = {Err}
        BY <1>18, <4>1, <4>2 DEF Outcomes
      <4>4. Err.st # "ok"
        BY DEF Err
      <4> QED
        BY <1>15, <3>1, <4>3, <4>4
    <3>2. Fail(stack)
      BY <2>1, <2>4
    <3> QED
      BY <1>1, <1>3, <1>16, <3>1, <3>2, FailStep
  <2>5. CASE ~(name = "" \/ name \notin DOMAIN catalog[kind])
    <3>1. Push(g, h)
      BY <2>1, <2>5
    <3>2. Position(op.args) \in {"member", "front", "back", "replace"}
      BY DEF Position
    <3>3. /\ Stands(c, req, h, n + 1) /\ Holds(c, down, req, h, n + 1, 0)
          /\ Src(h) = <<kind, name>> /\ h.into = Position(op.args) /\ h.name = name
      <4>1. PICK into : into = Position(op.args)
        OBVIOUS
      <4>2. kind \in {"sub", "col"} /\ name \in DOMAIN catalog[kind]
            /\ into \in {"member", "front", "back", "replace"} /\ n \in 1..MaxDepth
        BY <1>4, <2>2, <2>5, <3>2, <4>1
      <4>3. LET q == Begin(kind, name, catalog[kind][name].process, into)
            IN /\ Stands(c, req, q, n + 1) /\ Holds(c, down, req, q, n + 1, 0)
               /\ Src(q) = <<kind, name>> /\ q.into = into /\ q.name = name
        BY <1>3, <1>4, <4>2, Callee
      <4> QED
        BY <4>1, <4>3
    <3> HIDE DEF h
    <3>4. Waits(c, req, g, n, h)
      BY <1>1, <1>7, <1>8, <1>10, <1>14, <1>18, <2>2, <2>5, <3>3 DEF Waits
    <3>5. edits = 0 => Holds(c, down, req, g, n, 1)
      BY <1>1, <1>8, <1>10, <1>12, <1>14 DEF Holds
    <3> QED
      BY <1>1, <1>3, <1>8, <1>10, <1>11, <3>1, <3>3, <3>4, <3>5, PushStep DEF f
  <2> QED
    BY <2>4, <2>5
<1>19. CASE ~op.disabled /\ op.type # AddProxies
  <2>1. PICK out \in Run(op, f.list) :
             CASE out.st = "ok" -> Becomes([g EXCEPT !.list = out.list])
               [] out.st = "err" -> Fail(stack)
               [] out.st = "panic" -> stack' = <<>> /\ answer' = Panic
    BY <1>2, <1>19
  <2>2. out \in Outcomes(op, f.list, Below(c, down, n))
    BY <1>19 DEF Outcomes
  <2>3. out = Err \/ out = Panic \/ (out = Ok(out.list) /\ out.st = "ok")
    BY RunOutcomes
  <2>4. CASE out.st = "ok"
    <3> DEFINE q == WithList(g, out.list)
    <3>1. Becomes(q)
      BY <2>1, <2>4 DEF WithList
    <3>2. out = Ok(out.list)
      BY <2>3, <2>4 DEF Err, Panic
    <3>3. /\ IsFrame(q) /\ q.pc = g.pc /\ q.list = out.list /\ q.ops = g.ops /\ q.todo = g.todo
          /\ q.kind = g.kind /\ q.name = g.name /\ q.into = g.into /\ q.raw = g.raw
      BY <1>8, WithListIs
    <3> HIDE DEF q
    <3>4. Src(q) = s /\ OpsOf(c, req, q, n) = ops
      BY <1>8, <1>10, <3>3 DEF Src, OpsOf, ops
    <3>5. Stands(c, req, q, n)
      BY <1>1, <1>4, <1>5, <1>7, <1>8, <1>10, <1>11, <3>3, <3>4 DEF Stands
    <3>6. ASSUME edits = 0 PROVE Holds(c, down, req, q, n, 0)
      <4>1. Ok(q.list) \in Treated(c, down, req, s, n)[at]
        BY <1>13, <2>2, <3>2, <3>3, <3>6
      <4>2. Past(q.ops, OpsOf(c, req, q, n)) - 0 = at
        BY <1>10, <1>14, <3>3, <3>4
      <4> QED
        BY <1>1, <1>8, <3>3, <3>4, <4>1, <4>2 DEF Holds
    <3> QED
      BY <1>1, <1>3, <1>8, <3>1, <3>3, <3>4, <3>5, <3>6, BecomesStep DEF f
  <2>5. CASE out = Err
    <3>1. Err.st # "ok" /\ Err.st = "err"
      BY DEF Err
    <3>2. Fail(stack)
      BY <2>1, <2>5, <3>1
    <3>3. edits = 0 => Err \in TotalOf(c, down, req, stack[n], n)
      BY <1>15, <2>2, <2>5, <3>1
    <3> QED
      BY <1>1, <1>3, <1>16, <3>2, <3>3, FailStep
  <2>6. CASE out = Panic
    <3>1. Panic.st \notin {"ok", "err"} /\ Panic.st = "panic" /\ Panic # Crashed
      BY DEF Panic, Crashed
    <3>2. stack' = <<>> /\ answer' = Panic
      BY <2>1, <2>6, <3>1
    <3>3. ASSUME edits = 0 PROVE Panic \in Expected
      <4>1. Panic \in TotalOf(c, down, req, stack[n], n)
        BY <1>15, <2>2, <2>6, <3>1, <3>3
      <4>2. Walk(c, req, stack) /\ Right(c, down, req, stack)
        BY <1>3, <3>3 DEF Serving
      <4>3. Panic \in TotalOf(c, down, req, stack[1], 1)
        BY <1>4, <3>1, <4>1, <4>2, Ended
      <4>4. ~Early
        BY <1>1, <1>3, <1>4, <3>3, NotEarly DEF f
      <4> QED
        BY <1>3, <1>4, <3>1, <3>3, <4>3, <4>4, ExpectedIs
    <3> QED
      BY <1>1, <3>1, <3>2, <3>3, GivesAnswer
  <2> QED
    BY <2>3, <2>4, <2>5, <2>6
<1> QED
  BY <1>9, <1>17, <1>18, <1>19

-----------------------------------------------------------------------------
(* A conversion that is done.                                              *)

\* Its list is one that its source comes to.
LEMMA DoneIs ==
    ASSUME NEW c, IsStore(c), NEW off, NEW r \in Requests, NEW k \in 1..MaxDepth, NEW f,
           Stands(c, r, f, k), Holds(c, off, r, f, k, 0), f.pc = "apply", f.ops = <<>>
    PROVE  Ok(f.list) \in TotalOf(c, off, r, f, k)
<1> DEFINE ops == OpsOf(c, r, f, k)
<1>1. Src(f) \in Present(c) /\ Remains(f.ops, ops)
  BY DEF Stands
<1>2. IsList(ops) /\ ops = OpsAt(c, r, Src(f), k)
  BY <1>1, OpsAtIs DEF OpsOf
<1>3. Past(f.ops, ops) - 0 = Len(ops)
  BY <1>1, <1>2, PastIn
<1>4. Ok(f.list) \in Treated(c, off, r, Src(f), k)[Past(f.ops, ops) - 0]
  BY DEF Holds
<1> QED
  BY <1>2, <1>3, <1>4 DEF TotalOf, Total

\* The nodes that an operator pulled in are where it wants them.
LEMMA JoinedIs ==
    ASSUME NEW args, NEW f, NEW g, g.kind = SourceKind(args), g.into = Position(args)
    PROVE  /\ g.kind = "sub" /\ g.list = <<>> => Joined(args, f.list, Ok(g.list)) = Err
           /\ ~(g.kind = "sub" /\ g.list = <<>>) => Joined(args, f.list, Ok(g.list)) = Ok(Merge(f, g))
<1>1. Ok(g.list).st = "ok" /\ Ok(g.list).list = g.list
  BY DEF Ok
<1>2. Position(args) \in {"front", "back", "replace"}
  BY DEF Position
<1>3. ASSUME g.kind = "sub", g.list = <<>> PROVE Joined(args, f.list, Ok(g.list)) = Err
  BY <1>1, <1>3 DEF Joined
<1>4. ASSUME ~(g.kind = "sub" /\ g.list = <<>>) PROVE Joined(args, f.list, Ok(g.list)) = Ok(Merge(f, g))
  <2>1. Joined(args, f.list, Ok(g.list)) = CASE Position(args) = "front" -> Ok(g.list \o f.list)
                                             [] Position(args) = "back" -> Ok(f.list \o g.list)
                                             [] OTHER -> Ok(g.list)
    BY <1>1, <1>4 DEF Joined
  <2>2. CASE Position(args) = "front"
    BY <2>1, <2>2 DEF Merge
  <2>3. CASE Position(args) = "back"
    BY <2>1, <2>3 DEF Merge
  <2>4. CASE Position(args) = "replace"
    BY <2>1, <2>4 DEF Merge
  <2> QED
    BY <1>2, <2>2, <2>3, <2>4
<1> QED
  BY <1>3, <1>4

\* The conversion that waits for it goes on with its nodes, or with an error
\* when an operator pulled in none.
LEMMA Resumed ==
    ASSUME NEW c, IsStore(c), NEW off, NEW r \in Requests, NEW k \in 1..MaxDepth, k < MaxDepth, NEW f, NEW g,
           Stands(c, r, f, k), Waits(c, r, f, k, g), Holds(c, off, r, f, k, 1),
           Stands(c, r, g, k + 1), Ok(g.list) \in TotalOf(c, off, r, g, k + 1)
    PROVE  /\ g.into # "member" /\ g.kind = "sub" /\ g.list = <<>> => Err \in TotalOf(c, off, r, f, k)
           /\ g.into = "member" \/ ~(g.kind = "sub" /\ g.list = <<>>) =>
                 Holds(c, off, r, WithList(f, Merge(f, g)), k, 0)
<1> DEFINE ops == OpsOf(c, r, f, k)
           at == Past(f.ops, ops)
           args == ops[at].args
           o == Ok(g.list)
           q == WithList(f, Merge(f, g))
<1>1. Src(g) \in Present(c) /\ Src(f) \in Present(c) /\ IsFrame(f) /\ MaxDepth \in Nat /\ k # MaxDepth
  BY PipelineAssumptions DEF Stands
<1>2. o \in Below(c, off, k)[Src(g)]
  BY <1>1, BelowIs DEF TotalOf
<1>3. f.pc \in {"members", "apply"}
  BY DEF Waits
<1>4. /\ q.pc = f.pc /\ q.list = Merge(f, g) /\ q.ops = f.ops /\ q.todo = f.todo
      /\ q.kind = f.kind /\ q.name = f.name
  BY <1>1, WithListIs
<1> HIDE DEF q, o
<1>5. Src(q) = Src(f) /\ OpsOf(c, r, q, k) = ops /\ Names(c, q) = Names(c, f)
  BY <1>4 DEF Src, OpsOf, Names
<1>6. CASE f.pc = "members"
  <2>1. /\ g.into = "member" /\ Past(f.todo, Names(c, f)) \in 1..Len(Names(c, f))
    BY <1>6 DEF Waits
  <2>2. Gather(f.list, o) \in InOrder(c, off, Src(f), k)[Past(f.todo, Names(c, f))]
    BY <1>1, <1>2, <1>6, Passed
  <2>3. Gather(f.list, o) = Ok(Merge(f, g))
    BY <2>1 DEF Gather, Merge, Ok, o
  <2>4. Past(q.todo, Names(c, q)) - 0 = Past(f.todo, Names(c, f))
    <3>1. Past(f.todo, Names(c, f)) \in Int
      BY <2>1
    <3> QED
      BY <1>4, <1>5, <3>1
  <2>5. Holds(c, off, r, q, k, 0)
    BY <1>4, <1>5, <1>6, <2>2, <2>3, <2>4 DEF Holds
  <2> QED
    BY <2>1, <2>5 DEF q
<1>7. CASE f.pc = "apply"
  <2>1. /\ at \in 1..Len(ops) /\ Src(g) = Source(args) /\ g.into = Position(args)
    BY <1>7 DEF Waits
  <2>2. g.kind = SourceKind(args) /\ g.into # "member"
    BY <2>1 DEF Src, Source, Position
  <2>3. Joined(args, f.list, o) \in Treated(c, off, r, Src(f), k)[at]
    BY <1>1, <1>2, <1>7, Passed
  <2> HIDE DEF args, at, ops
  <2>4. ASSUME g.kind = "sub", g.list = <<>> PROVE Err \in TotalOf(c, off, r, f, k)
    <3>1. Err \in Treated(c, off, r, Src(f), k)[at]
      BY <2>1, <2>2, <2>3, <2>4, JoinedIs DEF o
    <3>2. Err.st # "ok"
      BY DEF Err
    <3>3. at \in 0..Len(OpsAt(c, r, Src(f), k))
      BY <2>1 DEF ops, OpsOf
    <3> QED
      BY <1>1, <3>1, <3>2, <3>3, TreatedSticky DEF TotalOf
  <2>5. ASSUME ~(g.kind = "sub" /\ g.list = <<>>) PROVE Holds(c, off, r, q, k, 0)
    <3>1. Ok(Merge(f, g)) \in Treated(c, off, r, Src(f), k)[at]
      BY <2>1, <2>2, <2>3, <2>5, JoinedIs DEF o
    <3>2. Past(q.ops, OpsOf(c, r, q, k)) - 0 = at
      <4>1. at \in Int
        BY <2>1
      <4> QED
        BY <1>4, <1>5, <4>1 DEF at
    <3> QED
      BY <1>4, <1>5, <1>7, <3>1, <3>2 DEF Holds
  <2> QED
    BY <2>2, <2>4, <2>5 DEF q
<1> QED
  BY <1>3, <1>6, <1>7

\* Its nodes go to the client, or to the conversion that waits for them.
LEMMA ReturnStep == Inv /\ Return => Inv'
<1> SUFFICES ASSUME Inv, Return PROVE Inv'
  OBVIOUS
<1> DEFINE n == Len(stack)
           m == n - 1
           g == Top
           f == stack[m]
<1>1. stack # <<>> /\ g.pc = "apply" /\ g.ops = <<>> /\ UNCHANGED <<catalog, down, req, edits, acyclic>>
  BY DEF Return
<1>2. /\ CASE g.into = "top" -> stack' = <<>> /\ answer' = IF req.known THEN Ok(g.list) ELSE Err
           [] g.into \notin {"top", "member"} /\ g.kind = "sub" /\ g.list = <<>> -> Fail(stack)
           [] OTHER -> /\ stack' = [SubSeq(stack, 1, m) EXCEPT ![m].list = Merge(f, g)]
                       /\ UNCHANGED answer
  BY DEF Return
<1>3. PICK c : Serving(c)
  BY <1>1 DEF Inv
<1>4. /\ IsStore(c) /\ req \in Requests /\ n \in 1..MaxDepth /\ MaxDepth \in Nat
      /\ Stands(c, req, g, n) /\ g = stack[n]
      /\ edits = 0 => catalog = c /\ Holds(c, down, req, g, n, 0)
  BY <1>1, <1>3, TopIs
<1>5. Walk(c, req, stack) /\ (edits = 0 => Right(c, down, req, stack))
  BY <1>3 DEF Serving
<1> HIDE DEF g
<1>6. edits = 0 => Ok(g.list) \in TotalOf(c, down, req, g, n)
  BY <1>1, <1>4, DoneIs
<1>7. g.into = "top" <=> n = 1
  BY <1>4 DEF Stands
<1>8. CASE g.into = "top"
  <2>1. stack' = <<>> /\ answer' = IF req.known THEN Ok(g.list) ELSE Err
    BY <1>2, <1>8
  <2>2. Ok(g.list).st = "ok" /\ Ok(g.list) # Crashed /\ Err # Crashed
    BY DEF Ok, Err, Crashed
  <2>3. ASSUME edits = 0 PROVE answer' \in Expected
    <3>1. ~Early
      BY <1>1, <1>3, <1>4, <2>3, NotEarly DEF g
    <3>2. Ok(g.list) \in TotalOf(c, down, req, stack[1], 1)
      BY <1>4, <1>6, <1>7, <1>8, <2>3
    <3>3. (IF Ok(g.list).st = "ok" /\ ~req.known THEN Err ELSE Ok(g.list)) \in Expected
      BY <1>3, <1>4, <2>3, <3>1, <3>2, ExpectedIs
    <3> QED
      BY <2>1, <2>2, <3>3
  <2>4. answer' # Crashed
    BY <2>1, <2>2
  <2> QED
    BY <1>1, <2>1, <2>3, <2>4, GivesAnswer
<1>9. CASE g.into # "top"
  <2>1. n # 1 /\ m \in 1..MaxDepth /\ m < MaxDepth /\ m \in 1..(n - 1) /\ m \in 1..n /\ m + 1 = n
    <3>1. n # 1 /\ n \in 1..MaxDepth /\ MaxDepth \in Nat
      BY <1>4, <1>7, <1>9
    <3> HIDE DEF n
    <3> QED
      BY <3>1
  <2>2. Stands(c, req, f, m) /\ Waits(c, req, f, m, g)
    <3>1. Stands(c, req, stack[m], m) /\ Waits(c, req, stack[m], m, stack[m + 1])
      BY <1>5, <2>1 DEF Walk
    <3> QED
      BY <1>4, <2>1, <3>1
  <2>3. edits = 0 => Holds(c, down, req, f, m, 1)
    BY <1>5, <2>1 DEF Right
  <2>4. g.into \in {"top", "member", "front", "back", "replace"}
    BY <1>4 DEF Stands
  <2> HIDE DEF m, n
  <2>5. ASSUME edits = 0
        PROVE  /\ g.into # "member" /\ g.kind = "sub" /\ g.list = <<>> => Err \in TotalOf(c, down, req, f, m)
               /\ g.into = "member" \/ ~(g.kind = "sub" /\ g.list = <<>>) =>
                     Holds(c, down, req, WithList(f, Merge(f, g)), m, 0)
    <3>1. Stands(c, req, g, m + 1) /\ Ok(g.list) \in TotalOf(c, down, req, g, m + 1)
      BY <1>4, <1>6, <2>1, <2>5
    <3>2. Holds(c, down, req, f, m, 1)
      BY <2>3, <2>5
    <3> HIDE DEF f
    <3> QED
      BY <1>4, <2>1, <2>2, <3>1, <3>2, Resumed
  <2>6. CASE g.into # "member" /\ g.kind = "sub" /\ g.list = <<>>
    <3>1. Fail(stack)
      BY <1>2, <1>9, <2>6
    <3>2. \A k \in (m + 1)..Len(stack) : stack[k].into # "member"
      BY <1>4, <2>1, <2>6 DEF n
    <3>3. ASSUME edits = 0 PROVE \E i \in 1..Len(stack) : /\ Err \in TotalOf(c, down, req, stack[i], i)
                                                          /\ \A k \in (i + 1)..Len(stack) : stack[k].into # "member"
      BY <2>1, <2>5, <2>6, <3>2, <3>3 DEF n
    <3> QED
      BY <1>1, <1>3, <3>1, <3>3, FailStep
  <2>7. CASE ~(g.into # "member" /\ g.kind = "sub" /\ g.list = <<>>)
    <3> DEFINE q == WithList(f, Merge(f, g))
               st == SubSeq(stack, 1, m)
               st2 == [st EXCEPT ![Len(st)] = q]
    <3>1. stack' = [st EXCEPT ![m].list = Merge(f, g)] /\ UNCHANGED answer
      BY <1>2, <1>9, <2>7
    <3>2. /\ Walk(c, req, st) /\ st[1] = stack[1] /\ Len(st) = m /\ st[m] = f
          /\ \A off : Right(c, off, req, stack) => \A k \in 1..(m - 1) : Holds(c, off, req, st[k], k, 1)
      BY <1>5, <2>1, Shortened DEF n
    <3>3. stack' = st2
      BY <3>1, <3>2 DEF WithList
    <3>4. /\ IsFrame(q) /\ q.pc = f.pc /\ q.ops = f.ops /\ q.todo = f.todo
          /\ q.kind = f.kind /\ q.name = f.name /\ q.into = f.into /\ q.raw = f.raw
      <4>1. IsFrame(f)
        BY <2>2 DEF Stands
      <4> QED
        BY <4>1, WithListIs
    <3> HIDE DEF q
    <3>5. Src(q) = Src(f) /\ OpsOf(c, req, q, m) = OpsOf(c, req, f, m) /\ Names(c, q) = Names(c, f)
      BY <3>4 DEF Src, OpsOf, Names
    <3>6. Stands(c, req, q, m)
      <4> HIDE DEF f
      <4> QED
        BY <2>2, <3>4, <3>5 DEF Stands
    <3>7. edits = 0 => Holds(c, down, req, q, m, 0)
      BY <2>5, <2>7 DEF q
    <3>8. /\ Stands(c, req, q, Len(st)) /\ Src(q) = Src(st[Len(st)]) /\ q.into = st[Len(st)].into
      BY <3>2, <3>4, <3>5, <3>6
    <3> HIDE DEF st
    <3>9. /\ Walk(c, req, st2) /\ Src(st2[1]) = Src(st[1])
          /\ \A off : /\ \A k \in 1..(Len(st) - 1) : Holds(c, off, req, st[k], k, 1)
                      /\ Holds(c, off, req, q, Len(st), 0)
                      => Right(c, off, req, st2)
      BY <3>2, <3>8, Replaced
    <3> HIDE DEF st2
    <3>10. ASSUME edits = 0 PROVE Right(c, down, req, st2)
      BY <1>5, <3>2, <3>7, <3>9, <3>10
    <3> QED
      BY <1>1, <1>3, <3>1, <3>2, <3>3, <3>9, <3>10, GoesOn
  <2> QED
    BY <2>6, <2>7
<1> QED
  BY <1>8, <1>9

-----------------------------------------------------------------------------
(* Requests, deletions and answers.                                        *)

\* Nobody is no request.
LEMMA NobodyAsks == NoReq \notin Requests
<1>1. NoReq.by = "nobody"
  BY DEF NoReq
<1>2. \A r \in Requests : r.by \in {"download", "sub", "col"}
  BY PipelineAssumptions
<1> QED
  BY <1>1, <1>2

\* A stack of one conversion that begins.
LEMMA OneFrame ==
    ASSUME NEW c, IsStore(c), NEW off, NEW r, NEW h, Stands(c, r, h, 1), Holds(c, off, r, h, 1, 0),
           NEW st, st = <<h>>
    PROVE  Walk(c, r, st) /\ Right(c, off, r, st) /\ st[1] = h
<1>1. IsList(st) /\ Len(st) = 1 /\ st[1] = h
  BY DEF IsList, Range
<1>2. MaxDepth \in Nat \ {0}
  BY StoreFinite
<1>3. 1 \in 1..MaxDepth /\ (\A k \in 1..1 : k = 1) /\ (\A k \in 1..(1 - 1) : FALSE)
  BY <1>2
<1> QED
  BY <1>1, <1>3 DEF Walk, Right

\* A request starts the conversion of what it asks for.
LEMMA RequestStep ==
    ASSUME Inv, NEW r \in Requests, NEW off, Request(r, off)
    PROVE  Inv'
<1> DEFINE kind == IF r.by # "download" THEN r.by ELSE IF r.name \in DOMAIN catalog.sub THEN "sub" ELSE "col"
           s == <<kind, r.name>>
           ops == IF r.by # "download" THEN r.ops ELSE catalog[kind][r.name].process
<1>1. /\ req = NoReq /\ req' = r /\ down' = off /\ edits' = 0 /\ acyclic' = Acyclic(catalog)
      /\ catalog' = catalog /\ (handleDownload(r) \/ Resolve(r))
  BY DEF Request
<1>2. stack = <<>> /\ answer = None /\ IsStore(catalog)
  BY <1>1, NobodyAsks DEF Inv
<1>3. r.by \in {"download", "sub", "col"}
  BY PipelineAssumptions
<1>4. kind \in {"sub", "col"}
  BY <1>3
<1>5. IF r.name \in DOMAIN catalog[kind]
      THEN stack' = <<Begin(kind, r.name, ops, "top")>> /\ UNCHANGED answer
      ELSE answer' = Err /\ UNCHANGED stack
  <2>1. CASE r.by = "download"
    BY <1>1, <2>1 DEF handleDownload, Resolve
  <2>2. CASE r.by # "download"
    BY <1>1, <2>2 DEF handleDownload, Resolve
  <2> QED
    BY <2>1, <2>2
<1>6. Asked' = s
  BY <1>1 DEF Asked
<1>7. IsStore(catalog)' /\ edits' \in Nat /\ req' # NoReq
  BY <1>1, <1>2, NobodyAsks
<1> HIDE DEF kind
<1>8. s \in Present(catalog) <=> r.name \in DOMAIN catalog[kind]
  BY <1>4, PresentIs
<1>9. CASE r.name \in DOMAIN catalog[kind]
  <2>1. PICK c : c = catalog
    OBVIOUS
  <2> DEFINE h == Fresh(c, r, s, 1, "top")
  <2>2. ops = OpsAt(c, r, s, 1)
    BY <2>1 DEF OpsAt
  <2> HIDE DEF ops
  <2>3. stack' = <<h>> /\ answer' = None
    BY <1>2, <1>5, <1>9, <2>1, <2>2 DEF Begin, Fresh
  <2> HIDE DEF s
  <2>4. s \in Present(c) /\ IsStore(c)
    BY <1>2, <1>8, <1>9, <2>1
  <2>5. /\ Stands(c, r, h, 1) /\ Holds(c, off, r, h, 1, 0) /\ Src(h) = s
    BY <2>4, Started
  <2> HIDE DEF h
  <2>6. Walk(c, r, stack') /\ Right(c, off, r, stack') /\ stack'[1] = h
    BY <2>3, <2>4, <2>5, OneFrame
  <2>7. Within(c, c)
    BY <2>4, StoreShape DEF Within
  <2>8. Serving(c)'
    BY <1>1, <1>6, <2>1, <2>4, <2>5, <2>6, <2>7 DEF Serving
  <2>9. AnswersMatchReference'
    BY <2>3 DEF AnswersMatchReference, None, Crashed
  <2> QED
    BY <1>1, <1>7, <2>3, <2>8, <2>9 DEF Inv
<1>10. CASE r.name \notin DOMAIN catalog[kind]
  <2>1. answer' = Err /\ stack' = <<>>
    BY <1>2, <1>5, <1>10
  <2>2. Asked' \notin Present(catalog)'
    BY <1>1, <1>6, <1>8, <1>10
  <2>3. Expected' = {Err}
    BY <2>2 DEF Expected
  <2>4. AnswersMatchReference'
    BY <2>1, <2>3 DEF AnswersMatchReference, Err, Crashed
  <2> QED
    BY <1>7, <2>1, <2>4 DEF Inv
<1> QED
  BY <1>9, <1>10

\* A source that is deleted leaves the others, and the conversions under way,
\* as they were.
LEMMA DeleteStep ==
    ASSUME Inv, NEW kind \in DOMAIN catalog, NEW name \in DOMAIN catalog[kind], Delete(kind, name)
    PROVE  Inv'
<1>1. /\ stack # <<>> /\ edits' = edits + 1 /\ UNCHANGED <<down, req, stack, answer, acyclic>>
      /\ catalog' = [catalog EXCEPT ![kind] = [n \in DOMAIN catalog[kind] \ {name} |-> catalog[kind][n]]]
  BY DEF Delete
<1>2. /\ req \in Requests /\ answer = None /\ edits \in Nat /\ IsStore(catalog)
  BY <1>1 DEF Inv
<1>3. PICK c : Serving(c)
  BY <1>1 DEF Inv
<1>4. /\ IsStore(c) /\ Within(catalog, c) /\ (acyclic => Acyclic(c)) /\ Walk(c, req, stack)
  BY <1>3 DEF Serving
<1>5. \A d : Within(catalog, d) => Within(catalog', d)
  <2> SUFFICES ASSUME NEW d, Within(catalog, d) PROVE Within(catalog', d)
    OBVIOUS
  <2>1. catalog = [sub |-> catalog.sub, col |-> catalog.col]
    BY <1>2, StoreShape
  <2>2. kind \in {"sub", "col"}
    BY <2>1
  <2>3. catalog' = [sub |-> catalog'.sub, col |-> catalog'.col]
    BY <1>1, <2>1, <2>2
  <2>4. catalog'[kind] = [n \in DOMAIN catalog[kind] \ {name} |-> catalog[kind][n]]
    BY <1>1
  <2>5. \A k \in {"sub", "col"} : k # kind => catalog'[k] = catalog[k]
    BY <1>1, <2>1
  <2>6. ASSUME NEW k \in {"sub", "col"}
        PROVE  /\ DOMAIN catalog'[k] \subseteq DOMAIN d[k]
               /\ \A n \in DOMAIN catalog'[k] : catalog'[k][n] = d[k][n]
    <3>1. /\ DOMAIN catalog[k] \subseteq DOMAIN d[k] /\ \A n \in DOMAIN catalog[k] : catalog[k][n] = d[k][n]
      BY DEF Within
    <3>2. CASE k = kind
      BY <2>4, <3>1, <3>2
    <3>3. CASE k # kind
      BY <2>5, <3>1, <3>3
    <3> QED
      BY <3>2, <3>3
  <2> QED
    BY <2>3, <2>6 DEF Within
<1>6. IsStore(catalog')
  BY <1>2, <1>5 DEF IsStore
<1>7. edits' \in Nat /\ edits' # 0
  BY <1>1, <1>2
<1>8. Serving(c)'
  BY <1>1, <1>4, <1>5, <1>7 DEF Serving
<1>9. AnswersMatchReference'
  BY <1>1, <1>2 DEF AnswersMatchReference, None, Crashed
<1> QED
  BY <1>1, <1>2, <1>6, <1>7, <1>8, <1>9 DEF Inv

\* With its answer the client leaves.
LEMMA CloseStep == Inv /\ Close => Inv'
<1> SUFFICES ASSUME Inv, Close PROVE Inv'
  OBVIOUS
<1>1. /\ answer # None /\ answer' = None /\ edits' = 0 /\ catalog' = catalog /\ stack' = stack
  BY DEF Close
<1>2. stack = <<>> /\ IsStore(catalog)
  BY <1>1 DEF Inv
<1>3. AnswersMatchReference'
  BY <1>1 DEF AnswersMatchReference, None, Crashed
<1> QED
  BY <1>1, <1>2, <1>3 DEF Inv

-----------------------------------------------------------------------------
\* The invariant holds for every store and every request: each conversion on the
\* stack holds a list that its source has at that point, and each waits for the
\* one above it.
THEOREM PipelineInv == Spec => []Inv
<1>1. Init => Inv
  <2> SUFFICES ASSUME Init PROVE Inv
    OBVIOUS
  <2>1. catalog \in Catalogs /\ stack = <<>> /\ answer = None /\ edits = 0
    BY DEF Init
  <2>2. catalog = [sub |-> catalog.sub, col |-> catalog.col]
    BY <2>1, PipelineAssumptions
  <2>3. IsStore(catalog)
    BY <2>1, <2>2 DEF IsStore, Within
  <2>4. AnswersMatchReference
    BY <2>1 DEF AnswersMatchReference, None, Crashed
  <2> QED
    BY <2>1, <2>3, <2>4 DEF Inv
<1>2. Inv /\ [Next]_vars => Inv'
  <2> SUFFICES ASSUME Inv, [Next]_vars PROVE Inv'
    OBVIOUS
  <2>1. ASSUME NEW r \in Requests, NEW off \in SUBSET DOMAIN catalog.sub, Request(r, off) PROVE Inv'
    BY <2>1, RequestStep
  <2>2. CASE Step
    BY <2>2, SubProxiesStep, CollectionMemberStep, CollectionProxiesStep, ApplyStep, ReturnStep DEF Step
  <2>3. ASSUME NEW kind \in DOMAIN catalog, NEW name \in DOMAIN catalog[kind], Delete(kind, name) PROVE Inv'
    BY <2>3, DeleteStep
  <2>4. CASE Close
    BY <2>4, CloseStep
  <2>5. CASE UNCHANGED vars
    <3>1. AnswersMatchReference'
      BY <2>5 DEF Inv, AnswersMatchReference, Expected, Answers, AskedOps, Asked, vars
    <3>2. \A c : Serving(c) => Serving(c)'
      BY <2>5 DEF Serving, Asked, vars
    <3> QED
      BY <2>5, <3>1, <3>2 DEF Inv, vars
  <2> QED
    BY <2>1, <2>2, <2>3, <2>4, <2>5 DEF Next
<1> QED
  BY <1>1, <1>2, PTL DEF Spec

\* The answer is what the sources mean, whatever the store, the nesting and the
\* operators; and only sources that refer to each other in a circle can use the
\* goroutine's stack up, also when sources are deleted meanwhile.
THEOREM AnswersAreRight == Spec => []AnswersMatchReference
<1>1. Inv => AnswersMatchReference
  BY DEF Inv
<1> QED
  BY <1>1, PipelineInv, PTL

=============================================================================
