-------------------------- MODULE CronRunnerProofs --------------------------
(***************************************************************************)
(* Proofs about CronRunner, for any calendar, any schedules, any number of *)
(* subscriptions and downloads of any length up to a minute.               *)
(***************************************************************************)
EXTENDS CronRunner, Lemmas

\* A schedule is due exactly when it fired since the instant looked back to.
LEMMA DueFires ==
    ASSUME NEW n \in Names, NEW expr, NEW at \in Nat, at <= MaxTime,
           last[n] \in Nat, last[n] # Never
    PROVE  due(n, expr, at) <=> FiresIn(expr, last[n], at)
<1> DEFINE after == last[n]
           sched == Parse(expr)
           hits  == {m \in 0..LastMinute :
                        after < m * Minute /\ m * Minute < after + Horizon
                        /\ matches(sched, m)}
<1>1. LookBack(n, at) = after
  BY DEF LookBack
<1>2. NextMatch(sched, after) =
         IF hits = {} THEN -1 ELSE CHOOSE m \in hits : \A k \in hits : m <= k
  BY DEF NextMatch, FirstMatch
<1>3. hits \subseteq Nat
  BY CronAssumptions
<1>4. \A m \in 0..LastMinute : m * Minute \in Nat
  BY CronAssumptions
<1>5. CASE hits = {}
  <2>1. ~ due(n, expr, at)
    BY <1>1, <1>2, <1>5 DEF due
  <2>2. ~ FiresIn(expr, after, at)
    <3> SUFFICES ASSUME NEW m \in 0..LastMinute, after < m * Minute,
                        m * Minute <= at, matches(sched, m)
                 PROVE  FALSE
      BY DEF FiresIn
    <3>1. m * Minute < after + Horizon
      BY <1>4, RunnerAssumptions, CronAssumptions
    <3> QED
      BY <1>5, <3>1
  <2> QED
    BY <2>1, <2>2
<1>6. CASE hits # {}
  <2> DEFINE first == CHOOSE m \in hits : \A k \in hits : m <= k
  <2>1. first \in hits /\ \A k \in hits : first <= k
    BY <1>3, <1>6, EarliestExists
  <2>2. NextMatch(sched, after) = first
    BY <1>2, <1>6
  <2> HIDE DEF first
  <2>3. due(n, expr, at) <=> first * Minute <= at
    <3>1. first # -1
      BY <1>3, <2>1
    <3> QED
      BY <1>1, <2>2, <3>1 DEF due
  <2>4. first * Minute <= at => FiresIn(expr, after, at)
    BY <2>1 DEF FiresIn
  <2>5. ASSUME FiresIn(expr, after, at) PROVE first * Minute <= at
    <3>1. PICK m \in 0..LastMinute :
             after < m * Minute /\ m * Minute <= at /\ matches(sched, m)
      BY <2>5 DEF FiresIn
    <3>2. m * Minute < after + Horizon
      BY <1>4, <3>1, RunnerAssumptions, CronAssumptions
    <3>3. first <= m
      BY <2>1, <3>1, <3>2
    <3>4. first * Minute <= m * Minute
      <4>1. first \in Nat /\ m \in Nat /\ Minute \in Nat
        BY <1>3, <2>1, CronAssumptions
      <4> QED
        BY <3>3, <4>1
    <3>5. first * Minute \in Nat
      BY <1>4, <2>1
    <3> QED
      BY <1>4, <3>1, <3>4, <3>5
  <2> QED
    BY <2>3, <2>4, <2>5
<1> QED
  BY <1>5, <1>6

-----------------------------------------------------------------------------
(* The invariant.  A refresh that is under way was due; every other row    *)
(* that the pass is done with has nothing left to fire.  Runner.last is    *)
(* the last refresh of a name, unless a download has failed since.         *)

Refreshing == run.pc \in {"fetch", "save"}

Served(n) == last[n] # Never => ~ FiresIn(listed[n], last[n], run.at)

Inv ==
    /\ TypeOK
    /\ run.at <= now /\ now <= MaxTime
    /\ \A n \in Names : refreshed[n] # Never => refreshed[n] = last[n]
    /\ Refreshing =>
          /\ run.sub \in DOMAIN listed \ todo
          /\ last[run.sub] # Never => FiresIn(listed[run.sub], last[run.sub], run.at)
    /\ run.pc \in {"pass", "fetch", "save"} =>
          \A n \in DOMAIN listed \ (todo \cup unsaved) :
              (Refreshing /\ n = run.sub) \/ Served(n)

Stored == {e \in Exprs : Valid(e)}
Runs   == [pc : {"start", "wait", "pass", "fetch", "save"}, at : Nat,
           sub : Names \cup {None}, since : Nat]

\* Nothing fires between an instant and itself.
LEMMA NothingBetween ==
    ASSUME NEW expr, NEW t \in Nat
    PROVE  ~ FiresIn(expr, t, t)
<1>1. \A m \in 0..LastMinute : m * Minute \in Nat
  BY CronAssumptions
<1> QED
  BY <1>1 DEF FiresIn

\* The invariant holds at the start.
LEMMA InitInv == Init => Inv
<1> SUFFICES ASSUME Init PROVE Inv
  OBVIOUS
<1>1. Minute \in Nat /\ MaxTime \in Nat
  BY CronAssumptions, RunnerAssumptions
<1>2. run = [pc |-> "start", at |-> 0, sub |-> None, since |-> 0]
  BY DEF Init, Starting
<1>3. run \in Runs /\ run.pc = "start" /\ run.at = 0
  BY <1>2 DEF Runs
<1>4. TypeOK
  BY <1>1, <1>3 DEF Init, TypeOK, NoRows, Runs
<1> QED
  BY <1>1, <1>3, <1>4 DEF Init, Inv, Refreshing

\* A tick of the clock, kept or dropped, keeps it.
LEMMA TickInv ==
    ASSUME Inv, tick
    PROVE  Inv'
<1>0. TypeOK
  BY DEF Inv
<1>1. /\ table' = table /\ now' = now /\ fires' = fires /\ last' = last
      /\ refreshed' = refreshed
      /\ pending' \in BOOLEAN /\ unsaved' = {} /\ todo' = DOMAIN listed'
  BY DEF tick
<1>2. /\ DOMAIN listed' \subseteq Names
      /\ listed' \in [DOMAIN listed' -> Stored]
  BY <1>0 DEF tick, TypeOK, Stored, NoRows
<1>3. events' \in Nat
  BY <1>0 DEF tick, TypeOK, Event
<1>4. run' \in Runs /\ run'.pc \in {"pass", "wait"} /\ run'.at <= now
  <2>1. CASE run' = [pc |-> "pass", at |-> now, sub |-> None, since |-> 0]
    BY <1>0, <2>1 DEF TypeOK, Runs
  <2>2. CASE run' = [run EXCEPT !.pc = "wait"]
    BY <1>0, <2>2 DEF TypeOK, Runs, Inv
  <2> QED
    BY <2>1, <2>2 DEF tick
<1>5. TypeOK'
  BY <1>0, <1>1, <1>2, <1>3, <1>4 DEF TypeOK, Stored, Runs
<1> QED
  BY <1>1, <1>4, <1>5 DEF Inv, Refreshing

\* So does the row a pass looks at next, due or not.
LEMMA NextRowInv ==
    ASSUME Inv, NEW n \in todo, NextRow(n)
    PROVE  Inv'
<1>0. TypeOK
  BY DEF Inv
<1>1. /\ run.pc = "pass" /\ todo' = todo \ {n}
      /\ UNCHANGED <<table, now, fires, pending, last, listed, unsaved, refreshed, events>>
  BY DEF NextRow, RowDone
<1>2. n \in DOMAIN listed /\ n \in Names /\ run.at \in Nat /\ run.at <= MaxTime
  BY <1>0, RunnerAssumptions DEF TypeOK, Inv
<1>3. last[n] # Never => (due(n, listed[n], run.at) <=> FiresIn(listed[n], last[n], run.at))
  BY <1>0, <1>2, DueFires DEF TypeOK
<1>4. \A m \in DOMAIN listed \ (todo \cup unsaved) : Served(m)
  BY <1>1 DEF Inv, Refreshing
<1>5. CASE run' = [run EXCEPT !.pc = "fetch", !.sub = n, !.since = now]
           /\ due(n, listed[n], run.at)
  <2>1. run' \in Runs /\ run'.pc = "fetch" /\ run'.sub = n /\ run'.at = run.at
    BY <1>0, <1>2, <1>5 DEF TypeOK, Runs
  <2>2. TypeOK'
    BY <1>0, <1>1, <2>1 DEF TypeOK, Runs
  <2> QED
    BY <1>1, <1>2, <1>3, <1>4, <1>5, <2>1, <2>2 DEF Inv, Refreshing, Served
<1>6. CASE run' = run /\ ~ due(n, listed[n], run.at)
  <2>1. TypeOK'
    BY <1>0, <1>1, <1>6 DEF TypeOK
  <2> QED
    BY <1>1, <1>2, <1>3, <1>4, <1>6, <2>1 DEF Inv, Refreshing, Served
<1>7. Valid(listed[n])
  BY <1>0, <1>2 DEF TypeOK
<1> QED
  BY <1>5, <1>6, <1>7 DEF NextRow

\* A refresh that is recorded, saved or failed, leaves its row served.
LEMMA RecordedInv ==
    ASSUME Inv, Refreshing, last' = [last EXCEPT ![run.sub] = run.at],
           NEW r \in {run.at, Never}, refreshed' = [refreshed EXCEPT ![run.sub] = r],
           run' = [run EXCEPT !.pc = "pass"],
           table' \in [Names -> {None} \cup Stored],
           UNCHANGED <<now, fires, pending, listed, todo, unsaved, events>>
    PROVE  Inv'
<1>0. TypeOK
  BY DEF Inv
<1>1. run.sub \in Names /\ run.sub \in DOMAIN listed /\ run.at \in Nat
  BY <1>0 DEF Inv, TypeOK
<1>2. run' \in Runs /\ run'.pc = "pass" /\ run'.at = run.at
  BY <1>0 DEF TypeOK, Runs
<1>3. /\ last' \in [Names -> Nat \cup {Never}] /\ last'[run.sub] = run.at
      /\ \A n \in Names : n # run.sub => last'[n] = last[n]
  BY <1>0, <1>1 DEF TypeOK
<1>4. /\ refreshed' \in [Names -> Nat \cup {Never}]
      /\ \A n \in Names : refreshed'[n] # Never => refreshed'[n] = last'[n]
  BY <1>0, <1>1, <1>3 DEF TypeOK, Inv
<1>5. TypeOK'
  BY <1>0, <1>2, <1>3, <1>4 DEF TypeOK, Runs, Stored
<1>6. ASSUME NEW n \in DOMAIN listed \ (todo \cup unsaved)
      PROVE  Served(n)'
  <2>1. CASE n = run.sub
    BY <1>1, <1>2, <1>3, <2>1, NothingBetween DEF Served
  <2>2. CASE n # run.sub
    <3>1. Served(n) /\ last'[n] = last[n]
      BY <1>0, <1>3, <2>2 DEF Inv, Refreshing, TypeOK
    <3> QED
      BY <1>2, <3>1 DEF Served
  <2> QED
    BY <2>1, <2>2
<1> QED
  BY <1>2, <1>4, <1>5, <1>6 DEF Inv, Refreshing

\* So does the end of a download.
LEMMA FetchedInv ==
    ASSUME Inv, Fetched
    PROVE  Inv'
<1>0. TypeOK
  BY DEF Inv
<1>1. CASE run' = [run EXCEPT !.pc = "save"] /\ UNCHANGED <<last, refreshed>>
  <2>1. run' \in Runs /\ run'.pc = "save" /\ run'.at = run.at /\ run'.sub = run.sub
    BY <1>0, <1>1 DEF TypeOK, Runs
  <2>2. UNCHANGED <<table, now, fires, pending, listed, todo, unsaved, events>>
    BY DEF Fetched
  <2>3. TypeOK'
    BY <1>0, <1>1, <2>1, <2>2 DEF TypeOK, Runs
  <2> QED
    BY <1>1, <2>1, <2>2, <2>3 DEF Fetched, Inv, Refreshing, Served
<1>2. CASE /\ last' = [last EXCEPT ![run.sub] = run.at]
           /\ run' = [run EXCEPT !.pc = "pass"]
           /\ refreshed' = [refreshed EXCEPT ![run.sub] = Never]
  <2>1. table' \in [Names -> {None} \cup Stored]
    BY <1>0 DEF Fetched, TypeOK, Stored
  <2> QED
    BY <1>2, <2>1, RecordedInv DEF Fetched, Refreshing
<1> QED
  BY <1>1, <1>2 DEF Fetched

\* So does the write-back of a refreshed row, however stale.
LEMMA SaveInv ==
    ASSUME Inv, Save
    PROVE  Inv'
<1>0. TypeOK
  BY DEF Inv
<1>1. run.sub \in DOMAIN listed /\ run.sub \in Names /\ Refreshing
  BY <1>0 DEF Inv, Save, Refreshing, TypeOK
<1>2. CASE /\ table' = [table EXCEPT ![run.sub] = listed[run.sub]]
           /\ last' = [last EXCEPT ![run.sub] = run.at]
           /\ refreshed' = [refreshed EXCEPT ![run.sub] = run.at]
           /\ UNCHANGED <<unsaved, events>>
  <2>1. table' \in [Names -> {None} \cup Stored]
    BY <1>0, <1>1, <1>2 DEF TypeOK, Stored
  <2> QED
    BY <1>1, <1>2, <2>1, RecordedInv DEF Save
<1>3. CASE /\ Event
           /\ unsaved' = unsaved \cup {run.sub}
           /\ UNCHANGED <<table, last, refreshed>>
  <2>1. run' \in Runs /\ run'.pc = "pass" /\ run'.at = run.at
    BY <1>0 DEF Save, TypeOK, Runs
  <2>2. UNCHANGED <<now, fires, pending, listed, todo>>
    BY DEF Save
  <2>3. TypeOK'
    BY <1>0, <1>1, <1>3, <2>1, <2>2 DEF TypeOK, Runs, Event
  <2>4. ASSUME NEW n \in DOMAIN listed \ (todo \cup unsaved')
        PROVE  Served(n)'
    BY <1>1, <1>3, <2>1, <2>2 DEF Inv, Served, Refreshing
  <2> QED
    BY <1>3, <2>1, <2>2, <2>3, <2>4 DEF Inv, Refreshing
<1> QED
  BY <1>2, <1>3 DEF Save

\* So does every step.
LEMMA NextInv == Inv /\ [Next]_vars => Inv'
<1> SUFFICES ASSUME Inv, [Next]_vars PROVE Inv'
  OBVIOUS
<1>0. TypeOK
  BY DEF Inv
<1>1. CASE tick
  BY <1>1, TickInv
<1>2. ASSUME NEW n \in todo, NextRow(n) PROVE Inv'
  BY <1>2, NextRowInv
<1>3. CASE PassOver
  <2>1. run' \in Runs /\ run'.pc = "wait" /\ run'.at = run.at
    BY <1>0, <1>3 DEF PassOver, TypeOK, Runs
  <2>2. TypeOK'
    BY <1>0, <1>3, <2>1 DEF PassOver, TypeOK, Runs
  <2> QED
    BY <1>3, <2>1, <2>2 DEF PassOver, Inv, Refreshing
<1>4. CASE Fetched
  BY <1>4, FetchedInv
<1>5. CASE Save
  BY <1>5, SaveInv
<1>6. CASE Advance
  <2>1. /\ now' = now + 1 /\ now' <= MaxTime /\ now \in Nat
        /\ UNCHANGED <<table, last, run, listed, todo, unsaved, refreshed, events>>
    BY <1>0, <1>6, RunnerAssumptions DEF Advance, TypeOK
  <2>2. fires' \in Nat /\ pending' \in BOOLEAN
    <3>1. CASE now + 1 = fires
      <4>1. pending' = TRUE /\ fires' = fires + Minute
        BY <1>6, <3>1 DEF Advance
      <4> QED
        BY <1>0, <4>1, CronAssumptions DEF TypeOK
    <3>2. CASE now + 1 # fires
      <4>1. UNCHANGED <<pending, fires>>
        BY <1>6, <3>2 DEF Advance
      <4> QED
        BY <1>0, <4>1 DEF TypeOK
    <3> QED
      BY <3>1, <3>2
  <2>3. TypeOK'
    BY <1>0, <2>1, <2>2 DEF TypeOK
  <2>4. run'.at <= now'
    BY <1>0, <2>1 DEF Inv, TypeOK
  <2> QED
    BY <2>1, <2>3, <2>4 DEF Inv, Refreshing, Served
<1>7. ASSUME NEW n \in Names, NEW expr \in Exprs \cup {None}, Edit(n, expr)
      PROVE  Inv'
  <2>1. TypeOK'
    BY <1>0, <1>7 DEF Edit, Event, TypeOK
  <2> QED
    BY <1>7, <2>1 DEF Edit, Inv, Refreshing, Served
<1>8. CASE Restart
  <2>1. run' = [pc |-> "start", at |-> 0, sub |-> None, since |-> 0]
    BY <1>8 DEF Restart, Starting
  <2>2. run' \in Runs /\ run'.pc = "start" /\ run'.at = 0
    BY <2>1 DEF Runs
  <2>3. fires' \in Nat /\ events' \in Nat /\ pending' \in BOOLEAN
    <3>1. fires' = now + Minute /\ events' = events + 1 /\ pending' = FALSE
      BY <1>8 DEF Restart, Event
    <3>2. fires' \in Nat /\ events' \in Nat
      BY <1>0, <3>1, CronAssumptions DEF TypeOK
    <3> QED
      BY <3>1, <3>2
  <2>4. /\ DOMAIN listed' = {} /\ listed' \in [DOMAIN listed' -> Stored]
        /\ todo' = {} /\ unsaved' = {}
    BY <1>8 DEF Restart, NoRows
  <2>5. /\ last' \in [Names -> Nat \cup {Never}] /\ refreshed' \in [Names -> Nat \cup {Never}]
        /\ \A n \in Names : refreshed'[n] = Never
        /\ UNCHANGED <<table, now>>
    BY <1>8 DEF Restart
  <2>6. TypeOK'
    BY <1>0, <2>2, <2>3, <2>4, <2>5 DEF TypeOK, Runs, Stored
  <2> QED
    BY <1>0, <1>8, <2>2, <2>5, <2>6 DEF Restart, Inv, Refreshing, TypeOK
<1>9. CASE UNCHANGED vars
  BY <1>0, <1>9 DEF vars, Inv, TypeOK, Refreshing, Served
<1> QED
  BY <1>1, <1>2, <1>3, <1>4, <1>5, <1>6, <1>7, <1>8, <1>9 DEF Next, Goroutine

\* The inductive invariant holds in every reachable state.
THEOREM Invariance == Spec => []Inv
BY InitInv, NextInv, PTL DEF Spec

\* The variables of the scheduler have their types, and only schedules that
\* Parse accepts are stored (TypeOK).
THEOREM TypeCorrect == Spec => []TypeOK
<1>1. Inv => TypeOK
  BY DEF Inv
<1> QED
  BY <1>1, Invariance, PTL

\* A process never tries a name twice for one firing (NewFiringEachTime).
THEOREM NeverTwice == Spec => NewFiringEachTime
<1> DEFINE Step == \A n \in Names :
                      (last[n] # Never /\ last'[n] # Never /\ last'[n] # last[n]) =>
                         n \in DOMAIN listed /\ FiresIn(listed[n], last[n], last'[n])
<1>1. Inv /\ [Next]_vars => [Step]_vars
  <2> SUFFICES ASSUME Inv, Next, NEW n \in Names, last[n] # Never, last'[n] # Never,
                      last'[n] # last[n]
               PROVE  n \in DOMAIN listed /\ FiresIn(listed[n], last[n], last'[n])
    BY DEF vars
  <2>0. last \in [Names -> Nat \cup {Never}] /\ run.sub \in Names \cup {None}
    BY DEF Inv, TypeOK
  <2>1. Fetched \/ Save
    BY DEF Next, Goroutine, tick, NextRow, PassOver, Advance, Edit, Restart
  <2>2. last' = [last EXCEPT ![run.sub] = run.at]
    BY <2>1 DEF Fetched, Save
  <2>3. n = run.sub /\ last'[n] = run.at
    BY <2>0, <2>2
  <2> QED
    BY <2>1, <2>3 DEF Inv, Refreshing, Fetched, Save
<1> QED
  BY <1>1, Invariance, PTL DEF Spec, NewFiringEachTime

\* A pass that comes to its end leaves no firing unserved of the names whose
\* last download succeeded (NothingLeftDue), however many ticks were dropped.
THEOREM PassServesAll == Spec => NothingLeftDue
<1> DEFINE Step == PassOver =>
                      \A n \in DOMAIN listed \ unsaved :
                         refreshed[n] # Never => ~ FiresIn(listed[n], refreshed[n], run.at)
<1>1. Inv => [Step]_vars
  <2> SUFFICES ASSUME Inv, PassOver, NEW n \in DOMAIN listed \ unsaved, refreshed[n] # Never
               PROVE  ~ FiresIn(listed[n], refreshed[n], run.at)
    OBVIOUS
  <2>1. refreshed[n] = last[n]
    BY DEF Inv, TypeOK
  <2> QED
    BY <2>1 DEF PassOver, Inv, Refreshing, Served
<1> QED
  BY <1>1, Invariance, PTL DEF NothingLeftDue
=============================================================================
