------------------------- MODULE RateLimiterProofs -------------------------
(***************************************************************************)
(* Proofs about RateLimiter: the types of its variables, and that it       *)
(* implements the fixed-window quota of WindowQuota, for any number of     *)
(* clients and requests, any limit and any length of the window.           *)
(***************************************************************************)
EXTENDS RateLimiter, Lemmas

\* What the middleware returns is at least one second.
LEMMA RetryIsPositive ==
    ASSUME NEW n \in Int
    PROVE  intToStr(n) \in Nat \ {0}
BY DEF intToStr

\* The seconds left are a number.
LEMMA RemainingIsInt ==
    ASSUME NEW v, v.windowEnd \in Int, now \in Int
    PROVE  Remaining(v) \in Int
BY LimiterAssumptions DEF Remaining

\* The clock shows a number.
LEMMA ClockIsNat ==
    ASSUME ClockType
    PROVE  now \in Nat /\ now >= 1
BY LimiterAssumptions DEF ClockType

\* A history in which nothing was admitted is one.
LEMMA UnusedType == Unused \in [1..MaxTime -> Nat]
BY LimiterAssumptions DEF Unused

\* The visitor allow counts on has the map's type, and its window is open.
LEMMA VisitorIsOpen ==
    ASSUME VisitorsType, ClockType, NEW k \in Keys
    PROVE  /\ Visitor(k) \in [count : Nat, windowEnd : Nat]
           /\ ~ Over(Visitor(k))
<1>1. FreshVisitor \in [count : Nat, windowEnd : Nat] /\ ~ Over(FreshVisitor)
  BY LimiterAssumptions, ClockIsNat DEF FreshVisitor, Over
<1>2. k \in DOMAIN visitors => visitors[k] \in [count : Nat, windowEnd : Nat]
  BY DEF VisitorsType
<1> QED
  BY <1>1, <1>2 DEF Visitor

\* Every step keeps the types.
LEMMA TypeStep ==
    ASSUME TypeOK, [Next]_vars
    PROVE  TypeOK'
<1>1. ASSUME NEW p \in Workers, NEW k \in Keys, allow(p, k)
      PROVE  TypeOK'
  <2> DEFINE v == Counted(Visitor(k))
             ok == WithinLimit(v.count)
  <2>1. /\ v \in [count : Nat, windowEnd : Nat]
        /\ v.windowEnd \in Nat
    BY VisitorIsOpen DEF Counted, TypeOK
  <2>2. ok \in BOOLEAN
    BY <2>1 DEF WithinLimit
  <2>3. now \in Nat
    BY ClockIsNat DEF TypeOK
  <2>4. intToStr(Remaining(v)) \in Nat \ {0}
    <3>1. now \in Int /\ v.windowEnd \in Int
      BY <2>1, <2>3
    <3> HIDE DEF v
    <3> QED
      BY <3>1, RemainingIsInt, RetryIsPositive
  <2> HIDE DEF v, ok
  <2>5. VisitorsType'
    <3>1. visitors' = Put(k, v)
      BY <1>1 DEF allow, v
    <3> QED
      BY <2>1, <3>1 DEF Put, TypeOK, VisitorsType
  <2>6. AnswerType'
    <3>1. last' = [key |-> k, ok |-> ok, retry |-> intToStr(Remaining(v)),
                   at |-> now, end |-> v.windowEnd]
      BY <1>1 DEF allow, v, ok
    <3> QED
      BY <2>1, <2>2, <2>3, <2>4, <3>1 DEF AnswerType
  <2>7. WorkersType'
    BY <1>1 DEF allow, TypeOK, WorkersType
  <2>8. HistoryType'
    <3> DEFINE n == IF ok THEN allowed[k][now] + 1 ELSE allowed[k][now]
    <3>1. /\ allowed \in [Keys -> [1..MaxTime -> Nat]]
          /\ asked \in [Keys -> Nat]
      BY DEF TypeOK, HistoryType
    <3>2. now \in 1..MaxTime
      BY DEF TypeOK, ClockType
    <3>3. n \in Nat
      <4> DEFINE a == allowed[k]
      <4>1. a \in [1..MaxTime -> Nat]
        BY <3>1
      <4> HIDE DEF a
      <4>2. a[now] \in Nat
        BY <3>2, <4>1
      <4> QED
        BY <4>2 DEF a
    <3>4. /\ allowed' = [allowed EXCEPT ![k] = [allowed[k] EXCEPT ![now] = n]]
          /\ asked' = [asked EXCEPT ![k] = asked[k] + 1]
      BY <1>1 DEF allow, v, ok
    <3> HIDE DEF n
    <3>5. [allowed[k] EXCEPT ![now] = n] \in [1..MaxTime -> Nat]
      BY <3>1, <3>2, <3>3
    <3>6. allowed' \in [Keys -> [1..MaxTime -> Nat]]
      BY <3>1, <3>4, <3>5
    <3>7. asked' \in [Keys -> Nat]
      BY <3>1, <3>4
    <3> QED
      BY <3>6, <3>7 DEF HistoryType
  <2>9. ClockType'
    BY <1>1 DEF allow, TypeOK, ClockType
  <2> QED
    BY <2>5, <2>6, <2>7, <2>8, <2>9 DEF TypeOK
<1>2. ASSUME NEW p \in Workers, loginFails(p)
      PROVE  TypeOK'
  BY <1>2 DEF loginFails, TypeOK, VisitorsType, ClockType, WorkersType, AnswerType,
              HistoryType
<1>3. ASSUME NEW p \in Workers, reset(p)
      PROVE  TypeOK'
  <2>1. VisitorsType'
    BY <1>3 DEF reset, TypeOK, VisitorsType
  <2>2. WorkersType'
    BY <1>3 DEF reset, TypeOK, WorkersType
  <2>3. HistoryType'
    <3>1. w[p] \in Keys
      BY <1>3 DEF reset, TypeOK, WorkersType
    <3>2. allowed' = [allowed EXCEPT ![w[p]] = Unused] /\ asked' = asked
      BY <1>3 DEF reset
    <3> QED
      BY <3>1, <3>2, UnusedType DEF TypeOK, HistoryType
  <2> QED
    BY <1>3, <2>1, <2>2, <2>3 DEF reset, TypeOK, ClockType, AnswerType
<1>4. CASE cleanup
  <2>1. VisitorsType'
    BY <1>4 DEF cleanup, TypeOK, VisitorsType
  <2> QED
    BY <1>4, <2>1 DEF cleanup, TypeOK, ClockType, WorkersType, AnswerType, HistoryType
<1>5. CASE Advance
  <2>1. ClockType'
    BY <1>5, LimiterAssumptions DEF Advance, TypeOK, ClockType
  <2>2. HistoryType'
    BY <1>5 DEF Advance, TypeOK, HistoryType
  <2> QED
    BY <1>5, <2>1, <2>2 DEF Advance, TypeOK, VisitorsType, WorkersType, AnswerType
<1>6. CASE Restart
  <2>1. VisitorsType' /\ WorkersType'
    BY <1>6 DEF Restart, VisitorsType, WorkersType
  <2>2. HistoryType'
    BY <1>6, UnusedType, Zenon DEF Restart, TypeOK, HistoryType
  <2> QED
    BY <1>6, <2>1, <2>2 DEF Restart, TypeOK, ClockType, AnswerType
<1>7. CASE UNCHANGED vars
  BY <1>7 DEF vars, TypeOK, VisitorsType, ClockType, WorkersType, AnswerType,
              HistoryType
<1> QED
  BY <1>1, <1>2, <1>3, <1>4, <1>5, <1>6, <1>7 DEF Next

\* The variables of the limiter always have their types; in particular the
\* Retry-After header of a refused request is never 0.
THEOREM TypeCorrect == Spec => []TypeOK
<1>1. Init => TypeOK
  <2> SUFFICES ASSUME Init PROVE TypeOK
    OBVIOUS
  <2>1. ClockType
    <3>1. now = 1
      BY DEF Init
    <3> QED
      BY <3>1, LimiterAssumptions DEF ClockType
  <2>2. VisitorsType /\ WorkersType
    BY DEF Init, VisitorsType, WorkersType
  <2>3. AnswerType
    <3>1. last = [key |-> "", ok |-> FALSE, retry |-> 1, at |-> 0, end |-> 0]
      BY DEF Init, NoAnswer
    <3>2. 1 \in Nat \ {0} /\ 0 \in Nat
      OBVIOUS
    <3> QED
      BY <3>1, <3>2 DEF AnswerType
  <2>4. HistoryType
    <3>1. Unused \in [1..MaxTime -> Nat]
      BY UnusedType
    <3>2. /\ allowed = [k \in Keys |-> Unused]
          /\ asked = [k \in Keys |-> 0]
      BY DEF Init
    <3> QED
      BY <3>1, <3>2, Zenon DEF HistoryType
  <2> QED
    BY <2>1, <2>2, <2>3, <2>4 DEF TypeOK
<1>2. TypeOK /\ [Next]_vars => TypeOK'
  BY TypeStep
<1> QED
  BY <1>1, <1>2, PTL DEF Spec

-----------------------------------------------------------------------------
(* The refinement.  Every fact about Quota is a fact about one key.        *)

\* A visitor whose window is not over is an open window.
LEMMA OpenWindowIsOpen ==
    ASSUME VisitorsType, ClockType, NEW k \in DOMAIN visitors, ~ Over(visitors[k])
    PROVE  /\ OpenWindow(k) = [count |-> visitors[k].count, end |-> visitors[k].windowEnd]
           /\ OpenWindow(k) # Q!Closed
<1>1. visitors[k].windowEnd # 0
  BY ClockIsNat DEF VisitorsType, Over
<1> QED
  BY <1>1 DEF OpenWindow, Q!Closed

\* allow is the abstract request: it counts on the window that Quota shows.
LEMMA AllowIsAsk ==
    ASSUME TypeOK, NEW p \in Workers, NEW k \in Keys, allow(p, k)
    PROVE  Q!QAsk(p, k)
<1> DEFINE v == Visitor(k)
<1>1. v \in [count : Nat, windowEnd : Nat] /\ ~ Over(v)
  BY VisitorIsOpen DEF TypeOK
<1>2. Quota[k] = OpenWindow(k)
  BY DEF Quota
<1>3. Q!Opened(k) = [count |-> v.count, end |-> v.windowEnd]
  <2>1. CASE k \in DOMAIN visitors /\ ~ Over(visitors[k])
    BY <1>2, <2>1, OpenWindowIsOpen DEF TypeOK, Visitor, Q!Opened
  <2>2. CASE k \notin DOMAIN visitors \/ Over(visitors[k])
    BY <1>2, <2>2 DEF OpenWindow, Visitor, FreshVisitor, Q!Closed, Q!Opened
  <2> QED
    BY <2>1, <2>2
<1>4. visitors' = Put(k, Counted(v)) /\ now' = now
  BY <1>1 DEF allow
<1>5. LastAnswer' = [key |-> k, ok |-> v.count + 1 <= Limit]
  <2>1. last'.key = k /\ last'.ok = WithinLimit(Counted(v).count)
    BY DEF allow
  <2> QED
    BY <2>1 DEF LastAnswer, WithinLimit, Counted
<1> HIDE DEF v
<1>6. Quota' = [Quota EXCEPT ![k] = [count |-> v.count + 1, end |-> v.windowEnd]]
  <2>1. OpenWindow(k)' = [count |-> v.count + 1, end |-> v.windowEnd]
    BY <1>1, <1>4 DEF OpenWindow, Put, Counted, Over
  <2>2. ASSUME NEW j \in Keys, j # k
        PROVE  OpenWindow(j)' = OpenWindow(j)
    BY <1>4, <2>2 DEF OpenWindow, Put, Over
  <2> QED
    BY <2>1, <2>2 DEF Quota
<1>7. Q!Opened(k).count = v.count /\ Q!Opened(k).end = v.windowEnd
  BY <1>3
<1>8. w[p] = "" /\ w' = [w EXCEPT ![p] = IF v.count + 1 <= Limit THEN k ELSE ""]
  BY DEF allow, v, Counted, WithinLimit
<1> QED
  BY <1>4, <1>5, <1>6, <1>7, <1>8 DEF Q!QAsk

\* A cleanup pass cannot be observed, and neither can the map when a login
\* fails.
LEMMA CleanupIsHidden ==
    ASSUME TypeOK, cleanup
    PROVE  UNCHANGED Q!quotaVars
<1>1. now' = now /\ last' = last /\ w' = w
  BY DEF cleanup
<1>2. ASSUME NEW k \in Keys
      PROVE  OpenWindow(k)' = OpenWindow(k)
  BY <1>1 DEF cleanup, OpenWindow, Over
<1> QED
  BY <1>1, <1>2 DEF Q!quotaVars, Quota, LastAnswer

\* A login that fails forgives nothing.
LEMMA FailIsLogin ==
    ASSUME NEW p \in Workers, loginFails(p)
    PROVE  Q!QLogin(p)
<1>1. Quota' = Quota /\ LastAnswer' = LastAnswer
  BY DEF loginFails, Quota, OpenWindow, Over, LastAnswer
<1> QED
  BY <1>1 DEF loginFails, Q!QLogin

\* A login that succeeds forgives the window of its key, in the map or not.
LEMMA ResetIsLogin ==
    ASSUME TypeOK, NEW p \in Workers, reset(p)
    PROVE  Q!QLogin(p)
<1>1. PICK k \in Keys : k = w[p]
  BY DEF reset, TypeOK, WorkersType
<1>2. now' = now /\ last' = last /\ w[p] # "" /\ w' = [w EXCEPT ![p] = ""]
  BY DEF reset
<1>3. OpenWindow(k)' = Q!Closed
  BY <1>1 DEF reset, OpenWindow, Q!Closed
<1>4. ASSUME NEW j \in Keys, j # k
      PROVE  OpenWindow(j)' = OpenWindow(j)
  BY <1>1, <1>2, <1>4 DEF reset, OpenWindow, Over
<1>5. Quota' = [Quota EXCEPT ![k] = Q!Closed]
  BY <1>3, <1>4 DEF Quota
<1> QED
  BY <1>1, <1>2, <1>5 DEF Q!QLogin, LastAnswer

\* Time closes the windows that are over.
LEMMA AdvanceIsTime ==
    ASSUME TypeOK, Advance
    PROVE  Q!QTime
<1>1. /\ now < MaxTime /\ now' = now + 1 /\ visitors' = visitors
      /\ last' = last /\ w' = w
  BY DEF Advance
<1>2. now \in Nat /\ now >= 1
  BY ClockIsNat DEF TypeOK
<1>3. ASSUME NEW k \in Keys
      PROVE  OpenWindow(k)' = IF OpenWindow(k).end < now + 1 THEN Q!Closed ELSE OpenWindow(k)
  <2>1. CASE k \notin DOMAIN visitors
    BY <1>1, <1>2, <2>1 DEF OpenWindow, Q!Closed
  <2>2. CASE k \in DOMAIN visitors
    <3>1. visitors[k].windowEnd \in Nat
      BY <2>2 DEF TypeOK, VisitorsType
    <3> QED
      BY <1>1, <1>2, <2>2, <3>1 DEF OpenWindow, Q!Closed, Over
  <2> QED
    BY <2>1, <2>2
<1> QED
  BY <1>1, <1>3 DEF Q!QTime, Quota, LastAnswer

\* A restart forgives all windows.
LEMMA RestartIsRestart ==
    ASSUME Restart
    PROVE  Q!QRestart
<1>1. ASSUME NEW k \in Keys
      PROVE  OpenWindow(k)' = Q!Closed
  BY DEF Restart, OpenWindow, Q!Closed
<1> QED
  BY <1>1 DEF Restart, Q!QRestart, Quota, LastAnswer

\* The map of visitors, the goroutine that cleans it up and a reset that comes
\* late cannot be observed: the limiter implements the fixed-window quota.
THEOREM LimiterIsQuota == Spec => ImplementsWindowQuota
<1>1. Init => Q!QInit
  <2> SUFFICES ASSUME Init PROVE Q!QInit
    OBVIOUS
  <2>1. Quota = [k \in Keys |-> Q!Closed]
    BY DEF Init, Quota, OpenWindow, Q!Closed
  <2>2. LastAnswer = Q!Silent
    BY DEF Init, NoAnswer, LastAnswer, Q!Silent
  <2>3. now = 1 /\ w = [p \in Workers |-> ""]
    BY DEF Init
  <2> QED
    BY <2>1, <2>2, <2>3 DEF Q!QInit
<1>2. TypeOK /\ [Next]_vars => [Q!QNext]_(Q!quotaVars)
  <2> SUFFICES ASSUME TypeOK, [Next]_vars
               PROVE  Q!QNext \/ UNCHANGED Q!quotaVars
    OBVIOUS
  <2>1. ASSUME NEW p \in Workers, NEW k \in Keys, allow(p, k)
        PROVE  Q!QNext
    BY <2>1, AllowIsAsk DEF Q!QNext
  <2>2. CASE cleanup
    BY <2>2, CleanupIsHidden
  <2>3. ASSUME NEW p \in Workers, loginFails(p) \/ reset(p)
        PROVE  Q!QNext
    BY <2>3, FailIsLogin, ResetIsLogin DEF Q!QNext
  <2>4. CASE Advance
    BY <2>4, AdvanceIsTime DEF Q!QNext
  <2>5. CASE Restart
    BY <2>5, RestartIsRestart DEF Q!QNext
  <2>6. CASE UNCHANGED vars
    BY <2>6 DEF vars, Q!quotaVars, Quota, OpenWindow, Over, LastAnswer
  <2> QED
    BY <2>1, <2>2, <2>3, <2>4, <2>5, <2>6 DEF Next
<1> QED
  BY <1>1, <1>2, TypeCorrect, PTL DEF Spec, ImplementsWindowQuota, Q!QSpec

-----------------------------------------------------------------------------
(* Sums over a stretch of time.                                            *)

\* Totals, with its recursion spelled out.
TotalsLoop(f) ==
    CHOOSE sum : sum = [t \in 0..MaxTime |-> IF t = 0 THEN 0 ELSE sum[t - 1] + f[t]]

\* Totals is what its recursion chooses.
LEMMA TotalsIsLoop ==
    ASSUME NEW f
    PROVE  Totals(f) = TotalsLoop(f)
BY DEF Totals, TotalsLoop

\* The totals satisfy their recursion.
LEMMA TotalsDef ==
    ASSUME NEW f \in [1..MaxTime -> Nat]
    PROVE  /\ Totals(f) \in [0..MaxTime -> Nat] /\ Totals(f)[0] = 0
           /\ \A t \in 1..MaxTime : Totals(f)[t] = Totals(f)[t - 1] + f[t]
<1> DEFINE n == MaxTime
           Step(v, t) == v + f[t]
           step == [t \in 1..n |-> [v \in Nat |-> Step(v, t)]]
<1>1. n \in Nat /\ \A t \in 1..n : f[t] \in Nat
  BY LimiterAssumptions
<1>2. step \in [1..n -> [Nat -> Nat]]
  BY <1>1
<1>3. \A v \in Nat, t \in 1..n : step[t][v] = Step(v, t)
  OBVIOUS
<1> HIDE DEF step, n
<1>4. PICK g : Follows(g, n, Nat, 0, step)
  BY <1>1, <1>2, RecursionExists
<1>5. g \in [0..n -> Nat] /\ g[0] = 0 /\ \A t \in 1..n : g[t] = step[t][g[t - 1]]
  BY <1>4 DEF Follows
<1>6. g = [t \in 0..n |-> IF t = 0 THEN 0 ELSE g[t - 1] + f[t]]
  <2>1. \A t \in 0..n : t # 0 => t \in 1..n /\ g[t - 1] \in Nat
    BY <1>1, <1>5
  <2> QED
    BY <1>1, <1>3, <1>5, <2>1
<1> DEFINE sum == Totals(f)
<1>7. sum = [t \in 0..n |-> IF t = 0 THEN 0 ELSE sum[t - 1] + f[t]]
  BY <1>6, TotalsIsLoop DEF TotalsLoop, n
<1> HIDE DEF sum
<1>8. sum[0] = 0 /\ \A t \in 1..n : sum[t] = sum[t - 1] + f[t]
  BY <1>1, <1>7
<1>9. sum = [t \in 0..n |-> sum[t]]
  BY <1>7
<1> DEFINE T == {t \in 0..n : sum[t] \in Nat}
<1>10. 0 \in T /\ \A t \in 0..(n - 1) : t \in T => t + 1 \in T
  <2>1. 0 \in T
    BY <1>1, <1>8
  <2> SUFFICES ASSUME NEW t \in 0..(n - 1), sum[t] \in Nat PROVE sum[t + 1] \in Nat
    BY <1>1, <2>1
  <2>2. t + 1 \in 1..n /\ (t + 1) - 1 = t
    BY <1>1
  <2> QED
    BY <1>1, <1>8, <2>2
<1>11. 0..n \subseteq T
  <2> HIDE DEF T
  <2> QED
    BY <1>1, <1>10, InductionUpTo
<1>12. sum \in [0..n -> Nat]
  BY <1>9, <1>11
<1> QED
  BY <1>8, <1>12 DEF sum, n

\* They grow with time.
LEMMA TotalsGrow ==
    ASSUME NEW f \in [1..MaxTime -> Nat], NEW a \in 0..MaxTime, NEW b \in 0..MaxTime, a <= b
    PROVE  Totals(f)[a] <= Totals(f)[b]
<1> DEFINE sum == Totals(f)
           T == {t \in 0..MaxTime : a <= t => sum[a] <= sum[t]}
<1>1. MaxTime \in Nat
  BY LimiterAssumptions
<1>2. /\ sum \in [0..MaxTime -> Nat]
      /\ \A t \in 1..MaxTime : sum[t] = sum[t - 1] + f[t] /\ f[t] \in Nat
  BY TotalsDef
<1> HIDE DEF sum
<1>3. 0 \in T
  BY <1>1, <1>2
<1>4. ASSUME NEW t \in 0..(MaxTime - 1), t \in T
      PROVE  t + 1 \in T
  <2>1. t + 1 \in 1..MaxTime /\ (t + 1) - 1 = t /\ t \in 0..MaxTime /\ t + 1 \in 0..MaxTime
    BY <1>1
  <2>2. sum[t + 1] = sum[t] + f[t + 1] /\ f[t + 1] \in Nat
    BY <1>2, <2>1
  <2>3. sum[a] \in Nat /\ sum[t] \in Nat /\ sum[t + 1] \in Nat
    BY <1>2, <2>1
  <2>4. CASE a = t + 1
    BY <2>1, <2>3, <2>4
  <2>5. CASE a # t + 1
    <3>1. a <= t + 1 => a <= t
      BY <2>5
    <3> QED
      BY <1>4, <2>1, <2>2, <2>3, <3>1
  <2> QED
    BY <2>4, <2>5
<1>5. 0..MaxTime \subseteq T
  <2>1. \A t \in 0..(MaxTime - 1) : t \in T => t + 1 \in T
    BY <1>4
  <2> HIDE DEF T
  <2> QED
    BY <1>1, <1>3, <2>1, InductionUpTo
<1> QED
  BY <1>5 DEF sum

\* They stay where nothing is admitted.
LEMMA TotalsStay ==
    ASSUME NEW f \in [1..MaxTime -> Nat], NEW a \in 0..MaxTime, NEW b \in 0..MaxTime, a <= b,
           \A t \in 1..MaxTime : a < t /\ t <= b => f[t] = 0
    PROVE  Totals(f)[b] = Totals(f)[a]
<1> DEFINE sum == Totals(f)
           T == {t \in 0..MaxTime : a <= t /\ t <= b => sum[t] = sum[a]}
<1>1. MaxTime \in Nat
  BY LimiterAssumptions
<1>2. /\ sum \in [0..MaxTime -> Nat]
      /\ \A t \in 1..MaxTime : sum[t] = sum[t - 1] + f[t] /\ f[t] \in Nat
  BY TotalsDef
<1> HIDE DEF sum
<1>3. 0 \in T
  BY <1>1, <1>2
<1>4. ASSUME NEW t \in 0..(MaxTime - 1), t \in T
      PROVE  t + 1 \in T
  <2>1. t + 1 \in 1..MaxTime /\ (t + 1) - 1 = t /\ t \in 0..MaxTime /\ t + 1 \in 0..MaxTime
    BY <1>1
  <2>2. sum[t + 1] = sum[t] + f[t + 1] /\ sum[t] \in Nat
    BY <1>2, <2>1
  <2>3. CASE a = t + 1
    BY <2>1, <2>3
  <2>4. CASE a # t + 1 /\ a <= t + 1 /\ t + 1 <= b
    <3>1. a <= t /\ t <= b /\ a < t + 1
      BY <2>1, <2>4
    <3>2. f[t + 1] = 0 /\ sum[t] = sum[a]
      BY <1>4, <2>1, <2>4, <3>1
    <3> QED
      BY <2>1, <2>2, <3>2
  <2> QED
    BY <2>1, <2>3, <2>4
<1>5. 0..MaxTime \subseteq T
  <2>1. \A t \in 0..(MaxTime - 1) : t \in T => t + 1 \in T
    BY <1>4
  <2> HIDE DEF T
  <2> QED
    BY <1>1, <1>3, <2>1, InductionUpTo
<1> QED
  BY <1>5 DEF sum

\* One more request at instant m counts from there on.
LEMMA TotalsCount ==
    ASSUME NEW f \in [1..MaxTime -> Nat], NEW g \in [1..MaxTime -> Nat], NEW m \in 1..MaxTime,
           g[m] = f[m] + 1, \A t \in 1..MaxTime \ {m} : g[t] = f[t],
           NEW a \in 0..MaxTime
    PROVE  Totals(g)[a] = IF a < m THEN Totals(f)[a] ELSE Totals(f)[a] + 1
<1> DEFINE sum == Totals(f)
           new == Totals(g)
           T == {t \in 0..MaxTime : new[t] = IF t < m THEN sum[t] ELSE sum[t] + 1}
<1>1. MaxTime \in Nat
  BY LimiterAssumptions
<1>2. /\ sum \in [0..MaxTime -> Nat] /\ sum[0] = 0
      /\ \A t \in 1..MaxTime : sum[t] = sum[t - 1] + f[t] /\ f[t] \in Nat
  BY TotalsDef
<1>3. /\ new \in [0..MaxTime -> Nat] /\ new[0] = 0
      /\ \A t \in 1..MaxTime : new[t] = new[t - 1] + g[t] /\ g[t] \in Nat
  BY TotalsDef
<1> HIDE DEF sum, new
<1>4. 0 \in T
  BY <1>1, <1>2, <1>3
<1>5. ASSUME NEW t \in 0..(MaxTime - 1), t \in T
      PROVE  t + 1 \in T
  <2>1. t + 1 \in 1..MaxTime /\ (t + 1) - 1 = t /\ t \in 0..MaxTime /\ t + 1 \in 0..MaxTime
    BY <1>1
  <2>2. sum[t + 1] = sum[t] + f[t + 1] /\ sum[t] \in Nat /\ f[t + 1] \in Nat
    BY <1>2, <2>1
  <2>3. new[t + 1] = new[t] + g[t + 1] /\ new[t] \in Nat
    BY <1>3, <2>1
  <2>4. new[t] = IF t < m THEN sum[t] ELSE sum[t] + 1
    BY <1>5
  <2>5. g[t + 1] = IF t + 1 = m THEN f[t + 1] + 1 ELSE f[t + 1]
    BY <2>1
  <2> QED
    BY <2>1, <2>2, <2>3, <2>4, <2>5
<1>6. 0..MaxTime \subseteq T
  <2>1. \A t \in 0..(MaxTime - 1) : t \in T => t + 1 \in T
    BY <1>5
  <2> HIDE DEF T
  <2> QED
    BY <1>1, <1>4, <2>1, InductionUpTo
<1> QED
  BY <1>6 DEF sum, new

-----------------------------------------------------------------------------
(* The windows of a key, past and present.                                 *)

Capped(t) == IF t <= MaxTime THEN t ELSE MaxTime

\* What the window that began at s admitted.
Admitted(f, s) == SumOver(f, s, Capped(s + Window))

\* S are the beginnings of the windows of a key: no two of them overlap, every
\* request that was admitted is in one of them, and none admitted more than Limit.
Windows(f, S) ==
    /\ \A a, b \in S : a < b => a + Window < b
    /\ \A t \in 1..MaxTime : f[t] > 0 => \E s \in S : s <= t /\ t <= s + Window
    /\ \A s \in S : Admitted(f, s) <= Limit

Begun(v) == v.windowEnd - Window

\* The visitor in the map is the last window, and its count covers what the
\* window admitted; a key that is not in the map has no open window.
Latest(k, S) ==
    /\ k \in DOMAIN visitors =>
          /\ Begun(visitors[k]) \in S
          /\ \A s \in S : s <= Begun(visitors[k])
          /\ Admitted(allowed[k], Begun(visitors[k])) <= visitors[k].count
    /\ k \notin DOMAIN visitors => \A s \in S : s + Window < now

KeyInv(k) ==
    /\ \A t \in 1..MaxTime : t > now => allowed[k][t] = 0
    /\ \E S \in SUBSET (1..now) : Windows(allowed[k], S) /\ Latest(k, S)

LimitInv == \A k \in Keys : KeyInv(k)

\* The constants are numbers.
LEMMA WindowIsNat == Window \in Nat /\ Window > 0 /\ MaxTime \in Nat /\ Limit \in Nat
BY LimiterAssumptions

\* A window's sum is the difference of two totals.
LEMMA AdmittedType ==
    ASSUME NEW f \in [1..MaxTime -> Nat], NEW s \in 1..MaxTime
    PROVE  /\ Capped(s + Window) \in 0..MaxTime /\ s - 1 \in 0..MaxTime
           /\ s <= Capped(s + Window)
           /\ Totals(f)[Capped(s + Window)] \in Nat /\ Totals(f)[s - 1] \in Nat
           /\ Admitted(f, s) = Totals(f)[Capped(s + Window)] - Totals(f)[s - 1]
<1>1. Capped(s + Window) \in 0..MaxTime /\ s - 1 \in 0..MaxTime /\ s <= Capped(s + Window)
  BY WindowIsNat DEF Capped
<1>2. Totals(f) \in [0..MaxTime -> Nat]
  BY TotalsDef
<1> QED
  BY <1>1, <1>2 DEF Admitted, SumOver

\* An empty history has no windows.
LEMMA UnusedIsGood ==
    ASSUME TypeOK, NEW k \in Keys, k \notin DOMAIN visitors, allowed[k] = Unused
    PROVE  KeyInv(k)
<1>1. \A t \in 1..MaxTime : allowed[k][t] = 0
  BY DEF Unused
<1>2. Windows(allowed[k], {}) /\ Latest(k, {})
  BY <1>1 DEF Windows, Latest
<1> QED
  BY <1>1, <1>2 DEF KeyInv

\* A key whose visitor and history stay keeps its windows, also when time passes.
LEMMA SameIsGood ==
    ASSUME TypeOK, NEW k \in Keys, KeyInv(k), now' = now \/ now' = now + 1,
           allowed'[k] = allowed[k],
           \/ k \in DOMAIN visitors /\ k \in DOMAIN visitors' /\ visitors'[k] = visitors[k]
           \/ k \notin DOMAIN visitors'
              /\ (k \in DOMAIN visitors => visitors[k].windowEnd < now)
    PROVE  KeyInv(k)'
<1>1. now \in 1..MaxTime /\ now' \in Nat /\ now <= now' /\ Window \in Nat
  BY WindowIsNat DEF TypeOK, ClockType
<1>2. \A t \in 1..MaxTime : t > now' => allowed'[k][t] = 0
  BY <1>1 DEF KeyInv
<1>3. PICK S \in SUBSET (1..now) : Windows(allowed[k], S) /\ Latest(k, S)
  BY DEF KeyInv
<1>4. S \in SUBSET (1..now') /\ \A s \in S : s \in Int
  BY <1>1
<1>5. Windows(allowed'[k], S)
  BY <1>3
<1>6. CASE k \in DOMAIN visitors /\ k \in DOMAIN visitors' /\ visitors'[k] = visitors[k]
  <2>1. /\ Begun(visitors'[k]) \in S /\ \A s \in S : s <= Begun(visitors'[k])
        /\ Admitted(allowed'[k], Begun(visitors'[k])) <= visitors'[k].count
    BY <1>3, <1>6 DEF Latest
  <2>2. Latest(k, S)'
    BY <1>6, <2>1 DEF Latest, Begun, Admitted, SumOver, Totals, Capped
  <2> QED
    BY <1>2, <1>4, <1>5, <2>2 DEF KeyInv, Windows, Admitted, SumOver, Totals, Capped
<1>7. CASE k \notin DOMAIN visitors' /\ (k \in DOMAIN visitors => visitors[k].windowEnd < now)
  <2>1. ASSUME NEW s \in S PROVE s + Window < now'
    <3>1. CASE k \notin DOMAIN visitors
      BY <1>1, <1>3, <1>4, <3>1 DEF Latest
    <3>2. CASE k \in DOMAIN visitors
      <4>1. visitors[k].windowEnd \in Nat
        BY <3>2 DEF TypeOK, VisitorsType
      <4>2. s <= visitors[k].windowEnd - Window
        BY <1>3, <3>2 DEF Latest, Begun
      <4> QED
        BY <1>1, <1>4, <1>7, <3>2, <4>1, <4>2
    <3> QED
      BY <3>1, <3>2
  <2>2. Latest(k, S)'
    BY <1>7, <2>1 DEF Latest
  <2> QED
    BY <1>2, <1>4, <1>5, <2>2 DEF KeyInv, Windows, Admitted, SumOver, Totals, Capped
<1> QED
  BY <1>6, <1>7

\* A window that begins when all others are over has admitted nothing yet.
LEMMA FreshWindow ==
    ASSUME NEW f \in [1..MaxTime -> Nat], NEW m \in 1..MaxTime, NEW S, S \subseteq 1..m,
           \A s \in S : s + Window < m, Windows(f, S), \A t \in 1..MaxTime : t > m => f[t] = 0
    PROVE  Windows(f, S \cup {m}) /\ Admitted(f, m) = 0
<1>1. /\ Window \in Nat /\ MaxTime \in Nat /\ Limit \in Nat /\ m \in Nat
      /\ \A s \in S : s \in Nat /\ s \in 1..MaxTime
  BY WindowIsNat
<1>2. ASSUME NEW t \in 1..MaxTime, m - 1 < t
      PROVE  f[t] = 0
  <2>1. CASE t = m
    <3>1. ~ (f[m] > 0)
      BY <1>1 DEF Windows
    <3> QED
      BY <2>1, <3>1
  <2>2. CASE t # m
    BY <1>1, <1>2, <2>2
  <2> QED
    BY <2>1, <2>2
<1>3. Admitted(f, m) = 0
  <2> DEFINE c == Capped(m + Window)
  <2>1. /\ c \in 0..MaxTime /\ m - 1 \in 0..MaxTime /\ m <= c
        /\ Totals(f)[c] \in Nat /\ Totals(f)[m - 1] \in Nat
        /\ Admitted(f, m) = Totals(f)[c] - Totals(f)[m - 1]
    BY AdmittedType
  <2> HIDE DEF c
  <2>2. m - 1 <= c
    BY <1>1, <2>1
  <2>3. Totals(f)[c] = Totals(f)[m - 1]
    BY <1>2, <2>1, <2>2, TotalsStay
  <2> QED
    BY <2>1, <2>3
<1>4. \A a, b \in S \cup {m} : a < b => a + Window < b
  BY <1>1 DEF Windows
<1>5. \A t \in 1..MaxTime : f[t] > 0 => \E s \in S \cup {m} : s <= t /\ t <= s + Window
  BY DEF Windows
<1>6. \A s \in S \cup {m} : Admitted(f, s) <= Limit
  BY <1>1, <1>3 DEF Windows
<1> QED
  BY <1>3, <1>4, <1>5, <1>6 DEF Windows

\* The history g has one request more than f, at the instant m.
OneMore(f, g, m) ==
    /\ f \in [1..MaxTime -> Nat] /\ g \in [1..MaxTime -> Nat]
    /\ g[m] = f[m] + 1 /\ \A t \in 1..MaxTime \ {m} : g[t] = f[t]

\* The window that begins at b is the last of S, and open at the instant m.
LastOf(S, b, m) == S \subseteq 1..m /\ b \in S /\ m <= b + Window /\ \A s \in S : s <= b

\* A request that is admitted counts in the last window only.
LEMMA CountWindows ==
    ASSUME NEW f, NEW g, NEW m \in 1..MaxTime, OneMore(f, g, m), NEW S, NEW b, LastOf(S, b, m),
           Windows(f, S), Admitted(f, b) + 1 <= Limit
    PROVE  Windows(g, S) /\ Admitted(g, b) = Admitted(f, b) + 1
<1>m. /\ f \in [1..MaxTime -> Nat] /\ g \in [1..MaxTime -> Nat]
      /\ g[m] = f[m] + 1 /\ \A t \in 1..MaxTime \ {m} : g[t] = f[t]
  BY DEF OneMore
<1>l. S \subseteq 1..m /\ b \in S /\ m <= b + Window /\ \A s \in S : s <= b
  BY DEF LastOf
<1>1. /\ Window \in Nat /\ MaxTime \in Nat /\ Limit \in Nat /\ m \in Nat
      /\ \A s \in S : s \in Nat /\ s \in 1..MaxTime
  BY <1>l, WindowIsNat
<1>a. \A a \in 0..MaxTime : Totals(g)[a] = IF a < m THEN Totals(f)[a] ELSE Totals(f)[a] + 1
  BY <1>m, TotalsCount
<1>2. ASSUME NEW s \in S
      PROVE  Admitted(g, s) = IF s = b THEN Admitted(f, s) + 1 ELSE Admitted(f, s)
  <2> DEFINE c == Capped(s + Window)
  <2>0. s \in 1..MaxTime
    BY <1>1
  <2>1. /\ c \in 0..MaxTime /\ s - 1 \in 0..MaxTime
        /\ Totals(f)[c] \in Nat /\ Totals(f)[s - 1] \in Nat
        /\ Admitted(f, s) = Totals(f)[c] - Totals(f)[s - 1]
    BY <1>m, <2>0, AdmittedType
  <2>2. Admitted(g, s) = Totals(g)[c] - Totals(g)[s - 1]
    BY <1>m, <2>0, AdmittedType
  <2>3. IF s = b THEN m <= c ELSE c < m
    <3>1. CASE s = b
      BY <1>l, <1>1, <3>1 DEF Capped
    <3>2. CASE s # b
      <4>1. s < b /\ b <= m
        BY <1>l, <1>1, <3>2
      <4>2. s + Window < b
        BY <1>l, <4>1 DEF Windows
      <4> QED
        BY <1>l, <1>1, <3>2, <4>1, <4>2 DEF Capped
    <3> QED
      BY <3>1, <3>2
  <2>4. s - 1 < m
    BY <1>l, <1>1
  <2> HIDE DEF c
  <2>5. Totals(g)[c] = IF c < m THEN Totals(f)[c] ELSE Totals(f)[c] + 1
    BY <1>a, <2>1
  <2>6. Totals(g)[s - 1] = Totals(f)[s - 1]
    BY <1>a, <2>1, <2>4
  <2>7. CASE s = b
    <3>1. ~ (c < m)
      BY <1>1, <2>1, <2>3, <2>7
    <3> QED
      BY <2>1, <2>2, <2>5, <2>6, <2>7, <3>1
  <2>8. CASE s # b
    BY <2>1, <2>2, <2>3, <2>5, <2>6, <2>8
  <2> QED
    BY <2>7, <2>8
<1>3. \A t \in 1..MaxTime : g[t] > 0 => \E s \in S : s <= t /\ t <= s + Window
  <2> SUFFICES ASSUME NEW t \in 1..MaxTime, g[t] > 0
               PROVE  \E s \in S : s <= t /\ t <= s + Window
    OBVIOUS
  <2>1. CASE t = m
    BY <1>l, <1>1, <2>1
  <2>2. CASE t # m
    BY <1>m, <2>2 DEF Windows
  <2> QED
    BY <2>1, <2>2
<1>4. \A s \in S : Admitted(g, s) <= Limit
  BY <1>2 DEF Windows
<1>5. Admitted(g, b) = Admitted(f, b) + 1
  BY <1>l, <1>2
<1> QED
  BY <1>3, <1>4, <1>5 DEF Windows

\* A request keeps the windows of its key: it counts on the last window, or on
\* one that begins now because all others are over.
LEMMA AllowIsGood ==
    ASSUME TypeOK, TypeOK', NEW p \in Workers, NEW k \in Keys, KeyInv(k), allow(p, k)
    PROVE  KeyInv(k)'
<1> DEFINE v == Visitor(k)
           b == Begun(v)
           f == allowed[k]
           g == allowed'[k]
           ok == v.count + 1 <= Limit
<1>1. /\ Window \in Nat /\ MaxTime \in Nat /\ Limit \in Nat
      /\ now \in 1..MaxTime /\ now' = now
      /\ f \in [1..MaxTime -> Nat] /\ g \in [1..MaxTime -> Nat]
  BY WindowIsNat DEF TypeOK, ClockType, HistoryType, allow
<1>2. v.count \in Nat /\ v.windowEnd \in Nat /\ now <= v.windowEnd
  <2>1. v \in [count : Nat, windowEnd : Nat] /\ ~ Over(v)
    BY VisitorIsOpen DEF TypeOK
  <2>2. v.count \in Nat /\ v.windowEnd \in Nat
    BY <2>1
  <2> HIDE DEF v
  <2> QED
    BY <1>1, <2>1, <2>2 DEF Over
<1>3. /\ k \in DOMAIN visitors' /\ visitors'[k].count = v.count + 1
      /\ visitors'[k].windowEnd = v.windowEnd
  <2>1. visitors' = Put(k, Counted(v))
    BY DEF allow
  <2> HIDE DEF v
  <2> QED
    BY <2>1 DEF Put, Counted
<1>4. IF ok THEN g[now] = f[now] + 1 /\ \A t \in 1..MaxTime \ {now} : g[t] = f[t]
            ELSE g = f
  <2>1. allowed' = [allowed EXCEPT ![k] = [allowed[k] EXCEPT
                       ![now] = IF ok THEN allowed[k][now] + 1 ELSE allowed[k][now]]]
    BY DEF allow, Counted, WithinLimit
  <2>2. DOMAIN allowed = Keys
    BY DEF TypeOK, HistoryType
  <2> HIDE DEF ok
  <2>3. g = [f EXCEPT ![now] = IF ok THEN f[now] + 1 ELSE f[now]]
    BY <2>1, <2>2
  <2> QED
    BY <1>1, <2>3
<1>5. \A t \in 1..MaxTime : t > now => f[t] = 0 /\ g[t] = 0
  <2>1. \A t \in 1..MaxTime : t > now => f[t] = 0
    BY DEF KeyInv
  <2>2. \A t \in 1..MaxTime : t > now => g[t] = f[t]
    <3> HIDE DEF f, g, v
    <3> QED
      BY <1>1, <1>4
  <2> QED
    BY <2>1, <2>2
<1>6. PICK S \in SUBSET (1..now) : Windows(f, S) /\ Latest(k, S)
  BY DEF KeyInv
<1>7. /\ S \cup {b} \subseteq 1..now /\ Windows(f, S \cup {b})
      /\ \A s \in S \cup {b} : s <= b
      /\ Admitted(f, b) <= v.count
  <2>1. CASE k \in DOMAIN visitors /\ ~ Over(visitors[k])
    <3>1. v = visitors[k]
      BY <2>1 DEF Visitor
    <3>2. b \in S /\ (\A s \in S : s <= b) /\ Admitted(f, b) <= v.count
      BY <1>6, <2>1, <3>1 DEF Latest
    <3>3. S \cup {b} = S
      BY <3>2
    <3> QED
      BY <1>6, <3>2, <3>3
  <2>2. CASE ~ (k \in DOMAIN visitors /\ ~ Over(visitors[k]))
    <3>1. v.count = 0 /\ b = now
      BY <1>1, <2>2 DEF Visitor, FreshVisitor, Begun
    <3>2. ASSUME NEW s \in S PROVE s + Window < now
      <4>1. CASE k \notin DOMAIN visitors
        BY <1>6, <4>1 DEF Latest
      <4>2. CASE k \in DOMAIN visitors
        <5>1. visitors[k].windowEnd < now /\ visitors[k].windowEnd \in Nat
          BY <1>1, <2>2, <4>2 DEF Over, TypeOK, VisitorsType
        <5>2. s <= visitors[k].windowEnd - Window
          BY <1>6, <4>2 DEF Latest, Begun
        <5> QED
          BY <1>1, <5>1, <5>2
      <4> QED
        BY <4>1, <4>2
    <3>3. Windows(f, S \cup {now}) /\ Admitted(f, now) = 0
      <4>1. \A t \in 1..MaxTime : t > now => f[t] = 0
        BY <1>5
      <4>2. f \in [1..MaxTime -> Nat] /\ now \in 1..MaxTime /\ S \subseteq 1..now /\ Windows(f, S)
        BY <1>1, <1>6
      <4> HIDE DEF f
      <4>3. \A s \in S : s + Window < now
        BY <3>2
      <4> QED
        BY <4>1, <4>2, <4>3, FreshWindow
    <3>4. \A s \in S \cup {now} : s <= now
      <4>1. S \subseteq 1..now /\ now \in Nat
        BY <1>1
      <4> HIDE DEF v, b, f, g
      <4> QED
        BY <4>1
    <3>5. S \cup {now} \subseteq 1..now
      BY <1>1
    <3> HIDE DEF v, b, f
    <3>6. S \cup {b} = S \cup {now} /\ Admitted(f, b) = Admitted(f, now)
      BY <3>1
    <3>7. Admitted(f, b) <= v.count
      BY <3>1, <3>3, <3>6
    <3> QED
      BY <3>1, <3>3, <3>4, <3>5, <3>6, <3>7
  <2> QED
    BY <2>1, <2>2
<1>u. PICK U : U = S \cup {b}
  OBVIOUS
<1>8. b \in U /\ b \in 1..now /\ now <= b + Window
  BY <1>1, <1>2, <1>7, <1>u DEF Begun
<1>9. b \in 1..MaxTime
  BY <1>1, <1>8
<1> HIDE DEF v, b, f, g
<1>10. Admitted(f, b) \in Int
  <2>1. f \in [1..MaxTime -> Nat]
    BY <1>1
  <2>2. /\ Totals(f)[Capped(b + Window)] \in Nat /\ Totals(f)[b - 1] \in Nat
        /\ Admitted(f, b) = Totals(f)[Capped(b + Window)] - Totals(f)[b - 1]
    BY <1>9, <2>1, AdmittedType
  <2> QED
    BY <2>2
<1>11. Windows(g, U) /\ Admitted(g, b) <= v.count + 1
  <2>1. CASE ok
    <3>1. Admitted(f, b) + 1 <= Limit
      BY <1>1, <1>2, <1>7, <1>10, <2>1
    <3>2. Windows(g, U) /\ Admitted(g, b) = Admitted(f, b) + 1
      <4>1. OneMore(f, g, now)
        BY <1>1, <1>4, <2>1 DEF OneMore
      <4>2. LastOf(U, b, now)
        BY <1>7, <1>8, <1>u DEF LastOf
      <4>3. Windows(f, U) /\ now \in 1..MaxTime
        BY <1>1, <1>7, <1>u
      <4> HIDE DEF ok
      <4> QED
        BY <3>1, <4>1, <4>2, <4>3, CountWindows
    <3> QED
      BY <1>2, <1>7, <1>10, <3>2
  <2>2. CASE ~ ok
    BY <1>2, <1>4, <1>7, <1>10, <1>u, <2>2
  <2> QED
    BY <2>1, <2>2
<1>12. Begun(visitors'[k]) = b
  BY <1>3 DEF b, Begun
<1>13. Latest(k, U)'
  <2>1. /\ Begun(visitors'[k]) \in U /\ (\A s \in U : s <= Begun(visitors'[k]))
        /\ Admitted(allowed'[k], Begun(visitors'[k])) <= visitors'[k].count
    BY <1>3, <1>7, <1>8, <1>11, <1>12, <1>u DEF g
  <2> QED
    BY <1>3, <2>1 DEF Latest
<1>14. U \in SUBSET (1..now')
  BY <1>1, <1>7, <1>u
<1>15. \A t \in 1..MaxTime : t > now' => allowed'[k][t] = 0
  BY <1>1, <1>5 DEF g
<1>16. Windows(allowed'[k], U)
  BY <1>11 DEF g
<1> QED
  BY <1>13, <1>14, <1>15, <1>16 DEF KeyInv

\* Every step keeps the windows of every key.
LEMMA LimitStep ==
    ASSUME TypeOK, TypeOK', LimitInv, [Next]_vars
    PROVE  LimitInv'
<1> SUFFICES ASSUME NEW k \in Keys PROVE KeyInv(k)'
  BY DEF LimitInv
<1>0. /\ KeyInv(k) /\ allowed \in [Keys -> [1..MaxTime -> Nat]]
      /\ visitors \in [DOMAIN visitors -> [count : Nat, windowEnd : Nat]] /\ now \in Nat
  BY ClockIsNat DEF LimitInv, TypeOK, HistoryType, VisitorsType
<1>1. ASSUME UNCHANGED <<visitors, allowed>>, now' = now \/ now' = now + 1
      PROVE  KeyInv(k)'
  <2>1. CASE k \in DOMAIN visitors
    BY <1>0, <1>1, <2>1, SameIsGood
  <2>2. CASE k \notin DOMAIN visitors
    BY <1>0, <1>1, <2>2, SameIsGood
  <2> QED
    BY <2>1, <2>2
<1>2. ASSUME NEW p \in Workers, NEW j \in Keys, allow(p, j)
      PROVE  KeyInv(k)'
  <2>1. CASE j = k
    BY <1>0, <1>2, <2>1, AllowIsGood
  <2>2. CASE j # k
    <3>1. now' = now /\ allowed'[k] = allowed[k]
      BY <1>0, <1>2, <2>2 DEF allow
    <3> DEFINE new == Counted(Visitor(j))
    <3>2. visitors' = Put(j, new)
      BY <1>2 DEF allow
    <3> HIDE DEF new
    <3>3. /\ k \in DOMAIN visitors => k \in DOMAIN visitors' /\ visitors'[k] = visitors[k]
          /\ k \notin DOMAIN visitors => k \notin DOMAIN visitors'
      BY <2>2, <3>2 DEF Put
    <3> QED
      BY <1>0, <3>1, <3>3, SameIsGood
  <2> QED
    BY <2>1, <2>2
<1>3. ASSUME NEW p \in Workers, loginFails(p)
      PROVE  KeyInv(k)'
  BY <1>1, <1>3 DEF loginFails
<1>4. ASSUME NEW p \in Workers, reset(p)
      PROVE  KeyInv(k)'
  <2>1. /\ visitors' = [j \in DOMAIN visitors \ {w[p]} |-> visitors[j]]
        /\ allowed' = [allowed EXCEPT ![w[p]] = Unused] /\ now' = now
    BY <1>4 DEF reset
  <2>2. CASE k = w[p]
    <3>1. k \notin DOMAIN visitors' /\ allowed'[k] = Unused
      BY <1>0, <2>1, <2>2
    <3>2. \A t \in 1..MaxTime : allowed'[k][t] = 0
      BY <3>1 DEF Unused
    <3>3. Windows(allowed'[k], {})
      BY <3>2 DEF Windows
    <3>4. Latest(k, {})'
      BY <3>1 DEF Latest
    <3> QED
      BY <3>2, <3>3, <3>4 DEF KeyInv
  <2>3. CASE k # w[p]
    <3>1. /\ allowed'[k] = allowed[k]
          /\ k \in DOMAIN visitors => k \in DOMAIN visitors' /\ visitors'[k] = visitors[k]
          /\ k \notin DOMAIN visitors => k \notin DOMAIN visitors'
      BY <1>0, <2>1, <2>3
    <3> QED
      BY <1>0, <2>1, <3>1, SameIsGood
  <2> QED
    BY <2>2, <2>3
<1>5. CASE cleanup
  <2>1. /\ visitors' = [j \in {i \in DOMAIN visitors : ~ Over(visitors[i])} |-> visitors[j]]
        /\ allowed' = allowed /\ now' = now
    BY <1>5 DEF cleanup
  <2>2. CASE k \in DOMAIN visitors /\ ~ Over(visitors[k])
    BY <1>0, <2>1, <2>2, SameIsGood
  <2>3. CASE ~ (k \in DOMAIN visitors /\ ~ Over(visitors[k]))
    <3>1. k \notin DOMAIN visitors' /\ (k \in DOMAIN visitors => visitors[k].windowEnd < now)
      BY <1>0, <2>1, <2>3 DEF Over
    <3> QED
      BY <1>0, <2>1, <3>1, SameIsGood
  <2> QED
    BY <2>2, <2>3
<1>6. CASE Advance
  BY <1>1, <1>6 DEF Advance
<1>7. CASE Restart
  <2>1. k \notin DOMAIN visitors' /\ allowed'[k] = Unused
    BY <1>7 DEF Restart
  <2>2. \A t \in 1..MaxTime : allowed'[k][t] = 0
    BY <2>1 DEF Unused
  <2>3. Windows(allowed'[k], {})
    BY <2>2 DEF Windows
  <2>4. Latest(k, {})'
    BY <2>1 DEF Latest
  <2> QED
    BY <2>2, <2>3, <2>4 DEF KeyInv
<1>8. CASE UNCHANGED vars
  BY <1>1, <1>8 DEF vars
<1> QED
  BY <1>2, <1>3, <1>4, <1>5, <1>6, <1>7, <1>8 DEF Next

\* At the start no key has a window.
LEMMA LimitInit == Init /\ TypeOK => LimitInv
<1> SUFFICES ASSUME Init, TypeOK, NEW k \in Keys PROVE KeyInv(k)
  BY DEF LimitInv
<1>1. k \notin DOMAIN visitors /\ allowed[k] = Unused
  BY DEF Init
<1> QED
  BY <1>1, UnusedIsGood

\* The limiter's windows are always in order.
THEOREM LimitInvariance == Spec => []LimitInv
<1>1. Init /\ TypeOK => LimitInv
  BY LimitInit
<1>2. TypeOK /\ TypeOK' /\ LimitInv /\ [Next]_vars => LimitInv'
  BY LimitStep
<1> QED
  BY <1>1, <1>2, TypeCorrect, PTL DEF Spec

\* The window that is open for a key has admitted no more than Limit requests
\* that were not forgiven, whatever requests, logins, cleanup passes, restarts
\* and ticks of the clock came in between.
THEOREM OpenWindowIsLimited == Spec => []OpenWindowWithinLimit
<1>1. TypeOK /\ LimitInv => OpenWindowWithinLimit
  <2> SUFFICES ASSUME TypeOK, LimitInv, NEW k \in DOMAIN visitors, ~ Over(visitors[k])
               PROVE  SumOver(allowed[k], visitors[k].windowEnd - Window, now) <= Limit
    BY DEF OpenWindowWithinLimit
  <2> DEFINE f == allowed[k]
             b == visitors[k].windowEnd - Window
  <2>1. /\ k \in Keys /\ f \in [1..MaxTime -> Nat] /\ visitors[k].windowEnd \in Nat
        /\ now \in 1..MaxTime /\ Window \in Nat /\ MaxTime \in Nat /\ Limit \in Nat
        /\ now <= visitors[k].windowEnd
    <3>1. k \in Keys /\ visitors[k].windowEnd \in Nat /\ now \in 1..MaxTime
      BY DEF TypeOK, VisitorsType, ClockType
    <3>2. f \in [1..MaxTime -> Nat]
      BY <3>1 DEF TypeOK, HistoryType
    <3> QED
      BY <3>1, <3>2, WindowIsNat DEF Over
  <2>2. PICK S \in SUBSET (1..now) : Windows(f, S) /\ Latest(k, S)
    BY <2>1 DEF LimitInv, KeyInv
  <2>3. b \in S /\ Admitted(f, b) <= Limit
    BY <2>2 DEF Latest, Begun, Windows
  <2> HIDE DEF f
  <2> DEFINE c == Capped(b + Window)
  <2>4. b \in 1..MaxTime /\ now <= c
    BY <2>1, <2>3 DEF Capped
  <2> HIDE DEF b
  <2>5. /\ c \in 0..MaxTime /\ b - 1 \in 0..MaxTime /\ now \in 0..MaxTime
        /\ Totals(f)[c] \in Nat /\ Totals(f)[b - 1] \in Nat
        /\ Admitted(f, b) = Totals(f)[c] - Totals(f)[b - 1]
    <3>1. f \in [1..MaxTime -> Nat] /\ b \in 1..MaxTime
      BY <2>1, <2>4
    <3>2. now \in 0..MaxTime
      BY <2>1
    <3> QED
      BY <3>1, <3>2, AdmittedType, Zenon
  <2> HIDE DEF c
  <2>6. Totals(f)[now] <= Totals(f)[c] /\ Totals(f)[now] \in Nat
    BY <2>1, <2>4, <2>5, TotalsGrow, TotalsDef
  <2>7. SumOver(f, b, now) <= Limit
    BY <2>1, <2>3, <2>5, <2>6 DEF SumOver
  <2> QED
    BY <2>7 DEF f, b
<1> QED
  BY <1>1, TypeCorrect, LimitInvariance, PTL

\* A stretch within one window admits no more than Limit.
LEMMA WithinOneWindow ==
    ASSUME NEW f \in [1..MaxTime -> Nat], NEW S, S \subseteq 1..MaxTime, Windows(f, S),
           NEW s \in S, NEW x \in 0..MaxTime, NEW y \in 0..MaxTime, s - 1 <= x, y <= s + Window
    PROVE  Totals(f)[y] - Totals(f)[x] <= Limit
<1> DEFINE c == Capped(s + Window)
<1>0. s \in 1..MaxTime
  OBVIOUS
<1>1. /\ c \in 0..MaxTime /\ s - 1 \in 0..MaxTime
      /\ Totals(f)[c] \in Nat /\ Totals(f)[s - 1] \in Nat
      /\ Admitted(f, s) = Totals(f)[c] - Totals(f)[s - 1]
  BY <1>0, AdmittedType, Zenon
<1>2. y <= c
  BY WindowIsNat DEF Capped
<1> HIDE DEF c
<1>3. Totals(f)[y] <= Totals(f)[c] /\ Totals(f)[s - 1] <= Totals(f)[x]
  BY <1>1, <1>2, TotalsGrow
<1>4. Totals(f)[y] \in Nat /\ Totals(f)[x] \in Nat
  BY TotalsDef
<1>5. Admitted(f, s) <= Limit
  BY DEF Windows
<1>6. PICK p, q, u, v \in Nat : /\ p = Totals(f)[c] /\ q = Totals(f)[s - 1]
                                /\ u = Totals(f)[y] /\ v = Totals(f)[x]
  BY <1>1, <1>4
<1>7. u <= p /\ q <= v /\ p - q <= Limit /\ Limit \in Nat
  BY <1>1, <1>3, <1>5, <1>6, WindowIsNat
<1>8. u - v <= Limit
  BY <1>7
<1> QED
  BY <1>6, <1>8

\* Neither does a stretch, no longer than a window, in which no window begins:
\* the last one that began before it is the only one to reach into it.
LEMMA NoneBegins ==
    ASSUME NEW f \in [1..MaxTime -> Nat], NEW S, S \subseteq 1..MaxTime, Windows(f, S),
           NEW t \in 1..MaxTime, NEW y \in 0..MaxTime, t - 1 <= y, y <= t + Window,
           \A s \in S : s <= y => s < t
    PROVE  Totals(f)[y] - Totals(f)[t - 1] <= Limit
<1>1. /\ Window \in Nat /\ MaxTime \in Nat /\ Limit \in Nat /\ t \in Nat /\ y \in Nat
      /\ t - 1 \in 0..MaxTime /\ \A s \in S : s \in Nat
  BY WindowIsNat
<1>2. \A u \in 1..MaxTime : f[u] \in Nat /\ (f[u] > 0 => \E s \in S : s <= u /\ u <= s + Window)
  BY DEF Windows
<1>3. \A x, z \in S : x < z => x + Window < z
  BY DEF Windows
<1>4. CASE \E a \in S : a < t /\ t <= a + Window
  <2>1. PICK a \in S : a < t /\ t <= a + Window
    BY <1>4
  <2>2. CASE y <= a + Window
    <3>1. a - 1 <= t - 1
      BY <1>1, <2>1
    <3> QED
      BY <1>1, <2>2, <3>1, WithinOneWindow
  <2>3. CASE ~ (y <= a + Window)
    <3>1. a + Window \in 0..MaxTime /\ a + Window <= y /\ a - 1 <= t - 1
      BY <1>1, <2>1, <2>3
    <3>2. ASSUME NEW u \in 1..MaxTime, a + Window < u, u <= y
          PROVE  f[u] = 0
      <4> SUFFICES ASSUME f[u] > 0 PROVE FALSE
        BY <1>2
      <4>1. PICK s \in S : s <= u /\ u <= s + Window
        BY <1>2
      <4>2. s \in Nat /\ a \in Nat /\ u \in Nat
        BY <1>1
      <4>3. s < t
        BY <1>1, <3>2, <4>1, <4>2
      <4>4. a < s
        BY <1>1, <3>2, <4>1, <4>2
      <4>5. a + Window < s
        BY <1>3, <4>4
      <4> QED
        BY <1>1, <2>1, <4>2, <4>3, <4>5
    <3>3. Totals(f)[y] = Totals(f)[a + Window]
      BY <3>1, <3>2, TotalsStay
    <3>4. Totals(f)[a + Window] - Totals(f)[t - 1] <= Limit
      <4>1. a + Window <= a + Window
        BY <1>1
      <4> QED
        BY <1>1, <3>1, <4>1, WithinOneWindow
    <3> QED
      BY <3>3, <3>4
  <2> QED
    BY <2>2, <2>3
<1>5. CASE ~ \E a \in S : a < t /\ t <= a + Window
  <2>1. ASSUME NEW u \in 1..MaxTime, t - 1 < u, u <= y
        PROVE  f[u] = 0
    <3> SUFFICES ASSUME f[u] > 0 PROVE FALSE
      BY <1>2
    <3>1. PICK s \in S : s <= u /\ u <= s + Window
      BY <1>2
    <3>2. s \in Nat /\ u \in Nat
      BY <1>1
    <3>3. s < t /\ t <= s + Window
      BY <1>1, <2>1, <3>1, <3>2
    <3> QED
      BY <1>5, <3>3
  <2>2. Totals(f)[y] = Totals(f)[t - 1]
    BY <1>1, <2>1, TotalsStay
  <2>3. Totals(f)[t - 1] \in Nat
    BY <1>1, TotalsDef
  <2> QED
    BY <1>1, <2>2, <2>3
<1> QED
  BY <1>4, <1>5

\* So a stretch as long as a window meets two at most: one that began before
\* it, one that begins in it.
LEMMA TwoWindows ==
    ASSUME NEW f \in [1..MaxTime -> Nat], NEW S, S \subseteq 1..MaxTime, Windows(f, S),
           NEW t \in 1..MaxTime, t + Window <= MaxTime
    PROVE  SumOver(f, t, t + Window) <= 2 * Limit
<1> DEFINE e == t + Window
<1>1. /\ Window \in Nat /\ MaxTime \in Nat /\ Limit \in Nat /\ t \in Nat
      /\ e \in 0..MaxTime /\ t - 1 \in 0..MaxTime /\ t - 1 <= e /\ e = t + Window
      /\ \A s \in S : s \in Nat /\ s \in 1..MaxTime
  BY WindowIsNat
<1>2. \A x, z \in S : x < z => x + Window < z
  BY DEF Windows
<1>3. Totals(f) \in [0..MaxTime -> Nat]
  BY TotalsDef
<1>4. SumOver(f, t, t + Window) = Totals(f)[e] - Totals(f)[t - 1]
  BY DEF SumOver
<1> HIDE DEF e
<1>5. CASE \E b \in S : t <= b /\ b <= e
  <2>1. PICK b \in S : t <= b /\ b <= e
    BY <1>5
  <2>2. /\ b - 1 \in 0..MaxTime /\ t - 1 <= b - 1 /\ b - 1 <= t + Window
        /\ b - 1 <= b - 1 /\ e <= b + Window /\ b \in Nat
    BY <1>1, <2>1
  <2>3. Totals(f)[e] - Totals(f)[b - 1] <= Limit
    BY <1>1, <2>2, WithinOneWindow
  <2>4. ASSUME NEW s \in S, s <= b - 1
        PROVE  s < t
    <3>1. s < b /\ s \in Nat
      BY <1>1, <2>2, <2>4
    <3>2. s + Window < b
      BY <1>2, <3>1
    <3> QED
      BY <1>1, <2>1, <2>2, <3>1, <3>2
  <2>5. Totals(f)[b - 1] - Totals(f)[t - 1] <= Limit
    BY <2>2, <2>4, NoneBegins
  <2>6. Totals(f)[e] \in Nat /\ Totals(f)[b - 1] \in Nat /\ Totals(f)[t - 1] \in Nat
    BY <1>1, <1>3, <2>2
  <2> QED
    BY <1>1, <1>4, <2>3, <2>5, <2>6
<1>6. CASE ~ \E b \in S : t <= b /\ b <= e
  <2>1. \A s \in S : s <= e => s < t
    BY <1>1, <1>6
  <2>2. Totals(f)[e] - Totals(f)[t - 1] <= Limit
    <3>1. e <= t + Window
      BY <1>1
    <3> QED
      BY <1>1, <2>1, <3>1, NoneBegins
  <2>3. Totals(f)[e] \in Nat /\ Totals(f)[t - 1] \in Nat
    BY <1>1, <1>3
  <2> QED
    BY <1>1, <1>4, <2>2, <2>3
<1> QED
  BY <1>5, <1>6

\* A fixed window is not a sliding one, but it is half of one: no stretch as
\* long as a window admits more than twice Limit requests that were not forgiven.
THEOREM AnyWindowIsLimited == Spec => []AnyWindowWithinTwiceLimit
<1>1. TypeOK /\ LimitInv => AnyWindowWithinTwiceLimit
  <2> SUFFICES ASSUME TypeOK, LimitInv, NEW k \in Keys, NEW t \in 1..MaxTime,
                      t + Window <= MaxTime
               PROVE  SumOver(allowed[k], t, t + Window) <= 2 * Limit
    BY DEF AnyWindowWithinTwiceLimit
  <2>1. PICK S \in SUBSET (1..now) : Windows(allowed[k], S) /\ Latest(k, S)
    BY DEF LimitInv, KeyInv
  <2>2. S \subseteq 1..MaxTime
    BY WindowIsNat DEF TypeOK, ClockType
  <2>3. allowed[k] \in [1..MaxTime -> Nat]
    BY DEF TypeOK, HistoryType
  <2> QED
    BY <2>1, <2>2, <2>3, TwoWindows
<1> QED
  BY <1>1, TypeCorrect, LimitInvariance, PTL

-----------------------------------------------------------------------------
(* The end a client is told.                                               *)

\* As long as nobody else asks, the window of the client answered last ends
\* when that answer says, if the window is still in the map.
LastInv == last.key \in DOMAIN visitors => visitors[last.key].windowEnd = last.end

\* Every step keeps it: only the answer of a request moves an end.
LEMMA LastStep ==
    ASSUME TypeOK, LastInv, [Next]_vars
    PROVE  LastInv'
<1>1. ASSUME NEW p \in Workers, NEW k \in Keys, allow(p, k)
      PROVE  LastInv'
  <2> DEFINE v == Counted(Visitor(k))
  <2>1. visitors' = Put(k, v) /\ last'.key = k /\ last'.end = v.windowEnd
    BY <1>1 DEF allow
  <2> HIDE DEF v
  <2>2. visitors'[k] = v
    BY <2>1 DEF Put
  <2> QED
    BY <2>1, <2>2 DEF LastInv
<1>2. CASE UNCHANGED <<visitors, last>>
  BY <1>2 DEF LastInv
<1>3. ASSUME NEW p \in Workers, reset(p)
      PROVE  LastInv'
  BY <1>3 DEF reset, LastInv
<1>4. CASE cleanup
  BY <1>4 DEF cleanup, LastInv
<1>5. CASE Restart
  BY <1>5 DEF Restart, LastInv
<1>6. ASSUME NEW p \in Workers, loginFails(p)
      PROVE  LastInv'
  BY <1>2, <1>6 DEF loginFails
<1>7. CASE Advance \/ UNCHANGED vars
  BY <1>2, <1>7 DEF Advance, vars
<1> QED
  BY <1>1, <1>3, <1>4, <1>5, <1>6, <1>7 DEF Next

\* A request that opens a window of its own is the first of it.
LEMMA FreshIsAllowed ==
    ASSUME NEW p \in Workers, NEW k \in Keys, allow(p, k), Visitor(k) = FreshVisitor, Limit > 0
    PROVE  last'.ok
<1>1. last'.ok = WithinLimit(Counted(Visitor(k)).count)
  BY DEF allow
<1>2. Counted(Visitor(k)).count = 1
  BY DEF Counted, FreshVisitor
<1>3. 1 <= Limit
  BY LimiterAssumptions
<1> QED
  BY <1>1, <1>2, <1>3 DEF WithinLimit

\* A client that was refused and has waited out the window it was told is let in
\* again, if nobody asked in its name meanwhile: no cleanup pass, reset or
\* restart that comes in between moves the end it was given.
THEOREM WaitingIsEnough == Spec => WaitingReadmits
<1>1. Init => LastInv
  BY DEF Init, LastInv
<1>2. TypeOK /\ LastInv /\ [Next]_vars => LastInv'
  BY LastStep
<1>3. TypeOK /\ LastInv /\ [Next]_vars =>
        [\A k \in Keys :
            (/\ last.key = k /\ ~ last.ok /\ now > last.end
             /\ last'.key = k /\ last'.at = now /\ asked'[k] = 1 /\ asked[k] = 0
             /\ Limit > 0) => last'.ok]_vars
  <2> SUFFICES ASSUME TypeOK, LastInv, [Next]_vars, NEW k \in Keys,
                      last.key = k, now > last.end, asked'[k] = 1, asked[k] = 0, Limit > 0
               PROVE  last'.ok
    OBVIOUS
  <2>1. asked \in [Keys -> Nat] /\ asked'[k] # asked[k]
    BY DEF TypeOK, HistoryType
  <2>2. PICK p \in Workers, j \in Keys : allow(p, j)
    BY <2>1 DEF Next, loginFails, reset, cleanup, Advance, Restart, vars
  <2>3. j = k
    BY <2>1, <2>2 DEF allow
  <2>4. Visitor(k) = FreshVisitor
    BY DEF Visitor, Over, LastInv
  <2> QED
    BY <2>2, <2>3, <2>4, FreshIsAllowed
<1> QED
  BY <1>1, <1>2, <1>3, TypeCorrect, PTL DEF Spec, WaitingReadmits
=============================================================================
