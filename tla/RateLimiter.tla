---------------------------- MODULE RateLimiter ----------------------------
(***************************************************************************)
(* The in-memory rate limiter of internal/server/ratelimit.go as the login *)
(* endpoint uses it: the middleware calls allow, a successful handleLogin  *)
(* calls reset some time later, and a goroutine deletes expired visitors.  *)
(* allow, reset and a cleanup pass each run under the mutex: one step.     *)
(* Time is in ticks, TicksPerSecond to a second.  The limiter of the       *)
(* download endpoints is the same one without resets.                      *)
(***************************************************************************)
EXTENDS Integers, FiniteSets

CONSTANTS
    Keys,            \* client addresses
    Workers,         \* login requests in flight at a time
    Limit,           \* requests allowed per window
    Window,          \* its length in ticks
    TicksPerSecond,
    MaxTime,         \* last instant of the clock
    MaxAsked         \* requests of a key counted per instant

ASSUME LimiterAssumptions ==
    /\ Limit \in Nat /\ Window \in Nat \ {0}
    /\ TicksPerSecond \in Nat \ {0}
    /\ MaxTime \in Nat \ {0} /\ MaxAsked \in Nat

ASSUME KeysAssumption == "" \notin Keys

VARIABLES
    visitors,  \* key -> [count, windowEnd], for the keys in the map
    now,       \* the clock
    w,         \* the key of the login each worker has been allowed, or ""
    last,      \* the last answer of allow
    allowed,   \* allowed[k][t]: requests of k allowed at instant t and not forgiven
    asked      \* asked[k]: calls of allow for k at the present instant

vars == <<visitors, now, w, last, allowed, asked>>

Unused == [t \in 1..MaxTime |-> 0]

NoAnswer == [key |-> "", ok |-> FALSE, retry |-> 1, at |-> 0, end |-> 0]

Init ==
    /\ visitors = [k \in {} |-> 0]
    /\ now = 1
    /\ w = [p \in Workers |-> ""]
    /\ last = NoAnswer
    /\ allowed = [k \in Keys |-> Unused]
    /\ asked = [k \in Keys |-> 0]

-----------------------------------------------------------------------------
\* now.After(windowEnd)
Over(v) == now > v.windowEnd

FreshVisitor == [count |-> 0, windowEnd |-> now + Window]

\* The visitor allow counts on: a new window when there is none or it is over.
VisitorNeverExpires(k) == IF k \notin DOMAIN visitors THEN FreshVisitor ELSE visitors[k]

Visitor(k) ==
    IF k \notin DOMAIN visitors \/ Over(visitors[k]) THEN FreshVisitor ELSE visitors[k]

Counted(v) == [count |-> v.count + 1, windowEnd |-> v.windowEnd]

Put(k, v) == [j \in DOMAIN visitors \cup {k} |-> IF j = k THEN v ELSE visitors[j]]

\* Whole seconds to the end of the window, and the header made of them.
Remaining(v) == (v.windowEnd - now) \div TicksPerSecond
intToStrUnclamped(n) == n
intToStr(n) == IF n <= 0 THEN 1 ELSE n

WithinLimitOffByOne(n) == n <= Limit + 1
WithinLimit(n) == n <= Limit

\* The middleware of a login request; an allowed one goes on to handleLogin.
allow(p, k) ==
    LET v == Counted(Visitor(k))
        ok == WithinLimit(v.count) IN
    /\ w[p] = "" /\ asked[k] < MaxAsked
    /\ visitors' = Put(k, v)
    /\ last' = [key |-> k, ok |-> ok, retry |-> intToStr(Remaining(v)),
                at |-> now, end |-> v.windowEnd]
    /\ w' = [w EXCEPT ![p] = IF ok THEN k ELSE ""]
    /\ allowed' = [allowed EXCEPT ![k][now] = IF ok THEN @ + 1 ELSE @]
    /\ asked' = [asked EXCEPT ![k] = @ + 1]
    /\ UNCHANGED now

\* handleLogin with wrong credentials.
loginFails(p) ==
    /\ w[p] # ""
    /\ w' = [w EXCEPT ![p] = ""]
    /\ UNCHANGED <<visitors, now, last, allowed, asked>>

\* handleLogin with the right ones: reset deletes the visitor, whatever
\* window it is in by now.
reset(p) ==
    /\ w[p] # ""
    /\ visitors' = [j \in DOMAIN visitors \ {w[p]} |-> visitors[j]]
    /\ w' = [w EXCEPT ![p] = ""]
    /\ allowed' = [allowed EXCEPT ![w[p]] = Unused]
    /\ UNCHANGED <<now, last, asked>>

\* One pass of cleanupLoop; when the ticker fires is left open.
cleanupAll ==
    /\ DOMAIN visitors # {}
    /\ visitors' = [k \in {} |-> 0]
    /\ UNCHANGED <<now, w, last, allowed, asked>>

cleanup ==
    /\ \E k \in DOMAIN visitors : Over(visitors[k])
    /\ visitors' = [j \in {k \in DOMAIN visitors : ~ Over(visitors[k])} |-> visitors[j]]
    /\ UNCHANGED <<now, w, last, allowed, asked>>

Advance ==
    /\ now < MaxTime
    /\ now' = now + 1
    /\ asked' = [k \in Keys |-> 0]
    /\ UNCHANGED <<visitors, w, last, allowed>>

\* The limiter is process-local: "it resets on restart".
Restart ==
    /\ visitors' = [k \in {} |-> 0]
    /\ w' = [p \in Workers |-> ""]
    /\ allowed' = [k \in Keys |-> Unused]
    /\ UNCHANGED <<now, last, asked>>

Next ==
    \/ \E p \in Workers, k \in Keys : allow(p, k)
    \/ \E p \in Workers : loginFails(p) \/ reset(p)
    \/ cleanup
    \/ Advance
    \/ Restart

Spec == Init /\ [][Next]_vars

-----------------------------------------------------------------------------
(* Properties                                                              *)

VisitorsType == /\ DOMAIN visitors \subseteq Keys
                /\ visitors \in [DOMAIN visitors -> [count : Nat, windowEnd : Nat]]
ClockType    == now \in 1..MaxTime
WorkersType  == w \in [Workers -> Keys \cup {""}]
AnswerType   == last \in [key : Keys \cup {""}, ok : BOOLEAN, retry : Nat \ {0},
                          at : Nat, end : Nat]
HistoryType  == /\ allowed \in [Keys -> [1..MaxTime -> Nat]]
                /\ asked \in [Keys -> Nat]

\* The types of the variables; in particular Retry-After is never 0.
TypeOK == VisitorsType /\ ClockType /\ WorkersType /\ AnswerType /\ HistoryType

\* The sums of f up to each instant, and from one instant to another.
Totals(f) == LET sum[t \in 0..MaxTime] == IF t = 0 THEN 0 ELSE sum[t - 1] + f[t] IN sum

SumOver(f, lo, hi) == Totals(f)[hi] - Totals(f)[lo - 1]

\* The window that is open for a key has admitted no more than Limit requests
\* since it began, those aside that a successful login or a restart forgave.
OpenWindowWithinLimit ==
    \A k \in DOMAIN visitors :
        ~ Over(visitors[k]) =>
            SumOver(allowed[k], visitors[k].windowEnd - Window, now) <= Limit

\* A fixed window is not a sliding one: any stretch of Window + 1 instants can
\* meet two windows, and never more; so at most twice Limit requests pass in it
\* that are not forgiven.
AnyWindowWithinTwiceLimit ==
    \A k \in Keys : \A t \in 1..MaxTime :
        t + Window <= MaxTime => SumOver(allowed[k], t, t + Window) <= 2 * Limit

\* The window that counts for a key: none, when it is missing or over.
OpenWindow(k) ==
    IF k \in DOMAIN visitors /\ ~ Over(visitors[k])
    THEN [count |-> visitors[k].count, end |-> visitors[k].windowEnd]
    ELSE [count |-> 0, end |-> 0]

Quota == [k \in Keys |-> OpenWindow(k)]
LastAnswer == [key |-> last.key, ok |-> last.ok]

Q == INSTANCE WindowQuota WITH clock <- now, quota <- Quota,
                               answer <- LastAnswer, login <- w

\* Cleaning up, and the map itself, cannot be observed: however allow, reset,
\* cleanup passes and restarts interleave, every answer is the one that a
\* fixed-window quota without a table gives, and only a login that succeeds or
\* a restart ever gives requests back.
ImplementsWindowQuota == Q!QSpec

\* Once a refused client has waited out its window it is admitted again: a
\* request made after the end it was given is never refused while nobody else
\* has asked for that key since.
WaitingReadmits ==
    [][\A k \in Keys :
          (/\ last.key = k /\ ~ last.ok /\ now > last.end
           /\ last'.key = k /\ last'.at = now /\ asked'[k] = 1 /\ asked[k] = 0
           /\ Limit > 0) => last'.ok]_vars
=============================================================================
