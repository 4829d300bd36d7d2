-------------------------------- MODULE Cron --------------------------------
(***************************************************************************)
(* The cron expressions of internal/scheduler/cron.go: what a field        *)
(* denotes, which minutes an expression matches, and the next of them.     *)
(* An expression is a record of five fields, a field a set of terms        *)
(* (separated by commas in the text) [star, a, b, step]: "*" or the range  *)
(* a-b (a value v is v-v), every step-th.  Time is a number of ticks,      *)
(* Minute to a minute; Calendar gives the fields of each minute.           *)
(***************************************************************************)
EXTENDS Integers, FiniteSets

CONSTANTS
    Minute,       \* ticks per minute
    LastMinute,   \* last minute of the calendar
    Calendar,     \* Calendar[m]: minute, hour, day, month, weekday of m
    FieldBounds,  \* the least and the greatest value of each field
    Horizon       \* how far ahead Next looks, in ticks (four years)

Fields == {"minute", "hour", "day", "month", "weekday"}
Term   == [star : BOOLEAN, a : Int, b : Int, step : Int]
Expr   == [Fields -> SUBSET Term]

ASSUME CronAssumptions ==
    /\ Minute \in Nat \ {0} /\ LastMinute \in Nat /\ Horizon \in Nat \ {0}
    /\ FieldBounds \in [Fields -> [lo : Int, hi : Int]]
    /\ Calendar \in [0..LastMinute -> [Fields -> Int]]
    /\ \A m \in 0..LastMinute, f \in Fields :
          Calendar[m][f] \in FieldBounds[f].lo..FieldBounds[f].hi

-----------------------------------------------------------------------------
First(term, bounds) == IF term.star THEN bounds.lo ELSE term.a
Last(term, bounds)  == IF term.star THEN bounds.hi ELSE term.b

ValidTerm(term, bounds) ==
    /\ term.step > 0
    /\ bounds.lo <= First(term, bounds) /\ Last(term, bounds) <= bounds.hi
    /\ First(term, bounds) <= Last(term, bounds)

parseField(terms, bounds) ==
    UNION {{v \in First(t, bounds)..Last(t, bounds) : (v - First(t, bounds)) % t.step = 0} :
           t \in terms}

Valid(expr) ==
    \A f \in Fields : expr[f] # {} /\ \A t \in expr[f] : ValidTerm(t, FieldBounds[f])

\* The sets of a Schedule.
Parse(expr) == [f \in Fields |-> parseField(expr[f], FieldBounds[f])]

\* A field that lists every value was "*", or might as well have been.
Unrestricted(sched, f) ==
    Cardinality(sched[f]) = FieldBounds[f].hi - FieldBounds[f].lo + 1

\* When both days are restricted, a match of either is enough.
matches(sched, m) ==
    LET ok(f) == Calendar[m][f] \in sched[f] IN
    /\ ok("minute") /\ ok("hour") /\ ok("month")
    /\ \/ Unrestricted(sched, "day") /\ Unrestricted(sched, "weekday")
       \/ Unrestricted(sched, "day") /\ ok("weekday")
       \/ Unrestricted(sched, "weekday") /\ ok("day")
       \/ /\ ~ Unrestricted(sched, "day") /\ ~ Unrestricted(sched, "weekday")
          /\ ok("day") \/ ok("weekday")

\* The first whole minute strictly after an instant (its minute truncated, plus
\* one) that matches, looking ahead no further than the horizon; -1 when there
\* is none.
FirstMatch(sched, after, limit) ==
    LET hits == {m \in 0..LastMinute :
                    after < m * Minute /\ m * Minute < limit /\ matches(sched, m)} IN
    IF hits = {} THEN -1 ELSE CHOOSE m \in hits : \A n \in hits : m <= n

\* ... without the plus one.
NextOrSame(sched, after) == FirstMatch(sched, after - Minute, after + Horizon)

NextMatch(sched, after) == FirstMatch(sched, after, after + Horizon)
=============================================================================
