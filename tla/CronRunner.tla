----------------------------- MODULE CronRunner -----------------------------
(***************************************************************************)
(* The background scheduler (internal/scheduler/runner.go) in time.  One   *)
(* goroutine makes a pass over the subscriptions at the start and whenever *)
(* a ticker has fired, every minute; the ticker's channel holds one tick,  *)
(* and further ones are dropped.  In a pass it refreshes, one after the    *)
(* other, the subscriptions whose schedule is due; a refresh is a download *)
(* of at most a minute and a write of the record.  The times of the        *)
(* refreshes are kept in memory, by name.                                  *)
(*                                                                         *)
(* Only downloads take time: the rest of a pass is assumed to be done      *)
(* within the tick.  The order of the rows is left open.                   *)
(***************************************************************************)
EXTENDS Cron

CONSTANTS
    Names,     \* names of remote subscriptions
    Exprs,     \* cron expressions a client may send
    None,      \* no schedule, or no such subscription
    Never,     \* no time
    MaxTime,   \* last instant of the clock
    MaxEvents  \* edits, restarts and database errors in a behaviour

ASSUME RunnerAssumptions ==
    /\ Exprs \subseteq Expr /\ None \notin Expr /\ Never \notin Int
    /\ MaxTime \in Nat /\ MaxEvents \in Nat
    /\ MaxTime < Horizon  \* the process does not run for four years

VARIABLES
    table,     \* the schedule of each subscription, as stored
    now,       \* the clock
    fires,     \* when the ticker fires next
    pending,   \* whether a tick is in its channel
    last,      \* Runner.last: the pass that last tried each name, or Never
    run,       \* where the goroutine is; when its pass began; the name being
               \* refreshed, and since when
    listed,    \* the rows the pass has listed: the schedule of each name
    todo,      \* the names among them it has not looked at
    unsaved,   \* names whose record could not be saved in this pass
    refreshed, \* history: the pass that refreshed and saved each name last, or
               \* Never if none has in this process or a download failed since
    events     \* edits, restarts and database errors so far

vars == <<table, now, fires, pending, last, run, listed, todo, unsaved, refreshed, events>>

NoRows == [n \in {} |-> None]

\* Start: the first pass does not wait for the ticker.
Starting == [pc |-> "start", at |-> 0, sub |-> None, since |-> 0]

Init ==
    /\ table \in [Names -> {None} \cup {e \in Exprs : Valid(e)}]
    /\ now = 0
    /\ fires = Minute
    /\ pending = FALSE
    /\ last = [n \in Names |-> Never]
    /\ run = Starting
    /\ listed = NoRows
    /\ todo = {}
    /\ unsaved = {}
    /\ refreshed = [n \in Names |-> Never]
    /\ events = 0

-----------------------------------------------------------------------------
\* A name that was not refreshed in this process is looked at one minute back.
LookBackAlways(n, at) == at - Minute

LookBack(n, at) == IF last[n] = Never THEN at - Minute ELSE last[n]

due(n, expr, at) ==
    LET next == NextMatch(Parse(expr), LookBack(n, at)) IN
    next # -1 /\ next * Minute <= at

Event == events < MaxEvents /\ events' = events + 1

\* The pass begins, or the rows cannot be listed and it is over.
tick ==
    /\ run.pc = "start" \/ (run.pc = "wait" /\ pending)
    /\ pending' = (pending /\ run.pc = "start")
    /\ unsaved' = {}
    /\ \/ /\ listed' = [n \in {m \in Names : table[m] # None} |-> table[n]]
          /\ run' = [pc |-> "pass", at |-> now, sub |-> None, since |-> 0]
          /\ UNCHANGED events
       \/ /\ Event
          /\ listed' = NoRows
          /\ run' = [run EXCEPT !.pc = "wait"]
    /\ todo' = DOMAIN listed'
    /\ UNCHANGED <<table, now, fires, last, refreshed>>

RowStays(n) == todo
RowDone(n)  == todo \ {n}

\* The next row: it is refreshed when its schedule is due.
NextRow(n) ==
    /\ run.pc = "pass"
    /\ todo' = RowDone(n)
    /\ IF Valid(listed[n]) /\ due(n, listed[n], run.at)
       THEN run' = [run EXCEPT !.pc = "fetch", !.sub = n, !.since = now]
       ELSE UNCHANGED run
    /\ UNCHANGED <<table, now, fires, pending, last, listed, unsaved, refreshed, events>>

PassOver ==
    /\ run.pc = "pass" /\ todo = {}
    /\ run' = [run EXCEPT !.pc = "wait"]
    /\ UNCHANGED <<table, now, fires, pending, last, listed, todo, unsaved, refreshed,
                   events>>

\* The download ends.  One that fails, or exceeds its minute, is recorded in
\* Runner.last as a refresh is.
Fetched ==
    /\ run.pc = "fetch"
    /\ \/ run' = [run EXCEPT !.pc = "save"] /\ UNCHANGED <<last, refreshed>>
       \/ /\ last' = [last EXCEPT ![run.sub] = run.at]
          /\ run' = [run EXCEPT !.pc = "pass"]
          /\ refreshed' = [refreshed EXCEPT ![run.sub] = Never]
    /\ UNCHANGED <<table, now, fires, pending, listed, todo, unsaved, events>>

\* UpsertSub writes the record that was listed, its schedule included; when it
\* fails, the refresh is not recorded.
Save ==
    /\ run.pc = "save"
    /\ run' = [run EXCEPT !.pc = "pass"]
    /\ \/ /\ table' = [table EXCEPT ![run.sub] = listed[run.sub]]
          /\ last' = [last EXCEPT ![run.sub] = run.at]
          /\ refreshed' = [refreshed EXCEPT ![run.sub] = run.at]
          /\ UNCHANGED <<unsaved, events>>
       \/ /\ Event
          /\ unsaved' = unsaved \cup {run.sub}
          /\ UNCHANGED <<table, last, refreshed>>
    /\ UNCHANGED <<now, fires, pending, listed, todo>>

Goroutine == tick \/ (\E n \in todo : NextRow(n)) \/ PassOver \/ Fetched \/ Save

\* Time passes while the goroutine waits for the ticker or for a download, and
\* no download is longer than a minute.
Advance ==
    /\ now < MaxTime
    /\ \/ run.pc = "wait" /\ ~ pending
       \/ run.pc = "fetch" /\ now < run.since + Minute
    /\ now' = now + 1
    /\ IF now + 1 = fires THEN pending' = TRUE /\ fires' = fires + Minute
                          ELSE UNCHANGED <<pending, fires>>
    /\ UNCHANGED <<table, last, run, listed, todo, unsaved, refreshed, events>>

\* A handler creates, edits or deletes a subscription; an invalid schedule is
\* refused.
EditUnchecked(n, expr) ==
    /\ Event
    /\ table' = [table EXCEPT ![n] = expr]
    /\ UNCHANGED <<now, fires, pending, last, run, listed, todo, unsaved, refreshed>>

Edit(n, expr) ==
    /\ Event
    /\ expr # None => Valid(expr)
    /\ table' = [table EXCEPT ![n] = expr]
    /\ UNCHANGED <<now, fires, pending, last, run, listed, todo, unsaved, refreshed>>

Restart ==
    /\ Event
    /\ fires' = now + Minute
    /\ pending' = FALSE
    /\ last' = [n \in Names |-> Never]
    /\ run' = Starting
    /\ listed' = NoRows
    /\ todo' = {}
    /\ unsaved' = {}
    /\ refreshed' = [n \in Names |-> Never]
    /\ UNCHANGED <<table, now>>

Next ==
    \/ Goroutine
    \/ Advance
    \/ \E n \in Names, expr \in Exprs \cup {None} : Edit(n, expr)
    \/ Restart

\* A goroutine that can run does, and a download ends, by its deadline at the
\* latest.
Spec == Init /\ [][Next]_vars /\ WF_vars(Goroutine)

-----------------------------------------------------------------------------
(* Properties                                                              *)

\* The types of the variables.  Only schedules that Parse accepts are stored.
TypeOK ==
    /\ table \in [Names -> {None} \cup {e \in Exprs : Valid(e)}]
    /\ now \in Nat /\ fires \in Nat /\ pending \in BOOLEAN
    /\ last \in [Names -> Nat \cup {Never}]
    /\ run \in [pc : {"start", "wait", "pass", "fetch", "save"}, at : Nat,
                sub : Names \cup {None}, since : Nat]
    /\ DOMAIN listed \subseteq Names
    /\ listed \in [DOMAIN listed -> {e \in Exprs : Valid(e)}]
    /\ todo \subseteq DOMAIN listed
    /\ unsaved \subseteq DOMAIN listed
    /\ refreshed \in [Names -> Nat \cup {Never}]
    /\ events \in Nat

\* Whether a schedule has a firing after one instant and up to another.
FiresIn(expr, after, upto) ==
    \E m \in 0..LastMinute :
        after < m * Minute /\ m * Minute <= upto /\ matches(Parse(expr), m)

\* However long the passes are, no firing is tried twice by a process: between
\* two downloads of a name that are recorded lies a firing of the schedule it
\* was listed with.
NewFiringEachTime ==
    [][\A n \in Names :
          (last[n] # Never /\ last'[n] # Never /\ last'[n] # last[n]) =>
             n \in DOMAIN listed /\ FiresIn(listed[n], last[n], last'[n])]_vars

\* A pass that comes to its end leaves no firing unserved, of the names that
\* were refreshed before in this process, although ticks are dropped while
\* passes are long; except where the record could not be saved in this pass,
\* or a download has failed since the last refresh: its firing is passed over.
NothingLeftDue ==
    [][PassOver =>
          \A n \in DOMAIN listed \ unsaved :
             refreshed[n] # Never => ~ FiresIn(listed[n], refreshed[n], run.at)]_vars

\* Every pass ends, with all of its rows looked at.
PassesEnd == (run.pc # "wait") ~> (run.pc = "wait" /\ todo = {})
=============================================================================
