---------------------------- MODULE WindowQuota ----------------------------
(***************************************************************************)
(* What internal/server/ratelimit.go promises a client: a fixed-window     *)
(* quota.  A key has no window, or an open window with the number of       *)
(* requests counted in it; a window closes by itself when its time is      *)
(* over.  There is no table to clean up.  The first Limit requests of a    *)
(* window are allowed; only a login that was let in and succeeds, or a     *)
(* restart, forgives a window.                                             *)
(***************************************************************************)
EXTENDS Integers

CONSTANTS Keys, Workers, Limit, Window, MaxTime

VARIABLES
    clock,
    quota,   \* the window of each key
    answer,  \* the last answer
    login    \* the key of the login each worker has let in, or ""

Closed == [count |-> 0, end |-> 0]
Silent == [key |-> "", ok |-> FALSE]

quotaVars == <<clock, quota, answer, login>>

QInit ==
    /\ clock = 1
    /\ quota = [k \in Keys |-> Closed]
    /\ answer = Silent
    /\ login = [p \in Workers |-> ""]

\* A request that finds no window opens one.
Opened(k) == IF quota[k] = Closed THEN [count |-> 0, end |-> clock + Window]
                                  ELSE quota[k]

QAsk(p, k) ==
    LET count == Opened(k).count + 1 IN
    /\ login[p] = ""
    /\ quota' = [quota EXCEPT ![k] = [count |-> count, end |-> Opened(k).end]]
    /\ answer' = [key |-> k, ok |-> count <= Limit]
    /\ login' = [login EXCEPT ![p] = IF count <= Limit THEN k ELSE ""]
    /\ UNCHANGED clock

\* A login ends; when it succeeds the window of its key is forgiven.
QLogin(p) ==
    /\ login[p] # ""
    /\ quota' \in {quota, [quota EXCEPT ![login[p]] = Closed]}
    /\ login' = [login EXCEPT ![p] = ""]
    /\ UNCHANGED <<clock, answer>>

\* Time passes, and closes the windows that are over.
QTime ==
    /\ clock < MaxTime
    /\ clock' = clock + 1
    /\ quota' = [k \in Keys |-> IF quota[k].end < clock + 1 THEN Closed ELSE quota[k]]
    /\ UNCHANGED <<answer, login>>

QRestart ==
    /\ quota' = [k \in Keys |-> Closed]
    /\ login' = [p \in Workers |-> ""]
    /\ UNCHANGED <<clock, answer>>

QNext ==
    \/ \E p \in Workers, k \in Keys : QAsk(p, k)
    \/ \E p \in Workers : QLogin(p)
    \/ QTime
    \/ QRestart

QSpec == QInit /\ [][QNext]_quotaVars
=============================================================================
