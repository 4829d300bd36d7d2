------------------------------- MODULE Tables -------------------------------
(***************************************************************************)
(* The name-keyed SQLite tables of internal/store (subs, collections,      *)
(* files): every row has an AUTOINCREMENT id, a list position and a JSON   *)
(* document, and the column "name" is UNIQUE.  A table is a function from  *)
(* the names it holds to rows [id, pos, rec].  The operators are the       *)
(* single SQL statements of helpers.go and store.go; a handler that runs   *)
(* two of them takes two steps, a transaction takes one.                   *)
(***************************************************************************)
EXTENDS Integers, FiniteSets

CONSTANT PosBound  \* largest list position the instance reaches, either way

ASSUME PosBoundAssumption == PosBound \in Nat \ {0}

Positions == (-PosBound)..PosBound

EmptyTable == [n \in {} |-> 0]

\* CREATE TABLE: name TEXT UNIQUE, id INTEGER, pos INTEGER, data TEXT.
IsTable(t, Names, Recs) ==
    /\ DOMAIN t \subseteq Names
    /\ t \in [DOMAIN t -> [id : Nat, pos : Positions, rec : Recs]]

\* INTEGER PRIMARY KEY AUTOINCREMENT: every row has an id of its own, handed out
\* before id.
DistinctIds(t, id) ==
    /\ \A n \in DOMAIN t : t[n].id \in Nat /\ t[n].id < id
    /\ \A m, n \in DOMAIN t : t[m].id = t[n].id => m = n

\* SELECT COALESCE(MIN(pos), 1) - 1  or  SELECT COALESCE(MAX(pos), 0) + 1
MinPos(t, q) == IF DOMAIN t = {} THEN q = 1
                ELSE /\ \E n \in DOMAIN t : t[n].pos = q
                     /\ \A n \in DOMAIN t : q <= t[n].pos

MaxPos(t, q) == IF DOMAIN t = {} THEN q = 0
                ELSE /\ \E n \in DOMAIN t : t[n].pos = q
                     /\ \A n \in DOMAIN t : t[n].pos <= q

NewPos(t, position, q) == IF position = "top" THEN MinPos(t, q + 1)
                                              ELSE MaxPos(t, q - 1)

\* INSERT ... ON CONFLICT(name) DO UPDATE SET data = excluded.data: a row that
\* is already there keeps its id and its position.
UpsertMovesRow(t, name, rec, pos, id) ==
    [n \in DOMAIN t \cup {name} |->
        IF n # name THEN t[n]
        ELSE IF n \in DOMAIN t THEN [t[n] EXCEPT !.rec = rec, !.pos = pos]
             ELSE [id |-> id, pos |-> pos, rec |-> rec]]

Upsert(t, name, rec, pos, id) ==
    [n \in DOMAIN t \cup {name} |->
        IF n # name THEN t[n]
        ELSE IF n \in DOMAIN t THEN [t[n] EXCEPT !.rec = rec]
             ELSE [id |-> id, pos |-> pos, rec |-> rec]]

\* The next AUTOINCREMENT id after that statement.
NextId(t, name, id) == IF name \in DOMAIN t THEN id ELSE id + 1

\* UPDATE ... SET name = new, data = rec WHERE name = old: refused by the
\* UNIQUE index when the new name is taken, no rows when the old one is gone.
RenameOverwrites(t, old, new) == FALSE

RenameConflict(t, old, new) ==
    old \in DOMAIN t /\ new \in DOMAIN t /\ new # old

RenameRowKeepsDocument(t, old, new, rec) ==
    IF old \notin DOMAIN t THEN t
    ELSE [n \in (DOMAIN t \ {old}) \cup {new} |-> IF n = new THEN t[old] ELSE t[n]]

RenameRow(t, old, new, rec) ==
    IF old \notin DOMAIN t THEN t
    ELSE [n \in (DOMAIN t \ {old}) \cup {new} |->
             IF n = new THEN [t[old] EXCEPT !.rec = rec] ELSE t[n]]

\* DELETE ... WHERE name = ?
DeleteRow(t, name) == [n \in DOMAIN t \ {name} |-> t[n]]

\* ORDER BY pos ASC, id ASC
Before(r, s) == r.pos < s.pos \/ (r.pos = s.pos /\ r.id < s.id)

IsFirst(t, n) == n \in DOMAIN t /\ \A m \in DOMAIN t \ {n} : Before(t[n], t[m])

\* Rows that are in both t and u are listed in the same order.
KeepsOrder(t, u) ==
    \A m, n \in DOMAIN t, k, l \in DOMAIN u :
        (t[m].id = u[k].id /\ t[n].id = u[l].id /\ Before(t[m], t[n]))
        => Before(u[k], u[l])

Rows(t) == {t[n] : n \in DOMAIN t}
=============================================================================
