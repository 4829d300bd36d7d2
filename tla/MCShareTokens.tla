--------------------------- MODULE MCShareTokens ---------------------------
(***************************************************************************)
(* Instances of ShareTokens for TLC.                                       *)
(***************************************************************************)
EXTENDS ShareTokens, TLC

Ask == [type |-> "sub", mode |-> "", seconds |-> 0, permanent |-> FALSE,
        exp |-> 0, count |-> 0]

\* Each type with a limited count, each way to expire, a count that was not
\* given, and a mode nobody knows.
MCRequests ==
    {[Ask EXCEPT !.type = "sub", !.mode = "count", !.count = 2],
     [Ask EXCEPT !.type = "file", !.mode = "count", !.count = 1],
     [Ask EXCEPT !.type = "col", !.mode = "count"],
     Ask,
     [Ask EXCEPT !.type = "file", !.mode = "duration", !.seconds = 1],
     [Ask EXCEPT !.mode = "datetime", !.exp = 2],
     [Ask EXCEPT !.permanent = TRUE, !.seconds = -1],
     [Ask EXCEPT !.mode = "other"]}

FileRequests == {[Ask EXCEPT !.type = "file", !.mode = "count", !.count = 1]}

Symmetric == Permutations(Clients)
=============================================================================
