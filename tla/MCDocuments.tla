---------------------------- MODULE MCDocuments ----------------------------
(***************************************************************************)
(* Instances of Documents for TLC.                                         *)
(***************************************************************************)
EXTENDS Documents, TLC

MCNoDocs == [settings |-> [k \in Keys |-> Unset], files |-> EmptyTable, nextId |-> 1]

OneFile == "a" :> [id |-> 1, pos |-> 1, rec |-> [name |-> "a", content |-> ""]]

\* A database whose schema is older than version tracking, one that has it and
\* whose last commit is only in the log, one that lacks tables.
Db(version, tables, log) ==
    LET Old == [version |-> version, tables |-> tables, docs |-> MCNoDocs] IN
    ("db" :> Old) @@ ("shm" :> IF log THEN Index ELSE NoFile)
      @@ ("wal" :> IF log
                    THEN [Old EXCEPT !.docs.settings["k"] = "v",
                                     !.docs.files = OneFile, !.docs.nextId = 2]
                    ELSE NoFile)

MCLegacy == {Db(0, {"subs", "files", "settings"}, TRUE),
             Db(1, AllTables, TRUE), Db(0, AllTables, FALSE)}

MCSettingsBodies == {("k" :> "v") @@ ("l" :> Unset), ("k" :> Unset) @@ ("l" :> "v")}
MCTrimSpace == [n \in FileNames |-> n]
MCFileCreateBodies == {[name |-> "a", content |-> "text", position |-> "top"],
                       [name |-> "b", content |-> "", position |-> ""]}
MCFilePatchBodies == {[name |-> "c", content |-> FileNotSent],
                      [name |-> "", content |-> FileNotSent],
                      [name |-> FileNotSent, content |-> "text"]}
=============================================================================
