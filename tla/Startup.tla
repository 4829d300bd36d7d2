------------------------------ MODULE Startup ------------------------------
(***************************************************************************)
(* The start of the subx process (cmd/main.go, internal/config,            *)
(* store.Open): it loads or creates the secret that signs login tokens,    *)
(* moves a database of the program's old name to the new one, opens the    *)
(* database, brings its schema to the current version and serves.  Nothing *)
(* handles a signal, so the process always ends by being killed, between   *)
(* any two steps, and everything it knows is then on disk.                 *)
(*                                                                         *)
(* A database is a main file and a write-ahead log: a commit goes to the   *)
(* log, a checkpoint copies the log into the main file (SQLite's part is   *)
(* external).  The content of a file is the schema version, the tables     *)
(* that exist and the documents in them; a log holds the content as of its *)
(* last commit.                                                            *)
(***************************************************************************)
EXTENDS Integers, Sequences

CONSTANTS
    Index,       \* a shared-memory file: an index of the log, nothing else
    NoDocs,      \* the documents of a new database
    Legacy,      \* the databases an older build may have left
    MaxCrashes,  \* times the process is killed
    MaxFaults    \* system calls that fail in a behaviour

NoFile   == [missing |-> TRUE]  \* a file that does not exist
Schema   == <<"subs", "collections", "files", "tokens", "settings">>
AllTables == {Schema[k] : k \in DOMAIN Schema}
Content(version, tables, docs) == [version |-> version, tables |-> tables, docs |-> docs]
NewDB    == Content(0, {}, NoDocs)
Suffixes == <<"db", "shm", "wal">>  \* the suffixes "", "-shm" and "-wal"

\* Secrets: the n-th one generated, whole or cut short by a failed write; the
\* one of the environment; the fixed one used when no random bytes come.
EmptyFile == [n |-> 0, whole |-> FALSE]
EnvKey    == [n |-> -1, whole |-> TRUE]
FixedKey  == [n |-> -2, whole |-> TRUE]
Generated(n) == [n |-> n, whole |-> TRUE]
Cut(s)       == [n |-> s.n, whole |-> FALSE]
Secret       == [n : Int, whole : BOOLEAN]

\* The content of a database file: a database whose version is 1 was brought
\* there by migrate, and has all tables.
IsContent(c) ==
    /\ c = Content(c.version, c.tables, c.docs)
    /\ c.version \in 0..1 /\ c.tables \subseteq AllTables
    /\ c.version = 1 => c.tables = AllTables

IsDatabase(db) ==
    /\ db = [s \in {"db", "shm", "wal"} |-> db[s]]
    /\ db["shm"] \in {NoFile, Index}
    /\ \A s \in {"db", "wal"} : db[s] = NoFile \/ IsContent(db[s])

ASSUME StartupAssumptions ==
    /\ MaxCrashes \in Nat /\ MaxFaults \in Nat
    /\ \A db \in Legacy : IsDatabase(db) /\ db["db"] # NoFile

VARIABLES
    pc,         \* where the process is
    i,          \* the index of the loop it is in
    env,        \* whether jwt_secret is set in the environment
    secret,     \* the file data_dir/jwt_secret
    key,        \* Config.JWTSecret of the running process
    made,       \* secrets generated so far
    disk,       \* the database files, by name and suffix
    tx,         \* the open migration transaction
    sessions,   \* the secrets that signed the login tokens handed out
    committed,  \* the documents of the last commit
    unsaved,    \* a secret was used that could not be read or saved
    stranded,   \* files of the legacy database were left behind under its name
    crashes, faults

procVars    == <<pc, i, tx, stranded>>
secretVars  == <<env, secret, key, made, unsaved>>
startupVars == <<pc, i, env, secret, key, made, disk, tx, sessions, committed,
                 unsaved, stranded, crashes, faults>>

NoDatabase == [s \in {"db", "shm", "wal"} |-> NoFile]

\* What a program that opens the files of this name sees.
Visible(name) == IF disk[name]["wal"] = NoFile THEN disk[name]["db"]
                                                ELSE disk[name]["wal"]

Opened == Visible("subx")

\* The main file and the log of the new name are written.
Written(mainFile, log) ==
    [substore |-> disk.substore,
     subx     |-> [disk.subx EXCEPT !["db"] = mainFile, !["wal"] = log]]

\* The first start of this build: there is no database, or one an older build
\* left behind, its log not checkpointed when that build was killed.
StartupInit ==
    /\ pc = "down" /\ i = 1 /\ tx = NewDB
    /\ env \in BOOLEAN
    /\ secret = NoFile /\ key = EmptyFile /\ made = 0
    /\ disk \in {[substore |-> old, subx |-> NoDatabase] :
                    old \in Legacy \cup {NoDatabase}}
    /\ sessions = {}
    /\ committed = IF disk.substore["db"] = NoFile THEN NoDocs
                   ELSE Visible("substore").docs
    /\ unsaved = FALSE /\ stranded = FALSE
    /\ crashes = 0 /\ faults = 0

Goto(label) == pc' = label /\ UNCHANGED <<i, tx, stranded>>
Fault       == faults < MaxFaults /\ faults' = faults + 1

-----------------------------------------------------------------------------
(* config.Load: the signing secret.                                        *)

main ==
    /\ pc = "down" /\ Goto("secret")
    /\ UNCHANGED <<secretVars, disk, sessions, committed, crashes, faults>>

\* The environment, then the file unless it is missing, empty or unreadable.
UsableSecret(s) == s # NoFile /\ s # EmptyFile

ReadSecret ==
    /\ pc = "secret"
    /\ \/ /\ env \/ UsableSecret(secret)
          /\ key' = IF env THEN EnvKey ELSE secret
          /\ Goto("stat") /\ UNCHANGED <<unsaved, faults>>
       \/ /\ ~env /\ ~UsableSecret(secret)
          /\ Goto("generate") /\ UNCHANGED <<key, unsaved, faults>>
       \/ /\ ~env /\ UsableSecret(secret) /\ Fault
          /\ unsaved' = TRUE
          /\ Goto("generate") /\ UNCHANGED key
    /\ UNCHANGED <<env, secret, made, disk, sessions, committed, crashes>>

GenerateSecret ==
    /\ pc = "generate"
    /\ \/ /\ key' = Generated(made + 1) /\ made' = made + 1
          /\ Goto("create") /\ UNCHANGED <<unsaved, faults>>
       \/ /\ Fault /\ key' = FixedKey /\ unsaved' = TRUE
          /\ Goto("stat") /\ UNCHANGED made
    /\ UNCHANGED <<env, secret, disk, sessions, committed, crashes>>

\* os.WriteFile truncates the file and then fills it; errors are ignored.
CreateSecretFile ==
    /\ pc = "create"
    /\ \/ secret' = EmptyFile /\ Goto("fill") /\ UNCHANGED <<unsaved, faults>>
       \/ Fault /\ unsaved' = TRUE /\ Goto("stat") /\ UNCHANGED secret
    /\ UNCHANGED <<env, key, made, disk, sessions, committed, crashes>>

\* Mutant: the file is created and never filled.
FillNothing ==
    /\ pc = "fill" /\ Goto("stat")
    /\ UNCHANGED <<secretVars, disk, sessions, committed, crashes, faults>>

FillSecretFile ==
    /\ pc = "fill"
    /\ \/ secret' = key /\ UNCHANGED <<unsaved, faults>>
       \/ Fault /\ secret' \in {EmptyFile, Cut(key)} /\ unsaved' = TRUE
    /\ Goto("stat")
    /\ UNCHANGED <<env, key, made, disk, sessions, committed, crashes>>

-----------------------------------------------------------------------------
(* migrateLegacyDB: two stats, any error of which counts as "missing", and  *)
(* three renames, errors ignored.                                          *)

StatNew ==
    /\ pc = "stat"
    /\ \/ disk.subx["db"] # NoFile /\ Goto("open") /\ UNCHANGED faults
       \/ disk.subx["db"] = NoFile /\ Goto("statLegacy") /\ UNCHANGED faults
       \/ disk.subx["db"] # NoFile /\ Fault /\ Goto("statLegacy")
    /\ UNCHANGED <<secretVars, disk, sessions, committed, crashes>>

StatLegacy ==
    /\ pc = "statLegacy"
    /\ \/ /\ disk.substore["db"] # NoFile
          /\ pc' = "move" /\ i' = 1
          /\ UNCHANGED <<tx, stranded, faults>>
       \/ disk.substore["db"] = NoFile /\ Goto("open") /\ UNCHANGED faults
       \/ disk.substore["db"] # NoFile /\ Fault /\ Goto("open")
    /\ UNCHANGED <<secretVars, disk, sessions, committed, crashes>>

Moved(s) == [substore |-> [disk.substore EXCEPT ![s] = NoFile],
             subx     |-> [disk.subx EXCEPT ![s] = disk.substore[s]]]

\* Mutant: the write-ahead log is left behind.
SkipLog ==
    /\ pc = "move"
    /\ disk' = IF i < 3 /\ disk.substore[Suffixes[i]] # NoFile
               THEN Moved(Suffixes[i]) ELSE disk
    /\ IF i < 3 THEN i' = i + 1 /\ UNCHANGED <<pc, tx, stranded>> ELSE Goto("open")
    /\ UNCHANGED <<secretVars, sessions, committed, crashes, faults>>

RenameFile ==
    LET s == Suffixes[i] IN
    /\ pc = "move"
    /\ IF disk.substore[s] # NoFile
       THEN \/ disk' = Moved(s) /\ UNCHANGED <<stranded, faults>>
            \/ Fault /\ stranded' = TRUE /\ UNCHANGED disk
       ELSE UNCHANGED <<disk, stranded, faults>>
    /\ IF i < Len(Suffixes) THEN i' = i + 1 /\ UNCHANGED pc
                            ELSE pc' = "open" /\ UNCHANGED i
    /\ UNCHANGED tx
    /\ UNCHANGED <<secretVars, sessions, committed, crashes>>

-----------------------------------------------------------------------------
(* store.Open and migrate.                                                 *)

\* A missing database is created, a legacy one beside it or not, and a log that
\* has no main file is dropped.
OpenDatabase ==
    /\ pc = "open"
    /\ IF disk.subx["db"] = NoFile
       THEN /\ disk' = Written(NewDB, NoFile)
            /\ stranded' = (stranded \/ disk.substore["db"] # NoFile)
       ELSE UNCHANGED <<disk, stranded>>
    /\ pc' = "migrate" /\ UNCHANGED <<i, tx>>
    /\ UNCHANGED <<secretVars, sessions, committed, crashes, faults>>

\* migrations has one entry, version 1.
migrate ==
    /\ pc = "migrate"
    /\ IF 1 <= Opened.version THEN Goto("serving")
       ELSE pc' = "table" /\ i' = 1 /\ tx' = Opened /\ UNCHANGED stranded
    /\ UNCHANGED <<secretVars, disk, sessions, committed, crashes, faults>>

\* Mutant: CREATE TABLE without IF NOT EXISTS
CreateTable ==
    /\ pc = "table"
    /\ IF Schema[i] \in tx.tables THEN Goto("down")
       ELSE /\ tx' = Content(tx.version, tx.tables \cup {Schema[i]}, tx.docs)
            /\ pc' = IF i = Len(Schema) THEN "version" ELSE "table"
            /\ i' = IF i = Len(Schema) THEN i ELSE i + 1
            /\ UNCHANGED stranded
    /\ UNCHANGED <<secretVars, disk, sessions, committed, crashes, faults>>

migrateV1InitialSchema ==
    /\ pc = "table"
    /\ tx' = Content(tx.version, tx.tables \cup {Schema[i]}, tx.docs)
    /\ pc' = IF i = Len(Schema) THEN "version" ELSE "table"
    /\ i' = IF i = Len(Schema) THEN i ELSE i + 1
    /\ UNCHANGED stranded
    /\ UNCHANGED <<secretVars, disk, sessions, committed, crashes, faults>>

\* Mutant: the version is bumped before, and outside, the transaction's commit.
SetVersionOutside ==
    /\ pc = "version"
    /\ disk' = Written(disk.subx["db"], Content(1, Opened.tables, Opened.docs))
    /\ tx' = Content(1, tx.tables, tx.docs)
    /\ pc' = "commit" /\ UNCHANGED <<i, stranded>>
    /\ UNCHANGED <<secretVars, sessions, committed, crashes, faults>>

SetUserVersion ==
    /\ pc = "version"
    /\ tx' = Content(1, tx.tables, tx.docs)
    /\ pc' = "commit" /\ UNCHANGED <<i, stranded>>
    /\ UNCHANGED <<secretVars, disk, sessions, committed, crashes, faults>>

CommitMigration ==
    /\ pc = "commit"
    /\ disk' = Written(disk.subx["db"], tx)
    /\ Goto("migrate")
    /\ UNCHANGED <<secretVars, sessions, committed, crashes, faults>>

\* Any error of Open or migrate rolls back and ends the process (log.Fatalf).
OpenFails ==
    /\ pc \in {"open", "migrate", "table", "version", "commit"} /\ Fault
    /\ Goto("down")
    /\ UNCHANGED <<secretVars, disk, sessions, committed, crashes>>

-----------------------------------------------------------------------------
(* The process serves, and is killed.                                      *)

\* handleLogin: signToken with the process's secret.
handleLogin ==
    /\ pc = "serving"
    /\ sessions' = sessions \cup {key}
    /\ UNCHANGED <<procVars, secretVars, disk, committed, crashes, faults>>

\* A statement or a transaction that commits.
Commit(d) ==
    /\ pc = "serving"
    /\ disk' = Written(disk.subx["db"], Content(Opened.version, Opened.tables, d))
    /\ committed' = d
    /\ UNCHANGED <<procVars, secretVars, sessions, crashes, faults>>

\* SQLite copies the log into the main file and starts it anew.
Checkpoint ==
    /\ pc = "serving" /\ disk.subx["wal"] # NoFile
    /\ disk' = Written(disk.subx["wal"], NoFile)
    /\ UNCHANGED <<procVars, secretVars, sessions, committed, crashes, faults>>

\* Killed while the secret is written: any prefix of it may be in the file.
Crash ==
    /\ pc # "down" /\ crashes < MaxCrashes
    /\ crashes' = crashes + 1
    /\ IF pc = "fill" THEN secret' \in {EmptyFile, Cut(key), key}
                      ELSE UNCHANGED secret
    /\ stranded' = (stranded \/ (pc = "move" /\ i > 1))
    /\ pc' = "down" /\ UNCHANGED <<i, tx>>
    /\ UNCHANGED <<env, key, made, unsaved, disk, sessions, committed, faults>>

Boot ==
    \/ main \/ ReadSecret \/ GenerateSecret \/ CreateSecretFile \/ FillSecretFile
    \/ StatNew \/ StatLegacy \/ RenameFile \/ OpenDatabase \/ migrate
    \/ migrateV1InitialSchema \/ SetUserVersion \/ CommitMigration

-----------------------------------------------------------------------------
\* The types of the variables.
StartupTypeOK(IsDocs(_)) ==
    LET Typed(c) == DOMAIN c = {"version", "tables", "docs"} /\ c.version \in 0..1
                    /\ c.tables \subseteq AllTables /\ IsDocs(c.docs) IN
    /\ pc \in {"down", "secret", "generate", "create", "fill", "stat", "statLegacy",
               "move", "open", "migrate", "table", "version", "commit", "serving"}
    /\ i \in 1..Len(Schema)
    /\ env \in BOOLEAN /\ unsaved \in BOOLEAN /\ stranded \in BOOLEAN
    /\ secret \in Secret \cup {NoFile} /\ key \in Secret /\ made \in Nat
    /\ \A name \in {"substore", "subx"} :
          /\ disk[name]["shm"] \in {NoFile, Index}
          /\ \A s \in {"db", "wal"} :
                disk[name][s] = NoFile \/ Typed(disk[name][s])
    /\ Typed(tx) /\ IsDocs(committed)
    /\ sessions \subseteq Secret
    /\ crashes \in 0..MaxCrashes /\ faults \in 0..MaxFaults

\* Login tokens survive restarts (the comment of loadOrCreateJWTSecret): every
\* token ever handed out is signed with the secret of the process that serves,
\* however often the process was killed, even while it wrote the file; only a
\* file that could not be read or written, or missing random bytes, end them.
TokensSurviveRestarts ==
    pc = "serving" /\ ~unsaved => \A s \in sessions : s = key

\* A database whose user_version says 1 has all tables, at every moment a
\* crash could come: migrate bumps the version in the transaction that creates
\* the tables.
VersionImpliesSchema ==
    \A name \in DOMAIN disk : disk[name]["db"] # NoFile =>
        (Visible(name).version = 1 => Visible(name).tables = AllTables)

\* What was committed last, by this build or by the one that left the legacy
\* database, is what a process that serves reads, after any crash or failing
\* call and through the move, the opening and the migration; unless files of
\* the legacy database were left behind: a rename failed, the process was
\* killed after the first, or a stat failed and a new database was made.
CommittedDataServed ==
    pc = "serving" /\ ~stranded => Opened.docs = committed
=============================================================================
