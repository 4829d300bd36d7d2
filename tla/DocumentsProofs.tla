-------------------------- MODULE DocumentsProofs --------------------------
(***************************************************************************)
(* Proofs about the start of the process, its signing secret and its       *)
(* database files, for any number of crashes, failing system calls and     *)
(* requests, and any database an older build may have left.                *)
(*                                                                         *)
(* StartupStep is what a step of Documents may do to the variables of      *)
(* Startup: a step of the start, a commit of some handler, a failure.      *)
(***************************************************************************)
EXTENDS Documents, Lemmas

StatementFault ==
    Fault /\ UNCHANGED <<procVars, secretVars, disk, sessions, committed, crashes>>

StartupStep ==
    \/ Boot \/ OpenFails \/ handleLogin \/ Checkpoint \/ Crash
    \/ \E d : Commit(d)
    \/ StatementFault
    \/ UNCHANGED startupVars

\* What a handler does to the process and its files is one commit or nothing.
LEMMA HandlerIsStartupStep ==
    ASSUME NEW p, Handler(p)
    PROVE  StartupStep
<1>1. CASE \E body \in SettingsBodies : handlePatchSettings(p, body)
  BY <1>1 DEF handlePatchSettings, Begin, StartupStep
<1>2. CASE SaveSettings(p)
  BY <1>2 DEF SaveSettings, StartupStep
<1>3. CASE \E body \in FileCreateBodies : handleCreateFile(p, body)
  BY <1>3 DEF handleCreateFile, Begin, StartupStep
<1>4. CASE \E name \in FileNames, body \in FilePatchBodies : handlePatchFile(p, name, body)
  BY <1>4 DEF handlePatchFile, Begin, StartupStep
<1>5. CASE \E name \in FileNames : handleDeleteFile(p, name)
  BY <1>5 DEF handleDeleteFile, Begin, StartupStep
<1>6. CASE FileDupCheck(p) \/ FileUpsertPos(p)
  BY <1>6 DEF FileDupCheck, FileUpsertPos, StartupStep
<1>7. CASE RenameFileRow(p)
  BY <1>7 DEF RenameFileRow, Save, StartupStep
<1>8. CASE DeleteFile(p) \/ UpsertFile(p)
  BY <1>8 DEF DeleteFile, UpsertFile, Save, StartupStep
<1>9. CASE StatementFails(p)
  BY <1>9 DEF StatementFails, StatementFault, StartupStep
<1> QED
  BY <1>1, <1>2, <1>3, <1>4, <1>5, <1>6, <1>7, <1>8, <1>9 DEF Handler

\* So every step is one that Startup knows.
LEMMA NextIsStartupStep == [Next]_vars => StartupStep
<1> SUFFICES ASSUME [Next]_vars PROVE StartupStep
  OBVIOUS
<1>1. CASE (Boot \/ OpenFails \/ handleLogin \/ Checkpoint) /\ UNCHANGED docVars
  BY <1>1 DEF StartupStep
<1>2. CASE Killed
  BY <1>2 DEF Killed, StartupStep
<1>3. CASE \E p \in Requests : Handler(p)
  BY <1>3, HandlerIsStartupStep
<1>4. CASE UNCHANGED vars
  BY <1>4 DEF vars, StartupStep
<1> QED
  BY <1>1, <1>2, <1>3, <1>4 DEF Next

-----------------------------------------------------------------------------
(* The signing secret.                                                     *)

\* The secret a process signs with once it has loaded it.
Current == IF env THEN EnvKey ELSE secret

Loaded == {"stat", "statLegacy", "move", "open", "migrate", "table", "version", "commit", "serving"}

\* While every secret in use could be read and saved: a process that generates
\* one does so because there was none, so nobody holds a token; one that has
\* loaded a secret has the one the next process will load; and the tokens that
\* were handed out are signed with it.
SecretInv ==
    /\ env \in BOOLEAN /\ unsaved \in BOOLEAN
    /\ key \in Secret /\ made \in Nat
    /\ secret \in Secret \cup {NoFile}
    /\ ~unsaved =>
         /\ pc \in {"generate", "create", "fill"} => ~env /\ sessions = {}
         /\ pc \in {"create", "fill"} => UsableSecret(key)
         /\ pc \in Loaded => key = Current /\ (env \/ UsableSecret(secret))
         /\ \A s \in sessions : s = Current /\ (env \/ UsableSecret(secret))

\* There is no secret and no token at the start.
LEMMA SecretInit == Init => SecretInv
<1> SUFFICES ASSUME Init PROVE SecretInv
  OBVIOUS
<1>1. /\ pc = "down" /\ env \in BOOLEAN /\ unsaved = FALSE /\ sessions = {}
      /\ secret = NoFile /\ key = EmptyFile /\ made = 0
  BY DEF Init, StartupInit
<1>2. EmptyFile \in Secret
  BY DEF EmptyFile, Secret
<1> QED
  BY <1>1, <1>2 DEF SecretInv, Loaded

\* Every step, a crash while the file is written included, keeps it.
LEMMA SecretStep == SecretInv /\ StartupStep => SecretInv'
<1> SUFFICES ASSUME SecretInv, StartupStep PROVE SecretInv'
  OBVIOUS
<1> USE DEF SecretInv, Loaded, Current
<1>1. CASE main
  BY <1>1 DEF main, Goto, secretVars
<1>2. CASE ReadSecret
  <2>1. EnvKey \in Secret
    BY DEF EnvKey, Secret
  <2>2. CASE env \/ UsableSecret(secret)
    BY <1>2, <2>1, <2>2 DEF ReadSecret, Goto, UsableSecret
  <2>3. CASE ~env /\ ~UsableSecret(secret)
    BY <1>2, <2>3 DEF ReadSecret, Goto
  <2> QED
    BY <2>2, <2>3
<1>3. CASE GenerateSecret
  <2>1. Generated(made + 1) \in Secret /\ FixedKey \in Secret
    BY DEF Generated, FixedKey, Secret
  <2>2. Generated(made + 1) # NoFile /\ Generated(made + 1) # EmptyFile
    BY DEF Generated, EmptyFile, NoFile
  <2>3. CASE key' = Generated(made + 1) /\ made' = made + 1 /\ Goto("create") /\ UNCHANGED unsaved
    BY <1>3, <2>1, <2>2, <2>3 DEF GenerateSecret, Goto, UsableSecret
  <2>4. CASE key' = FixedKey /\ unsaved' = TRUE /\ UNCHANGED made
    BY <1>3, <2>1, <2>4 DEF GenerateSecret
  <2> QED
    BY <1>3, <2>3, <2>4 DEF GenerateSecret
<1>4. CASE CreateSecretFile
  <2>1. EmptyFile \in Secret
    BY DEF EmptyFile, Secret
  <2> QED
    BY <1>4, <2>1 DEF CreateSecretFile, Goto
<1>5. CASE FillSecretFile
  <2>1. EmptyFile \in Secret /\ Cut(key) \in Secret
    BY DEF EmptyFile, Cut, Secret
  <2> QED
    BY <1>5, <2>1 DEF FillSecretFile, Goto
<1>6. CASE StatNew \/ StatLegacy
  BY <1>6 DEF StatNew, StatLegacy, Goto, secretVars
<1>7. CASE RenameFile
  BY <1>7 DEF RenameFile, secretVars
<1>8. CASE OpenDatabase \/ migrate \/ migrateV1InitialSchema \/ SetUserVersion \/ CommitMigration
  <2>1. pc \in Loaded /\ pc' \in Loaded /\ UNCHANGED <<secretVars, sessions>>
    BY <1>8 DEF OpenDatabase, migrate, migrateV1InitialSchema, SetUserVersion, CommitMigration, Goto
  <2> QED
    BY <2>1 DEF secretVars, UsableSecret
<1>9. CASE OpenFails
  BY <1>9 DEF OpenFails, Goto, secretVars
<1>10. CASE handleLogin
  BY <1>10 DEF handleLogin, procVars, secretVars
<1>11. CASE Checkpoint \/ \E d : Commit(d)
  <2>1. UNCHANGED <<procVars, secretVars, sessions>>
    BY <1>11 DEF Checkpoint, Commit
  <2> QED
    BY <2>1 DEF procVars, secretVars, UsableSecret
<1>12. CASE StatementFault
  BY <1>12 DEF StatementFault, procVars, secretVars
<1>13. CASE Crash
  <2>1. EmptyFile \in Secret /\ Cut(key) \in Secret
    BY DEF EmptyFile, Cut, Secret
  <2> QED
    BY <1>13, <2>1 DEF Crash
<1>14. CASE UNCHANGED startupVars
  BY <1>14 DEF startupVars
<1> QED
  BY <1>1, <1>2, <1>3, <1>4, <1>5, <1>6, <1>7, <1>8, <1>9, <1>10, <1>11, <1>12, <1>13, <1>14
     DEF StartupStep, Boot

\* Login tokens survive restarts, however often and wherever the process is
\* killed, as long as the secret can be read and saved.
THEOREM SecretSurvives == Spec => []TokensSurviveRestarts
<1>1. Init => SecretInv
  BY SecretInit
<1>2. SecretInv /\ [Next]_vars => SecretInv'
  BY SecretStep, NextIsStartupStep
<1>3. SecretInv => TokensSurviveRestarts
  BY DEF SecretInv, TokensSurviveRestarts, Loaded
<1> QED
  BY <1>1, <1>2, <1>3, PTL DEF Spec

-----------------------------------------------------------------------------
(* The database files.                                                     *)

\* A file that has content exists.
LEMMA ContentIsAFile ==
    ASSUME NEW v, NEW t, NEW d
    PROVE  Content(v, t, d) # NoFile
BY DEF Content, NoFile

Labels == {"down", "secret", "generate", "create", "fill", "stat", "statLegacy",
           "move", "open", "migrate", "table", "version", "commit", "serving"}

\* The states in which the database is open.
InStore == {"migrate", "table", "version", "commit", "serving"}

\* The transaction of the migration has the tables created so far.
MigrationInv ==
    /\ pc \in {"table", "version", "commit"} => IsContent(tx)
    /\ pc = "table" => \A k \in 1..5 : k < i => Schema[k] \in tx.tables
    /\ pc \in {"version", "commit"} => tx.tables = AllTables

\* Every file, open, moved or left behind by a crash, is a database's.
DiskInv ==
    /\ pc \in Labels
    /\ i \in 1..5
    /\ pc = "move" => i \in 1..3
    /\ disk = [substore |-> disk.substore, subx |-> disk.subx]
    /\ IsDatabase(disk.substore) /\ IsDatabase(disk.subx)
    /\ pc \in InStore => disk.subx["db"] # NoFile
    /\ MigrationInv

\* What is opened is the content of a database.
LEMMA OpenedIsContent ==
    ASSUME DiskInv, disk.subx["db"] # NoFile
    PROVE  IsContent(Opened)
BY DEF DiskInv, IsDatabase, Opened, Visible

\* The two databases on the disk are told apart.
LEMMA DiskFields ==
    ASSUME NEW a, NEW b, NEW new, new = [substore |-> a, subx |-> b]
    PROVE  new.substore = a /\ new.subx = b /\ new = [substore |-> new.substore, subx |-> new.subx]
OBVIOUS

\* Writing the main file and the log leaves a database, and the old one alone.
LEMMA WrittenIsDatabase ==
    ASSUME DiskInv, NEW f, NEW g, f = NoFile \/ IsContent(f), g = NoFile \/ IsContent(g),
           disk' = Written(f, g)
    PROVE  /\ disk' = [substore |-> disk'.substore, subx |-> disk'.subx]
           /\ disk'.substore = disk.substore
           /\ disk'.subx["db"] = f /\ disk'.subx["wal"] = g
           /\ IsDatabase(disk'.subx)
<1> DEFINE db == [disk.subx EXCEPT !["db"] = f, !["wal"] = g]
<1>1. /\ disk.subx = [s \in {"db", "shm", "wal"} |-> disk.subx[s]]
      /\ disk.subx["shm"] \in {NoFile, Index}
  BY DEF DiskInv, IsDatabase
<1>2. /\ db = [s \in {"db", "shm", "wal"} |-> db[s]]
      /\ db["db"] = f /\ db["wal"] = g /\ db["shm"] = disk.subx["shm"]
  BY <1>1
<1> HIDE DEF db
<1>3. IsDatabase(db)
  BY <1>1, <1>2 DEF IsDatabase
<1>4. disk' = [substore |-> disk.substore, subx |-> db]
  BY DEF Written, db
<1>5. disk'.substore = disk.substore /\ disk'.subx = db
  BY <1>4
<1> QED
  BY <1>2, <1>3, <1>4, <1>5

\* Moving one file leaves two databases, and their other files alone.
LEMMA MovedIsDatabase ==
    ASSUME DiskInv, NEW s \in {"db", "shm", "wal"}, disk' = Moved(s)
    PROVE  /\ disk' = [substore |-> disk'.substore, subx |-> disk'.subx]
           /\ IsDatabase(disk'.substore) /\ IsDatabase(disk'.subx)
           /\ disk'.subx[s] = disk.substore[s] /\ disk'.substore[s] = NoFile
           /\ \A u \in {"db", "shm", "wal"} \ {s} :
                 disk'.subx[u] = disk.subx[u] /\ disk'.substore[u] = disk.substore[u]
<1> DEFINE old == [disk.substore EXCEPT ![s] = NoFile]
           db == [disk.subx EXCEPT ![s] = disk.substore[s]]
           Same3(a, b) == \A u \in {"db", "shm", "wal"} \ {s} : a[u] = b[u]
<1>1. /\ disk.subx = [u \in {"db", "shm", "wal"} |-> disk.subx[u]]
      /\ disk.substore = [u \in {"db", "shm", "wal"} |-> disk.substore[u]]
  BY DEF DiskInv, IsDatabase
<1>2. /\ db = [u \in {"db", "shm", "wal"} |-> db[u]] /\ db[s] = disk.substore[s]
      /\ old = [u \in {"db", "shm", "wal"} |-> old[u]] /\ old[s] = NoFile
      /\ Same3(db, disk.subx) /\ Same3(old, disk.substore)
  BY <1>1
<1> HIDE DEF db, old, Same3
<1>3. disk' = [substore |-> old, subx |-> db]
  BY DEF Moved, db, old
<1>4. IsDatabase(db) /\ IsDatabase(old)
  BY <1>2 DEF DiskInv, IsDatabase, Same3
<1>5. /\ disk'.substore = old /\ disk'.subx = db
      /\ disk' = [substore |-> disk'.substore, subx |-> disk'.subx]
  BY <1>3, DiskFields
<1> QED
  BY <1>2, <1>4, <1>5 DEF Same3

\* The files of the first start are those an older build left, or none.
LEMMA DiskInit == Init => DiskInv
<1> SUFFICES ASSUME Init PROVE DiskInv
  OBVIOUS
<1>1. pc = "down" /\ i = 1
  BY DEF Init, StartupInit
<1>2. PICK old \in Legacy \cup {NoDatabase} : disk = [substore |-> old, subx |-> NoDatabase]
  BY DEF Init, StartupInit
<1>3. IsDatabase(NoDatabase)
  BY DEF IsDatabase, NoDatabase
<1>4. disk.substore = old /\ disk.subx = NoDatabase
  BY <1>2
<1>5. IsDatabase(old)
  BY <1>3, StartupAssumptions
<1> QED
  BY <1>1, <1>2, <1>3, <1>4, <1>5 DEF DiskInv, MigrationInv, InStore, Labels

\* The files stay when a step only moves the process on.
LEMMA DiskUnchanged ==
    ASSUME DiskInv, UNCHANGED disk, pc' \in Labels, i' \in 1..5, pc' = "move" => i' \in 1..3,
           pc' \in InStore => disk.subx["db"] # NoFile, MigrationInv'
    PROVE  DiskInv'
<1>1. IsDatabase(disk.substore)' /\ IsDatabase(disk.subx)'
  BY DEF DiskInv, IsDatabase
<1> QED
  BY <1>1 DEF DiskInv

\* Every step of the start, commit, checkpoint and crash leaves databases.
LEMMA DiskStep == DiskInv /\ StartupStep => DiskInv'
<1> SUFFICES ASSUME DiskInv, StartupStep PROVE DiskInv'
  OBVIOUS
<1>0. i \in 1..5
  BY DEF DiskInv
<1>1. CASE main \/ ReadSecret \/ GenerateSecret \/ CreateSecretFile \/ FillSecretFile
  <2>1. UNCHANGED <<disk, i>> /\ pc' \in {"secret", "generate", "create", "fill", "stat"}
    BY <1>1 DEF main, ReadSecret, GenerateSecret, CreateSecretFile, FillSecretFile, Goto
  <2>2. MigrationInv'
    BY <2>1 DEF MigrationInv
  <2> QED
    BY <1>0, <2>1, <2>2, DiskUnchanged DEF InStore, Labels
<1>2. CASE StatNew \/ StatLegacy
  <2>1. /\ UNCHANGED disk /\ pc' \in {"statLegacy", "move", "open"}
        /\ i' = 1 \/ (i' = i /\ pc' # "move")
    BY <1>2 DEF StatNew, StatLegacy, Goto
  <2>2. MigrationInv'
    BY <2>1 DEF MigrationInv
  <2>3. i' \in 1..5 /\ (pc' = "move" => i' \in 1..3) /\ pc' \notin InStore /\ pc' \in Labels
    BY <1>0, <2>1 DEF InStore, Labels
  <2> QED
    BY <2>1, <2>2, <2>3, DiskUnchanged
<1>3. CASE RenameFile
  <2>0. Suffixes[1] = "db" /\ Suffixes[2] = "shm" /\ Suffixes[3] = "wal" /\ Len(Suffixes) = 3
    BY DEF Suffixes
  <2>1. pc = "move" /\ i \in 1..3 /\ Suffixes[i] \in {"db", "shm", "wal"}
    <3>1. pc = "move" /\ i \in 1..3
      BY <1>3 DEF RenameFile, DiskInv
    <3>2. i = 1 \/ i = 2 \/ i = 3
      BY <3>1
    <3> QED
      BY <2>0, <3>1, <3>2
  <2>2. disk' = Moved(Suffixes[i]) \/ disk' = disk
    BY <1>3 DEF RenameFile
  <2>3. pc' \in {"move", "open"} /\ i' \in 1..5 /\ (pc' = "move" => i' \in 1..3)
    <3>1. IF i < 3 THEN i' = i + 1 /\ pc' = pc ELSE pc' = "open" /\ i' = i
      BY <1>3, <2>0 DEF RenameFile
    <3>2. CASE i < 3
      BY <2>1, <3>1, <3>2
    <3>3. CASE ~(i < 3)
      BY <2>1, <3>1, <3>3
    <3> QED
      BY <3>2, <3>3
  <2>4. MigrationInv'
    BY <2>3 DEF MigrationInv
  <2>5. CASE disk' = disk
    BY <2>3, <2>4, <2>5, DiskUnchanged DEF InStore, Labels
  <2>6. CASE disk' = Moved(Suffixes[i])
    <3>1. /\ disk' = [substore |-> disk'.substore, subx |-> disk'.subx]
          /\ IsDatabase(disk'.substore) /\ IsDatabase(disk'.subx)
      BY <2>1, <2>6, MovedIsDatabase
    <3> QED
      BY <2>3, <2>4, <3>1 DEF DiskInv, InStore, IsDatabase, Labels
  <2> QED
    BY <2>2, <2>5, <2>6
<1>4. ASSUME NEW f, NEW g, f # NoFile /\ IsContent(f), g = NoFile \/ IsContent(g),
             disk' = Written(f, g), UNCHANGED i, pc' \in {"migrate", "serving"}, MigrationInv'
      PROVE  DiskInv'
  <2>1. /\ disk' = [substore |-> disk'.substore, subx |-> disk'.subx]
        /\ disk'.substore = disk.substore /\ disk'.subx["db"] = f
        /\ IsDatabase(disk'.subx)
    <3>1. f = NoFile \/ IsContent(f)
      BY <1>4
    <3>2. g = NoFile \/ IsContent(g)
      BY <1>4
    <3>3. disk' = Written(f, g)
      BY <1>4
    <3> QED
      BY <3>1, <3>2, <3>3, WrittenIsDatabase
  <2>2. IsDatabase(disk'.substore)
    BY <2>1 DEF DiskInv
  <2> QED
    BY <1>0, <1>4, <2>1, <2>2 DEF DiskInv, IsDatabase, Labels
<1>5. CASE OpenDatabase
  <2>1. pc' = "migrate" /\ UNCHANGED i
    BY <1>5 DEF OpenDatabase, Goto
  <2>2. MigrationInv'
    BY <2>1 DEF MigrationInv
  <2>3. CASE disk.subx["db"] = NoFile
    <3>1. NewDB # NoFile /\ IsContent(NewDB)
      BY ContentIsAFile DEF NewDB, IsContent, Content
    <3> QED
      BY <1>4, <1>5, <2>1, <2>2, <2>3, <3>1 DEF OpenDatabase
  <2>4. CASE disk.subx["db"] # NoFile
    BY <1>0, <1>5, <2>1, <2>2, <2>4, DiskUnchanged DEF OpenDatabase, Labels
  <2> QED
    BY <2>3, <2>4
<1>6. CASE pc \in InStore /\ UNCHANGED disk /\ i' \in 1..5 /\ pc' \in InStore /\ MigrationInv'
  <2>1. disk.subx["db"] # NoFile
    BY <1>6 DEF DiskInv
  <2> QED
    BY <1>6, <2>1, DiskUnchanged DEF InStore, Labels
<1>7. CASE migrate
  <2>1. pc = "migrate" /\ disk.subx["db"] # NoFile /\ UNCHANGED disk
    BY <1>7 DEF migrate, DiskInv, InStore
  <2>2. IsContent(Opened)
    BY <2>1, OpenedIsContent
  <2>3. /\ pc' \in {"serving", "table"} /\ i' \in 1..5
        /\ pc' = "table" => i' = 1 /\ tx' = Opened
    BY <1>0, <1>7 DEF migrate, Goto
  <2>4. MigrationInv'
    BY <2>2, <2>3 DEF MigrationInv, IsContent
  <2> QED
    BY <1>6, <2>1, <2>3, <2>4 DEF InStore
<1>8. CASE migrateV1InitialSchema
  <2>1. /\ pc = "table" /\ IsContent(tx)
        /\ \A k \in 1..5 : k < i => Schema[k] \in tx.tables
    BY <1>8 DEF migrateV1InitialSchema, DiskInv, MigrationInv
  <2>2. /\ AllTables = {Schema[k] : k \in 1..5} /\ Len(Schema) = 5
    BY DEF AllTables, Schema
  <2>3. /\ tx' = Content(tx.version, tx.tables \cup {Schema[i]}, tx.docs)
        /\ pc' = IF i = 5 THEN "version" ELSE "table"
        /\ i' = IF i = 5 THEN i ELSE i + 1
        /\ UNCHANGED disk
    BY <1>8, <2>2 DEF migrateV1InitialSchema
  <2>4. /\ tx'.version = tx.version /\ tx'.tables = tx.tables \cup {Schema[i]}
        /\ tx' = Content(tx'.version, tx'.tables, tx'.docs)
    BY <2>3 DEF Content
  <2>5. tx.tables \subseteq AllTables /\ Schema[i] \in AllTables
    BY <1>0, <2>1, <2>2 DEF IsContent
  <2>6. IsContent(tx')
    BY <2>1, <2>4, <2>5 DEF IsContent
  <2>7. i = 5 => tx'.tables = AllTables
    BY <1>0, <2>1, <2>2, <2>4, <2>5
  <2>8. i # 5 => \A k \in 1..5 : k < i + 1 => Schema[k] \in tx'.tables
    BY <1>0, <2>1, <2>4
  <2>9. MigrationInv'
    BY <2>3, <2>6, <2>7, <2>8 DEF MigrationInv, IsContent
  <2> QED
    BY <1>0, <1>6, <2>1, <2>3, <2>9 DEF InStore
<1>9. CASE SetUserVersion
  <2>1. pc = "version" /\ IsContent(tx) /\ tx.tables = AllTables
    BY <1>9 DEF SetUserVersion, DiskInv, MigrationInv
  <2>2. tx' = Content(1, tx.tables, tx.docs) /\ pc' = "commit" /\ UNCHANGED <<i, disk>>
    BY <1>9 DEF SetUserVersion
  <2>3. IsContent(tx') /\ tx'.tables = AllTables
    BY <2>1, <2>2 DEF IsContent, Content
  <2>4. MigrationInv'
    BY <2>2, <2>3 DEF MigrationInv, IsContent
  <2> QED
    BY <1>0, <1>6, <2>1, <2>2, <2>4 DEF InStore
<1>10. CASE CommitMigration \/ Checkpoint \/ \E d : Commit(d)
  <2>1. pc \in {"commit", "serving"} /\ pc' \in {"migrate", "serving"} /\ UNCHANGED i
    BY <1>10 DEF CommitMigration, Checkpoint, Commit, Goto, procVars
  <2>2. MigrationInv'
    BY <2>1 DEF MigrationInv
  <2>3. disk.subx["db"] # NoFile /\ IsContent(disk.subx["db"])
    BY <2>1 DEF DiskInv, InStore, IsDatabase
  <2>4. CASE CommitMigration
    <3>1. IsContent(tx)
      BY <2>4 DEF CommitMigration, DiskInv, MigrationInv
    <3> QED
      BY <1>4, <2>1, <2>2, <2>3, <2>4, <3>1 DEF CommitMigration
  <2>5. CASE Checkpoint
    <3>1. disk.subx["wal"] # NoFile /\ IsContent(disk.subx["wal"])
      BY <2>5 DEF Checkpoint, DiskInv, IsDatabase
    <3> QED
      BY <1>4, <2>1, <2>2, <2>5, <3>1 DEF Checkpoint
  <2>6. CASE \E d : Commit(d)
    <3>1. PICK d : Commit(d)
      BY <2>6
    <3>2. IsContent(Opened)
      BY <2>3, OpenedIsContent
    <3>3. IsContent(Content(Opened.version, Opened.tables, d))
      BY <3>2 DEF IsContent, Content
    <3> QED
      BY <1>4, <2>1, <2>2, <2>3, <3>1, <3>3 DEF Commit
  <2> QED
    BY <1>10, <2>4, <2>5, <2>6
<1>11. CASE OpenFails \/ Crash
  <2>1. UNCHANGED <<disk, i>> /\ pc' = "down"
    BY <1>11 DEF OpenFails, Crash, Goto
  <2>2. MigrationInv'
    BY <2>1 DEF MigrationInv
  <2> QED
    BY <1>0, <2>1, <2>2, DiskUnchanged DEF InStore, Labels
<1>12. CASE handleLogin \/ StatementFault \/ UNCHANGED startupVars
  <2>1. UNCHANGED <<pc, i, tx, disk>>
    BY <1>12 DEF handleLogin, StatementFault, startupVars, procVars
  <2>2. MigrationInv'
    BY <2>1 DEF DiskInv, MigrationInv, IsContent
  <2> QED
    BY <2>1, <2>2, DiskUnchanged DEF DiskInv
<1> QED
  BY <1>1, <1>2, <1>3, <1>5, <1>7, <1>8, <1>9, <1>10, <1>11, <1>12 DEF StartupStep, Boot

\* A database whose version is 1 has all tables, wherever a crash comes: the
\* version is bumped in the transaction that has created them.
THEOREM SchemaComplete == Spec => []VersionImpliesSchema
<1>1. Init => DiskInv
  BY DiskInit
<1>2. DiskInv /\ [Next]_vars => DiskInv'
  BY DiskStep, NextIsStartupStep
<1>3. DiskInv => VersionImpliesSchema
  <2> SUFFICES ASSUME DiskInv, NEW name \in DOMAIN disk, disk[name]["db"] # NoFile
               PROVE  Visible(name).version = 1 => Visible(name).tables = AllTables
    BY DEF VersionImpliesSchema
  <2>1. name \in {"substore", "subx"}
    BY DEF DiskInv
  <2>2. IsDatabase(disk[name])
    BY <2>1 DEF DiskInv
  <2> QED
    BY <2>2 DEF Visible, IsDatabase, IsContent
<1> QED
  BY <1>1, <1>2, <1>3, PTL DEF Spec

-----------------------------------------------------------------------------
(* The documents.                                                          *)

Outside == {"down", "secret", "generate", "create", "fill", "stat", "statLegacy",
            "open"}

\* The documents of a main file and a log.
DocsOf(mainFile, log) == IF log = NoFile THEN mainFile.docs ELSE log.docs

\* Nothing of the legacy database has been moved, and it has what was committed.
StillLegacy ==
    /\ disk.subx["db"] = NoFile /\ disk.subx["wal"] = NoFile
    /\ committed = IF disk.substore["db"] = NoFile THEN NoDocs
                   ELSE DocsOf(disk.substore["db"], disk.substore["wal"])

\* Its main file has been moved, its log not yet.
HalfMoved ==
    /\ disk.substore["db"] = NoFile /\ disk.subx["db"] # NoFile /\ disk.subx["wal"] = NoFile
    /\ committed = DocsOf(disk.subx["db"], disk.substore["wal"])

\* Its files have been moved, or the database was created by this build.
AllMoved ==
    /\ disk.substore["db"] = NoFile /\ disk.subx["db"] # NoFile
    /\ committed = DocsOf(disk.subx["db"], disk.subx["wal"])

\* Where the committed documents are, as long as nothing was left behind.
DataInv ==
    ~stranded =>
      /\ pc \in Outside => StillLegacy \/ AllMoved
      /\ pc = "move" /\ i = 1 => StillLegacy /\ disk.substore["db"] # NoFile
      /\ pc = "move" /\ i # 1 => HalfMoved
      /\ pc \in InStore => AllMoved
      /\ pc \in {"table", "version", "commit"} => tx.docs = committed

\* The documents that are opened are those of the log, if there is one.
LEMMA OpenedDocs == Opened.docs = DocsOf(disk.subx["db"], disk.subx["wal"])
BY DEF Opened, Visible, DocsOf

\* At the first start the committed documents are where the older build left them.
LEMMA DataInit == Init => DataInv
<1> SUFFICES ASSUME Init PROVE DataInv
  OBVIOUS
<1>1. /\ pc = "down"
      /\ committed = IF disk.substore["db"] = NoFile THEN NoDocs ELSE Visible("substore").docs
  BY DEF Init, StartupInit
<1>2. PICK old \in Legacy \cup {NoDatabase} : disk = [substore |-> old, subx |-> NoDatabase]
  BY DEF Init, StartupInit
<1>3. disk.subx["db"] = NoFile /\ disk.subx["wal"] = NoFile
  BY <1>2 DEF NoDatabase
<1>4. Visible("substore").docs = DocsOf(disk.substore["db"], disk.substore["wal"])
  BY DEF Visible, DocsOf
<1>5. StillLegacy
  BY <1>1, <1>3, <1>4 DEF StillLegacy
<1> QED
  BY <1>1, <1>5 DEF DataInv, InStore

\* A commit is found in the log, or in the main file once it is checkpointed.
LEMMA WrittenDocs ==
    ASSUME DiskInv, NEW f, NEW g, f # NoFile /\ IsContent(f), g = NoFile \/ IsContent(g),
           disk' = Written(f, g), committed' = DocsOf(f, g),
           disk.substore["db"] = NoFile
    PROVE  AllMoved'
<1>1. f = NoFile \/ IsContent(f)
  OBVIOUS
<1>2. /\ disk'.subx["db"] = f /\ disk'.subx["wal"] = g
      /\ disk'.substore = disk.substore
  BY <1>1, WrittenIsDatabase
<1> QED
  BY <1>2 DEF AllMoved, DocsOf

\* No step loses them, unless it leaves legacy files behind.
LEMMA DataStep == DiskInv /\ DataInv /\ StartupStep => DataInv'
<1> SUFFICES ASSUME DiskInv, DataInv, StartupStep, ~stranded' PROVE DataInv'
  BY DEF DataInv
<1>0. i \in 1..5 /\ (pc = "move" => i \in 1..3)
  BY DEF DiskInv
<1>1. ~stranded
  BY DEF StartupStep, Boot, main, ReadSecret, GenerateSecret, CreateSecretFile, FillSecretFile,
         StatNew, StatLegacy, RenameFile, OpenDatabase, migrate, migrateV1InitialSchema,
         SetUserVersion, CommitMigration, OpenFails, handleLogin, Checkpoint, Commit, Crash,
         StatementFault, Goto, procVars, startupVars
<1>2. ASSUME UNCHANGED <<disk, committed>>
      PROVE  /\ StillLegacy => StillLegacy'
             /\ HalfMoved => HalfMoved'
             /\ AllMoved => AllMoved'
  BY <1>2 DEF StillLegacy, HalfMoved, AllMoved, DocsOf
<1>3. CASE main \/ ReadSecret \/ GenerateSecret \/ CreateSecretFile \/ FillSecretFile
  <2>1. /\ UNCHANGED <<disk, committed>> /\ pc \in Outside
        /\ pc' \in {"secret", "generate", "create", "fill", "stat"}
    BY <1>3 DEF main, ReadSecret, GenerateSecret, CreateSecretFile, FillSecretFile, Goto, Outside
  <2> QED
    BY <1>1, <1>2, <2>1 DEF DataInv, InStore, Outside
<1>4. CASE StatNew \/ StatLegacy
  <2>1. UNCHANGED <<disk, committed>> /\ pc \in {"stat", "statLegacy"}
    BY <1>4 DEF StatNew, StatLegacy
  <2>2. StillLegacy' \/ AllMoved'
    BY <1>1, <1>2, <2>1 DEF DataInv, Outside
  <2>3. CASE pc' = "move" /\ i' = 1 /\ disk.substore["db"] # NoFile
    <3>1. StillLegacy' /\ disk'.substore["db"] # NoFile
      BY <2>1, <2>2, <2>3 DEF AllMoved
    <3> QED
      BY <2>1, <2>3, <3>1 DEF DataInv, InStore, Outside
  <2>4. CASE pc' \in {"statLegacy", "open"}
    BY <2>1, <2>2, <2>4 DEF DataInv, InStore, Outside
  <2> QED
    BY <1>4, <2>3, <2>4 DEF StatNew, StatLegacy, Goto
<1>5. CASE RenameFile
  <2>0. Suffixes[1] = "db" /\ Suffixes[2] = "shm" /\ Suffixes[3] = "wal" /\ Len(Suffixes) = 3
    BY DEF Suffixes
  <2>1. /\ pc = "move" /\ UNCHANGED committed
        /\ \/ disk.substore[Suffixes[i]] # NoFile /\ disk' = Moved(Suffixes[i])
           \/ disk.substore[Suffixes[i]] = NoFile /\ disk' = disk
    BY <1>5 DEF RenameFile
  <2>2. IF i < 3 THEN i' = i + 1 /\ pc' = pc ELSE pc' = "open" /\ i' = i
    BY <1>5, <2>0 DEF RenameFile
  <2>3. CASE i = 1
    <3>1. StillLegacy /\ disk.substore["db"] # NoFile
      BY <1>1, <2>1, <2>3 DEF DataInv
    <3>2. disk' = Moved("db")
      BY <2>0, <2>1, <2>3, <3>1
    <3>3. /\ disk'.subx["db"] = disk.substore["db"] /\ disk'.subx["wal"] = disk.subx["wal"]
          /\ disk'.substore["wal"] = disk.substore["wal"] /\ disk'.substore["db"] = NoFile
      BY <3>2, MovedIsDatabase
    <3>4. HalfMoved'
      BY <2>1, <3>1, <3>3 DEF StillLegacy, HalfMoved, DocsOf
    <3>5. pc' = "move" /\ i' = 2
      BY <2>1, <2>2, <2>3
    <3> QED
      BY <3>4, <3>5 DEF DataInv, InStore, Outside
  <2>4. CASE i = 2
    <3>1. HalfMoved
      BY <1>1, <2>1, <2>4 DEF DataInv
    <3>2. /\ disk'.subx["db"] = disk.subx["db"] /\ disk'.subx["wal"] = disk.subx["wal"]
          /\ disk'.substore["wal"] = disk.substore["wal"]
          /\ disk'.substore["db"] = disk.substore["db"]
      <4>1. CASE disk' = Moved("shm")
        BY <4>1, MovedIsDatabase
      <4>2. CASE disk' = disk
        BY <4>2
      <4> QED
        BY <2>0, <2>1, <2>4, <4>1, <4>2
    <3>3. HalfMoved'
      BY <2>1, <3>1, <3>2 DEF HalfMoved, DocsOf
    <3>4. pc' = "move" /\ i' = 3
      BY <2>1, <2>2, <2>4
    <3> QED
      BY <3>3, <3>4 DEF DataInv, InStore, Outside
  <2>5. CASE i = 3
    <3>1. HalfMoved
      BY <1>1, <2>1, <2>5 DEF DataInv
    <3>2. /\ disk'.subx["db"] = disk.subx["db"] /\ disk'.subx["wal"] = disk.substore["wal"]
          /\ disk'.substore["db"] = disk.substore["db"]
      <4>1. CASE disk' = Moved("wal")
        BY <4>1, MovedIsDatabase
      <4>2. CASE disk' = disk /\ disk.substore["wal"] = NoFile
        BY <3>1, <4>2 DEF HalfMoved
      <4> QED
        BY <2>0, <2>1, <2>5, <4>1, <4>2
    <3>3. AllMoved'
      BY <2>1, <3>1, <3>2 DEF HalfMoved, AllMoved, DocsOf
    <3>4. pc' = "open"
      BY <2>2, <2>5
    <3> QED
      BY <3>3, <3>4 DEF DataInv, InStore, Outside
  <2>6. i = 1 \/ i = 2 \/ i = 3
    BY <1>0, <2>1
  <2> QED
    BY <2>3, <2>4, <2>5, <2>6
<1>6. CASE OpenDatabase
  <2>1. pc = "open" /\ pc' = "migrate" /\ UNCHANGED committed
    BY <1>6 DEF OpenDatabase
  <2>2. CASE disk.subx["db"] = NoFile
    <3>0. disk.substore["db"] = NoFile
      BY <1>6, <2>2 DEF OpenDatabase
    <3>1. committed = NoDocs
      BY <1>1, <2>1, <2>2, <3>0 DEF DataInv, Outside, StillLegacy, AllMoved
    <3>2. NewDB # NoFile /\ IsContent(NewDB) /\ NewDB.docs = NoDocs
      BY ContentIsAFile DEF NewDB, IsContent, Content
    <3>3. disk' = Written(NewDB, NoFile)
      BY <1>6, <2>2 DEF OpenDatabase
    <3>4. committed' = DocsOf(NewDB, NoFile)
      BY <2>1, <3>1, <3>2 DEF DocsOf
    <3>5. AllMoved'
      BY <3>0, <3>2, <3>3, <3>4, WrittenDocs
    <3> QED
      BY <2>1, <3>5 DEF DataInv, InStore, Outside
  <2>3. CASE disk.subx["db"] # NoFile
    <3>1. disk' = disk
      BY <1>6, <2>3 DEF OpenDatabase
    <3>2. AllMoved
      BY <1>1, <2>1, <2>3 DEF DataInv, Outside, StillLegacy
    <3> QED
      BY <1>2, <2>1, <3>1, <3>2 DEF DataInv, InStore, Outside
  <2> QED
    BY <2>2, <2>3
<1>7. CASE migrate
  <2>1. /\ UNCHANGED <<disk, committed>> /\ pc = "migrate"
        /\ pc' \in {"serving", "table"} /\ (pc' = "table" => tx' = Opened)
    BY <1>7 DEF migrate, Goto
  <2>2. AllMoved /\ AllMoved'
    BY <1>1, <1>2, <2>1 DEF DataInv, InStore
  <2>3. Opened.docs = committed
    BY <2>2, OpenedDocs DEF AllMoved
  <2> QED
    BY <2>1, <2>2, <2>3 DEF DataInv, InStore, Outside
<1>8. CASE migrateV1InitialSchema \/ SetUserVersion
  <2>1. /\ UNCHANGED <<disk, committed>> /\ pc \in {"table", "version"}
        /\ pc' \in {"table", "version", "commit"}
    BY <1>8 DEF migrateV1InitialSchema, SetUserVersion
  <2>2. tx'.docs = tx.docs
    BY <1>8 DEF migrateV1InitialSchema, SetUserVersion, Content
  <2>3. AllMoved'
    BY <1>1, <1>2, <2>1 DEF DataInv, InStore
  <2>4. tx.docs = committed
    BY <1>1, <2>1 DEF DataInv
  <2> QED
    BY <2>1, <2>2, <2>3, <2>4 DEF DataInv, InStore, Outside
<1>9. CASE CommitMigration
  <2>1. pc = "commit" /\ pc' = "migrate" /\ UNCHANGED committed /\ disk' = Written(disk.subx["db"], tx)
    BY <1>9 DEF CommitMigration, Goto
  <2>2. IsContent(tx) /\ disk.subx["db"] # NoFile /\ IsContent(disk.subx["db"])
    BY <2>1 DEF DiskInv, MigrationInv, InStore, IsDatabase
  <2>3. tx # NoFile
    BY <2>2, ContentIsAFile DEF IsContent
  <2>4. committed' = DocsOf(disk.subx["db"], tx) /\ disk.substore["db"] = NoFile
    BY <1>1, <2>1, <2>3 DEF DataInv, InStore, AllMoved, DocsOf
  <2>5. AllMoved'
    BY <2>1, <2>2, <2>4, WrittenDocs
  <2> QED
    BY <2>1, <2>5 DEF DataInv, InStore, Outside
<1>10. CASE Checkpoint
  <2>1. /\ pc = "serving" /\ pc' = "serving" /\ UNCHANGED committed
        /\ disk.subx["wal"] # NoFile /\ disk' = Written(disk.subx["wal"], NoFile)
    BY <1>10 DEF Checkpoint, procVars
  <2>2. IsContent(disk.subx["wal"])
    BY <2>1 DEF DiskInv, IsDatabase
  <2>3. committed' = DocsOf(disk.subx["wal"], NoFile) /\ disk.substore["db"] = NoFile
    BY <1>1, <2>1 DEF DataInv, InStore, AllMoved, DocsOf
  <2>4. AllMoved'
    BY <2>1, <2>2, <2>3, WrittenDocs
  <2> QED
    BY <2>1, <2>4 DEF DataInv, InStore, Outside
<1>11. ASSUME NEW d, Commit(d)
       PROVE  DataInv'
  <2> DEFINE new == Content(Opened.version, Opened.tables, d)
  <2>1. /\ pc = "serving" /\ pc' = "serving" /\ committed' = d
        /\ disk' = Written(disk.subx["db"], new)
    BY <1>11 DEF Commit, procVars
  <2>2. disk.subx["db"] # NoFile /\ IsContent(disk.subx["db"])
    BY <2>1 DEF DiskInv, InStore, IsDatabase
  <2>3. IsContent(Opened)
    BY <2>2, OpenedIsContent
  <2>4. IsContent(new) /\ new # NoFile /\ new.docs = d
    BY <2>3, ContentIsAFile DEF IsContent, Content
  <2> HIDE DEF new
  <2>5. committed' = DocsOf(disk.subx["db"], new) /\ disk.substore["db"] = NoFile
    BY <1>1, <2>1, <2>4 DEF DocsOf, DataInv, InStore, AllMoved
  <2>6. AllMoved'
    BY <2>1, <2>2, <2>4, <2>5, WrittenDocs
  <2> QED
    BY <2>1, <2>6 DEF DataInv, InStore, Outside
<1>12. CASE OpenFails \/ Crash
  <2>1. /\ UNCHANGED <<disk, committed>> /\ pc' = "down"
        /\ pc \in Outside \cup InStore \/ (pc = "move" /\ i = 1)
    <3>1. CASE OpenFails
      BY <3>1 DEF OpenFails, Goto, Outside, InStore
    <3>2. CASE Crash
      <4>1. UNCHANGED <<disk, committed>> /\ pc' = "down" /\ ~(pc = "move" /\ i > 1)
        BY <3>2 DEF Crash
      <4> QED
        BY <1>0, <4>1 DEF DiskInv, Labels, Outside, InStore
    <3> QED
      BY <1>12, <3>1, <3>2
  <2> QED
    BY <1>1, <1>2, <2>1 DEF DataInv, InStore, Outside
<1>13. CASE handleLogin \/ StatementFault \/ UNCHANGED startupVars
  <2>1. UNCHANGED <<pc, i, tx, disk, committed>>
    BY <1>13 DEF handleLogin, StatementFault, startupVars, procVars
  <2> QED
    BY <1>1, <1>2, <2>1 DEF DataInv, InStore, Outside
<1> QED
  BY <1>3, <1>4, <1>5, <1>6, <1>7, <1>8, <1>9, <1>10, <1>11, <1>12, <1>13 DEF StartupStep, Boot

\* What was committed last is what a process that serves reads, after any
\* crash and through the move, the opening and the migration; unless files
\* of the legacy database were left behind.
THEOREM CommitsServed == Spec => []CommittedDataServed
<1>1. Init => DiskInv /\ DataInv
  BY DiskInit, DataInit
<1>2. DiskInv /\ DataInv /\ [Next]_vars => (DiskInv /\ DataInv)'
  BY DiskStep, DataStep, NextIsStartupStep
<1>3. DataInv => CommittedDataServed
  BY OpenedDocs DEF DataInv, AllMoved, InStore, CommittedDataServed
<1> QED
  BY <1>1, <1>2, <1>3, PTL DEF Spec
-----------------------------------------------------------------------------
(* The settings.                                                           *)

\* What a PATCH holds: the values it was sent, and for every other key that no
\* other PATCH may write over the value acknowledged last.
HoldsAcked(s) ==
    \A k \in Keys :
       /\ s.body[k] # Unset => s.settings[k] = s.body[k]
       /\ s.body[k] = Unset /\ k \notin shared => s.settings[k] = acked[k]

\* As long as nothing was left behind, the committed document has the values
\* acknowledged last, and so has every copy a PATCH will write back.
AckInv ==
    /\ r = [p \in Requests |-> r[p]]
    /\ \A p \in Requests : "pc" \in DOMAIN r[p]
    /\ ~stranded =>
         /\ "settings" \in DOMAIN committed
         /\ \A k \in Keys \ shared : committed.settings[k] = acked[k]
         /\ \A p \in Requests : r[p].pc = "save" => HoldsAcked(r[p])

\* A handler that is idle holds no copy of the settings.
LEMMA IdleIsNoPatch == "pc" \in DOMAIN DocIdle /\ DocIdle.pc = "idle"
BY DEF DocIdle

\* At the start what counts as acknowledged is what was committed.
LEMMA AckInit == Init => AckInv
<1> SUFFICES ASSUME Init PROVE AckInv
  OBVIOUS
<1>1. r = [p \in Requests |-> DocIdle] /\ acked = committed.settings
  BY DEF Init
<1>2. "settings" \in DOMAIN committed
  <2>1. PICK old \in Legacy \cup {NoDatabase} : disk = [substore |-> old, subx |-> NoDatabase]
    BY DEF Init, StartupInit
  <2>2. committed = IF old["db"] = NoFile THEN NoDocs
                    ELSE IF old["wal"] = NoFile THEN old["db"].docs ELSE old["wal"].docs
    BY <2>1 DEF Init, StartupInit, Visible
  <2>3. CASE old["db"] = NoFile
    BY <2>2, <2>3, DocumentsAssumptions
  <2>4. CASE old["db"] # NoFile
    <3>1. old \in Legacy
      BY <2>4 DEF NoDatabase
    <3>2. IsDocs(committed)
      BY <2>2, <2>4, <3>1, DocumentsAssumptions
    <3> QED
      BY <3>2 DEF IsDocs
  <2> QED
    BY <2>3, <2>4
<1> QED
  BY <1>1, <1>2, IdleIsNoPatch DEF AckInv

\* A step that leaves the settings and starts no PATCH.
LEMMA AckKept ==
    ASSUME AckInv, r' = [p \in Requests |-> r'[p]],
           \A p \in Requests : "pc" \in DOMAIN r'[p] /\ (r'[p].pc = "save" => r'[p] = r[p]),
           UNCHANGED <<acked, shared>>, ~stranded' => ~stranded,
           ~stranded' => /\ "settings" \in DOMAIN committed'
                     /\ committed'.settings = committed.settings
    PROVE  AckInv'
<1>1. ASSUME ~stranded', NEW p \in Requests, r'[p].pc = "save"
      PROVE  HoldsAcked(r[p]) /\ r'[p] = r[p]
  BY <1>1 DEF AckInv
<1>2. ASSUME ~stranded', NEW p \in Requests, r'[p].pc = "save"
      PROVE  HoldsAcked(r[p])'
  BY <1>1, <1>2 DEF HoldsAcked
<1>3. ASSUME ~stranded', NEW k \in Keys \ shared'
      PROVE  committed'.settings[k] = acked'[k]
  BY <1>3 DEF AckInv
<1> QED
  BY <1>2, <1>3 DEF AckInv

\* A process that serves reads what was committed last.
LEMMA ServedDocs ==
    ASSUME DataInv, ~stranded, pc = "serving"
    PROVE  docs = committed
BY OpenedDocs DEF DataInv, InStore, AllMoved, docs

\* A PATCH that reads holds the acknowledged values, with its own in their place.
LEMMA PatchKeepsAck ==
    ASSUME DataInv, AckInv, NEW p \in Requests, NEW body \in SettingsBodies,
           handlePatchSettings(p, body)
    PROVE  AckInv'
<1> DEFINE state == [DocIdle EXCEPT !.pc = "save", !.body = body,
                                    !.settings = MergeSettings(docs.settings, body)]
<1>1. /\ pc = "serving" /\ UNCHANGED <<stranded, committed, acked, shared>>
      /\ r' = [r EXCEPT ![p] = state]
  BY DEF handlePatchSettings, Request, Begin, startupVars
<1>2. /\ "pc" \in DOMAIN state /\ state.body = body
      /\ state.settings = MergeSettings(docs.settings, body)
  BY DEF DocIdle
<1> HIDE DEF state
<1>3. /\ r' = [q \in Requests |-> r'[q]] /\ r'[p] = state
      /\ \A q \in Requests \ {p} : r'[q] = r[q]
  BY <1>1 DEF AckInv
<1>4. \A q \in Requests : "pc" \in DOMAIN r'[q]
  BY <1>2, <1>3 DEF AckInv
<1>5. ASSUME ~stranded, NEW q \in Requests, r'[q].pc = "save"
      PROVE  HoldsAcked(r'[q])
  <2>1. CASE q = p
    <3>1. \A k \in Keys \ shared : docs.settings[k] = acked[k]
      BY <1>1, <1>5, ServedDocs DEF AckInv
    <3>2. \A k \in Keys : state.settings[k] = IF body[k] = Unset THEN docs.settings[k] ELSE body[k]
      BY <1>2 DEF MergeSettings
    <3> QED
      BY <1>2, <1>3, <2>1, <3>1, <3>2 DEF HoldsAcked
  <2>2. CASE q # p
    BY <1>3, <1>5, <2>2 DEF AckInv
  <2> QED
    BY <2>1, <2>2
<1>6. ASSUME ~stranded', NEW q \in Requests, r'[q].pc = "save"
      PROVE  HoldsAcked(r[q])'
  BY <1>1, <1>5, <1>6 DEF HoldsAcked
<1> QED
  BY <1>1, <1>3, <1>4, <1>6 DEF AckInv

\* A PATCH that writes them back acknowledges its own.
LEMMA SaveKeepsAck ==
    ASSUME DataInv, AckInv, NEW p \in Requests, SaveSettings(p)
    PROVE  AckInv'
<1>1. /\ pc = "serving" /\ r[p].pc = "save" /\ UNCHANGED stranded
      /\ committed' = [docs EXCEPT !.settings = r[p].settings]
      /\ r' = [r EXCEPT ![p] = DocIdle]
      /\ acked' = [k \in Keys |-> IF r[p].body[k] = Unset THEN acked[k] ELSE r[p].body[k]]
      /\ shared' = IF Overlapping(p) # {} THEN Keys
                   ELSE shared \ {k \in Keys : r[p].body[k] # Unset}
  BY DEF SaveSettings, At, Commit, Continue, procVars
<1>2. /\ r' = [q \in Requests |-> r'[q]] /\ r'[p] = DocIdle
      /\ \A q \in Requests \ {p} : r'[q] = r[q]
  BY <1>1 DEF AckInv
<1>3. \A q \in Requests : "pc" \in DOMAIN r'[q]
  BY <1>2, IdleIsNoPatch DEF AckInv
<1>4. ASSUME ~stranded
      PROVE  "settings" \in DOMAIN committed' /\ committed'.settings = r[p].settings
  <2>1. docs = committed /\ "settings" \in DOMAIN docs
    BY <1>1, <1>4, ServedDocs DEF AckInv
  <2> HIDE DEF docs
  <2> QED
    BY <1>1, <2>1
<1>5. ASSUME ~stranded, NEW k \in Keys \ shared'
      PROVE  r[p].settings[k] = acked'[k]
  <2>1. HoldsAcked(r[p])
    BY <1>1, <1>5 DEF AckInv
  <2>2. k \notin shared \/ r[p].body[k] # Unset
    BY <1>1, <1>5
  <2> QED
    BY <1>1, <2>1, <2>2 DEF HoldsAcked
<1>6. ASSUME ~stranded, NEW q \in Requests, r'[q].pc = "save"
      PROVE  HoldsAcked(r[q])'
  <2>1. q # p /\ r'[q] = r[q]
    BY <1>2, <1>6, IdleIsNoPatch
  <2>2. shared' = Keys
    BY <1>1, <1>6, <2>1 DEF Overlapping
  <2>3. HoldsAcked(r[q])
    BY <1>6, <2>1 DEF AckInv
  <2> QED
    BY <2>1, <2>2, <2>3 DEF HoldsAcked
<1> QED
  BY <1>1, <1>2, <1>3, <1>4, <1>5, <1>6 DEF AckInv

\* A statement of a handler of files.
LEMMA OtherKeepsAck ==
    ASSUME AckInv, NEW p \in Requests, NEW state, r' = [r EXCEPT ![p] = state],
           "pc" \in DOMAIN state, state.pc # "save", UNCHANGED <<acked, shared, stranded>>,
           ~stranded => "settings" \in DOMAIN committed' /\ committed'.settings = committed.settings
    PROVE  AckInv'
<1>1. /\ r' = [q \in Requests |-> r'[q]] /\ r'[p] = state
      /\ \A q \in Requests \ {p} : r'[q] = r[q]
  BY DEF AckInv
<1>2. \A q \in Requests : "pc" \in DOMAIN r'[q] /\ (r'[q].pc = "save" => r'[q] = r[q])
  BY <1>1 DEF AckInv
<1> QED
  BY <1>1, <1>2, AckKept

\* A statement that commits nothing.
LEMMA ReadKeepsAck ==
    ASSUME AckInv, NEW p \in Requests, NEW state, r' = [r EXCEPT ![p] = state],
           "pc" \in DOMAIN state, state.pc # "save", UNCHANGED <<acked, shared, stranded, committed>>
    PROVE  AckInv'
<1>1. ~stranded => "settings" \in DOMAIN committed' /\ committed'.settings = committed.settings
  BY DEF AckInv
<1> QED
  BY <1>1, OtherKeepsAck

\* The documents written back differ from the committed ones in the files only.
LEMMA FilesKeepAck ==
    ASSUME DataInv, AckInv, NEW p \in Requests, NEW d, Save(d), Continue(p, DocIdle),
           "settings" \in DOMAIN docs => d.settings = docs.settings /\ "settings" \in DOMAIN d
    PROVE  AckInv'
<1>1. /\ pc = "serving" /\ committed' = d /\ UNCHANGED <<acked, shared, stranded>>
      /\ r' = [r EXCEPT ![p] = DocIdle]
  BY DEF Save, Commit, Continue, procVars
<1>2. ASSUME ~stranded
      PROVE  "settings" \in DOMAIN committed' /\ committed'.settings = committed.settings
  BY <1>1, <1>2, ServedDocs DEF AckInv
<1> QED
  BY <1>1, <1>2, IdleIsNoPatch, OtherKeepsAck

\* Every step of a handler keeps the acknowledged settings.
LEMMA HandlerKeepsAck ==
    ASSUME DataInv, AckInv, NEW p \in Requests, Handler(p)
    PROVE  AckInv'
<1>1. CASE \E body \in SettingsBodies : handlePatchSettings(p, body)
  BY <1>1, PatchKeepsAck
<1>2. CASE SaveSettings(p)
  BY <1>2, SaveKeepsAck
<1>3. ASSUME NEW state, Begin(p, state), "pc" \in DOMAIN state, state.pc # "save"
      PROVE  AckInv'
  BY <1>3, ReadKeepsAck DEF Begin, startupVars
<1>4. CASE \E body \in FileCreateBodies : handleCreateFile(p, body)
  <2>1. PICK body \in FileCreateBodies : handleCreateFile(p, body)
    BY <1>4
  <2> DEFINE state == [DocIdle EXCEPT !.pc = "pos", !.key = FileTrimSpace[body.name],
                                      !.position = body.position,
                                      !.rec = [name |-> body.name, content |-> body.content]]
  <2>2. Begin(p, state)
    BY <2>1 DEF handleCreateFile
  <2>3. "pc" \in DOMAIN state /\ state.pc # "save"
    BY DEF DocIdle
  <2> QED
    BY <1>3, <2>2, <2>3
<1>5. CASE \E name \in FileNames, body \in FilePatchBodies : handlePatchFile(p, name, body)
  <2>1. PICK name \in FileNames, body \in FilePatchBodies : handlePatchFile(p, name, body)
    BY <1>5
  <2> DEFINE state == [DocIdle EXCEPT
                         !.pc = IF FileNewName(name, body) # name THEN "dup" ELSE "pos",
                         !.key = name, !.rec = FileMerged(files[name].rec, body),
                         !.position = "bottom"]
  <2>2. Begin(p, state)
    BY <2>1 DEF handlePatchFile
  <2>3. "pc" \in DOMAIN state /\ state.pc # "save"
    BY DEF DocIdle
  <2> QED
    BY <1>3, <2>2, <2>3
<1>6. CASE \E name \in FileNames : handleDeleteFile(p, name)
  <2>1. PICK name \in FileNames : handleDeleteFile(p, name)
    BY <1>6
  <2> DEFINE state == [DocIdle EXCEPT !.pc = "del", !.key = name]
  <2>2. Begin(p, state)
    BY <2>1 DEF handleDeleteFile
  <2>3. "pc" \in DOMAIN state /\ state.pc # "save"
    BY DEF DocIdle
  <2> QED
    BY <1>3, <2>2, <2>3
<1>7. CASE FileDupCheck(p)
  <2>1. UNCHANGED <<acked, shared, stranded, committed>>
    BY <1>7 DEF FileDupCheck, startupVars
  <2>2. PICK state \in {DocIdle, [r[p] EXCEPT !.pc = "rename"]} : r' = [r EXCEPT ![p] = state]
    BY <1>7 DEF FileDupCheck, Continue
  <2>3. "pc" \in DOMAIN state /\ state.pc # "save"
    BY IdleIsNoPatch DEF AckInv
  <2> QED
    BY <2>1, <2>2, <2>3, ReadKeepsAck
<1>8. CASE FileUpsertPos(p)
  <2>1. UNCHANGED <<acked, shared, stranded, committed>>
    BY <1>8 DEF FileUpsertPos, startupVars
  <2>2. PICK q \in Positions : r' = [r EXCEPT ![p] = [r[p] EXCEPT !.pc = "write", !.pos = q]]
    BY <1>8 DEF FileUpsertPos, Continue
  <2> DEFINE state == [r[p] EXCEPT !.pc = "write", !.pos = q]
  <2>3. "pc" \in DOMAIN state /\ state.pc # "save"
    BY DEF AckInv
  <2> QED
    BY <2>1, <2>2, <2>3, ReadKeepsAck
<1>9. CASE RenameFileRow(p)
  <2>1. Continue(p, DocIdle)
    BY <1>9 DEF RenameFileRow
  <2>2. CASE UNCHANGED <<startupVars, acked, shared>>
    BY <2>1, <2>2, IdleIsNoPatch, ReadKeepsAck DEF Continue, startupVars
  <2>3. CASE Save([docs EXCEPT !.files = RenameRow(files, r[p].key, r[p].rec.name, r[p].rec)])
    <3> DEFINE d == [docs EXCEPT !.files = RenameRow(files, r[p].key, r[p].rec.name, r[p].rec)]
    <3>1. "settings" \in DOMAIN docs => d.settings = docs.settings /\ "settings" \in DOMAIN d
      OBVIOUS
    <3> QED
      BY <2>1, <2>3, <3>1, FilesKeepAck
  <2> QED
    BY <1>9, <2>2, <2>3 DEF RenameFileRow
<1>10. CASE DeleteFile(p)
  <2> DEFINE d == [docs EXCEPT !.files = DeleteRow(files, r[p].key)]
  <2>1. "settings" \in DOMAIN docs => d.settings = docs.settings /\ "settings" \in DOMAIN d
    OBVIOUS
  <2>2. Save(d) /\ Continue(p, DocIdle)
    BY <1>10 DEF DeleteFile
  <2> QED
    BY <2>1, <2>2, FilesKeepAck
<1>11. CASE UpsertFile(p)
  <2> DEFINE d == [docs EXCEPT
                     !.files = Upsert(files, r[p].key, r[p].rec, r[p].pos, docs.nextId),
                     !.nextId = NextId(files, r[p].key, docs.nextId)]
  <2>1. "settings" \in DOMAIN docs => d.settings = docs.settings /\ "settings" \in DOMAIN d
    OBVIOUS
  <2>2. Save(d) /\ Continue(p, DocIdle)
    BY <1>11 DEF UpsertFile
  <2> QED
    BY <2>1, <2>2, FilesKeepAck
<1>12. CASE StatementFails(p)
  BY <1>12, IdleIsNoPatch, ReadKeepsAck DEF StatementFails, Continue, procVars
<1> QED
  BY <1>1, <1>2, <1>4, <1>5, <1>6, <1>7, <1>8, <1>9, <1>10, <1>11, <1>12 DEF Handler

\* And so does every step.
LEMMA AckStep == DataInv /\ AckInv /\ [Next]_vars => AckInv'
<1> SUFFICES ASSUME DataInv, AckInv, [Next]_vars PROVE AckInv'
  OBVIOUS
<1>1. ASSUME UNCHANGED <<committed, acked, shared>>, ~stranded' => ~stranded,
             r' = r \/ r' = [p \in Requests |-> DocIdle]
      PROVE  AckInv'
  <2>1. /\ r' = [p \in Requests |-> r'[p]]
        /\ \A p \in Requests : "pc" \in DOMAIN r'[p] /\ (r'[p].pc = "save" => r'[p] = r[p])
    BY <1>1, IdleIsNoPatch DEF AckInv
  <2>2. ~stranded' => "settings" \in DOMAIN committed' /\ committed'.settings = committed.settings
    BY <1>1 DEF AckInv
  <2> QED
    BY <1>1, <2>1, <2>2, AckKept
<1>2. CASE Boot /\ UNCHANGED docVars
  <2>1. UNCHANGED committed /\ (~stranded' => ~stranded)
    <3>1. CASE RenameFile \/ OpenDatabase
      BY <3>1 DEF RenameFile, OpenDatabase
    <3>2. CASE ~(RenameFile \/ OpenDatabase)
      BY <1>2, <3>2 DEF Boot, main, ReadSecret, GenerateSecret, CreateSecretFile,
                        FillSecretFile, StatNew, StatLegacy, migrate, migrateV1InitialSchema,
                        SetUserVersion, CommitMigration, Goto
    <3> QED
      BY <3>1, <3>2
  <2> QED
    BY <1>1, <1>2, <2>1 DEF docVars
<1>3. CASE (OpenFails \/ handleLogin \/ Checkpoint) /\ UNCHANGED docVars
  <2>1. UNCHANGED <<committed, stranded>>
    BY <1>3 DEF OpenFails, handleLogin, Checkpoint, Goto, procVars
  <2> QED
    BY <1>1, <1>3, <2>1 DEF docVars
<1>4. CASE Killed
  BY <1>1, <1>4 DEF Killed, Crash
<1>5. CASE \E p \in Requests : Handler(p)
  BY <1>5, HandlerKeepsAck
<1>6. CASE UNCHANGED vars
  BY <1>1, <1>6 DEF vars, startupVars, docVars
<1> QED
  BY <1>2, <1>3, <1>4, <1>5, <1>6 DEF Next

\* A setting keeps the value that was acknowledged last, through overlapping
\* requests of other keys, crashes and restarts, unless another PATCH held a
\* copy of the document at that moment or the move of a legacy database was cut
\* short.
THEOREM SettingsKept == Spec => []AcknowledgedSettingsKept
<1>1. Init => DiskInv /\ DataInv /\ AckInv
  BY DiskInit, DataInit, AckInit
<1>2. DiskInv /\ DataInv /\ AckInv /\ [Next]_vars => DiskInv' /\ DataInv' /\ AckInv'
  BY DiskStep, DataStep, AckStep, NextIsStartupStep
<1>3. DataInv /\ AckInv => AcknowledgedSettingsKept
  BY ServedDocs DEF AckInv, AcknowledgedSettingsKept
<1> QED
  BY <1>1, <1>2, <1>3, PTL DEF Spec

-----------------------------------------------------------------------------
(* The types of the variables and the order of the files.                  *)

\* A file of a database is missing, or has documents.
DocFile(f) == f = NoFile \/ IsDocs(f.docs)

\* Every file, open, moved or left behind, has documents, and so have the
\* transaction of the migration and the last commit.
DocsInv ==
    /\ \A s \in {"db", "wal"} : DocFile(disk.substore[s]) /\ DocFile(disk.subx[s])
    /\ IsContent(tx) /\ IsDocs(tx.docs)
    /\ IsDocs(committed)

\* A new database has documents.
LEMMA NewDocs == IsDocs(NoDocs) /\ IsContent(NewDB) /\ NewDB.docs = NoDocs
<1>1. NoDocs = [settings |-> NoSettings, files |-> EmptyTable, nextId |-> 1]
  BY DocumentsAssumptions
<1>2. NoSettings \in Settings
  BY DEF NoSettings, Settings
<1>3. IsTable(EmptyTable, FileRowNames, FileRec) /\ DistinctIds(EmptyTable, 1)
  BY DEF EmptyTable, IsTable, DistinctIds
<1>4. IsDocs(NoDocs)
  BY <1>1, <1>2, <1>3 DEF IsDocs
<1> QED
  BY <1>4 DEF NewDB, IsContent, Content

\* The files of the first start have documents.
LEMMA DocsInit == Init => DocsInv
<1> SUFFICES ASSUME Init PROVE DocsInv
  OBVIOUS
<1>1. /\ tx = NewDB
      /\ committed = IF disk.substore["db"] = NoFile THEN NoDocs ELSE Visible("substore").docs
  BY DEF Init, StartupInit
<1>2. PICK old \in Legacy \cup {NoDatabase} : disk = [substore |-> old, subx |-> NoDatabase]
  BY DEF Init, StartupInit
<1>3. disk.substore = old /\ disk.subx = NoDatabase
  BY <1>2
<1>4. \A s \in {"db", "wal"} : DocFile(NoDatabase[s])
  BY DEF NoDatabase, DocFile
<1>5. \A s \in {"db", "wal"} : DocFile(old[s])
  BY <1>4, DocumentsAssumptions DEF DocFile
<1>6. IsDocs(committed)
  <2>1. CASE disk.substore["db"] = NoFile
    BY <1>1, <2>1, NewDocs
  <2>2. CASE disk.substore["db"] # NoFile
    <3>1. committed = IF old["wal"] = NoFile THEN old["db"].docs ELSE old["wal"].docs
      BY <1>1, <1>3, <2>2 DEF Visible
    <3> QED
      BY <1>3, <1>5, <2>2, <3>1 DEF DocFile
  <2> QED
    BY <2>1, <2>2
<1> QED
  BY <1>1, <1>3, <1>4, <1>5, <1>6, NewDocs DEF DocsInv

\* What is opened has the documents of the log or of the main file.
LEMMA OpenedHasDocs ==
    ASSUME DocsInv, disk.subx["db"] # NoFile
    PROVE  IsDocs(Opened.docs)
BY OpenedDocs DEF DocsInv, DocsOf, DocFile

\* The files keep their documents when none of them is written.
LEMMA DocsUnchanged ==
    ASSUME DocsInv, UNCHANGED disk, IsContent(tx'), IsDocs(tx'.docs), IsDocs(committed')
    PROVE  DocsInv'
<1>1. DocFile(disk.substore["db"])' /\ DocFile(disk.substore["wal"])'
      /\ DocFile(disk.subx["db"])' /\ DocFile(disk.subx["wal"])'
  BY DEF DocsInv, DocFile, IsDocs, DistinctIds
<1> QED
  BY <1>1 DEF DocsInv, IsContent, IsDocs

\* And when what is written has documents.
LEMMA DocsWritten ==
    ASSUME DiskInv, DocsInv, NEW f, NEW g, f # NoFile /\ IsContent(f) /\ IsDocs(f.docs),
           g = NoFile \/ (IsContent(g) /\ IsDocs(g.docs)), disk' = Written(f, g),
           UNCHANGED tx, IsDocs(committed')
    PROVE  DocsInv'
<1>1. f = NoFile \/ IsContent(f)
  OBVIOUS
<1>2. g = NoFile \/ IsContent(g)
  OBVIOUS
<1>3. /\ disk'.substore = disk.substore
      /\ disk'.subx["db"] = f /\ disk'.subx["wal"] = g
  BY <1>1, <1>2, WrittenIsDatabase
<1>4. DocFile(disk'.subx["db"]) /\ DocFile(disk'.subx["wal"])
  BY <1>3 DEF DocFile
<1>5. DocFile(disk'.substore["db"]) /\ DocFile(disk'.substore["wal"])
  BY <1>3 DEF DocsInv
<1> QED
  BY <1>4, <1>5 DEF DocsInv

\* Steps of the start, of SQLite and of a handler leave documents in all files,
\* if the handler commits documents.
LEMMA DocsStep ==
    ASSUME DiskInv, DocsInv, StartupStep, IsDocs(committed')
    PROVE  DocsInv'
<1>0. IsContent(tx) /\ IsDocs(tx.docs) /\ i \in 1..5
  BY DEF DocsInv, DiskInv
<1>1. CASE UNCHANGED <<disk, tx>>
  BY <1>0, <1>1, DocsUnchanged
<1>2. CASE RenameFile
  <2>1. UNCHANGED tx /\ pc = "move" /\ i \in 1..3
    BY <1>2 DEF RenameFile, DiskInv
  <2>2. disk' = Moved(Suffixes[i]) \/ disk' = disk
    BY <1>2 DEF RenameFile
  <2>3. CASE disk' = Moved(Suffixes[i])
    <3> DEFINE s == Suffixes[i]
    <3>1. s \in {"db", "shm", "wal"}
      <4>1. i = 1 \/ i = 2 \/ i = 3
        BY <2>1
      <4> QED
        BY <4>1 DEF Suffixes
    <3> HIDE DEF s
    <3>2. /\ disk'.subx[s] = disk.substore[s] /\ disk'.substore[s] = NoFile
          /\ \A u \in {"db", "shm", "wal"} \ {s} :
                disk'.subx[u] = disk.subx[u] /\ disk'.substore[u] = disk.substore[u]
      BY <2>3, <3>1, MovedIsDatabase DEF s
    <3>3. ASSUME NEW u \in {"db", "wal"}
          PROVE  DocFile(disk'.substore[u]) /\ DocFile(disk'.subx[u])
      <4>1. DocFile(disk.substore[u]) /\ DocFile(disk.subx[u]) /\ DocFile(NoFile)
        BY DEF DocsInv, DocFile
      <4> QED
        BY <3>2, <4>1
    <3> QED
      BY <1>0, <2>1, <3>3 DEF DocsInv
  <2> QED
    BY <1>1, <2>1, <2>2, <2>3
<1>3. CASE OpenDatabase
  <2>1. UNCHANGED tx
    BY <1>3 DEF OpenDatabase, Goto
  <2>2. CASE disk.subx["db"] = NoFile
    <3>1. NewDB # NoFile
      BY ContentIsAFile DEF NewDB
    <3>2. disk' = Written(NewDB, NoFile)
      BY <1>3, <2>2 DEF OpenDatabase
    <3> QED
      BY <2>1, <3>1, <3>2, NewDocs, DocsWritten
  <2>3. CASE disk.subx["db"] # NoFile
    BY <1>1, <1>3, <2>1, <2>3 DEF OpenDatabase
  <2> QED
    BY <2>2, <2>3
<1>4. CASE migrate
  <2>1. pc = "migrate" /\ disk.subx["db"] # NoFile /\ UNCHANGED disk
    BY <1>4 DEF migrate, DiskInv, InStore
  <2>2. IsContent(Opened) /\ IsDocs(Opened.docs)
    BY <2>1, OpenedIsContent, OpenedHasDocs
  <2>3. tx' = Opened \/ tx' = tx
    BY <1>4 DEF migrate, Goto
  <2> QED
    BY <1>0, <2>1, <2>2, <2>3, DocsUnchanged
<1>5. CASE migrateV1InitialSchema
  <2>1. /\ tx' = Content(tx.version, tx.tables \cup {Schema[i]}, tx.docs)
        /\ UNCHANGED disk
    BY <1>5 DEF migrateV1InitialSchema
  <2>2. /\ tx'.version = tx.version /\ tx'.tables = tx.tables \cup {Schema[i]}
        /\ tx'.docs = tx.docs /\ tx' = Content(tx'.version, tx'.tables, tx'.docs)
    BY <2>1 DEF Content
  <2>3. Schema[i] \in AllTables
    <3>1. AllTables = {Schema[k] : k \in 1..5}
      BY DEF AllTables, Schema
    <3> QED
      BY <1>0, <3>1
  <2>4. IsContent(tx')
    BY <1>0, <2>2, <2>3 DEF IsContent
  <2> QED
    BY <1>0, <2>1, <2>2, <2>4, DocsUnchanged
<1>6. CASE SetUserVersion
  <2>1. tx.tables = AllTables
    BY <1>6 DEF SetUserVersion, DiskInv, MigrationInv
  <2>2. tx' = Content(1, tx.tables, tx.docs) /\ UNCHANGED disk
    BY <1>6 DEF SetUserVersion
  <2>3. IsContent(tx') /\ tx'.docs = tx.docs
    BY <2>1, <2>2 DEF IsContent, Content
  <2> QED
    BY <1>0, <2>2, <2>3, DocsUnchanged
<1>7. CASE CommitMigration \/ Checkpoint \/ \E d : Commit(d)
  <2>1. pc \in {"commit", "serving"} /\ UNCHANGED tx
    BY <1>7 DEF CommitMigration, Checkpoint, Commit, Goto, procVars
  <2>2. disk.subx["db"] # NoFile /\ IsContent(disk.subx["db"]) /\ IsDocs(disk.subx["db"].docs)
    BY <2>1 DEF DiskInv, InStore, IsDatabase, DocsInv, DocFile
  <2>3. CASE CommitMigration
    BY <1>0, <2>1, <2>2, <2>3, DocsWritten DEF CommitMigration
  <2>4. CASE Checkpoint
    <3>1. /\ disk.subx["wal"] # NoFile /\ IsContent(disk.subx["wal"])
          /\ IsDocs(disk.subx["wal"].docs)
      BY <2>4 DEF Checkpoint, DiskInv, IsDatabase, DocsInv, DocFile
    <3>2. disk' = Written(disk.subx["wal"], NoFile)
      BY <2>4 DEF Checkpoint
    <3> QED
      BY <2>1, <3>1, <3>2, DocsWritten
  <2>5. CASE \E d : Commit(d)
    <3>1. PICK d : Commit(d)
      BY <2>5
    <3> DEFINE c == Content(Opened.version, Opened.tables, d)
    <3>2. disk' = Written(disk.subx["db"], c) /\ committed' = d
      BY <3>1 DEF Commit
    <3>3. IsContent(Opened)
      BY <2>2, OpenedIsContent
    <3>4. IsContent(c) /\ IsDocs(c.docs)
      <4>1. c.docs = d
        BY DEF Content
      <4>2. IsContent(c)
        BY <3>3 DEF IsContent, Content
      <4> QED
        BY <3>2, <4>1, <4>2
    <3> HIDE DEF c
    <3> QED
      BY <2>1, <2>2, <3>2, <3>4, DocsWritten
  <2> QED
    BY <1>7, <2>3, <2>4, <2>5
<1>8. CASE main \/ ReadSecret \/ GenerateSecret \/ CreateSecretFile \/ FillSecretFile
           \/ StatNew \/ StatLegacy \/ OpenFails \/ handleLogin \/ Crash \/ StatementFault
           \/ UNCHANGED startupVars
  <2>1. UNCHANGED <<disk, tx>>
    BY <1>8 DEF main, ReadSecret, GenerateSecret, CreateSecretFile, FillSecretFile,
                StatNew, StatLegacy, OpenFails, handleLogin, Crash, StatementFault, startupVars,
                Goto, procVars
  <2> QED
    BY <1>1, <2>1
<1> QED
  BY <1>2, <1>3, <1>4, <1>5, <1>6, <1>7, <1>8 DEF StartupStep, Boot

\* The variables that only count or collect.
BoundsInv ==
    /\ stranded \in BOOLEAN /\ sessions \subseteq Secret
    /\ crashes \in 0..MaxCrashes /\ faults \in 0..MaxFaults

\* The counters start at zero.
LEMMA BoundsInit == Init => BoundsInv
<1> SUFFICES ASSUME Init PROVE BoundsInv
  OBVIOUS
<1>1. stranded = FALSE /\ sessions = {} /\ crashes = 0 /\ faults = 0
  BY DEF Init, StartupInit
<1>2. MaxCrashes \in Nat /\ MaxFaults \in Nat
  BY StartupAssumptions
<1>3. crashes \in 0..MaxCrashes /\ faults \in 0..MaxFaults
  BY <1>1, <1>2
<1> QED
  BY <1>1, <1>3 DEF BoundsInv

\* They stay within their bounds.
LEMMA BoundsStep ==
    ASSUME SecretInv, BoundsInv, StartupStep
    PROVE  BoundsInv'
<1>1. faults' = faults \/ Fault
  BY DEF StartupStep, Boot, main, ReadSecret, GenerateSecret, CreateSecretFile, FillSecretFile,
         StatNew, StatLegacy, RenameFile, OpenDatabase, migrate, migrateV1InitialSchema,
         SetUserVersion, CommitMigration, OpenFails, handleLogin, Checkpoint, Commit, Crash,
         StatementFault, startupVars
<1>2. faults' \in 0..MaxFaults
  BY <1>1, StartupAssumptions DEF Fault, BoundsInv
<1>3. crashes' = crashes \/ (crashes < MaxCrashes /\ crashes' = crashes + 1)
  BY DEF StartupStep, Boot, main, ReadSecret, GenerateSecret, CreateSecretFile, FillSecretFile,
         StatNew, StatLegacy, RenameFile, OpenDatabase, migrate, migrateV1InitialSchema,
         SetUserVersion, CommitMigration, OpenFails, handleLogin, Checkpoint, Commit, Crash,
         StatementFault, startupVars
<1>4. crashes' \in 0..MaxCrashes
  BY <1>3, StartupAssumptions DEF BoundsInv
<1>5. sessions' = sessions \/ sessions' = sessions \cup {key}
  BY DEF StartupStep, Boot, main, ReadSecret, GenerateSecret, CreateSecretFile, FillSecretFile,
         StatNew, StatLegacy, RenameFile, OpenDatabase, migrate, migrateV1InitialSchema,
         SetUserVersion, CommitMigration, OpenFails, handleLogin, Checkpoint, Commit, Crash,
         StatementFault, startupVars
<1>6. \/ stranded' \in {stranded, TRUE}
      \/ stranded' = (stranded \/ (pc = "move" /\ i > 1))
      \/ stranded' = (stranded \/ disk.substore["db"] # NoFile)
  BY DEF StartupStep, Boot, main, ReadSecret, GenerateSecret, CreateSecretFile, FillSecretFile,
         StatNew, StatLegacy, RenameFile, OpenDatabase, migrate, migrateV1InitialSchema,
         SetUserVersion, CommitMigration, OpenFails, handleLogin, Checkpoint, Commit, Crash,
         StatementFault, Goto, procVars, startupVars
<1>7. stranded' \in BOOLEAN
  BY <1>6 DEF BoundsInv
<1>8. sessions' \subseteq Secret
  BY <1>5 DEF BoundsInv, SecretInv
<1> QED
  BY <1>2, <1>4, <1>7, <1>8 DEF BoundsInv

\* The handlers, and what they were told.
HandlersInv ==
    /\ r \in [Requests -> HandlerState]
    /\ asked \in 0..MaxRequests
    /\ acked \in Settings
    /\ shared \subseteq Keys

\* An idle handler is one.
LEMMA IdleTyped == DocIdle \in HandlerState
<1>1. NoSettings \in Settings
  BY DEF NoSettings, Settings
<1>2. NoFileRec \in FileRec /\ "" \in FileRowNames
  BY DEF NoFileRec, FileRec, FileRowNames
<1>3. 0 \in Positions
  BY PosBoundAssumption DEF Positions
<1> QED
  BY <1>1, <1>2, <1>3 DEF DocIdle, HandlerState

\* All handlers are idle at the start.
LEMMA HandlersInit == Init => HandlersInv
<1> SUFFICES ASSUME Init PROVE HandlersInv
  OBVIOUS
<1>1. committed.settings \in Settings
  BY DocsInit DEF DocsInv, IsDocs
<1>2. r = [p \in Requests |-> DocIdle] /\ asked = 0 /\ acked = committed.settings /\ shared = {}
  BY DEF Init
<1>3. r \in [Requests -> HandlerState]
  BY <1>2, IdleTyped
<1>4. MaxRequests \in Nat
  BY DocumentsAssumptions
<1>5. asked \in 0..MaxRequests
  BY <1>2, <1>4
<1> QED
  BY <1>1, <1>2, <1>3, <1>5 DEF HandlersInv

\* A process that serves reads documents.
LEMMA ServesDocs ==
    ASSUME DiskInv, DocsInv, pc = "serving"
    PROVE  IsDocs(docs)
BY OpenedHasDocs DEF DiskInv, InStore, docs

\* What is committed is what is read next.
LEMMA CommitIsRead ==
    ASSUME DiskInv, NEW d, Commit(d)
    PROVE  docs' = d /\ committed' = d
<1> DEFINE c == Content(Opened.version, Opened.tables, d)
<1>1. /\ pc = "serving" /\ disk' = Written(disk.subx["db"], c)
      /\ committed' = d
  BY DEF Commit
<1>2. disk.subx["db"] # NoFile /\ IsContent(disk.subx["db"])
  BY <1>1 DEF DiskInv, InStore, IsDatabase
<1>3. IsContent(Opened)
  BY <1>2, OpenedIsContent
<1>4. IsContent(c) /\ c.docs = d /\ c # NoFile
  BY <1>3, ContentIsAFile DEF IsContent, Content
<1> HIDE DEF c
<1>5. disk'.subx["wal"] = c
  BY <1>1, <1>2, <1>4, WrittenIsDatabase
<1>6. docs' = c.docs
  BY <1>4, <1>5 DEF docs, Opened, Visible
<1> QED
  BY <1>1, <1>4, <1>6

\* The documents with other files in them.
LEMMA FilesReplaced ==
    ASSUME NEW d, IsDocs(d), NEW t, IsTable(t, FileRowNames, FileRec), DistinctIds(t, d.nextId)
    PROVE  IsDocs([d EXCEPT !.files = t]) /\ [d EXCEPT !.files = t].files = t
<1> DEFINE e == [d EXCEPT !.files = t]
<1>1. /\ DOMAIN e = {"settings", "files", "nextId"}
      /\ e.settings = d.settings /\ e.files = t /\ e.nextId = d.nextId
  BY DEF IsDocs
<1> HIDE DEF e
<1>2. IsDocs(e)
  BY <1>1 DEF IsDocs
<1> QED
  BY <1>1, <1>2 DEF e

\* The documents with other files and another next id.
LEMMA FilesAndIdReplaced ==
    ASSUME NEW d, IsDocs(d), NEW t, NEW n \in Nat, IsTable(t, FileRowNames, FileRec),
           DistinctIds(t, n)
    PROVE  /\ IsDocs([d EXCEPT !.files = t, !.nextId = n])
           /\ [d EXCEPT !.files = t, !.nextId = n].files = t
<1> DEFINE e == [d EXCEPT !.files = t, !.nextId = n]
<1>1. /\ DOMAIN e = {"settings", "files", "nextId"}
      /\ e.settings = d.settings /\ e.files = t /\ e.nextId = n
  BY DEF IsDocs
<1> HIDE DEF e
<1>2. IsDocs(e)
  BY <1>1 DEF IsDocs
<1> QED
  BY <1>1, <1>2 DEF e

\* The documents with other settings.
LEMMA SettingsReplaced ==
    ASSUME NEW d, IsDocs(d), NEW new \in Settings
    PROVE  /\ IsDocs([d EXCEPT !.settings = new])
           /\ [d EXCEPT !.settings = new].files = d.files
<1> DEFINE e == [d EXCEPT !.settings = new]
<1>1. /\ DOMAIN e = {"settings", "files", "nextId"}
      /\ e.settings = new /\ e.files = d.files /\ e.nextId = d.nextId
  BY DEF IsDocs
<1> HIDE DEF e
<1>2. IsDocs(e)
  BY <1>1 DEF IsDocs
<1> QED
  BY <1>1, <1>2 DEF e

\* What a handler's step is to do: leave the handlers typed, commit documents,
\* and keep the files in order.
GoodStep == HandlersInv' /\ IsDocs(committed') /\ KeepsOrder(files, files')

\* A step that commits nothing is good when it leaves its handler typed.
LEMMA ReadIsGood ==
    ASSUME DiskInv, DocsInv, HandlersInv, pc = "serving", NEW p \in Requests,
           NEW state \in HandlerState, r' = [r EXCEPT ![p] = state], asked' \in 0..MaxRequests,
           UNCHANGED <<disk, committed, acked, shared>>
    PROVE  GoodStep
<1>1. HandlersInv'
  <2>1. r' \in [Requests -> HandlerState]
    BY DEF HandlersInv
  <2> QED
    BY <2>1 DEF HandlersInv
<1>2. IsDocs(committed')
  BY DEF DocsInv
<1>3. files' = files
  BY DEF files, docs, Opened, Visible
<1>4. KeepsOrder(files, files)
  BY ServesDocs, SameOrder DEF IsDocs, files
<1> QED
  BY <1>1, <1>2, <1>3, <1>4 DEF GoodStep

\* A request is read.
LEMMA BeginIsGood ==
    ASSUME DiskInv, DocsInv, HandlersInv, NEW p \in Requests, Request(p),
           NEW state \in HandlerState, Begin(p, state)
    PROVE  GoodStep
<1>1. /\ pc = "serving" /\ r' = [r EXCEPT ![p] = state]
      /\ UNCHANGED <<disk, committed, acked, shared>>
  BY DEF Request, Begin, startupVars
<1>2. asked < MaxRequests /\ asked' = asked + 1
  BY DEF Request, Begin
<1>3. asked' \in 0..MaxRequests
  <2>1. MaxRequests \in Nat
    BY DocumentsAssumptions
  <2>2. asked \in 0..MaxRequests
    BY DEF HandlersInv
  <2> QED
    BY <1>2, <2>1, <2>2
<1> QED
  BY <1>1, <1>3, ReadIsGood

\* A statement reads, or fails, and the handler goes on.
LEMMA ContinueIsGood ==
    ASSUME DiskInv, DocsInv, HandlersInv, pc = "serving", NEW p \in Requests,
           NEW state \in HandlerState, Continue(p, state),
           UNCHANGED <<disk, committed, acked, shared>>
    PROVE  GoodStep
<1>1. r' = [r EXCEPT ![p] = state] /\ asked' \in 0..MaxRequests
  BY DEF Continue, HandlersInv
<1> QED
  BY <1>1, ReadIsGood

\* A statement writes other files.
LEMMA SaveIsGood ==
    ASSUME DiskInv, DocsInv, HandlersInv, NEW p \in Requests, NEW d, IsDocs(d),
           KeepsOrder(files, d.files), Save(d), Continue(p, DocIdle)
    PROVE  GoodStep
<1>1. docs' = d /\ committed' = d
  BY CommitIsRead DEF Save
<1>2. files' = d.files
  BY <1>1 DEF files
<1>3. HandlersInv'
  <2>1. r' = [r EXCEPT ![p] = DocIdle] /\ UNCHANGED <<asked, acked, shared>>
    BY DEF Continue, Save
  <2>2. r' \in [Requests -> HandlerState]
    BY <2>1, IdleTyped DEF HandlersInv
  <2> QED
    BY <2>1, <2>2 DEF HandlersInv
<1> QED
  BY <1>1, <1>2, <1>3 DEF GoodStep

\* The two halves of PATCH /api/settings.
LEMMA PatchSettingsIsGood ==
    ASSUME DiskInv, DocsInv, HandlersInv, NEW p \in Requests, NEW body \in SettingsBodies,
           handlePatchSettings(p, body)
    PROVE  GoodStep
<1> DEFINE merged == MergeSettings(docs.settings, body)
           state == [DocIdle EXCEPT !.pc = "save", !.body = body, !.settings = merged]
<1>1. Request(p) /\ Begin(p, state) /\ pc = "serving"
  BY DEF handlePatchSettings, Request
<1>2. docs.settings \in Settings /\ body \in Settings
  BY <1>1, ServesDocs, DocumentsAssumptions DEF IsDocs
<1>3. merged \in Settings
  BY <1>2 DEF MergeSettings, Settings
<1> HIDE DEF merged
<1>4. state \in HandlerState
  BY <1>2, <1>3, IdleTyped DEF HandlerState
<1> HIDE DEF state
<1> QED
  BY <1>1, <1>4, BeginIsGood

\* The second half writes the merged settings and no files.
LEMMA SaveSettingsIsGood ==
    ASSUME DiskInv, DocsInv, HandlersInv, NEW p \in Requests, SaveSettings(p)
    PROVE  GoodStep
<1> DEFINE d == [docs EXCEPT !.settings = r[p].settings]
<1>1. pc = "serving" /\ Commit(d) /\ Continue(p, DocIdle)
  BY DEF SaveSettings, At
<1>2. r[p] \in HandlerState
  BY DEF HandlersInv
<1>3. r[p].settings \in Settings /\ r[p].body \in Settings
  BY <1>2 DEF HandlerState
<1>4. IsDocs(docs)
  BY <1>1, ServesDocs
<1>5. IsDocs(d) /\ d.files = files
  BY <1>3, <1>4, SettingsReplaced DEF files
<1> HIDE DEF d
<1>6. docs' = d /\ committed' = d
  BY <1>1, CommitIsRead
<1>7. KeepsOrder(files, files)
  BY <1>4, SameOrder DEF IsDocs, files
<1>8. files' = files
  BY <1>5, <1>6 DEF files
<1>9. acked' \in Settings
  <2>1. acked' = [k \in Keys |-> IF r[p].body[k] = Unset THEN acked[k] ELSE r[p].body[k]]
    BY DEF SaveSettings
  <2>2. acked \in Settings
    BY DEF HandlersInv
  <2> QED
    BY <1>3, <2>1, <2>2 DEF Settings
<1>10. shared' \subseteq Keys
  BY DEF SaveSettings, HandlersInv
<1>11. r' \in [Requests -> HandlerState] /\ asked' \in 0..MaxRequests
  BY <1>1, IdleTyped DEF Continue, HandlersInv
<1> QED
  BY <1>5, <1>6, <1>7, <1>8, <1>9, <1>10, <1>11 DEF GoodStep, HandlersInv

\* The handlers of files read what they will write.
LEMMA FileRequestIsGood ==
    ASSUME DiskInv, DocsInv, HandlersInv, NEW p \in Requests,
           \/ \E body \in FileCreateBodies : handleCreateFile(p, body)
           \/ \E name \in FileNames, body \in FilePatchBodies : handlePatchFile(p, name, body)
           \/ \E name \in FileNames : handleDeleteFile(p, name)
    PROVE  GoodStep
<1>0. \A name \in FileNames : name \in FileRowNames
  BY DEF FileRowNames
<1>1. ASSUME NEW body \in FileCreateBodies, handleCreateFile(p, body)
      PROVE  GoodStep
  <2> DEFINE rec == [name |-> body.name, content |-> body.content]
             state == [DocIdle EXCEPT !.pc = "pos", !.key = FileTrimSpace[body.name],
                                      !.position = body.position, !.rec = rec]
  <2>1. Request(p) /\ Begin(p, state)
    BY <1>1 DEF handleCreateFile
  <2>2. body \in [name : FileNames, content : {"", "text"}, position : {"", "top", "bottom"}]
    BY DocumentsAssumptions
  <2>3. FileTrimSpace[body.name] \in FileRowNames
    BY <2>2, DocumentsAssumptions
  <2>4. rec \in FileRec
    BY <1>0, <2>2 DEF FileRec
  <2>5. body.position \in {"", "top", "bottom"}
    BY <2>2
  <2> HIDE DEF rec
  <2>6. state \in HandlerState
    BY <2>3, <2>4, <2>5, IdleTyped DEF HandlerState
  <2> HIDE DEF state
  <2> QED
    BY <2>1, <2>6, BeginIsGood
<1>2. ASSUME NEW name \in FileNames, NEW body \in FilePatchBodies, handlePatchFile(p, name, body)
      PROVE  GoodStep
  <2> DEFINE rec == FileMerged(files[name].rec, body)
             label == IF FileNewName(name, body) # name THEN "dup" ELSE "pos"
             state == [DocIdle EXCEPT !.pc = label, !.key = name, !.rec = rec,
                                      !.position = "bottom"]
  <2>1. Request(p) /\ Begin(p, state) /\ name \in DOMAIN files /\ pc = "serving"
    BY <1>2 DEF handlePatchFile, Request
  <2>2. IsTable(files, FileRowNames, FileRec)
    BY <2>1, ServesDocs DEF IsDocs, files
  <2>3. files[name].rec \in FileRec
    BY <2>1, <2>2 DEF IsTable
  <2>4. body \in [name : FileRowNames \cup {FileNotSent}, content : {"", "text", FileNotSent}]
    BY DocumentsAssumptions
  <2>5. rec \in FileRec
    BY <2>3, <2>4 DEF FileMerged, FileSent, FileRec
  <2>6. label \in {"dup", "pos"}
    OBVIOUS
  <2> HIDE DEF rec, label
  <2>7. state \in HandlerState
    BY <1>0, <2>5, <2>6, IdleTyped DEF HandlerState
  <2> HIDE DEF state
  <2> QED
    BY <2>1, <2>7, BeginIsGood
<1>3. ASSUME NEW name \in FileNames, handleDeleteFile(p, name)
      PROVE  GoodStep
  <2> DEFINE state == [DocIdle EXCEPT !.pc = "del", !.key = name]
  <2>1. Request(p) /\ Begin(p, state)
    BY <1>3 DEF handleDeleteFile
  <2>2. state \in HandlerState
    BY <1>0, IdleTyped DEF HandlerState
  <2> HIDE DEF state
  <2> QED
    BY <2>1, <2>2, BeginIsGood
<1> QED
  BY <1>1, <1>2, <1>3

\* Their statements.
LEMMA FileStatementIsGood ==
    ASSUME DiskInv, DocsInv, HandlersInv, NEW p \in Requests,
           FileDupCheck(p) \/ RenameFileRow(p) \/ DeleteFile(p) \/ FileUpsertPos(p)
           \/ UpsertFile(p) \/ StatementFails(p)
    PROVE  GoodStep
<1>1. pc = "serving" /\ r[p] \in HandlerState
  BY DEF FileDupCheck, RenameFileRow, DeleteFile, FileUpsertPos, UpsertFile, StatementFails,
         At, HandlersInv
<1>2. /\ r[p].key \in FileRowNames /\ r[p].rec \in FileRec /\ r[p].rec.name \in FileRowNames
      /\ r[p].pos \in Positions
  BY <1>1 DEF HandlerState, FileRec
<1>3. /\ IsDocs(docs) /\ IsTable(files, FileRowNames, FileRec)
      /\ docs.nextId \in Nat /\ DistinctIds(files, docs.nextId)
  BY <1>1, ServesDocs DEF IsDocs, files
<1>4. CASE FileDupCheck(p)
  <2>1. UNCHANGED <<disk, committed, acked, shared>>
    BY <1>4 DEF FileDupCheck, startupVars
  <2>2. PICK state \in {DocIdle, [r[p] EXCEPT !.pc = "rename"]} : Continue(p, state)
    BY <1>4 DEF FileDupCheck
  <2>3. state \in HandlerState
    BY <1>1, IdleTyped DEF HandlerState
  <2> QED
    BY <1>1, <2>1, <2>2, <2>3, ContinueIsGood
<1>5. CASE FileUpsertPos(p)
  <2>1. UNCHANGED <<disk, committed, acked, shared>>
    BY <1>5 DEF FileUpsertPos, startupVars
  <2>2. PICK q \in Positions : Continue(p, [r[p] EXCEPT !.pc = "write", !.pos = q])
    BY <1>5 DEF FileUpsertPos
  <2> DEFINE state == [r[p] EXCEPT !.pc = "write", !.pos = q]
  <2>3. state \in HandlerState
    BY <1>1 DEF HandlerState
  <2> HIDE DEF state
  <2> QED
    BY <1>1, <2>1, <2>2, <2>3, ContinueIsGood DEF state
<1>6. CASE RenameFileRow(p)
  <2> DEFINE t == RenameRow(files, r[p].key, r[p].rec.name, r[p].rec)
             d == [docs EXCEPT !.files = t]
  <2>1. Continue(p, DocIdle)
    BY <1>6 DEF RenameFileRow
  <2>2. CASE RenameConflict(files, r[p].key, r[p].rec.name)
    <3>1. UNCHANGED <<disk, committed, acked, shared>>
      BY <1>6, <2>2 DEF RenameFileRow, startupVars
    <3> QED
      BY <1>1, <2>1, <3>1, IdleTyped, ContinueIsGood
  <2>3. CASE ~ RenameConflict(files, r[p].key, r[p].rec.name)
    <3>1. Save(d)
      BY <1>6, <2>3 DEF RenameFileRow
    <3>2. IsTable(t, FileRowNames, FileRec)
      BY <1>2, <1>3, RenameTable
    <3>3. DistinctIds(t, docs.nextId) /\ KeepsOrder(files, t)
      BY <1>2, <1>3, <2>3, RenameOrder
    <3> HIDE DEF t
    <3>4. IsDocs(d) /\ d.files = t
      BY <1>3, <3>2, <3>3, FilesReplaced
    <3> HIDE DEF d
    <3> QED
      BY <2>1, <3>1, <3>3, <3>4, SaveIsGood
  <2> QED
    BY <2>2, <2>3
<1>7. CASE DeleteFile(p)
  <2> DEFINE t == DeleteRow(files, r[p].key)
             d == [docs EXCEPT !.files = t]
  <2>1. Save(d) /\ Continue(p, DocIdle)
    BY <1>7 DEF DeleteFile
  <2>2. IsTable(t, FileRowNames, FileRec)
    BY <1>3, DeleteTable
  <2>3. DistinctIds(t, docs.nextId) /\ KeepsOrder(files, t)
    BY <1>3, DeleteOrder
  <2> HIDE DEF t
  <2>4. IsDocs(d) /\ d.files = t
    BY <1>3, <2>2, <2>3, FilesReplaced
  <2> HIDE DEF d
  <2> QED
    BY <2>1, <2>3, <2>4, SaveIsGood
<1>8. CASE UpsertFile(p)
  <2> DEFINE t == Upsert(files, r[p].key, r[p].rec, r[p].pos, docs.nextId)
             n == NextId(files, r[p].key, docs.nextId)
             d == [docs EXCEPT !.files = t, !.nextId = n]
  <2>1. Save(d) /\ Continue(p, DocIdle)
    BY <1>8 DEF UpsertFile
  <2>2. IsTable(t, FileRowNames, FileRec)
    BY <1>2, <1>3, UpsertTable
  <2>3. DistinctIds(t, n) /\ KeepsOrder(files, t)
    BY <1>2, <1>3, UpsertOrder
  <2>4. n \in Nat
    BY <1>3 DEF NextId
  <2> HIDE DEF t, n
  <2>5. IsDocs(d) /\ d.files = t
    BY <1>3, <2>2, <2>3, <2>4, FilesAndIdReplaced
  <2> HIDE DEF d
  <2> QED
    BY <2>1, <2>3, <2>5, SaveIsGood
<1>9. CASE StatementFails(p)
  <2>1. Continue(p, DocIdle) /\ UNCHANGED <<disk, committed, acked, shared>>
    BY <1>9 DEF StatementFails
  <2> QED
    BY <1>1, <2>1, IdleTyped, ContinueIsGood
<1> QED
  BY <1>4, <1>5, <1>6, <1>7, <1>8, <1>9

\* So every step of a handler is good.
LEMMA HandlerIsGood ==
    ASSUME DiskInv, DocsInv, HandlersInv, NEW p \in Requests, Handler(p)
    PROVE  GoodStep
BY PatchSettingsIsGood, SaveSettingsIsGood, FileRequestIsGood, FileStatementIsGood DEF Handler

\* A checkpoint changes nothing that a process reads.
LEMMA CheckpointIsRead ==
    ASSUME DiskInv, Checkpoint
    PROVE  files' = files
<1>1. disk.subx["wal"] # NoFile /\ disk' = Written(disk.subx["wal"], NoFile)
  BY DEF Checkpoint
<1>2. IsContent(disk.subx["wal"])
  BY <1>1 DEF DiskInv, IsDatabase
<1>3. disk'.subx["db"] = disk.subx["wal"] /\ disk'.subx["wal"] = NoFile
  BY <1>1, <1>2, WrittenIsDatabase
<1> QED
  BY <1>1, <1>3 DEF files, docs, Opened, Visible

\* The invariant of the types.
TypesInv == SecretInv /\ DiskInv /\ DocsInv /\ BoundsInv /\ HandlersInv

\* Every step keeps the types.
LEMMA TypesStep == TypesInv /\ [Next]_vars => TypesInv'
<1> SUFFICES ASSUME TypesInv, [Next]_vars PROVE TypesInv'
  OBVIOUS
<1> USE DEF TypesInv
<1>1. SecretInv' /\ DiskInv' /\ BoundsInv'
  BY NextIsStartupStep, SecretStep, DiskStep, BoundsStep
<1>2. IsDocs(committed') /\ HandlersInv'
  <2>1. CASE \E p \in Requests : Handler(p)
    BY <2>1, HandlerIsGood DEF GoodStep
  <2>2. CASE ~ \E p \in Requests : Handler(p)
    <3>1. /\ UNCHANGED <<committed, asked, acked, shared>>
          /\ r' = r \/ r' = [p \in Requests |-> DocIdle]
      BY <2>2 DEF Next, Killed, Crash, Boot, main, ReadSecret, GenerateSecret, CreateSecretFile,
                  FillSecretFile, StatNew, StatLegacy, RenameFile, OpenDatabase, migrate,
                  migrateV1InitialSchema, SetUserVersion, CommitMigration, OpenFails,
                  handleLogin, Checkpoint, vars, startupVars, docVars
    <3>2. IsDocs(committed)
      BY DEF DocsInv
    <3>3. r' \in [Requests -> HandlerState]
      BY <3>1, IdleTyped DEF HandlersInv
    <3> QED
      BY <3>1, <3>2, <3>3 DEF HandlersInv
  <2> QED
    BY <2>1, <2>2
<1>3. DocsInv'
  BY <1>2, NextIsStartupStep, DocsStep
<1> QED
  BY <1>1, <1>2, <1>3

\* Every variable keeps its type; every database file, open, moved or left
\* behind by a crash, has well-formed documents, whose rows have ids of their own.
THEOREM DocumentsTypeCorrect == Spec => []DocTypeOK
<1>1. Init => TypesInv
  BY SecretInit, DiskInit, DocsInit, BoundsInit, HandlersInit DEF TypesInv
<1>2. TypesInv /\ [Next]_vars => TypesInv'
  BY TypesStep
<1>3. TypesInv => DocTypeOK
  <2> SUFFICES ASSUME TypesInv PROVE DocTypeOK
    OBVIOUS
  <2>1. /\ pc \in Labels /\ i \in 1..5 /\ Len(Schema) = 5
    BY DEF TypesInv, DiskInv, Schema
  <2>2. ASSUME NEW c, IsContent(c)
        PROVE  /\ DOMAIN c = {"version", "tables", "docs"} /\ c.version \in 0..1
               /\ c.tables \subseteq AllTables
    BY <2>2 DEF IsContent, Content
  <2>3. ASSUME NEW name \in {"substore", "subx"}
        PROVE  IsDatabase(disk[name]) /\ \A s \in {"db", "wal"} : DocFile(disk[name][s])
    BY DEF TypesInv, DiskInv, DocsInv
  <2>4. ASSUME NEW name \in {"substore", "subx"}
        PROVE  /\ disk[name]["shm"] \in {NoFile, Index}
               /\ \A s \in {"db", "wal"} :
                     \/ disk[name][s] = NoFile
                     \/ /\ DOMAIN disk[name][s] = {"version", "tables", "docs"}
                        /\ disk[name][s].version \in 0..1
                        /\ disk[name][s].tables \subseteq AllTables
                        /\ IsDocs(disk[name][s].docs)
    BY <2>2, <2>3 DEF IsDatabase, DocFile
  <2>5. /\ DOMAIN tx = {"version", "tables", "docs"} /\ tx.version \in 0..1
        /\ tx.tables \subseteq AllTables /\ IsDocs(tx.docs) /\ IsDocs(committed)
    BY <2>2 DEF TypesInv, DocsInv
  <2>6. StartupTypeOK(IsDocs)
    BY <2>1, <2>4, <2>5 DEF StartupTypeOK, Labels, TypesInv, SecretInv, BoundsInv
  <2> QED
    BY <2>6 DEF DocTypeOK, TypesInv, HandlersInv
<1> QED
  BY <1>1, <1>2, <1>3, PTL DEF Spec

\* While the process serves, no step of any handler, and no checkpoint, changes
\* the order of the files that stay.
THEOREM FilesStayInOrder == Spec => FilesKeepOrder
<1>1. Init => TypesInv
  BY SecretInit, DiskInit, DocsInit, BoundsInit, HandlersInit DEF TypesInv
<1>2. TypesInv /\ [Next]_vars => TypesInv'
  BY TypesStep
<1>3. TypesInv /\ [Next]_vars => [pc = "serving" /\ pc' = "serving" => KeepsOrder(files, files')]_vars
  <2> SUFFICES ASSUME TypesInv, [Next]_vars, pc = "serving", pc' = "serving"
               PROVE  KeepsOrder(files, files')
    OBVIOUS
  <2>1. KeepsOrder(files, files)
    BY ServesDocs, SameOrder DEF TypesInv, IsDocs, files
  <2>2. CASE \E p \in Requests : Handler(p)
    BY <2>2, HandlerIsGood DEF GoodStep, TypesInv
  <2>3. CASE Checkpoint
    BY <2>1, <2>3, CheckpointIsRead DEF TypesInv
  <2>4. CASE UNCHANGED disk
    BY <2>1, <2>4 DEF files, docs, Opened, Visible
  <2>5. CASE handleLogin \/ UNCHANGED vars
    BY <2>4, <2>5 DEF handleLogin, vars, startupVars
  <2>6. ~ Boot /\ ~ OpenFails /\ ~ Killed
    BY DEF Killed, Crash, Boot, main, ReadSecret, GenerateSecret, CreateSecretFile,
           FillSecretFile, StatNew, StatLegacy, RenameFile, OpenDatabase, migrate,
           migrateV1InitialSchema, SetUserVersion, CommitMigration, OpenFails
  <2> QED
    BY <2>2, <2>3, <2>5, <2>6 DEF Next
<1> QED
  BY <1>1, <1>2, <1>3, PTL DEF Spec, FilesKeepOrder
=============================================================================
