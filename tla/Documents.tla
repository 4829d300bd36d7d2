----------------------------- MODULE Documents -----------------------------
(***************************************************************************)
(* The settings and the files of subx (internal/server/settings.go and     *)
(* files.go) in a process that starts, serves and is killed as Startup     *)
(* says.  The settings are one document that PATCH reads, merges and       *)
(* writes back in two statements; the files are a name-keyed table.  Each  *)
(* SQL statement is one step and one commit, and the handlers of a killed  *)
(* process are gone.                                                       *)
(***************************************************************************)
EXTENDS Startup, Tables

CONSTANTS
    Requests,          \* requests in flight at a time
    Keys, Values,      \* settings a client may set
    Unset,             \* a key the document does not have
    SettingsBodies,    \* bodies of PATCH /api/settings
    FileNames,         \* names a client may send
    FileTrimSpace,     \* strings.TrimSpace on them
    FileNotSent,       \* a JSON field the client did not send
    FileCreateBodies,  \* bodies of POST /api/files
    FilePatchBodies,   \* bodies of PATCH /api/file/:name
    MaxRequests        \* requests served in a behaviour

FileRowNames == FileNames \cup {""}
FileRec      == [name : FileRowNames, content : {"", "text"}]
Settings     == [Keys -> Values \cup {Unset}]
NoSettings   == [k \in Keys |-> Unset]

\* The documents of a database.
IsDocs(d) ==
    /\ DOMAIN d = {"settings", "files", "nextId"}
    /\ d.settings \in Settings
    /\ IsTable(d.files, FileRowNames, FileRec)
    /\ d.nextId \in Nat /\ DistinctIds(d.files, d.nextId)

ASSUME DocumentsAssumptions ==
    /\ Unset \notin Values
    /\ SettingsBodies \subseteq Settings
    /\ FileTrimSpace \in [FileNames -> FileRowNames]
    /\ FileNotSent \notin FileRowNames \cup {"text"}
    /\ FileCreateBodies \subseteq [name : FileNames, content : {"", "text"},
                                   position : {"", "top", "bottom"}]
    /\ FilePatchBodies \subseteq [name : FileRowNames \cup {FileNotSent},
                                  content : {"", "text", FileNotSent}]
    /\ MaxRequests \in Nat
    /\ NoDocs = [settings |-> NoSettings, files |-> EmptyTable, nextId |-> 1]
    /\ \A db \in Legacy, s \in {"db", "wal"} : db[s] # NoFile => IsDocs(db[s].docs)

VARIABLES
    r,       \* where each handler is, and the documents it holds
    asked,   \* requests served so far
    acked,   \* the value of each setting in the last PATCH answered with success
    shared   \* the settings some other PATCH held a copy of at that moment

docVars == <<r, asked, acked, shared>>
vars    == <<startupVars, docVars>>

docs  == Opened.docs
files == docs.files

NoFileRec == [name |-> "", content |-> ""]
DocIdle   == [pc |-> "idle", settings |-> NoSettings, body |-> NoSettings,
              key |-> "", rec |-> NoFileRec, position |-> "", pos |-> 0]

Init ==
    /\ StartupInit
    /\ r = [p \in Requests |-> DocIdle]
    /\ asked = 0
    /\ acked = committed.settings
    /\ shared = {}

-----------------------------------------------------------------------------
Request(p) == pc = "serving" /\ r[p] = DocIdle /\ asked < MaxRequests

Begin(p, state) ==
    /\ r' = [r EXCEPT ![p] = state]
    /\ asked' = asked + 1
    /\ UNCHANGED <<startupVars, acked, shared>>

At(p, label) == pc = "serving" /\ r[p].pc = label

Continue(p, state) == r' = [r EXCEPT ![p] = state] /\ UNCHANGED asked

Save(d) == Commit(d) /\ UNCHANGED <<acked, shared>>

\* Mutant: the body takes the place of the document.
MergeReplaces(existing, body) == body

\* for k, v := range body { existing[k] = v }
MergeSettings(existing, body) ==
    [k \in Keys |-> IF body[k] = Unset THEN existing[k] ELSE body[k]]

\* GetSettings
handlePatchSettings(p, body) ==
    /\ Request(p)
    /\ Begin(p, [DocIdle EXCEPT !.pc = "save", !.body = body,
                                !.settings = MergeSettings(docs.settings, body)])

\* Other PATCHes that have read the document and will write all of it.
Overlapping(p) == {q \in Requests \ {p} : r[q].pc = "save"}

SaveSettings(p) ==
    /\ At(p, "save")
    /\ Commit([docs EXCEPT !.settings = r[p].settings])
    /\ Continue(p, DocIdle)
    /\ acked' = [k \in Keys |-> IF r[p].body[k] = Unset THEN acked[k] ELSE r[p].body[k]]
    /\ shared' = IF Overlapping(p) # {} THEN Keys
                 ELSE shared \ {k \in Keys : r[p].body[k] # Unset}

-----------------------------------------------------------------------------
(* The files.                                                              *)

\* validateFileBody
ValidFile(rec) == rec.name # "" /\ FileTrimSpace[rec.name] # ""

handleCreateFile(p, body) ==
    LET name == FileTrimSpace[body.name] IN
    /\ Request(p)
    /\ name # "" /\ name \notin DOMAIN files
    /\ Begin(p, [DocIdle EXCEPT !.pc = "pos", !.key = name, !.position = body.position,
                                !.rec = [name |-> body.name, content |-> body.content]])

FileSent(value, old) == IF value = FileNotSent THEN old ELSE value

\* Mutant: a body without content clears it.
FileMergedClears(old, body) == [name    |-> FileSent(body.name, old.name),
                                content |-> body.content]

FileMerged(old, body) == [name    |-> FileSent(body.name, old.name),
                          content |-> FileSent(body.content, old.content)]

FileNewName(name, body) == IF body.name \in {FileNotSent, ""} THEN name ELSE body.name

\* The merged document is validated after the check for a taken name, which
\* changes nothing, so both happen in the step that reads.
handlePatchFile(p, name, body) ==
    /\ Request(p)
    /\ name \in DOMAIN files
    /\ ValidFile(FileMerged(files[name].rec, body))
    /\ Begin(p, [DocIdle EXCEPT !.pc = IF FileNewName(name, body) # name THEN "dup" ELSE "pos",
                                !.key = name, !.rec = FileMerged(files[name].rec, body),
                                !.position = "bottom"])

handleDeleteFile(p, name) ==
    /\ Request(p)
    /\ name \in DOMAIN files
    /\ Begin(p, [DocIdle EXCEPT !.pc = "del", !.key = name])

FileDupCheck(p) ==
    /\ At(p, "dup")
    /\ \/ r[p].rec.name \in DOMAIN files /\ Continue(p, DocIdle)
       \/ Continue(p, [r[p] EXCEPT !.pc = "rename"])
    /\ UNCHANGED <<startupVars, acked, shared>>

\* Mutant: a rename deletes the row and inserts one at the bottom.
RenameMovesToBottom(p) ==
    /\ At(p, "rename")
    /\ Save([docs EXCEPT !.files =
                [RenameRow(files, r[p].key, r[p].rec.name, r[p].rec)
                    EXCEPT ![r[p].rec.name].pos = CHOOSE q \in Positions : NewPos(files, "bottom", q)]])
    /\ Continue(p, DocIdle)

RenameFileRow(p) ==
    /\ At(p, "rename")
    /\ IF RenameConflict(files, r[p].key, r[p].rec.name)
       THEN UNCHANGED <<startupVars, acked, shared>>
       ELSE Save([docs EXCEPT !.files = RenameRow(files, r[p].key, r[p].rec.name, r[p].rec)])
    /\ Continue(p, DocIdle)

DeleteFile(p) ==
    /\ At(p, "del")
    /\ Save([docs EXCEPT !.files = DeleteRow(files, r[p].key)])
    /\ Continue(p, DocIdle)

FileUpsertPos(p) ==
    /\ At(p, "pos")
    /\ \E q \in Positions : NewPos(files, r[p].position, q)
                            /\ Continue(p, [r[p] EXCEPT !.pc = "write", !.pos = q])
    /\ UNCHANGED <<startupVars, acked, shared>>

UpsertFile(p) ==
    /\ At(p, "write")
    /\ Save([docs EXCEPT !.files = Upsert(files, r[p].key, r[p].rec, r[p].pos, docs.nextId),
                         !.nextId = NextId(files, r[p].key, docs.nextId)])
    /\ Continue(p, DocIdle)

\* A statement fails: nothing is written and the handler answers 500.
StatementFails(p) ==
    /\ \E label \in {"save", "rename", "del", "pos", "write"} : At(p, label)
    /\ Fault
    /\ Continue(p, DocIdle)
    /\ UNCHANGED <<procVars, secretVars, disk, sessions, committed, crashes, acked, shared>>

Handler(p) ==
    \/ \E body \in SettingsBodies : handlePatchSettings(p, body)
    \/ SaveSettings(p)
    \/ \E body \in FileCreateBodies : handleCreateFile(p, body)
    \/ \E name \in FileNames, body \in FilePatchBodies : handlePatchFile(p, name, body)
    \/ \E name \in FileNames : handleDeleteFile(p, name)
    \/ FileDupCheck(p) \/ RenameFileRow(p) \/ DeleteFile(p)
    \/ FileUpsertPos(p) \/ UpsertFile(p)
    \/ StatementFails(p)

\* Every handler dies with the process.
Killed ==
    /\ Crash
    /\ r' = [p \in Requests |-> DocIdle]
    /\ UNCHANGED <<asked, acked, shared>>

Next ==
    \/ (Boot \/ OpenFails \/ handleLogin \/ Checkpoint) /\ UNCHANGED docVars
    \/ Killed
    \/ \E p \in Requests : Handler(p)

\* Whatever runs the process starts it again, and each step of its start is
\* taken; crashes and failing system calls come to an end.
Fairness == WF_vars(Boot /\ UNCHANGED docVars)

Spec == Init /\ [][Next]_vars /\ Fairness

-----------------------------------------------------------------------------
HandlerState == [pc : {"idle", "save", "dup", "rename", "del", "pos", "write"},
                 settings : Settings, body : Settings, key : FileRowNames,
                 rec : FileRec, position : {"", "top", "bottom"}, pos : Positions]

\* The types of the variables.
DocTypeOK ==
    /\ StartupTypeOK(IsDocs)
    /\ r \in [Requests -> HandlerState]
    /\ asked \in 0..MaxRequests
    /\ acked \in Settings
    /\ shared \subseteq Keys

\* A setting that a PATCH was told is saved keeps its value through other
\* PATCHes, crashes and restarts, until a PATCH sends that key; only when
\* another PATCH held a copy of the document at that moment may the key be
\* written over, and only legacy files that were left behind may lose it.
AcknowledgedSettingsKept ==
    pc = "serving" /\ ~stranded => \A k \in Keys \ shared : docs.settings[k] = acked[k]

\* No step, not even a rename, changes the order of the files that stay
\* ("keep the original position when renaming", handlePatchFile).
FilesKeepOrder ==
    [][pc = "serving" /\ pc' = "serving" => KeepsOrder(files, files')]_vars

\* However its start was interrupted, the process comes to serve: the steps of
\* the start can be repeated on whatever the earlier attempts left.
EventuallyServes == <>[](pc = "serving")
=============================================================================
