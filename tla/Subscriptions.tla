--------------------------- MODULE Subscriptions ---------------------------
(***************************************************************************)
(* The subscription records of subx: the table "subs", the HTTP handlers   *)
(* of internal/server/subs.go that write it, and the pass of the           *)
(* background scheduler (internal/scheduler/runner.go) that refreshes the  *)
(* cached snapshots.  Handlers and scheduler run concurrently on one       *)
(* SQLite connection: each SQL statement (or transaction) is one step, and *)
(* between two steps a process keeps the whole record it read, which it    *)
(* later writes back whole.                                                *)
(*                                                                         *)
(* A record keeps the fields the handlers decide on.  Its snapshot         *)
(* (cachedContent) is modelled by the link it was downloaded from, NoLink  *)
(* for the empty string; user-written content by "" or "text".  Requests   *)
(* that are answered with an error before anything is written leave the    *)
(* state alone and are not steps.                                          *)
(***************************************************************************)
EXTENDS Tables

CONSTANTS
    Handlers,      \* HTTP requests in flight at a time
    Sched,         \* the goroutine of scheduler.Runner
    Names,         \* names a client may send
    TrimSpace,     \* strings.TrimSpace on Names
    Slashed,       \* the names that contain "/"
    Urls, UAs,     \* non-empty URLs, User-Agents
    Absent,        \* a JSON field the client did not send
    CreateBodies,  \* bodies of POST /api/subs
    PatchBodies,   \* bodies of PATCH /api/sub/:name
    MaxRequests    \* requests served in a behaviour

RowNames == Names \cup {""}
Url      == Urls \cup {""}
UA       == UAs \cup {""}
Link     == [url : Url, ua : UA]
NoLink   == [url |-> "", ua |-> ""]

SubRec == [name : RowNames, source : {"local", "remote"}, url : Url, ua : UA,
           content : {"", "text"}, cron : {"", "valid"}, cached : Link]

\* "other" is any source that is neither type; "invalid" a cron expression
\* that scheduler.Parse refuses.
CreateBody == [name : Names, source : {"", "local", "remote", "other"},
               url : Url, ua : UA, content : {"", "text"},
               cron : {"", "valid", "invalid"}, position : {"", "top", "bottom"}]
PatchBody == [name : RowNames \cup {Absent},
              source : {"", "local", "remote", "other", Absent},
              url : Url \cup {Absent}, ua : UA \cup {Absent},
              content : {"", "text", Absent},
              cron : {"", "valid", "invalid", Absent}]

ASSUME SubsAssumptions ==
    /\ Sched \notin Handlers
    /\ TrimSpace \in [Names -> RowNames]
    /\ Slashed \subseteq Names /\ "" \notin Slashed
    /\ \A n \in Names : n \in Slashed <=> TrimSpace[n] \in Slashed
    /\ "" \notin Urls
    /\ Absent \notin RowNames \cup Url \cup UA
    /\ Absent \notin {"", "local", "remote", "other", "text", "valid", "invalid"}
    /\ CreateBodies \subseteq CreateBody
    /\ PatchBodies \subseteq PatchBody
    /\ MaxRequests \in Nat

VARIABLES
    subs,    \* the table
    nextId,  \* its AUTOINCREMENT counter
    h,       \* where each handler (and the scheduler) is, and what it holds
    todo,    \* rows of the scheduler's snapshot it has not looked at yet
    asked    \* requests served so far

vars == <<subs, nextId, h, todo, asked>>

Procs == Handlers \cup {Sched}

NoRec == [name |-> "", source |-> "remote", url |-> "", ua |-> "",
          content |-> "", cron |-> "", cached |-> NoLink]

\* Where a process is; the row name, the record and the end of the list its
\* next write is for; the position it has read.
State(pc, key, rec, position, pos) ==
    [pc |-> pc, key |-> key, rec |-> rec, position |-> position, pos |-> pos]

Idle          == State("idle", "", NoRec, "", 0)
Fetching(rec) == State("fetch", "", rec, "", 0)

Init ==
    /\ subs = EmptyTable
    /\ nextId = 1
    /\ h = [p \in Procs |-> Idle]
    /\ todo = EmptyTable
    /\ asked = 0

-----------------------------------------------------------------------------
(* What the handlers compute from a request and a record.                  *)

LinkOf(rec) == [url |-> rec.url, ua |-> rec.ua]

\* validateAndNormalizeSubBody: what it rejects, on fields that a PATCH has
\* already merged ...
ValidCronUnchecked(rec) ==
    CASE rec.source = "local" -> rec.content # ""
      [] rec.source \in {"", "remote"} -> rec.url # ""
      [] OTHER -> FALSE

ValidSub(rec) ==
    CASE rec.source = "local" -> rec.content # ""
      [] rec.source \in {"", "remote"} -> rec.url # "" /\ rec.cron # "invalid"
      [] OTHER -> FALSE

\* ... and what it rewrites.
NormalizeSub(rec) ==
    IF rec.source = "local"
    THEN [rec EXCEPT !.url = "", !.cron = ""]
    ELSE [rec EXCEPT !.source = "remote", !.content = ""]

\* The document POST stores: the body without a snapshot.
Created(body) ==
    NormalizeSub([name |-> body.name, source |-> body.source, url |-> body.url,
                  ua |-> body.ua, content |-> body.content, cron |-> body.cron,
                  cached |-> NoLink])

Sent(value, old) == IF value = Absent THEN old ELSE value

Merged(old, body) ==
    [name    |-> Sent(body.name, old.name),
     source  |-> Sent(body.source, old.source),
     url     |-> Sent(body.url, old.url),
     ua      |-> Sent(body.ua, old.ua),
     content |-> Sent(body.content, old.content),
     cron    |-> Sent(body.cron, old.cron),
     cached  |-> old.cached]

\* An explicit switch of type clears the fields of the other type (the url and
\* the content only when the body does not carry them).
SwitchKeepsSnapshot(rec, body) ==
    CASE body.source = "local" ->
           [rec EXCEPT !.url = Sent(body.url, ""), !.cron = ""]
      [] body.source = "remote" -> [rec EXCEPT !.content = Sent(body.content, "")]
      [] OTHER -> rec

SwitchSource(rec, body) ==
    CASE body.source = "local" ->
           [rec EXCEPT !.url = Sent(body.url, ""), !.cron = "", !.cached = NoLink]
      [] body.source = "remote" -> [rec EXCEPT !.content = Sent(body.content, "")]
      [] OTHER -> rec

\* A snapshot is dropped when the link it came from is no longer the record's.
DropStaleCacheUrlOnly(old, rec) ==
    IF /\ rec.source = "remote"
       /\ \/ rec.url # old.url
          \/ old.source # "remote"
    THEN [rec EXCEPT !.cached = NoLink] ELSE rec

DropStaleCache(old, rec) ==
    IF /\ rec.source = "remote"
       /\ \/ rec.url # old.url
          \/ rec.ua # old.ua
          \/ old.source # "remote"
    THEN [rec EXCEPT !.cached = NoLink] ELSE rec

BeforeNormalize(old, body) == SwitchSource(Merged(old, body), body)

Patched(old, body) == DropStaleCache(old, NormalizeSub(BeforeNormalize(old, body)))

\* The name a PATCH moves the row to: an empty one renames nothing.
NewName(name, body) == IF body.name \in {Absent, ""} THEN name ELSE body.name

\* downloader.Client.Fetch: user-written content, else the snapshot, else a
\* live download of the link.
Served(rec) ==
    CASE rec.content # ""     -> [from |-> "content", link |-> NoLink]
      [] rec.content = "" /\ rec.cached # NoLink ->
                                 [from |-> "snapshot", link |-> rec.cached]
      [] OTHER                -> [from |-> "live", link |-> LinkOf(rec)]

-----------------------------------------------------------------------------
(* Requests up to their first database read.                               *)

Request(p) == p \in Handlers /\ h[p] = Idle /\ asked < MaxRequests

Begin(p, state) ==
    /\ h' = [h EXCEPT ![p] = state]
    /\ asked' = asked + 1
    /\ UNCHANGED <<subs, nextId, todo>>

\* POST: the name must be new; the body is stored under the trimmed name.
handleCreateSub(p, body) ==
    LET name == TrimSpace[body.name] IN
    /\ Request(p)
    /\ name # "" /\ name \notin Slashed
    /\ ValidSub(body)
    /\ name \notin DOMAIN subs
    /\ Begin(p, State("pos", name, Created(body), body.position, 0))

\* PATCH: reads the record and merges the body into the copy.
handlePatchSub(p, name, body) ==
    LET old == subs[name].rec IN
    /\ Request(p)
    /\ name \in DOMAIN subs
    /\ NewName(name, body) # name => NewName(name, body) \notin Slashed
    /\ ValidSub(BeforeNormalize(old, body))
    /\ Begin(p, State(IF NewName(name, body) # name THEN "dup" ELSE "pos",
                      name, Patched(old, body), "bottom", 0))

\* POST :name/update: remote subscriptions only.
handleUpdateSub(p, name) ==
    /\ Request(p)
    /\ name \in DOMAIN subs
    /\ subs[name].rec.source = "remote" /\ subs[name].rec.url # ""
    /\ Begin(p, Fetching(subs[name].rec))

handleDeleteSub(p, name) ==
    /\ Request(p)
    /\ name \in DOMAIN subs
    /\ Begin(p, State("del", name, NoRec, "", 0))

-----------------------------------------------------------------------------
(* The steps that follow.                                                  *)

Continue(p, state) == h' = [h EXCEPT ![p] = state]

\* A saved remote record is fetched at once; anything else is answered.
AfterSave(s) ==
    IF s.rec.source = "remote" /\ s.rec.url # "" THEN Fetching(s.rec) ELSE Idle

\* GetSub(newName) before a rename; a database error counts as "not taken".
DupCheck(p) ==
    /\ h[p].pc = "dup"
    /\ \/ h[p].rec.name \in DOMAIN subs /\ Continue(p, Idle)
       \/ Continue(p, [h[p] EXCEPT !.pc = "rename"])
    /\ UNCHANGED <<subs, nextId, todo, asked>>

\* The rename transaction: refused when the new name is taken by now, a no-op
\* that still reports success when the old row is gone.
RenameTx(p) ==
    LET old == h[p].key
        new == h[p].rec.name IN
    /\ h[p].pc = "rename"
    /\ IF RenameConflict(subs, old, new)
       THEN Continue(p, Idle) /\ UNCHANGED subs
       ELSE /\ subs' = RenameRow(subs, old, new, h[p].rec)
            /\ Continue(p, AfterSave(h[p]))
    /\ UNCHANGED <<nextId, todo, asked>>

DeleteTx(p) ==
    /\ h[p].pc = "del"
    /\ subs' = DeleteRow(subs, h[p].key)
    /\ Continue(p, Idle)
    /\ UNCHANGED <<nextId, todo, asked>>

\* Store.UpsertSub is two statements: the new position is read first ...
UpsertPos(p) ==
    /\ h[p].pc \in {"pos", "cachePos"}
    /\ \E q \in Positions :
          /\ NewPos(subs, h[p].position, q)
          /\ Continue(p, State(IF h[p].pc = "pos" THEN "write" ELSE "cacheWrite",
                               h[p].key, h[p].rec, h[p].position, q))
    /\ UNCHANGED <<subs, nextId, todo, asked>>

\* ... and then the whole record held by the process is written.
WriteSub(p) ==
    /\ subs' = Upsert(subs, h[p].key, h[p].rec, h[p].pos, nextId)
    /\ nextId' = NextId(subs, h[p].key, nextId)
    /\ UNCHANGED <<todo, asked>>

UpsertSub(p) ==
    /\ h[p].pc = "write"
    /\ WriteSub(p)
    /\ Continue(p, AfterSave(h[p]))

\* refreshRemoteSubCache / Runner.refresh: the download, at most 60 seconds.
\* It may fail, and it may bring an empty body; a result is put into the
\* record, to be stored under the record's own name.
FetchLive(p) ==
    /\ h[p].pc = "fetch"
    /\ \/ Continue(p, Idle)
       \/ \E link \in {NoLink, LinkOf(h[p].rec)} :
             Continue(p, State("cachePos", h[p].rec.name,
                               [h[p].rec EXCEPT !.cached = link], "bottom", 0))
    /\ UNCHANGED <<subs, nextId, todo, asked>>

SaveCache(p) ==
    /\ h[p].pc = "cacheWrite"
    /\ WriteSub(p)
    /\ Continue(p, Idle)

\* A statement or a transaction that fails changes nothing; the handler
\* answers 500 (or a warning), the scheduler goes on with the next row.
DBError(p) ==
    /\ h[p].pc \in {"rename", "del", "pos", "write", "cachePos", "cacheWrite"}
    /\ Continue(p, Idle)
    /\ UNCHANGED <<subs, nextId, todo, asked>>

-----------------------------------------------------------------------------
(* The scheduler: one pass over a snapshot of the list, in list order.     *)

tick ==
    /\ h[Sched] = Idle /\ todo = EmptyTable
    /\ todo' = subs
    /\ UNCHANGED <<subs, nextId, h, asked>>

\* The next row of the snapshot: whether its cron schedule is due is left
\* open here.
tickNext ==
    /\ h[Sched] = Idle
    /\ \E n \in DOMAIN todo :
          LET rec == todo[n].rec IN
          /\ IsFirst(todo, n)
          /\ todo' = DeleteRow(todo, n)
          /\ \/ UNCHANGED h
             \/ /\ rec.source = "remote" /\ rec.cron # "" /\ rec.url # ""
                /\ Continue(Sched, Fetching(rec))
    /\ UNCHANGED <<subs, nextId, asked>>

\* The server process stops and starts again: only the database is left.
Restart ==
    /\ h' = [p \in Procs |-> Idle]
    /\ todo' = EmptyTable
    /\ UNCHANGED <<subs, nextId, asked>>

-----------------------------------------------------------------------------
\* The route /api/sub/:name matches no empty name.
Arrive(p) ==
    \/ \E body \in CreateBodies : handleCreateSub(p, body)
    \/ \E name \in RowNames \ {""}, body \in PatchBodies : handlePatchSub(p, name, body)
    \/ \E name \in RowNames \ {""} : handleUpdateSub(p, name)
    \/ \E name \in RowNames \ {""} : handleDeleteSub(p, name)

\* The steps that touch no collection.
LocalStep(p) ==
    \/ DupCheck(p)
    \/ UpsertPos(p)
    \/ UpsertSub(p)
    \/ FetchLive(p)
    \/ SaveCache(p)
    \/ DBError(p)

Next ==
    \/ \E p \in Handlers : Arrive(p)
    \/ \E p \in Procs : LocalStep(p) \/ RenameTx(p) \/ DeleteTx(p)
    \/ tick
    \/ tickNext
    \/ Restart

Spec == Init /\ [][Next]_vars

-----------------------------------------------------------------------------
(* Properties                                                              *)

PCs == {"idle", "dup", "rename", "del", "pos", "write", "fetch", "cachePos",
        "cacheWrite"}

Local == [pc : PCs, key : RowNames, rec : SubRec,
          position : {"", "top", "bottom"}, pos : Positions]

\* The types of the variables.
TypeOK ==
    /\ IsTable(subs, RowNames, SubRec)
    /\ nextId \in Nat
    /\ h \in [Procs -> Local]
    /\ IsTable(todo, RowNames, SubRec)
    /\ asked \in Nat

\* A record belongs to one type: local ones have content and neither link,
\* schedule nor snapshot, remote ones have a link and no content
\* (validateAndNormalizeSubBody and the switch in handlePatchSub).
OneType(rec) ==
    IF rec.source = "local"
    THEN rec.content # "" /\ rec.url = "" /\ rec.cron = "" /\ rec.cached = NoLink
    ELSE rec.content = "" /\ rec.url # ""

\* Whatever edits, type switches, refreshes and scheduler passes interleave
\* and write each other's stale copies back, every stored subscription is
\* well-formed for its type, and no name in the table contains a slash.
SubsWellFormed ==
    \A n \in DOMAIN subs : n \notin Slashed /\ OneType(subs[n].rec)

\* "a failed refresh can never serve stale nodes" (handlePatchSub): what a
\* download of a stored subscription serves is its own content, or nodes that
\* were fetched from exactly the url and User-Agent that the record has now.
ServesOwnLink ==
    \A n \in DOMAIN subs :
        LET rec == subs[n].rec IN
        IF rec.source = "local" THEN Served(rec).from = "content"
        ELSE Served(rec).from # "content" /\ Served(rec).link = LinkOf(rec)

\* renameEntity: "renaming an item must not move it to the bottom of the list",
\* and ON CONFLICT leaves pos alone: two subscriptions that are both there
\* before and after a step stay in the same order in the list.
ListOrderStable == [][KeepsOrder(subs, subs')]_vars

\* A row leaves the table only by the transaction of a DELETE for that name:
\* no rename, overwrite, refresh or restart loses a subscription.
RowsLeaveOnlyByDelete ==
    [][\A n \in DOMAIN subs :
          subs[n].id \notin {r.id : r \in Rows(subs')} =>
             \E p \in Procs : h[p].pc = "del" /\ h[p].key = n]_vars

\* The document of a row carries the row's own name, so that a refresh, which
\* is stored under the name in the document, reaches the row it was read from.
KeyMatchesRecord == \A n \in DOMAIN subs : subs[n].rec.name = n

\* The comment on refreshRemoteSubCache: the cache write "doesn't clobber
\* concurrent field edits": of a stored record it changes the snapshot only.
CacheWriteOnlyTouchesCache ==
    [][\A p \in Procs :
          SaveCache(p) =>
             \A n \in DOMAIN subs :
                n \in DOMAIN subs' /\ subs'[n].rec = [subs[n].rec EXCEPT
                                          !.cached = subs'[n].rec.cached]]_vars
=============================================================================
