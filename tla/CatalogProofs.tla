--------------------------- MODULE CatalogProofs ----------------------------
(***************************************************************************)
(* Proofs about Subscriptions, Collections and their composition Catalog,  *)
(* for any number of handlers, names, links, bodies and requests.          *)
(*                                                                         *)
(* Neither SubsWellFormed nor ServesOwnLink is inductive: a process writes *)
(* back a record it read earlier.  The invariant Inv says the same of      *)
(* every record a process may still write, of the scheduler's snapshot,    *)
(* and that only records of remote subscriptions are being refreshed.      *)
(*                                                                         *)
(* The rewrites of the references upsert every document under the name it  *)
(* carries, so what they do to a collection follows from ColInv: every     *)
(* document, and every one that a handler is about to write, carries the   *)
(* name of its row.                                                        *)
(***************************************************************************)
EXTENDS Catalog, Lemmas, FiniteSetTheorems

-----------------------------------------------------------------------------
(* Subscriptions.                                                          *)

\* A record that may be stored: of one type, with no snapshot or one that was
\* fetched from the record's own link.
GoodRec(rec) ==
    /\ rec \in SubRec
    /\ rec.name \notin Slashed
    /\ OneType(rec)
    /\ rec.cached \in {NoLink, LinkOf(rec)}

GoodTable(t) ==
    /\ IsTable(t, RowNames, SubRec)
    /\ \A n \in DOMAIN t : n \notin Slashed /\ GoodRec(t[n].rec)

GoodLocal(s) ==
    /\ s \in Local
    /\ s.key \notin Slashed
    /\ s.pc \notin {"idle", "del"} => GoodRec(s.rec)
    /\ s.pc \in {"fetch", "cachePos", "cacheWrite"} => s.rec.source = "remote"

Inv ==
    /\ GoodTable(subs)
    /\ GoodTable(todo)
    /\ nextId \in Nat
    /\ DistinctIds(subs, nextId)
    /\ asked \in Nat
    /\ DOMAIN h = Procs /\ h = [p \in Procs |-> h[p]]
    /\ \A p \in Procs : GoodLocal(h[p])

-----------------------------------------------------------------------------
(* The records the handlers compute.                                       *)

\* What POST stores for a body that passed the checks is a good record.
LEMMA CreatedGood ==
    ASSUME NEW body \in CreateBody, ValidSub(body), body.name \notin Slashed
    PROVE  GoodRec(Created(body))
BY DEF CreateBody, ValidSub, GoodRec, Created, NormalizeSub, SubRec, OneType,
       NoLink, Link, LinkOf, RowNames, Url, UA

\* A merged field has a value of the record or of the body.
LEMMA SentType ==
    ASSUME NEW S, NEW value \in S \cup {Absent}, NEW old \in S
    PROVE  Sent(value, old) \in S
BY DEF Sent

\* The fields of a merged document come from the record or from the body.
LEMMA MergedFields ==
    ASSUME NEW old \in SubRec, NEW body \in PatchBody
    PROVE  /\ BeforeNormalize(old, body) \in
                 [name : RowNames, source : {"", "local", "remote", "other"},
                  url : Url, ua : UA, content : {"", "text"},
                  cron : {"", "valid", "invalid"}, cached : Link]
           /\ BeforeNormalize(old, body).name = Sent(body.name, old.name)
           /\ BeforeNormalize(old, body).cached \in {old.cached, NoLink}
           /\ body.source = Absent => BeforeNormalize(old, body).source = old.source
           /\ body.source # Absent => BeforeNormalize(old, body).source = body.source
           /\ body.source = "local" => BeforeNormalize(old, body).cached = NoLink
<1> DEFINE Doc == [name : RowNames, source : {"", "local", "remote", "other"},
                   url : Url, ua : UA, content : {"", "text"},
                   cron : {"", "valid", "invalid"}, cached : Link]
           m == Merged(old, body)
<1>1. /\ Sent(body.name, old.name) \in RowNames
      /\ Sent(body.source, old.source) \in {"", "local", "remote", "other"}
      /\ Sent(body.url, old.url) \in Url
      /\ Sent(body.ua, old.ua) \in UA
      /\ Sent(body.content, old.content) \in {"", "text"}
      /\ Sent(body.cron, old.cron) \in {"", "valid", "invalid"}
      /\ Sent(body.url, "") \in Url
      /\ Sent(body.content, "") \in {"", "text"}
  <2>1. /\ old.name \in RowNames /\ old.url \in Url /\ old.ua \in UA
        /\ old.source \in {"", "local", "remote", "other"}
        /\ old.content \in {"", "text"}
        /\ old.cron \in {"", "valid", "invalid"}
    BY DEF SubRec
  <2>2. /\ body.name \in RowNames \cup {Absent}
        /\ body.source \in {"", "local", "remote", "other"} \cup {Absent}
        /\ body.url \in Url \cup {Absent}
        /\ body.ua \in UA \cup {Absent}
        /\ body.content \in {"", "text"} \cup {Absent}
        /\ body.cron \in {"", "valid", "invalid"} \cup {Absent}
    BY DEF PatchBody
  <2>3. "" \in Url /\ "" \in {"", "text"}
    BY DEF Url
  <2> HIDE DEF Doc, m
  <2>4. Sent(body.name, old.name) \in RowNames
    BY <2>1, <2>2, SentType
  <2>5. Sent(body.url, old.url) \in Url
    BY <2>1, <2>2, SentType
  <2>6. Sent(body.ua, old.ua) \in UA
    BY <2>1, <2>2, SentType
  <2>7. Sent(body.url, "") \in Url
    BY <2>2, <2>3 DEF Sent
  <2>8. Sent(body.source, old.source) \in {"", "local", "remote", "other"}
    <3>1. CASE body.source = Absent
      BY <3>1, <2>1 DEF Sent
    <3>2. CASE body.source # Absent
      BY <3>2, <2>2 DEF Sent
    <3> QED
      BY <3>1, <3>2
  <2>9. /\ Sent(body.content, old.content) \in {"", "text"}
        /\ Sent(body.content, "") \in {"", "text"}
    BY <2>1, <2>2, <2>3, SentType
  <2>10. Sent(body.cron, old.cron) \in {"", "valid", "invalid"}
    BY <2>1, <2>2, SentType
  <2> QED
    BY <2>4, <2>5, <2>6, <2>7, <2>8, <2>9, <2>10
<1>2. /\ m \in Doc
      /\ m.name = Sent(body.name, old.name)
      /\ m.source = Sent(body.source, old.source)
      /\ m.cached = old.cached
  BY <1>1 DEF Merged, SubRec
<1> HIDE DEF m
<1>3. /\ SwitchSource(m, body) \in Doc
      /\ SwitchSource(m, body).name = m.name
      /\ SwitchSource(m, body).source = m.source
      /\ SwitchSource(m, body).cached \in {m.cached, NoLink}
      /\ body.source = "local" => SwitchSource(m, body).cached = NoLink
  <2>1. NoLink \in Link
    BY DEF NoLink, Link, Url, UA
  <2>2. CASE body.source = "local"
    BY <2>1, <2>2, <1>1, <1>2 DEF SwitchSource, Url
  <2>3. CASE body.source = "remote"
    BY <2>3, <1>1, <1>2 DEF SwitchSource
  <2>4. CASE body.source \notin {"local", "remote"}
    <3>1. SwitchSource(m, body) = m
      BY <2>4 DEF SwitchSource
    <3> QED
      BY <3>1, <2>4, <1>2
  <2> QED
    BY <2>2, <2>3, <2>4
<1>4. BeforeNormalize(old, body) = SwitchSource(m, body)
  BY DEF BeforeNormalize, m
<1> QED
  BY <1>2, <1>3, <1>4 DEF Sent

\* What PATCH writes back for a good record is a good record again: a snapshot
\* survives only an edit that keeps type, url and User-Agent.
LEMMA PatchedGood ==
    ASSUME NEW old, GoodRec(old), NEW body \in PatchBody,
           ValidSub(BeforeNormalize(old, body)),
           Sent(body.name, old.name) \notin Slashed
    PROVE  /\ GoodRec(Patched(old, body))
           /\ Patched(old, body).name = Sent(body.name, old.name)
<1> DEFINE m == BeforeNormalize(old, body)
           n == NormalizeSub(m)
<1>1. old \in SubRec
  BY DEF GoodRec
<1>2. /\ m \in [name : RowNames, source : {"", "local", "remote", "other"},
                url : Url, ua : UA, content : {"", "text"},
                cron : {"", "valid", "invalid"}, cached : Link]
      /\ m.name = Sent(body.name, old.name)
      /\ m.cached \in {old.cached, NoLink}
      /\ body.source = Absent => m.source = old.source
      /\ body.source = "local" => m.cached = NoLink
      /\ body.source # Absent => m.source = body.source
  BY <1>1, MergedFields
<1> HIDE DEF m
<1>3. ValidSub(m)
  BY DEF m
<1>4. /\ n \in SubRec
      /\ n.name = m.name
      /\ n.cached = m.cached
      /\ IF n.source = "local"
         THEN m.source = "local" /\ n.content # "" /\ n.url = "" /\ n.cron = ""
         ELSE n.content = "" /\ n.url # ""
  BY <1>2, <1>3 DEF ValidSub, NormalizeSub, SubRec, Url
<1> HIDE DEF n
<1>5. n.source = "local" => n.cached = NoLink
  <2> SUFFICES ASSUME n.source = "local" PROVE n.cached = NoLink
    OBVIOUS
  <2>1. CASE body.source = Absent
    BY <2>1, <1>2, <1>4 DEF GoodRec, OneType
  <2>2. CASE body.source # Absent
    BY <2>2, <1>2, <1>4
  <2> QED
    BY <2>1, <2>2
<1>6. Patched(old, body) = DropStaleCache(old, n)
  BY DEF Patched, n, m
<1>7. /\ DropStaleCache(old, n) \in SubRec
      /\ DropStaleCache(old, n).name = n.name
      /\ OneType(DropStaleCache(old, n))
  BY <1>4, <1>5 DEF DropStaleCache, SubRec, OneType, NoLink, Link, Url, UA
<1>8. DropStaleCache(old, n).cached \in {NoLink, LinkOf(DropStaleCache(old, n))}
  <2>1. CASE n.source = "remote" /\ n.url = old.url /\ n.ua = old.ua
             /\ old.source = "remote"
    <3>1. DropStaleCache(old, n) = n
      BY <2>1 DEF DropStaleCache
    <3>2. n.cached \in {NoLink, LinkOf(old)} /\ LinkOf(old) = LinkOf(n)
      BY <2>1, <1>2, <1>4 DEF GoodRec, LinkOf
    <3> QED
      BY <3>1, <3>2
  <2>2. CASE n.source = "local"
    BY <2>2, <1>5 DEF DropStaleCache
  <2>3. CASE n.source = "remote" /\ ~ (n.url = old.url /\ n.ua = old.ua
                                       /\ old.source = "remote")
    BY <2>3, <1>4 DEF DropStaleCache, SubRec
  <2> QED
    BY <2>1, <2>2, <2>3, <1>4 DEF SubRec
<1> QED
  BY <1>2, <1>4, <1>6, <1>7, <1>8 DEF GoodRec

\* Putting the content downloaded from a remote record's own link into that
\* record keeps it good, and so does an empty download.
LEMMA RefreshedGood ==
    ASSUME NEW rec, GoodRec(rec), rec.source = "remote",
           NEW link \in {NoLink, LinkOf(rec)}
    PROVE  /\ GoodRec([rec EXCEPT !.cached = link])
           /\ [rec EXCEPT !.cached = link].source = "remote"
           /\ [rec EXCEPT !.cached = link].name = rec.name
<1> DEFINE new == [rec EXCEPT !.cached = link]
<1>1. rec \in SubRec /\ link \in Link
  <2>1. rec \in SubRec /\ rec.url \in Url /\ rec.ua \in UA
    BY DEF GoodRec, SubRec
  <2>2. NoLink \in Link
    BY DEF NoLink, Link, Url, UA
  <2>3. LinkOf(rec) \in Link
    BY <2>1 DEF LinkOf, Link
  <2> QED
    BY <2>1, <2>2, <2>3
<1>2. /\ new \in SubRec
      /\ new.name = rec.name /\ new.source = "remote" /\ new.url = rec.url
      /\ new.ua = rec.ua /\ new.content = rec.content /\ new.cached = link
  BY <1>1 DEF SubRec
<1> HIDE DEF new
<1>3. LinkOf(new) = LinkOf(rec)
  BY <1>2 DEF LinkOf
<1>4. OneType(new)
  BY <1>2 DEF GoodRec, OneType
<1>5. GoodRec(new)
  BY <1>2, <1>3, <1>4 DEF GoodRec
<1> QED
  BY <1>2, <1>5 DEF new

-----------------------------------------------------------------------------
(* The steps of a process.                                                 *)

\* The state of a process with nothing under way, and of one that starts to
\* fetch for a record.
LEMMA IdleGood ==
    /\ GoodLocal(Idle)
    /\ \A rec : GoodRec(rec) /\ rec.source = "remote" =>
          GoodLocal(Fetching(rec))
    /\ \A name \in RowNames \ Slashed : GoodLocal(State("del", name, NoRec, "", 0))
<1>1. NoRec \in SubRec
  BY DEF NoRec, SubRec, NoLink, Link, Url, UA, RowNames
<1>2. "" \in RowNames \ Slashed
  BY SubsAssumptions DEF RowNames
<1>3. 0 \in Positions
  BY PosBoundAssumption DEF Positions
<1> QED
  BY <1>1, <1>2, <1>3 DEF GoodLocal, Idle, Fetching, State, Local, PCs, GoodRec

\* A process that holds a good record for a good key, on its way to a write.
LEMMA WritingGood ==
    ASSUME NEW pc \in {"dup", "rename", "pos", "write"}, NEW key \in RowNames \ Slashed,
           NEW rec, GoodRec(rec), NEW position \in {"", "top", "bottom"},
           NEW pos \in Positions
    PROVE  GoodLocal(State(pc, key, rec, position, pos))
BY DEF GoodLocal, State, Local, PCs, GoodRec

\* What follows a save.
LEMMA AfterSaveGood ==
    ASSUME NEW s, GoodLocal(s), s.pc \notin {"idle", "del"}
    PROVE  GoodLocal(AfterSave(s))
BY IdleGood DEF AfterSave, GoodLocal

\* A step that only moves process p keeps the invariant if p's new state is good.
LEMMA MoveKeepsLocals ==
    ASSUME Inv, NEW p \in Procs, NEW s, GoodLocal(s), h' = [h EXCEPT ![p] = s]
    PROVE  /\ DOMAIN h' = Procs /\ h' = [q \in Procs |-> h'[q]]
           /\ \A q \in Procs : GoodLocal(h'[q])
BY DEF Inv

\* Writing a good record under a good key keeps the table good.
LEMMA UpsertGood ==
    ASSUME NEW t, GoodTable(t), NEW name \in RowNames \ Slashed, NEW rec, GoodRec(rec),
           NEW pos \in Positions, NEW id \in Nat
    PROVE  GoodTable(Upsert(t, name, rec, pos, id))
<1>1. rec \in SubRec /\ IsTable(t, RowNames, SubRec) /\ name \in RowNames
  BY DEF GoodRec, GoodTable
<1> DEFINE u == Upsert(t, name, rec, pos, id)
<1>2. /\ IsTable(u, RowNames, SubRec)
      /\ DOMAIN u = DOMAIN t \cup {name}
      /\ u[name].rec = rec
      /\ \A n \in DOMAIN t \ {name} : u[n] = t[n]
  BY <1>1 DEF Upsert, IsTable
<1> HIDE DEF u
<1>3. \A n \in DOMAIN u : n \notin Slashed /\ GoodRec(u[n].rec)
  BY <1>2 DEF GoodTable
<1>4. GoodTable(u)
  BY <1>2, <1>3 DEF GoodTable
<1> QED
  BY <1>4 DEF u

\* Moving a row to a free good name with a good record does too.
LEMMA RenameGood ==
    ASSUME NEW t, GoodTable(t), NEW old, NEW new \in RowNames \ Slashed,
           NEW rec, GoodRec(rec), ~ RenameConflict(t, old, new)
    PROVE  GoodTable(RenameRow(t, old, new, rec))
<1>1. CASE old \notin DOMAIN t
  <2>1. RenameRow(t, old, new, rec) = t
    BY <1>1 DEF RenameRow
  <2> QED
    BY <2>1
<1>2. CASE old \in DOMAIN t
  <2> DEFINE u == RenameRow(t, old, new, rec)
  <2>1. rec \in SubRec /\ IsTable(t, RowNames, SubRec) /\ new \in RowNames
    BY DEF GoodRec, GoodTable
  <2>2. /\ IsTable(u, RowNames, SubRec)
        /\ DOMAIN u = (DOMAIN t \ {old}) \cup {new}
        /\ u[new].rec = rec
        /\ \A n \in DOMAIN t \ {old, new} : u[n] = t[n]
    BY <1>2, <2>1 DEF RenameRow, IsTable
  <2> HIDE DEF u
  <2>3. \A n \in DOMAIN u : n \notin Slashed /\ GoodRec(u[n].rec)
    BY <2>2 DEF GoodTable
  <2>4. GoodTable(u)
    BY <2>2, <2>3 DEF GoodTable
  <2> QED
    BY <2>4 DEF u
<1> QED
  BY <1>1, <1>2

\* And so does a deletion.
LEMMA DeleteGood ==
    ASSUME NEW t, GoodTable(t), NEW name
    PROVE  GoodTable(DeleteRow(t, name))
BY DEF GoodTable, DeleteRow, IsTable

-----------------------------------------------------------------------------
(* The invariant.                                                          *)

\* The invariant holds at the start.
LEMMA InitInv == Init => Inv
<1> SUFFICES ASSUME Init PROVE Inv
  OBVIOUS
<1>1. GoodTable(EmptyTable) /\ DistinctIds(EmptyTable, 1)
  BY DEF GoodTable, EmptyTable, IsTable, DistinctIds
<1> QED
  BY <1>1, IdleGood DEF Init, Inv

\* The requests: what a handler takes away from its first read is good.
LEMMA ArriveInv ==
    ASSUME Inv, NEW p \in Handlers, Arrive(p)
    PROVE  Inv'
<1>1. ASSUME NEW s, GoodLocal(s), Begin(p, s) PROVE Inv'
  <2>1. p \in Procs /\ h' = [h EXCEPT ![p] = s]
    BY <1>1 DEF Begin, Procs
  <2>2. /\ DOMAIN h' = Procs /\ h' = [q \in Procs |-> h'[q]]
        /\ \A q \in Procs : GoodLocal(h'[q])
    BY <1>1, <2>1, MoveKeepsLocals
  <2> QED
    BY <1>1, <2>2 DEF Begin, Inv
<1>2. ASSUME NEW name \in DOMAIN subs
      PROVE  name \in RowNames \ Slashed /\ GoodRec(subs[name].rec)
  BY <1>2 DEF Inv, GoodTable, IsTable
<1>3. 0 \in Positions
  BY PosBoundAssumption DEF Positions
<1>4. ASSUME NEW body \in CreateBodies, handleCreateSub(p, body) PROVE Inv'
  <2>1. body \in CreateBody /\ body.name \in Names
    BY SubsAssumptions DEF CreateBody
  <2>2. TrimSpace[body.name] \in RowNames \ Slashed /\ body.name \notin Slashed
    BY <2>1, <1>4, SubsAssumptions DEF handleCreateSub
  <2>3. GoodRec(Created(body)) /\ body.position \in {"", "top", "bottom"}
    BY <2>1, <2>2, <1>4, CreatedGood DEF handleCreateSub, CreateBody
  <2>4. GoodLocal(State("pos", TrimSpace[body.name], Created(body), body.position, 0))
    BY <2>2, <2>3, <1>3, WritingGood
  <2> QED
    BY <2>4, <1>4, <1>1 DEF handleCreateSub
<1>5. ASSUME NEW name \in RowNames, NEW body \in PatchBodies, handlePatchSub(p, name, body)
      PROVE  Inv'
  <2> DEFINE old == subs[name].rec
             pc == IF NewName(name, body) # name THEN "dup" ELSE "pos"
  <2>1. body \in PatchBody /\ name \in RowNames \ Slashed /\ GoodRec(old)
    BY <1>5, <1>2, SubsAssumptions DEF handlePatchSub
  <2>2. Sent(body.name, old.name) \notin Slashed
    <3>1. CASE body.name = Absent
      BY <3>1, <2>1 DEF Sent, GoodRec
    <3>2. CASE body.name = ""
      <4>1. "" # Absent /\ "" \notin Slashed
        BY SubsAssumptions
      <4> QED
        BY <3>2, <4>1 DEF Sent
    <3>3. CASE body.name \notin {Absent, ""}
      BY <3>3, <2>1, <1>5 DEF Sent, NewName, handlePatchSub
    <3> QED
      BY <3>1, <3>2, <3>3
  <2>3. ValidSub(BeforeNormalize(old, body))
    BY <1>5 DEF handlePatchSub
  <2>4. GoodRec(Patched(old, body))
    BY <2>1, <2>2, <2>3, PatchedGood
  <2>5. pc \in {"dup", "rename", "pos", "write"} /\ "bottom" \in {"", "top", "bottom"}
    OBVIOUS
  <2> HIDE DEF pc
  <2>6. GoodLocal(State(pc, name, Patched(old, body), "bottom", 0))
    BY <2>1, <2>4, <2>5, <1>3, WritingGood
  <2> QED
    BY <2>6, <1>5, <1>1 DEF handlePatchSub, pc
<1>6. ASSUME NEW name \in RowNames, handleUpdateSub(p, name) PROVE Inv'
  BY <1>6, <1>1, <1>2, IdleGood DEF handleUpdateSub
<1>7. ASSUME NEW name \in RowNames, handleDeleteSub(p, name) PROVE Inv'
  BY <1>7, <1>1, <1>2, IdleGood DEF handleDeleteSub
<1> QED
  BY <1>4, <1>5, <1>6, <1>7 DEF Arrive


\* The later steps of a process: what it writes it has carried since its read.
LEMMA StepInv ==
    ASSUME Inv, NEW p \in Procs, LocalStep(p) \/ RenameTx(p) \/ DeleteTx(p)
    PROVE  Inv'
<1> DEFINE s == h[p]
<1>1. /\ GoodLocal(s) /\ s.key \in RowNames \ Slashed /\ s.pos \in Positions
      /\ s.position \in {"", "top", "bottom"}
      /\ s.pc \notin {"idle", "del"} => GoodRec(s.rec)
  BY DEF Inv, GoodLocal, Local
<1>2. ASSUME NEW r, GoodLocal(r), Continue(p, r)
      PROVE  /\ DOMAIN h' = Procs /\ h' = [q \in Procs |-> h'[q]]
             /\ \A q \in Procs : GoodLocal(h'[q])
  BY <1>2, MoveKeepsLocals DEF Continue
<1>3. ASSUME NEW r, GoodLocal(r), Continue(p, r), UNCHANGED <<subs, nextId, todo, asked>>
      PROVE  Inv'
  <2>1. /\ DOMAIN h' = Procs /\ h' = [q \in Procs |-> h'[q]]
        /\ \A q \in Procs : GoodLocal(h'[q])
    BY <1>2, <1>3
  <2> QED
    BY <2>1, <1>3 DEF Inv
<1>4. ASSUME NEW r, GoodLocal(r), Continue(p, r), WriteSub(p), GoodRec(s.rec)
      PROVE  Inv'
  <2>1. /\ DOMAIN h' = Procs /\ h' = [q \in Procs |-> h'[q]]
        /\ \A q \in Procs : GoodLocal(h'[q])
    BY <1>2, <1>4
  <2>2. GoodTable(subs) /\ nextId \in Nat /\ DistinctIds(subs, nextId)
    BY DEF Inv
  <2>3. GoodTable(Upsert(subs, s.key, s.rec, s.pos, nextId))
    BY <2>2, <1>1, <1>4, UpsertGood
  <2>4. IsTable(subs, RowNames, SubRec) /\ s.rec \in SubRec /\ s.key \in RowNames
    BY <2>2, <1>1, <1>4 DEF GoodTable, GoodRec
  <2>5. DistinctIds(Upsert(subs, s.key, s.rec, s.pos, nextId),
                    NextId(subs, s.key, nextId))
    BY <2>2, <2>4, <1>1, UpsertOrder
  <2>6. NextId(subs, s.key, nextId) \in Nat
    BY <2>2 DEF NextId
  <2> QED
    BY <2>1, <2>3, <2>5, <2>6, <1>4 DEF WriteSub, Inv
<1>5. CASE DupCheck(p)
  <2>1. GoodLocal([h[p] EXCEPT !.pc = "rename"])
    BY <1>5, <1>1 DEF DupCheck, GoodLocal, Local, PCs
  <2> QED
    BY <2>1, <1>5, <1>3, IdleGood DEF DupCheck
<1>6. CASE RenameTx(p)
  <2>1. CASE RenameConflict(subs, s.key, s.rec.name)
    BY <2>1, <1>6, <1>3, IdleGood DEF RenameTx
  <2>2. CASE ~ RenameConflict(subs, s.key, s.rec.name)
    <3>1. s.pc = "rename" /\ GoodRec(s.rec)
      BY <1>6, <1>1 DEF RenameTx
    <3>2. s.rec \in SubRec /\ s.rec.name \in RowNames \ Slashed
      BY <3>1 DEF GoodRec, SubRec
    <3>3. GoodTable(subs) /\ IsTable(subs, RowNames, SubRec) /\ nextId \in Nat
          /\ DistinctIds(subs, nextId)
      BY DEF Inv, GoodTable
    <3>4. GoodTable(RenameRow(subs, s.key, s.rec.name, s.rec))
      BY <2>2, <3>1, <3>2, <3>3, RenameGood
    <3>5. DistinctIds(RenameRow(subs, s.key, s.rec.name, s.rec), nextId)
      <4>1. s.rec.name \in RowNames
        BY <3>2
      <4> QED
        BY <2>2, <3>2, <3>3, <4>1, RenameOrder
    <3>6. GoodLocal(AfterSave(s))
      BY <3>1, <1>1, AfterSaveGood
    <3>7. /\ DOMAIN h' = Procs /\ h' = [q \in Procs |-> h'[q]]
          /\ \A q \in Procs : GoodLocal(h'[q])
      BY <3>6, <2>2, <1>6, <1>2 DEF RenameTx
    <3> QED
      BY <3>4, <3>5, <3>7, <2>2, <1>6 DEF RenameTx, Inv
  <2> QED
    BY <2>1, <2>2
<1>7. CASE DeleteTx(p)
  <2>1. GoodTable(subs) /\ IsTable(subs, RowNames, SubRec) /\ nextId \in Nat
        /\ DistinctIds(subs, nextId)
    BY DEF Inv, GoodTable
  <2>2. GoodTable(DeleteRow(subs, s.key))
    BY <2>1, DeleteGood
  <2>3. DistinctIds(DeleteRow(subs, s.key), nextId)
    BY <2>1, DeleteOrder
  <2>4. /\ DOMAIN h' = Procs /\ h' = [q \in Procs |-> h'[q]]
        /\ \A q \in Procs : GoodLocal(h'[q])
    BY <1>7, <1>2, IdleGood DEF DeleteTx
  <2> QED
    BY <2>2, <2>3, <2>4, <1>7 DEF DeleteTx, Inv
<1>8. CASE UpsertPos(p)
  <2>1. PICK q \in Positions :
           Continue(p, State(IF h[p].pc = "pos" THEN "write" ELSE "cacheWrite",
                             h[p].key, h[p].rec, h[p].position, q))
    BY <1>8 DEF UpsertPos
  <2>2. GoodLocal(State(IF h[p].pc = "pos" THEN "write" ELSE "cacheWrite",
                        h[p].key, h[p].rec, h[p].position, q))
    BY <1>8, <1>1 DEF UpsertPos, GoodLocal, Local, PCs, State
  <2> QED
    BY <2>1, <2>2, <1>8, <1>3 DEF UpsertPos
<1>9. CASE UpsertSub(p)
  <2>1. s.pc = "write" /\ GoodRec(s.rec) /\ GoodLocal(AfterSave(s))
    BY <1>9, <1>1, AfterSaveGood DEF UpsertSub
  <2> QED
    BY <2>1, <1>9, <1>4 DEF UpsertSub
<1>10. CASE FetchLive(p)
  <2>1. GoodRec(s.rec) /\ s.rec.source = "remote"
    BY <1>10, <1>1 DEF FetchLive, GoodLocal
  <2>2. CASE Continue(p, Idle)
    BY <2>2, <1>10, <1>3, IdleGood DEF FetchLive
  <2>3. ASSUME NEW link \in {NoLink, LinkOf(s.rec)},
               Continue(p, State("cachePos", s.rec.name,
                                 [s.rec EXCEPT !.cached = link], "bottom", 0))
        PROVE  Inv'
    <3> DEFINE new == [s.rec EXCEPT !.cached = link]
    <3>1. GoodRec(new) /\ new.source = "remote"
      BY <2>1, RefreshedGood
    <3>2. s.rec.name \in RowNames \ Slashed /\ 0 \in Positions
      <4>1. s.rec.name \in RowNames \ Slashed
        BY <2>1 DEF GoodRec, SubRec
      <4>2. 0 \in Positions
        BY PosBoundAssumption DEF Positions
      <4> QED
        BY <4>1, <4>2
    <3> HIDE DEF new
    <3>3. new \in SubRec
      BY <3>1 DEF GoodRec
    <3>4. GoodLocal(State("cachePos", s.rec.name, new, "bottom", 0))
      BY <3>1, <3>2, <3>3 DEF GoodLocal, State, Local, PCs
    <3> QED
      BY <3>4, <2>3, <1>10, <1>3 DEF FetchLive, new
  <2> QED
    BY <2>2, <2>3, <1>10 DEF FetchLive
<1>11. CASE SaveCache(p)
  <2>1. GoodRec(s.rec)
    BY <1>11, <1>1 DEF SaveCache
  <2> QED
    BY <2>1, <1>11, <1>4, IdleGood DEF SaveCache
<1>12. CASE DBError(p)
  BY <1>12, <1>3, IdleGood DEF DBError
<1> QED
  BY <1>5, <1>6, <1>7, <1>8, <1>9, <1>10, <1>11, <1>12 DEF LocalStep

\* The scheduler's snapshot is a good table, and it starts to refresh remote
\* records only; a restart leaves the database as it is.
LEMMA SchedulerInv ==
    ASSUME Inv, tick \/ tickNext \/ Restart
    PROVE  Inv'
<1>1. CASE tick
  BY <1>1 DEF tick, Inv
<1>2. CASE tickNext
  <2>1. PICK n \in DOMAIN todo :
           /\ todo' = DeleteRow(todo, n)
           /\ \/ UNCHANGED h
              \/ /\ todo[n].rec.source = "remote"
                 /\ Continue(Sched, Fetching(todo[n].rec))
    BY <1>2 DEF tickNext
  <2>2. GoodTable(todo') /\ GoodRec(todo[n].rec)
    BY <2>1, DeleteGood DEF Inv, GoodTable
  <2>3. /\ DOMAIN h' = Procs /\ h' = [q \in Procs |-> h'[q]]
        /\ \A q \in Procs : GoodLocal(h'[q])
    <3>1. CASE UNCHANGED h
      BY <3>1 DEF Inv
    <3>2. CASE todo[n].rec.source = "remote" /\ Continue(Sched, Fetching(todo[n].rec))
      <4>1. GoodLocal(Fetching(todo[n].rec)) /\ Sched \in Procs
        BY <3>2, <2>2, IdleGood DEF Procs
      <4> QED
        BY <4>1, <3>2, MoveKeepsLocals DEF Continue
    <3> QED
      BY <3>1, <3>2, <2>1
  <2> QED
    BY <2>2, <2>3, <1>2 DEF tickNext, Inv
<1>3. CASE Restart
  <2>1. GoodTable(EmptyTable)
    BY DEF GoodTable, EmptyTable, IsTable
  <2> QED
    BY <2>1, <1>3, IdleGood DEF Restart, Inv
<1> QED
  BY <1>1, <1>2, <1>3

\* Every step of a handler or of the scheduler keeps it.
LEMMA NextInv == Inv /\ [Next]_vars => Inv'
<1> SUFFICES ASSUME Inv, [Next]_vars PROVE Inv'
  OBVIOUS
<1>1. CASE Next
  BY <1>1, ArriveInv, StepInv, SchedulerInv DEF Next
<1>2. CASE UNCHANGED vars
  BY <1>2 DEF vars, Inv
<1> QED
  BY <1>1, <1>2

\* The inductive invariant holds in every state the server can reach.
THEOREM Invariance == Spec => []Inv
BY InitInv, NextInv, PTL DEF Spec

\* The variables keep their types, whatever the constants are.
THEOREM TypeCorrect == Spec => []TypeOK
<1>1. Inv => TypeOK
  BY DEF Inv, TypeOK, GoodTable, GoodLocal
<1> QED
  BY <1>1, Invariance, PTL

\* Every stored subscription is well-formed for its type (SubsWellFormed).
THEOREM AlwaysWellFormed == Spec => []SubsWellFormed
<1>1. Inv => SubsWellFormed
  BY DEF Inv, SubsWellFormed, GoodTable, GoodRec
<1> QED
  BY <1>1, Invariance, PTL

\* What a download serves always belongs to the link the record has now
\* (ServesOwnLink).
THEOREM NeverStaleNodes == Spec => []ServesOwnLink
<1>1. ASSUME Inv PROVE ServesOwnLink
  <2>1. ASSUME NEW n \in DOMAIN subs
        PROVE  LET rec == subs[n].rec IN
               IF rec.source = "local" THEN Served(rec).from = "content"
               ELSE Served(rec).from # "content" /\ Served(rec).link = LinkOf(rec)
    <3> DEFINE rec == subs[n].rec
    <3>1. OneType(rec) /\ rec.cached \in {NoLink, LinkOf(rec)}
      BY <1>1, <2>1 DEF Inv, GoodTable, GoodRec
    <3> HIDE DEF rec
    <3>2. CASE rec.source = "local"
      BY <3>1, <3>2 DEF OneType, Served, rec
    <3>3. CASE rec.source # "local" /\ rec.cached = NoLink
      BY <3>1, <3>3 DEF OneType, Served, rec
    <3>4. CASE rec.source # "local" /\ rec.cached # NoLink
      BY <3>1, <3>4 DEF OneType, Served, rec
    <3> QED
      BY <3>2, <3>3, <3>4
  <2> QED
    BY <2>1 DEF ServesOwnLink
<1> QED
  BY <1>1, Invariance, PTL


-----------------------------------------------------------------------------
(* What a step may never do.                                               *)

\* A table that is not written keeps its rows and their order.
LEMMA UnchangedOrder ==
    ASSUME Inv, subs' = subs
    PROVE  KeepsOrder(subs, subs') /\ KeepsAllRows(subs, subs')
BY DEF KeepsOrder, KeepsAllRows, Before, Inv, DistinctIds

\* Only a rename, a deletion and the second half of an upsert write the table;
\* none of them reorders it, and only the deletion takes a row away.
LEMMA StepOrder ==
    ASSUME Inv, [Next]_vars
    PROVE  /\ KeepsOrder(subs, subs')
           /\ \/ KeepsAllRows(subs, subs')
              \/ \E p \in Procs : h[p].pc = "del" /\ KeepsRows(subs, subs', h[p].key)
<1>1. IsTable(subs, RowNames, SubRec) /\ nextId \in Nat /\ DistinctIds(subs, nextId)
  BY DEF Inv, GoodTable
<1>2. ASSUME NEW p \in Procs
      PROVE  /\ h[p].key \in RowNames /\ h[p].rec \in SubRec /\ h[p].pos \in Positions
             /\ h[p].rec.name \in RowNames
  BY <1>2 DEF Inv, GoodLocal, Local, SubRec
<1>3. ASSUME NEW p \in Procs, WriteSub(p)
      PROVE  KeepsOrder(subs, subs') /\ KeepsAllRows(subs, subs')
  <2>1. subs' = Upsert(subs, h[p].key, h[p].rec, h[p].pos, nextId)
    BY <1>3 DEF WriteSub
  <2> QED
    BY <2>1, <1>1, <1>2, UpsertOrder
<1>4. ASSUME NEW p \in Procs, RenameTx(p)
      PROVE  KeepsOrder(subs, subs') /\ KeepsAllRows(subs, subs')
  <2>1. CASE RenameConflict(subs, h[p].key, h[p].rec.name)
    BY <2>1, <1>4, UnchangedOrder DEF RenameTx
  <2>2. CASE ~ RenameConflict(subs, h[p].key, h[p].rec.name)
    <3>1. subs' = RenameRow(subs, h[p].key, h[p].rec.name, h[p].rec)
      BY <2>2, <1>4 DEF RenameTx
    <3> QED
      BY <3>1, <2>2, <1>1, <1>2, RenameOrder
  <2> QED
    BY <2>1, <2>2
<1>5. ASSUME NEW p \in Procs, DeleteTx(p)
      PROVE  /\ KeepsOrder(subs, subs')
             /\ h[p].pc = "del" /\ KeepsRows(subs, subs', h[p].key)
  <2>1. subs' = DeleteRow(subs, h[p].key) /\ h[p].pc = "del"
    BY <1>5 DEF DeleteTx
  <2> QED
    BY <2>1, <1>1, DeleteOrder
<1>6. ASSUME NEW p \in Procs, LocalStep(p)
      PROVE  KeepsOrder(subs, subs') /\ KeepsAllRows(subs, subs')
  <2>1. WriteSub(p) \/ subs' = subs
    BY <1>6 DEF LocalStep, DupCheck, UpsertPos, UpsertSub, FetchLive, SaveCache, DBError
  <2> QED
    BY <2>1, <1>3, UnchangedOrder
<1>7. ASSUME NEW p \in Handlers, Arrive(p)
      PROVE  subs' = subs
  BY <1>7 DEF Arrive, handleCreateSub, handlePatchSub, handleUpdateSub,
              handleDeleteSub, Begin
<1>8. tick \/ tickNext \/ Restart \/ UNCHANGED vars => subs' = subs
  BY DEF tick, tickNext, Restart, vars
<1> QED
  BY <1>4, <1>5, <1>6, <1>7, <1>8, UnchangedOrder DEF Next

\* The list of subscriptions is never reordered (ListOrderStable).
THEOREM OrderIsStable == Spec => ListOrderStable
<1>1. Inv /\ [Next]_vars => [KeepsOrder(subs, subs')]_vars
  BY StepOrder
<1> QED
  BY <1>1, Invariance, PTL DEF Spec, ListOrderStable

\* Only a DELETE takes a subscription away (RowsLeaveOnlyByDelete).
THEOREM NoRowLost == Spec => RowsLeaveOnlyByDelete
<1> DEFINE Step == \A n \in DOMAIN subs :
                      subs[n].id \notin {r.id : r \in Rows(subs')} =>
                         \E p \in Procs : h[p].pc = "del" /\ h[p].key = n
<1>1. ASSUME Inv, [Next]_vars PROVE Step
  <2>1. ASSUME NEW n \in DOMAIN subs, NEW k, KeepsRows(subs, subs', k), n # k
        PROVE  subs[n].id \in {r.id : r \in Rows(subs')}
    <3>1. PICK j \in DOMAIN subs' : subs'[j].id = subs[n].id
      BY <2>1 DEF KeepsRows
    <3> QED
      BY <3>1 DEF Rows
  <2>2. CASE KeepsAllRows(subs, subs')
    <3>1. ASSUME NEW n \in DOMAIN subs PROVE subs[n].id \in {r.id : r \in Rows(subs')}
      <4>1. PICK j \in DOMAIN subs' : subs'[j].id = subs[n].id
        BY <2>2 DEF KeepsAllRows
      <4> QED
        BY <4>1 DEF Rows
    <3> QED
      BY <3>1
  <2>3. CASE \E p \in Procs : h[p].pc = "del" /\ KeepsRows(subs, subs', h[p].key)
    BY <2>3, <2>1
  <2> QED
    BY <1>1, <2>2, <2>3, StepOrder
<1>2. Inv /\ [Next]_vars => [Step]_vars
  BY <1>1
<1> QED
  BY <1>2, Invariance, PTL DEF Spec, RowsLeaveOnlyByDelete


-----------------------------------------------------------------------------
(* Names.  When clients send names without blanks around them and never an *)
(* empty one, a row and its document agree on the name.                    *)

CleanNames ==
    /\ \A n \in Names : TrimSpace[n] = n
    /\ \A body \in PatchBodies : body.name # ""

NamedTable(t) == \A n \in DOMAIN t : t[n].rec.name = n

\* A process that is about to write without a rename writes to the row that
\* its record names.
NamedLocal(s) ==
    s.pc \in {"pos", "write", "cachePos", "cacheWrite"} => s.rec.name = s.key

NameInv ==
    /\ NamedTable(subs)
    /\ NamedTable(todo)
    /\ \A p \in Procs : NamedLocal(h[p])

\* The states in which a process holds no document to insert.
LEMMA NamedStates ==
    /\ NamedLocal(Idle)
    /\ \A rec : NamedLocal(Fetching(rec))
    /\ \A s : NamedLocal(AfterSave(s))
    /\ \A name : NamedLocal(State("del", name, NoRec, "", 0))
    /\ \A key, rec, position, pos : NamedLocal(State("dup", key, rec, position, pos))
BY DEF NamedLocal, Idle, Fetching, AfterSave, State

\* With clean names every step keeps documents and rows of one name.
LEMMA NameStep ==
    ASSUME CleanNames, Inv, NameInv, [Next]_vars
    PROVE  NameInv'
<1>1. ASSUME NEW p \in Procs, NEW s, NamedLocal(s), Continue(p, s)
      PROVE  \A q \in Procs : NamedLocal(h'[q])
  BY <1>1 DEF NameInv, Continue, Inv
<1>2. ASSUME NEW p \in Procs, NEW s, NamedLocal(s), Continue(p, s), UNCHANGED <<subs, todo>>
      PROVE  NameInv'
  BY <1>1, <1>2 DEF NameInv
<1>3. ASSUME NEW p \in Procs, NEW s, NamedLocal(s), Continue(p, s), WriteSub(p),
             h[p].rec.name = h[p].key
      PROVE  NameInv'
  <2>1. NamedTable(Upsert(subs, h[p].key, h[p].rec, h[p].pos, nextId))
    BY <1>3 DEF NameInv, NamedTable, Upsert, Inv, GoodTable, IsTable
  <2>2. subs' = Upsert(subs, h[p].key, h[p].rec, h[p].pos, nextId) /\ todo' = todo
    BY <1>3 DEF WriteSub
  <2> QED
    BY <2>1, <2>2, <1>1, <1>3 DEF NameInv, NamedTable
<1>4. ASSUME NEW p \in Handlers, Arrive(p) PROVE NameInv'
  <2>1. ASSUME NEW s, NamedLocal(s), Begin(p, s) PROVE NameInv'
    BY <2>1, <1>2 DEF Begin, Continue, Procs
  <2>2. ASSUME NEW body \in CreateBodies, handleCreateSub(p, body) PROVE NameInv'
    <3>1. TrimSpace[body.name] = body.name /\ Created(body).name = body.name
      BY SubsAssumptions DEF CleanNames, CreateBody, Created, NormalizeSub
    <3>2. NamedLocal(State("pos", TrimSpace[body.name], Created(body), body.position, 0))
      BY <3>1 DEF NamedLocal, State
    <3> QED
      BY <3>2, <2>1, <2>2 DEF handleCreateSub
  <2>3. ASSUME NEW name \in RowNames, NEW body \in PatchBodies, handlePatchSub(p, name, body)
        PROVE  NameInv'
    <3> DEFINE old == subs[name].rec
    <3>1. /\ name \in DOMAIN subs /\ body \in PatchBody /\ GoodRec(old)
          /\ name \notin Slashed /\ old.name = name /\ body.name # ""
      BY <2>3, SubsAssumptions DEF handlePatchSub, Inv, GoodTable, NameInv, NamedTable,
         CleanNames
    <3>2. ValidSub(BeforeNormalize(old, body))
      BY <2>3 DEF handlePatchSub
    <3>3. Sent(body.name, old.name) = NewName(name, body)
      BY <3>1 DEF Sent, NewName
    <3>4. NewName(name, body) \notin Slashed
      BY <3>1, <2>3 DEF handlePatchSub
    <3>5. Patched(old, body).name = NewName(name, body)
      BY <3>1, <3>2, <3>3, <3>4, PatchedGood
    <3>6. NamedLocal(State(IF NewName(name, body) # name THEN "dup" ELSE "pos",
                           name, Patched(old, body), "bottom", 0))
      BY <3>5 DEF NamedLocal, State
    <3> QED
      BY <3>6, <2>1, <2>3 DEF handlePatchSub
  <2>4. ASSUME NEW name \in RowNames, handleUpdateSub(p, name) PROVE NameInv'
    BY <2>4, <2>1, NamedStates DEF handleUpdateSub
  <2>5. ASSUME NEW name \in RowNames, handleDeleteSub(p, name) PROVE NameInv'
    BY <2>5, <2>1, NamedStates DEF handleDeleteSub
  <2> QED
    BY <1>4, <2>2, <2>3, <2>4, <2>5 DEF Arrive
<1>5. ASSUME NEW p \in Procs, LocalStep(p) PROVE NameInv'
  <2>1. NamedLocal(h[p]) /\ GoodLocal(h[p])
    BY DEF NameInv, Inv
  <2>2. CASE DupCheck(p)
    <3>1. NamedLocal([h[p] EXCEPT !.pc = "rename"])
      BY <2>1 DEF NamedLocal, GoodLocal, Local
    <3> QED
      BY <3>1, <2>2, <1>2, NamedStates DEF DupCheck
  <2>3. CASE UpsertPos(p)
    <3>1. \A q : NamedLocal(State(IF h[p].pc = "pos" THEN "write" ELSE "cacheWrite",
                                  h[p].key, h[p].rec, h[p].position, q))
      BY <2>1, <2>3 DEF NamedLocal, State, UpsertPos
    <3> QED
      BY <3>1, <2>3, <1>2 DEF UpsertPos
  <2>4. CASE UpsertSub(p)
    <3>1. h[p].rec.name = h[p].key
      BY <2>1, <2>4 DEF UpsertSub, NamedLocal
    <3> QED
      BY <3>1, <2>4, <1>3, NamedStates DEF UpsertSub
  <2>5. CASE SaveCache(p)
    <3>1. h[p].rec.name = h[p].key
      BY <2>1, <2>5 DEF SaveCache, NamedLocal
    <3> QED
      BY <3>1, <2>5, <1>3, NamedStates DEF SaveCache
  <2>6. CASE FetchLive(p)
    <3>1. h[p].rec \in SubRec
      BY <2>1 DEF GoodLocal, Local
    <3>2. \A link : NamedLocal(State("cachePos", h[p].rec.name,
                                     [h[p].rec EXCEPT !.cached = link], "bottom", 0))
      BY <3>1 DEF NamedLocal, State, SubRec
    <3> QED
      BY <3>2, <2>6, <1>2, NamedStates DEF FetchLive
  <2>7. CASE DBError(p)
    BY <2>7, <1>2, NamedStates DEF DBError
  <2> QED
    BY <1>5, <2>2, <2>3, <2>4, <2>5, <2>6, <2>7 DEF LocalStep
<1>6. ASSUME NEW p \in Procs, RenameTx(p) PROVE NameInv'
  <2>1. CASE RenameConflict(subs, h[p].key, h[p].rec.name)
    BY <2>1, <1>6, <1>2, NamedStates DEF RenameTx
  <2>2. CASE ~ RenameConflict(subs, h[p].key, h[p].rec.name)
    <3>1. NamedTable(RenameRow(subs, h[p].key, h[p].rec.name, h[p].rec))
      BY DEF NameInv, NamedTable, RenameRow, Inv, GoodTable, IsTable
    <3>2. /\ subs' = RenameRow(subs, h[p].key, h[p].rec.name, h[p].rec) /\ todo' = todo
          /\ Continue(p, AfterSave(h[p]))
      BY <2>2, <1>6 DEF RenameTx
    <3> QED
      BY <3>1, <3>2, <1>1, NamedStates DEF NameInv, NamedTable
  <2> QED
    BY <2>1, <2>2
<1>7. ASSUME NEW p \in Procs, DeleteTx(p) PROVE NameInv'
  <2>1. NamedTable(DeleteRow(subs, h[p].key))
    BY DEF NameInv, NamedTable, DeleteRow
  <2>2. subs' = DeleteRow(subs, h[p].key) /\ todo' = todo /\ Continue(p, Idle)
    BY <1>7 DEF DeleteTx
  <2> QED
    BY <2>1, <2>2, <1>1, NamedStates DEF NameInv, NamedTable
<1>8. CASE tick
  BY <1>8 DEF tick, NameInv, NamedTable
<1>9. CASE tickNext
  <2>1. PICK n \in DOMAIN todo :
           /\ todo' = DeleteRow(todo, n)
           /\ UNCHANGED h \/ Continue(Sched, Fetching(todo[n].rec))
    BY <1>9 DEF tickNext
  <2>2. NamedTable(DeleteRow(todo, n))
    BY DEF NameInv, NamedTable, DeleteRow
  <2>3. \A q \in Procs : NamedLocal(h'[q])
    BY <2>1, <1>1, NamedStates DEF NameInv, Procs
  <2> QED
    BY <2>1, <2>2, <2>3, <1>9 DEF tickNext, NameInv, NamedTable
<1>10. CASE Restart
  BY <1>10, NamedStates DEF Restart, NameInv, NamedTable, EmptyTable
<1>11. CASE UNCHANGED vars
  BY <1>11 DEF vars, NameInv, NamedTable
<1> QED
  BY <1>4, <1>5, <1>6, <1>7, <1>8, <1>9, <1>10, <1>11 DEF Next

\* With clean names every row is found under the name its document carries
\* (KeyMatchesRecord).
THEOREM CleanNamesMatch ==
    ASSUME CleanNames
    PROVE  Spec => []KeyMatchesRecord
<1>1. Init => NameInv
  BY NamedStates DEF Init, NameInv, NamedTable, EmptyTable
<1>2. Inv /\ NameInv /\ [Next]_vars => NameInv'
  BY NameStep
<1>3. NameInv => KeyMatchesRecord
  BY DEF NameInv, NamedTable, KeyMatchesRecord
<1> QED
  BY <1>1, <1>2, <1>3, Invariance, PTL DEF Spec

-----------------------------------------------------------------------------
(* Collections.                                                            *)

\* Clients send names of collections without blanks around them, and never an
\* empty one to a PATCH.
CleanCols ==
    /\ \A n \in ColNames : ColTrimSpace[n] = n
    /\ \A body \in ColPatchBodies : body.name # ""

ColKeys == ColRowNames \ {""}

\* Every row is named, and its document carries its name.
GoodCols(t) ==
    /\ IsTable(t, ColKeys, ColRec)
    /\ \A c \in DOMAIN t : t[c].rec.name = c

\* A handler that is about to write without a rename writes to the row that its
\* document names; one that is about to rename has a name to give.
GoodColLocal(s) ==
    /\ s \in [pc : {"idle", "dup", "rename", "del", "pos", "write"}, key : ColRowNames,
              rec : ColRec, position : {"", "top", "bottom"}, pos : Positions]
    /\ s.pc \in {"pos", "write"} => s.key # "" /\ s.rec.name = s.key
    /\ s.pc \in {"dup", "rename"} => s.rec.name # ""

ColInv ==
    /\ GoodCols(cols)
    /\ nextColId \in Nat
    /\ DOMAIN g = ColHandlers /\ g = [p \in ColHandlers |-> g[p]]
    /\ \A p \in ColHandlers : GoodColLocal(g[p])

-----------------------------------------------------------------------------
(* The rewrites.                                                           *)

\* In a table whose documents carry their rows' names the loop writes every
\* document that refers to the name back to its own row, and adds none.
LEMMA WriteBackInPlace ==
    ASSUME NEW t, GoodCols(t), NEW name, NEW docs, NEW id \in Nat
    PROVE  /\ WriteBack(t, name, docs, id) =
                 [k \in DOMAIN t |-> IF RefersTo(t[k].rec, name)
                                     THEN [t[k] EXCEPT !.rec = docs[k]] ELSE t[k]]
           /\ WriteBackNextId(t, name, id) = id
<1>1. \A k : Writers(t, name, k) = IF k \in DOMAIN t /\ RefersTo(t[k].rec, name)
                                   THEN {k} ELSE {}
  BY DEF Writers, GoodCols
<1>2. Added(t, name) = {}
  BY <1>1 DEF Added
<1>3. ASSUME NEW k \in DOMAIN t, RefersTo(t[k].rec, name)
      PROVE  LastWriter(t, name, k) = k
  BY <1>1, <1>3 DEF LastWriter
<1>4. "" \notin DOMAIN t
  BY DEF GoodCols, IsTable, ColKeys
<1>5. ASSUME NEW k \in DOMAIN t
      PROVE  /\ RefersTo(t[k].rec, name) => Writers(t, name, k) # {}
             /\ ~ RefersTo(t[k].rec, name) => Writers(t, name, k) = {}
  BY <1>1
<1>6. WriteBack(t, name, docs, id) =
         [k \in DOMAIN t |-> IF RefersTo(t[k].rec, name)
                             THEN [t[k] EXCEPT !.rec = docs[k]] ELSE t[k]]
  BY <1>2, <1>3, <1>4, <1>5 DEF WriteBack
<1>7. WriteBackNextId(t, name, id) = id
  <2>1. Cardinality({}) = 0
    BY FS_EmptySet
  <2> QED
    BY <1>2, <2>1 DEF WriteBackNextId
<1> QED
  BY <1>6, <1>7

\* A reference is replaced in its place, the rest stays.
LEMMA ReplaceRefType ==
    ASSUME NEW rec \in ColRec, NEW old, NEW new \in SubNames
    PROVE  /\ ReplaceRef(rec, old, new) \in ColRec
           /\ ReplaceRef(rec, old, new).name = rec.name
           /\ \A i \in DOMAIN rec.subscriptions :
                 ReplaceRef(rec, old, new).subscriptions[i] =
                    IF rec.subscriptions[i] = old THEN new ELSE rec.subscriptions[i]
<1> DEFINE s == rec.subscriptions
           r == [i \in DOMAIN s |-> IF s[i] = old THEN new ELSE s[i]]
<1>1. s \in Seq(SubNames) /\ rec.name \in ColRowNames
  BY DEF ColRec
<1>2. r \in Seq(SubNames)
  BY <1>1
<1>3. ReplaceRef(rec, old, new) = [rec EXCEPT !.subscriptions = r]
  BY DEF ReplaceRef
<1> HIDE DEF r
<1>4. ReplaceRef(rec, old, new) \in ColRec /\ ReplaceRef(rec, old, new).name = rec.name
      /\ ReplaceRef(rec, old, new).subscriptions = r
  BY <1>1, <1>2, <1>3 DEF ColRec
<1> QED
  BY <1>4 DEF r

\* A dropped reference is gone, and a document without it is left as it is.
LEMMA DropRefType ==
    ASSUME NEW rec \in ColRec, NEW name
    PROVE  /\ DropRef(rec, name) \in ColRec
           /\ DropRef(rec, name).name = rec.name
           /\ ~ RefersTo(DropRef(rec, name), name)
           /\ ~ RefersTo(rec, name) => DropRef(rec, name) = rec
<1> DEFINE s == rec.subscriptions
           keep == SubNames \ {name}
           r == FilterSeq(s, keep)
<1>1. s \in Seq(SubNames) /\ rec.name \in ColRowNames
      /\ rec = [name |-> rec.name, subscriptions |-> s]
  BY DEF ColRec
<1>2. r \in Seq(SubNames)
  BY <1>1, FilterType
<1>3. \A j \in DOMAIN r : r[j] # name
  <2> SUFFICES ASSUME NEW j \in DOMAIN r PROVE r[j] # name
    OBVIOUS
  <2>1. \E i \in 1..Len(s) : r[j] = s[i] /\ s[i] \in keep
    BY <1>1, FilterRange
  <2> QED
    BY <2>1
<1>4. ASSUME ~ RefersTo(rec, name) PROVE r = s
  <2>1. \A i \in 1..Len(s) : s[i] \in keep
    BY <1>1, <1>4 DEF RefersTo
  <2> HIDE DEF keep, s
  <2> QED
    BY <1>1, <2>1, FilterAll
<1>5. DropRef(rec, name) = [name |-> rec.name, subscriptions |-> r]
  <2>1. DropRef(rec, name) = [rec EXCEPT !.subscriptions = r]
    BY DEF DropRef
  <2> HIDE DEF r
  <2> QED
    BY <1>1, <2>1
<1> HIDE DEF r
<1>6. DropRef(rec, name) \in ColRec
  BY <1>1, <1>2, <1>5 DEF ColRec
<1>7. ~ RefersTo(DropRef(rec, name), name)
  BY <1>3, <1>5 DEF RefersTo
<1> QED
  BY <1>1, <1>4, <1>5, <1>6, <1>7

-----------------------------------------------------------------------------
(* The steps.                                                              *)

\* Zero is a position.
LEMMA ZeroPosition == 0 \in Positions
BY PosBoundAssumption DEF Positions

\* An idle handler is in a good state.
LEMMA ColIdleGood == GoodColLocal(ColIdle)
BY PosBoundAssumption DEF GoodColLocal, ColIdle, NoCol, ColRec, ColRowNames, Positions

\* The invariant holds at the start.
LEMMA ColInitInv == ColInit => ColInv
<1> SUFFICES ASSUME ColInit PROVE ColInv
  OBVIOUS
<1>1. GoodCols(cols)
  BY DEF ColInit, GoodCols, IsTable, EmptyTable
<1>2. nextColId \in Nat /\ DOMAIN g = ColHandlers /\ g = [p \in ColHandlers |-> g[p]]
  BY DEF ColInit
<1>3. \A p \in ColHandlers : GoodColLocal(g[p])
  BY ColIdleGood DEF ColInit
<1> QED
  BY <1>1, <1>2, <1>3 DEF ColInv

\* A handler that goes on in a good state keeps the handlers good.
LEMMA ColMove ==
    ASSUME ColInv, NEW p \in ColHandlers, NEW s, GoodColLocal(s),
           g' = [g EXCEPT ![p] = s], GoodCols(cols'), nextColId' \in Nat
    PROVE  ColInv'
<1>1. DOMAIN g' = ColHandlers /\ g' = [q \in ColHandlers |-> g'[q]]
      /\ \A q \in ColHandlers : g'[q] = IF q = p THEN s ELSE g[q]
  BY DEF ColInv
<1>2. \A q \in ColHandlers : GoodColLocal(g'[q])
  BY <1>1 DEF ColInv
<1>3. GoodCols(cols)'
  BY DEF GoodCols
<1>4. (\A q \in ColHandlers : GoodColLocal(g[q]))'
  BY <1>2 DEF GoodColLocal
<1> QED
  BY <1>1, <1>3, <1>4 DEF ColInv

\* A create, a patch and a deletion begin with a document that names its row.
LEMMA ColArriveInv ==
    ASSUME CleanCols, ColInv, NEW p \in ColHandlers,
           \/ \E body \in ColCreateBodies : handleCreateCollection(p, body)
           \/ \E name \in ColRowNames \ {""}, body \in ColPatchBodies :
                 handlePatchCollection(p, name, body)
           \/ \E name \in ColRowNames \ {""} : handleDeleteCollection(p, name)
    PROVE  ColInv'
<1>1. ASSUME NEW s, GoodColLocal(s), ColBegin(p, s) PROVE ColInv'
  BY <1>1, ColMove DEF ColBegin, ColInv
<1>2. ASSUME NEW body \in ColCreateBodies, handleCreateCollection(p, body)
      PROVE  ColInv'
  <2> DEFINE s == [pc |-> "pos", key |-> ColTrimSpace[body.name],
                   position |-> body.position, pos |-> 0,
                   rec |-> [name |-> body.name, subscriptions |-> body.subscriptions]]
  <2>1. /\ body.name \in ColNames /\ body.subscriptions \in Seq(SubNames)
        /\ body.position \in {"", "top", "bottom"}
        /\ ColTrimSpace[body.name] = body.name
    BY ColsAssumptions DEF CleanCols
  <2>2. body.name # "" /\ ColBegin(p, s)
    BY <1>2, <2>1 DEF handleCreateCollection
  <2>3. GoodColLocal(s)
    BY <2>1, <2>2, ZeroPosition DEF GoodColLocal, ColRec, ColRowNames
  <2> QED
    BY <1>1, <2>2, <2>3
<1>3. ASSUME NEW name \in ColRowNames \ {""}, NEW body \in ColPatchBodies,
             handlePatchCollection(p, name, body)
      PROVE  ColInv'
  <2> DEFINE rec == ColMerged(cols[name].rec, body)
             s == [pc |-> IF ColNewName(name, body) # name THEN "dup" ELSE "pos",
                   key |-> name, rec |-> rec, position |-> "bottom", pos |-> 0]
  <2>1. /\ body.name \in ColRowNames \cup {NotSent} /\ body.name # ""
        /\ body.subscriptions \in Seq(SubNames) \cup {NotSent}
    BY ColsAssumptions DEF CleanCols
  <2>2. name \in DOMAIN cols /\ ColBegin(p, s)
    BY <1>3 DEF handlePatchCollection
  <2>3. /\ cols[name].rec \in ColRec /\ cols[name].rec.name = name
        /\ cols[name].rec.subscriptions \in Seq(SubNames)
    BY <2>2 DEF ColInv, GoodCols, IsTable, ColRec
  <2>4. /\ rec.name = IF body.name = NotSent THEN name ELSE body.name
        /\ rec.subscriptions \in Seq(SubNames)
        /\ rec = [name |-> rec.name, subscriptions |-> rec.subscriptions]
    BY <2>1, <2>3 DEF ColMerged, ColSent
  <2>5. ColNewName(name, body) = rec.name
    BY <2>1, <2>4 DEF ColNewName
  <2>6. rec \in ColRec /\ rec.name # ""
    BY <2>1, <2>4 DEF ColRec
  <2> HIDE DEF rec
  <2>7. GoodColLocal(s)
    BY <2>5, <2>6, ZeroPosition DEF GoodColLocal
  <2> QED
    BY <1>1, <2>2, <2>7
<1>4. ASSUME NEW name \in ColRowNames \ {""}, handleDeleteCollection(p, name)
      PROVE  ColInv'
  <2> DEFINE s == [ColIdle EXCEPT !.pc = "del", !.key = name]
  <2>1. GoodColLocal(s)
    BY ColIdleGood DEF GoodColLocal, ColIdle
  <2> QED
    BY <1>1, <1>4, <2>1 DEF handleDeleteCollection
<1> QED
  BY <1>2, <1>3, <1>4

\* The statements that follow keep every row's document under its name.
LEMMA ColStepInv ==
    ASSUME CleanCols, ColInv, NEW p \in ColHandlers, ColStep(p)
    PROVE  ColInv'
<1>0. /\ GoodColLocal(g[p]) /\ GoodCols(cols) /\ nextColId \in Nat
      /\ IsTable(cols, ColKeys, ColRec)
  BY DEF ColInv, GoodCols
<1>1. CASE \/ \E body \in ColCreateBodies : handleCreateCollection(p, body)
           \/ \E name \in ColRowNames \ {""}, body \in ColPatchBodies :
                 handlePatchCollection(p, name, body)
           \/ \E name \in ColRowNames \ {""} : handleDeleteCollection(p, name)
  BY <1>1, ColArriveInv
<1>2. CASE ColDupCheck(p)
  <2>1. g[p].pc = "dup" => GoodColLocal([g[p] EXCEPT !.pc = "rename"])
    BY <1>0 DEF GoodColLocal
  <2> QED
    BY <1>0, <1>2, <2>1, ColMove, ColIdleGood DEF ColDupCheck, ColContinue
<1>3. CASE RenameCollection(p)
  <2>1. GoodCols(RenameRow(cols, g[p].key, g[p].rec.name, g[p].rec))
    <3>1. g[p].rec \in ColRec /\ g[p].rec.name \in ColKeys
      BY <1>0, <1>3 DEF RenameCollection, GoodColLocal, ColKeys, ColRec
    <3> QED
      BY <1>0, <3>1 DEF RenameRow, GoodCols, IsTable
  <2> QED
    BY <1>0, <1>3, <2>1, ColMove, ColIdleGood DEF RenameCollection, ColContinue
<1>4. CASE DeleteCollection(p)
  <2>1. GoodCols(DeleteRow(cols, g[p].key))
    BY <1>0 DEF DeleteRow, GoodCols, IsTable
  <2> QED
    BY <1>0, <1>4, <2>1, ColMove, ColIdleGood DEF DeleteCollection, ColContinue
<1>5. CASE ColUpsertPos(p)
  <2>1. PICK q \in Positions : g' = [g EXCEPT ![p] = [g[p] EXCEPT !.pc = "write", !.pos = q]]
    BY <1>5 DEF ColUpsertPos, ColContinue
  <2>2. GoodColLocal([g[p] EXCEPT !.pc = "write", !.pos = q])
    BY <1>0, <1>5 DEF ColUpsertPos, GoodColLocal
  <2> QED
    BY <1>0, <1>5, <2>1, <2>2, ColMove DEF ColUpsertPos
<1>6. CASE UpsertCollection(p)
  <2>1. /\ g[p].rec \in ColRec /\ g[p].key \in ColKeys /\ g[p].rec.name = g[p].key
        /\ g[p].pos \in Positions
    BY <1>0, <1>6 DEF UpsertCollection, GoodColLocal, ColKeys
  <2>2. GoodCols(Upsert(cols, g[p].key, g[p].rec, g[p].pos, nextColId))
    BY <1>0, <2>1 DEF Upsert, GoodCols, IsTable
  <2>3. NextId(cols, g[p].key, nextColId) \in Nat
    BY <1>0 DEF NextId
  <2> QED
    BY <1>0, <1>6, <2>2, <2>3, ColMove, ColIdleGood DEF UpsertCollection, ColContinue
<1>7. CASE ColDBError(p)
  BY <1>0, <1>7, ColMove, ColIdleGood DEF ColDBError, ColContinue
<1> QED
  BY <1>1, <1>2, <1>3, <1>4, <1>5, <1>6, <1>7 DEF ColStep

\* The rewrite of the references, by what it does to each row.
RewrittenTo(t, u, name, docs) ==
    u = [k \in DOMAIN t |-> IF RefersTo(t[k].rec, name)
                            THEN [t[k] EXCEPT !.rec = docs[k]] ELSE t[k]]

\* It changes the documents of the referrers only and keeps the table good.
LEMMA RewriteGood ==
    ASSUME NEW t, GoodCols(t), NEW u, NEW name, NEW docs, RewrittenTo(t, u, name, docs),
           \A k \in DOMAIN t : docs[k] \in ColRec /\ docs[k].name = t[k].rec.name
    PROVE  /\ GoodCols(u) /\ DOMAIN u = DOMAIN t
           /\ \A k \in DOMAIN t :
                 /\ u[k].id = t[k].id /\ u[k].pos = t[k].pos
                 /\ u[k].rec = IF RefersTo(t[k].rec, name) THEN docs[k] ELSE t[k].rec
<1>1. \A k \in DOMAIN t : /\ t[k] \in [id : Nat, pos : Positions, rec : ColRec]
                          /\ t[k].rec.name = k /\ k \in ColKeys
  BY DEF GoodCols, IsTable
<1>2. DOMAIN u = DOMAIN t /\ u = [k \in DOMAIN t |-> u[k]]
  BY DEF RewrittenTo
<1>3. ASSUME NEW k \in DOMAIN t
      PROVE  /\ u[k].id = t[k].id /\ u[k].pos = t[k].pos
             /\ u[k].rec = IF RefersTo(t[k].rec, name) THEN docs[k] ELSE t[k].rec
             /\ u[k] \in [id : Nat, pos : Positions, rec : ColRec]
             /\ u[k].rec.name = k
  <2>1. u[k] = IF RefersTo(t[k].rec, name) THEN [t[k] EXCEPT !.rec = docs[k]] ELSE t[k]
    BY DEF RewrittenTo
  <2>2. CASE RefersTo(t[k].rec, name)
    BY <1>1, <2>1, <2>2
  <2>3. CASE ~ RefersTo(t[k].rec, name)
    BY <1>1, <2>1, <2>3
  <2> QED
    BY <2>2, <2>3
<1>4. GoodCols(u)
  BY <1>1, <1>2, <1>3 DEF GoodCols, IsTable
<1> QED
  BY <1>2, <1>3, <1>4

\* What the two rewrites do to the collections.
LEMMA ReplaceStep ==
    ASSUME ColInv, NEW old, NEW new \in SubNames, updateCollectionsReferencingTx(old, new)
    PROVE  /\ ColInv' /\ DOMAIN cols' = DOMAIN cols
           /\ \A k \in DOMAIN cols :
                 /\ cols'[k].id = cols[k].id /\ cols'[k].pos = cols[k].pos
                 /\ cols'[k].rec = IF RefersTo(cols[k].rec, old)
                                   THEN ReplaceRef(cols[k].rec, old, new) ELSE cols[k].rec
<1> DEFINE docs == [n \in DOMAIN cols |-> ReplaceRef(cols[n].rec, old, new)]
<1>1. GoodCols(cols) /\ nextColId \in Nat
  BY DEF ColInv
<1>2. \A k \in DOMAIN cols : cols[k].rec \in ColRec
  BY <1>1 DEF GoodCols, IsTable
<1>3. \A k \in DOMAIN cols : docs[k] = ReplaceRef(cols[k].rec, old, new)
                             /\ docs[k] \in ColRec /\ docs[k].name = cols[k].rec.name
  BY <1>2, ReplaceRefType
<1>4. cols' = WriteBack(cols, old, docs, nextColId)
      /\ nextColId' = WriteBackNextId(cols, old, nextColId)
  BY DEF updateCollectionsReferencingTx
<1> HIDE DEF docs
<1>5. RewrittenTo(cols, cols', old, docs) /\ nextColId' = nextColId
  BY <1>1, <1>4, WriteBackInPlace DEF RewrittenTo
<1>6. /\ GoodCols(cols') /\ DOMAIN cols' = DOMAIN cols
      /\ \A k \in DOMAIN cols :
            /\ cols'[k].id = cols[k].id /\ cols'[k].pos = cols[k].pos
            /\ cols'[k].rec = IF RefersTo(cols[k].rec, old) THEN docs[k] ELSE cols[k].rec
  BY <1>1, <1>3, <1>5, RewriteGood
<1>7. ColInv'
  BY <1>1, <1>5, <1>6 DEF ColInv, updateCollectionsReferencingTx, GoodCols
<1> QED
  BY <1>3, <1>6, <1>7

\* The same for the filter.
LEMMA DropStep ==
    ASSUME ColInv, NEW name, removeSubscriptionFromCollectionsTx(name)
    PROVE  /\ ColInv' /\ DOMAIN cols' = DOMAIN cols
           /\ \A k \in DOMAIN cols :
                 /\ cols'[k].id = cols[k].id /\ cols'[k].pos = cols[k].pos
                 /\ cols'[k].rec = DropRef(cols[k].rec, name)
                 /\ ~ RefersTo(cols'[k].rec, name)
                 /\ ~ RefersTo(cols[k].rec, name) => cols'[k].rec = cols[k].rec
<1> DEFINE docs == [n \in DOMAIN cols |-> DropRef(cols[n].rec, name)]
<1>1. GoodCols(cols) /\ nextColId \in Nat
  BY DEF ColInv
<1>2. \A k \in DOMAIN cols : cols[k].rec \in ColRec
  BY <1>1 DEF GoodCols, IsTable
<1>3. \A k \in DOMAIN cols :
         /\ docs[k] = DropRef(cols[k].rec, name)
         /\ docs[k] \in ColRec /\ docs[k].name = cols[k].rec.name
         /\ ~ RefersTo(docs[k], name)
         /\ ~ RefersTo(cols[k].rec, name) => docs[k] = cols[k].rec
  BY <1>2, DropRefType
<1>4. cols' = WriteBack(cols, name, docs, nextColId)
      /\ nextColId' = WriteBackNextId(cols, name, nextColId)
  BY DEF removeSubscriptionFromCollectionsTx
<1> HIDE DEF docs
<1>5. RewrittenTo(cols, cols', name, docs) /\ nextColId' = nextColId
  BY <1>1, <1>4, WriteBackInPlace DEF RewrittenTo
<1>6. /\ GoodCols(cols') /\ DOMAIN cols' = DOMAIN cols
      /\ \A k \in DOMAIN cols :
            /\ cols'[k].id = cols[k].id /\ cols'[k].pos = cols[k].pos
            /\ cols'[k].rec = IF RefersTo(cols[k].rec, name) THEN docs[k] ELSE cols[k].rec
  BY <1>1, <1>3, <1>5, RewriteGood
<1>7. ColInv'
  BY <1>1, <1>5, <1>6 DEF ColInv, removeSubscriptionFromCollectionsTx, GoodCols
<1>8. \A k \in DOMAIN cols : cols'[k].rec = docs[k]
  BY <1>3, <1>6
<1> QED
  BY <1>3, <1>6, <1>7, <1>8

-----------------------------------------------------------------------------
(* The theorems.                                                           *)

\* Composed with the collections, the subscriptions behave as their own
\* specification says.
THEOREM CatalogImplementsSubscriptions == CatSpec => Spec
<1>1. CatInit => Init
  BY DEF CatInit
<1>2. [CatNext]_catVars => [Next]_vars
  BY DEF CatNext, catVars, Next, vars, RenameSubTx, DeleteSubTx
<1> QED
  BY <1>1, <1>2, PTL DEF CatSpec, Spec

\* Every step of the composition preserves the invariant of the collections.
LEMMA CatNextInv ==
    ASSUME CleanCols, Inv, ColInv, [CatNext]_catVars
    PROVE  ColInv'
<1>1. CASE UNCHANGED colVars
  BY <1>1 DEF colVars, ColInv, GoodCols
<1>2. ASSUME NEW p \in Procs, RenameSubTx(p) PROVE ColInv'
  <2>1. h[p].rec.name \in SubNames
    BY CatalogAssumptions DEF Inv, GoodLocal, Local, SubRec
  <2> QED
    BY <1>1, <1>2, <2>1, ReplaceStep DEF RenameSubTx
<1>3. ASSUME NEW p \in Procs, DeleteSubTx(p) PROVE ColInv'
  BY <1>3, DropStep DEF DeleteSubTx
<1>4. ASSUME NEW p \in ColHandlers, ColStep(p) PROVE ColInv'
  BY <1>4, ColStepInv
<1>5. CASE ColRestart
  BY <1>5, ColIdleGood DEF ColRestart, ColInv, GoodCols
<1> QED
  BY <1>1, <1>2, <1>3, <1>4, <1>5 DEF CatNext, catVars

\* When clients send clean names, the document of every collection, and every
\* one that a handler is about to write, carries the name of its row.
THEOREM CatInvariance ==
    ASSUME CleanCols
    PROVE  CatSpec => [](Inv /\ ColInv)
<1>1. CatInit => ColInv
  BY ColInitInv DEF CatInit
<1>2. Inv /\ ColInv /\ [CatNext]_catVars => ColInv'
  BY CatNextInv
<1>3. CatSpec => []Inv
  BY CatalogImplementsSubscriptions, Invariance, PTL
<1> QED
  BY <1>1, <1>2, <1>3, PTL DEF CatSpec

\* A handler leaves "rename" or "del" by its transaction, or nothing changes.
LEMMA OwnTransaction ==
    ASSUME Inv, [CatNext]_catVars, NEW p \in Handlers,
           h[p].pc \in {"rename", "del"}, h'[p] # h[p]
    PROVE  \/ h[p].pc = "rename" /\ RenameSubTx(p)
           \/ h[p].pc = "del" /\ DeleteSubTx(p)
           \/ UNCHANGED <<subs, cols>>
<1>0. p \in Procs /\ p # Sched /\ DOMAIN h = Procs
  BY SubsAssumptions DEF Procs, Inv
<1>1. ASSUME NEW q \in Procs, NEW s, h' = [h EXCEPT ![q] = s] PROVE q = p
  BY <1>0, <1>1
<1>2. ASSUME NEW q \in Handlers, Arrive(q) PROVE FALSE
  <2>1. h[q] = Idle /\ q \in Procs
    BY <1>2 DEF Arrive, handleCreateSub, handlePatchSub, handleUpdateSub, handleDeleteSub,
                Request, Procs
  <2>2. PICK s : Begin(q, s)
    BY <1>2 DEF Arrive, handleCreateSub, handlePatchSub, handleUpdateSub, handleDeleteSub
  <2>3. q = p
    BY <1>1, <2>1, <2>2 DEF Begin
  <2>4. Idle.pc = "idle"
    BY DEF Idle, State
  <2> QED
    BY <2>1, <2>3, <2>4
<1>3. ASSUME NEW q \in Procs, LocalStep(q) PROVE UNCHANGED subs
  <2>1. q = p
    BY <1>1, <1>3 DEF LocalStep, DupCheck, UpsertPos, UpsertSub, FetchLive, SaveCache,
                      DBError, Continue
  <2> QED
    BY <1>3, <2>1 DEF LocalStep, DupCheck, UpsertPos, UpsertSub, FetchLive, SaveCache,
                      DBError
<1>4. ASSUME NEW q \in Procs, RenameSubTx(q) \/ DeleteSubTx(q)
      PROVE  \/ h[p].pc = "rename" /\ RenameSubTx(p)
             \/ h[p].pc = "del" /\ DeleteSubTx(p)
  <2>1. q = p
    BY <1>1, <1>4 DEF RenameSubTx, DeleteSubTx, RenameTx, DeleteTx, Continue
  <2> QED
    BY <1>4, <2>1 DEF RenameSubTx, DeleteSubTx, RenameTx, DeleteTx
<1>5. CASE tick \/ tickNext
  BY <1>0, <1>5, <1>1 DEF tick, tickNext, Continue, Procs
<1>6. UNCHANGED colVars => UNCHANGED cols
  BY DEF colVars
<1> QED
  BY <1>2, <1>3, <1>4, <1>5, <1>6
  DEF CatNext, catVars, vars, Restart, ColRestart

\* Clean names of collections keep every reference alive across the rename of
\* its subscription, whatever the other handlers do (RenameMovesReferences).
THEOREM ReferencesFollowRenames ==
    ASSUME CleanCols
    PROVE  CatSpec => RenameMovesReferences
<1> DEFINE Step(p, old, new) ==
             Renames(p, old, new) =>
                \A c \in DOMAIN cols :
                   /\ c \in DOMAIN cols'
                   /\ \A i \in DOMAIN cols[c].rec.subscriptions :
                         cols'[c].rec.subscriptions[i] =
                            IF cols[c].rec.subscriptions[i] = old THEN new
                            ELSE cols[c].rec.subscriptions[i]
<1>1. ASSUME Inv, ColInv, [CatNext]_catVars, NEW p \in Handlers,
             NEW old \in RowNames, NEW new \in RowNames, Renames(p, old, new)
      PROVE  \A c \in DOMAIN cols :
                /\ c \in DOMAIN cols'
                /\ \A i \in DOMAIN cols[c].rec.subscriptions :
                      cols'[c].rec.subscriptions[i] =
                         IF cols[c].rec.subscriptions[i] = old THEN new
                         ELSE cols[c].rec.subscriptions[i]
  <2>1. /\ h[p].pc = "rename" /\ h[p].key = old /\ h[p].rec.name = new
        /\ h'[p] # h[p] /\ subs' # subs /\ new \in SubNames
    BY <1>1, CatalogAssumptions DEF Renames
  <2>2. RenameSubTx(p)
    BY <1>1, <2>1, OwnTransaction
  <2>3. updateCollectionsReferencingTx(old, new)
    BY <2>1, <2>2 DEF RenameSubTx, RenameTx
  <2>4. /\ DOMAIN cols' = DOMAIN cols
        /\ \A k \in DOMAIN cols :
              cols'[k].rec = IF RefersTo(cols[k].rec, old)
                             THEN ReplaceRef(cols[k].rec, old, new) ELSE cols[k].rec
    BY <1>1, <2>1, <2>3, ReplaceStep
  <2>5. ASSUME NEW c \in DOMAIN cols, NEW i \in DOMAIN cols[c].rec.subscriptions
        PROVE  cols'[c].rec.subscriptions[i] =
                  IF cols[c].rec.subscriptions[i] = old THEN new
                  ELSE cols[c].rec.subscriptions[i]
    <3>1. cols[c].rec \in ColRec
      BY <1>1 DEF ColInv, GoodCols, IsTable
    <3>2. CASE RefersTo(cols[c].rec, old)
      BY <2>1, <2>4, <3>1, <3>2, ReplaceRefType
    <3>3. CASE ~ RefersTo(cols[c].rec, old)
      BY <2>4, <3>3 DEF RefersTo
    <3> QED
      BY <3>2, <3>3
  <2> QED
    BY <2>4, <2>5
<1>2. Inv /\ ColInv /\ [CatNext]_catVars =>
         [\A p \in Handlers, old, new \in RowNames : Step(p, old, new)]_catVars
  BY <1>1
<1> QED
  BY <1>2, CatInvariance, PTL DEF CatSpec, RenameMovesReferences

\* A deleted subscription is dropped from every collection, and nothing else is
\* (DeleteDropsReferences).
THEOREM ReferencesEndWithDeletes ==
    ASSUME CleanCols
    PROVE  CatSpec => DeleteDropsReferences
<1> DEFINE Step(p) ==
             h[p].pc = "del" /\ h'[p] # h[p] /\ h[p].key \in DOMAIN subs \ DOMAIN subs' =>
                \A c \in DOMAIN cols :
                   /\ c \in DOMAIN cols'
                   /\ ~ RefersTo(cols'[c].rec, h[p].key)
                   /\ cols'[c].rec = DropRef(cols[c].rec, h[p].key)
<1>1. ASSUME Inv, ColInv, [CatNext]_catVars, NEW p \in Handlers PROVE Step(p)
  <2> SUFFICES ASSUME h[p].pc = "del", h'[p] # h[p],
                      h[p].key \in DOMAIN subs \ DOMAIN subs'
               PROVE  \A c \in DOMAIN cols :
                         /\ c \in DOMAIN cols'
                         /\ ~ RefersTo(cols'[c].rec, h[p].key)
                         /\ cols'[c].rec = DropRef(cols[c].rec, h[p].key)
    OBVIOUS
  <2>1. DeleteSubTx(p)
    BY <1>1, OwnTransaction
  <2> QED
    BY <1>1, <2>1, DropStep DEF DeleteSubTx
<1>2. Inv /\ ColInv /\ [CatNext]_catVars => [\A p \in Handlers : Step(p)]_catVars
  BY <1>1
<1> QED
  BY <1>2, CatInvariance, PTL DEF CatSpec, DeleteDropsReferences

\* The two transactions change the collections that referred to the subscription
\* and no other, and a refused rename changes none (SubTxKeepsCollections).
THEOREM TransactionsKeepCollections ==
    ASSUME CleanCols
    PROVE  CatSpec => SubTxKeepsCollections
<1> DEFINE Step(p) ==
             h[p].pc \in {"rename", "del"} /\ h'[p] # h[p] =>
                /\ OnlyReferrersChange(h[p].key)
                /\ (h[p].pc = "rename" /\ RenameConflict(subs, h[p].key, h[p].rec.name))
                      => cols' = cols
<1>1. ASSUME Inv, ColInv, [CatNext]_catVars, NEW p \in Handlers PROVE Step(p)
  <2> SUFFICES ASSUME h[p].pc \in {"rename", "del"}, h'[p] # h[p] PROVE Step(p)
    OBVIOUS
  <2>1. CASE UNCHANGED cols
    BY <2>1 DEF OnlyReferrersChange
  <2>2. CASE h[p].pc = "rename" /\ RenameSubTx(p)
    <3>1. CASE RenameConflict(subs, h[p].key, h[p].rec.name)
      BY <2>1, <2>2, <3>1 DEF RenameSubTx, colVars
    <3>2. CASE ~ RenameConflict(subs, h[p].key, h[p].rec.name)
      <4>1. h[p].rec.name \in SubNames
        BY <1>1, CatalogAssumptions DEF Inv, GoodLocal, Local, SubRec, Procs
      <4>2. updateCollectionsReferencingTx(h[p].key, h[p].rec.name)
        BY <2>2, <3>2 DEF RenameSubTx
      <4>3. OnlyReferrersChange(h[p].key)
        BY <1>1, <4>1, <4>2, ReplaceStep DEF OnlyReferrersChange
      <4> QED
        BY <3>2, <4>3
    <3> QED
      BY <3>1, <3>2
  <2>3. CASE h[p].pc = "del" /\ DeleteSubTx(p)
    <3>1. OnlyReferrersChange(h[p].key)
      BY <1>1, <2>3, DropStep DEF OnlyReferrersChange, DeleteSubTx
    <3> QED
      BY <2>3, <3>1
  <2> QED
    BY <1>1, <2>1, <2>2, <2>3, OwnTransaction
<1>2. Inv /\ ColInv /\ [CatNext]_catVars => [\A p \in Handlers : Step(p)]_catVars
  BY <1>1
<1> QED
  BY <1>2, CatInvariance, PTL DEF CatSpec, SubTxKeepsCollections
=============================================================================
