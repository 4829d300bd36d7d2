---------------------------- MODULE Collections ----------------------------
(***************************************************************************)
(* The collections ("combined subscriptions") of subx: the table           *)
(* "collections", its HTTP handlers (internal/server/collections.go), and  *)
(* the two rewrites of the references to subscriptions that the rename and *)
(* the deletion of a subscription run inside their own transactions        *)
(* (subs.go).  A collection's document is its name and the sequence of the *)
(* names of its subscriptions.  The steps are cut as in Subscriptions: one *)
(* per SQL statement.                                                      *)
(***************************************************************************)
EXTENDS Tables, Lists

CONSTANTS
    ColHandlers,      \* requests on collections in flight at a time
    ColNames,         \* names a client may send
    ColTrimSpace,     \* strings.TrimSpace on them
    ColSlashed,       \* the ones that contain "/"
    SubNames,         \* names a collection may refer to
    NotSent,          \* a JSON field the client did not send
    ColCreateBodies,  \* bodies of POST /api/collections
    ColPatchBodies,   \* bodies of PATCH /api/col/:name
    MaxColRequests    \* requests served in a behaviour

ColRowNames == ColNames \cup {""}
ColRec == [name : ColRowNames, subscriptions : Seq(SubNames)]

ASSUME ColsAssumptions ==
    /\ ColTrimSpace \in [ColNames -> ColRowNames]
    /\ ColSlashed \subseteq ColNames /\ "" \notin ColSlashed
    /\ NotSent \notin ColRowNames \cup Seq(SubNames)
    /\ ColCreateBodies \subseteq [name : ColNames, subscriptions : Seq(SubNames),
                                  position : {"", "top", "bottom"}]
    /\ ColPatchBodies \subseteq [name : ColRowNames \cup {NotSent},
                                 subscriptions : Seq(SubNames) \cup {NotSent}]
    /\ MaxColRequests \in Nat

VARIABLES
    cols,       \* the table
    nextColId,  \* its AUTOINCREMENT counter
    g,          \* where each handler is, and the document it holds
    colAsked    \* requests served so far

colVars == <<cols, nextColId, g, colAsked>>

NoCol == [name |-> "", subscriptions |-> <<>>]

ColIdle == [pc |-> "idle", key |-> "", rec |-> NoCol, position |-> "", pos |-> 0]

ColInit ==
    /\ cols = EmptyTable
    /\ nextColId = 1
    /\ g = [p \in ColHandlers |-> ColIdle]
    /\ colAsked = 0

-----------------------------------------------------------------------------
(* The handlers.                                                           *)

ColRequest(p) == g[p] = ColIdle /\ colAsked < MaxColRequests

ColBegin(p, state) ==
    /\ g' = [g EXCEPT ![p] = state]
    /\ colAsked' = colAsked + 1
    /\ UNCHANGED <<cols, nextColId>>

ColContinue(p, state) == g' = [g EXCEPT ![p] = state]

handleCreateCollection(p, body) ==
    LET name == ColTrimSpace[body.name] IN
    /\ ColRequest(p)
    /\ name # "" /\ name \notin ColSlashed
    /\ name \notin DOMAIN cols
    /\ ColBegin(p, [pc |-> "pos", key |-> name, position |-> body.position, pos |-> 0,
                    rec |-> [name |-> body.name, subscriptions |-> body.subscriptions]])

ColSent(value, old) == IF value = NotSent THEN old ELSE value

ColMerged(old, body) ==
    [name          |-> ColSent(body.name, old.name),
     subscriptions |-> ColSent(body.subscriptions, old.subscriptions)]

\* An empty name renames nothing, but it is merged into the document.
ColNewName(name, body) == IF body.name \in {NotSent, ""} THEN name ELSE body.name

handlePatchCollection(p, name, body) ==
    /\ ColRequest(p)
    /\ name \in DOMAIN cols
    /\ ColNewName(name, body) # name => ColNewName(name, body) \notin ColSlashed
    /\ ColBegin(p, [pc |-> IF ColNewName(name, body) # name THEN "dup" ELSE "pos",
                    key |-> name, rec |-> ColMerged(cols[name].rec, body),
                    position |-> "bottom", pos |-> 0])

handleDeleteCollection(p, name) ==
    /\ ColRequest(p)
    /\ name \in DOMAIN cols
    /\ ColBegin(p, [ColIdle EXCEPT !.pc = "del", !.key = name])

\* GetCollection(newName); a database error counts as "not taken".
ColDupCheck(p) ==
    /\ g[p].pc = "dup"
    /\ \/ g[p].rec.name \in DOMAIN cols /\ ColContinue(p, ColIdle)
       \/ ColContinue(p, [g[p] EXCEPT !.pc = "rename"])
    /\ UNCHANGED <<cols, nextColId, colAsked>>

RenameCollection(p) ==
    /\ g[p].pc = "rename"
    /\ IF RenameConflict(cols, g[p].key, g[p].rec.name) THEN UNCHANGED cols
       ELSE cols' = RenameRow(cols, g[p].key, g[p].rec.name, g[p].rec)
    /\ ColContinue(p, ColIdle)
    /\ UNCHANGED <<nextColId, colAsked>>

DeleteCollection(p) ==
    /\ g[p].pc = "del"
    /\ cols' = DeleteRow(cols, g[p].key)
    /\ ColContinue(p, ColIdle)
    /\ UNCHANGED <<nextColId, colAsked>>

ColUpsertPos(p) ==
    /\ g[p].pc = "pos"
    /\ \E q \in Positions :
          /\ NewPos(cols, g[p].position, q)
          /\ ColContinue(p, [g[p] EXCEPT !.pc = "write", !.pos = q])
    /\ UNCHANGED <<cols, nextColId, colAsked>>

UpsertCollection(p) ==
    /\ g[p].pc = "write"
    /\ cols' = Upsert(cols, g[p].key, g[p].rec, g[p].pos, nextColId)
    /\ nextColId' = NextId(cols, g[p].key, nextColId)
    /\ ColContinue(p, ColIdle)
    /\ UNCHANGED colAsked

ColDBError(p) ==
    /\ g[p].pc \in {"rename", "del", "pos", "write"}
    /\ ColContinue(p, ColIdle)
    /\ UNCHANGED <<cols, nextColId, colAsked>>

ColStep(p) ==
    \/ \E body \in ColCreateBodies : handleCreateCollection(p, body)
    \/ \E name \in ColRowNames \ {""}, body \in ColPatchBodies :
          handlePatchCollection(p, name, body)
    \/ \E name \in ColRowNames \ {""} : handleDeleteCollection(p, name)
    \/ ColDupCheck(p)
    \/ RenameCollection(p)
    \/ DeleteCollection(p)
    \/ ColUpsertPos(p)
    \/ UpsertCollection(p)
    \/ ColDBError(p)

\* The handlers die with the server process.
ColRestart ==
    /\ g' = [p \in ColHandlers |-> ColIdle]
    /\ UNCHANGED <<cols, nextColId, colAsked>>

-----------------------------------------------------------------------------
(* The rewrites of the references.                                         *)

RefersTo(rec, name) == \E i \in DOMAIN rec.subscriptions : rec.subscriptions[i] = name

\* Every occurrence of the old name is replaced, in place ...
ReplaceFirstRef(rec, old, new) ==
    LET hits == {i \in DOMAIN rec.subscriptions : rec.subscriptions[i] = old} IN
    [rec EXCEPT !.subscriptions =
        [i \in DOMAIN @ |-> IF i \in hits /\ \A j \in hits : i <= j THEN new ELSE @[i]]]

ReplaceRef(rec, old, new) ==
    [rec EXCEPT !.subscriptions =
        [i \in DOMAIN @ |-> IF @[i] = old THEN new ELSE @[i]]]

\* ... or filtered out.
DropRef(rec, name) ==
    [rec EXCEPT !.subscriptions = FilterSeq(@, SubNames \ {name})]

\* The loop of both rewrites.  The documents are listed first; then, in list
\* order, every document that refers to the name is upserted, rewritten, under
\* the name it carries (docs[n] is row n's rewritten document).  A document
\* that carries no name is skipped, the last one written under a name stays,
\* and a name that is not in the table gets a new row at the bottom.
Writers(t, name, k) == {n \in DOMAIN t : RefersTo(t[n].rec, name) /\ t[n].rec.name = k}

LastWriter(t, name, k) ==
    CHOOSE n \in Writers(t, name, k) :
        \A m \in Writers(t, name, k) \ {n} : Before(t[m], t[n])

FirstWriter(t, name, k) ==
    CHOOSE n \in Writers(t, name, k) :
        \A m \in Writers(t, name, k) \ {n} : Before(t[n], t[m])

Added(t, name) ==
    {k \in ColNames \ DOMAIN t : Writers(t, name, k) # {}}

\* How many rows the loop has added when it comes to k, counting k's.
AddRank(t, name, k) ==
    Cardinality({j \in Added(t, name) :
        j = k \/ Before(t[FirstWriter(t, name, j)], t[FirstWriter(t, name, k)])})

BottomPos(t) == CHOOSE q \in Positions : MaxPos(t, q)

WriteBackFirstOnly(t, name, docs, id) ==
    [k \in DOMAIN t |->
        IF /\ RefersTo(t[k].rec, name)
           /\ \A j \in DOMAIN t \ {k} : RefersTo(t[j].rec, name) => Before(t[k], t[j])
        THEN [t[k] EXCEPT !.rec = docs[k]] ELSE t[k]]

WriteBack(t, name, docs, id) ==
    [k \in DOMAIN t \cup Added(t, name) |->
        IF k \in Added(t, name)
        THEN [id  |-> id + AddRank(t, name, k) - 1,
              pos |-> BottomPos(t) + AddRank(t, name, k),
              rec |-> docs[LastWriter(t, name, k)]]
        ELSE IF k # "" /\ Writers(t, name, k) # {}
             THEN [t[k] EXCEPT !.rec = docs[LastWriter(t, name, k)]]
             ELSE t[k]]

WriteBackNextId(t, name, id) == id + Cardinality(Added(t, name))

updateCollectionsReferencingTx(old, new) ==
    /\ cols' = WriteBack(cols, old,
                         [n \in DOMAIN cols |-> ReplaceRef(cols[n].rec, old, new)],
                         nextColId)
    /\ nextColId' = WriteBackNextId(cols, old, nextColId)
    /\ UNCHANGED <<g, colAsked>>

removeSubscriptionFromCollectionsTx(name) ==
    /\ cols' = WriteBack(cols, name,
                         [n \in DOMAIN cols |-> DropRef(cols[n].rec, name)],
                         nextColId)
    /\ nextColId' = WriteBackNextId(cols, name, nextColId)
    /\ UNCHANGED <<g, colAsked>>
=============================================================================
