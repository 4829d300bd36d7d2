------------------------------ MODULE Catalog ------------------------------
(***************************************************************************)
(* Subscriptions and collections together.  Every step belongs to one of   *)
(* the two components, except the two transactions of Store.WithTx: a      *)
(* subscription is renamed, or deleted, in the same transaction in which   *)
(* the references of all the collections are rewritten.                    *)
(***************************************************************************)
EXTENDS Subscriptions, Collections

ASSUME CatalogAssumptions == SubNames = RowNames

catVars == <<vars, colVars>>

CatInit == Init /\ ColInit

\* handlePatchSub's transaction: a refused rename rolls everything back.
RenameSubTxNoRollback(p) ==
    /\ RenameTx(p)
    /\ updateCollectionsReferencingTx(h[p].key, h[p].rec.name)

RenameSubTx(p) ==
    /\ RenameTx(p)
    /\ IF RenameConflict(subs, h[p].key, h[p].rec.name) THEN UNCHANGED colVars
       ELSE updateCollectionsReferencingTx(h[p].key, h[p].rec.name)

\* handleDeleteSub's transaction.
DeleteSubTx(p) ==
    /\ DeleteTx(p)
    /\ removeSubscriptionFromCollectionsTx(h[p].key)

CatNext ==
    \/ \E p \in Handlers : Arrive(p) /\ UNCHANGED colVars
    \/ \E p \in Procs : LocalStep(p) /\ UNCHANGED colVars
    \/ \E p \in Procs : RenameSubTx(p) \/ DeleteSubTx(p)
    \/ (tick \/ tickNext) /\ UNCHANGED colVars
    \/ \E p \in ColHandlers : ColStep(p) /\ UNCHANGED vars
    \/ Restart /\ ColRestart

CatSpec == CatInit /\ [][CatNext]_catVars

-----------------------------------------------------------------------------
(* Properties                                                              *)

Renames(p, old, new) ==
    /\ h[p].pc = "rename" /\ h[p].key = old /\ h[p].rec.name = new
    /\ h'[p].pc # "rename" /\ old \notin DOMAIN subs' /\ new \in DOMAIN subs'
    /\ old \in DOMAIN subs

\* "update every collection that references the old name so the references
\* don't silently break" (handlePatchSub): the step that moves a subscription
\* to a new name leaves no collection with the old one, and every collection
\* that had it has the new one, in the same place of its list.
RenameMovesReferences ==
    [][\A p \in Handlers, old, new \in RowNames :
          Renames(p, old, new) =>
             \A c \in DOMAIN cols :
                /\ c \in DOMAIN cols'
                /\ \A i \in DOMAIN cols[c].rec.subscriptions :
                      cols'[c].rec.subscriptions[i] =
                         IF cols[c].rec.subscriptions[i] = old THEN new
                         ELSE cols[c].rec.subscriptions[i]]_catVars

\* "so stale names don't linger in the merged output" (handleDeleteSub): the
\* step that deletes a subscription leaves no collection that refers to it and
\* keeps the other references and their order.
DeleteDropsReferences ==
    [][\A p \in Handlers :
          h[p].pc = "del" /\ h'[p] # h[p] /\ h[p].key \in DOMAIN subs \ DOMAIN subs' =>
             \A c \in DOMAIN cols :
                /\ c \in DOMAIN cols'
                /\ ~ RefersTo(cols'[c].rec, h[p].key)
                /\ cols'[c].rec = DropRef(cols[c].rec, h[p].key)]_catVars

\* Collections keep their rows and places, and only those change that referred
\* to the subscription.
OnlyReferrersChange(name) ==
    /\ DOMAIN cols' = DOMAIN cols
    /\ \A c \in DOMAIN cols :
          /\ cols'[c].id = cols[c].id /\ cols'[c].pos = cols[c].pos
          /\ cols'[c].rec # cols[c].rec => RefersTo(cols[c].rec, name)

\* A rename or deletion of a subscription adds no collection, loses none and
\* touches none that did not refer to it; and "a failure rolls the rename back"
\* (handlePatchSub): when the new name has been taken since the check, no
\* collection is touched at all.
SubTxKeepsCollections ==
    [][\A p \in Handlers :
          h[p].pc \in {"rename", "del"} /\ h'[p] # h[p] =>
             /\ OnlyReferrersChange(h[p].key)
             /\ (h[p].pc = "rename" /\ RenameConflict(subs, h[p].key, h[p].rec.name))
                   => cols' = cols]_catVars
=============================================================================
