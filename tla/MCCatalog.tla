----------------------------- MODULE MCCatalog -----------------------------
(***************************************************************************)
(* Instances of Catalog for TLC: subscriptions "a" and "b", collections    *)
(* "c" and "d" that refer to them.                                         *)
(***************************************************************************)
EXTENDS Catalog, TLC

MCNames == {"a", "b"}
MCTrimSpace == [n \in MCNames |-> n]
MCSubNames == MCNames \cup {""}

\* Local subscriptions are saved in one go; the remote one is fetched, so that
\* a refresh can be under way when it is renamed or deleted.
MCCreateBodies ==
    {[name |-> "a", source |-> "remote", url |-> "u", ua |-> "", content |-> "",
      cron |-> "", position |-> ""],
     [name |-> "b", source |-> "local", url |-> "", ua |-> "", content |-> "text",
      cron |-> "", position |-> "top"]}

Nothing == [name |-> Absent, source |-> Absent, url |-> Absent, ua |-> Absent,
            content |-> Absent, cron |-> Absent]
MCPatchBodies == {[Nothing EXCEPT !.name = n] : n \in MCNames}

MCColNames == {"c", "d", "c/d"}
MCColSlashed == {"c/d"}
MCColTrimSpace == [n \in MCColNames |-> n]
MCColCreateBodies ==
    {[name |-> "c", subscriptions |-> <<"a", "b", "a">>, position |-> ""],
     [name |-> "d", subscriptions |-> <<"b">>, position |-> "top"]}
MCColPatchBodies ==
    {[name |-> "d", subscriptions |-> NotSent],
     [name |-> "c/d", subscriptions |-> NotSent],
     [name |-> NotSent, subscriptions |-> <<"b", "a">>]}

\* A rename that carries no list of subscriptions.
RenameColPatch == {[name |-> "d", subscriptions |-> NotSent]}

\* Requests in flight are told apart by nothing but their names.
HandlerSymmetry == Permutations(Handlers)
=============================================================================
