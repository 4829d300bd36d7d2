-------------------------- MODULE MCSubscriptions --------------------------
(***************************************************************************)
(* Instances of Subscriptions for TLC.                                     *)
(***************************************************************************)
EXTENDS Subscriptions, TLC

MCNames == {"a", "b", "a/b"}
MCSlashed == {"a/b"}
MCTrimSpace == [n \in MCNames |-> n]

\* One subscription of each type, at either end of the list, and bodies that
\* must be refused.
Remote(name, url, cron, position) ==
    [name |-> name, source |-> "", url |-> url, ua |-> "", content |-> "",
     cron |-> cron, position |-> position]

MCCreateBodies ==
    {Remote("a", "u", "valid", ""), Remote("b", "u", "", "top"),
     Remote("a", "u", "invalid", ""), Remote("a/b", "u", "", ""),
     [name |-> "b", source |-> "local", url |-> "", ua |-> "",
      content |-> "text", cron |-> "", position |-> "bottom"]}

Nothing == [name |-> Absent, source |-> Absent, url |-> Absent, ua |-> Absent,
            content |-> Absent, cron |-> Absent]

\* Edits of the link, the User-Agent, the schedule, the type and the name.
MCPatchBodies ==
    {[Nothing EXCEPT !.url = "v"],
     [Nothing EXCEPT !.ua = "x"],
     [Nothing EXCEPT !.cron = "invalid"],
     [Nothing EXCEPT !.source = "local", !.content = "text", !.cron = "valid"],
     [Nothing EXCEPT !.source = "remote", !.url = "v", !.content = "text"],
     [Nothing EXCEPT !.name = "a"],
     [Nothing EXCEPT !.name = "b"],
     [Nothing EXCEPT !.name = "a/b"]}

\* A name with a blank in front of it.
PaddedNames == {"a", " a"}
PaddedTrimSpace == [n \in PaddedNames |-> "a"]
PaddedCreateBodies == {Remote(" a", "u", "", "")}
NoPatchBodies == {}

HandlerSymmetry == Permutations(Handlers)
=============================================================================
