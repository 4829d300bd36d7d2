------------------------------ MODULE Pipeline ------------------------------
(***************************************************************************)
(* The conversion of a subscription or a collection: fetch, parse, run its *)
(* operators, produce (internal/pipeline, internal/share/resolve.go and    *)
(* the download handlers of internal/server).                              *)
(*                                                                         *)
(* A collection converts its members first, and the operator "Add Proxies  *)
(* From Subscription Operator" converts another source in the middle of a  *)
(* conversion, so a request is a stack of conversions; every one of them   *)
(* reads the store when it begins.  An edit may come between two of them.  *)
(* Nothing keeps sources from referring to each other in a circle.         *)
(*                                                                         *)
(* A line of a source is a node; one that no parser reads has no type.     *)
(* What the parsers and producers do to a node is in Conversion.           *)
(***************************************************************************)
EXTENDS Operators

CONSTANTS Catalogs,     \* the stores a request may find
          Requests,     \* the requests: [by, name, ops, known]
          MaxDepth,     \* bound: the conversions the goroutine's stack holds
          MaxEdits      \* bound: the deletions during one request

(* The sources of a store, as pairs of a kind and a name.                  *)
Present(c) == UNION {{<<kind, name>> : name \in DOMAIN c[kind]} : kind \in {"sub", "col"}}

IsList(s) == s \in Seq(Range(s))

Process(ops) == IsList(ops) /\ \A i \in DOMAIN ops : ops[i].disabled \in BOOLEAN

(* The goroutine's stack is far larger than what sources take that do not  *)
(* refer to each other in a circle.                                        *)
ASSUME PipelineAssumptions ==
    /\ MaxDepth \in Nat /\ MaxEdits \in Nat
    /\ \A c \in Catalogs :
          /\ c = [sub |-> c.sub, col |-> c.col]
          /\ \A s \in Present(c) : Process(c[s[1]][s[2]].process)
          /\ \A n \in DOMAIN c.col : IsList(c.col[n].subscriptions)
          /\ IsFiniteSet(Present(c)) /\ Cardinality(Present(c)) < MaxDepth
    /\ \A r \in Requests :
          r.by \in {"download", "sub", "col"} /\ r.known \in BOOLEAN /\ Process(r.ops)

VARIABLES catalog,      \* [sub, col]: the records by name
          down,         \* the subscriptions that cannot be fetched
          req,          \* the request being served
          stack,        \* the conversions under way, the innermost last
          answer,       \* what the client got
          edits,        \* how often the catalog was edited since the request
          acyclic       \* history: no source asked for itself when the request came

vars == <<catalog, down, req, stack, answer, edits, acyclic>>

None    == [st |-> "none", list |-> <<>>]
Crashed == [st |-> "crashed", list |-> <<>>]
NoReq   == [by |-> "nobody", name |-> "", ops |-> <<>>, known |-> TRUE]

Top == stack[Len(stack)]

(* Pipeline.Parse keeps the lines a parser can read.                       *)
Parse(raw) == LET readable(l) == "type" \in DOMAIN l IN Keep(raw, readable)

(* A conversion that begins: into tells where its result goes.             *)
Frame(kind, name, rec, ops, into) ==
    [kind |-> kind, name |-> name, ops |-> ops, into |-> into, list |-> <<>>,
     pc |-> IF kind = "sub" THEN "fetch" ELSE "members",
     raw |-> IF kind = "sub" THEN rec.content ELSE <<>>,
     todo |-> IF kind = "sub" THEN <<>> ELSE rec.subscriptions]

Begin(kind, name, ops, into) == Frame(kind, name, catalog[kind][name], ops, into)

----------------------------------------------------------------------------
AddProxies == "Add Proxies From Subscription Operator"

SourceKind(args) == IF Arg(args, "sourceType", "<nil>") \in {"collection", "col"} THEN "col" ELSE "sub"

Source(args) == <<SourceKind(args), Arg(args, "sourceName", "<nil>")>>

(* Where the pulled nodes go: instead of the others unless it says so.     *)
Position(args) ==
    LET position == Arg(args, "position", "replace")
    IN IF position \in {"front", "back"} THEN position ELSE "replace"

(* The sources that the source s of the store c asks for.                  *)
Asks(c, s) ==
    LET rec     == c[s[1]][s[2]]
        pulling == {i \in DOMAIN rec.process : ~rec.process[i].disabled /\ rec.process[i].type = AddProxies}
        members == IF s[1] = "sub" THEN {} ELSE {<<"sub", rec.subscriptions[i]>> : i \in DOMAIN rec.subscriptions}
    IN ({Source(rec.process[i].args) : i \in pulling} \cup members) \cap Present(c)

(* Every set of sources has one that asks for none of the set.             *)
Acyclic(c) ==
    LET asks == [s \in Present(c) |-> Asks(c, s)]
    IN \A S \in (SUBSET Present(c)) \ {{}} : \E s \in S : asks[s] \cap S = {}

----------------------------------------------------------------------------
Init ==
    /\ catalog \in Catalogs
    /\ down = {} /\ req = NoReq /\ stack = <<>> /\ answer = None /\ edits = 0
    /\ acyclic = TRUE

(* A subscription is looked for before a collection of that name.          *)
handleDownload(r) ==
    /\ r.by = "download"
    /\ LET kind == IF r.name \in DOMAIN catalog.sub THEN "sub" ELSE "col"
       IN IF r.name \in DOMAIN catalog[kind]
          THEN /\ stack' = <<Begin(kind, r.name, catalog[kind][r.name].process, "top")>>
               /\ UNCHANGED answer
          ELSE answer' = Err /\ UNCHANGED stack

(* A share token of the type r.by; the token's operators take the place of *)
(* the source's own.                                                       *)
Resolve(r) ==
    /\ r.by \in {"sub", "col"}
    /\ IF r.name \in DOMAIN catalog[r.by]
       THEN stack' = <<Begin(r.by, r.name, r.ops, "top")>> /\ UNCHANGED answer
       ELSE answer' = Err /\ UNCHANGED stack

Request(r, off) ==
    /\ req = NoReq
    /\ req' = r /\ down' = off /\ edits' = 0 /\ acyclic' = Acyclic(catalog)
    /\ handleDownload(r) \/ Resolve(r)
    /\ UNCHANGED catalog

(* Mutant: a failing member fails its collection.                          *)
FailAll(st) == stack' = <<>> /\ answer' = Err

(* A result or an error for whoever asked.  A member of a collection that  *)
(* fails is passed over; an error in a source that an operator pulls in is *)
(* an error of the conversion that has the operator.                       *)
Fail(st) ==
    LET members == {k \in DOMAIN st : st[k].into = "member"}
        last == CHOOSE k \in members : \A j \in members : j <= k
    IN IF members = {} THEN stack' = <<>> /\ answer' = Err
       ELSE stack' = SubSeq(st, 1, last - 1) /\ UNCHANGED answer

Becomes(frame) == stack' = [stack EXCEPT ![Len(stack)] = frame] /\ UNCHANGED answer

(* A Go stack that is used up ends the process.                            *)
Push(frame, callee) ==
    IF Len(stack) < MaxDepth
    THEN stack' = Append([stack EXCEPT ![Len(stack)] = frame], callee) /\ UNCHANGED answer
    ELSE stack' = <<>> /\ answer' = Crashed

(* Every node is tagged with the subscription it came from, but not when a *)
(* share token asks.                                                       *)
SubProxies ==
    /\ stack # <<>> /\ Top.pc = "fetch"
    /\ LET tagged(p) == Set(p, "_subName", <<Top.name>>)
           plain == Top.into = "top" /\ req.by # "download"
           nodes == Parse(Top.raw)
       IN IF Top.name \in down \/ (Top.into = "top" /\ ~req.known)
          THEN Fail(stack)
          ELSE Becomes([Top EXCEPT !.pc = "apply", !.list = IF plain THEN nodes ELSE Each(nodes, tagged)])
    /\ UNCHANGED <<catalog, down, req, edits, acyclic>>

(* One member of a collection; a name without a record is passed over.     *)
CollectionMember ==
    /\ stack # <<>> /\ Top.pc = "members" /\ Top.todo # <<>>
    /\ LET name == Head(Top.todo)
           rest == [Top EXCEPT !.todo = Tail(Top.todo)]
       IN IF name \in DOMAIN catalog.sub
          THEN Push(rest, Begin("sub", name, catalog.sub[name].process, "member"))
          ELSE Becomes(rest)
    /\ UNCHANGED <<catalog, down, req, edits, acyclic>>

(* All members are in: the nodes are tagged, none is an error.             *)
CollectionProxies ==
    /\ stack # <<>> /\ Top.pc = "members" /\ Top.todo = <<>>
    /\ LET tagged(p) == Set(p, "_collectionName", <<Top.name>>)
       IN IF Top.list = <<>> THEN Fail(stack)
          ELSE Becomes([Top EXCEPT !.pc = "apply", !.list = Each(Top.list, tagged)])
    /\ UNCHANGED <<catalog, down, req, edits, acyclic>>

----------------------------------------------------------------------------
(* Mutant: a source that is not there is looked up again.                  *)
AddProxiesAgain(frame) ==
    LET op == Head(frame.ops)
        kind == Source(op.args)[1]
        name == Source(op.args)[2]
    IN IF name = "" \/ name \notin DOMAIN catalog[kind]
       THEN Becomes(frame)
       ELSE Push([frame EXCEPT !.ops = Tail(frame.ops)],
                 Begin(kind, name, catalog[kind][name].process, Position(op.args)))

(* The operator asks for another source: LookupArtifactProxies.            *)
addProxiesFromSubscription(frame) ==
    LET op == Head(frame.ops)
        kind == Source(op.args)[1]
        name == Source(op.args)[2]
    IN IF name = "" \/ name \notin DOMAIN catalog[kind]
       THEN Fail(stack)
       ELSE Push([frame EXCEPT !.ops = Tail(frame.ops)],
                 Begin(kind, name, catalog[kind][name].process, Position(op.args)))

(* Apply: the next operator that is not disabled.  A panic ends the        *)
(* request wherever it happens.                                            *)
Apply ==
    /\ stack # <<>> /\ Top.pc = "apply" /\ Top.ops # <<>>
    /\ LET op == Head(Top.ops)
           rest == [Top EXCEPT !.ops = Tail(Top.ops)]
       IN CASE op.disabled -> Becomes(rest)
            [] ~op.disabled /\ op.type = AddProxies -> addProxiesFromSubscription(Top)
            [] OTHER -> \E out \in Run(op, Top.list) :
                 CASE out.st = "ok" -> Becomes([rest EXCEPT !.list = out.list])
                   [] out.st = "err" -> Fail(stack)
                   [] out.st = "panic" -> stack' = <<>> /\ answer' = Panic
    /\ UNCHANGED <<catalog, down, req, edits, acyclic>>

(* Where the nodes of a conversion go in the list of the one that asked.   *)
Merge(frame, done) ==
    CASE done.into \in {"member", "back"} -> frame.list \o done.list
      [] done.into = "front" -> done.list \o frame.list
      [] OTHER -> done.list

(* A source that is pulled in must not be empty; a collection is asked     *)
(* before its own operators run.                                           *)
Return ==
    /\ stack # <<>> /\ Top.pc = "apply" /\ Top.ops = <<>>
    /\ CASE Top.into = "top" ->
              /\ stack' = <<>>
              /\ answer' = IF req.known THEN Ok(Top.list) ELSE Err
         [] Top.into \notin {"top", "member"} /\ Top.kind = "sub" /\ Top.list = <<>> -> Fail(stack)
         [] OTHER ->
              LET n == Len(stack) - 1
              IN /\ stack' = [SubSeq(stack, 1, n) EXCEPT ![n].list = Merge(stack[n], Top)]
                 /\ UNCHANGED answer
    /\ UNCHANGED <<catalog, down, req, edits, acyclic>>

----------------------------------------------------------------------------
(* Another request deletes a source meanwhile.                             *)
Delete(kind, name) ==
    /\ stack # <<>> /\ edits < MaxEdits
    /\ catalog' = [catalog EXCEPT ![kind] = [n \in DOMAIN catalog[kind] \ {name} |-> catalog[kind][n]]]
    /\ edits' = edits + 1
    /\ UNCHANGED <<down, req, stack, answer, acyclic>>

(* The client has its answer, or the supervisor restarts the process.      *)
Close ==
    /\ answer # None
    /\ answer' = None /\ req' = NoReq /\ down' = {} /\ edits' = 0 /\ acyclic' = TRUE
    /\ UNCHANGED <<catalog, stack>>

Step == SubProxies \/ CollectionMember \/ CollectionProxies \/ Apply \/ Return

Next ==
    \/ \E r \in Requests : \E off \in SUBSET DOMAIN catalog.sub : Request(r, off)
    \/ Step
    \/ \E kind \in DOMAIN catalog : \E name \in DOMAIN catalog[kind] : Delete(kind, name)
    \/ Close

(* A conversion goes on: a fetch ends by its timeout at the latest.        *)
Spec == Init /\ [][Next]_vars /\ WF_vars(Step)

----------------------------------------------------------------------------
(* What a conversion means, by the structure of the catalog.  "meaning"    *)
(* holds the outcomes of the sources it may ask for.  What is not a list   *)
(* (an error, a panic, a stack used up) is not treated further.            *)

(* The nodes of an operator's source with those that are there.            *)
Joined(args, list, got) ==
    CASE got.st # "ok" -> got
      [] got.st = "ok" /\ got.list = <<>> /\ SourceKind(args) = "sub" -> Err
      [] OTHER -> CASE Position(args) = "front" -> Ok(got.list \o list)
                    [] Position(args) = "back" -> Ok(list \o got.list)
                    [] OTHER -> got

(* The outcomes of an operator.                                            *)
Outcomes(op, list, meaning) ==
    LET source == Source(op.args)
    IN IF op.disabled THEN {Ok(list)}
       ELSE IF op.type # AddProxies THEN Run(op, list)
       ELSE IF source[2] # "" /\ source \in DOMAIN meaning
            THEN {Joined(op.args, list, got) : got \in meaning[source]}
            ELSE {Err}

After(outcomes, op, meaning) ==
    UNION {IF o.st = "ok" THEN Outcomes(op, o.list, meaning) ELSE {o} : o \in outcomes}

(* The operators one after the other.                                      *)
Operated(outcomes, ops, meaning) ==
    LET done[i \in 0..Len(ops)] ==
            IF i = 0 THEN outcomes ELSE After(done[i - 1], ops[i], meaning)
    IN done[Len(ops)]

(* A member's nodes behind the others'; what fails counts for nothing.     *)
Gather(list, got) ==
    CASE got.st = "ok" -> Ok(list \o got.list)
      [] got.st = "err" -> Ok(list)
      [] OTHER -> got

With(outcomes, name, meaning) ==
    LET member == <<"sub", name>>
    IN IF member \notin DOMAIN meaning THEN outcomes
       ELSE UNION {IF o.st = "ok" THEN {Gather(o.list, got) : got \in meaning[member]} ELSE {o} : o \in outcomes}

Gathered(names, meaning) ==
    LET all[i \in 0..Len(names)] ==
            IF i = 0 THEN {Ok(<<>>)} ELSE With(all[i - 1], names[i], meaning)
    IN all[Len(names)]

TagSub(list, name) == LET tag(p) == Set(p, "_subName", <<name>>) IN Each(list, tag)
TagCol(list, name) == LET tag(p) == Set(p, "_collectionName", <<name>>) IN Each(list, tag)

Collected(name, got) ==
    CASE got.st # "ok" -> got
      [] got.st = "ok" /\ got.list = <<>> -> Err
      [] OTHER -> Ok(TagCol(got.list, name))

(* A source before its own operators; the nodes of a share link of a       *)
(* subscription carry no tag.                                              *)
Listed(c, off, s, plain, meaning) ==
    LET rec == c[s[1]][s[2]]
    IN IF s[1] = "col" THEN {Collected(s[2], got) : got \in Gathered(rec.subscriptions, meaning)}
       ELSE IF s[2] \in off THEN {Err}
       ELSE {Ok(IF plain THEN Parse(rec.content) ELSE TagSub(Parse(rec.content), s[2]))}

(* The outcomes of the sources of the store c, the subscriptions off being *)
(* out of reach, on a stack with room for d conversions.                   *)
Meaning(c, off) ==
    LET to[d \in 0..MaxDepth] ==
            [s \in Present(c) |->
                IF d = 0 THEN {Crashed}
                ELSE Operated(Listed(c, off, s, FALSE, to[d - 1]), c[s[1]][s[2]].process, to[d - 1])]
    IN to

(* The outcomes of the request.  A share link has operators of its own.    *)
Asked == <<IF req.by # "download" THEN req.by ELSE IF req.name \in DOMAIN catalog.sub THEN "sub" ELSE "col", req.name>>

AskedOps == IF req.by # "download" THEN req.ops ELSE catalog[Asked[1]][Asked[2]].process

Answers ==
    LET meaning == Meaning(catalog, down)[MaxDepth - 1]
    IN Operated(Listed(catalog, down, Asked, req.by = "sub", meaning), AskedOps, meaning)

Expected ==
    IF Asked \notin Present(catalog) \/ (~req.known /\ Asked[1] = "sub") THEN {Err}
    ELSE IF req.known THEN Answers
    ELSE {IF o.st = "ok" THEN Err ELSE o : o \in Answers}

(* The answer is what the sources mean.  However deep the conversions are  *)
(* nested, whichever members cannot be fetched, are missing or fail, and   *)
(* wherever an error or a panic happens: a collection is its members'      *)
(* nodes in order, each with its own operators done, and pulled nodes are  *)
(* the pulled source's, in the place the operator says.  And the process   *)
(* ends by it only when sources refer to each other in a circle, also when *)
(* a source is deleted under it.                                           *)
AnswersMatchReference ==
    /\ answer # None /\ edits = 0 => answer \in Expected
    /\ acyclic => answer # Crashed

(* A request for sources that do not refer to each other in a circle is    *)
(* answered, and never by the end of the process, also when a source is    *)
(* deleted under it.                                                       *)
ConversionsEnd ==
    (stack # <<>> /\ edits = 0 /\ acyclic) ~> (answer.st \in {"ok", "err", "panic"})

----------------------------------------------------------------------------
(* What one run of an operator promises.                                   *)

IsFilter(op) == op.type \in {"Useless Filter", "Region Filter", "Regex Filter", "Type Filter", "Conditional Filter"}

(* The filter that keeps what this one drops.                              *)
Opposite(op) == [op EXCEPT !.args = Set(op.args, "keep", ~Arg(op.args, "keep", TRUE))]

Count(list, p) == Cardinality({i \in DOMAIN list : list[i] = p})

Permuted(before, after) == \A p \in Range(before) \cup Range(after) : Count(before, p) = Count(after, p)

(* The order of nodes that the operator cannot tell apart is kept.         *)
StableBy(before, after, less(_, _)) ==
    /\ Permuted(before, after)
    /\ \A i, j \in DOMAIN after : i < j => ~less(after[j], after[i])
    /\ \A p \in Range(before) :
         LET alike(q) == ~less(p, q) /\ ~less(q, p) IN Keep(before, alike) = Keep(after, alike)

Contract(op, before, after) ==
    LET args == op.args
        order == Arg(args, "order", "<nil>")
        exprs == SelectSeq(Arg(args, "expressions", <<>>), buildRegex)
        byName(p, q) == ByName(order, p, q)
        byRegex(p, q) == RegexBefore(exprs, Arg(args, "order", "asc"), p, q)
        key(p) == joinFields(p, Arg(args, "field", <<"name">>))
        in(p) == p \in Range(after)
        noName(p) == [f \in DOMAIN p \ {"name"} |-> p[f]]
    IN /\ IsFilter(op) => after = Keep(before, in)
       /\ op.type \in {"Region Filter", "Regex Filter", "Type Filter"} =>
            \A o \in Run(Opposite(op), before) : Permuted(before, after \o o.list)
       /\ op.type = "Sort Operator" =>
            IF order = "random" THEN Permuted(before, after) ELSE StableBy(before, after, byName)
       /\ op.type = "Regex Sort Operator" => StableBy(before, after, byRegex)
       /\ op.type \in {"Regex Rename Operator", "Regex Delete Operator", "Flag Operator"} =>
            Each(before, noName) = Each(after, noName)
       /\ op.type = "Handle Duplicate Operator" =>
            IF Arg(args, "action", "rename") = "delete"
            THEN /\ \A i, j \in DOMAIN after : i # j => key(after[i]) # key(after[j])
                 /\ \A i \in DOMAIN before : \E j \in 1..i : key(before[j]) = key(before[i]) /\ in(before[j])
            ELSE /\ Each(before, noName) = Each(after, noName)
                 /\ Arg(args, "position", "back") \in {"front", "back"} /\ "template" \notin DOMAIN args =>
                      \A i, j \in DOMAIN before :
                          i < j /\ before[i]["name"] = before[j]["name"] /\ key(before[i]) = key(before[j])
                            => Less(after[i]["name"], after[j]["name"])

(* Run once more, these operators change nothing.  The flag WS is none     *)
(* that getFlag knows, so a flag of that kind is put on again; and of two  *)
(* flags each run removes one.                                             *)
Idempotent(op) ==
    \/ IsFilter(op) \/ op.type \in {"Quick Setting Operator", "Regex Sort Operator"}
    \/ op.type = "Sort Operator" /\ Arg(op.args, "order", "") # "random"
    \/ op.type = "Flag Operator" /\ Arg(op.args, "tw", "") # "ws" /\ Arg(op.args, "mode", "") # "remove"
    \/ op.type = "Handle Duplicate Operator" /\ Arg(op.args, "action", "rename") = "delete"

RunsOperator ==
    /\ stack # <<>> /\ stack' # <<>> /\ Top.pc = "apply" /\ Top.ops # <<>>
    /\ ~Head(Top.ops).disabled /\ Head(Top.ops).type # AddProxies
    /\ Len(stack') = Len(stack) /\ stack'[Len(stack)].ops = Tail(Top.ops)

(* Filters drop nodes and change none, with keep and without keep they     *)
(* share the list out; sorts are stable and lose nothing; of duplicates    *)
(* one is left, the first, or all get names of their own, whose order by   *)
(* name is that of the list, ten and more of them too; a rename touches    *)
(* nothing but names.  And what a member and its collection both run, as   *)
(* nodes go through several lists of operators, is done once.              *)
OperatorContracts ==
    [][RunsOperator =>
         LET op == Head(Top.ops)
             after == stack'[Len(stack)].list
         IN /\ Contract(op, Top.list, after)
            /\ Idempotent(op) => Run(op, after) = {Ok(after)}]_vars
============================================================================
