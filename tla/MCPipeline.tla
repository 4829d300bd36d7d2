----------------------------- MODULE MCPipeline -----------------------------
(* Two subscriptions, two collections, every operator, requests by         *)
(* download and by share token, and sources that pull each other in.       *)
EXTENDS Pipeline

Op(type, args) == [type |-> type, args |-> args, disabled |-> FALSE]
Off(op)        == [op EXCEPT !.disabled = TRUE]
NoArgs         == [x \in {} |-> 0]
Add(type, name, pos) == Op(AddProxies, [sourceType |-> type, sourceName |-> name, position |-> pos])

Line(name, type, server) ==
    [name |-> name, type |-> <<type>>, server |-> <<server>>, port |-> <<"1">>]
Junk == [name |-> <<"a">>]

A1 == Line(<<"a">>, "ss", "1")
A2 == Line(<<"a">>, "vmess", "2")
Hong == Set(Line(<<"hongkong", " ", "a">>, "ss", "2"), "port", <<"0">>)
Tw == Line(<<"(TW)", " ", "b">>, "ss", "1")
TwoFlags == Set(Line(<<"(HK)", "(TW)", "taiwan">>, "ss", "1"), "password", <<"non-ascii">>)
Expired == Line(<<"expire">>, "ss", "1")

Content1 == {<<A1, A2, Tw>>, <<Hong, Junk, TwoFlags, Expired>>}
Content2 == <<A2, Tw>>

Leaf(o, a, v) == [operator |-> o, attr |-> a, value |-> v]
Node(o, c)    == [operator |-> o, child |-> c]  \* c: the places of the children
IsSS == Leaf("EQUALS", "type", {<<"ss">>})

Filters ==
    {Op("Useless Filter", NoArgs), Op("Region Filter", [value |-> {"hk", "TW"}]),
     Op("Region Filter", [value |-> {"TW"}, keep |-> FALSE]),
     Op("Regex Filter", [regex |-> {"a", "("}]), Op("Regex Filter", [regex |-> {"("}, keep |-> TRUE]),
     Op("Type Filter", [value |-> {<<"ss">>}, keep |-> FALSE]), Op("Script Filter", NoArgs),
     Op("Conditional Filter", NoArgs)}
    \cup {Op("Conditional Filter", [rule |-> r]) : r \in
           {<<IsSS, Node("NOT", <<1>>)>>, <<Node("NOT", <<>>)>>,
            <<IsSS, Node("NOT", <<>>), Node("OR", <<1, 2>>)>>,
            <<Leaf("CONTAINS", "name", {<<"a">>}), Leaf("EXISTS", "x", {}), IsSS, Node("AND", <<1, 2, 3>>)>>,
            <<Leaf("IN", "password", {Nil, <<"a">>})>>}}

Changes ==
    {Op("Quick Setting Operator", [useless |-> TRUE, udp |-> "ENABLED", tfo |-> "DEFAULT"]),
     Op("Quick Setting Operator", [scert |-> <<"true">>, udp |-> "DISABLED"]),
     Op("Flag Operator", NoArgs), Op("Flag Operator", [mode |-> "remove"]),
     Op("Flag Operator", [mode |-> "add", tw |-> "ws"]), Op("Flag Operator", [mode |-> "add", tw |-> ""]),
     Op("Regex Rename Operator", [rules |-> <<[expr |-> "(", now |-> <<"a">>], [expr |-> "a", now |-> <<"b", " ">>],
                                              [expr |-> "taiwan"]>>]),
     Op("Regex Delete Operator", [rules |-> <<[expr |-> "a"]>>]), Op("Script Operator", NoArgs)}

Orders ==
    {Op("Sort Operator", [order |-> o]) : o \in {"random", "desc", "asc"}}
    \cup {Op("Regex Sort Operator", [expressions |-> <<"b", "(", "a">>, order |-> o]) : o \in {"asc", "original"}}
    \cup {Op("Handle Duplicate Operator", x) : x \in
           {NoArgs, [action |-> "delete"], [field |-> <<"type", "password">>, action |-> "delete"],
            [position |-> "front", field |-> <<"type">>], [template |-> <<"0">>, position |-> "middle"]}}

Pulls ==
    {Add("subscription", "b", "front"), Add("collection", "c", "back"), Off(Add("subscription", "hk", "back")),
     Op(AddProxies, [sourceName |-> "hk"]), Op(AddProxies, NoArgs), Add("collection", "d", "replace")}

Ops == Filters \cup Changes \cup Orders
Unknown == Op("No Such Operator", NoArgs)

Sub(content, process) == [content |-> content, process |-> process]
Col(subs, process)    == [subscriptions |-> subs, process |-> process]
Store(s1, s2, c)      == [sub |-> [hk |-> s1, b |-> s2],
                          col |-> [c |-> c, d |-> Col(<<"gone", "hk", "b">>, <<>>)]]

Dedup == Op("Handle Duplicate Operator", NoArgs)

(* More duplicates than one digit can number.                              *)
Ten == [i \in 1..10 |-> A1]

MCCatalogs ==
    {Store(Sub(Ten, <<Op("Handle Duplicate Operator", x)>>), Sub(Content2, <<>>), Col(<<"hk">>, <<>>)) :
        x \in {NoArgs, [position |-> "front", link |-> <<"_">>], [template |-> <<"0", "1">>]}}
    \cup
    {Store(Sub(c, <<o>>), Sub(Content2, <<>>), Col(<<"hk", "b">>, <<o>>)) : c \in Content1, o \in Ops}
    \cup {Store(Sub(<<A1, Tw>>, p), Sub(Content2, <<q, Dedup>>), Col(<<"b", "hk">>, <<Unknown>>)) :
             p \in {<<>>, <<Unknown>>}, q \in Pulls}
    \cup {Store(Sub(<<A1, Tw>>, <<p>>), Sub(Content2, <<q>>), Col(<<"b">>, <<Dedup>>)) :
             p \in Pulls, q \in {Off(Unknown), Op("Regex Filter", [regex |-> {"("}])}}
    \cup {Store(Sub(<<A1, Tw>>, <<p>>), Sub(Content2, <<q>>), Col(<<"hk">>, <<>>)) : p, q \in Pulls}

MCRequests ==
    {[by |-> "download", name |-> n, ops |-> <<>>, known |-> TRUE] : n \in {"hk", "c", "d", "gone"}}
    \cup {[by |-> "download", name |-> n, ops |-> <<>>, known |-> FALSE] : n \in {"hk", "c"}}
    \cup {[by |-> "sub", name |-> "hk", ops |-> <<Op("Flag Operator", NoArgs)>>, known |-> TRUE],
          [by |-> "col", name |-> "c", ops |-> <<Dedup>>, known |-> TRUE],
          [by |-> "col", name |-> "gone", ops |-> <<>>, known |-> TRUE]}
============================================================================
