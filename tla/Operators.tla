----------------------------- MODULE Operators -----------------------------
(***************************************************************************)
(* The operators a subscription or a collection runs over its nodes        *)
(* (internal/processor/processor.go, and the script operators, which do    *)
(* nothing).  "Resolve Domain Operator" has a module of its own            *)
(* (DomainResolver) and "Add Proxies From Subscription Operator" is in     *)
(* Pipeline, whose conversions it starts.                                  *)
(*                                                                         *)
(* A node is a function from its fields to texts.  A text is a sequence of *)
(* words, a blank being a word; a regular expression is one word, which it *)
(* matches wherever it stands, or does not compile.  An operator gives the *)
(* set of results it may have: a list, an error, or a panic.               *)
(***************************************************************************)
EXTENDS Naturals, Sequences, FiniteSets, SequencesExt

Ok(list) == [st |-> "ok", list |-> list]
Err      == [st |-> "err", list |-> <<>>]
Panic    == [st |-> "panic", list |-> <<>>]

Nil == <<"<nil>">>

(* Get and GetString of a missing field.                                   *)
Get(p, f)       == IF f \in DOMAIN p THEN p[f] ELSE Nil
GetString(p, f) == IF f \in DOMAIN p THEN p[f] ELSE <<>>
Set(p, f, v)    == [x \in DOMAIN p \cup {f} |-> IF x = f THEN v ELSE p[x]]

(* An argument, or its default when it is missing.                         *)
Arg(args, k, d) == IF k \in DOMAIN args THEN args[k] ELSE d

Keep(list, test(_)) == SelectSeq(list, test)
Each(list, f(_))    == [i \in DOMAIN list |-> f(list[i])]

IsBlank(w) == w = " "
TrimSpace(text) ==
    LET words == {i \in DOMAIN text : ~IsBlank(text[i])}
        first == CHOOSE i \in words : \A j \in words : i <= j
        last  == CHOOSE i \in words : \A j \in words : j <= i
    IN IF words = {} THEN <<>> ELSE SubSeq(text, first, last)

----------------------------------------------------------------------------
(* The vocabulary: flags and the codes they stand for, the key words of    *)
(* inferFlag, and the words that are not ASCII or mark a placeholder.      *)

flagEmojiMap == [HK |-> "(HK)", TW |-> "(TW)", CN |-> "(CN)"]
Flags        == {flagEmojiMap[c] : c \in DOMAIN flagEmojiMap}
keywords     == [hongkong |-> "HK", taiwan |-> "TW"]
Upper(w)     == IF w = "hk" THEN "HK" ELSE w
isASCII(t)   == \A i \in DOMAIN t : t[i] \notin Flags \cup {"(WS)", "non-ascii"}

isPlaceholderName(name) == \E i \in DOMAIN name : name[i] = "expire"

(* A word that compiles; what it matches and what replaces it.             *)
buildRegex(w)          == w # "("
MatchString(re, text)  == \E i \in DOMAIN text : text[i] = re
ReplaceAllString(re, text, now) ==
    FlattenSeq([i \in DOMAIN text |-> IF text[i] = re THEN now ELSE <<text[i]>>])

Digits == <<"0", "1", "2", "3", "4", "5", "6", "7", "8", "9">>
Words  == <<" ", "(", "-">> \o Digits \o
          <<"<nil>", "_", "a", "b", "expire", "hongkong", "taiwan", "undefined",
            "(CN)", "(HK)", "(TW)", "(WS)">>
Rank(w) == CHOOSE i \in DOMAIN Words : Words[i] = w

(* Go's order of strings.                                                  *)
Less(s, t) ==
    \/ IsStrictPrefix(s, t)
    \/ \E i \in DOMAIN s \cap DOMAIN t :
         Rank(s[i]) < Rank(t[i]) /\ \A j \in 1..(i - 1) : s[j] = t[j]

----------------------------------------------------------------------------
(* The filters.                                                            *)

UselessFilter(list) ==
    LET useful(p) ==
            /\ isASCII(GetString(p, "cipher")) /\ isASCII(GetString(p, "password"))
            /\ GetString(p, "network") # <<>> => isASCII(GetString(p, "host"))
            /\ ~isPlaceholderName(GetString(p, "name"))
    IN Keep(list, useful)

getFlag(name) ==
    IF name # <<>> /\ Head(name) \in Flags THEN <<Head(name)>> ELSE <<>>

regionFilter(args, list) ==
    LET regions == {Upper(w) : w \in args.value}
        kept(p) == LET flag == getFlag(GetString(p, "name"))
                   IN (\E c \in DOMAIN flagEmojiMap \cap regions : flag = <<flagEmojiMap[c]>>)
                        <=> Arg(args, "keep", TRUE)
    IN Keep(list, kept)

regexFilter(args, list) ==
    LET kept(p) == (\E re \in args.regex : buildRegex(re) /\ MatchString(re, GetString(p, "name")))
                     <=> Arg(args, "keep", TRUE)
    IN Keep(list, kept)

typeFilter(args, list) ==
    LET kept(p) == (GetString(p, "type") \in args.value) <=> Arg(args, "keep", TRUE)
    IN Keep(list, kept)

(* A rule is a tree, given as the sequence of its nodes with every node     *)
(* after its children and the root last; a node names its children by      *)
(* their places.  A rule is true or false of a proxy, or asks for the      *)
(* child of a NOT that has none, which panics.  EXISTS holds of every one. *)
matchRule(rule, p) ==
    LET value[n \in DOMAIN rule] ==
            LET node     == rule[n]
                child(i) == value[node.child[i]]
                first(v) == CHOOSE i \in DOMAIN node.child :
                               child(i) # v /\ \A j \in 1..(i - 1) : child(j) = v
                all(v)   == \A i \in DOMAIN node.child : child(i) = v
                holds    == CASE node.operator \in {"IN", "EQUALS"} -> Get(p, node.attr) \in node.value
                              [] node.operator = "CONTAINS" ->
                                   \E v \in node.value : MatchString(v[1], GetString(p, node.attr))
                              [] OTHER -> node.operator = "EXISTS"
            IN CASE node.operator = "AND" -> IF all("true") THEN "true" ELSE child(first("true"))
                 [] node.operator = "OR" -> IF all("false") THEN "false" ELSE child(first("false"))
                 [] node.operator = "NOT" ->
                      IF node.child = <<>> THEN "panic"
                      ELSE CASE child(1) = "true" -> "false"
                             [] child(1) = "false" -> "true"
                             [] OTHER -> "panic"
                 [] OTHER -> IF holds THEN "true" ELSE "false"
    IN value[Len(rule)]

conditionalFilter(args, list) ==
    LET kept(p) == matchRule(args.rule, p) = "true"
    IN CASE "rule" \notin DOMAIN args -> Err
         [] \E i \in DOMAIN list : matchRule(args.rule, list[i]) = "panic" -> Panic
         [] OTHER -> Ok(Keep(list, kept))

----------------------------------------------------------------------------
(* The operators that change nodes.                                        *)

(* ENABLED and DISABLED set a field, anything else leaves it.              *)
setIfPresent(p, args, f) ==
    CASE Arg(args, f, "") = "ENABLED" -> Set(p, f, <<"true">>)
      [] Arg(args, f, "") = "DISABLED" -> Set(p, f, <<"false">>)
      [] OTHER -> p

quickSettingOperator(args, list) ==
    LET hasPort(p) == GetString(p, "port") \notin {<<>>, <<"0">>}
        useful == IF Arg(args, "useless", FALSE) THEN Keep(UselessFilter(list), hasPort) ELSE list
        cert(p) == IF "scert" \in DOMAIN args THEN Set(p, "skip-cert-verify", args.scert) ELSE p
        version(p) == IF Arg(args, "ip-version", <<>>) = <<>> THEN p
                      ELSE Set(p, "ip-version", args["ip-version"])
        setting(p) == version(cert(setIfPresent(setIfPresent(p, args, "udp"), args, "tfo")))
    IN Each(useful, setting)

(* The first key word the name contains.                                   *)
inferFlag(name) ==
    LET found == {k \in DOMAIN keywords : MatchString(k, name)}
    IN CASE "hongkong" \in found -> <<flagEmojiMap[keywords.hongkong]>>
         [] "taiwan" \in found -> <<flagEmojiMap[keywords.taiwan]>>
         [] OTHER -> <<>>

getFlagByCode(text) ==
    IF Len(text) = 1 /\ Upper(text[1]) \in DOMAIN flagEmojiMap
    THEN <<flagEmojiMap[Upper(text[1])]>> ELSE <<>>

(* A name without a flag still gets the blank before it.                   *)
flagOperator(args, list) ==
    LET noFlag(name) == TrimSpace(SubSeq(name, 1 + Len(getFlag(name)), Len(name)))
        found(p) == CASE getFlag(p["name"]) # <<>> -> getFlag(p["name"])
                      [] getFlagByCode(GetString(p, "_subName")) # <<>> ->
                           getFlagByCode(GetString(p, "_subName"))
                      [] OTHER -> inferFlag(p["name"])
        tw(flag) == CASE flag # <<"(TW)">> -> flag
                      [] Arg(args, "tw", "<nil>") = "ws" -> <<"(WS)">>
                      [] Arg(args, "tw", "<nil>") = "" -> <<"(CN)">>
                      [] OTHER -> flag
        name(p) == IF Arg(args, "mode", "<nil>") = "remove" THEN noFlag(p["name"])
                   ELSE tw(found(p)) \o <<" ">> \o noFlag(p["name"])
        flagged(p) == Set(p, "name", name(p))
    IN Each(list, flagged)

(* sort.SliceStable for an order "before" of positions: an element stands  *)
(* behind those before it and those that were in front and are not after.  *)
SliceStable(list, before(_, _)) ==
    LET rank == [i \in DOMAIN list |-> Cardinality({j \in DOMAIN list :
                       before(list[j], list[i]) \/ (~before(list[i], list[j]) /\ j < i)})]
    IN [k \in DOMAIN list |-> list[CHOOSE i \in DOMAIN list : rank[i] = k - 1]]

(* shuffle may leave any order.                                            *)
shuffle(list) == {[i \in DOMAIN list |-> list[f[i]]] : f \in Permutations(DOMAIN list)}

ByName(order, p, q) ==
    IF order = "desc" THEN Less(GetString(q, "name"), GetString(p, "name"))
    ELSE Less(GetString(p, "name"), GetString(q, "name"))

(* Mutant: sort.Slice, which may turn equal elements round.                *)
SortUnstable(args, list) ==
    LET order == Arg(args, "order", "<nil>")
        before(p, q) == ByName(order, p, q)
    IN IF order = "random" THEN shuffle(list) ELSE {SliceStable(Reverse(list), before)}

sortOperator(args, list) ==
    LET order == Arg(args, "order", "<nil>")
        before(p, q) == ByName(order, p, q)
    IN IF order = "random" THEN shuffle(list) ELSE {SliceStable(list, before)}

(* The number of the first expression that matches, 0 for none.            *)
regexOrder(exprs, text) ==
    LET hits == {i \in DOMAIN exprs : MatchString(exprs[i], text)}
    IN IF hits = {} THEN 0 ELSE CHOOSE i \in hits : \A j \in hits : i <= j

RegexBefore(exprs, order, p, q) ==
    LET oP == regexOrder(exprs, GetString(p, "name"))
        oQ == regexOrder(exprs, GetString(q, "name"))
    IN \/ oP > 0 /\ oQ = 0
       \/ oP > 0 /\ oQ > 0 /\ oP < oQ
       \/ oP = 0 /\ oQ = 0 /\ order # "original" /\ ByName(order, p, q)

regexSortOperator(args, list) ==
    LET exprs == SelectSeq(args.expressions, buildRegex)
        before(p, q) == RegexBefore(exprs, Arg(args, "order", "asc"), p, q)
    IN SliceStable(list, before)

(* Every rule in its turn; to delete is to replace by nothing.             *)
Rewrite(rules, name) ==
    LET text[i \in 0..Len(rules)] ==
            CASE i = 0 -> name
              [] i > 0 /\ buildRegex(rules[i].expr) ->
                   ReplaceAllString(rules[i].expr, text[i - 1], Arg(rules[i], "now", Nil))
              [] OTHER -> text[i - 1]
    IN TrimSpace(text[Len(rules)])

regexRenameOperator(rules, list) ==
    LET renamed(p) == Set(p, "name", Rewrite(rules, GetString(p, "name")))
    IN Each(list, renamed)

(* The fields that make two nodes duplicates, joined by "_".               *)
joinFields(p, fields) ==
    FlattenSeq([i \in DOMAIN fields |->
        (IF i > 1 THEN <<"_">> ELSE <<>>)
        \o (IF fields[i] \in DOMAIN p THEN p[fields[i]] ELSE <<"-">>)])

(* A number in the template's words for the digits, with leading zeros.    *)
Digit(digits, d) == IF d < Len(digits) THEN digits[d + 1] ELSE "undefined"

(* Mutant: no zeros before a number below ten.                             *)
NumberUnpadded(digits, n, width) ==
    LET own == IF n < 10 THEN 1 ELSE width
    IN [k \in 1..own |-> Digit(digits, (n \div 10 ^ (own - k)) % 10)]

Number(digits, n, width) == [k \in 1..width |-> Digit(digits, (n \div 10 ^ (width - k)) % 10)]

FirstOfEach(list, key(_)) ==
    LET first(i) == \A j \in 1..(i - 1) : key(list[j]) # key(list[i])
    IN FlattenSeq([i \in DOMAIN list |-> IF first(i) THEN <<list[i]>> ELSE <<>>])

(* Duplicates are counted from 1, with as many digits as the largest count.*)
Numbered(args, list, key(_)) ==
    LET same(i) == {j \in DOMAIN list : key(list[j]) = key(list[i])}
        fits(w) == \A i \in DOMAIN list : Cardinality(same(i)) < 10 ^ w
        width == CHOOSE w \in 1..Len(list) : fits(w) /\ (w > 1 => ~fits(w - 1))
        num(i) == Number(Arg(args, "template", Digits), Cardinality({j \in same(i) : j <= i}), width)
        link == Arg(args, "link", <<"-">>)
        name(i) == CASE Arg(args, "position", "back") = "front" -> num(i) \o link \o GetString(list[i], "name")
                     [] Arg(args, "position", "back") = "back" -> GetString(list[i], "name") \o link \o num(i)
                     [] OTHER -> GetString(list[i], "name")
    IN [i \in DOMAIN list |->
          IF Cardinality(same(i)) > 1 THEN Set(list[i], "name", name(i)) ELSE list[i]]

handleDuplicateOperator(args, list) ==
    LET key(p) == joinFields(p, Arg(args, "field", <<"name">>))
    IN IF Arg(args, "action", "rename") = "delete" THEN FirstOfEach(list, key)
       ELSE Numbered(args, list, key)

----------------------------------------------------------------------------
(* The registry: what an operator of a type makes of a list.  A type that  *)
(* is not registered is an error.                                          *)
Run(op, list) ==
    CASE op.type = "Useless Filter" -> {Ok(UselessFilter(list))}
      [] op.type = "Region Filter" -> {Ok(regionFilter(op.args, list))}
      [] op.type = "Regex Filter" -> {Ok(regexFilter(op.args, list))}
      [] op.type = "Type Filter" -> {Ok(typeFilter(op.args, list))}
      [] op.type = "Conditional Filter" -> {conditionalFilter(op.args, list)}
      [] op.type \in {"Script Filter", "Script Operator"} -> {Ok(list)}
      [] op.type = "Quick Setting Operator" -> {Ok(quickSettingOperator(op.args, list))}
      [] op.type = "Flag Operator" -> {Ok(flagOperator(op.args, list))}
      [] op.type = "Sort Operator" -> {Ok(s) : s \in sortOperator(op.args, list)}
      [] op.type = "Regex Sort Operator" -> {Ok(regexSortOperator(op.args, list))}
      [] op.type = "Regex Rename Operator" -> {Ok(regexRenameOperator(op.args.rules, list))}
      [] op.type = "Regex Delete Operator" ->
           {Ok(regexRenameOperator([i \in DOMAIN op.args.rules |->
                                      [expr |-> op.args.rules[i].expr, now |-> <<>>]], list))}
      [] op.type = "Handle Duplicate Operator" -> {Ok(handleDuplicateOperator(op.args, list))}
      [] OTHER -> {Err}
============================================================================
