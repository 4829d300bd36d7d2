------------------------------- MODULE Nodes -------------------------------
(***************************************************************************)
(* The proxy node (internal/model/proxy.go) and the vocabulary the         *)
(* producers and parsers of proxy lines share.                             *)
(*                                                                         *)
(* A node is a function from field names to strings: a field that is       *)
(* missing or nil is outside its domain, and the field of a nested map is  *)
(* named by its path ("ws-opts.headers.Host"), as getNested names it.  A   *)
(* nested map is there when one of its fields is.  Booleans and numbers    *)
(* are the strings they are printed as; a list of one item is the item in  *)
(* brackets, but an ALPN list is the text it is joined to.  The pseudo     *)
(* field "decoded" tells whether the node has been through JSON (Clone, or *)
(* a Clash line): then every number is a float64 and every map a           *)
(* map[string]any; a node a line parser has just built holds ints and, for *)
(* headers, a map[string]string.  The type "external", the XHTTP transport *)
(* and the option include-unsupported-proxy are left out.                  *)
(*                                                                         *)
(* A line is a record: "pair" is name=type,server,port,...; "qx" is        *)
(* type=server:port,...,tag=name; "clash" is one map of a Clash document.  *)
(* Its options are a function from keys to values; positional fields stand *)
(* before them, each with or without quotes.                               *)
(*                                                                         *)
(* A function that may fail returns a set: empty for an error or a line    *)
(* that is left out, one element otherwise.                                *)
(***************************************************************************)
EXTENDS Naturals, Sequences, TLC

Has(n, f) == f \in DOMAIN n

(* The value of field f, or d when it is missing (GetString with d = "").  *)
Val(n, f, d) == IF Has(n, f) THEN n[f] ELSE d

Put(n, f, v) == (f :> v) @@ n

Drop(n, F) == [f \in DOMAIN n \ F |-> n[f]]

GetBool(n, f) == Val(n, f, "false") \in {"true", "1"}

When(cond, S) == IF cond THEN S ELSE {}

(* model.Proxy.Clone goes through JSON.                                    *)
Clone(n) == Put(n, "decoded", "true")

Nothing == [f \in {} |-> ""]

Only(cond, f) == IF cond THEN f ELSE Nothing

----------------------------------------------------------------------------
(* The conversions of single values, over the values the instances use.    *)

IsIP(s) == s = "1.2.3.4"

(* The credential of a Loon line whose end it has swallowed: the text of   *)
(* everything up to the line's last quote.                                 *)
Swallowed == "p=2\",...\"h2"

HasComma(s) == s \in {"p,w", "{peer}", Swallowed}

(* What stands before the = is the key of no option.                       *)
HasEquals(s) == s \in {"x=y", "u=1", "p=2", Swallowed}

(* strings.NewReplacer("=", "", ",", "") on a name.                        *)
StripName(s) == IF s = "x=y" THEN "xy" ELSE s

(* strings.ToLower and TrimSpace on a cipher.                              *)
Lower(s) == IF s = "AES-128-GCM" THEN "aes-128-gcm" ELSE s

(* The first run of digits of a bandwidth, 0 when there is none.           *)
FirstDigits(s) == CASE s = "100 Mbps" -> "100" [] s = "fast" -> "0" [] OTHER -> s

(* Port lists: normalizeProxy turns / into , and Surge writes ; instead.   *)
Commas(s) == IF s \in {"2000/3000", "2000;3000"} THEN "2000,3000" ELSE s
Semicolons(s) == IF s = "2000,3000" THEN "2000;3000" ELSE s
PortsOf(s) == CASE s = "2000,3000" -> {"2000", "3000"}
                [] s = "2000-3000" -> {"2000"}
                [] OTHER -> {s}

(* A list of one item, its item, and what is not a list.                   *)
Lists == ("[cdn.com]" :> "cdn.com") @@ ("[example.com]" :> "example.com")
         @@ ("[/p]" :> "/p") @@ ("[/]" :> "/") @@ ("[1.2.3.4]" :> "1.2.3.4")
IsList(v) == v \in DOMAIN Lists
Item(v) == Val(Lists, v, v)
Listed(v) == IF IsList(v) THEN v ELSE CHOOSE w \in DOMAIN Lists : Lists[w] = v

(* normalizeTransportPath                                                  *)
NormalPath(v) == CASE v = "p" -> "/p" [] v = "" -> "/" [] OTHER -> v

(* The hexadecimal form Quantumult X gives an ALPN list.                   *)
EncodeAlpn(v) == CASE v = "h2" -> "026832" [] v = "h3" -> "026833"

----------------------------------------------------------------------------
(* Tables of options.  A producer's table gives each option key the fields *)
(* it is filled from, the first present one counting; Emit prints the      *)
(* options of the fields that are present (appendIfPresent).               *)

Same(K) == [k \in K |-> <<k>>]

Emit(n, table) ==
    LET from(k) == {i \in DOMAIN table[k] : Has(n, table[k][i])}
        first(k) == CHOOSE i \in from(k) : \A j \in from(k) : i <= j
    IN [k \in {k \in DOMAIN table : from(k) # {}} |-> n[table[k][first(k)]]]

(* A parser's table gives each option key the field it sets and the line   *)
(* types whose grammar lists it; other options are dropped.                *)
Reads(field, types) == [field |-> field, types |-> types]

Read(opts, table, typ) ==
    LET keys == {k \in DOMAIN opts \cap DOMAIN table : typ \in table[k].types}
        key(f) == CHOOSE k \in keys : table[k].field = f
    IN [f \in {table[k].field : k \in keys} |-> opts[key(f)]]

(* The keys of K that the line's type reads hold a well-formed value.      *)
WellFormed(opts, table, typ, K, values) ==
    \A k \in K \cap DOMAIN opts \cap DOMAIN table :
        typ \in table[k].types => opts[k] \in values

Booleans == {"true", "false"}
Numerals == {"0", "1", "2", "3", "5", "6", "9", "15", "30"}

----------------------------------------------------------------------------
Quoted(v) == [val |-> v, quoted |-> TRUE]
Bare(v) == [val |-> v, quoted |-> FALSE]

(* A field cut at its comma: what is left of its quotes is part of the text.*)
Pieces(f) == IF f.quoted THEN <<Bare("\"p"), Bare("w\"")>> ELSE <<Bare("p"), Bare("w")>>

Line(form, typ, n, pos, opts) ==
    [form |-> form, type |-> typ, name |-> Val(n, "name", ""),
     server |-> Val(n, "server", ""), port |-> Val(n, "port", "0"),
     pos |-> pos, opts |-> opts]

PairLine(typ, n, pos, opts) == Line("pair", typ, n, pos, opts)
QxLine(typ, n, opts) == Line("qx", typ, n, <<>>, opts)
ClashLine(n) == Line("clash", n["type"], n, <<>>, n)

(* The address every parser of a line starts the node from.                *)
Addressed(l, typ) ==
    ("name" :> l.name) @@ ("type" :> typ) @@ ("server" :> l.server)
    @@ ("port" :> l.port) @@ ("decoded" :> "false")

(* A section of a nested map is there (GetMap(...) != nil).                *)
HasReality(n) == Has(n, "reality-opts.public-key") \/ Has(n, "reality-opts.short-id")
============================================================================
