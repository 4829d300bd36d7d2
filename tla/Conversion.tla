----------------------------- MODULE Conversion -----------------------------
(***************************************************************************)
(* Subscription content through the converter: ParseText                   *)
(* (internal/parser/parser.go) reads a document line by line, a producer   *)
(* writes the nodes for a target, and a further subscription may read what *)
(* was written, so the output of one conversion is the input of the next.  *)
(*                                                                         *)
(* Every line and every node carries, as a history, the node it was        *)
(* written from ("of"); for a line of the first document that is Nothing.  *)
(***************************************************************************)
EXTENDS Normalize, Functions

CONSTANTS Documents, Targets, MaxHops

VARIABLES phase,    \* "idle", "parse", "produce"
          todo,     \* the lines to parse or the nodes to produce, in order
          hint,     \* lastParser: the parser that read the last line
          nodes,    \* the nodes parsed so far: [node, of, line, by]
          lost,     \* the lines no parser could read
          via,      \* the target before this one
          target,   \* the target asked for
          output,   \* the lines produced so far: [line, of]
          hop       \* how many times the content was produced

vars == <<phase, todo, hint, nodes, lost, via, target, output, hop>>

----------------------------------------------------------------------------
(* The registry: init functions run in the order of the file names.        *)
registry == <<"clash", "surge", "loon", "qx">>

tryParse(p, l) ==
    LET read == CASE p = "clash" -> When(clashLineTest(l), parseClashLine(l))
                  [] p = "surge" -> When(surgeLineTest(l), parseSurgeLine(l))
                  [] p = "loon" -> When(loonLineTest(l), parseLoonLine(l))
                  [] p = "qx" -> When(qxLineTest(l), parseQXLine(l))
    IN {normalizeProxy(n) : n \in read}

(* What each parser makes of a line: nothing when it cannot read it.       *)
Readings(l) == [p \in Range(registry) |-> tryParse(p, l)]

(* The parser that reads the line, the hint before the others.             *)
FirstParser(readings, last) ==
    LET can == {i \in DOMAIN registry : readings[registry[i]] # {}}
    IN CASE last # "none" /\ readings[last] # {} -> last
         [] can = {} -> "none"
         [] OTHER -> registry[CHOOSE i \in can : \A j \in can : i <= j]

(* A Hysteria 2 node with an obfuscation but no password for it is dropped *)
(* after it was parsed.                                                    *)
Complete(n) ==
    n["type"] = "hysteria2" /\ Val(n, "obfs", "") # "" => Val(n, "obfs-password", "") # ""

ProduceLine(n, t) ==
    UNION {CASE t = "surge" -> surgeProduceLine(m)
             [] t = "surfboard" -> surfboardProduceLine(m)
             [] t = "loon" -> loonProduceLine(m)
             [] t = "qx" -> qxProduceLine(m) : m \in prepareProxies(n, t)}

----------------------------------------------------------------------------
Init ==
    /\ phase = "idle"
    /\ todo = <<>> /\ nodes = <<>> /\ lost = <<>> /\ output = <<>>
    /\ hint = "none" /\ via = "none" /\ target = "none" /\ hop = 0

Fetch(d) ==
    /\ phase = "idle"
    /\ phase' = "parse"
    /\ todo' = [i \in DOMAIN d |-> [line |-> ClashLine(d[i]), of |-> Nothing]]
    /\ hint' = "none" /\ nodes' = <<>> /\ lost' = <<>> /\ output' = <<>>
    /\ via' = "none" /\ target' = "none" /\ hop' = 0

TakeLine(item, readings, by) ==
    /\ hint' = IF by = "none" THEN hint ELSE by
    /\ LET kept == IF by = "none" THEN {} ELSE {n \in readings[by] : Complete(n)}
       IN IF kept = {}
          THEN lost' = Append(lost, item) /\ UNCHANGED nodes
          ELSE \E n \in kept :
                 /\ nodes' = Append(nodes, [node |-> n, of |-> item.of, line |-> item.line, by |-> by])
                 /\ UNCHANGED lost

(* One turn of ParseText's loop.                                           *)
ParseText ==
    /\ phase = "parse" /\ todo # <<>>
    /\ \E readings \in {Readings(Head(todo).line)} :
           TakeLine(Head(todo), readings, FirstParser(readings, hint))
    /\ todo' = Tail(todo)
    /\ UNCHANGED <<phase, via, target, output, hop>>

(* The content is asked for in a target's format.                          *)
Request(t) ==
    /\ phase = "parse" /\ todo = <<>> /\ hop < MaxHops
    /\ phase' = "produce" /\ via' = target /\ target' = t /\ hop' = hop + 1
    /\ todo' = [i \in DOMAIN nodes |-> nodes[i].node]
    /\ output' = <<>>
    /\ UNCHANGED <<hint, nodes, lost>>

(* One turn of a producer's loop: a node that cannot be written is skipped.*)
Produce ==
    /\ phase = "produce" /\ todo # <<>>
    /\ \E lines \in {ProduceLine(Head(todo), target)} :
           IF lines = {} THEN UNCHANGED output
           ELSE \E l \in lines : output' = Append(output, [line |-> l, of |-> Head(todo)])
    /\ todo' = Tail(todo)
    /\ UNCHANGED <<phase, hint, nodes, lost, via, target, hop>>

(* A subscription reads what was produced; nothing is known of its parser. *)
FeedBack ==
    /\ phase = "produce" /\ todo = <<>>
    /\ phase' = "parse" /\ todo' = output
    /\ hint' = "none" /\ nodes' = <<>> /\ lost' = <<>>
    /\ UNCHANGED <<via, target, output, hop>>

Close ==
    /\ phase = "parse" /\ todo = <<>>
    /\ phase' = "idle"
    /\ hint' = "none" /\ nodes' = <<>> /\ lost' = <<>> /\ output' = <<>>
    /\ via' = "none" /\ target' = "none" /\ hop' = 0 /\ UNCHANGED todo

Next ==
    \/ \E d \in Documents : Fetch(d)
    \/ ParseText
    \/ \E t \in Targets : Request(t)
    \/ Produce
    \/ FeedBack
    \/ Close

Spec == Init /\ [][Next]_vars

----------------------------------------------------------------------------
(* What a client needs to reach the server and what protects its traffic.  *)
Essential ==
    {"type", "server", "uuid", "username", "password", "psk", "token", "cipher",
     "alterId", "udp", "private-key", "public-key", "protocol", "protocol-param",
     "obfs", "obfs-param", "obfs-password", "flow", "network", "tls", "sni",
     "skip-cert-verify", "tls-fingerprint", "disable-sni", "ports", "hop-interval",
     "udp-over-tcp", "udp-over-tcp-version"}
    \cup {PathOf[t] : t \in DOMAIN PathOf} \cup {HostOf[t] : t \in DOMAIN HostOf}
    \cup {"h2-opts.host"}

RealityFields == {"reality-opts.public-key", "reality-opts.short-id"}
PluginFields == {"plugin", "plugin-opts.mode", "plugin-opts.host", "plugin-opts.path",
                 "plugin-opts.password", "plugin-opts.version", "plugin-opts.tls",
                 "plugin-opts.alpn"}
ObfsFields == {"obfs-opts.mode", "obfs-opts.host", "obfs-opts.path"}

(* Without TLS these say nothing.                                          *)
TlsOptions == {"sni", "skip-cert-verify", "tls-fingerprint", "alpn", "tls-alpn"}

Compared == Essential \cup RealityFields \cup PluginFields \cup ObfsFields

(* The user name and the password stand by position.                       *)
PositionalPair(n, t) == t \in {"surfboard", "loon"} /\ n["type"] \in {"http", "socks5"}

(* The fields a target's line does not carry, or that are not read from it *)
(* again.  Each line of this table is a limit of the format or a loss in   *)
(* the code; the README gives the places.                                  *)
Losses(n, t) ==
    LET typ == n["type"]
        sni == When(~GetBool(n, "tls"), TlsOptions)
               \cup When(GetBool(n, "disable-sni"), {"sni"})
               \cup When(t # "surge" /\ GetBool(n, "disable-sni"), {"disable-sni"})
        uot == When(t \in {"surge", "surfboard"}, {"udp-over-tcp", "udp-over-tcp-version"})
        version == When(t = "surge" /\ ~Has(n, "plugin-opts.version"), {"plugin-opts.version"})
        plugin == CASE t = "surge" -> When(typ = "anytls", PluginFields)
                    [] t = "surfboard" -> When(Val(n, "plugin", "") = "shadow-tls", PluginFields)
                    [] OTHER -> When(typ \notin {"ss", "ssr"}, PluginFields)
        hidden == When(t = "surge" /\ typ = "snell", ObfsFields)
        reality == When(<<t, typ>> \in {<<"surge", "anytls">>, <<"surfboard", "anytls">>, <<"surge", "trojan">>},
                        RealityFields)
        transport == When(t = "surge" /\ typ = "trojan" /\ Network(n) # "ws",
                          {"network", "h2-opts.host"} \cup {PathOf[x] : x \in DOMAIN PathOf}
                          \cup {HostOf[x] : x \in DOMAIN HostOf})
                     \cup When(typ = "anytls", {"network"})
        tls == When(t = "qx" /\ Network(n) = "http", {"tls"})
        host == When(t = "loon" /\ Network(n) = "http" /\ ~GetBool(n, "tls"), {HostOf.http})
        cipher == When(typ = "vmess" /\ (t = "surge" => Val(n, "cipher", "") = "none") /\ t # "loon", {"cipher"})
                  \cup When(typ = "vless", {"cipher"})
        udp == When(t = "loon" \/ typ \in {"anytls", "tuic", "hysteria2", "trusttunnel"}
                    \/ (t = "surfboard" /\ typ = "snell"), {"udp"})
        legacy == When(t = "loon" /\ typ = "vmess", {"alterId"})
        first == Val(n, "username", Val(n, "password", ""))
        auth == When(PositionalPair(n, t) /\ HasEquals(first), {"username", "password"})
        swallowed == When(t = "loon" /\ HasEquals(first) /\ HasEquals(Val(n, "password", "")),
                          CASE typ = "http" -> Compared \ {"type", "server", "tls"}
                            [] typ = "socks5" -> Compared \ {"type", "server"}
                            [] OTHER -> {})
        secret == When(typ \in {"trojan", "anytls"}
                       /\ \/ t = "loon" /\ HasEquals(Val(n, "password", ""))
                          \/ t \in {"loon", "qx"} /\ ~Has(n, "password"), {"password"})
    IN sni \cup uot \cup version \cup plugin \cup hidden \cup reality \cup transport \cup tls
       \cup host \cup cipher \cup udp \cup legacy
       \cup auth \cup swallowed \cup secret

(* A node read back from the line it was written as is the same node in    *)
(* every field that tells how to reach the server and how the traffic is   *)
(* protected, but for the losses listed above: no producer and parser of a *)
(* format disagree about an option's name, place, quoting or meaning.      *)
RoundTrip ==
    phase = "parse" => \A i \in DOMAIN nodes :
        LET of == nodes[i].of
        IN of # Nothing =>
             \A f \in Compared \ Losses(of, target) :
                 Val(nodes[i].node, f, "none") = Val(of, f, "none")

(* A line that was produced is read again, but for a comma in a user name  *)
(* or password of a Surge, Surfboard or Loon line, an = in a name of a     *)
(* Loon line, an = in a user name or password that stands by position, and *)
(* one of the two without the other where both do.                         *)
EveryLineReadBack ==
    phase = "parse" => \A i \in DOMAIN lost :
        LET of == lost[i].of
            secrets == {Val(of, "username", ""), Val(of, "password", "")}
        IN of # Nothing =>
             \/ target # "qx" /\ \E s \in secrets : HasComma(s)
             \/ target = "loon" /\ HasEquals(of["name"])
             \/ (target = "loon" \/ PositionalPair(of, target)) /\ \E s \in secrets : HasEquals(s)
             \/ PositionalPair(of, target) /\ (Has(of, "username") # Has(of, "password"))

(* Converting a second time for the same target changes nothing: what is   *)
(* read back is, field by field, what was read back the first time.  Two   *)
(* fields go the second time only: block-quic of an HTTP line of Loon,     *)
(* which is read as one of Surge, and disable-sni of a TUIC line of        *)
(* Surfboard, where the name that was taken for it is written instead; the *)
(* options of TLS do not matter for a node that has lost TLS itself, and   *)
(* Loon writes a password that was lost as an empty one.                   *)
Settles ==
    phase = "parse" /\ via = target /\ hop > 0 => \A i \in DOMAIN nodes :
        LET odd == When(target = "loon" /\ nodes[i].by = "surge", {"block-quic"})
                   \cup When(target = "surfboard" /\ nodes[i].node["type"] = "tuic", {"disable-sni"})
                   \cup When(~GetBool(nodes[i].node, "tls"), TlsOptions)
                   \cup When(target = "loon" /\ ~Has(nodes[i].of, "password"), {"password"})
        IN Drop(nodes[i].node, odd) = Drop(nodes[i].of, odd)

(* In a document that one producer wrote, what a line means does not       *)
(* depend on the lines before it: the parser that read the last line finds *)
(* the same node, in the fields compared, as the first parser in order.    *)
(* The one exception is a Trojan or AnyTLS line of Loon that ends in a     *)
(* password with an =: Surge's parser, which comes first, takes it for an  *)
(* option and drops it, Loon's does not.                                   *)
HintHarmless ==
    \A i \in DOMAIN nodes : \A readings \in {Readings(nodes[i].line)} :
        \A m \in readings[FirstParser(readings, "none")] :
            Drop(m, DOMAIN m \ Compared)
            = Drop(nodes[i].node, (DOMAIN nodes[i].node \ Compared)
                                  \cup When(nodes[i].line.type \in {"trojan", "anytls"}
                                            /\ Swallows(nodes[i].line), {"password"}))

(* A node Surge cannot express is left out of the list, never written with *)
(* its transport, REALITY or obfuscation silently gone.                    *)
NoSilentDowngrade ==
    phase = "parse" => \A i \in DOMAIN nodes :
        LET of == nodes[i].of
        IN of # Nothing /\ target = "surge" =>
             \A f \in {"network", "obfs-opts.mode"} \cup RealityFields :
                 Has(of, f) /\ of["type"] # "anytls" => Val(nodes[i].node, f, "none") = of[f]
============================================================================
