----------------------------- MODULE Normalize -----------------------------
(***************************************************************************)
(* What happens to every node on its way in and out: the reader of Clash   *)
(* documents (internal/parser/clash.go), the normalisation after any       *)
(* parser (internal/parser/normalize.go) and the one before any producer   *)
(* (internal/producer/produce.go).  Left out: IPv6 literals in brackets,   *)
(* keys in another case, the certificate file "_ca" may name, and the      *)
(* XHTTP transport.                                                        *)
(***************************************************************************)
EXTENDS Qx

(* The fields of a node's transport.                                       *)
Network(n) == Val(n, "network", "")
PathOf == [ws |-> "ws-opts.path", http |-> "http-opts.path", h2 |-> "h2-opts.path"]
HostOf == [ws |-> "ws-opts.headers.Host", http |-> "http-opts.headers.Host",
           h2 |-> "h2-opts.headers.Host"]
hostOf == [ws |-> "ws-opts.headers.host", http |-> "http-opts.headers.host",
           h2 |-> "h2-opts.headers.host"]

(* Set field f unless the node has it.                                     *)
Default(n, f, v) == IF Has(n, f) THEN n ELSE Put(n, f, v)

----------------------------------------------------------------------------
(* The reader of a Clash map.                                              *)

clashSupportedParserTypes ==
    {"ss", "ssr", "vmess", "vless", "socks5", "http", "snell", "trojan", "tuic",
     "hysteria2", "wireguard", "ssh", "anytls", "direct", "trusttunnel", "h2-connect"}

normalizeVmessSecurity(cipher) ==
    CASE Lower(cipher) \in {"auto", "none", "aes-128-gcm"} -> Lower(cipher)
      [] Lower(cipher) \in {"chacha20-ietf-poly1305", "chacha20-poly1305"} -> "chacha20-poly1305"
      [] OTHER -> "auto"

clashLineTest(l) == l.form = "clash"

(* Every field is taken over, some also under another name; a name that    *)
(* replaces its field counts only when it is not empty.                    *)
parseClashLine(l) ==
    LET o == l.opts
        given(f) == Val(o, f, "") # ""
        typ == o["type"]
        renamed ==
            Only(typ \in {"vmess", "vless"} /\ given("servername"), Emit(o, "sni" :> <<"servername">>))
            @@ Only(given("fingerprint") \/ given("server-cert-fingerprint"),
                    Emit(o, "tls-fingerprint" :> <<"fingerprint", "server-cert-fingerprint">>))
            @@ Only(given("dialer-proxy"), Emit(o, "underlying-proxy" :> <<"dialer-proxy">>))
            @@ Only(given("benchmark-url"), Emit(o, "test-url" :> <<"benchmark-url">>))
            @@ Only(given("benchmark-timeout"), Emit(o, "test-timeout" :> <<"benchmark-timeout">>))
            @@ Emit(o, "skip-cert-verify" :> <<"skip-cert-verify", "allow-insecure">>)
            @@ Only(typ = "vmess" /\ given("cipher"), "cipher" :> normalizeVmessSecurity(Val(o, "cipher", "")))
        keys == Only(typ = "wireguard",
                     Emit(o, ("persistent-keepalive" :> <<"persistent-keepalive", "keepalive">>)
                             @@ ("keepalive" :> <<"keepalive", "persistent-keepalive">>)
                             @@ ("preshared-key" :> <<"preshared-key", "pre-shared-key">>)
                             @@ ("pre-shared-key" :> <<"pre-shared-key", "preshared-key">>)))
        gone == {"allow-insecure"}
                \cup When(typ \in {"vmess", "vless"} /\ given("servername"), {"servername"})
    IN When(typ \in clashSupportedParserTypes,
            {Only(~given("name"), "name" :> typ \o " " \o Val(o, "server", ""))
             @@ ("decoded" :> "true") @@ Drop(renamed @@ keys @@ o, gone)})

----------------------------------------------------------------------------
(* normalizeProxy, in its order.                                           *)

NormalBasics(n) ==
    LET udp == IF Val(n, "udp", "true") \in {"false", "off", "0"} THEN "false" ELSE "true"
        ss == Only(n["type"] = "ss" /\ Lower(Val(n, "cipher", "")) = "none", "password" :> "")
    IN ("udp" :> udp)
       @@ Only(Has(n, "cipher"), "cipher" :> Lower(Val(n, "cipher", "")))
       @@ Only(Has(n, "interface"), Emit(n, "interface-name" :> <<"interface">>))
       @@ Drop(n, {"interface"}) @@ ss

(* Shadow-TLS given in its own section, or as an obfuscation of Snell,     *)
(* becomes the plugin; ALPN then moves into the plugin's options.          *)
NormalShadowTLS(n) ==
    LET opts == {"shadow-tls-opts.password", "shadow-tls-opts.version"}
        obfs == {"obfs-opts.mode", "obfs-opts.host", "obfs-opts.password",
                 "obfs-opts.version", "obfs-opts.alpn"}
        section == n["type"] \in {"vmess", "vless", "trojan", "anytls"} /\ DOMAIN n \cap opts # {}
        snell == n["type"] = "snell" /\ ~Has(n, "plugin") /\ Val(n, "obfs-opts.mode", "") = "shadow-tls"
        m == CASE section ->
                    ("plugin" :> "shadow-tls")
                    @@ Only(Val(n, "sni", "") # "", Emit(n, "plugin-opts.host" :> <<"sni">>))
                    @@ Emit(n, ("plugin-opts.password" :> <<"shadow-tls-opts.password">>)
                               @@ ("plugin-opts.version" :> <<"shadow-tls-opts.version">>))
                    @@ Drop(n, opts)
               [] snell ->
                    ("plugin" :> "shadow-tls")
                    @@ Emit(n, ("plugin-opts.host" :> <<"obfs-opts.host">>)
                               @@ ("plugin-opts.password" :> <<"obfs-opts.password">>)
                               @@ ("plugin-opts.version" :> <<"obfs-opts.version">>)
                               @@ ("plugin-opts.alpn" :> <<"obfs-opts.alpn">>))
                    @@ Drop(n, obfs)
               [] OTHER -> n
        hasOpts == \E f \in DOMAIN m : f \in {"plugin-opts.host", "plugin-opts.password",
                                              "plugin-opts.version", "plugin-opts.alpn"}
    IN IF Val(m, "plugin", "") = "shadow-tls" /\ hasOpts
       THEN Drop(m, {"alpn"}) @@ Only(Val(m, "alpn", "") # "", Emit(m, "plugin-opts.alpn" :> <<"alpn">>))
       ELSE m

tlsTypes == {"trojan", "tuic", "hysteria2", "anytls", "trusttunnel", "h2-connect"}

NormalDefaults(n) ==
    Only(n["type"] \in tlsTypes, "tls" :> "true")
    @@ n
    @@ Only(n["type"] \in {"trojan", "vmess", "vless"}, "network" :> "tcp")
    @@ Only(n["type"] = "vmess", ("cipher" :> "none") @@ ("alterId" :> "0"))

(* The WebSocket fields of old documents, paths that start with /, the     *)
(* header "host" spelt "Host"; for HTTP/2 a list beside the path.          *)
NormalTransport(n) ==
    LET net == Network(n)
        old == Only(net = "ws" /\ DOMAIN n \cap {PathOf.ws, HostOf.ws, hostOf.ws} = {},
                    Emit(n, (PathOf.ws :> <<"ws-path">>) @@ (HostOf.ws :> <<"ws-headers.Host">>)))
        m == IF net = "ws" THEN old @@ Drop(n, {"ws-path", "ws-headers.Host"}) ELSE n
        path == Only(net \in DOMAIN PathOf /\ Has(m, PathOf[net]),
                     PathOf[net] :> NormalPath(m[PathOf[net]]))
    IN CASE net \in {"ws", "http"} ->
              path @@ IF Has(m, HostOf[net]) THEN m
                      ELSE Emit(m, HostOf[net] :> <<hostOf[net]>>) @@ Drop(m, {hostOf[net]})
         [] net = "h2" ->
              LET own == Val(m, "h2-opts.host", "")
                  lifted == Val(m, hostOf.h2, Val(m, HostOf.h2, ""))
                  host == IF Has(m, "h2-opts.host") THEN own
                          ELSE IF IsList(lifted) THEN "" ELSE lifted
              IN Only(host # "", "h2-opts.host" :> Listed(host))
                 @@ [f \in DOMAIN path |-> Item(path[f])]
                 @@ Drop(m, {HostOf.h2, hostOf.h2})
         [] OTHER -> m

NormalPacket(n) ==
    CASE n["type"] \notin {"vmess", "vless"} \/ Has(n, "packet-encoding") -> n
      [] GetBool(n, "xudp") -> Put(n, "packet-encoding", "xudp")
      [] GetBool(n, "packet-addr") -> Put(n, "packet-encoding", "packetaddr")
      [] OTHER -> n

(* Without a name for TLS the transport's Host is taken, then a server     *)
(* that is a domain; an empty name is left alone.                          *)
NormalSni(n) ==
    LET net == Network(n)
        field == IF net = "h2" THEN "h2-opts.host" ELSE Val(HostOf, net, "none")
        host == Item(Val(n, field, ""))
    IN CASE ~GetBool(n, "tls") \/ Has(n, "sni") -> n
         [] host # "" -> Put(n, "sni", host)
         [] ~IsIP(Val(n, "server", "")) -> Put(n, "sni", Val(n, "server", ""))
         [] OTHER -> n

(* Without TLS the domain of the server is kept as the Host; a Host that   *)
(* is a list is not seen, and is replaced too.                             *)
KeepsHost(n) ==
    LET host == Val(n, HostOf[Network(n)], "") IN host # "" /\ ~IsList(host)

NormalHost(n) ==
    LET net == Network(n)
        server == Val(n, "server", "")
        listed == n["type"] \in {"vmess", "vless"} /\ net = "http"
    IN IF GetBool(n, "tls") \/ net \notin {"ws", "http"} \/ IsIP(server) \/ KeepsHost(n)
       THEN n
       ELSE Put(n, HostOf[net], IF listed THEN Listed(server) ELSE server)

NormalLists(n) ==
    LET fields == {PathOf.http, HostOf.http} \cap DOMAIN n
    IN IF n["type"] \in {"vmess", "vless"} /\ Network(n) = "http"
       THEN [f \in fields |-> Listed(n[f])] @@ n
       ELSE n

(* An empty flow goes with a node that has no REALITY keys.                *)
NormalFlow(n) ==
    IF n["type"] = "vless" /\ Val(n, "flow", "") = "" /\ (Has(n, "flow") => ~HasReality(n))
    THEN Drop(n, {"flow"}) ELSE n

NormalReuse(n) ==
    IF n["type"] = "anytls" /\ GetBool(n, "disable-reuse") THEN Put(n, "reuse", "false") ELSE n

NormalPorts(n) ==
    IF Val(n, "ports", "") # "" THEN Put(n, "ports", Commas(n["ports"])) ELSE Drop(n, {"ports"})

(* Another obfuscation than Salamander, without a password, is the         *)
(* password.                                                               *)
NormalHysteria2(n) ==
    LET odd == Val(n, "obfs", "") \notin {"", "salamander"} /\ ~Has(n, "obfs-password")
    IN IF n["type"] # "hysteria2" THEN n
       ELSE IF odd THEN ("obfs-password" :> n["obfs"]) @@ ("obfs" :> "salamander") @@ n
       ELSE IF Val(n, "obfs-password", "") = "" /\ Val(n, "obfs_password", "") # ""
            THEN Emit(n, "obfs-password" :> <<"obfs_password">>) @@ Drop(n, {"obfs_password"})
            ELSE n

(* A name that is empty or off means none is to be sent; a certificate     *)
(* given in full stands for its fingerprint.                               *)
NormalTls(n) ==
    LET ca == Emit(n, "ca-str" :> <<"ca-str", "ca_str">>)
    IN Only(Val(n, "sni", "none") \in {"", "off"}, "disable-sni" :> "true")
       @@ Only(ca # Nothing /\ Val(n, "tls-fingerprint", "") = "", "tls-fingerprint" :> "FP")
       @@ ca @@ Drop(n, When(~Has(n, "ca-str"), {"ca_str"}))

NormalTuic(n) ==
    IF n["type"] = "tuic"
    THEN n @@ ("alpn" :> "h3") @@ ("congestion-controller" :> "cubic") @@ ("udp-relay-mode" :> "native")
    ELSE n

(* The paths a transport without one gets.                                 *)
NormalPaths(n) ==
    CASE Network(n) \in {"ws", "h2"} -> Default(n, PathOf[Network(n)], "/")
      [] Network(n) = "http" -> Default(n, PathOf.http, "[/]")
      [] OTHER -> n

(* A range becomes its bounds, anything but a positive number goes.        *)
NormalHopInterval(n) ==
    LET v == Val(n, "hop-interval", "")
    IN CASE v = "15-30" -> ("hop-interval" :> "15") @@ ("hop-interval-max" :> "30") @@ n
         [] v \in Numerals \ {"0"} -> Drop(n, {"hop-interval-max"})
         [] Has(n, "hop-interval") -> Drop(n, {"hop-interval", "hop-interval-max"})
         [] OTHER -> n

(* The interface's addresses, for the instances' only peer; the length of  *)
(* the prefix is split off, or is the whole address.                       *)
backfillWireGuardPeers(n) ==
    LET missing(f, p) == Only(Val(n, f, "") = "" /\ Val(n, p, "") # "", Emit(n, f :> <<p>>))
    IN missing("ip", "peers.ip") @@ missing("ipv6", "peers.ipv6") @@ n

normalizeWireGuardInterface(n) ==
    LET m == Drop(n, When(Val(n, "ip", "") = "", {"ip-cidr"})
                     \cup When(Val(n, "ipv6", "") = "", {"ipv6-cidr"}))
    IN CASE Val(n, "ip", "") = "10.0.0.2/24" -> ("ip" :> "10.0.0.2") @@ m @@ ("ip-cidr" :> "24")
         [] Val(n, "ip", "") = "10.0.0.2" -> m @@ ("ip-cidr" :> "32")
         [] OTHER -> m

NormalName(n) ==
    IF Val(n, "name", "") # "" THEN n
    ELSE Put(n, "name", n["type"] \o " " \o Val(n, "server", "") \o ":" \o Val(n, "port", "0"))

NormalWireGuard(n) ==
    IF n["type"] = "wireguard" THEN normalizeWireGuardInterface(backfillWireGuardPeers(n)) ELSE n

NormalStart(n) == NormalDefaults(NormalShadowTLS(NormalBasics(n)))
NormalNames(n) == NormalLists(NormalHost(NormalSni(NormalPacket(NormalTransport(n)))))
NormalOptions(n) == NormalTls(NormalHysteria2(NormalPorts(NormalReuse(NormalFlow(n)))))
NormalEnd(n) == NormalWireGuard(NormalHopInterval(NormalPaths(NormalTuic(n))))

normalizeProxy(n) == NormalName(NormalEnd(NormalOptions(NormalNames(NormalStart(n)))))

----------------------------------------------------------------------------
(* prepareProxies: the nodes a target cannot take are left out, the others *)
(* cloned and adapted to the target.                                       *)

isQXLikeTarget(target) == target = "qx"

(* The headers a line parser has read are not a map[string]any: they are   *)
(* not seen.                                                               *)
hasRootProxyHeaders(n) == Has(n, "headers") /\ n["decoded"] = "true"
isRootHeaderSensitiveProxy(n) == n["type"] \in {"http", "h2-connect", "trusttunnel"}
supportsRootProxyHeaders(target) == target = "surge"

Supported == [surge |-> "supported.surge", surfboard |-> "supported.surfboard",
              loon |-> "supported.loon", qx |-> "supported.qx"]

TakenBy(n, target) ==
    /\ Val(n, Supported[target], "true") # "false"
    /\ hasRootProxyHeaders(n) /\ isRootHeaderSensitiveProxy(n) => supportsRootProxyHeaders(target)
    /\ isShadowsocksOverTls(n) => isQXLikeTarget(target)
    /\ n["type"] = "vless" /\ HasReality(n) => Val(n, "reality-opts.public-key", "") # ""

DisableSni(n, target) ==
    CASE ~GetBool(n, "disable-sni") -> n
      [] target = "surge" -> Put(n, "sni", "off")
      [] n["type"] = "tuic" -> n
      [] IsIP(Val(n, "server", "")) -> Put(n, "sni", n["server"])
      [] OTHER -> Put(n, "sni", "127.0.0.1")

(* A node without a port gets any of its ports.                            *)
getRandomPort(n) ==
    IF Val(n, "port", "0") = "0" THEN {Put(n, "port", p) : p \in PortsOf(n["ports"])} ELSE {n}

prepareProxies(n, target) ==
    When(TakenBy(n, target),
         LET c == NormalName(DisableSni(Clone(n), target))
             ready(m) == IF m["type"] = "wireguard" THEN normalizeWireGuardInterface(m) ELSE m
         IN {ready(m) : m \in IF Has(c, "ports") THEN getRandomPort(Put(c, "ports", Commas(c["ports"])))
                              ELSE {c}})
============================================================================
