-------------------------------- MODULE Loon --------------------------------
(***************************************************************************)
(* The Loon lines: the producer (internal/producer/loon.go) and the parser *)
(* (internal/parser/loon.go).  Ciphers and secrets stand by position, the  *)
(* secrets in quotes; most option values are written without quotes, so a  *)
(* comma in one cuts the line at the wrong place.                          *)
(***************************************************************************)
EXTENDS Surge

loonSSCiphers == {"aes-128-gcm", "chacha20-ietf-poly1305"}

----------------------------------------------------------------------------
(* The groups of options the producer shares.                              *)

getLoonTlsProfile(n) ==
    LET own == Val(n, "_loon_tls_profile", "")
        fingerprint == Val(n, "client-fingerprint", "")
    IN CASE own \in {"default", "chrome", "ios18", "ios26"} -> own
         [] fingerprint = "chrome" -> "chrome"
         [] fingerprint = "ios" -> "ios26"
         [] OTHER -> ""

loonAppendTlsProfile(n) ==
    Only(getLoonTlsProfile(n) # "", "tls-profile" :> getLoonTlsProfile(n))

loonAppendAlpn(n) == Only(Val(n, "alpn", "") # "", Emit(n, Same({"alpn"})))

(* Unlike Surge, version 0 is refused too.                                 *)
LoonShadowTLSError(n) ==
    HasShadowTLS(n) /\ Val(n, "plugin-opts.version", "") \in {"0", "1"}

loonAppendShadowTLS(n) ==
    Only(HasShadowTLS(n),
         Emit(n, ("shadow-tls-password" :> <<"plugin-opts.password">>)
                 @@ ("shadow-tls-version" :> <<"plugin-opts.version">>)
                 @@ ("alpn" :> <<"plugin-opts.alpn", "alpn">>) @@ Same({"udp-port"}))
         @@ Only(Val(n, "plugin-opts.host", "") # "",
                 Emit(n, "shadow-tls-sni" :> <<"plugin-opts.host">>))
         @@ loonAppendTlsProfile(n))

loonAppendReality(n) ==
    Emit(n, Same({"sni"}) @@ ("public-key" :> <<"reality-opts.public-key">>)
            @@ ("short-id" :> <<"reality-opts.short-id">>))

(* The server's name and pins, or the keys of REALITY instead.             *)
LoonIdentity(n) ==
    IF HasReality(n)
    THEN loonAppendReality(n)
    ELSE Emit(n, ("tls-name" :> <<"sni">>) @@ ("tls-cert-sha256" :> <<"tls-fingerprint">>)
                 @@ Same({"tls-pubkey-sha256"}))

loonAppendBlockQuic(n) ==
    CASE Val(n, "block-quic", "") = "on" -> "block-quic" :> "true"
      [] Val(n, "block-quic", "") = "off" -> "block-quic" :> "false"
      [] OTHER -> Nothing

loonAppendIPMode(n) ==
    Only(Has(n, "ip-version"),
         "ip-mode" :> Val(surgeIpVersions, Val(n, "ip-version", ""), Val(n, "ip-version", "")))

(* udp is written only when it is on.                                      *)
LoonTail(n) ==
    Emit(n, "fast-open" :> <<"tfo">>) @@ loonAppendBlockQuic(n)
    @@ Only(GetBool(n, "udp"), "udp" :> "true") @@ loonAppendIPMode(n)

LoonTransportError(n) == Val(n, "network", "tcp") \notin {"tcp", "ws", "http"}

loonAppendTransport(n, fallbackTCP) ==
    LET network == Val(n, "network", "tcp")
    IN CASE network = "tcp" -> Only(fallbackTCP, "transport" :> "tcp")
         [] network = "ws" ->
              ("transport" :> "ws")
              @@ Emit(n, ("path" :> <<"ws-opts.path">>) @@ ("host" :> <<"ws-opts.headers.Host">>))
         [] OTHER ->
              LET o == Emit(n, ("path" :> <<"http-opts.path">>)
                               @@ ("host" :> <<"http-opts.headers.Host">>))
              IN ("transport" :> "http") @@ [k \in DOMAIN o |-> Item(o[k])]

formatLoonVmessSecurity(cipher) ==
    CASE cipher \in {"chacha20-poly1305", "chacha20-ietf-poly1305"} -> "chacha20-ietf-poly1305"
      [] cipher \in {"aes-128-gcm", "none"} -> cipher
      [] OTHER -> "auto"

----------------------------------------------------------------------------
(* The producer: one operator per type.                                    *)

loonShadowsocks(n) ==
    LET plugin == Val(n, "plugin", "shadow-tls")
    IN When(/\ Val(n, "cipher", "") \in loonSSCiphers
            /\ plugin \in {"obfs", "shadow-tls"}
            /\ ~LoonShadowTLSError(n),
            {PairLine("shadowsocks", n, <<Bare(n["cipher"]), Quoted(Val(n, "password", ""))>>,
                Only(plugin = "obfs",
                     ("obfs-name" :> Val(n, "plugin-opts.mode", ""))
                     @@ Emit(n, ("obfs-host" :> <<"plugin-opts.host">>)
                                @@ ("obfs-uri" :> <<"plugin-opts.path">>)))
                @@ loonAppendShadowTLS(n)
                @@ Only(GetBool(n, "udp-over-tcp") /\ Val(n, "udp-over-tcp-version", "") = "2"
                        /\ plugin # "obfs", "udp-over-tcp" :> "true")
                @@ LoonTail(n))})

loonShadowsocksR(n) ==
    When(~LoonShadowTLSError(n),
         {PairLine("shadowsocksr", n,
             <<Bare(Val(n, "cipher", "")), Quoted(Val(n, "password", ""))>>,
             ("protocol" :> Val(n, "protocol", "undefined"))
             @@ Emit(n, Same({"protocol-param", "obfs", "obfs-param"}))
             @@ loonAppendShadowTLS(n) @@ LoonTail(n))})

loonTrojan(n) ==
    When(~LoonTransportError(n),
         {PairLine("trojan", n, <<Quoted(Val(n, "password", ""))>>,
             loonAppendTransport(n, FALSE) @@ Emit(n, Same({"skip-cert-verify"}))
             @@ loonAppendTlsProfile(n) @@ loonAppendAlpn(n) @@ LoonIdentity(n) @@ LoonTail(n))})

(* isRawInteger: a number that came through JSON is no integer, and the    *)
(* nodes have all been cloned through JSON.                                *)
loonAnyTLS(n) ==
    {PairLine("anytls", n, <<Quoted(Val(n, "password", ""))>>,
        Only(n["decoded"] = "false", Emit(n, Same({"idle-session-timeout", "max-stream-count"})))
        @@ Emit(n, Same({"skip-cert-verify"})) @@ loonAppendTlsProfile(n) @@ loonAppendAlpn(n)
        @@ LoonIdentity(n) @@ LoonTail(n))}

loonVmess(n) ==
    When(~LoonTransportError(n),
         {PairLine("vmess", n,
             <<Bare(formatLoonVmessSecurity(Val(n, "cipher", ""))), Quoted(Val(n, "uuid", ""))>>,
             loonAppendTransport(n, TRUE)
             @@ Emit(n, ("over-tls" :> <<"tls">>) @@ Same({"skip-cert-verify"}))
             @@ Only(GetBool(n, "tls") \/ HasReality(n), loonAppendTlsProfile(n) @@ loonAppendAlpn(n))
             @@ LoonIdentity(n)
             @@ ("alterId" :> IF Has(n, "aead") THEN IF GetBool(n, "aead") THEN "0" ELSE "1"
                              ELSE Val(n, "alterId", ""))
             @@ LoonTail(n))})

loonVless(n) ==
    LET isXtls == Has(n, "flow")
    IN When(/\ Val(n, "encryption", "none") \in {"", "none"}
            /\ Val(n, "flow", "xtls-rprx-vision") = "xtls-rprx-vision"
            /\ ~LoonTransportError(n),
            {PairLine("vless", n, <<Quoted(Val(n, "uuid", ""))>>,
                loonAppendTransport(n, TRUE)
                @@ Emit(n, ("over-tls" :> <<"tls">>) @@ Same({"skip-cert-verify", "flow"}))
                @@ Only(GetBool(n, "tls") \/ HasReality(n) \/ isXtls,
                        loonAppendTlsProfile(n) @@ loonAppendAlpn(n))
                @@ LoonIdentity(n) @@ LoonTail(n))})

LoonAuth(n) ==
    (IF Has(n, "username") THEN <<Bare(n["username"])>> ELSE <<>>)
    \o (IF Has(n, "password") THEN <<Quoted(n["password"])>> ELSE <<>>)

loonHTTP(n) ==
    {PairLine(IF GetBool(n, "tls") THEN "https" ELSE "http", n, LoonAuth(n),
        Emit(n, Same({"sni", "skip-cert-verify", "tfo"}))
        @@ Only(GetBool(n, "tls"), loonAppendTlsProfile(n) @@ loonAppendAlpn(n))
        @@ loonAppendBlockQuic(n) @@ loonAppendIPMode(n))}

loonSocks5(n) ==
    {PairLine("socks5", n, LoonAuth(n),
        Emit(n, ("over-tls" :> <<"tls">>) @@ Same({"sni", "skip-cert-verify", "tfo"}))
        @@ Only(GetBool(n, "tls"), loonAppendTlsProfile(n) @@ loonAppendAlpn(n))
        @@ loonAppendBlockQuic(n) @@ Only(GetBool(n, "udp"), "udp" :> "true")
        @@ loonAppendIPMode(n))}

(* The first peer's fields replace the node's own; the peer is written as  *)
(* one bracketed option.                                                   *)
loonWireGuard(n) ==
    LET own(f, p) == IF Has(n, p) THEN n[p] ELSE Val(n, f, "")
        opt(k, v) == Only(v # "", k :> v)
    IN {Line("pair", "wireguard", "name" :> n["name"], <<>>,
            Emit(n, ("interface-ip" :> <<"peers.ip", "ip">>)
                    @@ ("interface-ipv6" :> <<"peers.ipv6", "ipv6">>)
                    @@ ("keepalive" :> <<"keepalive", "persistent-keepalive">>)
                    @@ Same({"private-key", "mtu", "dns"}))
            @@ ("peers" :> "{peer}")
            @@ ("peers.public-key" :> own("public-key", "peers.public-key"))
            @@ ("peers.server" :> own("server", "peers.server"))
            @@ ("peers.port" :> own("port", "peers.port"))
            @@ ("peers.allowed-ips" :> IF own("allowed-ips", "peers.allowed-ips") = "" THEN "all"
                                       ELSE own("allowed-ips", "peers.allowed-ips"))
            @@ opt("peers.reserved", own("reserved", "peers.reserved"))
            @@ opt("peers.preshared-key", own("preshared-key", "peers.pre-shared-key"))
            @@ loonAppendIPMode(n) @@ loonAppendBlockQuic(n))}

loonHysteria2(n) ==
    LET hidden == Val(n, "obfs-password", "") # ""
    IN When(hidden => Val(n, "obfs", "") = "salamander",
            {PairLine("Hysteria2", n,
                IF Has(n, "password") THEN <<Quoted(n["password"])>> ELSE <<>>,
                Only(Val(n, "ports", "") # "", Emit(n, "server-ports" :> <<"ports">>))
                @@ Only(Val(n, "hop-interval", "") # "", Emit(n, Same({"hop-interval"})))
                @@ Emit(n, ("tls-name" :> <<"sni">>) @@ ("tls-cert-sha256" :> <<"tls-fingerprint">>)
                           @@ Same({"tls-pubkey-sha256", "skip-cert-verify", "ecn"}))
                @@ loonAppendTlsProfile(n) @@ loonAppendAlpn(n)
                @@ Only(hidden, Emit(n, "salamander-password" :> <<"obfs-password">>))
                @@ Only(Has(n, "down"), "download-bandwidth" :> FirstDigits(Val(n, "down", "")))
                @@ LoonTail(n))})

loonProduceLine(n) ==
    LET t == n["type"]
    IN When(~HttpUpgrade(n),
            CASE t = "ss" -> loonShadowsocks(n)
              [] t = "ssr" -> loonShadowsocksR(n)
              [] t = "trojan" -> loonTrojan(n)
              [] t = "vmess" -> loonVmess(n)
              [] t = "vless" -> loonVless(n)
              [] t = "http" -> loonHTTP(n)
              [] t = "socks5" -> loonSocks5(n)
              [] t = "wireguard" -> loonWireGuard(n)
              [] t = "hysteria2" -> loonHysteria2(n)
              [] t = "anytls" -> When(Val(n, "network", "") \in {"", "tcp"}, loonAnyTLS(n))
              [] OTHER -> {})

----------------------------------------------------------------------------
(* The parser of a Loon line.                                              *)

loonTypeMap ==
    ("shadowsocks" :> "ss") @@ ("shadowsocksr" :> "ssr") @@ ("vmess" :> "vmess")
    @@ ("vless" :> "vless") @@ ("trojan" :> "trojan") @@ ("https" :> "http")
    @@ ("http" :> "http") @@ ("socks5" :> "socks5") @@ ("hysteria2" :> "hysteria2")
    @@ ("anytls" :> "anytls") @@ ("wireguard" :> "wireguard")

(* The type's name is compared in lower case.                              *)
LoonType(l) == IF l.type = "Hysteria2" THEN "hysteria2" ELSE l.type

loonCiphers == surgeSSCiphers \cup {"auto"}

loonTransportTypes == {"vmess", "vless", "trojan", "anytls"}
loonTLSKeywordTypes == loonTransportTypes \cup {"https", "socks5", "hysteria2"}
loonShadowTLSTypes == {"shadowsocks", "shadowsocksr"}

loonLineTest(l) ==
    /\ l.form = "pair" /\ ~HasEquals(l.name)
    /\ LoonType(l) \in DOMAIN loonTypeMap
    /\ LoonType(l) = "vmess" => "username" \notin DOMAIN l.opts

(* Keys are compared in lower case, so the option alterId is never read.   *)
loonOptions ==
    ReadAs({"obfs-param", "protocol-param"}, {"shadowsocksr"})
    @@ ("over-tls" :> Reads("tls", loonTransportTypes \cup {"socks5"}))
    @@ ("tls-name" :> Reads("sni", loonTLSKeywordTypes)) @@ ReadAs({"sni"}, loonTLSKeywordTypes)
    @@ ReadAs({"skip-cert-verify", "tls-pubkey-sha256"}, loonTLSKeywordTypes)
    @@ ("tls-cert-sha256" :> Reads("tls-fingerprint", loonTLSKeywordTypes))
    @@ ("tls-profile" :> Reads("_loon_tls_profile", loonTLSKeywordTypes \cup loonShadowTLSTypes))
    @@ ReadAs({"alpn"}, loonTLSKeywordTypes \cup loonShadowTLSTypes)
    @@ ("fast-open" :> Reads("tfo", DOMAIN loonTypeMap))
    @@ ReadAs({"udp"}, DOMAIN loonTypeMap)
    @@ ("ip-mode" :> Reads("ip-version", DOMAIN loonTypeMap))
    @@ ReadAs({"udp-port"}, loonShadowTLSTypes)
    @@ ReadAs({"shadow-tls-version"}, loonShadowTLSTypes)
    @@ ("public-key" :> Reads("reality-opts.public-key", loonTransportTypes))
    @@ ("short-id" :> Reads("reality-opts.short-id", loonTransportTypes))
    @@ ReadAs({"flow"}, {"vless"})
    @@ ReadAs({"ecn", "hop-interval"}, {"hysteria2"})
    @@ ("download-bandwidth" :> Reads("down", {"hysteria2"}))
    @@ ("server-ports" :> Reads("ports", {"hysteria2"}))
    @@ ("salamander-password" :> Reads("obfs-password", {"hysteria2"}))
    @@ ReadAs({"block-quic"}, DOMAIN loonTypeMap)
    @@ ReadAs({"idle-session-timeout", "max-stream-count"}, {"anytls"})
    @@ ReadAs({"udp-over-tcp"}, {"shadowsocks"})

loonBoolOptions == {"over-tls", "skip-cert-verify", "fast-open", "udp", "ecn", "block-quic",
                    "udp-over-tcp"}
loonIntOptions == {"udp-port", "shadow-tls-version", "hop-interval", "idle-session-timeout",
                   "max-stream-count"}

(* The client fingerprint a TLS profile stands for.                        *)
ProfileFingerprint(profile) ==
    CASE profile = "chrome" -> "client-fingerprint" :> "chrome"
      [] profile \in {"ios18", "ios26"} -> "client-fingerprint" :> "ios"
      [] OTHER -> Nothing

applyLoonParams(l, typ) ==
    LET o == l.opts
        read == Read(o, loonOptions, typ)
    IN When(/\ \A k \in DOMAIN o \ {"alpn", "public-key", "peers"} : ~HasComma(o[k])
            /\ WellFormed(o, loonOptions, typ, loonBoolOptions, Booleans)
            /\ WellFormed(o, loonOptions, typ, loonIntOptions, Numerals),
            {Drop(read, {"block-quic", "shadow-tls-version", "udp-over-tcp"})
             @@ ProfileFingerprint(Val(read, "_loon_tls_profile", ""))
             @@ Only(Has(read, "block-quic"),
                     "block-quic" :> IF Val(read, "block-quic", "") = "true" THEN "on" ELSE "off")
             @@ Only(Has(read, "obfs-password"), "obfs" :> "salamander")
             @@ Only(typ = "shadowsocksr" /\ Val(o, "obfs", "") \in {"plain", "http_simple"},
                     "obfs" :> Val(o, "obfs", ""))
             @@ Only(typ = "shadowsocksr" /\ Val(o, "protocol", "") \in {"origin", "auth_sha1_v4"},
                     "protocol" :> Val(o, "protocol", ""))
             @@ Only(Val(read, "udp-over-tcp", "") = "true",
                     ("udp-over-tcp" :> "true") @@ ("udp-over-tcp-version" :> "2"))})

normalizeLoonVmessSecurity(security) ==
    CASE security = "chacha20-ietf-poly1305" -> "chacha20-poly1305"
      [] security \in {"none", "auto", "aes-128-gcm"} -> security
      [] OTHER -> "auto"

(* The line ends in a quote: its last option is one in quotes, and no      *)
(* comma in quotes cuts it before.                                         *)
EndsInQuote(l) ==
    LET o == DOMAIN l.opts
        tail == {"short-id", "alterId", "fast-open", "tfo", "block-quic", "udp", "ip-mode",
                 "udp-port", "udp-over-tcp", "salamander-password", "download-bandwidth", "ecn"}
        identity == {"flow", "tls-cert-sha256", "tls-pubkey-sha256", "tls-name"}
    IN CASE "public-key" \in o -> o \cap tail = {}
         [] "alpn" \in o ->
              /\ o \cap (tail \cup When(LoonType(l) \in loonTransportTypes, identity)) = {}
              /\ Semicolons(Val(l.opts, "server-ports", "")) = Val(l.opts, "server-ports", "")
         [] OTHER -> /\ o = {"server-ports"}
                     /\ Semicolons(l.opts["server-ports"]) = l.opts["server-ports"]

(* The text in quotes of the i-th field, if it is in quotes.               *)
loonQuoted(l, i) ==
    LET f == splitSurgeFields(l)
    IN When(i \in DOMAIN f /\ f[i].quoted,
            IF Swallows(l) /\ l.opts # Nothing THEN When(EndsInQuote(l), {Swallowed})
            ELSE {f[i].val})

(* What stands by position.  A field with an = is taken for an option that *)
(* no grammar has, where a user name may stand.                            *)
LoonPositional(l, typ) ==
    LET f == splitSurgeFields(l)
    IN CASE typ \in {"shadowsocks", "shadowsocksr"} ->
                {("cipher" :> f[1].val) @@ ("password" :> s) :
                    s \in When(f[1].val \in loonCiphers, loonQuoted(l, 2))}
         [] typ = "vmess" ->
                {("cipher" :> normalizeLoonVmessSecurity(f[1].val)) @@ ("uuid" :> s) :
                    s \in loonQuoted(l, 2)}
         [] typ = "vless" -> {"uuid" :> s : s \in loonQuoted(l, 1)}
         [] typ \in {"trojan", "anytls", "hysteria2"} ->
                {"password" :> s : s \in loonQuoted(l, 1)}
         [] OTHER ->
                IF f = <<>> \/ HasEquals(f[1].val)
                THEN When(\A i \in DOMAIN f : HasEquals(f[i].val), {Nothing})
                ELSE {("username" :> f[1].val) @@ ("password" :> s) : s \in loonQuoted(l, 2)}

(* Paths and hosts of the HTTP transport become lists.                     *)
applyLoonTransport(l, typ) ==
    LET o == l.opts
        there(k) == Val(o, k, "") # ""
    IN CASE typ \notin loonTransportTypes -> Nothing
         [] Val(o, "transport", "") = "ws" ->
              ("network" :> "ws")
              @@ Only(there("path"), Emit(o, "ws-opts.path" :> <<"path">>))
              @@ Only(there("host"), Emit(o, "ws-opts.headers.Host" :> <<"host">>))
         [] Val(o, "transport", "") = "http" ->
              ("network" :> "http")
              @@ Only(there("path"), "http-opts.path" :> Listed(Val(o, "path", "")))
              @@ Only(there("host"), "http-opts.headers.Host" :> Listed(Val(o, "host", "")))
         [] OTHER -> Nothing

LoonObfs(l, typ) ==
    Only(typ = "shadowsocks" /\ Val(l.opts, "obfs-name", "") \in {"http", "tls"},
         ("plugin" :> "obfs")
         @@ Emit(l.opts, ("plugin-opts.mode" :> <<"obfs-name">>)
                         @@ Only(Val(l.opts, "obfs-host", "") # "", "plugin-opts.host" :> <<"obfs-host">>)
                         @@ Only(Val(l.opts, "obfs-uri", "") # "", "plugin-opts.path" :> <<"obfs-uri">>)))

loonShadowTLS_apply(l, n) ==
    When(Val(l.opts, "shadow-tls-version", "2") \notin {"0", "1"},
         {Drop(n, {"alpn"})
          @@ ("plugin" :> "shadow-tls")
          @@ Emit(l.opts, ("plugin-opts.password" :> <<"shadow-tls-password">>)
                          @@ ("plugin-opts.version" :> <<"shadow-tls-version">>))
          @@ Only(Val(l.opts, "shadow-tls-sni", "") # "",
                  Emit(l.opts, "plugin-opts.host" :> <<"shadow-tls-sni">>))
          @@ Emit(n, "plugin-opts.alpn" :> <<"alpn">>)})

(* The peer's address and keys are both the node's and its only peer's.    *)
parseLoonWireGuard(l) ==
    LET o == l.opts
        server == Emit(o, ("server" :> <<"peers.server">>) @@ ("port" :> <<"peers.port">>))
        n == ("name" :> l.name) @@ ("type" :> "wireguard") @@ ("udp" :> "true")
             @@ ("decoded" :> "false") @@ server
             @@ Emit(o, Same({"mtu", "keepalive", "dns"})
                        @@ ("reserved" :> <<"peers.reserved">>)
                        @@ ("allowed-ips" :> <<"peers.allowed-ips">>))
             @@ Only("dns" \in DOMAIN o, "remote-dns-resolve" :> "true")
             @@ ("private-key" :> Val(o, "private-key", "")) @@ ("ip" :> Val(o, "interface-ip", ""))
             @@ ("ipv6" :> Val(o, "interface-ipv6", ""))
             @@ ("public-key" :> Val(o, "peers.public-key", ""))
             @@ ("preshared-key" :> Val(o, "peers.preshared-key", ""))
    IN {n @@ Emit(n, ("peers.server" :> <<"server">>) @@ ("peers.port" :> <<"port">>)
                     @@ ("peers.ip" :> <<"ip">>) @@ ("peers.ipv6" :> <<"ipv6">>)
                     @@ ("peers.public-key" :> <<"public-key">>)
                     @@ ("peers.pre-shared-key" :> <<"preshared-key">>)
                     @@ ("peers.allowed-ips" :> <<"allowed-ips">>)
                     @@ ("peers.reserved" :> <<"reserved">>))}

(* Mutant: HTTP proxies are taken to carry no UDP.                         *)
LoonTypeFieldsNoUdp(typ) ==
    Only(typ = "vmess", "alterId" :> "0") @@ Only(typ = "https", "tls" :> "true")
    @@ Only(typ \in {"http", "https"}, "udp" :> "false")

(* The fields a type sets by itself.                                       *)
LoonTypeFields(typ) ==
    Only(typ = "vmess", "alterId" :> "0") @@ Only(typ = "https", "tls" :> "true")

parseLoonLine(line) ==
    LET typ == LoonType(line)
        l == IF Swallows(line) THEN [line EXCEPT !.opts = Nothing] ELSE line
        node(p, c) == applyLoonTransport(l, typ) @@ LoonObfs(l, typ)
                      @@ LoonTypeFields(typ) @@ p @@ c @@ Addressed(l, loonTypeMap[typ])
        built == {node(p, c) : p \in applyLoonParams(l, typ), c \in LoonPositional(line, typ)}
        shadow == typ \in loonShadowTLSTypes /\ Val(l.opts, "shadow-tls-password", "") # ""
    IN CASE typ = "wireguard" -> parseLoonWireGuard(l)
         [] shadow -> UNION {loonShadowTLS_apply(l, n) : n \in built}
         [] OTHER -> built
============================================================================
