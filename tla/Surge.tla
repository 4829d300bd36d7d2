------------------------------- MODULE Surge -------------------------------
(***************************************************************************)
(* The Surge lines: the producers for Surge and Surfboard                  *)
(* (internal/producer/surge.go, surfboard.go) and the parser of such lines *)
(* (internal/parser/surge.go).  The options are named after the line's     *)
(* grammar; the quotes around a value only matter for a comma in it, which *)
(* the parser refuses in any option but headers and ALPN.  A header map    *)
(* holds at most the Host header (ws-headers) or is one opaque value.      *)
(***************************************************************************)
EXTENDS Nodes

LOCAL INSTANCE SequencesExt

surgeIpVersions ==
    ("dual" :> "dual") @@ ("ipv4" :> "v4-only") @@ ("ipv6" :> "v6-only")
    @@ ("ipv4-prefer" :> "prefer-v4") @@ ("ipv6-prefer" :> "prefer-v6")

(* The ciphers of the instances that Surge accepts for Shadowsocks.        *)
surgeSSCiphers == {"aes-128-gcm", "chacha20-ietf-poly1305", "none"}

----------------------------------------------------------------------------
(* The groups of options the producers share.                              *)

(* Mutant: a value that already is Surge's own is not passed on.           *)
IPVersionTableOnly(n) ==
    Only(Has(n, "ip-version"), "ip-version" :> Val(surgeIpVersions, n["ip-version"], ""))

surgeIPVersion(n) ==
    Only(Has(n, "ip-version"),
         "ip-version" :> Val(surgeIpVersions, n["ip-version"], n["ip-version"]))

surgeIPVersionNoErrorAlert(n) ==
    surgeIPVersion(n) @@ Emit(n, Same({"no-error-alert"}))

surgeTestFields(n) ==
    Emit(n, Same({"test-url", "test-timeout", "test-udp", "hybrid", "tos"}))

surgeInterfaceFields(n) ==
    Emit(n, Same({"allow-other-interface"})
            @@ ("interface" :> <<"interface", "interface-name">>))

surgeCommon(n) ==
    Emit(n, Same({"tfo"}) @@ ("udp-relay" :> <<"udp">>))
    @@ surgeTestFields(n) @@ surgeInterfaceFields(n)

surgeBlockUnderlying(n) == Emit(n, Same({"block-quic", "underlying-proxy"}))

appendSurgeAlpn(n) == Only(Val(n, "alpn", "") # "", Emit(n, Same({"alpn"})))

appendTlsProxyParams(n, enabled) ==
    Only(enabled,
         Emit(n, Same({"sni", "skip-cert-verify"})
                 @@ ("server-cert-fingerprint-sha256" :> <<"tls-fingerprint">>)
                 @@ ("server-cert-verify-name" :> <<"name-cert-verify">>)
                 @@ ("client-cert" :> <<"keystore-client-cert", "client-cert">>))
         @@ Only(Val(n, "plugin", "") # "shadow-tls", appendSurgeAlpn(n)))

(* Shadow-TLS is written only with a password; a version below 2 is an     *)
(* error, no version (or 0) is not written.                                *)
HasShadowTLS(n) ==
    Val(n, "plugin", "") = "shadow-tls" /\ Val(n, "plugin-opts.password", "") # ""
ShadowTLSError(n) == HasShadowTLS(n) /\ Val(n, "plugin-opts.version", "") = "1"

appendShadowTLS(n, includeUdpPort) ==
    Only(HasShadowTLS(n),
         Emit(n, ("shadow-tls-password" :> <<"plugin-opts.password">>)
                 @@ ("alpn" :> <<"plugin-opts.alpn", "alpn">>))
         @@ Only(Val(n, "plugin-opts.host", "") # "",
                 Emit(n, "shadow-tls-sni" :> <<"plugin-opts.host">>))
         @@ Only(Val(n, "plugin-opts.version", "0") # "0",
                 Emit(n, "shadow-tls-version" :> <<"plugin-opts.version">>))
         @@ Only(includeUdpPort, Emit(n, Same({"udp-port"}))))

(* TCP and, with its path and Host, WebSocket are the transports there     *)
(* are; REALITY is refused over TCP.                                       *)
TransportError(n) ==
    /\ Has(n, "network")
    /\ n["network"] # "ws"
    /\ n["network"] = "tcp" => HasReality(n)

handleSurgeTransport(n) ==
    Only(Val(n, "network", "") = "ws",
         ("ws" :> "true")
         @@ Emit(n, ("ws-path" :> <<"ws-opts.path">>)
                    @@ ("ws-headers" :> <<"ws-opts.headers.Host">>)))

(* vmess-aead is the node's, or whether its alterId is there and 0.        *)
VmessAead(n) ==
    "vmess-aead" :> IF Has(n, "aead") THEN n["aead"]
                    ELSE IF Val(n, "alterId", "1") = "0" THEN "true" ELSE "false"

formatSurgeVmessEncryptMethod(cipher) ==
    CASE cipher = "aes-128-gcm" -> "aes-128-gcm"
      [] cipher \in {"chacha20-poly1305", "chacha20-ietf-poly1305"} -> "chacha20-ietf-poly1305"
      [] OTHER -> ""

PortHopping(n) ==
    Only(Val(n, "ports", "") # "", "port-hopping" :> Semicolons(n["ports"]))
    @@ Only(Val(n, "hop-interval", "") # "",
            Emit(n, "port-hopping-interval" :> <<"hop-interval">>))

----------------------------------------------------------------------------
(* The producer for Surge: one operator per type.                          *)

surgeShadowsocks(n) ==
    LET cipher == IF Val(n, "cipher", "") = "" THEN "none" ELSE n["cipher"]
        plugin == Val(n, "plugin", "shadow-tls")
    IN When(cipher \in surgeSSCiphers /\ plugin \in {"obfs", "shadow-tls"} /\ ~ShadowTLSError(n),
            {PairLine("ss", n, <<>>,
                ("encrypt-method" :> cipher) @@ Emit(n, Same({"password"}))
                @@ surgeIPVersionNoErrorAlert(n)
                @@ Only(plugin = "obfs",
                        ("obfs" :> Val(n, "plugin-opts.mode", ""))
                        @@ Emit(n, ("obfs-host" :> <<"plugin-opts.host">>)
                                   @@ ("obfs-uri" :> <<"plugin-opts.path">>)))
                @@ surgeCommon(n) @@ appendShadowTLS(n, TRUE) @@ surgeBlockUnderlying(n))})

(* The transport's error is not looked at: a Trojan node over another      *)
(* transport, or with REALITY, is written as a plain one.                  *)
surgeTrojan(n) ==
    When(~ShadowTLSError(n),
         {PairLine("trojan", n, <<>>,
             Emit(n, Same({"password", "tls"})) @@ surgeIPVersionNoErrorAlert(n)
             @@ handleSurgeTransport(n) @@ appendTlsProxyParams(n, TRUE)
             @@ surgeCommon(n) @@ appendShadowTLS(n, FALSE) @@ surgeBlockUnderlying(n))})

surgeAnyTLS(n) ==
    {PairLine("anytls", n, <<>>,
        Emit(n, Same({"password", "reuse"})) @@ surgeIPVersionNoErrorAlert(n)
        @@ appendTlsProxyParams(n, TRUE) @@ surgeCommon(n) @@ surgeBlockUnderlying(n))}

surgeTrustTunnel(n) ==
    {PairLine("trust-tunnel", n, <<>>,
        Emit(n, Same({"username", "password", "headers", "max-streams", "reuse"}))
        @@ surgeIPVersionNoErrorAlert(n) @@ appendTlsProxyParams(n, TRUE)
        @@ surgeCommon(n) @@ surgeBlockUnderlying(n))}

surgeH2Connect(n) ==
    When(~ShadowTLSError(n),
         {PairLine("h2-connect", n, <<>>,
             Emit(n, Same({"username", "password", "headers", "max-streams"})
                     @@ ("udp-relay" :> <<"udp">>))
             @@ surgeIPVersionNoErrorAlert(n) @@ appendTlsProxyParams(n, TRUE)
             @@ surgeTestFields(n) @@ surgeInterfaceFields(n)
             @@ appendShadowTLS(n, FALSE) @@ surgeBlockUnderlying(n))})

surgeVmess(n) ==
    LET method == formatSurgeVmessEncryptMethod(Val(n, "cipher", ""))
    IN When(~TransportError(n) /\ ~ShadowTLSError(n),
            {PairLine("vmess", n, <<>>,
                Emit(n, ("username" :> <<"uuid">>) @@ Same({"tls"}))
                @@ Only(method # "", "encrypt-method" :> method)
                @@ surgeIPVersionNoErrorAlert(n) @@ handleSurgeTransport(n) @@ VmessAead(n)
                @@ appendTlsProxyParams(n, GetBool(n, "tls")) @@ surgeCommon(n)
                @@ appendShadowTLS(n, FALSE) @@ surgeBlockUnderlying(n))})

surgeSSH(n) ==
    {PairLine("ssh", n, <<>>,
        Emit(n, Same({"username", "password", "idle-timeout", "server-fingerprint"})
                @@ ("private-key" :> <<"keystore-private-key", "private-key">>))
        @@ surgeIPVersionNoErrorAlert(n) @@ surgeCommon(n) @@ surgeBlockUnderlying(n))}

surgeHTTP(n) ==
    When(~ShadowTLSError(n),
         {PairLine(IF GetBool(n, "tls") THEN "https" ELSE "http", n, <<>>,
             Emit(n, Same({"username", "password", "headers"}))
             @@ surgeIPVersionNoErrorAlert(n) @@ appendTlsProxyParams(n, GetBool(n, "tls"))
             @@ surgeCommon(n) @@ appendShadowTLS(n, FALSE) @@ surgeBlockUnderlying(n))})

surgeDirect(n) ==
    {PairLine("direct", n, <<>>,
        surgeIPVersionNoErrorAlert(n) @@ surgeCommon(n) @@ surgeBlockUnderlying(n))}

surgeSocks5(n) ==
    When(~ShadowTLSError(n),
         {PairLine(IF GetBool(n, "tls") THEN "socks5-tls" ELSE "socks5", n, <<>>,
             Emit(n, Same({"username", "password"}) @@ ("udp-relay" :> <<"udp">>))
             @@ surgeIPVersionNoErrorAlert(n) @@ appendTlsProxyParams(n, GetBool(n, "tls"))
             @@ surgeTestFields(n) @@ surgeInterfaceFields(n)
             @@ appendShadowTLS(n, FALSE) @@ surgeBlockUnderlying(n))})

(* The obfuscation options are written, but always empty: getMapNested     *)
(* returns nothing for a value that is not a map.                          *)
HasSnellObfs(n) ==
    \E f \in {"obfs-opts.mode", "obfs-opts.host", "obfs-opts.path"} : Has(n, f)

surgeSnell(n) ==
    LET blank == [k \in {"obfs", "obfs-host", "obfs-uri"} |-> ""]
        there == Emit(n, ("obfs" :> <<"obfs-opts.mode">>) @@ ("obfs-host" :> <<"obfs-opts.host">>)
                         @@ ("obfs-uri" :> <<"obfs-opts.path">>))
    IN When(~(Val(n, "version", "0") = "6" /\ HasSnellObfs(n)) /\ ~ShadowTLSError(n),
            {PairLine("snell", n, <<>>,
                Emit(n, Same({"version", "psk", "reuse"}))
                @@ Only(Val(n, "version", "0") = "6", Emit(n, Same({"mode"})))
                @@ surgeIPVersionNoErrorAlert(n) @@ [k \in DOMAIN there |-> blank[k]]
                @@ surgeCommon(n) @@ appendShadowTLS(n, FALSE) @@ surgeBlockUnderlying(n))})

surgeTuic(n) ==
    When(~ShadowTLSError(n),
         {PairLine(IF Val(n, "token", "") = "" THEN "tuic-v5" ELSE "tuic", n, <<>>,
             Emit(n, Same({"uuid", "password", "token", "ecn"}) @@ ("tfo" :> <<"tfo", "fast-open">>))
             @@ PortHopping(n) @@ surgeIPVersionNoErrorAlert(n) @@ appendTlsProxyParams(n, TRUE)
             @@ surgeTestFields(n) @@ surgeInterfaceFields(n)
             @@ appendShadowTLS(n, FALSE) @@ surgeBlockUnderlying(n))})

surgeWireGuardSurge(n) ==
    When(~ShadowTLSError(n),
         {PairLine("wireguard", n, <<>>,
             Emit(n, Same({"section-name", "no-error-alert"})) @@ surgeIPVersion(n)
             @@ surgeTestFields(n) @@ surgeInterfaceFields(n)
             @@ appendShadowTLS(n, FALSE) @@ surgeBlockUnderlying(n))})

surgeHysteria2(n) ==
    LET field == CASE Val(n, "obfs", "") = "salamander" -> "salamander-password"
                   [] Val(n, "obfs", "") = "gecko" -> "gecko-password"
                   [] OTHER -> ""
        hidden == Val(n, "obfs-password", "") # ""
    IN When(~(hidden /\ field = "") /\ ~ShadowTLSError(n),
            {PairLine("hysteria2", n, <<>>,
                Emit(n, Same({"password", "ecn"}) @@ ("tfo" :> <<"tfo", "fast-open">>))
                @@ PortHopping(n) @@ Only(hidden, Emit(n, field :> <<"obfs-password">>))
                @@ surgeIPVersionNoErrorAlert(n) @@ appendTlsProxyParams(n, TRUE)
                @@ surgeTestFields(n) @@ surgeInterfaceFields(n)
                @@ appendShadowTLS(n, FALSE) @@ surgeBlockUnderlying(n)
                @@ Only(Has(n, "down"), "download-bandwidth" :> FirstDigits(n["down"])))})

HttpUpgrade(n) ==
    Val(n, "network", "") = "ws" /\ GetBool(n, "ws-opts.v2ray-http-upgrade")

(* AnyTLS is refused over a transport, and with REALITY when the node      *)
(* names TCP as its transport.                                             *)
AnyTLSError(n) ==
    Val(n, "network", "") # "" /\ (n["network"] # "tcp" \/ HasReality(n))

surgeProduceLine(node) ==
    LET n == Put(node, "name", StripName(node["name"]))
        t == n["type"]
    IN When(~HttpUpgrade(n),
            CASE t = "ss" -> surgeShadowsocks(n)
              [] t = "trojan" -> surgeTrojan(n)
              [] t = "vmess" -> surgeVmess(n)
              [] t = "http" -> surgeHTTP(n)
              [] t = "h2-connect" -> surgeH2Connect(n)
              [] t = "direct" -> surgeDirect(n)
              [] t = "socks5" -> surgeSocks5(n)
              [] t = "snell" -> surgeSnell(n)
              [] t = "tuic" -> surgeTuic(n)
              [] t = "wireguard-surge" -> surgeWireGuardSurge(n)
              [] t = "hysteria2" -> surgeHysteria2(n)
              [] t = "ssh" -> surgeSSH(n)
              [] t = "trusttunnel" -> surgeTrustTunnel(n)
              [] t = "anytls" -> When(~AnyTLSError(n), surgeAnyTLS(n))
              [] OTHER -> {})

----------------------------------------------------------------------------
(* The producer for Surfboard: the same lines with fewer options, the user *)
(* name and password of HTTP and SOCKS5 by position and without quotes.    *)

surfboardSSCiphers == surgeSSCiphers \ {"none"}

surfboardAppendTLS(n, enabled) ==
    Only(enabled, Emit(n, Same({"sni", "skip-cert-verify"})
                          @@ ("server-cert-fingerprint-sha256" :> <<"tls-fingerprint">>)))

surfboardHandleTransport(n) == handleSurgeTransport(n)

UdpBlock(n) == Emit(n, Same({"block-quic"}) @@ ("udp-relay" :> <<"udp">>))

surfboardTuic(n) ==
    When(Val(n, "token", "") = "",
         {PairLine("tuic-v5", n, <<>>,
             Emit(n, Same({"uuid", "password"}) @@ ("udp-relay" :> <<"udp">>))
             @@ appendSurgeAlpn(n) @@ PortHopping(n) @@ surfboardAppendTLS(n, TRUE))})

surfboardHysteria2(n) ==
    LET obfs == Val(n, "obfs", "")
    IN When(obfs \in {"", "salamander"} /\ (Has(n, "obfs-password") => obfs = "salamander"),
            {PairLine("hysteria2", n, <<>>,
                Emit(n, Same({"password"})) @@ PortHopping(n)
                @@ Only(Val(n, "obfs-password", "") # "",
                        Emit(n, "salamander-password" :> <<"obfs-password">>))
                @@ surfboardAppendTLS(n, TRUE) @@ UdpBlock(n)
                @@ Only(Has(n, "down"), "download-bandwidth" :> FirstDigits(n["down"])))})

surfboardAnyTLS(n) ==
    {PairLine("anytls", n, <<>>,
        Emit(n, Same({"password", "tfo", "reuse"})) @@ surfboardAppendTLS(n, TRUE) @@ UdpBlock(n))}

surfboardSnell(n) ==
    When(Val(n, "version", "1") \in {"1", "2", "3", "4", "5"},
         {PairLine("snell", n, <<>>,
             Emit(n, Same({"version", "psk", "tfo", "block-quic"})
                     @@ ("obfs" :> <<"obfs-opts.mode">>) @@ ("obfs-host" :> <<"obfs-opts.host">>)
                     @@ ("obfs-uri" :> <<"obfs-opts.path">>))
             @@ Only(Val(n, "version", "0") \in {"3", "4", "5"},
                     Emit(n, "udp-relay" :> <<"udp">>)))})

surfboardShadowsocks(n) ==
    When(Val(n, "cipher", "") \in surfboardSSCiphers /\ Val(n, "plugin", "obfs") = "obfs",
         {PairLine("ss", n, <<>>,
             ("encrypt-method" :> n["cipher"]) @@ Emit(n, Same({"password"}))
             @@ Only(Has(n, "plugin"),
                     ("obfs" :> Val(n, "plugin-opts.mode", ""))
                     @@ Emit(n, ("obfs-host" :> <<"plugin-opts.host">>)
                                @@ ("obfs-uri" :> <<"plugin-opts.path">>)))
             @@ UdpBlock(n))})

surfboardTrojan(n) ==
    When(~TransportError(n),
         {PairLine("trojan", n, <<>>,
             Emit(n, Same({"password", "tls", "tfo"})) @@ surfboardHandleTransport(n)
             @@ surfboardAppendTLS(n, TRUE) @@ UdpBlock(n))})

surfboardVmess(n) ==
    When(~TransportError(n),
         {PairLine("vmess", n, <<>>,
             Emit(n, ("username" :> <<"uuid">>) @@ Same({"tls"})) @@ surfboardHandleTransport(n)
             @@ VmessAead(n) @@ surfboardAppendTLS(n, GetBool(n, "tls")) @@ UdpBlock(n))})

(* The user name and the password, each written when it is there.          *)
BareAuth(n) ==
    (IF Has(n, "username") THEN <<Bare(n["username"])>> ELSE <<>>)
    \o (IF Has(n, "password") THEN <<Bare(n["password"])>> ELSE <<>>)

surfboardHTTP(n) ==
    {PairLine(IF GetBool(n, "tls") THEN "https" ELSE "http", n, BareAuth(n),
        surfboardAppendTLS(n, GetBool(n, "tls")) @@ UdpBlock(n))}

surfboardSocks5(n) ==
    {PairLine(IF GetBool(n, "tls") THEN "socks5-tls" ELSE "socks5", n, BareAuth(n),
        surfboardAppendTLS(n, GetBool(n, "tls")) @@ UdpBlock(n))}

surfboardWireGuard(n) ==
    {PairLine("wireguard", n, <<>>, Emit(n, Same({"section-name", "block-quic"})))}

surfboardProduceLine(node) ==
    LET n == Put(node, "name", StripName(node["name"]))
        t == n["type"]
    IN When(~HttpUpgrade(n),
            CASE t = "ss" -> surfboardShadowsocks(n)
              [] t = "trojan" -> surfboardTrojan(n)
              [] t = "vmess" -> surfboardVmess(n)
              [] t = "http" -> surfboardHTTP(n)
              [] t = "snell" -> surfboardSnell(n)
              [] t = "tuic" -> surfboardTuic(n)
              [] t = "socks5" -> surfboardSocks5(n)
              [] t = "hysteria2" -> surfboardHysteria2(n)
              [] t = "wireguard-surge" -> surfboardWireGuard(n)
              [] t = "anytls" -> When(~AnyTLSError(n), surfboardAnyTLS(n))
              [] OTHER -> {})

----------------------------------------------------------------------------
(* The parser of a Surge line.                                             *)

surgeTypes ==
    {"direct", "ss", "vmess", "trojan", "http", "https", "socks5", "socks5-tls",
     "snell", "tuic", "tuic-v5", "hysteria2", "wireguard", "vless", "anytls",
     "h2-connect", "trust-tunnel", "trusttunnel", "ssh", "external"}

surgeLoonOnlyOptions ==
    {"fast-open", "over-tls", "tls-name", "ip-mode", "tls-cert-sha256", "tls-pubkey-sha256"}

surgeShadowTLSTypes ==
    {"ss", "vmess", "trojan", "https", "http", "ssh", "snell", "tuic", "tuic-v5",
     "wireguard", "hysteria2", "socks5", "socks5-tls", "h2-connect"}

surgeHasPositionalAuth == {"http", "https", "h2-connect", "ssh", "socks5", "socks5-tls"}

(* The name ends at the first =.                                           *)
surgeLineTest(l) ==
    /\ l.form = "pair" /\ ~HasEquals(l.name)
    /\ l.type \in surgeTypes
    /\ l.type = "vmess" => "username" \in DOMAIN l.opts
    /\ l.type \in {"http", "https", "socks5", "socks5-tls"} =>
           DOMAIN l.opts \cap surgeLoonOnlyOptions = {}

(* The options, the field each sets and the types whose grammar has it.    *)
TlsTypes == {"vmess", "trojan", "https", "h2-connect", "tuic", "tuic-v5", "socks5-tls",
             "anytls", "trust-tunnel", "vless"}

ReadAs(keys, types) == [k \in keys |-> Reads(k, types)]

surgeKeywordTypes ==
    ReadAs({"username"}, surgeHasPositionalAuth \cup {"trust-tunnel"})
    @@ ReadAs({"password"}, {"ss", "trojan", "snell", "tuic-v5", "hysteria2", "anytls",
                             "trust-tunnel", "vless"} \cup surgeHasPositionalAuth)
    @@ ReadAs({"tls"}, TlsTypes)
    @@ ReadAs({"sni"}, TlsTypes \cup {"hysteria2"})
    @@ [k \in {"server-cert-verify-name", "skip-cert-verify",
               "server-cert-fingerprint-sha256", "client-cert"} |->
          Reads(("server-cert-verify-name" :> "name-cert-verify"
                 @@ "skip-cert-verify" :> "skip-cert-verify"
                 @@ "server-cert-fingerprint-sha256" :> "tls-fingerprint"
                 @@ "client-cert" :> "keystore-client-cert")[k],
                TlsTypes \cup {"ssh", "hysteria2"})]
    @@ ReadAs({"headers"}, {"https", "h2-connect", "http", "trust-tunnel"})
    @@ ("udp-relay" :> Reads("udp", {"ss", "vmess", "trojan", "snell", "direct"}
                                    \cup surgeHasPositionalAuth))
    @@ [k \in {"tfo", "fast-open"} |->
          Reads("tfo", TlsTypes \cup surgeHasPositionalAuth \cup {"ss", "snell", "direct", "hysteria2"})]
    @@ ReadAs({"reuse"}, {"snell", "anytls", "trust-tunnel"})
    @@ ReadAs({"ecn"}, {"tuic", "tuic-v5", "hysteria2"})
    @@ ReadAs({"alpn"}, TlsTypes \cup {"ss", "snell", "ssh", "hysteria2"})
    @@ ReadAs({"max-streams"}, {"h2-connect", "trust-tunnel"})
    @@ ("port-hopping-interval" :> Reads("hop-interval", {"tuic", "tuic-v5", "hysteria2"}))

(* applySurgeOption's own cases, beyond the table above.                   *)
surgeOptions ==
    ReadAs({"ip-version", "no-error-alert", "underlying-proxy", "test-url", "test-udp",
            "block-quic", "test-timeout", "tos", "interface", "allow-other-interface",
            "hybrid"}, surgeTypes)
    @@ ReadAs({"section-name"}, {"wireguard"})
    @@ ReadAs({"idle-timeout", "server-fingerprint"}, {"ssh"})
    @@ ("private-key" :> Reads("keystore-private-key", {"ssh"}))
    @@ ReadAs({"udp-port"}, {"ss"})
    @@ ("download-bandwidth" :> Reads("down", {"hysteria2"}))
    @@ ("salamander-password" :> Reads("obfs-password", {"hysteria2"}))
    @@ ("gecko-password" :> Reads("obfs-password", {"hysteria2"}))
    @@ ReadAs({"token"}, {"tuic"}) @@ ReadAs({"uuid"}, {"tuic-v5"})
    @@ ReadAs({"psk", "version"}, {"snell"})
    @@ ("vmess-aead" :> Reads("aead", {"vmess"}))
    @@ ReadAs({"flow"}, {"vless"})
    @@ ("reality-public-key" :> Reads("reality-opts.public-key", {"vless"}))
    @@ ("reality-short-id" :> Reads("reality-opts.short-id", {"vless"}))
    @@ ReadAs({"ws"}, {"vmess", "trojan", "vless"})
    @@ ReadAs({"shadow-tls-version"}, surgeShadowTLSTypes)
    @@ surgeKeywordTypes

surgeBoolOptions == {"tls", "skip-cert-verify", "ws", "udp-relay", "tfo", "fast-open", "reuse", "ecn",
                     "allow-other-interface", "hybrid", "vmess-aead"}
surgeIntOptions == {"test-timeout", "tos", "idle-timeout", "max-streams", "udp-port",
                    "port-hopping-interval", "version", "shadow-tls-version"}

(* A comma fails the grammar, except in headers and ALPN; so does a value  *)
(* that is not the Boolean or the number its option takes.                 *)
applySurgeParams(l, typ) ==
    LET o == l.opts
    IN When(/\ \A k \in DOMAIN o \ {"headers", "ws-headers", "alpn"} : ~HasComma(o[k])
            /\ WellFormed(o, surgeOptions, typ, surgeBoolOptions, Booleans)
            /\ WellFormed(o, surgeOptions, typ, surgeIntOptions, Numerals),
            {Drop(Read(o, surgeOptions, typ), {"sni", "ws", "shadow-tls-version"})
             @@ Only("sni" \in DOMAIN o /\ typ \in surgeKeywordTypes["sni"].types,
                     IF o["sni"] = "off" THEN "disable-sni" :> "true" ELSE "sni" :> o["sni"])
             @@ Only("salamander-password" \in DOMAIN o /\ typ = "hysteria2", "obfs" :> "salamander")
             @@ Only("gecko-password" \in DOMAIN o /\ typ = "hysteria2", "obfs" :> "gecko")
             @@ Only(typ = "snell" /\ Val(o, "mode", "") \in {"default", "unshaped", "unsafe-raw"},
                     "mode" :> Val(o, "mode", ""))
             @@ Only(typ = "ss" /\ Val(o, "encrypt-method", "") \in surgeSSCiphers,
                     "cipher" :> Val(o, "encrypt-method", ""))
             @@ Only(typ \in {"vmess", "vless"} /\ "username" \in DOMAIN o,
                     "uuid" :> Val(o, "username", ""))})

(* Other methods than these two fall back to auto, also when none is given.*)
normalizeSurgeVmessSecurity(security) ==
    CASE security = "aes-128-gcm" -> "aes-128-gcm"
      [] security = "chacha20-ietf-poly1305" -> "chacha20-poly1305"
      [] OTHER -> "auto"

applySurgeWebsocket(l) ==
    Only(l.type \in {"vmess", "trojan", "vless"} /\ Val(l.opts, "ws", "") = "true",
         ("network" :> "ws")
         @@ Only(Val(l.opts, "ws-path", "") # "", Emit(l.opts, "ws-opts.path" :> <<"ws-path">>))
         @@ Emit(l.opts, "ws-opts.headers.Host" :> <<"ws-headers">>))

(* Plain obfuscation becomes a plugin of Shadowsocks, obfs-opts of Snell.  *)
SurgeObfs(l) ==
    LET at(mode, host, path) ==
            Emit(l.opts, (mode :> <<"obfs">>)
                         @@ Only(Val(l.opts, "obfs-host", "") # "", host :> <<"obfs-host">>)
                         @@ Only(Val(l.opts, "obfs-uri", "") # "", path :> <<"obfs-uri">>))
    IN Only(Val(l.opts, "obfs", "") \in {"http", "tls"},
            CASE l.type = "ss" ->
                     ("plugin" :> "obfs") @@ at("plugin-opts.mode", "plugin-opts.host", "plugin-opts.path")
              [] l.type = "snell" -> at("obfs-opts.mode", "obfs-opts.host", "obfs-opts.path")
              [] OTHER -> Nothing)

(* The version defaults to 2, also when it is 0; ALPN moves into the       *)
(* plugin's options.                                                       *)
surgeShadowTLS_apply(l, n) ==
    LET given == Val(l.opts, "shadow-tls-version", "0")
        version == IF given = "0" THEN "2" ELSE given
    IN When(version # "1",
            {Drop(n, {"alpn"})
             @@ ("plugin" :> "shadow-tls")
             @@ ("plugin-opts.password" :> l.opts["shadow-tls-password"])
             @@ ("plugin-opts.version" :> version)
             @@ Only(Val(l.opts, "shadow-tls-sni", "") # "",
                     Emit(l.opts, "plugin-opts.host" :> <<"shadow-tls-sni">>))
             @@ Emit(n, "plugin-opts.alpn" :> <<"alpn">>)})

SurgeMapped(typ) ==
    CASE typ = "https" -> ("type" :> "http") @@ ("tls" :> "true")
      [] typ = "socks5-tls" -> ("type" :> "socks5") @@ ("tls" :> "true")
      [] typ = "tuic-v5" -> ("type" :> "tuic") @@ ("version" :> "5")
      [] typ \in {"trust-tunnel", "trusttunnel"} -> ("type" :> "trusttunnel") @@ ("tls" :> "true")
      [] typ \in {"anytls", "h2-connect"} -> "tls" :> "true"
      [] OTHER -> Nothing

(* The fields that stand by position.  The scan for a key runs up to a     *)
(* comma or an = without regard for quotes, so a comma cuts the field, in  *)
(* quotes or not.                                                          *)
splitSurgeFields(l) ==
    FlattenSeq([i \in DOMAIN l.pos |-> IF HasComma(l.pos[i].val) THEN Pieces(l.pos[i])
                                       ELSE <<l.pos[i]>>])

(* After an = in quotes, the closing quote is taken for an opening one:    *)
(* the options behind such a field become part of it.                      *)
Swallows(l) == \E i \in DOMAIN l.pos : l.pos[i].quoted /\ HasEquals(l.pos[i].val)

(* A user name by position, and what stands by position besides the pair.  *)
HasPair(l) ==
    LET f == splitSurgeFields(l)
    IN l.type \in surgeHasPositionalAuth /\ f # <<>> /\ ~HasEquals(f[1].val)
Unpaired(l) ==
    SubSeq(splitSurgeFields(l), IF HasPair(l) THEN 3 ELSE 1, Len(splitSurgeFields(l)))

(* Mutant: the two fields are taken in the wrong order.                    *)
PositionalAuthSwapped(l) ==
    LET f == splitSurgeFields(l)
    IN When(/\ HasPair(l) => Len(f) >= 2 /\ ~HasEquals(f[2].val)
            /\ \A i \in DOMAIN Unpaired(l) : HasEquals(Unpaired(l)[i].val)
            /\ Swallows(l) => l.opts = Nothing,
            {Only(HasPair(l), ("username" :> f[2].val) @@ ("password" :> f[1].val))})

(* A positional user name needs a positional password.  A field with an =  *)
(* is taken for an option; its key is none the grammar knows, so it is     *)
(* dropped, or refused for the commas it has swallowed.  Any other         *)
(* positional field is an error.                                           *)
PositionalAuth(l) ==
    LET f == splitSurgeFields(l)
    IN When(/\ HasPair(l) => Len(f) >= 2 /\ ~HasEquals(f[2].val)
            /\ \A i \in DOMAIN Unpaired(l) : HasEquals(Unpaired(l)[i].val)
            /\ Swallows(l) => l.opts = Nothing,
            {Only(HasPair(l), ("username" :> f[1].val) @@ ("password" :> f[2].val))})

(* port-hopping is cut out of the line before its fields are.              *)
extractSurgePortHopping(l) ==
    Only(l.type \in {"tuic", "tuic-v5", "hysteria2"} /\ "port-hopping" \in DOMAIN l.opts,
         "ports" :> Commas(Val(l.opts, "port-hopping", "")))

parseSurgeLine(l) ==
    IF l.type \in {"direct", "wireguard"}
    THEN {p @@ ("name" :> l.name) @@ ("decoded" :> "false")
          @@ ("type" :> IF l.type = "direct" THEN "direct" ELSE "wireguard-surge") :
          p \in When(l.pos = <<>>, applySurgeParams(l, l.type))}
    ELSE
    LET gtyp == IF l.type = "trusttunnel" THEN "trust-tunnel" ELSE l.type
        vmess(p) == Only(l.type = "vmess",
                         ("cipher" :> normalizeSurgeVmessSecurity(Val(l.opts, "encrypt-method", "")))
                         @@ ("alterId" :> IF Val(p, "aead", "") = "true" THEN "0" ELSE "1"))
        node(p, auth) == SurgeMapped(l.type) @@ vmess(p) @@ applySurgeWebsocket(l) @@ SurgeObfs(l)
                         @@ p @@ auth @@ Addressed(l, l.type)
        shadow == l.type \in surgeShadowTLSTypes /\ Val(l.opts, "shadow-tls-password", "") # ""
        built == {node(p, auth) : p \in applySurgeParams(l, gtyp), auth \in PositionalAuth(l)}
    IN {extractSurgePortHopping(l) @@ n :
        n \in IF shadow THEN UNION {surgeShadowTLS_apply(l, m) : m \in built} ELSE built}

============================================================================
