--------------------------------- MODULE Qx ---------------------------------
(***************************************************************************)
(* The Quantumult X lines: the producer (internal/producer/qx.go) and the  *)
(* parser (internal/parser/qx.go).  Every option is key=value, the name is *)
(* the tag at the end; the transport hides in one option, obfs.            *)
(***************************************************************************)
EXTENDS Loon

qxSSCiphers == surgeSSCiphers

(* An obfs spelling the node was read with is written again.               *)
getQxHttpObfs(n) ==
    IF Val(n, "_qx_obfs_http", "") \in {"http", "vmess-http", "vemss-http", "shadowsocks-http"}
    THEN n["_qx_obfs_http"] ELSE "http"

(* ss carried by TLS and nothing else.                                     *)
isShadowsocksOverTls(n) ==
    n["type"] = "ss" /\ GetBool(n, "tls") /\ ~Has(n, "plugin") /\ Val(n, "network", "tcp") = "tcp"

qxAppendTlsVerification(n) ==
    CASE Has(n, "name-cert-verify") -> "tls-verification" :> n["name-cert-verify"]
      [] Has(n, "skip-cert-verify") ->
           "tls-verification" :> IF GetBool(n, "skip-cert-verify") THEN "false" ELSE "true"
      [] OTHER -> Nothing

qxAppendTlsAlpn(n) ==
    CASE Has(n, "tls-alpn") -> "tls-alpn" :> n["tls-alpn"]
      [] Has(n, "alpn") -> "tls-alpn" :> EncodeAlpn(n["alpn"])
      [] OTHER -> Nothing

qxAppendTlsBlock(n) ==
    Emit(n, Same({"tls-pubkey-sha256", "tls-no-session-ticket", "tls-no-session-reuse"})
            @@ ("tls-cert-sha256" :> <<"tls-fingerprint">>))
    @@ qxAppendTlsAlpn(n) @@ qxAppendTlsVerification(n)

qxNeedTls(n) == GetBool(n, "tls")

QxTls(n) ==
    Only(qxNeedTls(n), qxAppendTlsBlock(n) @@ Emit(n, "tls-host" :> <<"sni">>))

QxTail(n) ==
    Emit(n, ("fast-open" :> <<"tfo">>) @@ ("udp-relay" :> <<"udp">>)
            @@ ("server_check_url" :> <<"test-url">>))

(* WebSocket and TLS share an option; over the HTTP transport TLS is not   *)
(* written at all.                                                         *)
qxAppendTransport(n) ==
    LET network == Val(n, "network", "tcp")
        o == CASE network = "ws" -> Emit(n, ("obfs-uri" :> <<"ws-opts.path">>)
                                            @@ ("obfs-host" :> <<"ws-opts.headers.Host">>))
               [] network = "http" -> Emit(n, ("obfs-uri" :> <<"http-opts.path">>)
                                              @@ ("obfs-host" :> <<"http-opts.headers.Host">>))
               [] OTHER -> Nothing
    IN [k \in DOMAIN o |-> Item(o[k])]
       @@ CASE network = "ws" -> "obfs" :> IF qxNeedTls(n) THEN "wss" ELSE "ws"
            [] network = "http" -> "obfs" :> getQxHttpObfs(n)
            [] OTHER -> Only(qxNeedTls(n), "obfs" :> "over-tls")

formatQXVmessMethod(cipher) == IF cipher = "none" THEN "none" ELSE "chacha20-poly1305"

----------------------------------------------------------------------------
(* The producer: one operator per type.                                    *)

qxShadowsocks(n) ==
    LET cipher == IF Val(n, "cipher", "") = "" THEN "none" ELSE n["cipher"]
        over == isShadowsocksOverTls(n)
        plugin == Val(n, "plugin", "")
        mode == Val(n, "plugin-opts.mode", "")
        obfs == CASE over -> "over-tls"
                  [] plugin = "obfs" -> IF mode = "http" THEN getQxHttpObfs(n) ELSE mode
                  [] plugin = "v2ray-plugin" -> IF GetBool(n, "plugin-opts.tls") THEN "wss" ELSE "ws"
                  [] OTHER -> ""
        uot == CASE GetBool(n, "_ssr_python_uot") -> "true"
                 [] GetBool(n, "udp-over-tcp") ->
                        IF Val(n, "udp-over-tcp-version", "0") = "2" THEN "sp.v2" ELSE "sp.v1"
                 [] OTHER -> ""
    IN When(/\ cipher \in qxSSCiphers
            /\ plugin \in {"", "obfs", "v2ray-plugin"}
            /\ plugin = "v2ray-plugin" => mode = "websocket",
            {QxLine("shadowsocks", n,
                ("method" :> cipher) @@ ("password" :> Val(n, "password", ""))
                @@ Only(obfs # "" \/ plugin # "", "obfs" :> obfs)
                @@ Only(over, Emit(n, "obfs-host" :> <<"sni", "servername">>))
                @@ Only(plugin # "", Emit(n, ("obfs-host" :> <<"plugin-opts.host">>)
                                             @@ ("obfs-uri" :> <<"plugin-opts.path">>)))
                @@ Only(qxNeedTls(n), qxAppendTlsBlock(n)
                                      @@ Only(~over, Emit(n, "tls-host" :> <<"sni">>)))
                @@ Only(uot # "", "udp-over-tcp" :> uot) @@ QxTail(n))})

qxShadowsocksR(n) ==
    {QxLine("shadowsocks", n,
        ("method" :> Val(n, "cipher", "")) @@ ("password" :> Val(n, "password", ""))
        @@ ("ssr-protocol" :> Val(n, "protocol", "undefined"))
        @@ Emit(n, ("ssr-protocol-param" :> <<"protocol-param">>) @@ Same({"obfs"})
                   @@ ("obfs-host" :> <<"obfs-param">>))
        @@ QxTail(n))}

qxTrojan(n) ==
    LET network == Val(n, "network", "tcp")
    IN When(network \in {"tcp", "ws"},
            {QxLine("trojan", n,
                ("password" :> Val(n, "password", ""))
                @@ Only(network = "ws", qxAppendTransport(n))
                @@ Only(network # "ws" /\ qxNeedTls(n), "over-tls" :> "true")
                @@ QxTls(n) @@ QxTail(n))})

qxVmess(n) ==
    When(Val(n, "network", "tcp") \in {"tcp", "ws", "http"},
         {QxLine("vmess", n,
             ("method" :> formatQXVmessMethod(Val(n, "cipher", "")))
             @@ ("password" :> Val(n, "uuid", ""))
             @@ ("aead" :> VmessAead(n)["vmess-aead"])
             @@ qxAppendTransport(n) @@ QxTls(n) @@ QxTail(n))})

qxVless(n) ==
    When(/\ Val(n, "encryption", "none") \in {"", "none"}
         /\ Val(n, "network", "tcp") \in {"tcp", "ws", "http"},
         {QxLine("vless", n,
             ("method" :> "none") @@ ("password" :> Val(n, "uuid", ""))
             @@ Emit(n, "vless-flow" :> <<"flow">>)
             @@ qxAppendTransport(n) @@ QxTls(n) @@ QxTail(n))})

qxAnyTLS(n) ==
    When(Val(n, "network", "") \in {"", "tcp"},
         {QxLine("anytls", n,
             ("password" :> Val(n, "password", "")) @@ ("over-tls" :> "true")
             @@ QxTls(Put(n, "tls", "true")) @@ QxTail(n))})

qxHTTP(n) ==
    {QxLine("http", n,
        Emit(n, Same({"username", "password"}) @@ ("over-tls" :> <<"tls">>)) @@ QxTls(n) @@ QxTail(n))}

qxSocks5(n) ==
    {QxLine("socks5", n,
        Emit(n, Same({"username", "password"}) @@ ("over-tls" :> <<"tls">>)) @@ QxTls(n) @@ QxTail(n))}

(* The keys of REALITY follow the line of any type.                        *)
qxProduceLine(n) ==
    LET t == n["type"]
        lines == CASE t = "ss" -> qxShadowsocks(n)
                   [] t = "ssr" -> qxShadowsocksR(n)
                   [] t = "trojan" -> qxTrojan(n)
                   [] t = "vmess" -> qxVmess(n)
                   [] t = "http" -> qxHTTP(n)
                   [] t = "socks5" -> qxSocks5(n)
                   [] t = "vless" -> qxVless(n)
                   [] t = "anytls" -> qxAnyTLS(n)
                   [] OTHER -> {}
        reality == Emit(n, ("reality-base64-pubkey" :> <<"reality-opts.public-key">>)
                           @@ ("reality-hex-shortid" :> <<"reality-opts.short-id">>))
    IN When(~HttpUpgrade(n) /\ Val(n, "flow", "") \in {"", "xtls-rprx-vision"},
            {[l EXCEPT !.opts = reality @@ @] : l \in lines})

----------------------------------------------------------------------------
(* The parser of a Quantumult X line.                                      *)

(* Mutant: a type the producer writes is missing from the parser's.        *)
QxTypesWithoutAnyTLS == {"shadowsocks", "vmess", "vless", "trojan", "http", "socks5", "hysteria2"}

qxTypes == {"shadowsocks", "vmess", "vless", "trojan", "anytls", "http", "socks5", "hysteria2"}
qxSsrProtocols == {"origin", "auth_sha1_v4"}
qxSsrObfs == {"plain", "http_simple"}
qxHttpObfs == {"http", "vmess-http", "vemss-http", "shadowsocks-http"}
qxPasswordCommaTypes == {"trojan", "shadowsocks", "anytls", "http", "socks5"}

qxLineTest(l) == l.form = "qx" /\ l.type \in qxTypes

(* A comma ends every value but a password, for the types that read it on  *)
(* to the next option; what follows it is dropped.                         *)
mergeQXPasswordCommaFields(l) ==
    [k \in DOMAIN l.opts |->
        IF HasComma(l.opts[k]) /\ ~(k = "password" /\ l.type \in qxPasswordCommaTypes)
        THEN "p" ELSE l.opts[k]]

(* An option with a value that is not the Boolean it takes is ignored.     *)
qxBoolOptions ==
    ("over-tls" :> "tls") @@ ("tls-no-session-ticket" :> "tls-no-session-ticket")
    @@ ("tls-no-session-reuse" :> "tls-no-session-reuse") @@ ("udp-relay" :> "udp")
    @@ ("fast-open" :> "tfo")

applyQXOption(o, typ) ==
    LET bools == {k \in DOMAIN o \cap DOMAIN qxBoolOptions : o[k] \in Booleans}
        flags == [f \in {qxBoolOptions[k] : k \in bools} |->
                      o[CHOOSE k \in bools : qxBoolOptions[k] = f]]
        verify == Val(o, "tls-verification", "")
        uot == Val(o, "udp-over-tcp", "")
    IN flags
       @@ Emit(o, ("sni" :> <<"tls-host">>) @@ ("tls-fingerprint" :> <<"tls-cert-sha256">>)
                  @@ Same({"tls-pubkey-sha256", "tls-alpn"}) @@ ("test-url" :> <<"server_check_url">>)
                  @@ ("reality-opts.public-key" :> <<"reality-base64-pubkey">>)
                  @@ ("reality-opts.short-id" :> <<"reality-hex-shortid">>)
                  @@ IF typ \in {"vmess", "vless"} THEN "uuid" :> <<"password">>
                     ELSE "password" :> <<"password">>)
       @@ Only(typ \in {"shadowsocks", "vmess", "vless"}
               /\ Val(o, "method", "") \in surgeSSCiphers \cup {"chacha20-poly1305"},
               Emit(o, "cipher" :> <<"method">>))
       @@ Only(typ \in {"http", "socks5"}, Emit(o, Same({"username"})))
       @@ Only(typ \in {"vmess", "vless"} /\ Val(o, "aead", "") \in Booleans, Emit(o, Same({"aead"})))
       @@ Only(typ = "vless", Emit(o, "flow" :> <<"vless-flow">>))
       @@ Only(typ = "shadowsocks", Emit(o, "protocol-param" :> <<"ssr-protocol-param">>))
       @@ Only(typ = "shadowsocks" /\ Val(o, "ssr-protocol", "") \in qxSsrProtocols,
               Emit(o, "protocol" :> <<"ssr-protocol">>))
       @@ (CASE verify = "" -> Nothing
             [] verify \in Booleans ->
                  "skip-cert-verify" :> IF verify = "true" THEN "false" ELSE "true"
             [] OTHER -> "name-cert-verify" :> verify)
       @@ CASE uot = "sp.v1" -> ("udp-over-tcp" :> "true") @@ ("udp-over-tcp-version" :> "1")
            [] uot = "sp.v2" -> ("udp-over-tcp" :> "true") @@ ("udp-over-tcp-version" :> "2")
            [] uot = "true" -> "_ssr_python_uot" :> "true"
            [] OTHER -> Nothing

(* The obfs value each type's grammar takes, the HTTP spellings as http.   *)
applyQXObfs(o, typ) ==
    LET v == Val(o, "obfs", "")
    IN CASE typ = "shadowsocks" /\ v \in qxSsrObfs \cup {"tls", "wss", "ws", "over-tls"} -> v
         [] typ \in {"vmess", "vless", "trojan"} /\ v \in {"wss", "ws", "over-tls"} -> v
         [] typ \in {"shadowsocks", "vmess", "vless"} /\ v \in qxHttpObfs -> "http"
         [] typ = "trojan" /\ v = "http" -> "http"
         [] OTHER -> ""

(* The host and path stand beside the mode, host of the TLS name for       *)
(* over-tls.                                                               *)
applyQXSSObfs(o) ==
    LET obfs == applyQXObfs(o, "shadowsocks")
        rest == Emit(o, ("plugin-opts.host" :> <<"obfs-host">>) @@ ("plugin-opts.path" :> <<"obfs-uri">>))
    IN CASE obfs \in {"http", "tls"} -> ("plugin" :> "obfs") @@ ("plugin-opts.mode" :> obfs) @@ rest
         [] obfs \in {"ws", "wss"} ->
              ("plugin" :> "v2ray-plugin") @@ ("plugin-opts.mode" :> "websocket")
              @@ Only(obfs = "wss", "plugin-opts.tls" :> "true") @@ rest
         [] obfs = "over-tls" -> ("tls" :> "true") @@ Emit(o, "sni" :> <<"obfs-host">>)
         [] OTHER -> Nothing

applyQXHandleObfs(o, typ) ==
    LET obfs == applyQXObfs(o, typ)
    IN CASE obfs \in {"ws", "wss"} ->
              ("network" :> "ws") @@ Only(obfs = "wss", "tls" :> "true")
              @@ Emit(o, ("ws-opts.path" :> <<"obfs-uri">>)
                         @@ ("ws-opts.headers.Host" :> <<"obfs-host">>))
         [] obfs = "over-tls" ->
              ("tls" :> "true") @@ Only("tls-host" \notin DOMAIN o, Emit(o, "sni" :> <<"obfs-host">>))
         [] obfs = "http" ->
              ("network" :> "http") @@ Emit(o, ("http-opts.path" :> <<"obfs-uri">>)
                                               @@ ("http-opts.headers.Host" :> <<"obfs-host">>))
         [] OTHER -> Nothing

(* udp-over-tcp with another type is an error.                             *)
parseQXLine(l) ==
    LET o == mergeQXPasswordCommaFields(l)
        p == applyQXOption(o, l.type)
        obfs == applyQXObfs(o, l.type)
        ssr == l.type = "shadowsocks" /\ (Has(p, "protocol") \/ obfs \in qxSsrObfs)
        own == CASE ssr -> ("type" :> "ssr") @@ ("protocol" :> Val(p, "protocol", "origin"))
                           @@ Emit(o, "obfs-param" :> <<"obfs-host">>)
                           @@ Only(obfs # "", "obfs" :> obfs)
                 [] l.type = "shadowsocks" -> ("type" :> "ss") @@ applyQXSSObfs(o)
                 [] l.type \in {"vmess", "vless"} ->
                      ("cipher" :> Val(p, "cipher", "none"))
                      @@ Only(l.type = "vmess",
                              "alterId" :> IF Val(p, "aead", "") = "false" THEN "1" ELSE "0")
                      @@ applyQXHandleObfs(o, l.type)
                 [] l.type = "trojan" -> applyQXHandleObfs(o, "trojan")
                 [] l.type = "anytls" -> "tls" :> "true"
                 [] OTHER -> Nothing
        token == Only(obfs = "http" /\ l.type # "trojan", "_qx_obfs_http" :> Val(o, "obfs", ""))
    IN When("udp-over-tcp" \in DOMAIN o => l.type = "shadowsocks",
            {own @@ token @@ p @@ Addressed(l, l.type)})
============================================================================
