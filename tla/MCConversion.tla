---------------------------- MODULE MCConversion ----------------------------
(* Instances for Conversion: the nodes of each type with the combinations  *)
(* of options the formats treat differently.                               *)
EXTENDS Conversion

Opt(f, v) == f :> v

Variants(base, V) == {v @@ base : v \in V}

Named(typ, cred) ==
    cred @@ ("name" :> "a") @@ ("type" :> typ) @@ ("server" :> "example.com") @@ ("port" :> "9")

(* Transports, without and with TLS.                                       *)
Plain == {Nothing,
          ("network" :> "ws"),
          ("network" :> "ws") @@ ("ws-opts.path" :> "p") @@ ("ws-opts.headers.Host" :> "cdn.com"),
          ("network" :> "http") @@ ("http-opts.path" :> "[/p]") @@ ("http-opts.headers.Host" :> "[cdn.com]"),
          ("network" :> "h2") @@ ("h2-opts.headers.host" :> "cdn.com"),
          ("network" :> "grpc")}
Tls == {Nothing, "tls" :> "true", ("tls" :> "true") @@ ("sni" :> "sni.com")}
Reality == ("reality-opts.public-key" :> "pk") @@ ("reality-opts.short-id" :> "01")
ShadowOpts == ("shadow-tls-opts.password" :> "st") @@ ("shadow-tls-opts.version" :> "3")
Shadow == ("plugin" :> "shadow-tls") @@ ("plugin-opts.password" :> "st") @@ ("plugin-opts.host" :> "cdn.com")

Vmess ==
    LET base == Named("vmess", ("uuid" :> "u") @@ ("cipher" :> "auto") @@ ("alterId" :> "0"))
    IN Variants(base, {p @@ t : p \in Plain, t \in Tls})
       \cup Variants(base, {Opt("cipher", "aes-128-gcm"), Opt("cipher", "chacha20-ietf-poly1305"),
                            Opt("cipher", "none"), Opt("alterId", "1"), Opt("udp", "false"), Opt("server", "1.2.3.4"),
                            Reality @@ ("tls" :> "true"), ShadowOpts @@ ("tls" :> "true"),
                            ("network" :> "ws") @@ ("ws-opts.v2ray-http-upgrade" :> "true")})

Vless ==
    LET base == Named("vless", "uuid" :> "u")
    IN Variants(base, {p @@ t : p \in Plain, t \in Tls})
       \cup Variants(base, {Reality @@ ("tls" :> "true") @@ ("flow" :> "xtls-rprx-vision"),
                            Opt("flow", ""), ("reality-opts.short-id" :> "01"),
                            ("tls" :> "true") @@ ("client-fingerprint" :> "chrome")})

Trojan ==
    LET base == Named("trojan", "password" :> "pw")
    IN Variants(base, Plain)
       \cup Variants(base, {Opt("sni", "sni.com"), Opt("sni", ""), Opt("password", "p,w"), Reality,
                            ShadowOpts, Opt("skip-cert-verify", "true"), Opt("alpn", "h2"),
                            Opt("fingerprint", "FP"), Opt("server", "1.2.3.4"), Opt("name", "x=y")})

Shadowsocks ==
    LET base == Named("ss", ("password" :> "pw") @@ ("cipher" :> "aes-128-gcm"))
    IN Variants(base, {Nothing, Opt("cipher", "AES-128-GCM"), Opt("cipher", "none"), Opt("password", "p,w"),
                       Opt("name", "x=y"), Opt("udp", "false"), Opt("tls", "true"), Shadow,
                       Shadow @@ ("plugin-opts.version" :> "3") @@ ("alpn" :> "h2"),
                       Shadow @@ ("plugin-opts.version" :> "1"),
                       ("plugin" :> "obfs") @@ ("plugin-opts.mode" :> "http") @@ ("plugin-opts.host" :> "cdn.com"),
                       ("plugin" :> "v2ray-plugin") @@ ("plugin-opts.mode" :> "websocket")
                       @@ ("plugin-opts.tls" :> "true") @@ ("plugin-opts.host" :> "cdn.com"),
                       ("udp-over-tcp" :> "true") @@ ("udp-over-tcp-version" :> "2")})

ShadowsocksR ==
    LET base == Named("ssr", ("password" :> "pw") @@ ("cipher" :> "aes-128-gcm") @@ ("protocol" :> "origin"))
    IN Variants(base, {Nothing, ("obfs" :> "http_simple") @@ ("obfs-param" :> "cdn.com")})

HttpSocks ==
    LET auth == {Nothing, "username" :> "usr", ("username" :> "usr") @@ ("password" :> "pw"),
                 ("username" :> "usr") @@ ("password" :> "p,w"),
                 "password" :> "pw", "username" :> "u=1",
                 ("username" :> "u=1") @@ ("password" :> "pw")}
    IN {a @@ t @@ Named(typ, Nothing) : a \in auth, t \in Tls, typ \in {"http", "socks5"}}
       \cup Variants(Named("http", "tls" :> "true"),
                     {Opt("headers", "h"), Opt("client-fingerprint", "chrome"), Opt("block-quic", "on")})

Snell ==
    LET base == Named("snell", ("psk" :> "k") @@ ("version" :> "3"))
    IN Variants(base, {Nothing, ("obfs-opts.mode" :> "http") @@ ("obfs-opts.host" :> "cdn.com"),
                       Opt("version", "2"), Opt("version", "6"), Opt("version", "6") @@ ("obfs-opts.mode" :> "http"),
                       ("obfs-opts.mode" :> "shadow-tls") @@ ("obfs-opts.password" :> "st") @@ ("obfs-opts.version" :> "2")})

Tuic ==
    LET base == Named("tuic", ("uuid" :> "u") @@ ("password" :> "pw"))
    IN Variants(base, {Nothing, Opt("sni", "off"), ("ports" :> "2000/3000") @@ ("hop-interval" :> "15-30"),
                       ("ports" :> "2000-3000") @@ ("port" :> "0")})
       \cup {Named("tuic", "token" :> "tk")}

Hysteria2 ==
    LET base == Named("hysteria2", "password" :> "pw")
    IN Variants(base, {Nothing, Opt("sni", ""), Opt("down", "100 Mbps"), Opt("obfs", "salamander"),
                       ("obfs" :> "salamander") @@ ("obfs-password" :> "ow"),
                       ("obfs" :> "gecko") @@ ("obfs-password" :> "ow"), Opt("obfs", "odd"),
                       ("ports" :> "2000/3000") @@ ("port" :> "0") @@ ("hop-interval" :> "fast")})

Others ==
    Variants(Named("anytls", "password" :> "pw"),
             {Nothing, Reality @@ ("network" :> "tcp"), Reality, ShadowOpts, Opt("udp", "false"), Opt("disable-reuse", "true")})
    \cup Variants(Named("wireguard", ("private-key" :> "sk") @@ ("public-key" :> "pk") @@ ("ip" :> "10.0.0.2/24")),
                  {Nothing, ("preshared-key" :> "psk") @@ ("mtu" :> "9") @@ ("reserved" :> "r")})
    \cup Variants(Named("trusttunnel", ("username" :> "usr") @@ ("password" :> "pw")), {Nothing, Opt("headers", "h")})
    \cup {Named("ssh", ("username" :> "usr") @@ ("password" :> "pw")), Named("h2-connect", ("username" :> "usr") @@ ("password" :> "pw")),
          ("name" :> "a") @@ ("type" :> "direct")}

(* Passwords with an =, as the keys of the 2022 ciphers end in one.  ALPN   *)
(* stays away from them: a credential that has swallowed a quoted option   *)
(* holds quotes, and the formats differ in what they make of those.        *)
EqualsSecrets ==
    Variants("password" :> "p=2",
             {Named("trojan", Nothing), Named("trojan", "sni" :> "sni.com"), Named("anytls", Nothing),
              Named("hysteria2", Nothing), Named("ss", "cipher" :> "aes-128-gcm"),
              Named("ss", ("cipher" :> "aes-128-gcm") @@ ("udp" :> "false"))}
             \cup {("udp" :> "false") @@ ("server" :> "1.2.3.4") @@ Named(typ, Nothing) :
                      typ \in {"trojan", "anytls", "hysteria2"}})
    \cup Variants("password" :> "p=2",
             {a @@ t @@ Named(typ, Nothing) :
                 a \in {Nothing, "username" :> "usr", "username" :> "u=1"}, t \in Tls,
                 typ \in {"http", "socks5"}})

Bases == Vmess \cup Vless \cup Trojan \cup Shadowsocks \cup ShadowsocksR \cup HttpSocks
            \cup Snell \cup Tuic \cup Hysteria2 \cup Others

(* Options of any type, one at a time.                                     *)
Extras == {Nothing, Opt("udp", "false"), Opt("skip-cert-verify", "true"), Opt("server", "1.2.3.4"),
           Opt("alpn", "h2"), Opt("ip-version", "ipv4-prefer"), Opt("interface", "en0"),
           Opt("tfo", "true") @@ Opt("benchmark-url", "url"), Opt("dialer-proxy", "b")}

AllNodes == Bases \cup EqualsSecrets
            \cup UNION {Variants(n, Extras) : n \in {m \in Bases : "server" \in DOMAIN m}}
            \cup UNION {Variants(n, {x \in Extras : "alpn" \notin DOMAIN x}) : n \in EqualsSecrets}

Companion == Named("ss", ("password" :> "pw") @@ ("cipher" :> "chacha20-ietf-poly1305") @@ ("name" :> "b"))

MCDocuments == {<<n>> : n \in AllNodes} \cup {<<Companion, n>> : n \in Bases \cup EqualsSecrets}
============================================================================
