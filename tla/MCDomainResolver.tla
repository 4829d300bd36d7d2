------------------------- MODULE MCDomainResolver -------------------------
(***************************************************************************)
(* Instances of DomainResolver for TLC.                                    *)
(***************************************************************************)
EXTENDS DomainResolver, TLC

At(domain) == [server |-> [domain |-> domain, kind |-> "domain", type |-> ""],
               noResolve |-> FALSE, resolved |-> "unset", domain |-> "", port |-> "own"]
Ip   == [At("") EXCEPT !.server.kind = "v4"]
Left == [At("a") EXCEPT !.noResolve = TRUE]

\* Alone, x asks three custom servers for one domain, two at a time, and v two
\* servers for two domains.  y has two workers and shares the cache with u; u
\* and z ask the same provider for the same domain but not the same type.  The
\* answers to t, q and p are text.
MCTogether == {{"x"}, {"v"}, {"y", "u"}, {"u", "z"}, {"t"}, {"q"}, {"p"}}
MCProvider == [x |-> "Custom", v |-> "Custom", y |-> "Google", u |-> "Google",
               z |-> "Google", t |-> "Tencent", q |-> "Tencent", p |-> "IP-API"]
MCDnsType  == [r \in Runs |-> IF r \in {"z", "q"} THEN "IPv6" ELSE "IPv4"]
MCServers  == [r \in Runs |-> CASE r = "x" -> 3 [] r = "v" -> 2 [] OTHER -> 1]
MCCacheDisabled  == [r \in Runs |-> r = "v"]
MCCacheTtl       == [r \in Runs |-> IF r = "u" THEN 1 ELSE 0]
MCConcurrency    == [r \in Runs |-> IF r = "y" THEN 2 ELSE 1]
MCDnsConcurrency == [r \in Runs |-> IF r \in {"x", "v"} THEN 2 ELSE 1]
MCFilter == [x |-> "removeFailed", v |-> "", y |-> "IPv4Only", u |-> "IPOnly",
             z |-> "IPv6Only", t |-> "removeFailed", q |-> "IPv6Only", p |-> ""]
MCNodes == [x |-> <<At("a")>>, v |-> <<At("a"), At("b")>>,
            y |-> <<At("a"), Ip, At("b"), At("a"), Left>>,
            u |-> <<At("a")>>, z |-> <<At("a")>>, t |-> <<At("a")>>, q |-> <<At("a")>>,
            p |-> <<At("a"), At("a")>>]
=============================================================================
