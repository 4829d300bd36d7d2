--------------------------- MODULE DomainResolver ---------------------------
(***************************************************************************)
(* The "Resolve Domain Operator" (internal/processor/script.go and         *)
(* resolver.go): conversions that run at the same time look the domains of *)
(* their nodes up through one shared cache.  Each run hands the domains it *)
(* has to look up to a pool of workers over an unbuffered channel; a       *)
(* lookup with several custom DNS servers is itself a race of a second     *)
(* pool, whose answers come back over a buffered channel.  Every goroutine *)
(* is a process; a step ends where a goroutine meets another one: at a     *)
(* channel, at the cache's mutex, at the wait group, at the network, and   *)
(* at the map "results", which the workers of a run write without a lock.  *)
(*                                                                         *)
(* An address carries the domain and the record type it was asked for, and *)
(* what the answer is: some providers' answers are taken as they come, so  *)
(* it may be another type of address, or none.  What a server answers, and *)
(* how long it takes, is the environment's choice.                         *)
(***************************************************************************)
EXTENDS Integers, FiniteSets, Lists

CONSTANTS
    Runs,          \* conversions
    Together,      \* the sets of conversions that may be under way together
    Domains,       \* domain names of nodes
    Provider,      \* of each run: "Custom", "IP-API", "Google", ...
    DnsType,       \* of each run: "IPv4" or "IPv6"
    Servers,       \* of each run: number of custom DNS servers
    CacheDisabled, \* of each run
    CacheTtl,      \* of each run: seconds, 0 when it is not set
    Concurrency,   \* of each run: workers of the pool
    DnsConcurrency,\* of each run: servers of a lookup asked at a time
    Filter,        \* of each run: what happens to nodes without an address
    Nodes,         \* of each run: its nodes
    DefaultTtl,    \* defaultResolveCacheTTL
    MaxAnswers,    \* bound: kinds of address in one answer
    MaxTime        \* the clock stops here

NatMin(a, b) == IF a < b THEN a ELSE b

\* isIPStr: an IP4P address, with a port it can have or not, is an IPv6 one.
\* "domain" is the name the node came with, "text" another text.
IPs     == {"v4", "v6", "ip4p", "noPort"}
Kinds   == IPs \cup {"domain", "text", "empty"}
Address == [domain : Domains \cup {""}, kind : Kinds, type : {"", "IPv4", "IPv6"}]
Node    == [server : Address, noResolve : BOOLEAN, resolved : {"unset", "no", "yes"},
            domain : Domains \cup {""}, port : {"own", "ip4p"}]

ASSUME DnsAssumptions ==
    /\ Together \subseteq SUBSET Runs
    /\ \A r \in Runs :
          /\ Concurrency[r] \in Nat \ {0} /\ DnsConcurrency[r] \in Nat \ {0}
          /\ Servers[r] \in Nat \ {0} /\ CacheTtl[r] \in Nat
          /\ DnsType[r] \in {"IPv4", "IPv6"}
          /\ Provider[r] = "IP-API" => DnsType[r] = "IPv4"
          /\ Nodes[r] \in Seq(Node)
          /\ \A i \in DOMAIN Nodes[r] : Nodes[r][i].server.kind \in IPs \cup {"domain"}
    /\ DefaultTtl \in Nat \ {0} /\ MaxAnswers \in Nat \ {0} /\ MaxTime \in Nat

Slots(r)   == 1..Concurrency[r]
Ranks(r)   == 1..NatMin(DnsConcurrency[r], Servers[r])
Tasks(r)   == 1..Len(Nodes[r])

VARIABLES
    now,    \* the clock
    cache,  \* resolveResourceCache.entries
    st,     \* of each run: the goroutine of the conversion
    wk,     \* of each run: the workers of resolveDomainsWithConcurrency
    race,   \* of each run and domain: resolveWithCustomDNSConcurrency
    failed, \* the lookups that failed, by run and domain
    raced,  \* runs in which two workers wrote "results" at the same time
    fatal   \* the Go runtime found concurrent map writes and ended the process

vars == <<now, cache, st, wk, race, failed, raced, fatal>>

Off      == [pc |-> "off", task |-> 0, ips |-> {}]
NoRace(r) == [pc |-> "none", next |-> 1, out |-> <<>>, read |-> 0,
              wk |-> [k \in Ranks(r) |-> Off]]
Empty    == [id \in {} |-> 0]

Init ==
    /\ now = 0
    /\ cache = Empty
    /\ \E active \in Together :
         st = [r \in Runs |-> [pc |-> IF r \in active THEN "collect" ELSE "done", i |-> 1, seen |-> {}, results |-> Empty,
                             tasks |-> <<>>, next |-> 1, nodes |-> Nodes[r]]]
    /\ wk = [r \in Runs |-> [w \in Slots(r) |-> Off]]
    /\ race = [r \in Runs |-> [k \in Tasks(r) |-> NoRace(r)]]
    /\ failed = {} /\ raced = {}
    /\ fatal = FALSE

-----------------------------------------------------------------------------
(* The cache.                                                              *)

\* Mutant: the record type is no part of the id.
CacheIdNoType(r, domain) == <<Provider[r], domain, "", Servers[r]>>

\* The record type is part of the id but for IP-API, the list of servers is for
\* Custom (Servers stands for the list and for whether its certificates are
\* checked).  The EDNS subnet is not.
resolverCacheID(r, domain) ==
    <<Provider[r], domain,
      IF Provider[r] = "IP-API" THEN "" ELSE DnsType[r],
      IF Provider[r] = "Custom" THEN Servers[r] ELSE 0>>

With(f, x, v) == [y \in DOMAIN f \cup {x} |-> IF y = x THEN v ELSE f[y]]
Without(f, x) == [y \in DOMAIN f \ {x} |-> f[y]]

\* time.Now().After(expiresAt)
NeverExpires(id) == id \in DOMAIN cache

Cached(id) == id \in DOMAIN cache /\ now <= cache[id].expiresAt

\* get removes an entry that has expired.
AfterGet(id) == IF id \in DOMAIN cache /\ ~Cached(id) THEN Without(cache, id) ELSE cache

Ttl(r) == IF CacheTtl[r] <= 0 THEN DefaultTtl ELSE CacheTtl[r]

set(r, id, ips) ==
    cache' = With(cache, id, [ips |-> ips, expiresAt |-> now + Ttl(r), since |-> now,
                              ttl |-> Ttl(r)])

\* What the run remembers of an answer (since, ttl, got: for the properties).
Answer(ips) == [ips |-> ips, since |-> 0, ttl |-> 0, got |-> 0]
Hit(id)     == [ips |-> cache[id].ips, since |-> cache[id].since, ttl |-> cache[id].ttl,
                got |-> now]

-----------------------------------------------------------------------------
(* run: the domains to look up.                                            *)

Upd(r, s) == st' = [st EXCEPT ![r] = s]

IsIP(a) == a.kind \in IPs

Eligible(n) == ~IsIP(n.server) /\ ~n.noResolve

\* One node: an address, a node that opted out and an id that was seen are
\* skipped; a domain the cache knows is a result, another one a task.
Collect(r) ==
    LET s  == st[r]
        n  == s.nodes[s.i]
        id == resolverCacheID(r, n.server.domain)
        hit == ~CacheDisabled[r] /\ Cached(id)
    IN
    /\ s.pc = "collect" /\ s.i <= Len(s.nodes)
    /\ IF ~Eligible(n) \/ id \in s.seen
       THEN Upd(r, [s EXCEPT !.i = @ + 1]) /\ UNCHANGED cache
       ELSE /\ cache' = IF CacheDisabled[r] THEN cache ELSE AfterGet(id)
            /\ Upd(r, [s EXCEPT !.i = @ + 1, !.seen = @ \cup {id},
                         !.results = IF hit THEN With(@, id, Hit(id)) ELSE @,
                         !.tasks = IF hit THEN @
                                   ELSE Append(@, [id |-> id, domain |-> n.server.domain])])
    /\ UNCHANGED <<now, wk, race, failed, raced, fatal>>

\* resolveDomainsWithConcurrency: as many workers as tasks, at most.
StartPool(r) ==
    LET s == st[r] IN
    /\ s.pc = "collect" /\ s.i > Len(s.nodes)
    /\ IF s.tasks = <<>> THEN Upd(r, [s EXCEPT !.pc = "writeback"]) /\ UNCHANGED wk
       ELSE /\ Upd(r, [s EXCEPT !.pc = "hand"])
            /\ wk' = [wk EXCEPT ![r] = [w \in Slots(r) |->
                         IF w <= Len(s.tasks) THEN [Off EXCEPT !.pc = "recv"] ELSE Off]]
    /\ UNCHANGED <<now, cache, race, failed, raced, fatal>>

\* ch <- t meets a worker that receives.
HandOut(r, w) ==
    LET s == st[r] IN
    /\ s.pc = "hand" /\ s.next <= Len(s.tasks) /\ wk[r][w].pc = "recv"
    /\ Upd(r, [s EXCEPT !.next = @ + 1])
    /\ wk' = [wk EXCEPT ![r][w] = [Off EXCEPT !.pc = "lookup", !.task = s.next]]
    /\ UNCHANGED <<now, cache, race, failed, raced, fatal>>

CloseTasks(r) ==
    /\ st[r].pc = "hand" /\ st[r].next > Len(st[r].tasks)
    /\ Upd(r, [st[r] EXCEPT !.pc = "wait"])
    /\ UNCHANGED <<now, cache, wk, race, failed, raced, fatal>>

WorkerExit(r, w) ==
    /\ wk[r][w].pc = "recv" /\ st[r].pc = "wait"
    /\ wk' = [wk EXCEPT ![r][w] = Off]
    /\ UNCHANGED <<now, cache, st, race, failed, raced, fatal>>

\* Mutant: the results are used without waiting for the workers.
PoolDoneEarly(r) ==
    /\ st[r].pc = "wait"
    /\ Upd(r, [st[r] EXCEPT !.pc = "writeback"])
    /\ UNCHANGED <<now, cache, wk, race, failed, raced, fatal>>

\* wg.Wait
PoolDone(r) ==
    /\ st[r].pc = "wait" /\ \A w \in Slots(r) : wk[r][w].pc = "off"
    /\ Upd(r, [st[r] EXCEPT !.pc = "writeback"])
    /\ UNCHANGED <<now, cache, wk, race, failed, raced, fatal>>

-----------------------------------------------------------------------------
(* A worker: one lookup (cachedOrResolve, resolveProviderCustom).          *)

TaskOf(r, w) == st[r].tasks[wk[r][w].task]
Worker(r, w, s) == wk' = [wk EXCEPT ![r][w] = s]

Lookup(r, w) ==
    LET id == TaskOf(r, w).id IN
    /\ wk[r][w].pc = "lookup"
    /\ cache' = IF CacheDisabled[r] THEN cache ELSE AfterGet(id)
    /\ IF ~CacheDisabled[r] /\ Cached(id)
       THEN Worker(r, w, [wk[r][w] EXCEPT !.pc = "write", !.ips = {Hit(id)}])
            /\ UNCHANGED race
       ELSE IF Provider[r] = "Custom" /\ Servers[r] > 1
            THEN /\ Worker(r, w, [wk[r][w] EXCEPT !.pc = "race"])
                 /\ race' = [race EXCEPT ![r][wk[r][w].task] =
                        [NoRace(r) EXCEPT !.pc = "hand",
                                   !.wk = [k \in Ranks(r) |-> [Off EXCEPT !.pc = "recv"]]]]
            ELSE Worker(r, w, [wk[r][w] EXCEPT !.pc = "query"]) /\ UNCHANGED race
    /\ UNCHANGED <<now, st, failed, raced, fatal>>

\* These answer in DNS wire format, and records of another type are dropped.
\* The others answer text, which is passed on as it is.
Wire == {"Custom", "Google", "Cloudflare"}

AnswerKinds(r) ==
    {k \in Kinds \ {"domain"} :
        /\ Provider[r] \in Wire => k \in IF DnsType[r] = "IPv4" THEN {"v4"} ELSE IPs \ {"v4"}
        /\ Provider[r] = "IP-API" => k # "empty"}

\* What a query that succeeds may give; IP-API gives one address.
Answers(r, domain) ==
    {{[domain |-> domain, type |-> DnsType[r], kind |-> k] : k \in kinds} :
        kinds \in {ks \in SUBSET AnswerKinds(r) : Cardinality(ks) \in
                     1..(IF Provider[r] = "IP-API" THEN 1 ELSE MaxAnswers)}}

Fails(r, w) == /\ Worker(r, w, [Off EXCEPT !.pc = "recv"])
               /\ failed' = failed \cup {<<r, TaskOf(r, w).domain>>}

\* The server answers, or the query fails or times out and the worker goes on
\* with the next task.
Query(r, w) ==
    /\ wk[r][w].pc = "query"
    /\ \/ \E ips \in Answers(r, TaskOf(r, w).domain) :
             Worker(r, w, [wk[r][w] EXCEPT !.pc = "store", !.ips = {Answer(ips)}])
             /\ UNCHANGED failed
       \/ Fails(r, w)
    /\ UNCHANGED <<now, cache, st, race, raced, fatal>>

Store(r, w) ==
    /\ wk[r][w].pc = "store"
    /\ \E a \in wk[r][w].ips : set(r, TaskOf(r, w).id, a.ips)
    /\ Worker(r, w, [wk[r][w] EXCEPT !.pc = "write"])
    /\ UNCHANGED <<now, st, race, failed, raced, fatal>>

\* results[t.id] = ...: begins and ends; nothing keeps two workers apart.
Writing(r, w) == {v \in Slots(r) \ {w} : wk[r][v].pc = "writing"}

BeginWrite(r, w) ==
    /\ wk[r][w].pc = "write"
    /\ Worker(r, w, [wk[r][w] EXCEPT !.pc = "writing"])
    /\ IF Writing(r, w) = {} THEN UNCHANGED <<raced, fatal>>
       ELSE raced' = raced \cup {r} /\ fatal' \in BOOLEAN
    /\ UNCHANGED <<now, cache, st, race, failed>>

EndWrite(r, w) ==
    LET s == st[r] IN
    /\ wk[r][w].pc = "writing"
    /\ \/ \E a \in wk[r][w].ips :
             Upd(r, [s EXCEPT !.results = With(@, TaskOf(r, w).id, a)])
       \/ r \in raced /\ UNCHANGED st
    /\ Worker(r, w, [Off EXCEPT !.pc = "recv"])
    /\ UNCHANGED <<now, cache, race, failed, raced, fatal>>

-----------------------------------------------------------------------------
(* resolveWithCustomDNSConcurrency: the k-th domain of run r.              *)

Race(r, k, s) == race' = [race EXCEPT ![r][k] = s]

\* taskCh <- idx: all servers are handed out before an answer is read.
RaceHandOut(r, k, j) ==
    LET s == race[r][k] IN
    /\ s.pc = "hand" /\ s.next <= Servers[r] /\ s.wk[j].pc = "recv"
    /\ Race(r, k, [s EXCEPT !.next = @ + 1, !.wk[j] = [Off EXCEPT !.pc = "query"]])
    /\ UNCHANGED <<now, cache, st, wk, failed, raced, fatal>>

RaceClose(r, k) ==
    /\ race[r][k].pc = "hand" /\ race[r][k].next > Servers[r]
    /\ Race(r, k, [race[r][k] EXCEPT !.pc = "read"])
    /\ UNCHANGED <<now, cache, st, wk, failed, raced, fatal>>

RaceQuery(r, k, j) ==
    LET s == race[r][k] IN
    /\ s.wk[j].pc = "query"
    /\ \E ips \in Answers(r, st[r].tasks[k].domain) \cup {{}} :
          Race(r, k, [s EXCEPT !.wk[j].pc = "send", !.wk[j].ips = ips])
    /\ UNCHANGED <<now, cache, st, wk, failed, raced, fatal>>

\* Mutant: a channel with one slot.
OneSlot(r) == 1

OutCap(r) == Servers[r]

\* outCh <- outcome: blocks when the buffer is full.
RaceSend(r, k, j) ==
    LET s == race[r][k] IN
    /\ s.wk[j].pc = "send" /\ Len(s.out) - s.read < OutCap(r)
    /\ Race(r, k, [s EXCEPT !.out = Append(@, s.wk[j].ips),
                            !.wk[j] = [Off EXCEPT !.pc = "recv"]])
    /\ UNCHANGED <<now, cache, st, wk, failed, raced, fatal>>

\* The task channel is closed once all servers are handed out.
RaceWorkerExit(r, k, j) ==
    /\ race[r][k].wk[j].pc = "recv" /\ race[r][k].pc \in {"read", "end"}
    /\ Race(r, k, [race[r][k] EXCEPT !.wk[j] = Off])
    /\ UNCHANGED <<now, cache, st, wk, failed, raced, fatal>>

\* Mutant: the first outcome returns, a failure too.
RaceReadStopsAtFailure(r, w) ==
    LET k == wk[r][w].task
        s == race[r][k]
        out == s.out[s.read + 1]
    IN
    /\ wk[r][w].pc = "race" /\ s.pc = "read" /\ s.read < Len(s.out)
    /\ Race(r, k, [s EXCEPT !.read = @ + 1, !.pc = "end"])
    /\ IF out # {}
       THEN /\ Worker(r, w, [wk[r][w] EXCEPT !.pc = "store", !.ips = {Answer(out)}])
            /\ UNCHANGED failed
       ELSE Fails(r, w)
    /\ UNCHANGED <<now, cache, st, raced, fatal>>

\* for out := range outCh: the first success, or the last failure, returns.
RaceRead(r, w) ==
    LET k == wk[r][w].task
        s == race[r][k]
        out == s.out[s.read + 1]
    IN
    /\ wk[r][w].pc = "race" /\ s.pc = "read" /\ s.read < Len(s.out)
    /\ IF out # {}
       THEN /\ Race(r, k, [s EXCEPT !.read = @ + 1, !.pc = "end"])
            /\ Worker(r, w, [wk[r][w] EXCEPT !.pc = "store", !.ips = {Answer(out)}])
            /\ UNCHANGED failed
       ELSE /\ Race(r, k, [s EXCEPT !.read = @ + 1,
                                    !.pc = IF s.read + 1 = Servers[r] THEN "end" ELSE "read"])
            /\ IF s.read + 1 = Servers[r] THEN Fails(r, w) ELSE UNCHANGED <<wk, failed>>
    /\ UNCHANGED <<now, cache, st, raced, fatal>>

-----------------------------------------------------------------------------
(* run: the results go to the nodes, and the filter follows.               *)

\* An IP4P address is an IPv4 address and a port.
parseIP4P(a) == [a EXCEPT !.kind = "v4"]

\* The node with the address a; a run that asks for IPv6 reads IP4P addresses,
\* and one without a valid port leaves the node unresolved.
Resolve(r, n, known, a) ==
    LET ip4p == DnsType[r] = "IPv6" /\ a.kind = "ip4p" IN
    IF n.noResolve THEN n
    ELSE IF IsIP(n.server) \/ ~known \/ (DnsType[r] = "IPv6" /\ a.kind = "noPort")
         THEN [n EXCEPT !.resolved = IF @ = "yes" THEN @ ELSE "no"]
         ELSE [n EXCEPT !.server = IF ip4p THEN parseIP4P(a) ELSE a,
                        !.port = IF ip4p THEN "ip4p" ELSE @,
                        !.domain = n.server.domain, !.resolved = "yes"]

Kept(r, n) ==
    CASE Filter[r] = "removeFailed" -> IsIP(n.server) \/ n.noResolve \/ n.resolved = "yes"
      [] Filter[r] = "IPOnly"   -> IsIP(n.server)
      [] Filter[r] = "IPv4Only" -> n.server.kind = "v4"
      [] Filter[r] = "IPv6Only" -> n.server.kind \in IPs \ {"v4"}
      [] OTHER -> TRUE

\* rand.Intn picks, for each node, one of the addresses of its domain.
IdOf(r, n) == resolverCacheID(r, n.server.domain)
Options(r, n, results) ==
    IF IdOf(r, n) \in DOMAIN results THEN results[IdOf(r, n)].ips ELSE {n.server}
Pick(r, s) ==
    {f \in [DOMAIN s.nodes -> UNION {Options(r, s.nodes[i], s.results) : i \in DOMAIN s.nodes}] :
        \A i \in DOMAIN s.nodes : f[i] \in Options(r, s.nodes[i], s.results)}

WriteBack(r) ==
    LET s == st[r] IN
    /\ s.pc = "writeback"
    /\ \E pick \in Pick(r, s) :
          LET done == [i \in DOMAIN s.nodes |->
                         Resolve(r, s.nodes[i], IdOf(r, s.nodes[i]) \in DOMAIN s.results, pick[i])]
              keep == {n \in Node : Kept(r, n)}
          IN  Upd(r, [s EXCEPT !.pc = "done", !.nodes = FilterSeq(done, keep)])
    /\ UNCHANGED <<now, cache, wk, race, failed, raced, fatal>>

Tick ==
    /\ now < MaxTime /\ now' = now + 1
    /\ UNCHANGED <<cache, st, wk, race, failed, raced, fatal>>

Goroutine(r) ==
    \/ Collect(r) \/ StartPool(r) \/ CloseTasks(r) \/ PoolDone(r) \/ WriteBack(r)
    \/ \E w \in Slots(r) :
          \/ HandOut(r, w) \/ WorkerExit(r, w) \/ Lookup(r, w) \/ Query(r, w)
          \/ Store(r, w) \/ BeginWrite(r, w) \/ EndWrite(r, w) \/ RaceRead(r, w)
    \/ \E k \in Tasks(r) :
          \/ RaceClose(r, k)
          \/ \E j \in Ranks(r) : \/ RaceHandOut(r, k, j) \/ RaceQuery(r, k, j)
                                 \/ RaceSend(r, k, j) \/ RaceWorkerExit(r, k, j)

Quiet(r) == /\ st[r].pc = "done"
            /\ \A k \in Tasks(r), j \in Ranks(r) : race[r][k].wk[j].pc = "off"

Next ==
    \/ ~fatal /\ \E r \in Runs : Goroutine(r)
    \/ ~fatal /\ Tick

\* Go's scheduler runs every goroutine that can run, and a query ends at its
\* timeout at the latest.
Fairness == \A r \in Runs : WF_vars(~fatal /\ Goroutine(r))

Spec == Init /\ [][Next]_vars /\ Fairness

-----------------------------------------------------------------------------
\* A node only ever gets an answer to the question its own run asked: for its
\* own domain and the run's record type, whatever the other runs put into the
\* shared cache, and a cached one only within its time to live.  From a provider
\* that answers in DNS wire format it is an address of that type; an IPv4 one
\* answers a question for IPv6 only as part of an IP4P address.
Fitting(r, n) ==
    /\ n.server.domain = n.domain /\ n.server.type = DnsType[r]
    /\ Provider[r] \in Wire =>
          \/ n.server.kind = "v4" /\ (DnsType[r] = "IPv6" => n.port = "ip4p")
          \/ n.server.kind = "v6" /\ DnsType[r] = "IPv6"

OwnFreshAddress ==
    \A r \in Runs :
        /\ \A n \in {st[r].nodes[i] : i \in DOMAIN st[r].nodes} :
              n.resolved = "yes" => Fitting(r, n)
        /\ \A id \in DOMAIN st[r].results :
              LET e == st[r].results[id] IN e.got <= e.since + e.ttl

\* A lookup with several servers fails only when all of them have failed, and
\* otherwise returns the answer that came back first
\* (resolveWithCustomDNSConcurrency: "returns the first successful result").
FirstSuccessWins ==
    \A r \in Runs : \A k \in Tasks(r) :
        LET s  == race[r][k]
            ok == {i \in DOMAIN s.out : s.out[i] # {}}
        IN  s.pc = "end" =>
               IF ok = {} THEN Len(s.out) = Servers[r] /\ s.read = Servers[r]
               ELSE s.read \in ok /\ \A i \in ok : s.read <= i

\* When a run comes to write its results back, every domain it had to look up
\* either failed or has an answer, and not both, however the workers, the
\* cache and the other runs interleaved; unless two of its own workers wrote
\* "results" at once, when an answer may be lost (or the process ended).
AnswersAreUsed ==
    \A r \in Runs \ raced : st[r].pc = "writeback" =>
        \A n \in {st[r].nodes[i] : i \in DOMAIN st[r].nodes} : Eligible(n) =>
            (resolverCacheID(r, n.server.domain) \in DOMAIN st[r].results)
              # (<<r, n.server.domain>> \in failed)

\* No run waits for ever, and no goroutine of a race is left behind, blocked on
\* a channel nobody reads: everything ends, or the runtime ends the process.
EverythingEnds == <>(fatal \/ \A r \in Runs : Quiet(r))
=============================================================================
