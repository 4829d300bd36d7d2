------------------------ MODULE DomainResolverProofs ------------------------
(***************************************************************************)
(* Proofs about DomainResolver, for any number of conversions, workers,    *)
(* domains, nodes and servers.                                             *)
(*                                                                         *)
(* The invariant has four parts, each of one run: the types; what a lookup *)
(* of several servers has sent and read (RaceInv); that every address a    *)
(* run holds answers its own domain and type (AnswerInv, with the same of  *)
(* the shared cache); and where each domain of the run stands (UseInv).    *)
(***************************************************************************)
EXTENDS DomainResolver, Lemmas, FiniteSetTheorems

DomainOf == Domains \cup {""}

\* Functions from some of the elements of S to V.
Partial(S, V) == UNION {[T -> V] : T \in SUBSET S}

Ids    == {resolverCacheID(r, d) : r \in Runs, d \in DomainOf}
Ans    == [ips : SUBSET Address, since : Nat, ttl : Nat, got : Nat]
Entry  == [ips : SUBSET Address, expiresAt : Nat, since : Nat, ttl : Nat]
TaskT  == [id : Ids, domain : DomainOf]
Run    == [pc : {"collect", "hand", "wait", "writeback", "done"}, i : Nat \ {0},
           seen : SUBSET Ids, results : Partial(Ids, Ans), tasks : Seq(TaskT),
           next : Nat \ {0}, nodes : Seq(Node)]
PoolWorker == [pc : {"off", "recv", "lookup", "race", "query", "store", "write", "writing"},
               task : Nat, ips : SUBSET Ans]
RaceWorker == [pc : {"off", "recv", "query", "send"}, task : Nat, ips : SUBSET Address]
RaceOf(r)  == [pc : {"none", "hand", "read", "end"}, next : Nat \ {0},
               out : Seq(SUBSET Address), read : Nat, wk : [Ranks(r) -> RaceWorker]]

Shape ==
    /\ DOMAIN st = Runs /\ DOMAIN wk = Runs /\ DOMAIN race = Runs
    /\ st = [r \in Runs |-> st[r]] /\ wk = [r \in Runs |-> wk[r]]
    /\ race = [r \in Runs |-> race[r]]

TypeInv ==
    /\ now \in Nat
    /\ cache \in Partial(Ids, Entry)
    /\ Shape
    /\ \A r \in Runs :
          /\ st[r] \in Run
          /\ wk[r] \in [Slots(r) -> PoolWorker]
          /\ race[r] \in [Tasks(r) -> RaceOf(r)]
    /\ failed \subseteq Runs \X DomainOf

\* The worker has a task in hand.
Holds(ws, w) == ws[w].pc \notin {"off", "recv"}

\* The tasks of a run are nodes it has looked at, one for each id; the ones
\* before next have been handed out.
TaskInv(r, s, ws, rs) ==
    /\ s.pc = "collect" => s.i <= Len(s.nodes) + 1 /\ Len(s.tasks) < s.i
    /\ s.pc # "done" => s.nodes = Nodes[r]
    /\ Len(s.tasks) <= Len(Nodes[r])
    /\ s.next <= Len(s.tasks) + 1
    /\ \A k \in 1..Len(s.tasks) : s.tasks[k].id = resolverCacheID(r, s.tasks[k].domain)
    /\ \A w \in Slots(r) : Holds(ws, w) => ws[w].task \in 1..(s.next - 1)
    /\ \A k \in Tasks(r) : rs[k].pc # "none" => k \in 1..Len(s.tasks)
    /\ \A k \in Tasks(r) : rs[k].pc = "none" => \A j \in Ranks(r) : rs[k].wk[j].pc = "off"

-----------------------------------------------------------------------------
(* A lookup of several servers.                                            *)

Busy(r, s) == {j \in Ranks(r) : s.wk[j].pc \in {"query", "send"}}

\* Every server that was handed out is being asked or has answered; all that was
\* read before the end are failures.
RaceInv(r, s) ==
    /\ Len(s.out) + Cardinality(Busy(r, s)) = s.next - 1
    /\ s.next <= Servers[r] + 1
    /\ s.read <= Len(s.out)
    /\ \A i \in 1..(s.read - 1) : s.out[i] = {}
    /\ s.pc # "end" => \A i \in 1..s.read : s.out[i] = {}
    /\ s.pc = "end" => /\ s.read > 0
                       /\ s.out[s.read] = {} => s.read = Servers[r]

-----------------------------------------------------------------------------
(* The addresses.                                                          *)

\* Answers to the run's question for the domain, as its provider gives them.
RightAddress(r, d, a) == /\ a.domain = d /\ a.type = DnsType[r]
                         /\ a.kind \in AnswerKinds(r)
Right(r, d, ips) == \A a \in ips : RightAddress(r, d, a)

\* An answer a run remembers, for the domain.
RightAns(r, d, a) == Right(r, d, a.ips) /\ a.got <= a.since + a.ttl

CacheInv ==
    \A id \in DOMAIN cache :
        /\ cache[id].expiresAt = cache[id].since + cache[id].ttl
        /\ \A r \in Runs, d \in DomainOf :
              id = resolverCacheID(r, d) => Right(r, d, cache[id].ips)

\* No node had an address of an earlier lookup when the run began.
FreshNodes ==
    \A r \in Runs : \A i \in DOMAIN Nodes[r] : Nodes[r][i].resolved # "yes"

RightNodes(r, s) ==
    \A i \in DOMAIN s.nodes : s.nodes[i].resolved = "yes" => Fitting(r, s.nodes[i])

AnswerInv(r, s, ws, rs) ==
    /\ FreshNodes => RightNodes(r, s)
    /\ \A id \in DOMAIN s.results : \A d \in DomainOf :
          id = resolverCacheID(r, d) => RightAns(r, d, s.results[id])
    /\ \A id \in DOMAIN s.results : s.results[id].got <= s.results[id].since + s.results[id].ttl
    /\ \A w \in Slots(r) : Holds(ws, w) =>
          \A a \in ws[w].ips : RightAns(r, s.tasks[ws[w].task].domain, a)
    /\ \A k \in Tasks(r) : rs[k].pc # "none" =>
          /\ \A j \in Ranks(r) : Right(r, s.tasks[k].domain, rs[k].wk[j].ips)
          /\ \A i \in 1..Len(rs[k].out) : Right(r, s.tasks[k].domain, rs[k].out[i])

-----------------------------------------------------------------------------
(* Where each domain of a run stands.                                      *)

HeldBy(r, ws, k) == {w \in Slots(r) : Holds(ws, w) /\ ws[w].task = k}

FailedIn(pairs, r) == {d \in DomainOf : <<r, d>> \in pairs}

\* The nodes the run has looked at.
Looked(s) == IF s.pc = "collect" THEN 1..(s.i - 1) ELSE 1..Len(s.nodes)

\* The ids of the nodes it has looked at are results or tasks, each of them once.
SeenInv(r, s) ==
    /\ s.pc # "done" => \A i \in Looked(s) :
          Eligible(s.nodes[i]) => resolverCacheID(r, s.nodes[i].server.domain) \in s.seen
    /\ \A k, l \in 1..Len(s.tasks) : s.tasks[k].id = s.tasks[l].id => k = l
    /\ \A k \in 1..Len(s.tasks) : s.tasks[k].id \in s.seen
    /\ \A id \in s.seen : id \in DOMAIN s.results \/ \E k \in 1..Len(s.tasks) : s.tasks[k].id = id
    /\ DOMAIN s.results \subseteq s.seen
    /\ s.pc = "collect" => s.next = 1
    /\ s.pc \in {"wait", "writeback"} => s.next = Len(s.tasks) + 1

\* A task is in one worker's hands, and there are none when the run collects or
\* writes back.
PoolInv(r, s, ws) ==
    /\ \A v, w \in Slots(r) : Holds(ws, v) /\ Holds(ws, w) /\ ws[v].task = ws[w].task => v = w
    /\ s.pc \in {"collect", "writeback"} => \A w \in Slots(r) : ws[w].pc = "off"
    /\ \A w \in Slots(r) : ws[w].pc \in {"store", "write", "writing"} => ws[w].ips # {}

\* A task that is not over has no result and has not failed; one that is over
\* has one of them.
FateOf(r, s, ws, bad, lossy, k) ==
    LET got  == s.tasks[k].id \in DOMAIN s.results
        lost == s.tasks[k].domain \in bad
    IN  IF k >= s.next \/ HeldBy(r, ws, k) # {} THEN ~ got /\ ~ lost
        ELSE ~ (got /\ lost) /\ (lossy \/ got \/ lost)

\* A domain that failed is that of a task that was handed out.
FateInv(r, s, ws, bad, lossy) ==
    /\ \A d \in bad : \E k \in 1..(s.next - 1) : s.tasks[k].domain = d
    /\ \A k \in 1..Len(s.tasks) : FateOf(r, s, ws, bad, lossy, k)

UseInv(r, s, ws, bad, lossy) ==
    SeenInv(r, s) /\ PoolInv(r, s, ws) /\ FateInv(r, s, ws, bad, lossy)

ResolverInv ==
    /\ CacheInv
    /\ \A r \in Runs :
          /\ TaskInv(r, st[r], wk[r], race[r])
          /\ \A k \in Tasks(r) : RaceInv(r, race[r][k])
          /\ AnswerInv(r, st[r], wk[r], race[r])
          /\ UseInv(r, st[r], wk[r], FailedIn(failed, r), r \in raced)

-----------------------------------------------------------------------------
(* Functions on part of a set: the cache and the results.                  *)

\* What such a function is.
LEMMA PartialUse ==
    ASSUME NEW S, NEW V, NEW f \in Partial(S, V)
    PROVE  /\ DOMAIN f \subseteq S /\ f = [x \in DOMAIN f |-> f[x]]
           /\ \A x \in DOMAIN f : f[x] \in V
BY DEF Partial

\* How one is shown to be one.
LEMMA PartialIntro ==
    ASSUME NEW S, NEW V, NEW f, DOMAIN f \subseteq S, f = [x \in DOMAIN f |-> f[x]],
           \A x \in DOMAIN f : f[x] \in V
    PROVE  f \in Partial(S, V)
<1>1. f \in [DOMAIN f -> V]
  OBVIOUS
<1> QED
  BY <1>1 DEF Partial

\* The empty map is one.
LEMMA EmptyPartial ==
    ASSUME NEW S, NEW V
    PROVE  Empty \in Partial(S, V) /\ DOMAIN Empty = {}
BY DEF Partial, Empty

\* Setting a value.
LEMMA WithPartial ==
    ASSUME NEW S, NEW V, NEW f \in Partial(S, V), NEW x \in S, NEW v \in V
    PROVE  /\ With(f, x, v) \in Partial(S, V)
           /\ DOMAIN With(f, x, v) = DOMAIN f \cup {x}
           /\ With(f, x, v)[x] = v
           /\ \A y \in DOMAIN f : y # x => With(f, x, v)[y] = f[y]
<1> DEFINE ff == With(f, x, v)
<1>1. DOMAIN f \subseteq S /\ \A y \in DOMAIN f : f[y] \in V
  BY PartialUse
<1>2. /\ DOMAIN ff = DOMAIN f \cup {x} /\ ff = [y \in DOMAIN ff |-> ff[y]]
      /\ \A y \in DOMAIN ff : ff[y] = IF y = x THEN v ELSE f[y]
  BY DEF With
<1> HIDE DEF ff
<1>3. DOMAIN ff \subseteq S /\ \A y \in DOMAIN ff : ff[y] \in V
  BY <1>1, <1>2
<1>4. ff \in Partial(S, V)
  BY <1>2, <1>3, PartialIntro
<1> QED
  BY <1>2, <1>4 DEF ff

\* A result of a run is set.
LEMMA ResultWith ==
    ASSUME NEW f \in Partial(Ids, Ans), NEW id \in Ids, NEW a \in Ans
    PROVE  /\ With(f, id, a) \in Partial(Ids, Ans)
           /\ DOMAIN With(f, id, a) = DOMAIN f \cup {id}
           /\ With(f, id, a)[id] = a
           /\ \A y \in DOMAIN f : y # id => With(f, id, a)[y] = f[y]
<1> DEFINE ff == With(f, id, a)
<1>1. DOMAIN f \subseteq Ids /\ \A y \in DOMAIN f : f[y] \in Ans
  BY PartialUse
<1>2. /\ DOMAIN ff = DOMAIN f \cup {id} /\ ff = [y \in DOMAIN ff |-> ff[y]]
      /\ \A y \in DOMAIN ff : ff[y] = IF y = id THEN a ELSE f[y]
  BY DEF With
<1> HIDE DEF ff
<1>3. DOMAIN ff \subseteq Ids /\ \A y \in DOMAIN ff : ff[y] \in Ans
  BY <1>1, <1>2
<1>4. ff \in Partial(Ids, Ans)
  BY <1>2, <1>3, PartialIntro
<1> QED
  BY <1>2, <1>4 DEF ff

\* Removing one.
LEMMA WithoutPartial ==
    ASSUME NEW S, NEW V, NEW f \in Partial(S, V), NEW x
    PROVE  /\ Without(f, x) \in Partial(S, V)
           /\ DOMAIN Without(f, x) \subseteq DOMAIN f
           /\ \A y \in DOMAIN Without(f, x) : Without(f, x)[y] = f[y]
<1> DEFINE ff == Without(f, x)
<1>1. DOMAIN f \subseteq S /\ \A y \in DOMAIN f : f[y] \in V
  BY PartialUse
<1>2. /\ DOMAIN ff = DOMAIN f \ {x} /\ ff = [y \in DOMAIN ff |-> ff[y]]
      /\ \A y \in DOMAIN ff : ff[y] = f[y]
  BY DEF Without
<1> HIDE DEF ff
<1>3. DOMAIN ff \subseteq S /\ \A y \in DOMAIN ff : ff[y] \in V
  BY <1>1, <1>2
<1>4. ff \in Partial(S, V)
  BY <1>2, <1>3, PartialIntro
<1> QED
  BY <1>2, <1>4 DEF ff

-----------------------------------------------------------------------------
(* The cache.                                                              *)

\* An id tells the domain, the provider and the record type (IP-API, whose ids
\* leave the type out, only has one), and so what an answer can be.
LEMMA IdTells ==
    ASSUME NEW r \in Runs, NEW q \in Runs, NEW d, NEW e,
           resolverCacheID(r, d) = resolverCacheID(q, e)
    PROVE  d = e /\ DnsType[r] = DnsType[q] /\ AnswerKinds(r) = AnswerKinds(q)
<1>1. d = e /\ DnsType[r] = DnsType[q] /\ Provider[r] = Provider[q]
  BY DnsAssumptions DEF resolverCacheID
<1> QED
  BY <1>1 DEF AnswerKinds

\* A cache id is one of the ids.
LEMMA IdType ==
    ASSUME NEW r \in Runs, NEW d \in DomainOf
    PROVE  resolverCacheID(r, d) \in Ids
BY DEF Ids

\* get keeps the cache good, and what it finds has not expired.
LEMMA GetGood ==
    ASSUME TypeInv, CacheInv, NEW id, cache' = cache \/ cache' = AfterGet(id)
    PROVE  cache' \in Partial(Ids, Entry) /\ CacheInv'
<1>1. CASE cache' = cache
  BY <1>1 DEF TypeInv, CacheInv, Right
<1>2. CASE cache' = Without(cache, id)
  <2>1. /\ cache' \in Partial(Ids, Entry) /\ DOMAIN cache' \subseteq DOMAIN cache
        /\ \A x \in DOMAIN cache' : cache'[x] = cache[x]
    BY <1>2, WithoutPartial DEF TypeInv
  <2> QED
    BY <2>1 DEF CacheInv, Right
<1> QED
  BY <1>1, <1>2 DEF AfterGet

\* What a hit remembers is right for the domain of the id, and in its time.
LEMMA HitRight ==
    ASSUME TypeInv, CacheInv, NEW r \in Runs, NEW d \in DomainOf,
           Cached(resolverCacheID(r, d))
    PROVE  /\ Hit(resolverCacheID(r, d)) \in Ans
           /\ RightAns(r, d, Hit(resolverCacheID(r, d)))
<1> DEFINE id == resolverCacheID(r, d)
<1>1. id \in DOMAIN cache /\ cache[id] \in Entry /\ now \in Nat /\ now <= cache[id].expiresAt
  BY PartialUse DEF TypeInv, Cached
<1>2. cache[id].expiresAt = cache[id].since + cache[id].ttl /\ Right(r, d, cache[id].ips)
  BY <1>1 DEF CacheInv
<1> HIDE DEF id
<1> QED
  BY <1>1, <1>2 DEF Hit, Ans, RightAns, Entry, id

\* set keeps the cache good when the addresses are right.
LEMMA SetGood ==
    ASSUME TypeInv, CacheInv, NEW r \in Runs, NEW d \in DomainOf,
           NEW ips \in SUBSET Address, Right(r, d, ips),
           set(r, resolverCacheID(r, d), ips)
    PROVE  cache' \in Partial(Ids, Entry) /\ CacheInv'
<1> DEFINE id == resolverCacheID(r, d)
           e  == [ips |-> ips, expiresAt |-> now + Ttl(r), since |-> now, ttl |-> Ttl(r)]
<1>1. Ttl(r) \in Nat /\ now \in Nat
  BY DnsAssumptions DEF Ttl, TypeInv
<1>2. e \in Entry /\ e.expiresAt = e.since + e.ttl /\ e.ips = ips
  BY <1>1 DEF Entry
<1>3. id \in Ids /\ cache' = With(cache, id, e)
  BY IdType DEF set
<1> HIDE DEF e
<1>4. /\ cache' \in Partial(Ids, Entry) /\ DOMAIN cache' = DOMAIN cache \cup {id}
      /\ cache'[id] = e /\ \A x \in DOMAIN cache : x # id => cache'[x] = cache[x]
  <2> HIDE DEF id
  <2>1. cache \in Partial(Ids, Entry) /\ id \in Ids /\ e \in Entry
    BY <1>2, <1>3 DEF TypeInv
  <2>2. /\ With(cache, id, e) \in Partial(Ids, Entry)
        /\ DOMAIN With(cache, id, e) = DOMAIN cache \cup {id}
        /\ With(cache, id, e)[id] = e
        /\ \A x \in DOMAIN cache : x # id => With(cache, id, e)[x] = cache[x]
    BY <2>1, WithPartial
  <2> QED
    BY <1>3, <2>2
<1>5. ASSUME NEW q \in Runs, NEW f \in DomainOf, id = resolverCacheID(q, f)
      PROVE  Right(q, f, ips)
  <2>1. f = d /\ DnsType[q] = DnsType[r] /\ AnswerKinds(q) = AnswerKinds(r)
    BY <1>5, IdTells
  <2> QED
    BY <2>1 DEF Right, RightAddress
<1> HIDE DEF id
<1>6. ASSUME NEW x \in DOMAIN cache'
      PROVE  /\ cache'[x].expiresAt = cache'[x].since + cache'[x].ttl
             /\ \A q \in Runs, f \in DomainOf :
                   x = resolverCacheID(q, f) => Right(q, f, cache'[x].ips)
  <2>1. CASE x = id
    BY <1>2, <1>4, <1>5, <2>1
  <2>2. CASE x # id
    BY <1>4, <2>2 DEF CacheInv
  <2> QED
    BY <2>1, <2>2
<1>7. CacheInv'
  BY <1>6, Zenon DEF CacheInv
<1> QED
  BY <1>4, <1>7

-----------------------------------------------------------------------------
(* A step of one run.                                                      *)

\* Run r is good in the given state of its goroutines.
GoodRun(r, s, ws, rs, bad, lossy) ==
    /\ s \in Run /\ ws \in [Slots(r) -> PoolWorker] /\ rs \in [Tasks(r) -> RaceOf(r)]
    /\ TaskInv(r, s, ws, rs)
    /\ \A k \in Tasks(r) : RaceInv(r, rs[k])
    /\ AnswerInv(r, s, ws, rs)
    /\ UseInv(r, s, ws, bad, lossy)

\* A step of run r leaves the others alone, so it keeps the invariant when it
\* leaves the cache and the run good.
LEMMA RunStep ==
    ASSUME TypeInv, ResolverInv, NEW r \in Runs, NEW s, NEW ws, NEW rs,
           st' = [st EXCEPT ![r] = s], wk' = [wk EXCEPT ![r] = ws],
           race' = [race EXCEPT ![r] = rs], now' = now,
           cache' \in Partial(Ids, Entry), CacheInv',
           failed' = failed \/ \E d \in DomainOf : failed' = failed \cup {<<r, d>>},
           raced' = raced \/ raced' = raced \cup {r},
           GoodRun(r, s, ws, rs, FailedIn(failed', r), r \in raced')
    PROVE  TypeInv' /\ ResolverInv'
<1>1. \A q \in Runs : /\ st'[q] = IF q = r THEN s ELSE st[q]
                      /\ wk'[q] = IF q = r THEN ws ELSE wk[q]
                      /\ race'[q] = IF q = r THEN rs ELSE race[q]
  BY DEF TypeInv, Shape
<1>2. Shape'
  BY DEF TypeInv, Shape
<1>3. failed' \subseteq Runs \X DomainOf
  BY DEF TypeInv
<1>4. ASSUME NEW q \in Runs, q # r
      PROVE  FailedIn(failed', q) = FailedIn(failed, q) /\ (q \in raced' <=> q \in raced)
  BY <1>4 DEF FailedIn
<1>5. ASSUME NEW q \in Runs
      PROVE  GoodRun(q, st'[q], wk'[q], race'[q], FailedIn(failed', q), q \in raced')
  <2>1. CASE q = r
    BY <1>1, <2>1
  <2>2. CASE q # r
    <3>1. GoodRun(q, st[q], wk[q], race[q], FailedIn(failed, q), q \in raced)
      BY DEF GoodRun, TypeInv, ResolverInv
    <3>2. (q \in raced') = (q \in raced)
      BY <1>4, <2>2
    <3> QED
      BY <1>1, <1>4, <2>2, <3>1, <3>2
  <2> QED
    BY <2>1, <2>2
<1>6. TypeInv'
  BY <1>2, <1>3, <1>5 DEF TypeInv, GoodRun
<1>7. ResolverInv'
  BY <1>5 DEF ResolverInv, GoodRun
<1> QED
  BY <1>6, <1>7

\* The run whose step it is, before it.
LEMMA RunBefore ==
    ASSUME TypeInv, ResolverInv, NEW r \in Runs
    PROVE  /\ GoodRun(r, st[r], wk[r], race[r], FailedIn(failed, r), r \in raced)
           /\ st = [st EXCEPT ![r] = st[r]] /\ wk = [wk EXCEPT ![r] = wk[r]]
           /\ race = [race EXCEPT ![r] = race[r]]
           /\ CacheInv /\ cache \in Partial(Ids, Entry)
BY DEF TypeInv, ResolverInv, GoodRun, Shape

\* The types of the fields of a run.
LEMMA RunFields ==
    ASSUME NEW s \in Run
    PROVE  /\ s.i \in Nat \ {0} /\ s.next \in Nat \ {0} /\ s.seen \subseteq Ids
           /\ s.results \in Partial(Ids, Ans)
           /\ s.nodes \in Seq(Node) /\ Len(s.nodes) \in Nat
           /\ s.tasks \in Seq(TaskT) /\ Len(s.tasks) \in Nat
           /\ \A k \in 1..Len(s.tasks) :
                 s.tasks[k] \in TaskT /\ s.tasks[k].domain \in DomainOf /\ s.tasks[k].id \in Ids
<1>1. /\ s.i \in Nat \ {0} /\ s.next \in Nat \ {0} /\ s.seen \subseteq Ids
      /\ s.results \in Partial(Ids, Ans) /\ s.nodes \in Seq(Node) /\ s.tasks \in Seq(TaskT)
  BY DEF Run
<1>2. \A k \in 1..Len(s.tasks) : s.tasks[k] \in TaskT
  BY <1>1
<1>3. \A x \in TaskT : x.domain \in DomainOf /\ x.id \in Ids
  BY DEF TaskT
<1>4. Len(s.tasks) \in Nat /\ Len(s.nodes) \in Nat
  BY <1>1
<1> QED
  BY <1>1, <1>2, <1>3, <1>4

-----------------------------------------------------------------------------
(* What the steps do to a run: the pool.                                   *)

\* A run in which writes may be lost promises less.
LEMMA LossyGood ==
    ASSUME NEW r \in Runs, NEW s, NEW ws, NEW rs, NEW bad, NEW lossy, NEW more,
           GoodRun(r, s, ws, rs, bad, lossy), lossy => more
    PROVE  GoodRun(r, s, ws, rs, bad, more)
BY DEF GoodRun, UseInv, FateInv, FateOf

\* A worker goes on with its task.
LEMMA WorkerGoesOn ==
    ASSUME NEW r \in Runs, NEW s, NEW ws, NEW rs, NEW bad, NEW lossy,
           GoodRun(r, s, ws, rs, bad, lossy), NEW w \in Slots(r), Holds(ws, w),
           NEW v \in PoolWorker, v.pc \notin {"off", "recv"}, v.task = ws[w].task,
           v.pc \in {"store", "write", "writing"} => v.ips # {},
           \A a \in v.ips : RightAns(r, s.tasks[v.task].domain, a)
    PROVE  GoodRun(r, s, [ws EXCEPT ![w] = v], rs, bad, lossy)
<1> DEFINE us == [ws EXCEPT ![w] = v]
<1>1. us \in [Slots(r) -> PoolWorker]
  BY DEF GoodRun
<1>2. \A x \in Slots(r) : us[x] = IF x = w THEN v ELSE ws[x]
  BY DEF GoodRun
<1> HIDE DEF us
<1>3. \A x \in Slots(r) : us[x].task = ws[x].task /\ (Holds(us, x) <=> Holds(ws, x))
  BY <1>2 DEF Holds
<1>4. TaskInv(r, s, us, rs)
  BY <1>3 DEF GoodRun, TaskInv
<1>5. AnswerInv(r, s, us, rs)
  BY <1>2, <1>3 DEF GoodRun, AnswerInv
<1>6. \A k : HeldBy(r, us, k) = HeldBy(r, ws, k)
  BY <1>3 DEF HeldBy
<1>7. ws[w].pc # "off" /\ us[w].pc # "off"
  BY <1>2 DEF Holds
<1>8. PoolInv(r, s, us)
  BY <1>2, <1>3, <1>7 DEF GoodRun, UseInv, PoolInv
<1>9. FateInv(r, s, us, bad, lossy)
  BY <1>6 DEF GoodRun, UseInv, FateInv, FateOf
<1>10. UseInv(r, s, us, bad, lossy)
  BY <1>8, <1>9 DEF GoodRun, UseInv
<1> QED
  BY <1>1, <1>4, <1>5, <1>10 DEF GoodRun, us

\* Workers without a task may leave.
LEMMA IdleWorkers ==
    ASSUME NEW r \in Runs, NEW s, NEW ws, NEW rs, NEW bad, NEW lossy,
           GoodRun(r, s, ws, rs, bad, lossy), NEW us \in [Slots(r) -> PoolWorker],
           \A x \in Slots(r) : us[x] = ws[x] \/ (~ Holds(ws, x) /\ us[x].pc = "off")
    PROVE  GoodRun(r, s, us, rs, bad, lossy)
<1>1. \A x \in Slots(r) : /\ Holds(us, x) <=> Holds(ws, x)
                          /\ Holds(us, x) => us[x] = ws[x]
                          /\ us[x].pc \in {"store", "write", "writing"} => us[x] = ws[x]
                          /\ ws[x].pc = "off" => us[x].pc = "off"
  BY DEF Holds
<1>2. TaskInv(r, s, us, rs)
  BY <1>1 DEF GoodRun, TaskInv
<1>3. AnswerInv(r, s, us, rs)
  BY <1>1 DEF GoodRun, AnswerInv
<1>4. \A k : HeldBy(r, us, k) = HeldBy(r, ws, k)
  BY <1>1 DEF HeldBy
<1>5. PoolInv(r, s, us)
  BY <1>1 DEF GoodRun, UseInv, PoolInv
<1>6. FateInv(r, s, us, bad, lossy)
  BY <1>4 DEF GoodRun, UseInv, FateInv, FateOf
<1> QED
  BY <1>2, <1>3, <1>5, <1>6 DEF GoodRun, UseInv

\* StartPool, with tasks: the workers start.
LEMMA StartGood ==
    ASSUME NEW r \in Runs, NEW s, NEW ws, NEW rs, NEW bad, NEW lossy,
           GoodRun(r, s, ws, rs, bad, lossy), s.pc = "collect", s.i > Len(s.nodes),
           NEW us \in [Slots(r) -> PoolWorker],
           \A x \in Slots(r) : us[x].pc \in {"off", "recv"}
    PROVE  GoodRun(r, [s EXCEPT !.pc = "hand"], us, rs, bad, lossy)
<1> DEFINE z == [s EXCEPT !.pc = "hand"]
<1>1. /\ z \in Run /\ z.pc = "hand" /\ z.i = s.i /\ z.seen = s.seen /\ z.results = s.results
      /\ z.tasks = s.tasks /\ z.next = s.next /\ z.nodes = s.nodes
      /\ s.i \in Nat /\ s.nodes \in Seq(Node)
  BY DEF GoodRun, Run
<1> HIDE DEF z
<1>2. \A x \in Slots(r) : ~ Holds(us, x) /\ ~ Holds(ws, x)
  BY DEF Holds, GoodRun, UseInv, PoolInv
<1>3. TaskInv(r, z, us, rs)
  BY <1>1, <1>2 DEF GoodRun, TaskInv
<1>4. AnswerInv(r, z, us, rs)
  BY <1>1, <1>2 DEF GoodRun, AnswerInv, RightNodes
<1>5. \A k : HeldBy(r, us, k) = {} /\ HeldBy(r, ws, k) = {}
  BY <1>2 DEF HeldBy
<1>6. Looked(z) \subseteq Looked(s)
  BY <1>1 DEF Looked
<1>7. SeenInv(r, z)
  BY <1>1, <1>6 DEF GoodRun, UseInv, SeenInv
<1>8. PoolInv(r, z, us)
  BY <1>1, <1>2 DEF PoolInv
<1>9. FateInv(r, z, us, bad, lossy)
  BY <1>1, <1>5 DEF GoodRun, UseInv, FateInv, FateOf
<1> QED
  BY <1>1, <1>3, <1>4, <1>7, <1>8, <1>9 DEF GoodRun, UseInv, z

\* The conversion goes to its next stage once nothing is left of the one before.
LEMMA StageGood ==
    ASSUME NEW r \in Runs, NEW s, NEW ws, NEW rs, NEW bad, NEW lossy,
           GoodRun(r, s, ws, rs, bad, lossy), NEW pc \in {"wait", "writeback"},
           s.pc \in {"collect", "hand", "wait"},
           s.pc = "collect" => s.i > Len(s.nodes), s.next = Len(s.tasks) + 1,
           pc = "writeback" => \A w \in Slots(r) : ws[w].pc = "off"
    PROVE  GoodRun(r, [s EXCEPT !.pc = pc], ws, rs, bad, lossy)
<1> DEFINE z == [s EXCEPT !.pc = pc]
<1>1. /\ z \in Run /\ z.pc = pc /\ z.i = s.i /\ z.seen = s.seen /\ z.results = s.results
      /\ z.tasks = s.tasks /\ z.next = s.next /\ z.nodes = s.nodes
      /\ s.i \in Nat /\ s.nodes \in Seq(Node)
  BY DEF GoodRun, Run
<1> HIDE DEF z
<1>2. TaskInv(r, z, ws, rs)
  BY <1>1 DEF GoodRun, TaskInv
<1>3. AnswerInv(r, z, ws, rs)
  BY <1>1 DEF GoodRun, AnswerInv, RightNodes
<1>4. Looked(z) \subseteq Looked(s)
  BY <1>1 DEF Looked
<1>5. SeenInv(r, z)
  BY <1>1, <1>4 DEF GoodRun, UseInv, SeenInv
<1>6. PoolInv(r, z, ws)
  BY <1>1 DEF GoodRun, UseInv, PoolInv
<1>7. FateInv(r, z, ws, bad, lossy)
  BY <1>1 DEF GoodRun, UseInv, FateInv, FateOf
<1> QED
  BY <1>1, <1>2, <1>3, <1>5, <1>6, <1>7 DEF GoodRun, UseInv, z

\* HandOut.
LEMMA HandOutGood ==
    ASSUME NEW r \in Runs, NEW s, NEW ws, NEW rs, NEW bad, NEW lossy,
           GoodRun(r, s, ws, rs, bad, lossy), NEW w \in Slots(r),
           s.pc = "hand", s.next <= Len(s.tasks), ws[w].pc = "recv"
    PROVE  GoodRun(r, [s EXCEPT !.next = @ + 1],
                   [ws EXCEPT ![w] = [Off EXCEPT !.pc = "lookup", !.task = s.next]],
                   rs, bad, lossy)
<1> DEFINE z == [s EXCEPT !.next = @ + 1]
           v == [Off EXCEPT !.pc = "lookup", !.task = s.next]
           us == [ws EXCEPT ![w] = v]
<1>1. /\ z \in Run /\ z.pc = "hand" /\ z.i = s.i /\ z.seen = s.seen /\ z.results = s.results
      /\ z.tasks = s.tasks /\ z.next = s.next + 1 /\ z.nodes = s.nodes
      /\ s.i \in Nat /\ s.nodes \in Seq(Node) /\ s.next \in Nat \ {0} /\ Len(s.tasks) \in Nat
  <2>1. s \in Run
    BY DEF GoodRun
  <2>2. s.next + 1 \in Nat \ {0}
    BY <2>1, RunFields
  <2> QED
    BY <2>1, <2>2, RunFields DEF Run
<1>2. v \in PoolWorker /\ v.pc = "lookup" /\ v.task = s.next /\ v.ips = {}
  BY <1>1 DEF PoolWorker, Off
<1> HIDE DEF z, v
<1>3. us \in [Slots(r) -> PoolWorker] /\ \A x \in Slots(r) : us[x] = IF x = w THEN v ELSE ws[x]
  BY <1>2 DEF GoodRun
<1> HIDE DEF us
<1>4. /\ Holds(us, w) /\ ~ Holds(ws, w)
      /\ \A x \in Slots(r) : x # w => (Holds(us, x) <=> Holds(ws, x)) /\ us[x] = ws[x]
  BY <1>2, <1>3 DEF Holds
<1>5. \A x \in Slots(r) : Holds(ws, x) => ws[x].task \in 1..(s.next - 1)
  BY DEF GoodRun, TaskInv
<1>6. TaskInv(r, z, us, rs)
  BY <1>1, <1>2, <1>3, <1>4, <1>5 DEF GoodRun, TaskInv
<1>7. AnswerInv(r, z, us, rs)
  BY <1>1, <1>2, <1>3, <1>4 DEF GoodRun, AnswerInv, RightNodes
<1>8. SeenInv(r, z)
  <2>1. Looked(z) = Looked(s)
    BY <1>1 DEF Looked
  <2> QED
    BY <1>1, <2>1 DEF GoodRun, UseInv, SeenInv
<1>9. PoolInv(r, z, us)
  <2>1. \A x \in Slots(r) : Holds(us, x) /\ us[x].task = s.next => x = w
    BY <1>1, <1>4, <1>5
  <2>2. ASSUME NEW x \in Slots(r), NEW y \in Slots(r), Holds(us, x), Holds(us, y),
               us[x].task = us[y].task
        PROVE  x = y
    <3>1. CASE x = w \/ y = w
      BY <1>2, <1>3, <2>1, <2>2, <3>1
    <3>2. CASE x # w /\ y # w
      BY <1>4, <2>2, <3>2 DEF GoodRun, UseInv, PoolInv
    <3> QED
      BY <3>1, <3>2
  <2> QED
    BY <1>1, <1>2, <1>3, <2>2 DEF GoodRun, UseInv, PoolInv
<1>10. FateInv(r, z, us, bad, lossy)
  <2>1. ASSUME NEW k \in 1..Len(s.tasks) PROVE FateOf(r, z, us, bad, lossy, k)
    <3>1. FateOf(r, s, ws, bad, lossy, k)
      BY DEF GoodRun, UseInv, FateInv
    <3>2. CASE k = s.next
      <4>1. w \in HeldBy(r, us, k)
        BY <1>2, <1>3, <1>4, <3>2 DEF HeldBy
      <4> QED
        BY <1>1, <3>1, <3>2, <4>1 DEF FateOf
    <3>3. CASE k # s.next
      <4>1. HeldBy(r, us, k) = HeldBy(r, ws, k)
        BY <1>2, <1>3, <1>4, <3>3 DEF HeldBy
      <4> QED
        BY <1>1, <3>1, <3>3, <4>1 DEF FateOf
    <3> QED
      BY <3>2, <3>3
  <2>2. \A d \in bad : \E k \in 1..(z.next - 1) : z.tasks[k].domain = d
    BY <1>1 DEF GoodRun, UseInv, FateInv
  <2> QED
    BY <1>1, <2>1, <2>2 DEF FateInv
<1> QED
  BY <1>1, <1>3, <1>6, <1>7, <1>8, <1>9, <1>10 DEF GoodRun, UseInv, z, us, v

\* A task is over: the worker has failed, or has written its result (or lost it
\* to another worker's write), and receives again.
LEMMA TaskOverGood ==
    ASSUME NEW r \in Runs, NEW s, NEW ws, NEW rs, NEW bad, NEW lossy,
           GoodRun(r, s, ws, rs, bad, lossy), NEW w \in Slots(r), Holds(ws, w),
           NEW results \in Partial(Ids, Ans), NEW worse \in SUBSET DomainOf,
           LET t == s.tasks[ws[w].task] IN
              \/ results = s.results /\ worse = bad \cup {t.domain}
              \/ /\ worse = bad /\ DOMAIN results = DOMAIN s.results \cup {t.id}
                 /\ \A id \in DOMAIN s.results : id # t.id => results[id] = s.results[id]
                 /\ RightAns(r, t.domain, results[t.id])
              \/ results = s.results /\ worse = bad /\ lossy
    PROVE  GoodRun(r, [s EXCEPT !.results = results],
                   [ws EXCEPT ![w] = [Off EXCEPT !.pc = "recv"]], rs, worse, lossy)
<1> DEFINE z == [s EXCEPT !.results = results]
           v == [Off EXCEPT !.pc = "recv"]
           us == [ws EXCEPT ![w] = v]
           m == ws[w].task
           t == s.tasks[m]
<1>1. /\ z \in Run /\ z.pc = s.pc /\ z.i = s.i /\ z.seen = s.seen /\ z.results = results
      /\ z.tasks = s.tasks /\ z.next = s.next /\ z.nodes = s.nodes
      /\ s.next \in Nat \ {0} /\ Len(s.tasks) \in Nat
  <2>1. s \in Run
    BY DEF GoodRun
  <2> QED
    BY <2>1, RunFields DEF Run
<1>2. v \in PoolWorker /\ v.pc = "recv" /\ v.ips = {}
  BY DEF PoolWorker, Off
<1> HIDE DEF z, v
<1>3. us \in [Slots(r) -> PoolWorker] /\ \A x \in Slots(r) : us[x] = IF x = w THEN v ELSE ws[x]
  BY <1>2 DEF GoodRun
<1> HIDE DEF us
<1>4. /\ ~ Holds(us, w)
      /\ \A x \in Slots(r) : x # w => (Holds(us, x) <=> Holds(ws, x)) /\ us[x] = ws[x]
  BY <1>2, <1>3 DEF Holds
<1>5. m \in 1..(s.next - 1) /\ m \in 1..Len(s.tasks) /\ m < s.next
  BY <1>1 DEF GoodRun, TaskInv
<1>6. t \in TaskT /\ t.id = resolverCacheID(r, t.domain) /\ t.domain \in DomainOf
  <2>1. s \in Run /\ TaskInv(r, s, ws, rs)
    BY DEF GoodRun
  <2> QED
    BY <1>5, <2>1, RunFields DEF TaskInv
<1>7. \A k \in 1..Len(s.tasks) : k # m => s.tasks[k].id # t.id /\ s.tasks[k].domain # t.domain
  BY <1>5, <1>6 DEF GoodRun, UseInv, SeenInv, TaskInv
<1>8. TaskInv(r, z, us, rs)
  BY <1>1, <1>4 DEF GoodRun, TaskInv
<1>a. \/ results = s.results /\ worse = bad \cup {t.domain}
      \/ /\ worse = bad /\ DOMAIN results = DOMAIN s.results \cup {t.id}
         /\ \A id \in DOMAIN s.results : id # t.id => results[id] = s.results[id]
         /\ RightAns(r, t.domain, results[t.id])
      \/ results = s.results /\ worse = bad /\ lossy
  OBVIOUS
<1> HIDE DEF t, m
<1>9. AnswerInv(r, z, us, rs)
  <2>1. ASSUME NEW id \in DOMAIN results
        PROVE  /\ \A d \in DomainOf : id = resolverCacheID(r, d) => RightAns(r, d, results[id])
               /\ results[id].got <= results[id].since + results[id].ttl
    <3>1. CASE id \in DOMAIN s.results /\ results[id] = s.results[id]
      BY <3>1 DEF GoodRun, AnswerInv
    <3>2. CASE id = t.id /\ RightAns(r, t.domain, results[t.id])
      <4>1. ASSUME NEW d \in DomainOf, id = resolverCacheID(r, d) PROVE d = t.domain
        <5>1. resolverCacheID(r, d) = resolverCacheID(r, t.domain)
          BY <1>6, <3>2, <4>1
        <5> QED
          BY <5>1, IdTells
      <4> QED
        BY <3>2, <4>1 DEF RightAns
    <3> QED
      BY <1>a, <3>1, <3>2
  <2> QED
    BY <1>1, <1>4, <2>1 DEF GoodRun, AnswerInv, RightNodes
<1>10. SeenInv(r, z)
  <2>1. Looked(z) = Looked(s)
    BY <1>1 DEF Looked
  <2>2. DOMAIN s.results \subseteq DOMAIN results /\ DOMAIN results \subseteq s.seen
    BY <1>5, <1>a DEF GoodRun, UseInv, SeenInv, t
  <2> QED
    BY <1>1, <2>1, <2>2 DEF GoodRun, UseInv, SeenInv
<1>11. PoolInv(r, z, us)
  <2>1. s.pc \in {"collect", "writeback"} => us[w].pc = "off"
    BY DEF GoodRun, UseInv, PoolInv, Holds
  <2> QED
    BY <1>1, <1>2, <1>3, <1>4, <2>1 DEF GoodRun, UseInv, PoolInv
<1>12. FateInv(r, z, us, worse, lossy)
  <2>1. ASSUME NEW k \in 1..Len(s.tasks) PROVE FateOf(r, z, us, worse, lossy, k)
    <3>1. FateOf(r, s, ws, bad, lossy, k)
      BY DEF GoodRun, UseInv, FateInv
    <3>2. CASE k = m
      <4>1. w \in HeldBy(r, ws, k)
        BY <3>2 DEF HeldBy, m
      <4>2. s.tasks[k].id \notin DOMAIN s.results /\ s.tasks[k].domain \notin bad
        BY <3>1, <4>1 DEF FateOf
      <4>3. HeldBy(r, us, k) = {}
        BY <1>4, <3>2 DEF HeldBy, GoodRun, UseInv, PoolInv, m
      <4> QED
        BY <1>1, <1>5, <1>a, <3>2, <4>2, <4>3 DEF FateOf, t
    <3>3. CASE k # m
      <4>1. HeldBy(r, us, k) = HeldBy(r, ws, k)
        BY <1>4, <3>3 DEF HeldBy, m
      <4>2. /\ s.tasks[k].id \in DOMAIN results <=> s.tasks[k].id \in DOMAIN s.results
            /\ s.tasks[k].domain \in worse <=> s.tasks[k].domain \in bad
        BY <1>7, <1>a, <3>3
      <4> QED
        BY <1>1, <3>1, <4>1, <4>2 DEF FateOf
    <3> QED
      BY <3>2, <3>3
  <2>2. \A d \in worse : \E k \in 1..(z.next - 1) : z.tasks[k].domain = d
    BY <1>1, <1>5, <1>a DEF GoodRun, UseInv, FateInv, t
  <2> QED
    BY <1>1, <2>1, <2>2 DEF FateInv
<1> QED
  BY <1>1, <1>3, <1>8, <1>9, <1>10, <1>11, <1>12 DEF GoodRun, UseInv, z, us, v

\* Collect: a node is skipped, is known to the cache, or becomes a task.
Skipped(s, z, id) ==
    /\ ~ Eligible(s.nodes[s.i]) \/ id \in s.seen
    /\ z.seen = s.seen /\ z.results = s.results /\ z.tasks = s.tasks

Known(r, s, z, d, id) ==
    /\ id \notin s.seen /\ z.seen = s.seen \cup {id} /\ z.tasks = s.tasks
    /\ DOMAIN z.results = DOMAIN s.results \cup {id}
    /\ \A x \in DOMAIN s.results : x # id => z.results[x] = s.results[x]
    /\ RightAns(r, d, z.results[id])

ToLookUp(s, z, d, id) ==
    /\ id \notin s.seen /\ z.seen = s.seen \cup {id} /\ z.results = s.results
    /\ z.tasks = Append(s.tasks, [id |-> id, domain |-> d])

\* Each of the three keeps the run good.
LEMMA CollectGood ==
    ASSUME NEW r \in Runs, NEW s, NEW ws, NEW rs, NEW bad, NEW lossy,
           GoodRun(r, s, ws, rs, bad, lossy), s.pc = "collect", s.i <= Len(s.nodes),
           NEW z \in Run, z.pc = "collect", z.i = s.i + 1, z.next = s.next, z.nodes = s.nodes,
           NEW d \in DomainOf, d = s.nodes[s.i].server.domain, NEW id,
           id = resolverCacheID(r, d),
           Skipped(s, z, id) \/ Known(r, s, z, d, id) \/ ToLookUp(s, z, d, id)
    PROVE  GoodRun(r, z, ws, rs, bad, lossy)
<1>1. s \in Run /\ TaskInv(r, s, ws, rs) /\ SeenInv(r, s) /\ PoolInv(r, s, ws)
      /\ FateInv(r, s, ws, bad, lossy) /\ AnswerInv(r, s, ws, rs)
  BY DEF GoodRun, UseInv
<1>2. /\ s.i \in Nat \ {0} /\ s.next = 1 /\ Len(s.tasks) \in Nat /\ Len(s.nodes) \in Nat
      /\ s.tasks \in Seq(TaskT)
  BY <1>1, RunFields DEF SeenInv
<1>3. \A x \in Slots(r) : ws[x].pc = "off" /\ ~ Holds(ws, x)
  BY <1>1 DEF PoolInv, Holds
<1>4. bad = {}
  BY <1>1, <1>2 DEF FateInv
<1>5. /\ Len(s.tasks) <= Len(z.tasks) /\ Len(z.tasks) <= Len(s.tasks) + 1
      /\ Len(z.tasks) \in Nat
      /\ \A k \in 1..Len(s.tasks) : z.tasks[k] = s.tasks[k] /\ k \in 1..Len(z.tasks)
      /\ \A k \in 1..Len(z.tasks) : k \notin 1..Len(s.tasks) =>
            /\ z.tasks[k].id = id /\ z.tasks[k].domain = d /\ id \notin s.seen
            /\ k = Len(s.tasks) + 1
            /\ z.seen = s.seen \cup {id} /\ z.results = s.results
            /\ \A l \in 1..Len(z.tasks) : l \notin 1..Len(s.tasks) => l = k
  <2>1. CASE z.tasks = s.tasks
    BY <1>2, <2>1
  <2>2. CASE ToLookUp(s, z, d, id)
    <3> DEFINE task == [id |-> id, domain |-> d]
    <3>1. task \in TaskT /\ task.id = id /\ task.domain = d
      BY IdType DEF TaskT
    <3> HIDE DEF task
    <3>2. /\ Len(z.tasks) = Len(s.tasks) + 1 /\ z.tasks[Len(s.tasks) + 1] = task
          /\ \A k \in 1..Len(s.tasks) : z.tasks[k] = s.tasks[k]
      <4>1. z.tasks = Append(s.tasks, task)
        BY <2>2 DEF task, ToLookUp
      <4> QED
        BY <1>2, <3>1, <4>1
    <3>3. id \notin s.seen /\ z.seen = s.seen \cup {id} /\ z.results = s.results
      BY <2>2 DEF ToLookUp
    <3>4. \A k \in 1..Len(z.tasks) : k \notin 1..Len(s.tasks) => k = Len(s.tasks) + 1
      BY <1>2, <3>2
    <3> QED
      BY <1>2, <3>1, <3>2, <3>3, <3>4
  <2> QED
    BY <2>1, <2>2 DEF Skipped, Known
<1>6. DOMAIN s.results \subseteq DOMAIN z.results /\ s.seen \subseteq z.seen
      /\ DOMAIN z.results \subseteq z.seen
  BY <1>1 DEF SeenInv, Skipped, Known, ToLookUp
<1>7. TaskInv(r, z, ws, rs)
  <2>1. s.nodes = Nodes[r] /\ Len(s.tasks) < s.i
    BY <1>1 DEF TaskInv
  <2>2. Len(z.tasks) <= Len(Nodes[r]) /\ Len(z.tasks) < z.i /\ z.i <= Len(z.nodes) + 1
        /\ z.next <= Len(z.tasks) + 1
    <3>1. PICK a, b, e \in Nat : a = Len(s.tasks) /\ b = Len(z.tasks) /\ e = Len(s.nodes)
      BY <1>2, <1>5
    <3>2. a <= b /\ b <= a + 1 /\ a < s.i /\ s.i <= e /\ s.i \in Nat /\ z.i = s.i + 1 /\ z.next = 1
      BY <1>2, <1>5, <2>1, <3>1
    <3>3. b <= e /\ b < z.i /\ z.i <= e + 1 /\ z.next <= b + 1
      BY <3>2
    <3> QED
      BY <2>1, <3>1, <3>3
  <2>3. \A k \in 1..Len(z.tasks) : z.tasks[k].id = resolverCacheID(r, z.tasks[k].domain)
    BY <1>1, <1>5 DEF TaskInv
  <2>4. \A k \in Tasks(r) : rs[k].pc # "none" => k \in 1..Len(z.tasks)
    BY <1>1, <1>5 DEF TaskInv
  <2> QED
    BY <1>1, <1>3, <2>1, <2>2, <2>3, <2>4 DEF TaskInv
<1>8. AnswerInv(r, z, ws, rs)
  <2>1. ASSUME NEW x \in DOMAIN z.results
        PROVE  /\ \A e \in DomainOf : x = resolverCacheID(r, e) => RightAns(r, e, z.results[x])
               /\ z.results[x].got <= z.results[x].since + z.results[x].ttl
    <3>1. CASE x \in DOMAIN s.results /\ z.results[x] = s.results[x]
      BY <1>1, <3>1 DEF AnswerInv
    <3>2. CASE x = id /\ RightAns(r, d, z.results[id])
      <4>1. ASSUME NEW e \in DomainOf, x = resolverCacheID(r, e) PROVE e = d
        <5>1. resolverCacheID(r, e) = resolverCacheID(r, d)
          BY <3>2, <4>1
        <5> QED
          BY <5>1, IdTells
      <4> QED
        BY <3>2, <4>1 DEF RightAns
    <3> QED
      BY <2>1, <3>1, <3>2 DEF Skipped, Known, ToLookUp
  <2>2. \A k \in Tasks(r) : rs[k].pc # "none" => z.tasks[k] = s.tasks[k]
    BY <1>1, <1>5 DEF TaskInv
  <2>3. FreshNodes => RightNodes(r, z)
    BY <1>1 DEF AnswerInv, RightNodes
  <2> QED
    BY <1>1, <1>3, <2>1, <2>2, <2>3 DEF AnswerInv
<1>9. SeenInv(r, z)
  <2>1. \A i \in Looked(z) : i \in Looked(s) \/ i = s.i
    BY <1>2 DEF Looked
  <2>2. Eligible(s.nodes[s.i]) => id \in z.seen
    BY DEF Skipped, Known, ToLookUp
  <2>3. \A i \in Looked(z) : Eligible(z.nodes[i]) =>
           resolverCacheID(r, z.nodes[i].server.domain) \in z.seen
    BY <1>1, <1>6, <2>1, <2>2 DEF SeenInv
  <2>4. \A k \in 1..Len(s.tasks) : s.tasks[k].id \in s.seen
    BY <1>1 DEF SeenInv
  <2>5. \A k, l \in 1..Len(z.tasks) : z.tasks[k].id = z.tasks[l].id => k = l
    <3>1. \A k, l \in 1..Len(s.tasks) : s.tasks[k].id = s.tasks[l].id => k = l
      BY <1>1 DEF SeenInv
    <3> SUFFICES ASSUME NEW k \in 1..Len(z.tasks), NEW l \in 1..Len(z.tasks), z.tasks[k].id = z.tasks[l].id
                 PROVE  k = l
      OBVIOUS
    <3>2. CASE k \in 1..Len(s.tasks) /\ l \in 1..Len(s.tasks)
      BY <1>5, <3>1, <3>2
    <3>3. CASE k \in 1..Len(s.tasks) /\ l \notin 1..Len(s.tasks)
      BY <1>5, <2>4, <3>3
    <3>4. CASE k \notin 1..Len(s.tasks) /\ l \in 1..Len(s.tasks)
      BY <1>5, <2>4, <3>4
    <3>5. CASE k \notin 1..Len(s.tasks) /\ l \notin 1..Len(s.tasks)
      BY <1>5, <3>5
    <3> QED
      BY <3>2, <3>3, <3>4, <3>5
  <2>6. \A k \in 1..Len(z.tasks) : z.tasks[k].id \in z.seen
    BY <1>5, <1>6, <2>4
  <2>7. ASSUME NEW x \in z.seen
        PROVE  x \in DOMAIN z.results \/ \E k \in 1..Len(z.tasks) : z.tasks[k].id = x
    <3>1. CASE x \in s.seen
      <4>1. x \in DOMAIN s.results \/ \E k \in 1..Len(s.tasks) : s.tasks[k].id = x
        BY <1>1, <3>1 DEF SeenInv
      <4> QED
        BY <1>5, <1>6, <4>1
    <3>2. CASE x \notin s.seen /\ x \in DOMAIN z.results
      BY <3>2
    <3>3. CASE x \notin s.seen /\ ToLookUp(s, z, d, id)
      <4>1. x = id
        BY <3>3, <2>7 DEF ToLookUp
      <4>2. Len(s.tasks) + 1 \in 1..Len(z.tasks)
        BY <1>2, <3>3 DEF ToLookUp
      <4>3. z.tasks[Len(s.tasks) + 1].id = id
        BY <1>2, <1>5, <4>2
      <4> QED
        BY <4>1, <4>2, <4>3
    <3> QED
      BY <2>7, <3>1, <3>2, <3>3 DEF Skipped, Known
  <2> QED
    BY <1>2, <1>6, <2>3, <2>5, <2>6, <2>7 DEF SeenInv
<1>10. PoolInv(r, z, ws)
  BY <1>1 DEF PoolInv
<1>11. FateInv(r, z, ws, bad, lossy)
  <2>1. ASSUME NEW k \in 1..Len(z.tasks) PROVE z.tasks[k].id \notin DOMAIN z.results
    <3>1. CASE k \in 1..Len(s.tasks)
      <4>1. FateOf(r, s, ws, bad, lossy, k) /\ s.tasks[k].id \in s.seen
        BY <1>1, <3>1 DEF FateInv, SeenInv
      <4>2. s.tasks[k].id \notin DOMAIN s.results
        BY <1>2, <3>1, <4>1 DEF FateOf
      <4> QED
        BY <1>5, <3>1, <4>1, <4>2 DEF Skipped, Known, ToLookUp
    <3>2. CASE k \notin 1..Len(s.tasks)
      BY <1>1, <1>5, <3>2 DEF SeenInv
    <3> QED
      BY <3>1, <3>2
  <2> QED
    BY <1>2, <1>4, <2>1 DEF FateInv, FateOf
<1> QED
  BY <1>7, <1>8, <1>9, <1>10, <1>11 DEF GoodRun, UseInv

-----------------------------------------------------------------------------
(* The nodes.                                                              *)

\* A node that is resolved gets the address picked for it, and any other one
\* keeps its own.
LEMMA ResolveNode ==
    ASSUME NEW r \in Runs, NEW n \in Node, NEW known \in BOOLEAN, NEW a \in Address,
           known => RightAddress(r, n.server.domain, a)
    PROVE  LET m == Resolve(r, n, known, a)
           IN  /\ m \in Node
               /\ n.resolved # "yes" /\ m.resolved = "yes" => Fitting(r, m)
<1> DEFINE m == Resolve(r, n, known, a)
           ip4p == DnsType[r] = "IPv6" /\ a.kind = "ip4p"
           b == IF ip4p THEN parseIP4P(a) ELSE a
           left == \/ IsIP(n.server) \/ ~known
                   \/ DnsType[r] = "IPv6" /\ a.kind = "noPort"
<1>1. /\ n.server \in Address /\ n.server.domain \in Domains \cup {""}
      /\ n.noResolve \in BOOLEAN /\ n.resolved \in {"unset", "no", "yes"}
      /\ n.domain \in Domains \cup {""} /\ n.port \in {"own", "ip4p"}
      /\ n = [server |-> n.server, noResolve |-> n.noResolve, resolved |-> n.resolved,
              domain |-> n.domain, port |-> n.port]
  BY DEF Node, Address
<1>2. CASE n.noResolve
  BY <1>2 DEF Resolve
<1>3. CASE ~ n.noResolve /\ left
  <2>1. m = [n EXCEPT !.resolved = IF @ = "yes" THEN @ ELSE "no"]
    BY <1>3 DEF Resolve
  <2> HIDE DEF m
  <2>2. m \in Node /\ (n.resolved # "yes" => m.resolved = "no")
    BY <1>1, <2>1 DEF Node
  <2> QED
    BY <2>2 DEF m
<1>4. CASE ~ n.noResolve /\ ~ left
  <2>1. RightAddress(r, n.server.domain, a) /\ DnsType[r] \in {"IPv4", "IPv6"}
    BY <1>4, DnsAssumptions
  <2>2. /\ b \in Address /\ b.domain = n.server.domain /\ b.type = DnsType[r]
        /\ b.kind = IF ip4p THEN "v4" ELSE a.kind
    BY <2>1 DEF Address, parseIP4P, Kinds, IPs, RightAddress
  <2>3. m = [n EXCEPT !.server = b, !.port = IF ip4p THEN "ip4p" ELSE @,
                      !.domain = n.server.domain, !.resolved = "yes"]
    BY <1>4 DEF Resolve
  <2>4. Provider[r] \in Wire => \/ b.kind = "v4" /\ (DnsType[r] = "IPv6" => ip4p)
                                \/ b.kind = "v6" /\ DnsType[r] = "IPv6"
    BY <1>4, <2>1, <2>2 DEF RightAddress, AnswerKinds, IPs
  <2> HIDE DEF b, m, ip4p
  <2>5. /\ m.server = b /\ m.domain = n.server.domain /\ m.resolved = "yes"
        /\ (ip4p => m.port = "ip4p") /\ m \in Node
    BY <1>1, <2>2, <2>3 DEF Node
  <2>6. Fitting(r, m)
    BY <2>2, <2>4, <2>5 DEF Fitting
  <2> QED
    BY <2>5, <2>6 DEF m
<1> QED
  BY <1>2, <1>3, <1>4

\* The run after WriteBack.
Written(r, s, pick) ==
    LET done == [i \in DOMAIN s.nodes |->
                   Resolve(r, s.nodes[i], IdOf(r, s.nodes[i]) \in DOMAIN s.results, pick[i])]
        keep == {n \in Node : Kept(r, n)}
    IN  [s EXCEPT !.pc = "done", !.nodes = FilterSeq(done, keep)]

\* WriteBack: the nodes that are kept have right addresses.
LEMMA WriteBackGood ==
    ASSUME NEW r \in Runs, NEW s, NEW ws, NEW rs, NEW bad, NEW lossy,
           GoodRun(r, s, ws, rs, bad, lossy), s.pc = "writeback",
           NEW pick \in Pick(r, s)
    PROVE  GoodRun(r, Written(r, s, pick), ws, rs, bad, lossy)
<1> DEFINE known(i) == IdOf(r, s.nodes[i]) \in DOMAIN s.results
           done == [i \in DOMAIN s.nodes |-> Resolve(r, s.nodes[i], known(i), pick[i])]
           keep == {n \in Node : Kept(r, n)}
           nodes == FilterSeq(done, keep)
           z == [s EXCEPT !.pc = "done", !.nodes = nodes]
           Fine(m) == m.resolved = "yes" => Fitting(r, m)
<1>1. s \in Run /\ TaskInv(r, s, ws, rs) /\ SeenInv(r, s) /\ PoolInv(r, s, ws)
      /\ FateInv(r, s, ws, bad, lossy) /\ AnswerInv(r, s, ws, rs)
  BY DEF GoodRun, UseInv
<1>2. /\ s.nodes = Nodes[r] /\ s.nodes \in Seq(Node) /\ Len(s.nodes) \in Nat
      /\ \A i \in 1..Len(s.nodes) : s.nodes[i] \in Node
  BY <1>1, RunFields DEF TaskInv
<1>3. DOMAIN s.nodes = 1..Len(s.nodes)
  BY <1>2
<1>4. ASSUME NEW i \in DOMAIN s.nodes
      PROVE  /\ pick[i] \in Address
             /\ known(i) => RightAddress(r, s.nodes[i].server.domain, pick[i])
  <2>1. pick[i] \in Options(r, s.nodes[i], s.results)
    BY <1>4 DEF Pick
  <2>2. s.nodes[i] \in Node /\ s.nodes[i].server \in Address
        /\ s.nodes[i].server.domain \in DomainOf
    BY <1>2, <1>3, <1>4 DEF Node, Address, DomainOf
  <2>3. CASE known(i)
    <3>1. RightAns(r, s.nodes[i].server.domain, s.results[IdOf(r, s.nodes[i])])
          /\ s.results[IdOf(r, s.nodes[i])] \in Ans
      BY <1>1, <2>2, <2>3, RunFields, PartialUse DEF AnswerInv, IdOf
    <3> QED
      BY <2>1, <2>3, <3>1 DEF Options, RightAns, Right, Ans
  <2>4. CASE ~ known(i)
    BY <2>1, <2>2, <2>4 DEF Options
  <2> QED
    BY <2>3, <2>4
<1>5. ASSUME NEW i \in DOMAIN s.nodes
      PROVE  LET m == Resolve(r, s.nodes[i], known(i), pick[i])
             IN  m \in Node /\ (s.nodes[i].resolved # "yes" => Fine(m))
  <2> DEFINE n == s.nodes[i]
             k == known(i)
             a == pick[i]
  <2>1. n \in Node /\ k \in BOOLEAN /\ a \in Address
        /\ (k => RightAddress(r, n.server.domain, a))
    BY <1>2, <1>3, <1>4, <1>5
  <2> HIDE DEF n, k, a
  <2>2. /\ Resolve(r, n, k, a) \in Node
        /\ n.resolved # "yes" /\ Resolve(r, n, k, a).resolved = "yes" =>
              Fitting(r, Resolve(r, n, k, a))
    BY <2>1, ResolveNode
  <2> QED
    BY <2>2 DEF n, k, a
<1>6. ASSUME NEW i \in DOMAIN s.nodes
      PROVE  Resolve(r, s.nodes[i], known(i), pick[i]) \in Node
  BY <1>5
<1>7. done \in Seq(Node) /\ Len(done) = Len(s.nodes)
      /\ \A i \in 1..Len(done) : done[i] = Resolve(r, s.nodes[i], known(i), pick[i])
  BY <1>2, <1>3, <1>6
<1> HIDE DEF done
<1>8. nodes \in Seq(Node)
  BY <1>7, FilterType
<1>9. ASSUME FreshNodes, NEW j \in DOMAIN nodes PROVE Fine(nodes[j])
  <2>1. PICK i \in 1..Len(done) : nodes[j] = done[i]
    <3>1. done \in Seq(Node) /\ j \in DOMAIN FilterSeq(done, keep)
      BY <1>7, <1>9
    <3> HIDE DEF keep
    <3>2. \E i \in 1..Len(done) : FilterSeq(done, keep)[j] = done[i] /\ done[i] \in keep
      BY <3>1, FilterRange, Zenon
    <3> QED
      BY <3>2
  <2>2. s.nodes[i] \in Node /\ s.nodes[i].resolved # "yes"
    BY <1>2, <1>3, <1>7, <1>9 DEF FreshNodes
  <2>3. Fine(Resolve(r, s.nodes[i], known(i), pick[i]))
    BY <1>3, <1>5, <1>7, <2>1, <2>2
  <2> QED
    BY <1>7, <2>1, <2>3
<1> HIDE DEF nodes
<1>10. /\ z \in Run /\ z.pc = "done" /\ z.i = s.i /\ z.seen = s.seen /\ z.results = s.results
       /\ z.tasks = s.tasks /\ z.next = s.next /\ z.nodes = nodes
  BY <1>1, <1>8 DEF Run
<1> HIDE DEF z
<1>11. TaskInv(r, z, ws, rs)
  BY <1>1, <1>10 DEF TaskInv
<1>12. AnswerInv(r, z, ws, rs)
  <2>1. FreshNodes => RightNodes(r, z)
    BY <1>9, <1>10 DEF RightNodes
  <2> QED
    BY <1>1, <1>10, <2>1 DEF AnswerInv
<1>13. SeenInv(r, z) /\ PoolInv(r, z, ws)
  BY <1>1, <1>10 DEF SeenInv, PoolInv
<1>14. FateInv(r, z, ws, bad, lossy)
  BY <1>1, <1>10 DEF FateInv, FateOf
<1>15. GoodRun(r, z, ws, rs, bad, lossy)
  BY <1>10, <1>11, <1>12, <1>13, <1>14 DEF GoodRun, UseInv
<1> QED
  BY <1>15 DEF z, nodes, done, Written

-----------------------------------------------------------------------------
(* What the steps do to a run: a lookup of several servers.                *)

\* A race goes on, with answers that are right for its task.
LEMMA RaceGood ==
    ASSUME NEW r \in Runs, NEW s, NEW ws, NEW rs, NEW bad, NEW lossy,
           GoodRun(r, s, ws, rs, bad, lossy), NEW k \in Tasks(r), k \in 1..Len(s.tasks),
           NEW x \in RaceOf(r), x.pc # "none", RaceInv(r, x),
           \A j \in Ranks(r) : Right(r, s.tasks[k].domain, x.wk[j].ips),
           \A i \in 1..Len(x.out) : Right(r, s.tasks[k].domain, x.out[i])
    PROVE  GoodRun(r, s, ws, [rs EXCEPT ![k] = x], bad, lossy)
<1> DEFINE us == [rs EXCEPT ![k] = x]
<1>1. us \in [Tasks(r) -> RaceOf(r)] /\ \A l \in Tasks(r) : us[l] = IF l = k THEN x ELSE rs[l]
  BY DEF GoodRun
<1> HIDE DEF us
<1>2. TaskInv(r, s, ws, us)
  BY <1>1 DEF GoodRun, TaskInv
<1>3. AnswerInv(r, s, ws, us)
  BY <1>1 DEF GoodRun, AnswerInv
<1>4. \A l \in Tasks(r) : RaceInv(r, us[l])
  BY <1>1 DEF GoodRun
<1> QED
  BY <1>1, <1>2, <1>3, <1>4 DEF GoodRun, us

\* The servers being asked are finitely many, and one more or less counts.
LEMMA BusyFinite ==
    ASSUME NEW r \in Runs, NEW s
    PROVE  IsFiniteSet(Busy(r, s)) /\ Cardinality(Busy(r, s)) \in Nat
<1>0. DnsConcurrency[r] \in Int /\ Servers[r] \in Int
  BY DnsAssumptions
<1>1. IsFiniteSet(Ranks(r))
  <2>1. NatMin(DnsConcurrency[r], Servers[r]) \in Int
    BY <1>0 DEF NatMin
  <2> DEFINE m == NatMin(DnsConcurrency[r], Servers[r])
  <2>2. Ranks(r) = 1..m
    BY DEF Ranks
  <2> HIDE DEF m
  <2>3. IsFiniteSet(1..m)
    BY <2>1, FS_Interval DEF m
  <2> QED
    BY <2>2, <2>3
<1>2. Busy(r, s) \in SUBSET Ranks(r)
  BY DEF Busy
<1>3. IsFiniteSet(Busy(r, s))
  BY <1>1, <1>2, FS_Subset
<1> QED
  BY <1>3, FS_CardinalityType

\* One more server is asked.
LEMMA BusyMore ==
    ASSUME NEW r \in Runs, NEW s, NEW x, NEW j \in Ranks(r),
           \A i \in Ranks(r) : i # j => x.wk[i].pc = s.wk[i].pc,
           j \notin Busy(r, s), j \in Busy(r, x)
    PROVE  Cardinality(Busy(r, x)) = Cardinality(Busy(r, s)) + 1
<1>1. Busy(r, x) = Busy(r, s) \cup {j}
  BY DEF Busy
<1> QED
  BY <1>1, FS_AddElement, BusyFinite

\* One server less is asked.
LEMMA BusyLess ==
    ASSUME NEW r \in Runs, NEW s, NEW x, NEW j \in Ranks(r),
           \A i \in Ranks(r) : i # j => x.wk[i].pc = s.wk[i].pc,
           j \in Busy(r, s), j \notin Busy(r, x)
    PROVE  Cardinality(Busy(r, x)) = Cardinality(Busy(r, s)) - 1
<1>1. Busy(r, x) = Busy(r, s) \ {j}
  BY DEF Busy
<1> QED
  BY <1>1, FS_RemoveElement, BusyFinite

\* As many servers are asked as before.
LEMMA BusySame ==
    ASSUME NEW r \in Runs, NEW s, NEW x, NEW j \in Ranks(r),
           \A i \in Ranks(r) : i # j => x.wk[i].pc = s.wk[i].pc,
           j \in Busy(r, s) <=> j \in Busy(r, x)
    PROVE  Busy(r, x) = Busy(r, s)
<1>1. \A i \in Ranks(r) : i \in Busy(r, x) <=> i \in Busy(r, s)
  BY DEF Busy
<1> QED
  BY <1>1 DEF Busy

\* A race begins.
NewRace(r) == [NoRace(r) EXCEPT !.pc = "hand",
                                !.wk = [k \in Ranks(r) |-> [Off EXCEPT !.pc = "recv"]]]

\* A new race has answers of nobody.
LEMMA RaceBegins ==
    ASSUME NEW r \in Runs
    PROVE  /\ NewRace(r) \in RaceOf(r) /\ RaceInv(r, NewRace(r)) /\ NewRace(r).pc = "hand"
           /\ Len(NewRace(r).out) = 0
           /\ \A j \in Ranks(r) : NewRace(r).wk[j].ips = {}
<1> DEFINE v == [Off EXCEPT !.pc = "recv"]
           ws == [k \in Ranks(r) |-> v]
           none == <<>>
           x == NewRace(r)
<1>0. v = [pc |-> "recv", task |-> 0, ips |-> {}]
  BY DEF Off
<1>1. v \in RaceWorker /\ v.pc = "recv" /\ v.ips = {}
  BY <1>0 DEF RaceWorker
<1> HIDE DEF v
<1>2. ws \in [Ranks(r) -> RaceWorker] /\ \A j \in Ranks(r) : ws[j] = v
  BY <1>1
<1>n. none \in Seq(SUBSET Address) /\ Len(none) = 0
  OBVIOUS
<1>3. /\ NoRace(r) \in RaceOf(r) /\ NoRace(r).next = 1 /\ NoRace(r).out = none
      /\ NoRace(r).read = 0
  <2> DEFINE os == [k \in Ranks(r) |-> Off]
  <2>1. Off \in RaceWorker
    BY DEF Off, RaceWorker
  <2>2. os \in [Ranks(r) -> RaceWorker]
    BY <2>1
  <2>3. NoRace(r) = [pc |-> "none", next |-> 1, out |-> none, read |-> 0, wk |-> os]
    BY DEF NoRace
  <2> HIDE DEF os, none
  <2> QED
    BY <1>n, <2>2, <2>3 DEF RaceOf
<1>4. /\ x \in RaceOf(r) /\ x.pc = "hand" /\ x.next = 1 /\ x.out = none /\ x.read = 0
      /\ x.wk = ws
  <2>1. x = [NoRace(r) EXCEPT !.pc = "hand", !.wk = ws]
    BY DEF NewRace, v
  <2> HIDE DEF x, ws, none
  <2> QED
    BY <1>2, <1>3, <2>1 DEF RaceOf
<1> HIDE DEF x, ws, none
<1>5. Busy(r, x) = {}
  BY <1>1, <1>2, <1>4 DEF Busy
<1>6. Cardinality(Busy(r, x)) = 0
  BY <1>5, FS_EmptySet
<1>7. RaceInv(r, x)
  BY <1>4, <1>6, <1>n, DnsAssumptions DEF RaceInv
<1> QED
  BY <1>1, <1>2, <1>4, <1>7, <1>n, Zenon DEF x

\* A race after its steps: a server is asked, has answered, its outcome is sent,
\* a worker leaves.
Asked(s, j) == [s EXCEPT !.next = @ + 1, !.wk[j] = [Off EXCEPT !.pc = "query"]]
Answered(s, j, ips) == [s EXCEPT !.wk[j].pc = "send", !.wk[j].ips = ips]
Sent(s, j) == [s EXCEPT !.out = Append(@, s.wk[j].ips),
                        !.wk[j] = [Off EXCEPT !.pc = "recv"]]
Left(s, j) == [s EXCEPT !.wk[j] = Off]

\* The types of a race.
LEMMA RaceFields ==
    ASSUME NEW r \in Runs, NEW s \in RaceOf(r)
    PROVE  /\ s.pc \in {"none", "hand", "read", "end"} /\ s.next \in Nat \ {0}
           /\ s.out \in Seq(SUBSET Address) /\ Len(s.out) \in Nat /\ s.read \in Nat
           /\ s.wk \in [Ranks(r) -> RaceWorker]
           /\ Servers[r] \in Nat \ {0}
<1>1. /\ s.pc \in {"none", "hand", "read", "end"} /\ s.next \in Nat \ {0}
      /\ s.out \in Seq(SUBSET Address) /\ s.read \in Nat
      /\ s.wk \in [Ranks(r) -> RaceWorker]
  BY DEF RaceOf
<1> QED
  BY <1>1, DnsAssumptions

\* One worker of a race changes.
LEMMA RaceWorkers ==
    ASSUME NEW r \in Runs, NEW s \in RaceOf(r), NEW j \in Ranks(r), NEW v \in RaceWorker
    PROVE  /\ [s.wk EXCEPT ![j] = v] \in [Ranks(r) -> RaceWorker]
           /\ \A i \in Ranks(r) : [s.wk EXCEPT ![j] = v][i] = IF i = j THEN v ELSE s.wk[i]
<1>1. s.wk \in [Ranks(r) -> RaceWorker]
  BY RaceFields
<1> QED
  BY <1>1

\* RaceHandOut: one more server is being asked.
LEMMA RaceHandOutGood ==
    ASSUME NEW r \in Runs, NEW s \in RaceOf(r), RaceInv(r, s), NEW j \in Ranks(r),
           s.pc = "hand", s.next <= Servers[r], s.wk[j].pc = "recv", NEW x,
           x = Asked(s, j)
    PROVE  /\ x \in RaceOf(r) /\ RaceInv(r, x) /\ x.pc = "hand" /\ x.out = s.out
           /\ \A i \in Ranks(r) : x.wk[i].ips = {} \/ x.wk[i].ips = s.wk[i].ips
<1> DEFINE v == [Off EXCEPT !.pc = "query"]
           ws == [s.wk EXCEPT ![j] = v]
<1>1. v \in RaceWorker /\ v.pc = "query" /\ v.ips = {}
  BY DEF RaceWorker, Off
<1>2. x = [s EXCEPT !.next = s.next + 1, !.wk = ws]
  BY DEF Asked
<1> HIDE DEF v
<1>3. /\ ws \in [Ranks(r) -> RaceWorker]
      /\ \A i \in Ranks(r) : ws[i] = IF i = j THEN v ELSE s.wk[i]
  BY <1>1, RaceWorkers
<1> HIDE DEF ws
<1>4. s.next + 1 \in Nat \ {0} /\ Servers[r] \in Nat /\ s.next \in Nat /\ Len(s.out) \in Nat
  BY RaceFields
<1>5. /\ x \in RaceOf(r) /\ x.pc = s.pc /\ x.next = s.next + 1 /\ x.out = s.out
      /\ x.read = s.read /\ x.wk = ws
  BY <1>2, <1>3, <1>4 DEF RaceOf
<1>6. j \notin Busy(r, s) /\ j \in Busy(r, x)
  BY <1>1, <1>3, <1>5 DEF Busy
<1>7. Cardinality(Busy(r, x)) = Cardinality(Busy(r, s)) + 1
  <2>1. \A i \in Ranks(r) : i # j => x.wk[i].pc = s.wk[i].pc
    BY <1>3, <1>5
  <2> QED
    BY <1>6, <2>1, BusyMore, Zenon
<1>8. RaceInv(r, x)
  <2>1. Cardinality(Busy(r, s)) \in Nat
    BY BusyFinite
  <2>2. /\ Len(x.out) + Cardinality(Busy(r, x)) = x.next - 1 /\ x.next <= Servers[r] + 1
    <3>1. Len(s.out) + Cardinality(Busy(r, s)) = s.next - 1
      BY DEF RaceInv
    <3>2. Len(x.out) = Len(s.out)
      BY <1>5
    <3>3. PICK a, q, e \in Nat : a = Len(s.out) /\ q = Cardinality(Busy(r, s)) /\ e = Servers[r]
      BY <1>4, <2>1
    <3>4. a + q = s.next - 1 /\ s.next \in Nat /\ s.next <= e
      BY <1>4, <3>1, <3>3
    <3>5. a + (q + 1) = (s.next + 1) - 1 /\ s.next + 1 <= e + 1
      BY <3>4
    <3> QED
      BY <1>5, <1>7, <3>2, <3>3, <3>5
  <2> QED
    BY <1>5, <2>2 DEF RaceInv
<1> QED
  BY <1>1, <1>3, <1>5, <1>8

\* RaceQuery: a server answers or fails; it is still to be sent.
LEMMA RaceQueryGood ==
    ASSUME NEW r \in Runs, NEW s \in RaceOf(r), RaceInv(r, s), NEW j \in Ranks(r),
           s.wk[j].pc = "query", NEW ips \in SUBSET Address, NEW x,
           x = Answered(s, j, ips)
    PROVE  /\ x \in RaceOf(r) /\ RaceInv(r, x) /\ x.pc = s.pc /\ x.out = s.out
           /\ \A i \in Ranks(r) : x.wk[i].ips = ips \/ x.wk[i].ips = s.wk[i].ips
<1> DEFINE v == [s.wk[j] EXCEPT !.pc = "send", !.ips = ips]
           ws == [s.wk EXCEPT ![j] = v]
<1>0. s.wk[j] \in RaceWorker
  BY RaceFields
<1>1. v \in RaceWorker /\ v.pc = "send" /\ v.ips = ips
  BY <1>0 DEF RaceWorker
<1>2. x = [s EXCEPT !.wk = ws]
  BY <1>0, RaceFields DEF RaceOf, Answered
<1> HIDE DEF v
<1>3. /\ ws \in [Ranks(r) -> RaceWorker]
      /\ \A i \in Ranks(r) : ws[i] = IF i = j THEN v ELSE s.wk[i]
  BY <1>1, RaceWorkers
<1> HIDE DEF ws
<1>5. /\ x \in RaceOf(r) /\ x.pc = s.pc /\ x.next = s.next /\ x.out = s.out
      /\ x.read = s.read /\ x.wk = ws
  BY <1>2, <1>3 DEF RaceOf
<1>6. j \in Busy(r, s) /\ j \in Busy(r, x)
  BY <1>1, <1>3, <1>5 DEF Busy
<1>7. Busy(r, x) = Busy(r, s)
  <2>1. \A i \in Ranks(r) : i # j => x.wk[i].pc = s.wk[i].pc
    BY <1>3, <1>5
  <2> QED
    BY <1>6, <2>1, BusySame
<1>8. RaceInv(r, x)
  BY <1>5, <1>7 DEF RaceInv
<1> QED
  BY <1>1, <1>3, <1>5, <1>8

\* RaceSend: the outcome goes to the end of the channel.
LEMMA RaceSendGood ==
    ASSUME NEW r \in Runs, NEW s \in RaceOf(r), RaceInv(r, s), NEW j \in Ranks(r),
           s.wk[j].pc = "send", NEW x,
           x = Sent(s, j)
    PROVE  /\ x \in RaceOf(r) /\ RaceInv(r, x) /\ x.pc = s.pc
           /\ \A i \in 1..Len(x.out) : x.out[i] = s.wk[j].ips \/
                                       (i \in 1..Len(s.out) /\ x.out[i] = s.out[i])
           /\ \A i \in Ranks(r) : x.wk[i].ips = {} \/ x.wk[i].ips = s.wk[i].ips
<1> DEFINE v == [Off EXCEPT !.pc = "recv"]
           ws == [s.wk EXCEPT ![j] = v]
           ips == s.wk[j].ips
           out == Append(s.out, ips)
<1>1. v \in RaceWorker /\ v.pc = "recv" /\ v.ips = {}
  BY DEF RaceWorker, Off
<1>2. x = [s EXCEPT !.out = out, !.wk = ws]
  BY DEF Sent
<1> HIDE DEF v
<1>3. /\ ws \in [Ranks(r) -> RaceWorker]
      /\ \A i \in Ranks(r) : ws[i] = IF i = j THEN v ELSE s.wk[i]
  BY <1>1, RaceWorkers
<1> HIDE DEF ws
<1>4. /\ s.out \in Seq(SUBSET Address) /\ Len(s.out) \in Nat /\ s.next \in Nat
      /\ s.read \in Nat /\ s.wk[j] \in RaceWorker
  BY RaceFields
<1>a. ips \in SUBSET Address
  BY <1>4 DEF RaceWorker
<1> HIDE DEF ips
<1>b. /\ out \in Seq(SUBSET Address) /\ Len(out) = Len(s.out) + 1
      /\ out[Len(out)] = ips /\ \A i \in 1..Len(s.out) : out[i] = s.out[i]
  BY <1>4, <1>a
<1> HIDE DEF out
<1>5. /\ x \in RaceOf(r) /\ x.pc = s.pc /\ x.next = s.next /\ x.out = out
      /\ x.read = s.read /\ x.wk = ws
  BY <1>2, <1>3, <1>b DEF RaceOf
<1>6. j \in Busy(r, s) /\ j \notin Busy(r, x)
  BY <1>1, <1>3, <1>5 DEF Busy
<1>7. Cardinality(Busy(r, x)) = Cardinality(Busy(r, s)) - 1
  <2>1. \A i \in Ranks(r) : i # j => x.wk[i].pc = s.wk[i].pc
    BY <1>3, <1>5
  <2> QED
    BY <1>6, <2>1, BusyLess, Zenon
<1>8. RaceInv(r, x)
  <2>1. s.read <= Len(s.out) /\ \A i \in 1..s.read : out[i] = s.out[i]
    BY <1>4, <1>b DEF RaceInv
  <2> QED
    <3>1. Cardinality(Busy(r, s)) \in Nat
      BY BusyFinite
    <3>2. Len(x.out) + Cardinality(Busy(r, x)) = x.next - 1
      BY <1>4, <1>5, <1>7, <1>b, <3>1 DEF RaceInv
    <3>3. x.read <= Len(x.out) /\ \A i \in 1..x.read : x.out[i] = s.out[i]
      BY <1>4, <1>5, <1>b, <2>1
    <3>4. \A i \in 1..(s.read - 1) : i \in 1..s.read
      BY <1>4
    <3>5. s.read > 0 => s.read \in 1..s.read
      BY <1>4
    <3> QED
      BY <1>5, <3>2, <3>3, <3>4, <3>5 DEF RaceInv
<1>9. \A i \in 1..Len(out) : out[i] = ips \/ (i \in 1..Len(s.out) /\ out[i] = s.out[i])
  BY <1>4, <1>b
<1> QED
  BY <1>1, <1>3, <1>5, <1>8, <1>9 DEF ips

\* RaceWorkerExit.
LEMMA RaceExitGood ==
    ASSUME NEW r \in Runs, NEW s \in RaceOf(r), RaceInv(r, s), NEW j \in Ranks(r),
           s.wk[j].pc = "recv", NEW x, x = Left(s, j)
    PROVE  /\ x \in RaceOf(r) /\ RaceInv(r, x) /\ x.pc = s.pc /\ x.out = s.out
           /\ \A i \in Ranks(r) : x.wk[i].ips = {} \/ x.wk[i].ips = s.wk[i].ips
<1> DEFINE ws == [s.wk EXCEPT ![j] = Off]
<1>1. Off \in RaceWorker /\ Off.pc = "off" /\ Off.ips = {}
  BY DEF RaceWorker, Off
<1>2. x = [s EXCEPT !.wk = ws]
  BY DEF Left
<1>3. /\ ws \in [Ranks(r) -> RaceWorker]
      /\ \A i \in Ranks(r) : ws[i] = IF i = j THEN Off ELSE s.wk[i]
  BY <1>1, RaceWorkers
<1> HIDE DEF ws
<1>5. /\ x \in RaceOf(r) /\ x.pc = s.pc /\ x.next = s.next /\ x.out = s.out
      /\ x.read = s.read /\ x.wk = ws
  BY <1>2, <1>3 DEF RaceOf
<1>6. j \notin Busy(r, s) /\ j \notin Busy(r, x)
  BY <1>1, <1>3, <1>5 DEF Busy
<1>7. Busy(r, x) = Busy(r, s)
  <2>1. \A i \in Ranks(r) : i # j => x.wk[i].pc = s.wk[i].pc
    BY <1>3, <1>5
  <2> QED
    BY <1>6, <2>1, BusySame
<1>8. RaceInv(r, x)
  BY <1>5, <1>7 DEF RaceInv
<1> QED
  BY <1>1, <1>3, <1>5, <1>8

\* RaceClose.
LEMMA RaceCloseGood ==
    ASSUME NEW r \in Runs, NEW s \in RaceOf(r), RaceInv(r, s), s.pc = "hand",
           NEW x, x = [s EXCEPT !.pc = "read"]
    PROVE  x \in RaceOf(r) /\ RaceInv(r, x) /\ x.pc = "read" /\ x.out = s.out /\ x.wk = s.wk
<1>1. /\ x \in RaceOf(r) /\ x.pc = "read" /\ x.next = s.next /\ x.out = s.out
      /\ x.read = s.read /\ x.wk = s.wk
  BY DEF RaceOf
<1>2. Busy(r, x) = Busy(r, s)
  BY <1>1 DEF Busy
<1> QED
  BY <1>1, <1>2 DEF RaceInv

\* RaceRead: a success or the last failure ends the race.
ReadOne(r, s) ==
    [s EXCEPT !.read = @ + 1,
              !.pc = IF s.out[s.read + 1] # {} \/ s.read + 1 = Servers[r] THEN "end" ELSE "read"]

\* Reading one more answer keeps a race good, and ends it at the first success.
LEMMA RaceReadGood ==
    ASSUME NEW r \in Runs, NEW s \in RaceOf(r), RaceInv(r, s), s.pc = "read",
           s.read < Len(s.out), NEW x, x = ReadOne(r, s)
    PROVE  x \in RaceOf(r) /\ RaceInv(r, x) /\ x.pc # "none" /\ x.out = s.out /\ x.wk = s.wk
<1> DEFINE pc == IF s.out[s.read + 1] # {} \/ s.read + 1 = Servers[r] THEN "end" ELSE "read"
<1>a. x = [s EXCEPT !.read = s.read + 1, !.pc = pc] /\ pc \in {"read", "end"}
  BY DEF ReadOne
<1>b. /\ pc = "end" => s.out[s.read + 1] # {} \/ s.read + 1 = Servers[r]
      /\ pc # "end" => s.out[s.read + 1] = {}
  OBVIOUS
<1> HIDE DEF pc
<1>0. s.read + 1 \in Nat /\ Len(s.out) \in Nat /\ Servers[r] \in Nat /\ s.read \in Nat
  BY RaceFields
<1>1. /\ x \in RaceOf(r) /\ x.pc = pc /\ x.next = s.next /\ x.out = s.out
      /\ x.read = s.read + 1 /\ x.wk = s.wk
  BY <1>0, <1>a DEF RaceOf
<1>2. Busy(r, x) = Busy(r, s)
  BY <1>1 DEF Busy
<1>3. \A i \in 1..s.read : s.out[i] = {}
  BY DEF RaceInv
<1>4. /\ x.read <= Len(x.out) /\ \A i \in 1..(x.read - 1) : x.out[i] = {}
  BY <1>0, <1>1, <1>3
<1>5. x.pc # "end" => \A i \in 1..x.read : x.out[i] = {}
  BY <1>0, <1>1, <1>3, <1>b
<1>6. x.pc = "end" => x.read > 0 /\ (x.out[x.read] = {} => x.read = Servers[r])
  BY <1>0, <1>1, <1>b
<1> QED
  BY <1>1, <1>2, <1>4, <1>5, <1>6, <1>a DEF RaceInv

-----------------------------------------------------------------------------
(* The invariant holds at the beginning.                                   *)

\* A run before its first step.
Begun(r, pc) == [pc |-> pc, i |-> 1, seen |-> {}, results |-> Empty, tasks |-> <<>>,
                 next |-> 1, nodes |-> Nodes[r]]

\* A run starts good, with nothing handed out.
LEMMA StartsGood ==
    ASSUME NEW r \in Runs, NEW pc \in {"collect", "done"}, NEW s, s = Begun(r, pc)
    PROVE  GoodRun(r, s, [w \in Slots(r) |-> Off], [k \in Tasks(r) |-> NoRace(r)], {}, FALSE)
<1> DEFINE none == <<>>
           ws == [w \in Slots(r) |-> Off]
           rs == [k \in Tasks(r) |-> NoRace(r)]
           os == [k \in Ranks(r) |-> Off]
           n == NoRace(r)
<1>1. Off \in PoolWorker /\ Off \in RaceWorker /\ Off.pc = "off" /\ Off.ips = {}
  BY DEF Off, PoolWorker, RaceWorker
<1>2. none \in Seq(TaskT) /\ none \in Seq(SUBSET Address) /\ Len(none) = 0
  OBVIOUS
<1>3. os \in [Ranks(r) -> RaceWorker] /\ \A j \in Ranks(r) : os[j].pc = "off"
  BY <1>1
<1>4. n = [pc |-> "none", next |-> 1, out |-> none, read |-> 0, wk |-> os]
  BY DEF NoRace
<1>5. Nodes[r] \in Seq(Node) /\ Len(Nodes[r]) \in Nat /\ Servers[r] \in Nat
  BY DnsAssumptions
<1>6. Empty \in Partial(Ids, Ans) /\ DOMAIN Empty = {}
  BY EmptyPartial
<1> HIDE DEF os, none, n
<1>7. /\ n \in RaceOf(r) /\ n.pc = "none" /\ n.next = 1 /\ n.out = none /\ n.read = 0
      /\ n.wk = os
  BY <1>2, <1>3, <1>4 DEF RaceOf
<1>8. /\ s \in Run /\ s.pc = pc /\ s.i = 1 /\ s.seen = {} /\ s.results = Empty
      /\ s.tasks = none /\ s.next = 1 /\ s.nodes = Nodes[r]
  <2>1. s = [pc |-> pc, i |-> 1, seen |-> {}, results |-> Empty, tasks |-> none,
             next |-> 1, nodes |-> Nodes[r]]
    BY DEF none, Begun
  <2> QED
    BY <1>2, <1>5, <1>6, <2>1 DEF Run
<1>9. ws \in [Slots(r) -> PoolWorker] /\ \A w \in Slots(r) : ws[w] = Off /\ ~ Holds(ws, w)
  BY <1>1 DEF Holds
<1>10. rs \in [Tasks(r) -> RaceOf(r)] /\ \A k \in Tasks(r) : rs[k] = n
  BY <1>7 DEF n
<1> HIDE DEF ws, rs
<1>11. RaceInv(r, n)
  <2>1. Busy(r, n) = {}
    BY <1>3, <1>7 DEF Busy
  <2>2. Cardinality(Busy(r, n)) = 0
    BY <2>1, FS_EmptySet
  <2> QED
    BY <1>2, <1>5, <1>7, <2>2 DEF RaceInv
<1>12. TaskInv(r, s, ws, rs)
  BY <1>2, <1>3, <1>5, <1>7, <1>8, <1>9, <1>10 DEF TaskInv
<1>13. AnswerInv(r, s, ws, rs)
  BY <1>6, <1>7, <1>8, <1>9, <1>10 DEF AnswerInv, RightNodes, FreshNodes
<1>14. SeenInv(r, s)
  <2>1. pc = "collect" => Looked(s) = {}
    BY <1>8 DEF Looked
  <2> QED
    BY <1>2, <1>6, <1>8, <2>1 DEF SeenInv
<1>15. PoolInv(r, s, ws)
  BY <1>1, <1>9 DEF PoolInv
<1>16. FateInv(r, s, ws, {}, FALSE)
  <2>1. 1..Len(s.tasks) = {}
    BY <1>2, <1>8
  <2> QED
    BY <2>1, Zenon DEF FateInv
<1> QED
  BY <1>8, <1>9, <1>10, <1>11, <1>12, <1>13, <1>14, <1>15, <1>16
     DEF GoodRun, UseInv, ws, rs, n

\* The first states satisfy the invariant.
LEMMA InitInv == Init => TypeInv /\ ResolverInv
<1> SUFFICES ASSUME Init PROVE TypeInv /\ ResolverInv
  OBVIOUS
<1>1. PICK active \in Together :
         st = [r \in Runs |-> [pc |-> IF r \in active THEN "collect" ELSE "done", i |-> 1,
                 seen |-> {}, results |-> Empty, tasks |-> <<>>, next |-> 1,
                 nodes |-> Nodes[r]]]
  BY DEF Init
<1>2. /\ wk = [r \in Runs |-> [w \in Slots(r) |-> Off]]
      /\ race = [r \in Runs |-> [k \in Tasks(r) |-> NoRace(r)]]
      /\ now = 0 /\ cache = Empty /\ failed = {} /\ raced = {}
  BY DEF Init
<1>3. Shape
  BY <1>1, <1>2 DEF Shape
<1>4. ASSUME NEW r \in Runs
      PROVE  GoodRun(r, st[r], wk[r], race[r], FailedIn(failed, r), r \in raced)
  <2>1. /\ wk[r] = [w \in Slots(r) |-> Off] /\ race[r] = [k \in Tasks(r) |-> NoRace(r)]
        /\ FailedIn(failed, r) = {} /\ (r \in raced) = FALSE
    BY <1>2 DEF FailedIn
  <2>2. PICK pc \in {"collect", "done"} : st[r] = Begun(r, pc)
    BY <1>1 DEF Begun
  <2>3. GoodRun(r, st[r], [w \in Slots(r) |-> Off], [k \in Tasks(r) |-> NoRace(r)],
                {}, FALSE)
    BY <2>2, StartsGood, Zenon
  <2> QED
    BY <2>1, <2>3
<1>5. cache \in Partial(Ids, Entry) /\ CacheInv
  BY <1>2, EmptyPartial DEF CacheInv
<1>6. TypeInv
  BY <1>2, <1>3, <1>4, <1>5 DEF TypeInv, GoodRun
<1>7. ResolverInv
  BY <1>4, <1>5 DEF ResolverInv, GoodRun
<1> QED
  BY <1>6, <1>7

-----------------------------------------------------------------------------
(* Every step keeps it.                                                    *)

\* A step that leaves the cache and the failures alone.
LEMMA QuietStep ==
    ASSUME TypeInv, ResolverInv, NEW r \in Runs, NEW s, NEW ws, NEW rs,
           st' = [st EXCEPT ![r] = s], wk' = [wk EXCEPT ![r] = ws],
           race' = [race EXCEPT ![r] = rs], UNCHANGED <<now, cache, failed, raced>>,
           GoodRun(r, s, ws, rs, FailedIn(failed, r), r \in raced)
    PROVE  TypeInv' /\ ResolverInv'
<1>1. cache' \in Partial(Ids, Entry) /\ CacheInv'
  BY GetGood DEF ResolverInv
<1>2. GoodRun(r, s, ws, rs, FailedIn(failed', r), r \in raced')
  OBVIOUS
<1> QED
  BY <1>1, <1>2, RunStep

\* One goroutine of a run changes.
LEMMA OneWorker ==
    ASSUME TypeInv, NEW r \in Runs, NEW w \in Slots(r), NEW v, Worker(r, w, v)
    PROVE  wk' = [wk EXCEPT ![r] = [wk[r] EXCEPT ![w] = v]]
BY DEF Worker, TypeInv, Shape

\* A step of a race changes that race only.
LEMMA OneRace ==
    ASSUME TypeInv, NEW r \in Runs, NEW k \in Tasks(r), NEW x, Race(r, k, x)
    PROVE  race' = [race EXCEPT ![r] = [race[r] EXCEPT ![k] = x]]
BY DEF Race, TypeInv, Shape

\* A worker with a task in hand.
LEMMA InHand ==
    ASSUME TypeInv, ResolverInv, NEW r \in Runs, NEW w \in Slots(r), Holds(wk[r], w)
    PROVE  /\ wk[r][w] \in PoolWorker
           /\ wk[r][w].task \in 1..Len(st[r].tasks) /\ wk[r][w].task \in Tasks(r)
           /\ TaskOf(r, w).domain \in DomainOf
           /\ TaskOf(r, w).id = resolverCacheID(r, TaskOf(r, w).domain)
           /\ TaskOf(r, w).id \in Ids
           /\ \A a \in wk[r][w].ips : RightAns(r, TaskOf(r, w).domain, a)
<1> DEFINE k == wk[r][w].task
<1>1. st[r] \in Run /\ wk[r] \in [Slots(r) -> PoolWorker] /\ TaskInv(r, st[r], wk[r], race[r])
      /\ AnswerInv(r, st[r], wk[r], race[r])
  BY DEF TypeInv, ResolverInv
<1>2. wk[r][w] \in PoolWorker /\ k \in 1..(st[r].next - 1)
  BY <1>1 DEF TaskInv
<1>3. k \in 1..Len(st[r].tasks) /\ k \in Tasks(r)
  <2>1. st[r].next \in Nat /\ Len(st[r].tasks) \in Nat
    BY <1>1, RunFields
  <2>2. Len(Nodes[r]) \in Nat /\ Len(st[r].tasks) <= Len(Nodes[r])
        /\ st[r].next <= Len(st[r].tasks) + 1
    BY <1>1, DnsAssumptions DEF TaskInv
  <2> HIDE DEF k
  <2> QED
    BY <1>2, <2>1, <2>2 DEF Tasks
<1>4. st[r].tasks[k].domain \in DomainOf /\ st[r].tasks[k].id \in Ids
  BY <1>1, <1>3, RunFields
<1>5. st[r].tasks[k].id = resolverCacheID(r, st[r].tasks[k].domain)
  BY <1>1, <1>3 DEF TaskInv
<1>6. \A a \in wk[r][w].ips : RightAns(r, st[r].tasks[k].domain, a)
  BY <1>1 DEF AnswerInv
<1> QED
  BY <1>2, <1>3, <1>4, <1>5, <1>6 DEF TaskOf

\* What a server answers is right.
LEMMA AnswersRight ==
    ASSUME NEW r \in Runs, NEW d \in DomainOf, NEW ips \in Answers(r, d)
    PROVE  ips \in SUBSET Address /\ Right(r, d, ips)
<1>1. PICK kinds \in SUBSET AnswerKinds(r) :
         ips = {[domain |-> d, type |-> DnsType[r], kind |-> k] : k \in kinds}
  BY DEF Answers
<1>2. ASSUME NEW a \in ips PROVE a \in Address /\ RightAddress(r, d, a)
  <2>1. PICK k \in kinds : a = [domain |-> d, type |-> DnsType[r], kind |-> k]
    BY <1>1, <1>2
  <2>2. k \in AnswerKinds(r) /\ k \in Kinds
    BY <1>1 DEF AnswerKinds, Kinds, IPs
  <2> QED
    BY <2>1, <2>2, DnsAssumptions DEF Address, DomainOf, RightAddress
<1> QED
  BY <1>2 DEF Right

\* All tasks are handed out.
LEMMA CloseTasksInv ==
    ASSUME TypeInv, ResolverInv, NEW r \in Runs, CloseTasks(r)
    PROVE  TypeInv' /\ ResolverInv'
<1> DEFINE z == [st[r] EXCEPT !.pc = "wait"]
<1>1. /\ GoodRun(r, st[r], wk[r], race[r], FailedIn(failed, r), r \in raced)
      /\ wk' = [wk EXCEPT ![r] = wk[r]] /\ race' = [race EXCEPT ![r] = race[r]]
      /\ st' = [st EXCEPT ![r] = z]
  BY RunBefore DEF CloseTasks, Upd
<1>2. st[r].pc = "hand" /\ st[r].next = Len(st[r].tasks) + 1
  <2>1. st[r] \in Run /\ st[r].next <= Len(st[r].tasks) + 1
    BY DEF TypeInv, ResolverInv, TaskInv
  <2> QED
    BY <2>1, RunFields DEF CloseTasks
<1>3. GoodRun(r, z, wk[r], race[r], FailedIn(failed, r), r \in raced)
  BY <1>1, <1>2, StageGood
<1>4. UNCHANGED <<now, cache, failed, raced>>
  BY DEF CloseTasks
<1> HIDE DEF z
<1> QED
  BY <1>1, <1>3, <1>4, QuietStep

\* All workers have exited.
LEMMA PoolDoneInv ==
    ASSUME TypeInv, ResolverInv, NEW r \in Runs, PoolDone(r)
    PROVE  TypeInv' /\ ResolverInv'
<1> DEFINE z == [st[r] EXCEPT !.pc = "writeback"]
<1>1. /\ GoodRun(r, st[r], wk[r], race[r], FailedIn(failed, r), r \in raced)
      /\ wk' = [wk EXCEPT ![r] = wk[r]] /\ race' = [race EXCEPT ![r] = race[r]]
      /\ st' = [st EXCEPT ![r] = z]
  BY RunBefore DEF PoolDone, Upd
<1>2. st[r].pc = "wait" /\ st[r].next = Len(st[r].tasks) + 1
      /\ \A w \in Slots(r) : wk[r][w].pc = "off"
  BY DEF PoolDone, ResolverInv, UseInv, SeenInv
<1>3. GoodRun(r, z, wk[r], race[r], FailedIn(failed, r),
              r \in raced)
  BY <1>1, <1>2, StageGood
<1>4. UNCHANGED <<now, cache, failed, raced>>
  BY DEF PoolDone
<1> HIDE DEF z
<1> QED
  BY <1>1, <1>3, <1>4, QuietStep

\* The workers are started.
LEMMA StartPoolInv ==
    ASSUME TypeInv, ResolverInv, NEW r \in Runs, StartPool(r)
    PROVE  TypeInv' /\ ResolverInv'
<1>1. /\ GoodRun(r, st[r], wk[r], race[r], FailedIn(failed, r), r \in raced)
      /\ wk = [wk EXCEPT ![r] = wk[r]] /\ race' = [race EXCEPT ![r] = race[r]]
  BY RunBefore DEF StartPool
<1>2. st[r].pc = "collect" /\ st[r].i > Len(st[r].nodes) /\ UNCHANGED <<now, cache, failed, raced>>
  BY DEF StartPool
<1>3. CASE st[r].tasks = <<>>
  <2>1. st' = [st EXCEPT ![r] = [st[r] EXCEPT !.pc = "writeback"]] /\ wk' = wk
    BY <1>3 DEF StartPool, Upd
  <2>2. st[r].next = Len(st[r].tasks) + 1
    <3>1. st[r].next = 1 /\ Len(st[r].tasks) = 0
      BY <1>2, <1>3 DEF ResolverInv, UseInv, SeenInv
    <3> QED
      BY <3>1
  <2>3. \A w \in Slots(r) : wk[r][w].pc = "off"
    BY <1>2 DEF ResolverInv, UseInv, PoolInv
  <2>4. GoodRun(r, [st[r] EXCEPT !.pc = "writeback"], wk[r], race[r], FailedIn(failed, r),
                r \in raced)
    BY <1>1, <1>2, <2>2, <2>3, StageGood
  <2> QED
    BY <1>1, <1>2, <2>1, <2>4, QuietStep
<1>4. CASE st[r].tasks # <<>>
  <2> DEFINE v == [Off EXCEPT !.pc = "recv"]
             us == [w \in Slots(r) |-> IF w <= Len(st[r].tasks) THEN v ELSE Off]
  <2>1. st' = [st EXCEPT ![r] = [st[r] EXCEPT !.pc = "hand"]] /\ wk' = [wk EXCEPT ![r] = us]
    BY <1>4 DEF StartPool, Upd
  <2>2. v \in PoolWorker /\ v.pc = "recv" /\ Off \in PoolWorker /\ Off.pc = "off"
    BY DEF Off, PoolWorker
  <2> HIDE DEF v
  <2>3. us \in [Slots(r) -> PoolWorker] /\ \A x \in Slots(r) : us[x].pc \in {"off", "recv"}
    BY <2>2
  <2> HIDE DEF us
  <2>4. GoodRun(r, [st[r] EXCEPT !.pc = "hand"], us, race[r], FailedIn(failed, r), r \in raced)
    BY <1>1, <1>2, <2>3, StartGood
  <2> QED
    BY <1>1, <1>2, <2>1, <2>4, QuietStep
<1> QED
  BY <1>3, <1>4

\* A worker takes a task.
LEMMA HandOutInv ==
    ASSUME TypeInv, ResolverInv, NEW r \in Runs, NEW w \in Slots(r), HandOut(r, w)
    PROVE  TypeInv' /\ ResolverInv'
<1> DEFINE s == [st[r] EXCEPT !.next = @ + 1]
           v == [Off EXCEPT !.pc = "lookup", !.task = st[r].next]
           us == [wk[r] EXCEPT ![w] = v]
<1>1. /\ GoodRun(r, st[r], wk[r], race[r], FailedIn(failed, r), r \in raced)
      /\ race' = [race EXCEPT ![r] = race[r]] /\ st' = [st EXCEPT ![r] = s]
  BY RunBefore DEF HandOut, Upd
<1>2. Worker(r, w, v)
  BY DEF HandOut, Worker
<1>3. wk' = [wk EXCEPT ![r] = us]
  <2> HIDE DEF v
  <2> QED
    BY <1>2, OneWorker
<1>4. GoodRun(r, s, us, race[r], FailedIn(failed, r), r \in raced)
  BY <1>1, HandOutGood DEF HandOut
<1> HIDE DEF s, us
<1> QED
  BY <1>1, <1>3, <1>4, QuietStep DEF HandOut

\* A worker finds no more tasks.
LEMMA WorkerExitInv ==
    ASSUME TypeInv, ResolverInv, NEW r \in Runs, NEW w \in Slots(r), WorkerExit(r, w)
    PROVE  TypeInv' /\ ResolverInv'
<1> DEFINE us == [wk[r] EXCEPT ![w] = Off]
<1>1. /\ GoodRun(r, st[r], wk[r], race[r], FailedIn(failed, r), r \in raced)
      /\ race' = [race EXCEPT ![r] = race[r]] /\ st' = [st EXCEPT ![r] = st[r]]
  BY RunBefore DEF WorkerExit
<1>2. wk' = [wk EXCEPT ![r] = us]
  <2>1. Worker(r, w, Off)
    BY DEF WorkerExit, Worker
  <2> QED
    BY <2>1, OneWorker
<1>3. wk[r] \in [Slots(r) -> PoolWorker] /\ Off \in PoolWorker /\ Off.pc = "off"
  BY DEF TypeInv, Off, PoolWorker
<1>4. us \in [Slots(r) -> PoolWorker] /\ us[w] = Off
      /\ \A x \in Slots(r) : x # w => us[x] = wk[r][x]
  BY <1>3
<1>5. ~ Holds(wk[r], w)
  BY DEF Holds, WorkerExit
<1> HIDE DEF us
<1>6. GoodRun(r, st[r], us, race[r], FailedIn(failed, r), r \in raced)
  <2>1. \A x \in Slots(r) : us[x] = wk[r][x] \/ (~ Holds(wk[r], x) /\ us[x].pc = "off")
    BY <1>3, <1>4, <1>5
  <2> QED
    BY <1>1, <1>4, <2>1, IdleWorkers, Zenon
<1>7. UNCHANGED <<now, cache, failed, raced>>
  BY DEF WorkerExit
<1> QED
  BY <1>1, <1>2, <1>6, <1>7, QuietStep

\* The domains of the nodes become tasks.
LEMMA CollectInv ==
    ASSUME TypeInv, ResolverInv, NEW r \in Runs, Collect(r)
    PROVE  TypeInv' /\ ResolverInv'
<1> DEFINE s == st[r]
           n == s.nodes[s.i]
           d == n.server.domain
           id == resolverCacheID(r, d)
           hit == ~CacheDisabled[r] /\ Cached(id)
           task == [id |-> id, domain |-> d]
<1>1. /\ GoodRun(r, s, wk[r], race[r], FailedIn(failed, r), r \in raced)
      /\ wk' = [wk EXCEPT ![r] = wk[r]] /\ race' = [race EXCEPT ![r] = race[r]]
      /\ s \in Run
  BY RunBefore DEF Collect, GoodRun
<1>2. s.pc = "collect" /\ s.i <= Len(s.nodes) /\ UNCHANGED <<now, failed, raced>>
  BY DEF Collect
<1>3. s.i \in Nat \ {0} /\ s.i + 1 \in Nat \ {0} /\ s.nodes \in Seq(Node)
      /\ s.tasks \in Seq(TaskT) /\ s.results \in Partial(Ids, Ans) /\ s.seen \subseteq Ids
  BY <1>1, RunFields
<1>4. d \in DomainOf
  <2>1. n \in Node
    BY <1>2, <1>3
  <2> QED
    BY <2>1 DEF Node, Address, DomainOf
<1>5. id \in Ids /\ task \in TaskT
  BY <1>4, IdType DEF TaskT
<1>6. cache' \in Partial(Ids, Entry) /\ CacheInv'
  <2>1. cache' = cache \/ cache' = AfterGet(id)
    BY DEF Collect
  <2> QED
    BY <2>1, GetGood DEF ResolverInv
<1>7. ASSUME NEW z, st' = [st EXCEPT ![r] = z],
             GoodRun(r, z, wk[r], race[r], FailedIn(failed, r), r \in raced)
      PROVE  TypeInv' /\ ResolverInv'
  <2>1. GoodRun(r, z, wk[r], race[r], FailedIn(failed', r), r \in raced')
    BY <1>2, <1>7
  <2> HIDE DEF s
  <2> QED
    BY <1>1, <1>2, <1>6, <1>7, <2>1, RunStep
<1>8. CASE ~ Eligible(n) \/ id \in s.seen
  <2> DEFINE z == [s EXCEPT !.i = s.i + 1]
  <2>1. st' = [st EXCEPT ![r] = z]
    BY <1>8 DEF Collect, Upd
  <2>2. /\ z \in Run /\ z.pc = s.pc /\ z.i = s.i + 1 /\ z.next = s.next /\ z.nodes = s.nodes
        /\ z.seen = s.seen /\ z.results = s.results /\ z.tasks = s.tasks
    <3> HIDE DEF s
    <3> QED
      BY <1>1, <1>3 DEF Run
  <2> HIDE DEF z
  <2>3. Skipped(s, z, id)
    BY <1>8, <2>2 DEF Skipped
  <2> HIDE DEF id
  <2>4. GoodRun(r, z, wk[r], race[r], FailedIn(failed, r), r \in raced)
    <3>1. id = resolverCacheID(r, d) /\ d = s.nodes[s.i].server.domain
      BY DEF id
    <3> HIDE DEF s, d
    <3> QED
      BY <1>1, <1>2, <1>4, <2>2, <2>3, <3>1, CollectGood
  <2> QED
    BY <1>7, <2>1, <2>4
<1>9. CASE Eligible(n) /\ id \notin s.seen
  <2> DEFINE results == IF hit THEN With(s.results, id, Hit(id)) ELSE s.results
             tasks == IF hit THEN s.tasks ELSE Append(s.tasks, task)
             z == [s EXCEPT !.i = s.i + 1, !.seen = s.seen \cup {id}, !.results = results,
                            !.tasks = tasks]
  <2>1. st' = [st EXCEPT ![r] = z]
    BY <1>9 DEF Collect, Upd
  <2>2. hit => /\ Hit(id) \in Ans /\ RightAns(r, d, Hit(id))
    <3> HIDE DEF d
    <3> QED
      BY <1>4, HitRight DEF ResolverInv
  <2>3. hit => /\ results \in Partial(Ids, Ans) /\ DOMAIN results = DOMAIN s.results \cup {id}
               /\ results[id] = Hit(id)
               /\ \A x \in DOMAIN s.results : x # id => results[x] = s.results[x]
    <3>1. SUFFICES ASSUME hit
                   PROVE  /\ results \in Partial(Ids, Ans)
                          /\ DOMAIN results = DOMAIN s.results \cup {id}
                          /\ results[id] = Hit(id)
                          /\ \A x \in DOMAIN s.results : x # id => results[x] = s.results[x]
      OBVIOUS
    <3>2. results = With(s.results, id, Hit(id)) /\ Hit(id) \in Ans
      BY <2>2, <3>1
    <3> DEFINE old == s.results
               v == Hit(id)
    <3>3. old \in Partial(Ids, Ans) /\ v \in Ans /\ id \in Ids
      BY <1>3, <1>5, <3>2
    <3> HIDE DEF s, id, results, old, v, hit
    <3>4. /\ With(old, id, v) \in Partial(Ids, Ans)
          /\ DOMAIN With(old, id, v) = DOMAIN old \cup {id}
          /\ With(old, id, v)[id] = v
          /\ \A x \in DOMAIN old : x # id => With(old, id, v)[x] = old[x]
      BY <3>3, ResultWith
    <3> QED
      BY <3>2, <3>4 DEF old, v
  <2>4. ~ hit => results = s.results /\ tasks = Append(s.tasks, task)
    OBVIOUS
  <2>5. results \in Partial(Ids, Ans) /\ tasks \in Seq(TaskT) /\ s.seen \cup {id} \in SUBSET Ids
        /\ (hit => tasks = s.tasks)
    <3> HIDE DEF s, id, task, hit
    <3>1. tasks \in Seq(TaskT)
      BY <1>3, <1>5
    <3> HIDE DEF results
    <3> QED
      BY <1>3, <1>5, <2>3, <2>4, <3>1
  <2> HIDE DEF results, tasks, hit
  <2>6. /\ z \in Run /\ z.pc = s.pc /\ z.i = s.i + 1 /\ z.next = s.next /\ z.nodes = s.nodes
        /\ z.seen = s.seen \cup {id} /\ z.results = results /\ z.tasks = tasks
    <3> HIDE DEF s, id
    <3> QED
      BY <1>1, <1>3, <2>5 DEF Run
  <2> HIDE DEF z
  <2>7. Known(r, s, z, d, id) \/ ToLookUp(s, z, d, id)
    <3>1. CASE hit
      BY <1>9, <2>2, <2>3, <2>5, <2>6, <3>1 DEF Known
    <3>2. CASE ~ hit
      BY <1>9, <2>4, <2>6, <3>2 DEF ToLookUp
    <3> QED
      BY <3>1, <3>2
  <2>8. GoodRun(r, z, wk[r], race[r], FailedIn(failed, r), r \in raced)
    <3>1. id = resolverCacheID(r, d) /\ d = s.nodes[s.i].server.domain
      OBVIOUS
    <3> HIDE DEF s, d, id
    <3> QED
      BY <1>1, <1>2, <1>4, <2>6, <2>7, <3>1, CollectGood
  <2> QED
    BY <1>7, <2>1, <2>8
<1> QED
  BY <1>8, <1>9

\* The results become addresses of nodes.
LEMMA WriteBackInv ==
    ASSUME TypeInv, ResolverInv, NEW r \in Runs, WriteBack(r)
    PROVE  TypeInv' /\ ResolverInv'
<1>1. /\ GoodRun(r, st[r], wk[r], race[r], FailedIn(failed, r), r \in raced)
      /\ wk' = [wk EXCEPT ![r] = wk[r]] /\ race' = [race EXCEPT ![r] = race[r]]
  BY RunBefore DEF WriteBack
<1>2. PICK pick \in Pick(r, st[r]) : st' = [st EXCEPT ![r] = Written(r, st[r], pick)]
  BY DEF WriteBack, Upd, Written
<1>3. st[r].pc = "writeback" /\ UNCHANGED <<now, cache, failed, raced>>
  BY DEF WriteBack
<1>4. GoodRun(r, Written(r, st[r], pick), wk[r], race[r], FailedIn(failed, r), r \in raced)
  BY <1>1, <1>3, WriteBackGood
<1> QED
  BY <1>1, <1>2, <1>3, <1>4, QuietStep

\* A worker looks its domain up in the cache.
LEMMA LookupInv ==
    ASSUME TypeInv, ResolverInv, NEW r \in Runs, NEW w \in Slots(r), Lookup(r, w)
    PROVE  TypeInv' /\ ResolverInv'
<1> DEFINE x == wk[r][w]
           d == TaskOf(r, w).domain
           id == resolverCacheID(r, d)
           hit == ~CacheDisabled[r] /\ Cached(id)
           custom == Provider[r] = "Custom" /\ Servers[r] > 1
<1>1. /\ GoodRun(r, st[r], wk[r], race[r], FailedIn(failed, r), r \in raced)
      /\ st' = [st EXCEPT ![r] = st[r]] /\ race = [race EXCEPT ![r] = race[r]]
      /\ x.pc = "lookup" /\ UNCHANGED <<now, failed, raced>>
  BY RunBefore DEF Lookup
<1>2. Holds(wk[r], w)
  BY <1>1 DEF Holds
<1>3. /\ x \in PoolWorker /\ x.task \in 1..Len(st[r].tasks) /\ x.task \in Tasks(r)
      /\ d \in DomainOf /\ TaskOf(r, w).id = id /\ d = st[r].tasks[x.task].domain
      /\ \A a \in x.ips : RightAns(r, d, a)
  BY <1>2, InHand DEF TaskOf
<1>4. cache' \in Partial(Ids, Entry) /\ CacheInv'
  <2>1. cache' = cache \/ cache' = AfterGet(id)
    BY <1>3 DEF Lookup
  <2> QED
    BY <2>1, GetGood DEF ResolverInv
<1>5. ASSUME NEW v \in PoolWorker, v.pc \in {"write", "race", "query"}, v.task = x.task,
             v.pc = "write" => v.ips # {}, \A a \in v.ips : RightAns(r, d, a)
      PROVE  GoodRun(r, st[r], [wk[r] EXCEPT ![w] = v], race[r], FailedIn(failed, r),
                     r \in raced)
  <2>1. \A a \in v.ips : RightAns(r, st[r].tasks[v.task].domain, a)
    BY <1>3, <1>5
  <2>2. v.pc \notin {"off", "recv"} /\ v.task = wk[r][w].task
        /\ (v.pc \in {"store", "write", "writing"} => v.ips # {})
    BY <1>5
  <2> HIDE DEF d
  <2> QED
    BY <1>1, <1>2, <2>1, <2>2, WorkerGoesOn, Zenon
<1>6. ASSUME NEW us, NEW rs, wk' = [wk EXCEPT ![r] = us], race' = [race EXCEPT ![r] = rs],
             GoodRun(r, st[r], us, rs, FailedIn(failed, r), r \in raced)
      PROVE  TypeInv' /\ ResolverInv'
  <2>1. GoodRun(r, st[r], us, rs, FailedIn(failed', r), r \in raced')
    BY <1>1, <1>6
  <2> QED
    BY <1>1, <1>4, <1>6, <2>1, RunStep
<1>7. CASE hit
  <2> DEFINE v == [x EXCEPT !.pc = "write", !.ips = {Hit(id)}]
  <2>1. Worker(r, w, v) /\ race' = race
    BY <1>3, <1>7 DEF Lookup
  <2>2. Hit(id) \in Ans /\ RightAns(r, d, Hit(id))
    <3> HIDE DEF d
    <3> QED
      BY <1>3, <1>7, HitRight DEF ResolverInv
  <2>3. v \in PoolWorker /\ v.pc = "write" /\ v.task = x.task /\ v.ips = {Hit(id)}
    <3> HIDE DEF x, id
    <3> QED
      BY <1>3, <2>2 DEF PoolWorker
  <2> HIDE DEF v, x, d, id
  <2> QED
    BY <1>1, <1>5, <1>6, <2>1, <2>2, <2>3, OneWorker
<1>8. CASE ~ hit /\ custom
  <2> DEFINE v == [x EXCEPT !.pc = "race"]
             rs == [race[r] EXCEPT ![x.task] = NewRace(r)]
  <2>1. Worker(r, w, v) /\ Race(r, x.task, NewRace(r))
    BY <1>3, <1>8 DEF Lookup, Race, NewRace
  <2>2. v \in PoolWorker /\ v.pc = "race" /\ v.task = x.task /\ v.ips = x.ips
    <3> HIDE DEF x
    <3> QED
      BY <1>3 DEF PoolWorker
  <2> HIDE DEF v
  <2>3. GoodRun(r, st[r], [wk[r] EXCEPT ![w] = v], race[r], FailedIn(failed, r), r \in raced)
    <3> HIDE DEF x, d
    <3> QED
      BY <1>3, <1>5, <2>2
  <2>4. \A j \in Ranks(r) : Right(r, st[r].tasks[x.task].domain, NewRace(r).wk[j].ips)
    BY RaceBegins DEF Right
  <2>5. \A i \in 1..Len(NewRace(r).out) : Right(r, st[r].tasks[x.task].domain, NewRace(r).out[i])
    BY RaceBegins
  <2>6. GoodRun(r, st[r], [wk[r] EXCEPT ![w] = v], rs, FailedIn(failed, r), r \in raced)
    <3>1. NewRace(r) \in RaceOf(r) /\ NewRace(r).pc # "none" /\ RaceInv(r, NewRace(r))
      BY RaceBegins
    <3> HIDE DEF x
    <3> QED
      BY <1>3, <2>3, <2>4, <2>5, <3>1, RaceGood, Zenon
  <2>7. /\ wk' = [wk EXCEPT ![r] = [wk[r] EXCEPT ![w] = v]]
        /\ race' = [race EXCEPT ![r] = rs]
    <3> HIDE DEF x
    <3> QED
      BY <1>3, <2>1, OneWorker, OneRace
  <2> HIDE DEF rs
  <2> QED
    BY <1>6, <2>6, <2>7
<1>9. CASE ~ hit /\ ~ custom
  <2> DEFINE v == [x EXCEPT !.pc = "query"]
  <2>1. Worker(r, w, v) /\ race' = race
    BY <1>3, <1>9 DEF Lookup
  <2>2. v \in PoolWorker /\ v.pc = "query" /\ v.task = x.task /\ v.ips = x.ips
    <3> HIDE DEF x
    <3> QED
      BY <1>3 DEF PoolWorker
  <2> HIDE DEF v, x, d, id
  <2> QED
    BY <1>1, <1>3, <1>5, <1>6, <2>1, <2>2, OneWorker
<1> QED
  BY <1>7, <1>8, <1>9

\* A worker goes on with its task and nothing else happens.
LEMMA GoesOnStep ==
    ASSUME TypeInv, ResolverInv, NEW r \in Runs, NEW w \in Slots(r), Holds(wk[r], w),
           NEW v \in PoolWorker, v.pc \notin {"off", "recv"}, v.task = wk[r][w].task,
           v.pc \in {"store", "write", "writing"} => v.ips # {},
           \A a \in v.ips : RightAns(r, TaskOf(r, w).domain, a), Worker(r, w, v)
    PROVE  /\ GoodRun(r, st[r], [wk[r] EXCEPT ![w] = v], race[r], FailedIn(failed, r),
                      r \in raced)
           /\ wk' = [wk EXCEPT ![r] = [wk[r] EXCEPT ![w] = v]]
<1>1. GoodRun(r, st[r], wk[r], race[r], FailedIn(failed, r), r \in raced)
  BY RunBefore
<1>2. \A a \in v.ips : RightAns(r, st[r].tasks[v.task].domain, a)
  BY DEF TaskOf
<1>3. GoodRun(r, st[r], [wk[r] EXCEPT ![w] = v], race[r], FailedIn(failed, r), r \in raced)
  BY <1>1, <1>2, WorkerGoesOn, Zenon
<1> QED
  BY <1>3, OneWorker

\* A lookup fails.
LEMMA FailsGood ==
    ASSUME TypeInv, ResolverInv, NEW r \in Runs, NEW w \in Slots(r), Holds(wk[r], w),
           Fails(r, w), NEW rs,
           GoodRun(r, st[r], wk[r], rs, FailedIn(failed, r), r \in raced),
           race' = [race EXCEPT ![r] = rs], UNCHANGED <<now, cache, st, raced>>
    PROVE  TypeInv' /\ ResolverInv'
<1> DEFINE d == TaskOf(r, w).domain
           us == [wk[r] EXCEPT ![w] = [Off EXCEPT !.pc = "recv"]]
           bad == FailedIn(failed, r)
           worse == bad \cup {d}
<1>1. d \in DomainOf /\ d = st[r].tasks[wk[r][w].task].domain
  BY InHand DEF TaskOf
<1>2. /\ st = [st EXCEPT ![r] = st[r]] /\ st[r] \in Run
      /\ st[r].results \in Partial(Ids, Ans) /\ st[r] = [st[r] EXCEPT !.results = st[r].results]
  <2>1. st[r] \in Run
    BY DEF TypeInv
  <2> QED
    BY <2>1, RunBefore, RunFields DEF Run
<1>3. FailedIn(failed', r) = worse /\ worse \in SUBSET DomainOf
  BY <1>1 DEF Fails, FailedIn
<1>4. wk' = [wk EXCEPT ![r] = us] /\ failed' = failed \cup {<<r, d>>}
  <2>1. Worker(r, w, [Off EXCEPT !.pc = "recv"]) /\ failed' = failed \cup {<<r, d>>}
    BY DEF Fails
  <2> QED
    BY <2>1, OneWorker
<1>5. GoodRun(r, [st[r] EXCEPT !.results = st[r].results], us, rs, worse, r \in raced)
  BY <1>1, <1>2, <1>3, TaskOverGood
<1>6. GoodRun(r, st[r], us, rs, FailedIn(failed', r), r \in raced')
  BY <1>2, <1>3, <1>5
<1>7. cache' \in Partial(Ids, Entry) /\ CacheInv'
  BY GetGood DEF ResolverInv
<1> HIDE DEF us, d
<1> QED
  BY <1>1, <1>2, <1>4, <1>6, <1>7, RunStep

\* A worker asks a single server.
LEMMA QueryInv ==
    ASSUME TypeInv, ResolverInv, NEW r \in Runs, NEW w \in Slots(r), Query(r, w)
    PROVE  TypeInv' /\ ResolverInv'
<1> DEFINE x == wk[r][w]
           d == TaskOf(r, w).domain
<1>1. /\ GoodRun(r, st[r], wk[r], race[r], FailedIn(failed, r), r \in raced)
      /\ st' = [st EXCEPT ![r] = st[r]] /\ race' = [race EXCEPT ![r] = race[r]]
  BY RunBefore DEF Query
<1>2. x.pc = "query" /\ UNCHANGED <<now, cache, st, raced>>
  BY DEF Query
<1>3. Holds(wk[r], w)
  BY <1>2 DEF Holds
<1>4. CASE Fails(r, w)
  BY <1>1, <1>2, <1>3, <1>4, FailsGood
<1>5. ASSUME NEW ips \in Answers(r, d), UNCHANGED failed,
             Worker(r, w, [x EXCEPT !.pc = "store", !.ips = {Answer(ips)}])
      PROVE  TypeInv' /\ ResolverInv'
  <2> DEFINE a == Answer(ips)
             v == [x EXCEPT !.pc = "store", !.ips = {a}]
  <2>1. x \in PoolWorker /\ d \in DomainOf
    BY <1>3, InHand
  <2>2. ips \in SUBSET Address /\ Right(r, d, ips)
    BY <2>1, AnswersRight
  <2>3. a \in Ans /\ RightAns(r, d, a)
    BY <2>2 DEF Answer, Ans, RightAns
  <2>4. Worker(r, w, v)
    BY <1>5
  <2> HIDE DEF a, d
  <2>5. v \in PoolWorker /\ v.pc = "store" /\ v.task = x.task /\ v.ips = {a}
    <3> HIDE DEF x
    <3> QED
      BY <2>1, <2>3 DEF PoolWorker
  <2> HIDE DEF v
  <2>6. /\ v.pc \notin {"off", "recv"} /\ v.task = wk[r][w].task
        /\ (v.pc \in {"store", "write", "writing"} => v.ips # {})
        /\ \A b \in v.ips : RightAns(r, TaskOf(r, w).domain, b)
    BY <2>3, <2>5 DEF d
  <2>7. /\ GoodRun(r, st[r], [wk[r] EXCEPT ![w] = v], race[r], FailedIn(failed, r), r \in raced)
        /\ wk' = [wk EXCEPT ![r] = [wk[r] EXCEPT ![w] = v]]
    BY <1>3, <2>4, <2>5, <2>6, GoesOnStep
  <2> QED
    BY <1>1, <1>2, <1>5, <2>7, QuietStep
<1> QED
  BY <1>4, <1>5 DEF Query

\* A worker stores an answer in the cache.
LEMMA StoreInv ==
    ASSUME TypeInv, ResolverInv, NEW r \in Runs, NEW w \in Slots(r), Store(r, w)
    PROVE  TypeInv' /\ ResolverInv'
<1> DEFINE x == wk[r][w]
           d == TaskOf(r, w).domain
           v == [x EXCEPT !.pc = "write"]
<1>1. /\ GoodRun(r, st[r], wk[r], race[r], FailedIn(failed, r), r \in raced)
      /\ st' = [st EXCEPT ![r] = st[r]] /\ race' = [race EXCEPT ![r] = race[r]]
  BY RunBefore DEF Store
<1>2. x.pc = "store" /\ UNCHANGED <<now, failed, raced>> /\ Worker(r, w, v)
  BY DEF Store
<1>3. Holds(wk[r], w)
  BY <1>2 DEF Holds
<1>4. /\ x \in PoolWorker /\ d \in DomainOf /\ TaskOf(r, w).id = resolverCacheID(r, d)
      /\ \A a \in x.ips : RightAns(r, d, a)
  BY <1>3, InHand
<1>5. x.ips # {} /\ x.ips \subseteq Ans
  <2>1. PoolInv(r, st[r], wk[r])
    BY DEF ResolverInv, UseInv
  <2> QED
    BY <1>2, <1>4, <2>1 DEF PoolInv, PoolWorker
<1>6. cache' \in Partial(Ids, Entry) /\ CacheInv'
  <2>1. PICK a \in x.ips : set(r, TaskOf(r, w).id, a.ips)
    BY DEF Store
  <2>2. a.ips \in SUBSET Address /\ Right(r, d, a.ips)
    BY <1>4, <1>5 DEF Ans, RightAns
  <2>3. set(r, resolverCacheID(r, d), a.ips)
    BY <1>4, <2>1
  <2> HIDE DEF d
  <2> QED
    BY <1>4, <2>2, <2>3, SetGood DEF ResolverInv
<1>7. v \in PoolWorker /\ v.pc = "write" /\ v.task = x.task /\ v.ips = x.ips
  <2> HIDE DEF x
  <2> QED
    BY <1>4 DEF PoolWorker
<1> HIDE DEF v
<1>8. /\ v.pc \notin {"off", "recv"} /\ v.task = wk[r][w].task
      /\ (v.pc \in {"store", "write", "writing"} => v.ips # {})
      /\ \A b \in v.ips : RightAns(r, TaskOf(r, w).domain, b)
  BY <1>4, <1>5, <1>7
<1>9. /\ GoodRun(r, st[r], [wk[r] EXCEPT ![w] = v], race[r], FailedIn(failed, r), r \in raced)
      /\ wk' = [wk EXCEPT ![r] = [wk[r] EXCEPT ![w] = v]]
  BY <1>2, <1>3, <1>7, <1>8, GoesOnStep
<1>10. GoodRun(r, st[r], [wk[r] EXCEPT ![w] = v], race[r], FailedIn(failed', r), r \in raced')
  BY <1>2, <1>9
<1> QED
  BY <1>1, <1>2, <1>6, <1>9, <1>10, RunStep

\* A worker begins to write its result.
LEMMA BeginWriteInv ==
    ASSUME TypeInv, ResolverInv, NEW r \in Runs, NEW w \in Slots(r), BeginWrite(r, w)
    PROVE  TypeInv' /\ ResolverInv'
<1> DEFINE x == wk[r][w]
           v == [x EXCEPT !.pc = "writing"]
           us == [wk[r] EXCEPT ![w] = v]
<1>1. /\ GoodRun(r, st[r], wk[r], race[r], FailedIn(failed, r), r \in raced)
      /\ st' = [st EXCEPT ![r] = st[r]] /\ race' = [race EXCEPT ![r] = race[r]]
  BY RunBefore DEF BeginWrite
<1>2. x.pc = "write" /\ UNCHANGED <<now, cache, failed>> /\ Worker(r, w, v)
      /\ (raced' = raced \/ raced' = raced \cup {r})
  BY DEF BeginWrite
<1>3. Holds(wk[r], w)
  BY <1>2 DEF Holds
<1>4. x \in PoolWorker /\ \A a \in x.ips : RightAns(r, TaskOf(r, w).domain, a)
  BY <1>3, InHand
<1>5. x.ips # {}
  <2>1. PoolInv(r, st[r], wk[r])
    BY DEF ResolverInv, UseInv
  <2> QED
    BY <1>2, <2>1 DEF PoolInv
<1>6. v \in PoolWorker /\ v.pc = "writing" /\ v.task = x.task /\ v.ips = x.ips
  <2> HIDE DEF x
  <2> QED
    BY <1>4 DEF PoolWorker
<1> HIDE DEF v
<1>7. /\ v.pc \notin {"off", "recv"} /\ v.task = wk[r][w].task
      /\ (v.pc \in {"store", "write", "writing"} => v.ips # {})
      /\ \A b \in v.ips : RightAns(r, TaskOf(r, w).domain, b)
  BY <1>4, <1>5, <1>6
<1>8. /\ GoodRun(r, st[r], us, race[r], FailedIn(failed, r), r \in raced)
      /\ wk' = [wk EXCEPT ![r] = us]
  BY <1>2, <1>3, <1>6, <1>7, GoesOnStep
<1> HIDE DEF us
<1>9. GoodRun(r, st[r], us, race[r], FailedIn(failed', r), r \in raced')
  <2>1. r \in raced => r \in raced'
    BY <1>2
  <2>2. GoodRun(r, st[r], us, race[r], FailedIn(failed, r), r \in raced')
    <3>1. CASE raced' = raced
      BY <1>8, <3>1
    <3>2. CASE (r \in raced') = TRUE
      <4>1. GoodRun(r, st[r], us, race[r], FailedIn(failed, r), TRUE)
        BY <1>8, LossyGood
      <4> QED
        BY <3>2, <4>1
    <3> QED
      BY <1>2, <3>1, <3>2
  <2> QED
    BY <1>2, <2>2
<1>10. cache' \in Partial(Ids, Entry) /\ CacheInv'
  BY <1>2, GetGood DEF ResolverInv
<1> QED
  BY <1>1, <1>2, <1>8, <1>9, <1>10, RunStep

\* A worker has written its result.
LEMMA EndWriteInv ==
    ASSUME TypeInv, ResolverInv, NEW r \in Runs, NEW w \in Slots(r), EndWrite(r, w)
    PROVE  TypeInv' /\ ResolverInv'
<1> DEFINE s == st[r]
           x == wk[r][w]
           t == TaskOf(r, w)
           us == [wk[r] EXCEPT ![w] = [Off EXCEPT !.pc = "recv"]]
           bad == FailedIn(failed, r)
<1>1. /\ GoodRun(r, s, wk[r], race[r], bad, r \in raced)
      /\ race' = [race EXCEPT ![r] = race[r]] /\ st = [st EXCEPT ![r] = s]
  BY RunBefore DEF EndWrite
<1>2. x.pc = "writing" /\ UNCHANGED <<now, cache, failed, raced>>
      /\ Worker(r, w, [Off EXCEPT !.pc = "recv"])
  BY DEF EndWrite
<1>3. Holds(wk[r], w)
  BY <1>2 DEF Holds
<1>4. /\ x \in PoolWorker /\ t.domain \in DomainOf /\ t.id \in Ids
      /\ \A a \in x.ips : RightAns(r, t.domain, a)
      /\ t = s.tasks[wk[r][w].task]
  BY <1>3, InHand DEF TaskOf
<1>5. s \in Run /\ s.results \in Partial(Ids, Ans) /\ s = [s EXCEPT !.results = s.results]
  <2>1. s \in Run
    BY DEF TypeInv
  <2> HIDE DEF s
  <2> QED
    BY <2>1, RunFields DEF Run
<1>6. wk' = [wk EXCEPT ![r] = us]
  BY <1>2, OneWorker
<1>7. bad \in SUBSET DomainOf
  BY DEF FailedIn
<1> HIDE DEF t, us, bad
<1>8. ASSUME NEW z, st' = [st EXCEPT ![r] = z], GoodRun(r, z, us, race[r], bad, r \in raced)
      PROVE  TypeInv' /\ ResolverInv'
  BY <1>1, <1>2, <1>6, <1>8, QuietStep DEF bad
<1>9. ASSUME NEW a \in x.ips, st' = [st EXCEPT ![r] = [s EXCEPT !.results = With(@, t.id, a)]]
      PROVE  TypeInv' /\ ResolverInv'
  <2> DEFINE old == s.results
             id == t.id
             results == With(old, id, a)
  <2>1. a \in Ans /\ RightAns(r, t.domain, a) /\ old \in Partial(Ids, Ans) /\ id \in Ids
    BY <1>4, <1>5 DEF PoolWorker
  <2> HIDE DEF old, id
  <2>2. /\ results \in Partial(Ids, Ans) /\ DOMAIN results = DOMAIN old \cup {id}
        /\ results[id] = a /\ \A y \in DOMAIN old : y # id => results[y] = old[y]
    BY <2>1, ResultWith
  <2>3. st' = [st EXCEPT ![r] = [s EXCEPT !.results = results]]
    BY <1>9 DEF old, id
  <2> HIDE DEF results
  <2>4. /\ bad = bad /\ DOMAIN results = DOMAIN s.results \cup {t.id}
        /\ \A y \in DOMAIN s.results : y # t.id => results[y] = s.results[y]
        /\ RightAns(r, t.domain, results[t.id])
    BY <2>1, <2>2 DEF old, id
  <2>5. GoodRun(r, [s EXCEPT !.results = results], us, race[r], bad, r \in raced)
    <3> HIDE DEF s
    <3> QED
      BY <1>1, <1>3, <1>4, <1>7, <2>2, <2>4, TaskOverGood DEF us
  <2> QED
    BY <1>8, <2>3, <2>5
<1>10. CASE r \in raced /\ UNCHANGED st
  <2>1. GoodRun(r, [s EXCEPT !.results = s.results], us, race[r], bad, r \in raced)
    <3>1. r \in raced
      BY <1>10
    <3> HIDE DEF s
    <3> QED
      BY <1>1, <1>3, <1>5, <1>7, <3>1, TaskOverGood DEF us
  <2>2. GoodRun(r, s, us, race[r], bad, r \in raced)
    <3> HIDE DEF s
    <3> QED
      BY <1>5, <2>1
  <2> QED
    BY <1>1, <1>8, <1>10, <2>2
<1> QED
  BY <1>9, <1>10 DEF EndWrite, Upd, t

\* A race that has begun is that of a task, and its answers are right.
LEMMA UnderWay ==
    ASSUME TypeInv, ResolverInv, NEW r \in Runs, NEW k \in Tasks(r),
           race[r][k].pc # "none" \/ \E j \in Ranks(r) : race[r][k].wk[j].pc # "off"
    PROVE  LET s == race[r][k]
               d == st[r].tasks[k].domain
           IN  /\ s \in RaceOf(r) /\ RaceInv(r, s) /\ s.pc # "none"
               /\ k \in 1..Len(st[r].tasks) /\ d \in DomainOf
               /\ \A j \in Ranks(r) : Right(r, d, s.wk[j].ips)
               /\ \A i \in 1..Len(s.out) : Right(r, d, s.out[i])
<1>1. st[r] \in Run /\ race[r] \in [Tasks(r) -> RaceOf(r)] /\ TaskInv(r, st[r], wk[r], race[r])
      /\ RaceInv(r, race[r][k]) /\ AnswerInv(r, st[r], wk[r], race[r])
  BY DEF TypeInv, ResolverInv
<1>2. race[r][k].pc # "none"
  BY <1>1 DEF TaskInv
<1>3. k \in 1..Len(st[r].tasks)
  BY <1>1, <1>2 DEF TaskInv
<1>4. st[r].tasks[k].domain \in DomainOf
  BY <1>1, <1>3, RunFields
<1>5. /\ \A j \in Ranks(r) : Right(r, st[r].tasks[k].domain, race[r][k].wk[j].ips)
      /\ \A i \in 1..Len(race[r][k].out) : Right(r, st[r].tasks[k].domain, race[r][k].out[i])
  BY <1>1, <1>2 DEF AnswerInv
<1> QED
  BY <1>1, <1>2, <1>3, <1>4, <1>5

\* A race goes on, with right answers, and nothing else happens.
LEMMA RaceStep ==
    ASSUME TypeInv, ResolverInv, NEW r \in Runs, NEW k \in Tasks(r), k \in 1..Len(st[r].tasks),
           NEW x \in RaceOf(r), x.pc # "none", RaceInv(r, x), Race(r, k, x),
           \A j \in Ranks(r) : Right(r, st[r].tasks[k].domain, x.wk[j].ips),
           \A i \in 1..Len(x.out) : Right(r, st[r].tasks[k].domain, x.out[i])
    PROVE  /\ GoodRun(r, st[r], wk[r], [race[r] EXCEPT ![k] = x], FailedIn(failed, r),
                      r \in raced)
           /\ race' = [race EXCEPT ![r] = [race[r] EXCEPT ![k] = x]]
           /\ UNCHANGED <<now, cache, st, wk, failed, raced>> => TypeInv' /\ ResolverInv'
<1> DEFINE rs == [race[r] EXCEPT ![k] = x]
<1>1. /\ GoodRun(r, st[r], wk[r], race[r], FailedIn(failed, r), r \in raced)
      /\ st = [st EXCEPT ![r] = st[r]] /\ wk = [wk EXCEPT ![r] = wk[r]]
  BY RunBefore
<1>2. GoodRun(r, st[r], wk[r], rs, FailedIn(failed, r), r \in raced)
  BY <1>1, RaceGood, Zenon
<1>3. race' = [race EXCEPT ![r] = rs]
  BY OneRace
<1> HIDE DEF rs
<1>4. ASSUME UNCHANGED <<now, cache, st, wk, failed, raced>> PROVE TypeInv' /\ ResolverInv'
  <2>1. st' = [st EXCEPT ![r] = st[r]] /\ wk' = [wk EXCEPT ![r] = wk[r]]
        /\ UNCHANGED <<now, cache, failed, raced>>
    BY <1>1, <1>4
  <2> QED
    BY <1>2, <1>3, <2>1, QuietStep
<1> QED
  BY <1>2, <1>3, <1>4 DEF rs

\* No address, or addresses that were right.
LEMMA StillRight ==
    ASSUME NEW r \in Runs, NEW d, NEW s, NEW x,
           \A j \in Ranks(r) : Right(r, d, s.wk[j].ips),
           \A j \in Ranks(r) : x.wk[j].ips = {} \/ x.wk[j].ips = s.wk[j].ips
    PROVE  \A j \in Ranks(r) : Right(r, d, x.wk[j].ips)
<1>1. Right(r, d, {})
  BY DEF Right
<1> QED
  BY <1>1

\* A server is handed to a goroutine of a race.
LEMMA RaceHandOutInv ==
    ASSUME TypeInv, ResolverInv, NEW r \in Runs, NEW k \in Tasks(r), NEW j \in Ranks(r),
           RaceHandOut(r, k, j)
    PROVE  TypeInv' /\ ResolverInv'
<1> DEFINE s == race[r][k]
           d == st[r].tasks[k].domain
           x == Asked(s, j)
<1>1. /\ s.pc = "hand" /\ s.next <= Servers[r] /\ s.wk[j].pc = "recv" /\ Race(r, k, x)
      /\ UNCHANGED <<now, cache, st, wk, failed, raced>>
  BY DEF RaceHandOut, Asked
<1>2. /\ s \in RaceOf(r) /\ RaceInv(r, s) /\ s.pc # "none" /\ k \in 1..Len(st[r].tasks)
      /\ \A i \in Ranks(r) : Right(r, d, s.wk[i].ips)
      /\ \A i \in 1..Len(s.out) : Right(r, d, s.out[i])
  BY <1>1, UnderWay
<1>3. x = Asked(s, j)
  OBVIOUS
<1> HIDE DEF s, d, x
<1>4. /\ x \in RaceOf(r) /\ RaceInv(r, x) /\ x.pc = "hand" /\ x.out = s.out
      /\ \A i \in Ranks(r) : x.wk[i].ips = {} \/ x.wk[i].ips = s.wk[i].ips
  BY <1>1, <1>2, <1>3, RaceHandOutGood
<1>5. \A i \in Ranks(r) : Right(r, d, x.wk[i].ips)
  BY <1>2, <1>4, StillRight
<1>6. \A i \in 1..Len(x.out) : Right(r, d, x.out[i])
  BY <1>2, <1>4
<1> QED
  BY <1>1, <1>2, <1>4, <1>5, <1>6, RaceStep DEF d

\* It answers or fails.
LEMMA RaceQueryInv ==
    ASSUME TypeInv, ResolverInv, NEW r \in Runs, NEW k \in Tasks(r), NEW j \in Ranks(r),
           RaceQuery(r, k, j)
    PROVE  TypeInv' /\ ResolverInv'
<1> DEFINE s == race[r][k]
           d == st[r].tasks[k].domain
           x(ips) == Answered(s, j, ips)
<1>1. s.wk[j].pc = "query" /\ UNCHANGED <<now, cache, st, wk, failed, raced>>
  BY DEF RaceQuery, Answered
<1>2. PICK ips \in Answers(r, d) \cup {{}} : Race(r, k, x(ips))
  BY DEF RaceQuery, Answered
<1>3. /\ s \in RaceOf(r) /\ RaceInv(r, s) /\ s.pc # "none" /\ k \in 1..Len(st[r].tasks)
      /\ d \in DomainOf
      /\ \A i \in Ranks(r) : Right(r, d, s.wk[i].ips)
      /\ \A i \in 1..Len(s.out) : Right(r, d, s.out[i])
  BY <1>1, UnderWay
<1>4. ips \in SUBSET Address /\ Right(r, d, ips)
  <2>1. CASE ips = {}
    BY <2>1 DEF Right
  <2>2. CASE ips \in Answers(r, d)
    BY <1>3, <2>2, AnswersRight
  <2> QED
    BY <2>1, <2>2
<1> DEFINE y == x(ips)
<1>5. y = Answered(s, j, ips) /\ Race(r, k, y)
  BY <1>2
<1> HIDE DEF s, d, y
<1>6. /\ y \in RaceOf(r) /\ RaceInv(r, y) /\ y.pc = s.pc /\ y.out = s.out
      /\ \A i \in Ranks(r) : y.wk[i].ips = ips \/ y.wk[i].ips = s.wk[i].ips
  BY <1>1, <1>3, <1>4, <1>5, RaceQueryGood
<1>7. \A i \in Ranks(r) : Right(r, d, y.wk[i].ips)
  BY <1>3, <1>4, <1>6
<1>8. \A i \in 1..Len(y.out) : Right(r, d, y.out[i])
  BY <1>3, <1>6
<1>9. y.pc # "none"
  BY <1>3, <1>6
<1> QED
  BY <1>1, <1>3, <1>5, <1>6, <1>7, <1>8, <1>9, RaceStep DEF d

\* Its answer is sent.
LEMMA RaceSendInv ==
    ASSUME TypeInv, ResolverInv, NEW r \in Runs, NEW k \in Tasks(r), NEW j \in Ranks(r),
           RaceSend(r, k, j)
    PROVE  TypeInv' /\ ResolverInv'
<1> DEFINE s == race[r][k]
           d == st[r].tasks[k].domain
           x == Sent(s, j)
<1>1. /\ s.wk[j].pc = "send" /\ Race(r, k, x)
      /\ UNCHANGED <<now, cache, st, wk, failed, raced>>
  BY DEF RaceSend, Sent
<1>2. /\ s \in RaceOf(r) /\ RaceInv(r, s) /\ s.pc # "none" /\ k \in 1..Len(st[r].tasks)
      /\ \A i \in Ranks(r) : Right(r, d, s.wk[i].ips)
      /\ \A i \in 1..Len(s.out) : Right(r, d, s.out[i])
  BY <1>1, UnderWay
<1>3. x = Sent(s, j)
  OBVIOUS
<1> HIDE DEF s, d, x
<1>4. /\ x \in RaceOf(r) /\ RaceInv(r, x) /\ x.pc = s.pc
      /\ \A i \in 1..Len(x.out) : x.out[i] = s.wk[j].ips \/
                                  (i \in 1..Len(s.out) /\ x.out[i] = s.out[i])
      /\ \A i \in Ranks(r) : x.wk[i].ips = {} \/ x.wk[i].ips = s.wk[i].ips
  BY <1>1, <1>2, <1>3, RaceSendGood
<1>5. \A i \in Ranks(r) : Right(r, d, x.wk[i].ips)
  BY <1>2, <1>4, StillRight
<1>6. \A i \in 1..Len(x.out) : Right(r, d, x.out[i])
  BY <1>2, <1>4
<1>7. x.pc # "none"
  BY <1>2, <1>4
<1> QED
  BY <1>1, <1>2, <1>4, <1>5, <1>6, <1>7, RaceStep DEF d

\* A goroutine of a race finds no more servers.
LEMMA RaceExitInv ==
    ASSUME TypeInv, ResolverInv, NEW r \in Runs, NEW k \in Tasks(r), NEW j \in Ranks(r),
           RaceWorkerExit(r, k, j)
    PROVE  TypeInv' /\ ResolverInv'
<1> DEFINE s == race[r][k]
           d == st[r].tasks[k].domain
           x == Left(s, j)
<1>1. /\ s.wk[j].pc = "recv" /\ Race(r, k, x)
      /\ UNCHANGED <<now, cache, st, wk, failed, raced>>
  BY DEF RaceWorkerExit, Left
<1>2. /\ s \in RaceOf(r) /\ RaceInv(r, s) /\ s.pc # "none" /\ k \in 1..Len(st[r].tasks)
      /\ \A i \in Ranks(r) : Right(r, d, s.wk[i].ips)
      /\ \A i \in 1..Len(s.out) : Right(r, d, s.out[i])
  BY <1>1, UnderWay
<1>3. x = Left(s, j)
  OBVIOUS
<1> HIDE DEF s, d, x
<1>4. /\ x \in RaceOf(r) /\ RaceInv(r, x) /\ x.pc = s.pc /\ x.out = s.out
      /\ \A i \in Ranks(r) : x.wk[i].ips = {} \/ x.wk[i].ips = s.wk[i].ips
  BY <1>1, <1>2, <1>3, RaceExitGood
<1>5. \A i \in Ranks(r) : Right(r, d, x.wk[i].ips)
  BY <1>2, <1>4, StillRight
<1>6. x.pc # "none" /\ \A i \in 1..Len(x.out) : Right(r, d, x.out[i])
  BY <1>2, <1>4
<1> QED
  BY <1>1, <1>2, <1>4, <1>5, <1>6, RaceStep DEF d

\* All servers of a race are handed out.
LEMMA RaceCloseInv ==
    ASSUME TypeInv, ResolverInv, NEW r \in Runs, NEW k \in Tasks(r), RaceClose(r, k)
    PROVE  TypeInv' /\ ResolverInv'
<1> DEFINE s == race[r][k]
           d == st[r].tasks[k].domain
           x == [s EXCEPT !.pc = "read"]
<1>1. /\ s.pc = "hand" /\ Race(r, k, x)
      /\ UNCHANGED <<now, cache, st, wk, failed, raced>>
  BY DEF RaceClose
<1>2. /\ s \in RaceOf(r) /\ RaceInv(r, s) /\ s.pc # "none" /\ k \in 1..Len(st[r].tasks)
      /\ \A i \in Ranks(r) : Right(r, d, s.wk[i].ips)
      /\ \A i \in 1..Len(s.out) : Right(r, d, s.out[i])
  BY <1>1, UnderWay
<1>3. x = [s EXCEPT !.pc = "read"]
  OBVIOUS
<1> HIDE DEF s, d, x
<1>4. x \in RaceOf(r) /\ RaceInv(r, x) /\ x.pc = "read" /\ x.out = s.out /\ x.wk = s.wk
  BY <1>1, <1>2, <1>3, RaceCloseGood
<1>5. /\ x.pc # "none" /\ \A i \in Ranks(r) : Right(r, d, x.wk[i].ips)
      /\ \A i \in 1..Len(x.out) : Right(r, d, x.out[i])
  BY <1>2, <1>4
<1> QED
  BY <1>1, <1>2, <1>4, <1>5, RaceStep DEF d

\* A worker reads an answer of its race.
LEMMA RaceReadInv ==
    ASSUME TypeInv, ResolverInv, NEW r \in Runs, NEW w \in Slots(r), RaceRead(r, w)
    PROVE  TypeInv' /\ ResolverInv'
<1> DEFINE y == wk[r][w]
           k == y.task
           s == race[r][k]
           d == st[r].tasks[k].domain
           out == s.out[s.read + 1]
           x == ReadOne(r, s)
           rs == [race[r] EXCEPT ![k] = x]
<1>1. y.pc = "race" /\ s.pc = "read" /\ s.read < Len(s.out) /\ UNCHANGED <<now, cache, st, raced>>
  BY DEF RaceRead
<1>2. Race(r, k, x)
  BY DEF RaceRead, ReadOne
<1>3. Holds(wk[r], w)
  BY <1>1 DEF Holds
<1>4. y \in PoolWorker /\ k \in Tasks(r) /\ d = TaskOf(r, w).domain
  BY <1>3, InHand DEF TaskOf
<1>5. /\ s \in RaceOf(r) /\ RaceInv(r, s) /\ k \in 1..Len(st[r].tasks) /\ d \in DomainOf
      /\ \A j \in Ranks(r) : Right(r, d, s.wk[j].ips)
      /\ \A i \in 1..Len(s.out) : Right(r, d, s.out[i])
  BY <1>1, <1>4, UnderWay
<1>6. out \in SUBSET Address /\ Right(r, d, out)
  <2>1. s.read + 1 \in 1..Len(s.out) /\ s.out \in Seq(SUBSET Address)
    <3>1. s.read \in Nat /\ Len(s.out) \in Nat /\ s.out \in Seq(SUBSET Address)
      BY <1>5, RaceFields
    <3> HIDE DEF s
    <3> QED
      BY <1>1, <3>1
  <2> HIDE DEF s, d
  <2> QED
    BY <1>5, <2>1
<1>7. x = ReadOne(r, s)
  OBVIOUS
<1>8. x \in RaceOf(r) /\ RaceInv(r, x) /\ x.pc # "none" /\ x.out = s.out /\ x.wk = s.wk
  <2> HIDE DEF s, out, x
  <2> QED
    BY <1>1, <1>5, <1>7, RaceReadGood
<1> HIDE DEF x
<1>9. /\ GoodRun(r, st[r], wk[r], rs, FailedIn(failed, r), r \in raced)
      /\ race' = [race EXCEPT ![r] = rs]
      /\ UNCHANGED <<now, cache, st, wk, failed, raced>> => TypeInv' /\ ResolverInv'
  <2>1. /\ \A j \in Ranks(r) : Right(r, d, x.wk[j].ips)
        /\ \A i \in 1..Len(x.out) : Right(r, d, x.out[i])
    BY <1>5, <1>8
  <2> HIDE DEF s, k
  <2> QED
    BY <1>2, <1>4, <1>5, <1>8, <2>1, RaceStep
<1> HIDE DEF rs
<1>10. CASE Fails(r, w)
  BY <1>1, <1>3, <1>9, <1>10, FailsGood
<1>11. CASE UNCHANGED <<wk, failed>>
  BY <1>1, <1>9, <1>11
<1>12. ASSUME out # {}, UNCHANGED failed,
              Worker(r, w, [y EXCEPT !.pc = "store", !.ips = {Answer(out)}])
       PROVE  TypeInv' /\ ResolverInv'
  <2> DEFINE a == Answer(out)
             v == [y EXCEPT !.pc = "store", !.ips = {a}]
             us == [wk[r] EXCEPT ![w] = v]
  <2>1. a \in Ans /\ RightAns(r, d, a)
    <3> HIDE DEF out, d
    <3> QED
      BY <1>6 DEF Answer, Ans, RightAns
  <2>2. Worker(r, w, v)
    BY <1>12
  <2> HIDE DEF a
  <2>3. v \in PoolWorker /\ v.pc = "store" /\ v.task = k /\ v.ips = {a}
    <3>1. k = y.task
      OBVIOUS
    <3> HIDE DEF y, k
    <3> QED
      BY <1>4, <2>1, <3>1 DEF PoolWorker
  <2> HIDE DEF v
  <2>4. /\ v.pc \notin {"off", "recv"} /\ v.task = wk[r][w].task
        /\ (v.pc \in {"store", "write", "writing"} => v.ips # {})
        /\ \A b \in v.ips : RightAns(r, st[r].tasks[v.task].domain, b)
    BY <2>1, <2>3
  <2>5. GoodRun(r, st[r], us, rs, FailedIn(failed, r), r \in raced)
    <3> HIDE DEF d, k, y
    <3> QED
      BY <1>3, <1>9, <2>3, <2>4, WorkerGoesOn, Zenon
  <2>6. wk' = [wk EXCEPT ![r] = us]
    BY <2>2, OneWorker
  <2>7. st' = [st EXCEPT ![r] = st[r]] /\ UNCHANGED <<now, cache, failed, raced>>
    BY <1>1, <1>12, RunBefore
  <2> HIDE DEF us
  <2> QED
    BY <1>9, <2>5, <2>6, <2>7, QuietStep
<1> QED
  BY <1>10, <1>11, <1>12 DEF RaceRead

\* Only the clock moves.
LEMMA TickInv ==
    ASSUME TypeInv, ResolverInv, Tick
    PROVE  TypeInv' /\ ResolverInv'
<1>1. now' \in Nat /\ UNCHANGED <<cache, st, wk, race, failed, raced>>
  BY DEF Tick, TypeInv
<1>2. TypeInv'
  BY <1>1 DEF TypeInv, Shape
<1>3. CacheInv'
  BY <1>1, GetGood DEF ResolverInv
<1> QED
  BY <1>1, <1>2, <1>3 DEF ResolverInv

\* Every step keeps the invariant.
LEMMA NextInv == TypeInv /\ ResolverInv /\ [Next]_vars => TypeInv' /\ ResolverInv'
<1> SUFFICES ASSUME TypeInv, ResolverInv, [Next]_vars PROVE TypeInv' /\ ResolverInv'
  OBVIOUS
<1>1. CASE UNCHANGED vars
  <2>1. UNCHANGED <<now, cache, st, wk, race, failed, raced>>
    BY <1>1 DEF vars
  <2>2. TypeInv'
    BY <2>1 DEF TypeInv, Shape
  <2>3. CacheInv'
    BY <2>1, GetGood DEF ResolverInv
  <2> QED
    BY <2>1, <2>2, <2>3 DEF ResolverInv
<1>2. ASSUME NEW r \in Runs, Goroutine(r) PROVE TypeInv' /\ ResolverInv'
  <2>1. CASE Collect(r)
    BY <2>1, CollectInv
  <2>2. CASE StartPool(r)
    BY <2>2, StartPoolInv
  <2>3. CASE CloseTasks(r)
    BY <2>3, CloseTasksInv
  <2>4. CASE PoolDone(r)
    BY <2>4, PoolDoneInv
  <2>5. CASE WriteBack(r)
    BY <2>5, WriteBackInv
  <2>6. ASSUME NEW w \in Slots(r),
               \/ HandOut(r, w) \/ WorkerExit(r, w) \/ Lookup(r, w) \/ Query(r, w)
               \/ Store(r, w) \/ BeginWrite(r, w) \/ EndWrite(r, w) \/ RaceRead(r, w)
        PROVE  TypeInv' /\ ResolverInv'
    BY <2>6, HandOutInv, WorkerExitInv, LookupInv, QueryInv, StoreInv, BeginWriteInv,
       EndWriteInv, RaceReadInv
  <2>7. ASSUME NEW k \in Tasks(r),
               \/ RaceClose(r, k)
               \/ \E j \in Ranks(r) : \/ RaceHandOut(r, k, j) \/ RaceQuery(r, k, j)
                                      \/ RaceSend(r, k, j) \/ RaceWorkerExit(r, k, j)
        PROVE  TypeInv' /\ ResolverInv'
    BY <2>7, RaceCloseInv, RaceHandOutInv, RaceQueryInv, RaceSendInv, RaceExitInv
  <2> QED
    BY <1>2, <2>1, <2>2, <2>3, <2>4, <2>5, <2>6, <2>7 DEF Goroutine
<1>3. CASE Tick
  BY <1>3, TickInv
<1> QED
  BY <1>1, <1>2, <1>3 DEF Next

-----------------------------------------------------------------------------
(* The theorems.                                                           *)

\* However the conversions, their workers, the servers and the shared cache
\* interleave, the invariant holds.
THEOREM ResolverInvariance == Spec => [](TypeInv /\ ResolverInv)
BY InitInv, NextInv, PTL DEF Spec

\* resolveWithCustomDNSConcurrency returns the first success, or fails once all
\* servers have failed, for any number of servers and of workers.
THEOREM FirstSuccess == Spec => []FirstSuccessWins
<1>1. TypeInv /\ ResolverInv => FirstSuccessWins
  <2> SUFFICES ASSUME TypeInv, ResolverInv, NEW r \in Runs, NEW k \in Tasks(r),
                      race[r][k].pc = "end"
               PROVE  LET s == race[r][k]
                          ok == {i \in DOMAIN s.out : s.out[i] # {}}
                      IN  IF ok = {} THEN Len(s.out) = Servers[r] /\ s.read = Servers[r]
                          ELSE s.read \in ok /\ \A i \in ok : s.read <= i
    BY DEF FirstSuccessWins
  <2> DEFINE s == race[r][k]
             ok == {i \in DOMAIN s.out : s.out[i] # {}}
  <2>1. s \in RaceOf(r) /\ RaceInv(r, s)
    BY DEF TypeInv, ResolverInv
  <2>2. s.pc = "end"
    OBVIOUS
  <2> HIDE DEF s
  <2>3. /\ s.out \in Seq(SUBSET Address) /\ Len(s.out) \in Nat /\ s.read \in Nat
        /\ s.next \in Nat /\ Servers[r] \in Nat /\ Cardinality(Busy(r, s)) \in Nat
    BY <2>1, RaceFields, BusyFinite
  <2>4. /\ s.read > 0 /\ s.read <= Len(s.out) /\ Len(s.out) <= Servers[r]
        /\ (s.out[s.read] = {} => s.read = Servers[r])
        /\ \A i \in 1..(s.read - 1) : s.out[i] = {}
    BY <2>1, <2>2, <2>3 DEF RaceInv
  <2>5. DOMAIN s.out = 1..Len(s.out) /\ s.read \in 1..Len(s.out)
    BY <2>3, <2>4
  <2>6. \A i \in ok : s.read <= i
    BY <2>3, <2>4, <2>5
  <2>7. s.out[s.read] # {} => s.read \in ok
    BY <2>5
  <2>8. ASSUME s.out[s.read] = {}
        PROVE  ok = {} /\ Len(s.out) = Servers[r] /\ s.read = Servers[r]
    <3>1. s.read = Servers[r] /\ Len(s.out) = Servers[r]
      BY <2>3, <2>4, <2>8
    <3>2. ASSUME NEW i \in ok PROVE FALSE
      <4>1. i \in 1..Len(s.out) /\ s.out[i] # {} /\ s.read <= i
        BY <2>5, <2>6
      <4>2. i = s.read
        BY <2>3, <3>1, <4>1
      <4> QED
        BY <2>8, <4>1, <4>2
    <3> QED
      BY <3>1, <3>2
  <2>9. IF ok = {} THEN Len(s.out) = Servers[r] /\ s.read = Servers[r]
        ELSE s.read \in ok /\ \A i \in ok : s.read <= i
    <3> HIDE DEF ok
    <3> QED
      BY <2>6, <2>7, <2>8
  <2> QED
    BY <2>9 DEF s
<1> QED
  BY <1>1, ResolverInvariance, PTL

\* A run that comes to write back has an answer or a failure, and not both, for
\* every domain it had to look up, unless two of its workers wrote at once.
THEOREM NoAnswerLost == Spec => []AnswersAreUsed
<1>1. TypeInv /\ ResolverInv => AnswersAreUsed
  <2> SUFFICES ASSUME TypeInv, ResolverInv, NEW r \in Runs \ raced, st[r].pc = "writeback",
                      NEW i \in DOMAIN st[r].nodes, Eligible(st[r].nodes[i])
               PROVE  (resolverCacheID(r, st[r].nodes[i].server.domain) \in DOMAIN st[r].results)
                        # (<<r, st[r].nodes[i].server.domain>> \in failed)
    BY DEF AnswersAreUsed
  <2> DEFINE s == st[r]
             d == s.nodes[i].server.domain
             id == resolverCacheID(r, d)
             bad == FailedIn(failed, r)
  <2>1. /\ s \in Run /\ TaskInv(r, s, wk[r], race[r]) /\ SeenInv(r, s) /\ PoolInv(r, s, wk[r])
        /\ FateInv(r, s, wk[r], bad, r \in raced)
    BY DEF TypeInv, ResolverInv, UseInv
  <2>2. /\ s.nodes \in Seq(Node) /\ Len(s.tasks) \in Nat /\ s.next \in Nat
        /\ \A k \in 1..Len(s.tasks) : s.tasks[k].domain \in DomainOf
    BY <2>1, RunFields
  <2>3. d \in DomainOf /\ (d \in bad <=> <<r, d>> \in failed)
    <3>1. s.nodes[i] \in Node
      BY <2>2
    <3>2. d \in DomainOf
      BY <3>1 DEF Node, Address, DomainOf
    <3> QED
      BY <3>2 DEF FailedIn
  <2>4. s.pc = "writeback" /\ s.next = Len(s.tasks) + 1
        /\ \A w \in Slots(r) : wk[r][w].pc = "off"
    BY <2>1 DEF SeenInv, PoolInv
  <2>5. id \in s.seen
    <3>1. i \in Looked(s)
      BY <2>2, <2>4 DEF Looked
    <3> QED
      BY <2>1, <2>4, <3>1 DEF SeenInv
  <2>6. \A k : HeldBy(r, wk[r], k) = {}
    BY <2>4 DEF HeldBy, Holds
  <2>7. ASSUME NEW k \in 1..Len(s.tasks)
        PROVE  (s.tasks[k].id \in DOMAIN s.results) # (s.tasks[k].domain \in bad)
    <3>1. FateOf(r, s, wk[r], bad, r \in raced, k)
      BY <2>1 DEF FateInv
    <3>2. ~ (k >= s.next)
      BY <2>2, <2>4
    <3> QED
      BY <2>6, <3>1, <3>2 DEF FateOf
  <2>8. ASSUME NEW k \in 1..Len(s.tasks), s.tasks[k].id = id PROVE s.tasks[k].domain = d
    <3>1. s.tasks[k].id = resolverCacheID(r, s.tasks[k].domain)
      BY <2>1 DEF TaskInv
    <3>2. resolverCacheID(r, s.tasks[k].domain) = resolverCacheID(r, d)
      BY <2>8, <3>1
    <3> HIDE DEF s, d
    <3> QED
      BY <3>2, IdTells
  <2>9. CASE \E k \in 1..Len(s.tasks) : s.tasks[k].id = id
    <3>1. PICK k \in 1..Len(s.tasks) : s.tasks[k].id = id
      BY <2>9
    <3> HIDE DEF s, d, id, bad
    <3>2. (id \in DOMAIN s.results) # (d \in bad)
      BY <2>7, <2>8, <3>1
    <3> QED
      BY <2>3, <3>2 DEF s, d, id
  <2>10. CASE ~ \E k \in 1..Len(s.tasks) : s.tasks[k].id = id
    <3>1. id \in DOMAIN s.results
      BY <2>1, <2>5, <2>10 DEF SeenInv
    <3>2. ASSUME d \in bad PROVE FALSE
      <4>1. PICK k \in 1..(s.next - 1) : s.tasks[k].domain = d
        BY <2>1, <3>2 DEF FateInv
      <4>2. k \in 1..Len(s.tasks)
        BY <2>2, <2>4, <4>1
      <4>3. s.tasks[k].id = id
        BY <2>1, <4>1, <4>2 DEF TaskInv
      <4> QED
        BY <2>10, <4>2, <4>3
    <3> QED
      BY <2>3, <3>1, <3>2
  <2> QED
    BY <2>9, <2>10
<1> QED
  BY <1>1, ResolverInvariance, PTL

\* When no node came with an address of an earlier lookup, every address a node
\* gets is an answer to the question of its own run, for its own domain and the
\* run's record type, whatever other runs put into the cache, and an address of
\* that type when the provider answers in wire format; and a cached answer was
\* used within its time to live.
THEOREM OwnAddress == ASSUME FreshNodes PROVE Spec => []OwnFreshAddress
<1>1. TypeInv /\ ResolverInv => OwnFreshAddress
  <2> SUFFICES ASSUME TypeInv, ResolverInv, NEW r \in Runs
               PROVE  /\ \A n \in {st[r].nodes[i] : i \in DOMAIN st[r].nodes} :
                            n.resolved = "yes" => Fitting(r, n)
                      /\ \A id \in DOMAIN st[r].results :
                            st[r].results[id].got
                               <= st[r].results[id].since + st[r].results[id].ttl
    BY DEF OwnFreshAddress
  <2>1. AnswerInv(r, st[r], wk[r], race[r])
    BY DEF ResolverInv
  <2> QED
    BY <2>1 DEF AnswerInv, RightNodes
<1> QED
  BY <1>1, ResolverInvariance, PTL
=============================================================================
