# A verification development for subx

subx is a self-hosted manager of proxy subscriptions: it stores subscriptions
(links, or node lists written by the user), collections of them and plain files
in SQLite, refreshes the links in the background, converts node lists between
the formats of a dozen proxy clients, and hands them out under an authenticated
API, under download URLs, and under share links with limited validity.

This directory models in TLA+ the parts of it that keep state, the conversions
between the line formats and the operators on node lists, checks them with TLC on
small instances, and proves the most important results with TLAPS for every value
of the constants. `PROJECT.json` maps every definition to the source
lines it models and lists the runs, mutants, findings, hazards and theorems.

## 1. Inventory

| Component | State | Operations | Interactions |
| --- | --- | --- | --- |
| Store (`internal/store`) | tables `subs`, `collections`, `files` (name UNIQUE, id, pos, JSON document), `tokens`, `settings`, schema version; one SQLite connection | get, list, upsert, rename, delete; `WithTx` | every handler, the scheduler, the share resolver |
| Subscription handlers (`server/subs.go`) | none of their own; a record held between statements | create, patch (edit, rename, switch type), delete, manual refresh | store; downloader for the first snapshot; rewrites collections in its transactions |
| Collection handlers (`server/collections.go`) | as above | create, patch, delete | store; their documents name subscriptions |
| File handlers (`server/files.go`) | as above | create, patch, delete, raw download | store |
| Settings (`server/settings.go`) | one row | get, patch | store |
| Scheduler (`internal/scheduler`) | time of the last refresh of each name; the list of the pass under way | a pass every minute; `Cron.Next` | lists subscriptions, downloads, writes the snapshot back |
| Downloader (`internal/downloader`) | none | `Fetch` (content, else snapshot, else live), `FetchURL` | handlers, scheduler, pipeline |
| Share tokens (`internal/share`, `server/tokens.go`, `server/download.go`) | table `tokens` | create, revoke, three share routes, two charging paths | store, pipeline |
| Rate limiter (`server/ratelimit.go`) | map of visitors under a mutex | allow, reset, cleanup goroutine | middlewares of login and of the public downloads |
| Authentication (`server/auth.go`) | signing secret | login, JWT middleware | limiter |
| Startup (`cmd/main.go`, `config`, `store.Open`) | data directory | legacy database move, schema migration, secret | everything |
| Pipeline (`internal/pipeline`, `share/resolve.go`) | none | parse, process, produce | parser, processors, producers, downloader; recursion through "Add Proxies" |
| Processors (`internal/processor`) | DNS cache | filters, sorts, renames, duplicates, scripts, domain resolution | pipeline; worker pools and a race of resolvers |
| Parsers, producers | registries built at start | text to nodes, nodes to text | pipeline |

What is hard to test here:

* **Read, wait, write back.** Every handler reads a whole document in one SQL
  statement, decides, and writes the whole document back in a later one. Between
  the two other handlers and the scheduler run, and a download may take a
  minute. What is written back can be older than what is stored.
* **Two statements for one insertion**: the new position is read, then the row
  inserted.
* **Two keys for one row**: the row's name and the name inside the document.
* **References between tables**, kept exact by transactions that rewrite every
  collection, while collection handlers hold older copies of them.
* **A counter that is checked and charged in different statements** (tokens),
  with revocation, expiry and failures in between.
* **A window that expires, is cleaned up, and is forgiven late** (limiter).
* **Passes longer than the ticker** (scheduler): downloads run one after the
  other, ticks are dropped meanwhile, and what is due is decided from the time
  of the last refresh of a name.
* **Stops at any statement**, after which only the files are left; the start that
  follows moves a database, migrates its schema and reads the signing secret, and
  can itself be stopped between any two of these.
* **Goroutines that outlive what they work for** (domain resolution): a race is
  over with its first success, while the other workers still send their answers.
* **Conversions inside conversions**: collections convert their members, an
  operator pulls in another source, each reads the store when it begins, and a
  failure means something else at each level.
* **Two tables of options for each format**, one in the producer and one in the
  parser, that have to agree on names, places, quotes and defaults.

The full list, each at its line, is under `hazards`.

What makes the components correct, and where it is stated:

* stored subscriptions are well-formed for their type and never serve nodes of a
  link they no longer have (`SubsWellFormed`, `ServesOwnLink`);
* the list keeps its order and loses a row only to a DELETE (`ListOrderStable`,
  `RowsLeaveOnlyByDelete`), and files keep theirs (`FilesKeepOrder`);
* collections follow renames and deletions of subscriptions exactly, and nothing
  else about them changes (`RenameMovesReferences`, `DeleteDropsReferences`,
  `SubTxKeepsCollections`);
* a share token's counter stays within its limit, failed conversions are free,
  revocation is final (`UsedWithinCount`, `OnlyConversionsCost`,
  `RevokedStaysRevoked`);
* the limiter is a fixed-window quota whatever the map and its cleaner do
  (`ImplementsWindowQuota`, `OpenWindowWithinLimit`, `AnyWindowWithinTwiceLimit`,
  `WaitingReadmits`);
* the scheduler serves every firing of a schedule once, however long its passes are,
  unless a download fails, and every pass ends (`NewFiringEachTime`,
  `NothingLeftDue`, `PassesEnd`);
* however often the process is killed, login tokens survive, committed data and
  acknowledged settings do unless a legacy database was moved only in part, and the
  process comes to serve (`TokensSurviveRestarts`, `CommittedDataServed`,
  `AcknowledgedSettingsKept`, `VersionImpliesSchema`, `EventuallyServes`);
* a node gets an answer for its own domain and record type, fresh, and from a DNS
  server an address of that type; a race returns the first success; every answer is
  used; no goroutine stays behind (`OwnFreshAddress`, `FirstSuccessWins`,
  `AnswersAreUsed`, `EverythingEnds`);
* what is converted to a line format and read again is the same node but for the
  listed losses, a second conversion changes nothing more, and a parser's hint does
  no harm (`RoundTrip`, `EveryLineReadBack`, `Settles`, `HintHarmless`);
* a conversion's answer is what the catalog means; it is always given, and the
  goroutine's stack suffices, unless sources refer to each other in a circle; and
  operators keep their contracts (`AnswersMatchReference`, `ConversionsEnd`,
  `OperatorContracts`).

## 2. Modules

| Module | Models | Notes |
| --- | --- | --- |
| `Tables` | the single SQL statements on a name-keyed table (`store/helpers.go`, `store.go`) | a table is a function from names to rows `[id, pos, rec]`; positions are bounded by `PosBound` |
| `Lists` | the loops that filter a list (`subs.go`, `script.go`) | a recursive function of the elements looked at |
| `Subscriptions` | table `subs`, `server/subs.go`, the scheduler's pass, `downloader.Fetch` | one step per SQL statement, download or transaction |
| `Collections` | table `collections`, `server/collections.go`, the two reference rewrites of `subs.go` | same cut |
| `Catalog` | both together: the transactions of `Store.WithTx` are joint steps | extends the two |
| `ShareTokens` | tokens and the share routes | one step per statement; the clock is explicit |
| `WindowQuota` | what the limiter promises: a quota without a table | abstract specification |
| `RateLimiter` | `ratelimit.go` and the login handler that calls it | refines `WindowQuota` |
| `Cron` | `scheduler/cron.go`: fields, `Parse`, `matches`, `Next` | operators over an arbitrary calendar |
| `CronRunner` | `scheduler/runner.go` in time: ticker, passes, the due rule | extends `Cron` |
| `Startup` | `cmd/main.go`, `config.go`, `store.Open` and `migrate`: secret, legacy move, opening, migration | one step per file operation or SQL statement; SQLite's log and checkpoint are external |
| `Documents` | `server/settings.go`, `server/files.go` in a process that starts and dies as `Startup` says | extends `Startup` and `Tables` |
| `DomainResolver` | the operator of `processor/script.go` and the pools, the race and the cache of `resolver.go` | every goroutine is a process; a step ends at a channel, mutex, wait group, the network or the unlocked map |
| `Nodes` | `model.Proxy`, and lines as records of a type, an address, positional fields and options | values are members of small sets; tables relate options and fields |
| `Surge`, `Loon`, `Qx` | producer and parser of the Surge (and Surfboard), Loon and Quantumult X lines | one operator per function of the source |
| `Normalize` | `parser/clash.go`, `parser/normalize.go`, `producer/produce.go` | |
| `Conversion` | `ParseText` with its registry and hint, and the producers' loop, in turns | extends the four above |
| `Operators` | `processor/processor.go`: every filter, sort, rename, flag and duplicate operator | an operator returns the set of its possible outcomes |
| `Pipeline` | downloads, share links, collections and "Add Proxies" as a stack of conversions | extends `Operators` |
| `MC...` | instances for TLC | names, request bodies, symmetry sets |
| `Lemmas` | nothing of the code: induction and recursion in a form the proofs can use, and what the statements of `Tables` keep | see section 5 |
| `...Proofs` | theorems and lemmas for the module of the same name; `CatalogProofs` for `Subscriptions`, `Collections` and `Catalog` | see section 5 |

**Correspondence.** In `Subscriptions`, `h[p]` is where process `p` (an HTTP
handler or the scheduler's goroutine) is and what it holds: `pc` names its next
statement, `key` the row it will write to, `rec` the document, `position`/`pos`
the end of the list and the position read for it. `handleCreateSub`,
`handlePatchSub`, `handleUpdateSub` and `handleDeleteSub` are the requests up to
their first database read, with every check that answers 4xx as a guard (a
refused request changes nothing and is not a step). `DupCheck`, `RenameTx`,
`DeleteTx`, `UpsertPos`, `UpsertSub`, `FetchLive` and `SaveCache` are the
statements that follow; `DBError` is the failure of one of them. `tick` lists
the table, `tickNext` looks at the next row of that list. `Restart` forgets
everything but the tables. A document keeps the fields the handlers decide on.
Its snapshot (`cachedContent`) is represented by the link it was fetched from:
that is what `ServesOwnLink` is about.

In `Collections`, the loop that rewrites references (list all documents, then
upsert every one that refers to the name, *under the name in the document*) runs
inside a transaction and is one step, `WriteBack`; the details that make the
loop hazardous (two names, several writers of one row, rows that get added) are
kept.

In `ShareTokens`, `d[c]` is a download with the copy of the token it read;
subscriptions and collections go through `check`, `convert`, `charge`
(`share.Resolve`), files through `check`, `consume`, `getFile`
(`CheckAndConsume`, then the file), both then through `answer`, where the content
is sent or, with the process or the client gone (`Restart`, `Abandon`), is not.
`produced` counts conversions that came to a text and `served` answered downloads;
both are read only by properties. `/download` and the raw file route accept a share token
too, but only read it, so they are not steps.

In `RateLimiter`, `allow`, `reset` and a cleanup pass hold the mutex and are one
step each; between `allow` and `reset` or `loginFails` a worker is in
`handleLogin`. `last`, `allowed` and `asked` are history: the last answer, the
requests let through at each instant and not forgiven, and the requests of the
present instant.

In `Cron`, an expression is a record of five sets of terms, a schedule the record of
the five sets `Parse` builds; `NextMatch` is `Next` with the scan of the minutes
replaced by "the earliest minute that matches before the limit". In `CronRunner`,
`run` is where the goroutine is (`start`, `wait` for the ticker, `pass`, `fetch`,
`save`), with the instant `at` its pass began; `listed` and `todo` are the rows of
that pass, `last` is `Runner.last`. Time passes only while the goroutine waits for a
tick or for a download. `table` holds only the schedule of each subscription that is
remote and has a link; a handler's step on it is `Edit`. `unsaved`, and `refreshed`,
the pass of the last refresh that succeeded, are read only by properties; `last` is
set by a failed download too, as in the code. `Subscriptions` models the same passes
with their effect on the documents and leaves open which rows are due: the two views
share the code, and each keeps what its properties are about.

In `Startup`, `disk` holds the database files by program name and suffix ("db" for
the main file, "shm", "wal"). A file's content is its schema version, tables and
documents; a commit goes to the `-wal` file and a checkpoint copies it into the main
one, so that a move which leaves the log behind loses exactly the commits not yet
copied. `pc` walks through `main`: the secret (`ReadSecret`, `GenerateSecret`,
`CreateSecretFile`, `FillSecretFile`, the file being created before it is filled),
the two stats (`StatNew`, `StatLegacy`) and three renames of `migrateLegacyDB`,
`OpenDatabase`, `migrate` with its transaction `tx`, `serving`. `Crash` is enabled
at every step, and a system call may fail where the code goes on or gives up
(`Fault`): a stat that fails is a missing file, as in the code. `sessions`,
`committed`, `unsaved` and `stranded` are history, the last one for a legacy
database of which files were left behind. `Documents` adds the handlers: `r[p]` is
like `h[p]` of `Subscriptions`.

In `DomainResolver`, `st[r]` is the goroutine of conversion `r` (`Collect` the
domains, hand them out, wait, `WriteBack`), `wk[r]` its workers, `race[r]` the pool
of custom servers inside a worker. An address carries the domain and record type it
was asked for, and what kind of answer it is: an IPv4 or IPv6 address, an IP4P one
with a usable port or without, other text, nothing. Providers that answer in DNS
wire format (`Wire`) give addresses of the type asked for, as `decodeDNSAnswers`
drops the others; the text of the rest is passed on as it comes. The workers write
the map `results` without a lock: a write is two steps, and two that overlap lose
one answer or end the process (`fatal`), as the Go runtime may do either.

In `Nodes` a node is a function from dotted field names to values. `Emit` and `Read`
evaluate the tables that the producers' `appendIfPresent` calls and the parsers'
option switches are; whatever is not a plain entry of such a table (errors,
defaults, conditions, positional fields) is an operator with the name of its Go
function. A parser returns a set of nodes, empty for an error. Values that are
converted (ports with `/`, `,` or `;`, bandwidths, ALPN lists, ciphers in capitals,
names with `=`) are converted by tables over the values the instances use. What
stands by position is a sequence of fields, each in quotes or not; a comma cuts one
in two and an `=` makes the parsers take it for an option, and on Loon, where it is
in quotes, swallow the options behind it (`Swallows`). `Conversion` runs a document
through `ParseText` line by line, asks for a target, produces, and reads the result
as the next subscription, up to `MaxHops` times; every line carries the node it was
written from.

In `Operators` a name is a sequence of words, since what the operators ask of a
name is which words are in it; an operator returns a set of outcomes, with more
than one for a shuffle, and an error or a panic where the code has one. The rule
of a Conditional Filter, a tree in the code, is the sequence of the tree's nodes,
children first. In
`Pipeline`, `stack` is the Go call stack of one request: a frame per conversion
with the operators left, the nodes so far and the place its result goes to. `Fail`
unwinds to the nearest member of a collection, a panic to the request
(gin's recovery), an overflow of `MaxDepth` ends the process. `Meaning` is the
reference: a recursive reading of the catalog without stack, frames or unwinding.
It gives the outcomes of each source by the room there is for further conversions,
since that is what ends a circle: a source for which there is no room comes to
`Crashed`. `Asks` and `Acyclic` say on the records alone which sources refer to
which.

## 3. Runs

| Run | Module, cfg | Result | Shows |
| --- | --- | --- | --- |
| `subscriptions` | `MCSubscriptions`, `MCSubscriptions.cfg` | pass | two handlers and the scheduler on two names, with creations at both ends, edits of every field, type switches, renames, refreshes, deletions, failures, restarts |
| `subs_clobber` | `MCSubscriptions`, `MCSubsClobber.cfg` | violation | a refresh writes back the record it read before the download and undoes an edit, although a comment says the cache write "doesn't clobber concurrent field edits" |
| `catalog` | `MCCatalog`, `MCCatalog.cfg` | pass | two handlers of subscriptions and the scheduler: references stay exact against concurrent edits, renames and deletions of collections, and collections stay whole when a subscription to rename is gone |
| `share_tokens` | `MCShareTokens`, `MCShareTokens.cfg` | pass | two downloads, two tokens, every type and kind of validity |
| `share_tokens_race` | `MCShareTokens`, `MCShareTokensRace.cfg` | violation | a token with one use is answered twice: check and increment are not atomic |
| `limiter` | `MCRateLimiter`, `MCRateLimiter.cfg` | pass | refinement of the quota, and the number of requests let through |
| `cron_runner` | `MCCronRunner`, `MCCronRunner.cfg` | pass | two schedules among three kinds, edited, listed and saved with errors, while downloads fail or make passes overrun the ticker |
| `documents` | `MCDocuments`, `MCDocuments.cfg` | pass | a new or a legacy database in three conditions, two crashes and a failing call anywhere (stats and renames included), two requests at a time for settings and files |
| `dns` | `MCDomainResolver`, `MCDomainResolver.cfg` | pass | conversions alone with a race of three servers, and in pairs on one cache, with different providers, record types, times to live and filters |
| `conversion` | `MCConversion`, `MCConversion.cfg` | pass | nodes of sixteen protocols with the options the formats treat differently, to four targets and back, twice |
| `surge_downgrade` | `MCConversion`, `MCSurgeDowngrade.cfg` | violation | a node whose transport or obfuscation Surge does not have is written without it, although a comment says such nodes "return an error [...] and are skipped" |
| `pipeline` | `MCPipeline`, `MCPipeline.cfg` | pass | two subscriptions and two collections with every operator and every way to pull a source in, downloads and share links, fetches that fail, deletions, lists with ten duplicates |

Each finding is in `PROJECT.json` with the comment or document it contradicts.
Each property of a passing run has a mutant: a plausible bug in a mapped
definition under which TLC reports that property.

**Bounds, and why they are enough.**

* `PosBound` bounds list positions both ways. It is larger than the number of
  insertions a behaviour can make, so that no insertion is ever disabled by it.
* `MaxRequests` = 3 and `MaxColRequests` = 3: three requests on two names are what
  the interesting cases take (create, edit, and a third that overlaps the edit);
  scheduler passes and restarts are not bounded. Two handlers and the scheduler give
  every pair of actors that share a row. `catalog` has one handler of collections:
  two of them meet on one row as two of subscriptions do, and the transactions that
  rewrite references are steps of the others.
* Names: two usable ones and one with a slash. A third usable name adds no case to a
  rename.
* Request bodies are small sets with one body for each branch of the validation and
  of the merge.
* `MaxTime` bounds the clocks; it leaves room for two windows of the limiter and for
  a token to expire before, between and after the statements of a download.
  `MaxServed` bounds conversions and answered downloads per token above every limit
  used, and `MaxAsked` the requests of an address at one instant above the limit.
* The instance of the limiter has a window of 2 ticks and a limit of 2, with two
  ticks to a second so that the rounding of the waiting time happens; the code's 10
  per 15 minutes and 120 per minute differ in size only, and the theorem covers
  every value.
* The scheduler's instance has minutes of two ticks, so that passes begin in the
  middle of a minute, hours of three minutes, and days of an hour; the schedules are
  "every minute", a range, and one with a step that restricts both the day of the
  month and the weekday. Three and a half minutes (`MaxTime` = 7) hold a pass of two
  downloads, the dropped tick and a pass after it. `MaxEvents` = 2 edits, restarts
  and database errors. `Horizon`, the four years `Next` looks ahead, is longer than
  the clock runs: a process up for four years without a refresh of a name is left
  out, and it is the only use of that bound. Deadlock is not checked in this run:
  the clock of the instance ends, and the goroutine waits for a tick that does not
  come.
* `documents`: two crashes are one during a start and one during the start that
  repairs it; a third finds nothing the second did not leave. One failing system
  call shows each error path. Two requests overlap in every pair of statements. The
  legacy databases are one without a schema version and with tables missing, one
  complete with its last commit only in the log, one without a log.
* `dns`: the sets of `MCTogether` are the smallest in which each thing happens:
  three servers with two asked at a time (a worker that sends after the race is
  over), two domains through one worker, two workers on one map, two runs that share
  an entry, and two that must not. Two ticks (`MaxTime`) let an entry expire between
  any two uses. `MaxAnswers` = 2: an answer has up to two kinds of address, which is
  what it takes for nodes of one domain to get different ones. Deadlock is not
  checked, as everything ends.
* `conversion`: documents of one or two lines, two being what a hint takes; two
  hops, the second to any target. The option values are one of each kind a condition
  in the source asks about; user names and passwords are plain, with a comma, or
  with an `=` behind a text that is no option's key. Credentials that hold quotes,
  and ALPN lists on a line that has a secret with `=`, are not in the instance.
* `pipeline`: lists of two to four nodes, one or two operators per source, so that
  each operator runs on its own output once more (subscription, then collection),
  and one list with ten duplicates, for a counter of two digits. `MaxDepth` = 5 is
  deeper than any nesting of the four sources without a circle, so that only a
  circle should reach it, which `AnswersMatchReference` then says it does; the
  theorem needs no more than `MaxDepth` above the number of sources. `MaxEdits` = 1
  deletion during a request. Which sources are out of reach is fixed for a request,
  where in the code each fetch may end differently.

**Symmetry.** Handlers (`MCSubscriptions`, `MCCatalog`), downloads (`MCShareTokens`) and
workers (`MCRateLimiter`) are interchangeable: no definition names or orders
them. All properties checked there are safety properties.

**Fairness.** Four modules assume some, always weak fairness of steps the program
takes by itself, never of clients, of the clock or of errors.

* `CronRunner`, of its goroutine: a goroutine that can run is run by the Go
  scheduler, and a download ends because its context has a deadline of 60 seconds
  (`runner.go:95`); the model lets time pass during a download for no longer than
  that. `PassesEnd` rests on it.
* `Documents`, of the steps of a start (`Boot`): whatever supervises the process
  starts it again, and a start goes on unless it is killed. Crashes and failing
  calls are bounded in number, which stands for "they come to an end".
  `EventuallyServes` rests on it.
* `DomainResolver`, of the goroutines of each run; a query ends at its timeout
  at the latest. `EverythingEnds` rests on it.
* `Pipeline`, of the steps of a conversion; a fetch ends at the timeout of its
  context. `ConversionsEnd` rests on it.

## 4. Findings and known deviations

`subs_clobber` and `share_tokens_race` are one pattern: a whole document is read,
something happens, and the whole document is written. The proofs show what
survives it: because each stale copy was itself well-formed when it was read, what
is stored is always well-formed, only not always new. `surge_downgrade` is an error
that is dropped (`surge.go:327`) and a lookup that only finds maps
(`surge.go:513`, `getMapNested`).

The passing properties leave out, and name, what the code is known not to do:

* *Stale references.* A PATCH of a collection writes back the list it read
  before a subscription was deleted or renamed (`collections.go:108`), so the name
  that `subs.go:216` removes from every collection can come back.
* *Padded names.* `handleCreateSub` trims the name for the row and stores and
  refreshes under the untrimmed one (`subs.go:64`): the first snapshot of " a" goes
  to a second row. Collections are the same. `KeyMatchesRecord` is checked, and
  `CleanNamesMatch` proved, for clients that send trimmed names.
* *base_path.* The kind of a share link is read off the beginning of the route
  (`download.go:77`), where the prefix is: links of collections and files are then
  refused.
* *First pass of the scheduler.* A name that never ran in the process is judged
  one minute back (`runner.go:88`); what fired earlier during a long pass is lost.
  `NothingLeftDue` is about names that ran before. A pass that could not save a
  snapshot has the same effect on a name that never ran.
* *Failed refreshes.* The comment at `runner.go:24` calls `last` the time of the last
  *successful* refresh, but `runner.go:100` sets it after a failed download too: the
  firing is passed over, and the subscription serves its old snapshot until the next.
  `NothingLeftDue` exempts names whose download has failed since their last refresh
  (`refreshed`), and `NewFiringEachTime` counts a failed download as a refresh.
* *A use without an answer.* The counter is charged (`resolve.go:173`) before the
  content is sent (`download.go:121`); a kill or a vanished client in between costs the
  use. `OnlyConversionsCost` is therefore about texts produced, not answers received.
* *A legacy database moved in part.* A crash or an error between the renames of a legacy
  database leaves its log behind for good (`main.go:29`), and an error of `os.Stat`
  counts as a missing file (`main.go:21`, `25`): a new, empty database then hides the
  legacy one from every later start, although the comment at `main.go:16` promises that
  deployments keep their data. `CommittedDataServed` and `AcknowledgedSettingsKept` exempt
  exactly these (`stranded`).
* *Answers that are no addresses.* What Ali, Tencent and IP-API answer is not looked at:
  a CNAME or an address of another type (`resolver.go:541`, `564`), or an empty string
  (`resolver.go:587`), is cached as a success and becomes the node's server, which is
  marked as resolved, although the comment at `resolver.go:432` speaks of IPs.
  `OwnFreshAddress` asks these providers for the domain, the question and the time to
  live only, not for the kind of answer.
* *Overlapping PATCHes of the settings* lose the older one (`settings.go:27`);
  `AcknowledgedSettingsKept` exempts the keys of which another request held a copy.
* *Circles of sources* overflow the stack and end the process
  (`add_proxies.go:61`); `AnswersMatchReference` has it as the outcome of a circle,
  and of nothing else; *an empty NOT rule* panics (`processor.go:355`), which
  ends the request even inside a member that may fail.
* *Flags.* `tw=ws` puts on a flag that `getFlag` does not know, so the operator
  adds another each time it runs; of two flags each run removes one.
* *Share links of a subscription* run the token's operators instead of its own,
  and their nodes carry no `_subName`.

What `RoundTrip` exempts (`Losses`), by target:

| Lost | Where |
| --- | --- |
| `udp=false` on Loon lines; `udp` of AnyTLS, TUIC, Hysteria 2, TrustTunnel and Surfboard Snell lines | written only when on, or not at all |
| UDP over TCP on Surge and Surfboard | no option is written |
| transports other than WebSocket, and REALITY, of Trojan on Surge | `surgeTrojan` drops the error of `handleSurgeTransport` |
| obfuscation of Snell on Surge | `surgeSnell`, `getMapNested` |
| REALITY (when no network is named) and Shadow-TLS of AnyTLS on Surge and Surfboard, Shadow-TLS of any node on Surfboard | not written |
| Shadow-TLS of nodes other than Shadowsocks on Loon and Quantumult X | the formats have it for Shadowsocks only |
| a Shadow-TLS version that is not given, on Surge | read as 2 |
| TLS over the HTTP transport on Quantumult X | `qxAppendTransport` writes `obfs=http` |
| the VMess cipher on Quantumult X and Surfboard, and `none` on Surge | written as another one, or read as `auto` |
| `alterId` on Loon | not written |
| `disable-sni` but on Surge | written as a server name |
| user name and password of HTTP and SOCKS5 on Surfboard and Loon, when the first of them has an `=` | written bare by position (`surfboard.go:314`, `329`), taken for an option by `surge.go:154` and `loon.go:200` |
| every option of an HTTP or SOCKS5 node on Loon whose password has an `=` too | the closing quote is taken for an opening one (`surge.go:801`), so that the options become part of the field; SOCKS5 loses TLS, HTTP keeps it in its type |
| a Trojan or AnyTLS password with `=` on Loon | the line, when nothing follows the password, is one for Surge's parser too, which drops the field |
| that a password is missing, on Loon and Quantumult X | written as an empty one |
| the Host of an HTTP transport without TLS read from Loon | `normalize.go:262` writes over it |

Lines that cannot be read again (`EveryLineReadBack`): a comma in a user name or
password on Surge, Surfboard or Loon; an `=` in a name on Loon; an `=` in a
secret by position, on Loon of any type (the keys of the 2022 ciphers, which are Base64,
among them) and on Surfboard of HTTP and SOCKS5; a user without a password, or a
password without a user, on Loon and Surfboard, where both stand by position.

## 5. Proofs

Assumptions: the named `ASSUME`s of the modules (`PosBoundAssumption`,
`SubsAssumptions`, `TokensAssumptions`, `LimiterAssumptions`, `KeysAssumption`,
`CronAssumptions`, `RunnerAssumptions`, `StartupAssumptions`, `ColsAssumptions`,
`CatalogAssumptions`, `DocumentsAssumptions`, `DnsAssumptions`,
`PipelineAssumptions`): the constants have their types, the scheduler is no handler,
collections refer to subscriptions by the names rows can have, "" is no URL and no
client address, trimming neither adds nor removes a slash, every minute of the
calendar has values within the bounds of the fields, and the clock ends before the
four years `Next` looks ahead, and a database an older build left is one: its files
have the shape of database files, and its tables are complete if its version says
so. Every run of the domain resolver has at least one worker, one concurrent query
and one server, and the IP-API provider is asked for IPv4 only. The stores a request
may find have finitely many sources, fewer than the conversions the goroutine's
stack holds (a Go stack grows to a gigabyte), and lists of operators that are lists.
TLC evaluates all of them.

Some theorems have a further hypothesis, which they state: `CleanNamesMatch`, that
clients send trimmed names (`CleanNames`); the theorems about references, the same
of collections (`CleanCols`); `AloneWithinCount`, that downloads do not overlap and
are of files; `OwnAddress`, that no node claims to be resolved when the operator
begins (`FreshNodes`). The instances of the runs satisfy `CleanCols` and
`FreshNodes`.

* **`CatalogProofs`, subscriptions.** `TypeOK`, `SubsWellFormed` and `ServesOwnLink`
  are not inductive: a step writes the record a process holds. The invariant `Inv`
  therefore says of *every* record, stored, listed by the scheduler or held by a
  process, that it is well-formed and that its snapshot, if it has one, came from
  its own link; of a held record only when the process is about to write or fetch.
  `CreatedGood`, `PatchedGood` and `RefreshedGood` show that the computations
  produce such records, `UpsertGood`, `RenameGood` and `DeleteGood` that the
  statements keep tables of them; the induction is then one case per action.
  `OrderIsStable` and `NoRowLost` are action properties from the order lemmas of
  `Lemmas` and `Inv`. `CleanNamesMatch` adds that, when clients send trimmed
  non-empty names, the record a process will write names the row it will write to.
* **`CatalogProofs`, collections.** `CatalogImplementsSubscriptions` is a refinement
  without a mapping: `CatSpec => Spec`, since the joint transactions do to the
  subscriptions what the steps of `Subscriptions` do. All theorems above therefore
  hold of the catalog. The rewrite of references is a loop over the rows that
  upserts every changed document under the name *in the document*; it can only be
  exact if that is the row's own name, which is `ColInv` (of the rows, and of what
  handlers of collections are about to write). `WriteBackInPlace` shows that the
  loop then writes each changed document to its own row and nothing else, from which
  `ReferencesFollowRenames`, `ReferencesEndWithDeletes` and
  `TransactionsKeepCollections` follow, for any number of collections, handlers and
  references, repeated ones included.
* **`ShareTokensProofs`.** The counter is written from a copy, so `Inv` speaks of
  the copies: one that will be charged has a use left (`HasUseLeft`), and for
  subscriptions and collections shows no more uses than conversions came to a text,
  and fewer once its own has. `CounterWithinLimit`, `FailedConversionsAreFree` and
  `RevocationIsFinal` follow for any number of concurrent downloads.
  `AloneWithinCount` is the positive side of the race: if downloads do not overlap
  and the tokens are for files, a token is answered at most `count` times. Its
  invariant `PaidInv` says that a copy to be charged equals the stored token and
  that a charged download not yet answered leaves the counter ahead of the answers.
  For subscriptions it does not hold even without concurrency, since `Resolve`
  ignores an error of the write that charges.
* **`RateLimiterProofs`.** `TypeCorrect`, and `LimiterIsQuota`: `Spec` implements
  `WindowQuota`. The mapping shows a key's window while it is open and nothing once
  it is over, which makes cleaning up invisible; every other step is an abstract
  step (`AllowIsAsk`, `FailIsLogin`, `ResetIsLogin`, `AdvanceIsTime`,
  `RestartIsRestart`). Types are the only invariant it needs. How many requests get
  through is a matter of sums over time. `SumOver` is a difference of prefix sums,
  and the lemmas about them (a request adds one, parts add up, a part is no more
  than the whole) come from `Lemmas`. `LimitInv` says of each key that there is a
  set of instants at which windows began, no two closer than a window, which between
  them cover every request let through, each with at most `Limit`; and that the
  visitor in the map, if there is one, is the last of them and its counter covers
  it. The set survives in the proof what the map forgets: a visitor that was cleaned
  up, or replaced. `OpenWindowIsLimited` is the last window; `AnyWindowIsLimited`
  holds because a stretch as long as a window meets at most two. `WaitingIsEnough`
  needs only `LastInv`: the window of the client answered last, if it is still in
  the map, ends when that answer said.
* **`CronRunnerProofs`.** `DueFires` shows what the due rule computes: it holds
  exactly when the schedule has a firing after the last refresh and up to the
  beginning of the pass, whatever the calendar. It needs that the earliest match
  exists (`EarliestExists`, from the well-foundedness of the naturals). `Inv` then
  says of a running pass that every row it is done with is served, and of a row
  being refreshed that it had a firing since its last refresh; `NeverTwice` and
  `PassServesAll` follow. Edits and restarts may happen at any step of a pass.
* **`DocumentsProofs`.** A step of `Documents` does to the variables of `Startup`
  one of a few things (`StartupStep`): a step of the start, a failure, a crash, a
  commit of some documents. Four invariants are shown one after the other, for any
  number of crashes, failing calls and requests and any legacy databases.
  `SecretInv`: a process generates a secret only when there was none to read, and
  then nobody holds a token; one that is past that point has the secret the next one
  will read. This gives `SecretSurvives`. `DiskInv`: every file has the content of a
  database, and the migration's transaction has the tables created so far, which
  gives `SchemaComplete`. `DataInv` says where the committed documents are while no
  file of a legacy database was left behind: still under the old name
  (`StillLegacy`), with the main file moved and the log behind (`HalfMoved`, only
  between the renames), or in the files that are opened (`AllMoved`), and in the
  migration's transaction too. This gives `CommitsServed`. `AckInv` relates the
  documents to what clients were told: the committed document, and every copy a
  PATCH is about to write, has the acknowledged value of each key that no other
  PATCH holds, which gives `SettingsKept`. For `DocumentsTypeCorrect` and
  `FilesStayInOrder`, `TypesInv` adds to `SecretInv` and `DiskInv` the documents of
  every file (`DocsInv`: the rows of a table have distinct ids below the next one),
  the counters (`BoundsInv`) and the requests in flight (`HandlersInv`). Order needs
  the distinct ids: two rows inserted with one position are ordered by id, which
  `UpsertTable`, `RenameTable` and `DeleteTable` of `Lemmas` keep.
* **`DomainResolverProofs`.** For any number of conversions, domains, workers and
  servers. `TypeInv` and `ResolverInv` are one inductive invariant
  (`ResolverInvariance`), with a part for each thing that is shared. `CacheInv`: an
  entry holds answers to the question its key stands for. `TaskInv`: a domain is
  handed to one worker. `RaceInv`: what was sent, read and discarded in a race, with
  the reader at the first success or past failures only. `AnswerInv`: the answer a
  worker carries belongs to its task and was fresh when taken. `UseInv` follows
  every domain from the list through its worker to the map or to the failed ones
  (`FateOf`), with the exception of an overlapping write. `FirstSuccess`,
  `NoAnswerLost` and `OwnAddress` follow.
* **`PipelineProofs`.** `AnswersAreRight` is `Spec => []AnswersMatchReference` for
  any stores, operators, failing fetches, requests and depth, circles included. The
  code is a stack machine and the reference a recursion, so the invariant `Inv` ties
  each frame to a place in the recursion. Deletions change the catalog under a
  request, so it speaks of the store `c` the request found (`Serving`): the catalog
  has records of `c` only, and nothing changed while `edits` is 0. `Walk` says what
  holds with deletions too: the k-th frame is a conversion of a source of `c`, with
  the rest of that source's operators and members left to do (`Stands`), and it
  waits for the frame above it, which is its current member or the source of its
  current operator, with its result going where that operator says (`Waits`).
  `Right` says it of the nodes, without deletions: the list of the innermost frame
  is among the outcomes of what it has done so far, that of a frame below among
  those before the one it waits for (`Holds`, with `Treated` and `InOrder` for the
  two recursions and `Below` for the outcomes of sources with one place less on the
  stack). `Passed` is the core of the induction: an outcome of what a frame waits
  for gives an outcome of the frame. By `TreatedSticky` and `InOrderSticky` an
  error, a panic or an overflow goes on through the operators and members that are
  left, by `Down` from frame to frame, stopping only where a member's error is
  passed over; so what `Fail` does by unwinding to the last member, in one step, is
  what the recursion does level by level (`FailedMember`, `FailedRequest`).
  `Resumed` is the return of a value. There is one lemma for each action. That the
  stack suffices without a circle is a matter of counting: from the second frame on
  (the first may run a share link's operators) each frame's source is asked for by
  the one below (`WaitsForAsked`). A stack of `MaxDepth` frames that asks for one
  more holds some source twice, and each source between the two asks for another of
  them (`LongChain`), which `Acyclic` excludes (`UsedUp`). This part needs only
  `Walk`, and so holds when sources are deleted.
* **`Lemmas`.** The theorems about induction in the library take an operator, which
  the provers here cannot instantiate. Stated about *sets* of naturals they need no
  parameter: `EarliestExists` (a non-empty set has a least element), `InductionUpTo`
  (a set with 0 and closed under successor up to n holds all of 0..n), and from
  these `RecursionExists`, that a function given by its steps on 0..n exists. They
  give what the filter loop of `Lists`, the prefix sums of the limiter and the
  recursions of the pipeline's reference compute. The other half of the module is
  what the statements of `Tables` keep: types, names, distinct ids, order.

**Only model-checked.** `PassesEnd`, `EventuallyServes`, `EverythingEnds` and
`ConversionsEnd` are liveness under fairness, which this prover does not do.
`OperatorContracts` says what filters, sorts and renames compute on every list: an
induction over lists for each operator, through `SelectSeq`, sorting and
`FlattenSeq`, which the provers have no theory of. `AnswersAreRight` holds whatever
these operators compute, as it needs only that an outcome is a list, an error or a
panic (`RunOutcomes`). `RoundTrip`, `EveryLineReadBack`, `Settles` and `HintHarmless`
are about what the tables of the formats compute on given nodes: with the tables'
contents being finite data, TLC evaluates them, and a proof would only expand them.
Every other property of a passing run is stated by a theorem.

## 6. Plan

1. `AloneWithinCount` for tokens of subscriptions and collections, under the hypothesis
   that the writes that charge do not fail.
2. Facts of `Conversion` that do not hang on the tables: a document's order of lines,
   and that a node a producer refuses is never in the output.
3. Parsers of URIs against the producer of URIs, in the form of `Conversion`.

## 7. What is not modelled, and why

* The producers of whole documents (Clash and its relatives, sing-box, Egern,
  Stash), URIs in both directions and the XHTTP helpers: each translates one node
  into one map, field by field and without state. The four line formats are
  modelled because there two tables have to agree. Characters, escapes and
  Base64: a line is a record of its fields.
* The script operators, which run the user's own JavaScript. HTTP and DNS on the
  wire, JWT signatures: I/O and cryptography without state.
* The EDNS subnet of a DNS query, which is no part of the cache's key.
* Bodies with fields of a wrong JSON type, and bodies that carry a snapshot: the
  web client never sends one (`web/src/views/Subs.vue`), and the handlers have no
  rule for it. Fields of a document that no handler decides on (operators, icons,
  remarks) travel with the document unchanged.
* Two concurrent transactions: the store has one connection
  (`SetMaxOpenConns(1)`), so a transaction is atomic to every other process.
* Whether a schedule is due is left open in `Subscriptions` (any scheduled row
  may be refreshed in any pass), which covers every rule; `CronRunner` has the rule.
* The time a pass takes outside of downloads.
* Reads (lists, previews, downloads without a token) change nothing.
* The web frontend.
