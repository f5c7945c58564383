# subconverter-ng in TLA+

`subconverter-ng` turns proxy subscriptions (lists of nodes in many formats)
into client configurations (Clash, Surge, Shadowrocket, Loon, QuanX, sing-box,
v2ray links), as an HTTP service or on the command line. This directory holds
TLA+ modules that model its core, TLC configurations that check them on small
instances, and theorems about them that TLAPS checks for every instance.

`PROJECT.json` lists components, runs, mutants, findings, hazards and theorems,
and maps every definition to the lines of Go it models. To run something:

    tlc -workers 2 -config Render.cfg MCRender     # one run
    tlapm Render_proofs.tla                        # one module of proofs

## 1. The system

| Component (Go) | State it keeps | Operations | Interacts with |
|---|---|---|---|
| Fetch cache (`fetch/cache.go`) | map URL -> body and expiry, TTL, capacity, one mutex | get, set, Flush | shared by all fetch clients; flushed by the server |
| Fetch client (`fetch/fetch.go`, `flaresolverr.go`) | one `Client` per request over a shared cache and a shared singleflight group | Get, GetWithMeta: look up, join a flight, retry, solve a challenge, replay, store | called concurrently by the conversion; calls origin servers and FlareSolverr |
| Rate limiter (`ratelimit/ratelimit.go`) | map key -> tokens and last time seen, time of the last eviction, one mutex | Allow, EvictStale | the server's middleware, one call per request |
| HTTP server (`server/server.go`) | limiter, cache, group, configuration | /sub, /flushcache, /healthz, web UI; authentication, client IP | builds one fetch client per request and runs the conversion under the request's context |
| Conversion pipeline (`convert/*.go`) | none between runs; result slices, WaitGroups within one | Run: two batches of concurrent fetches, external config, dispatch to a target | fetch client (through an interface), parsers, generators |
| Rule collection (`generator/common.go`) | semaphore, result slice | prepareNodes, uniquifyNames, collectRules | all generators; fetches rulesets concurrently |
| Target generators (`generator/{clash,surge,quanx,singbox,v2ray}.go`) | none | one Generate function per target family | prepareNodes, buildGroups, collectRules |
| External config (`extconfig/`) | none | Parse, ParseLine | conversion pipeline |
| Subscription parsers (`parser/`) | none | Parse: detect the format, parse line by line | conversion pipeline |
| Node model and emoji rules (`proxy/`, `emoji/`) | a node: name, type, server, field bag | Rename, Remove, Add | parsers, generators |
| Configuration (`config/`) | read once at start-up | Load, environment overrides, Validate, redaction | server, command line |
| Command line (`cmd/subconverter-ng`) | HTTP server lifetime; standard input | serve, convert, graceful shutdown | server, conversion |
| SSRF validation (`fetch/ssrf.go`), web UI (`web/`) | none | address checks; a static page | fetch client; browser |

### What is hard in it, and what makes each part correct

- *Fetch cache.* Expired entries are removed lazily, purged when the map is
  full, and only then a live one is evicted. It should be indistinguishable from
  an ideal TTL store, and bounded.
- *Fetch client.* Several requests share one flight, with its own deadline and
  the options of whichever call led it; flushes, `nocache`, hang-ups, retries,
  challenges and expiry interleave with it. Correct: no stampede, nobody waits
  for ever, nobody suffers from another client's hang-up, only successes are
  cached, and what is read never goes back in time.
- *Rate limiter.* The clock is read before the mutex is taken, and idle buckets
  are forgotten. Correct: no key exceeds burst plus rate, no key is worse off
  than with a bucket refilled at every instant.
- *Conversion.* Three batches of goroutines that may fail, be empty or be
  cancelled in any order. Correct: the output is what the request declares, in
  that order; the first error in declared order wins; optional sources cannot
  fail a run; no goroutine or semaphore slot is left behind; the run returns.
- *Generators.* Node names change four times while groups refer to nodes by
  name, and each family of targets drops nodes and references by its own rule.
  Correct: names distinct, references resolve, no group empty, filters and dedup
  lose no connection that was wanted.
- *Server and process.* A request passes authentication, the limiter, the
  parameter checks and the conversion, any of which may end it; whose tokens it
  spends depends on proxies and headers; a signal meets requests under way.
  Correct: a refused request has no effect, nobody spends another's tokens, a
  status tells what happened, what can be answered in time is, and everything
  ends.
- *Configuration.* Four layers with different ideas of "unset". Correct: each
  setting comes from the most specific layer that has one, and nothing the
  server cannot work with gets past `Validate`.
- *Parsers and writers.* A subscription's format is guessed, its lines are split
  and decoded by formats that quote little, and each format carries other fields.
  Correct: no node vanishes without a word, and no secret is swapped and no
  protection dropped on the way through any formats.
- *SSRF, UI.* Left out (section 7).

## 2. The modules

| Module | What it is |
|---|---|
| `CacheOps` | the cache's methods as operators on the map; used by the three below |
| `Cache` | the cache as a component: get, set, flush, time |
| `TTLStore` | the abstract store `Cache` implements |
| `Fetch`, `MCFetch` | concurrent `GetWithMeta` calls over one cache and one singleflight group |
| `Replica` | the abstract copy of the origins `Fetch` implements |
| `Buckets` | the limiter's buckets as operators; used by the two below |
| `RateLimit`, `MCRateLimit` | concurrent `Allow` calls, eviction, time |
| `Convert`, `MCConvert` | one `convert.Run` to Clash with its concurrent batches |
| `Rules` | the lines of rulesets: which are rules, and which of those each target can express |
| `Render`, `MCRender` | from parsed nodes and rulesets to the nodes, groups and rules of each target |
| `Settings` | defaults, file, environment, backfill and `Validate` as operators |
| `Service`, `MCService` | the serve command from launch to exit, with its handlers and two clients |
| `Dialects` | one node written in a format and read back |
| `Documents` | documents of nodes: publishing, recognising and parsing them |
| `Chain`, `MCChain` | conversions that feed each other |
| `Cache_proofs`, `Fetch_proofs`, `RateLimit_proofs`, `Convert_proofs`, `Render_proofs`, `Service_proofs`, `Chain_proofs` | the theorems |
| `LeastNumbers` | least and greatest elements of sets of numbers, by which the proofs do induction |

`Fetch` composes the cache (`INSTANCE CacheOps` with responses as bodies) with
the flights. `Convert` and `Render` share the boundary "list of nodes": `Convert`
treats a subscription's nodes as one token and decides which of them reach the
generator and in what order, `Render` starts with the nodes themselves. They
share the rulesets in the same way: `Convert` decides which rulesets arrive and in
what order, `Render` (which extends `Rules`) what becomes of their lines. `Service`
extends `Settings` and `Buckets`, so that the limits and switches its handlers go
by are those that come out of the layers; a conversion is there only the rounds
of fetches it waits for, which end because `Fetch` and `Convert` show that they
do. `Chain` extends `Documents`, which extends `Dialects`, and closes the loop
between the generators and the parsers.

### Cache, CacheOps, TTLStore
Every method of `Cache` holds `Cache.mu` from the first line to the last, so each
is one atomic operator of the map and the clock. `set` returns a *set* of maps:
which of several entries that expire first is evicted is up to Go's map order.
`set` reads the clock twice (for the purge and for the expiry); the two reads
are taken as one. `TTLStore` has entries that vanish by themselves; the
refinement mapping `Readable` hides the expired ones still in the map.

### Fetch
A call goes `idle -> lookup -> join -> wait -> done`; a flight goes `check -> direct
[-> solve -> replay] -> store -> land`. Each step is what the code does between two
points where others may run: the caller's look in the cache, DoChan, the select, the
closure's second look, an attempt of `do`'s loop, the FlareSolverr request,
`maybeCache`, and singleflight's delivery. An origin's content is a version number
read when the reply is read; the body is content, empty, or has a challenge's
marker. History variables (`barrier`, `note`, `copy`) record what was true when a
call was made, and the newest version stored of a URL. `Replica` is what is left
when flights, time and flushes are forgotten: a copy of each origin that only moves
forward, and answers no older than it; the mapping takes `copy` and `origin` as they
are and an answer to its version. Abstractions: the flight's deadline is an event
(`Deadline`) that may come at any time after the second look, because the timeout of
one attempt and of the flight are configured with the same value; several URLs of
one `/sub` are several calls; a server-wide `cache_ttl < 0` is every call `nocache`;
the proxy, the body-size limit, redirects, cookies and SSRF checks are left out.
`fetch.go:166` rewrites `Cache.ttl` without the lock, always with the value it has.

### RateLimit
`ReadClock` is `Allow` up to the mutex; `AdmitNew` and `Spend` are the two paths
under it (`AdmitNew` includes the scan for stale buckets); `EvictStale` is the
exported method. Tokens are integers in units of which a request costs `Cost` and
a tick refills `Rate`, so that rates that are not whole tokens are covered;
rounding of floats is not. History: `granted`, `born`, `touched`, `skew` (time
set back by calls that overtook each other), `used` (the clock when a call of the
key last held the mutex, which `lastSeen` may be behind) and `ideal` (a bucket
refilled at every tick).

### Convert
`Run`'s own steps (`Start` to `FetchBase`) alternate with the goroutines of the
batch under way (`Acquire`, `Abandon`, `Finish`). A source replies with an error,
with nothing usable, or with content; a source that cannot be parsed counts as
failed; a share link is parsed in place and cannot fail. A source may also be `-`,
the standard input of the convert command, whose `cliFetcher` has two fields and no
lock: `ReadStdin` is the test of `stdinRead` and the read, `KeepStdin` the two
assignments, `ReturnStdin` the return of the field, which another goroutine may have
set since; `ReuseStdin` is the other outcome of the test. The element of the result
slice that a goroutine writes (`Slot`) also takes the `Subscription-Userinfo` that
came with the reply (`KeepHeader`), of which `Run` passes on the first. A list of
nodes is the sequence of sources it came from (each a batch and a number), which
`Gathered` appends one by one as the loops of `Run` do. The Clash generator stands
for all targets, which share `collectRules`. The Tailscale rules, the names of
rule-providers and what becomes of a line are left to `Render`.

### Render
One step per iteration of a loop over nodes, groups or lines of rulesets. The filter
passes look at one node at a time and are fused into one loop (dedup, the last of
them, sees what the others left). A name is a record: type prefix, emojis, a word,
and the numbers `uniquifyNames` appends; a regular expression is a word found in it.
What is kept: order of the passes, stable sort on the names as they came, type
prefix -> emoji removal -> renames -> emoji, numbering, which types each target can
express (read off the case labels of the node renderers), group resolution, the
three different rules for references that dangle, the DIRECT fallbacks and the
diagnostics. What is left out: CR/LF in names, the fields of nodes, member order.
`DIRECT` and `REJECT` are spelled alike for every target. The rules are those that are
generated: a `clash_rule_base` with rules of its own, which may replace them
(`clash.go:208-219`), is `FinalRules` of `Convert`, where it is fetched.

The rules come last (`Rendered` to `Ruled`): the rules of Tailscale, taken as one,
then the lines of each ruleset in the order of the config. A line has a type, a
value and a number of fields; `Rules` says which lines `parseInlineRule` and
`parseRemoteRuleset` take for rules, maps the aliases of `normalizeRuleType` and has
the table of types of each target. `EmitRule`, `EmitFinal` and `SkipLine` are the
branches of the formatters' loops, `NextRuleset` what `buildRuleProviders` does with
a remote ruleset. Parsing and formatting of a line are one step. Of a rule its
flag and its text are left out, case and space in types too. `HOST-WILDCARD`
counts as the suffix type it is normalised to.

### Settings, Service
`Settings` reduces a value to what becomes of it (`empty`, `blank`, `negative`,
`junk`, `bad`, `good`) and keeps the layer it came from, so that precedence can be
told from coincidence. `Loaded` is `Load`, `Refused` a case of `Validate` for each
setting; the address classes behind `allow_private_cidrs` are its `bad`. The list of
trusted proxies is parsed twice, by `Validate` and by `server.New`, which panics on
what it cannot parse; `Refused` and `Panics` are therefore written each from its own
code, over the parsers of `netip` (`ParsePrefix`, `ParseAddr`) and what trimming
leaves of an entry, with an entry that is an `address` rather than a CIDR and one that
is `padded` with white space. If `New` forgot one of them, or `Validate` took more than
`New`, `SettingsSound` would fail.

`Service` goes `loading -> loaded -> serving -> draining -> exit`; `Load`, `Start`
and the exits are the stretches of `cmdServe` between two points where a signal may
come. A request goes `authenticating -> limiting -> handling -> converting ->
replying`, one step per handler of the chain `Handler` builds, with the early
returns of each; the responses `late` (the connection's write deadline is over)
and `cut` (the process has gone) are ends too. `Handle` contains the whole of
`handleSub` up to the first fetch in its order: the missing URL, the flush, the
proxy, the target. A conversion waits for one round of fetches after the other
(subscriptions, inserts, the config, rounds of rulesets and of the rule base); a
round takes up to the fetch timeout. Time passes only while fetches are waited
for. The limiter's buckets are those of `Buckets`; `Allow` is one step here (its
overtaking is in `RateLimit`) and nothing is evicted (`MaxClock < TTL`).

### Dialects, Documents, Chain
A node is a type and the Clash fields it holds; a value is what some format tells
apart: a value of its own that has nothing special in it; with a comma (and behind it
a piece without an equals sign, `,skip-cert-verify=true` or `,password=`); that ends
in a bracket; with a colon, a slash or a percent escape in it; that begins like
`host:port/`; then what is left of these when they are cut or decoded, a flag, a
transport. Server and port belong to a node's identity, but for the server that a
share link is read with when a secret looks like one (the field `server`). `Dialects`
has a writer and a reader for the Surge family, sing-box and share links, with one
case per protocol of the Go switch. The keys each format spells a field with, and the
aliases its reader accepts, are left out, since writer and reader agree on them; their
order in a Surge line is kept (`SurgeOrder`), since it decides what the line ends in
and which of two parameters of one name counts.
`Documents` adds names, base64, the guess of the format, and comments and sections as
the Surge parser tells them: by the beginning and the end of a line, so that a node
line may be taken for a header (`Closes`).
`Chain` publishes, wraps and subscribes in turn, starting from nodes a Clash
document can hold. Loon and Quantumult X documents are not inputs of the program
and end a chain, so they are not part of one; `hysteria`'s `up` and `down` are taken
to be numbers, and in the run Reality comes with TLS, as in every Clash node that
works. The loops of the generators and parsers that take some of their nodes or
lines are `Picked`, the positions taken in their order. `ChainAssumption` says what
the nodes of a Clash document are: fields of their type with the values listed,
identities in the order of the document, server names without a comma, which no
host has, and ciphers (of SSR the protocol and obfs too) with nothing in them that
separates, as these have a vocabulary of their own.

## 3. The runs

Each run takes about a minute or less on two workers.

| Run | Question | Bounds |
|---|---|---|
| `Cache` | `TypeOK`, `WithinCapacity`; the map implements `TTLStore` | 3 URLs for 2 places, 2 bodies, TTL 2, clock to 5: full, expired and evicting maps all occur |
| `FetchFresh` | `FillsOnlyOnMiss`, `FlushIsBarrierWhenQuiet`, `LeadingNoCacheIsFresh`, `MonotonicReads`, `HangUpsAreIsolated`; the calls implement `Replica` | 3 calls (leader, joiner, latecomer) of every option for 1 URL, 1 new version, 1 tick (an entry expires), hang-ups |
| `FetchFaults` | `TypeOK`, `WaitersHaveAFlight`, `OnlySuccesses`, `EveryCallReturns` | 2 calls, 2 URLs for 1 place, one reply of each kind or none at all, all faults, one retry |
| `RateLimit` | `TypeOK`, `UnitsAccounted`, `CreditNotLost`, `IdleClientsForgotten` | 2 handlers, 2 keys, half a token a tick, burst 1, clock to 4 (past the eviction TTL) |
| `Convert` | `TypeOK`, `OutputAsDeclared`, `FailsForItsSubscriptions`, `SlotsAccounted`, `UserinfoOfFirst`, `EveryRunReturns` | 2 subscriptions, 2 inserts, any of them `-`, 3 remote rulesets for 2 slots, 1 inline one |
| `Render` | `TypeOK`, `NamesDistinct`, `ReferencesResolve`, `GroupsFollowNames`, `NoConnectionLost`, `RoutesKept`, `EveryRenderEnds` | 3 nodes of 5 whose names collide at different stages for all 7 targets; 4 nodes that end up with one name; every filter; 3 rulesets of 9 (3 of them remote, unknown types, ranges of ports, catch-alls) for all 7 targets, inlined or by provider |
| `Service` | `TypeOK`, `SettingsSound`, `StatusTellsTruth`, `OwnTokensOnly`, `NothingCutShort`, `EverythingEnds` | each setting with every pair of a file's and the environment's values; then two clients with one request each: tokens, peers and headers; parameters; conversions alone and two at a time. Burst 1, fetch timeout 2, grace 1, write timeout 5, clock to 6, 1 round of rulesets |
| `Chain` | `TypeOK`, `AllAccounted`, `Faithful`, `Settles` | every type with all its fields, without each of them, with each alone and with each special value; each kind of name beside a plain one; a node whose line is a section header, at once or after a hop, between two others; 3 conversions, 5 formats, whole documents and lists, up to 2 wrappings |
| `FetchNoCacheJoins`, `FetchReplayChallenged`, `RateLimitOvertaking`, `RenderSurgeGroups` | a statement of the repository the code does not keep (section 5) | the smallest instance that shows it |

Why the bounds are enough: the interesting cases of `Fetch` need a leader, one that
joins it and one that comes after it landed, hence three calls; expiry against a
fresh entry needs one tick with TTL 1. Overtaking in the limiter needs two handlers.
A semaphore with two slots and three jobs has a waiter, a holder and a finisher.
Four nodes reach the suffix probe twice in a row, including a candidate that is
another node's own name (`hk 2`). Three rulesets are enough for one URL named twice,
for two groups or for the same one, around a third ruleset. `MaxVersion`, `MaxClock`
and `MaxSources` are the bounds on otherwise unbounded counters; the theorems need
none of them small.

In `Service` the settings are looked at one at a time because `Load`, `Validate` and
the backfill treat them so. The write timeout of 5 is more than two rounds of
fetches and less than three, so that conversions come out on both sides of it, and
a grace of 1 is less than a round, so that shutdown meets a conversion it cannot
wait for. One bucket with a burst of 1 is spent by the first of two clients. In
`Chain` three hops reach each format from each other one and come back; what a
format does to a node does not depend on its other nodes but for their names and
places, for which two nodes are enough, and three where one closes the section.

`Faithful`, `AllAccounted` and `Settles` list what does get lost (section 5). Each
exemption is needed: without any one of them TLC finds a chain that violates the
property. They are tied to the values the node began with and to the formats it went
through, so that a loss of any other node, or in another format, is a violation.

`RoutesKept` compares where the output sends each kind of traffic with what a
reader of the config would expect of the lines the target can express. For it a
rule matches a set of traffic given by its value; how mihomo reads the list behind
a rule-provider is outside the repository, and taken to be as the code's own
reading. Its premise `CatchAllInPlace` leaves out configs it would be false of:
sing-box gets the group of the last catch-all as its final outbound and keeps the
rules after any of them, and a list behind a provider may hold a catch-all, which
`classical` lists do not have.

Deadlock is checked except in `Convert`, `Render`, `Service` and `Chain`, which
model one run, one process or one chain that ends. Every property has a mutant in
`PROJECT.json`: a plausible bug in a mapped definition under which TLC finds the
property violated.

### Fairness
- `Fetch`: goroutines that can run do run; a timer that is set fires; an I/O call
  whose context is over returns. Nothing is assumed of origin, solver or clients.
  The Go scheduler, `context.WithTimeout` and `net/http` give exactly this.
- `Convert`: `Run` and its goroutines go on when they can, and a fetch returns
  sooner or later, which is what `EveryCallReturns` says of the fetch client. Reading
  standard input is not fair: `io.ReadAll(os.Stdin)` (`main.go:149`) has neither a
  context nor a timeout, and `EveryRunReturns` excepts a run that waits in it for ever.
- `Service`: the process and each handler go on when they can, and a round of
  fetches ends (again `EveryCallReturns`). No request, signal or hang-up has to come,
  and no time has to pass unless something waits for it.
- `Render`: the loops run on.

## 4. What is proved

The theorems hold for every value of the constants that satisfies the named
assumptions (`CacheAssumption`, `FetchAssumption`, `NoEntryAssumption`,
`BucketsAssumption`, `RateLimitAssumption`, `ConvertAssumption`, `RulesAssumption`,
`RenderAssumption`, `ServiceAssumption`, `ChainAssumption`, which TLC evaluates in
the runs): any number of calls, URLs, sources, rulesets, nodes, clients or hops, any
bounds. No theorem
is taken on trust. `PROJECT.json` lists them; here is the argument of each module.

- `Cache_proofs`: `TypeOK`, `WithinCapacity`, and the refinement of `TTLStore`.
  `WithinCapacity` is inductive with the type invariant because `RoomFor` leaves a
  map below capacity; each of `Get`, `Set`, `Flush`, `Tick` is then shown to be a
  step of the store or a stutter under `Readable` (a purge is a stutter, since only
  expired entries go).
- `Fetch_proofs`: `TypeOK`, `OnlySuccesses`, `WaitersHaveAFlight`,
  `FillsOnlyOnMiss`. The inductive invariant is `Sound`: types; what a flight
  carries in each phase (`Delivering`); `OnlySuccesses`, of entries as well as of
  answers; and `Versions`, that what is cached is the newest version stored of its
  URL (`copy`), what a flight delivers is not older, and nothing is newer than what
  the origin serves. What a step can do to one URL and to one call is summed up
  once, as `UrlMove` and `CallMove`; `WaitersHaveAFlight`, `FillsOnlyOnMiss` and all
  that follows are shown from these two rather than from the actions.
  `Fetch` implements `Replica`, because a call is answered once (`Unanswered`) and
  every answer lies between `copy` and `origin`. `FlushIsBarrierWhenQuiet`,
  `MonotonicReads`, `LeadingNoCacheIsFresh` and `HangUpsAreIsolated` are about what is
  read. `Floor(u, v)` says that neither entry nor flight
  of u can give anything older than v; every step keeps it, whatever v is.
  A flush that meets no flight sets such a floor, which a call made later keeps
  with it (`Barriers`); so does, where all calls use the cache, every answer
  (`Landed`, `Reads`). `Leading` follows a `nocache` call through the flight it started.
  `HangUpsAreIsolated` is about instances where nothing but hanging up goes wrong,
  which is its hypothesis `OnlyHangUps`; `FetchFresh` is one of them.
- `RateLimit_proofs`: `TypeOK`, `UnitsAccounted`, `RateKeptInOrder`, `CreditNotLost`,
  `IdleClientsForgotten`. None of the properties is inductive. `Timely` says that no time
  that was read or stored is in the future; and that `touched` is the bucket's own
  `lastSeen`. With it the account of one key (`Balanced`) is kept by every step: a
  touch at time `now` moves the right-hand side by what it refills, an older `now`
  is made up for by `skew`, and a bucket old enough to be evicted would have been
  full. `RateKeptInOrder`, which no run checks any more, follows from it at
  `skew = 0`. `Credited` compares the bucket with the ideal one and treats a missing
  bucket as full. `IdleClientsForgotten` rests on `Scanned`: a bucket's `lastSeen` may be
  behind the time its key was last served, never ahead of it, so that a bucket that
  is kept belongs to a client served within the TTL of the last scan; and the call
  that lets a new client in either scans or came within an interval of that scan.
- `Convert_proofs`: `TypeOK`, `SlotsAccounted`, `UserinfoOfFirst`,
  `OutputAsDeclared`, `FailsForItsSubscriptions`. The inductive invariant `IInv`
  says how the goroutines, the semaphore and the result slices go together in each
  phase: which states a batch's goroutines may be in (`Working`), that slots taken
  are goroutines fetching (`Slotted`), that an element is written by the goroutine
  of its number and by no other (`Written`), and what standard input gives (`Heard`;
  a batch that names it once hears what it said). A batch is over only when all its
  goroutines are. `Headed` says that a subscription's header is at its own index and
  that the later batches leave it there, which gives `UserinfoOfFirst`. `Answered`
  then relates the results to what `Run` makes of them. That `Gathered` appends
  every source with content, once and in order, is shown by induction on the length
  of the slice.
- `Render_proofs`: `TypeOK`, `NamesDistinct`, `ReferencesResolve`, `NoGroupEmpty`,
  `NoConnectionLost`, `GroupsFollowNames`, `RoutesKept`. `Unique` strengthens
  `NamesDistinct`: while names are being made unique, the nodes done so far have
  distinct names and `seen` holds exactly those, and the names emitted are those of
  nodes already emitted. `Grouped` says the same of each finished group; `Followed`
  says that the groups done are those before the loop's index and that the names
  emitted are those the nodes now have and keep. `Kept` strengthens
  `NoConnectionLost`: of the nodes looked at so far, each wanted one has its
  connection among the nodes left, and the sort is a permutation. `RoutesKept`
  speaks of the last state; `Routing` makes it inductive over the lines: for each
  kind of traffic the rules written so far and the declarations read so far agree
  (`Agrees`), that is, either none of them takes it, or the first of each that does
  has the same group. A further rule and its declaration keep this (`MoreAgrees`); a
  rule-provider stands for all lines of its list, whose first match decides
  (`ProviderMatches`), and a provider that is there already has decided the same.
  `Catching` says the same of sing-box's final outbound; the traffic of Tailscale's
  own rules is decided by the first of them.
- `Service_proofs`: `TypeOK`, `SettingsSound`, `StatusTellsTruth`, `OwnTokensOnly`,
  `NothingCutShort`. The inductive invariant is `Typed`, `Configured` (the settings are
  those of the layers, from `loaded` on), `Ending` (what a process that ends has left
  of its requests), and for each client `Sound(c)`: which effects a request has had
  in each stage (`Told`), that the stage ahead is still open to it (`Coming`), that
  the rounds it has waited for are those it had to (`Counted`), and that the time
  since its start is at most what these rounds can take (`Timed`). A handler touches
  its own request alone, so that a step is shown for one client (`Advances`) and the
  others are framed out. TLC checked `IInv` on the constants of `Service` before it
  was proved.
- `Chain_proofs`: `TypeOK`, `AllAccounted`, `Faithful`, `Settles`, for lists of
  nodes of any length, every combination of fields and values, and chains and
  wrappings of any length. Fields are compared by the value each has (`Value`,
  `SameFields`). A table per format (`SurgeTable`, `SingboxTable`, `LinkTable`) says
  what each field of a node of each type holds once it was written and read; from it
  follows what a hop keeps (`Carried`) and that a hop of what a hop made changes
  nothing (`HopFacts`), if no VLESS node without TLS skips the verification of
  certificates (`Secured`). A value with a separator in it comes from the node's own
  (`Drawn`), so that what one does to another field is told of the node the chain
  began with. `Picked` takes its positions in order (`PickedFacts`, by the least
  length it would fail for), so that the lines of a published document that stand
  for nodes are known by place (`LinesFacts`), a Surge reader is in `[Proxy]` at
  exactly these, up to the first that closes it (`Shut`, `ProxySection`), and
  `Parse` either refuses the document or makes of its nodes the hop of those that
  come through (`ParseFacts`, `Takes`). None of the properties is inductive:
  `AllAccounted` and `Settles` speak of a document on its way, `Faithful` of the
  beginning of the chain. `IInv` therefore says that a document on its way is what
  the last dialect makes of the nodes at hand (`InFlight`), that nodes that came
  through a hop are not changed by another (`AllSettled`), and that each node is
  traced to one the chain began with (`Traced`), which is `Faithful` with one clause
  more: that a server name has left its field only if a hop through Surge or
  sing-box moved it, without which a later share link could not be excused. TLC
  checked `IInv`, with its quantifiers over fields bounded by the fields there are,
  on the constants of `Chain`.

Induction: the library's induction theorems take the claim as an operator, which
no installed prover can instantiate. Where a claim is about a loop or a list of any
length, the proofs look at the least number it would fail for (`LeastNumbers`).

Only model-checked: liveness (`EveryCallReturns`, `EveryRunReturns`,
`EveryRenderEnds`, `EverythingEnds`), which needs fairness and ENABLED, out of the
prover's reach. Every other property of the runs that pass is a theorem.

## 5. Where code and words disagree

1. `nocache` and flights (`FetchNoCacheJoins`): flights are keyed by URL alone,
   so a `nocache` call is answered with a response, or even a cache entry, read
   before it was made. (The same key makes a call with `&proxy=` share the fetch
   of a call with another proxy; the model leaves proxies out.)
2. Replayed challenge (`FetchReplayChallenged`): the response to the replay is
   judged by its status only; an interstitial sent with status 200 is cached and
   returned as the subscription.
3. Overtaking (`RateLimitOvertaking`): a call with an older time sets `lastSeen`
   back, and the span is refilled twice. `UnitsAccounted` bounds the damage.
4. Surge groups (`RenderSurgeGroups`): `formatSurgeGroup` drops references to
   other groups, which its comment says it keeps.

Noted while reading, without a run: a flush does not stop a flight that has read
the origin from storing afterwards (`FlushIsBarrierWhenQuiet` therefore speaks of
quiet URLs only); a ruleset that cannot be fetched becomes an empty one without a
word (`OutputAsDeclared` describes it); with a zero rate an evicted key gets a
new burst; with FlareSolverr configured any failed request goes to it, not only
challenged ones; a line of a remote ruleset with four fields or more (a compound
rule) is neither a rule nor reported (`SkipLine`); with two catch-alls sing-box
follows the last one, the other targets the first; protocol and deprecation filters
run after the check for an empty list, so that an output may have no node at all (its
groups still get a builtin member).

Settings and process: `listen: ""` in the file is refused even if `--listen` is
given, since `Load` validates before the flag is looked at; an explicit 0 for
`requests_per_minute`, `burst` or `timeout`, from the environment too, becomes the
default; the write deadline is fixed at 4 minutes while `fetch.timeout` is
configurable and the rounds of rulesets (16 at a time) are not bounded, so a
conversion may be ready too late (`NothingCutShort` has the condition); `flushcache`
takes effect before a bad `proxy` is refused (`StatusTellsTruth` leaves it out); an
unsupported target is answered with 424 like a failed fetch; after the first
signal later ones have no effect; conversions that take longer than 10 s are cut
at shutdown.

Formats, as `Chain` has them:

- The TLS of a socks5 node is lost in every format, without a word.
- The server name of a vmess or vless node is lost, or replaced by the host of its
  WebSocket, in a share link made after a Surge or sing-box document, or of a Clash
  node that has it as `sni`: those readers fill `sni`, `v2ray.go:72` and `:96` look at
  `servername`.
- A password with `/`, `?` or `#` in a trojan, hysteria2 or tuic link, and a
  WireGuard key with a slash, make the link unreadable (it is reported), as does a
  closing bracket; a colon in a trojan or hysteria2 password or a vless uuid cuts it,
  one in a tuic uuid makes what is behind it the password. The userinfo is written as it
  is and decoded when read: a password `p%40ss` comes back as `p@ss`. One of hysteria2
  that begins like `host:port/`, or such a WireGuard key, becomes the server, and the
  secret is gone, without a word.
- A comma in a value cuts it in a Surge line; of a socks5 password the rest may
  become the user name. A rest with an equals sign in it is a parameter like any
  other (`surge.go:140`): `x,skip-cert-verify=true` turns verification off,
  `x,password=y` replaces the password, both without a word.
- Any Surge line between brackets is a section header (`surge.go:80`): of a node
  whose name begins with `[` and whose last value ends with `]` the line closes
  `[Proxy]`, and that node and all behind it vanish without a word.
- Shadowrocket lines lose the uuid of a tuic node, Surge lines the obfs of a
  hysteria2 node; the cipher of vmess becomes `auto`.
- A name that begins with `#`, `;` or `//` turns its Surge line into a comment,
  without a word; one with an equals sign makes the line unreadable; one that
  begins with `proxies:` makes the document a Clash document, which is then
  refused; plus signs become blanks in most links, which are unescaped twice.
- http links and WireGuard lines are written but not read (reported); a document
  wrapped twice in base64 is one skipped line.

## 6. Plan

Modelled first: the fetch layer with its cache, the limiter, the pipeline and the
generators; then the service with its settings, standard input, and the formats.
Proofs of all safety properties followed, in the same order. What could come next:

1. `Convert` and `Service` composed, so that a conversion's rounds of fetches are
   those of `Convert` rather than a number.
2. Documents of other programs as the beginning of a chain (SSR's and anytls' links,
   snell and custom lines), which needs their readers in `Dialects`.

## 7. Not modelled, and why

- SSRF validation classifies addresses, sequentially and without state; the web
  page builds a URL in the browser; redaction rewrites text.
- `extconfig.Parse` and the flags of the convert command turn text into the inputs
  that `Convert` and `Render` take as they come.
- In the parsers: decoding of base64, JSON and YAML, percent-escapes beyond what
  section 5 lists (one in a password is valid, and stands for one character),
  documents of other programs (snell and custom lines of Surge, SSR's and anytls'
  links as others write them). In the writers: the node lines of Loon and Quantumult
  X beyond their types, CR/LF in names.
- Regular expressions and the tables of emoji.
- The clock of one flight: its deadline is an event that may come at any time, so
  that FlareSolverr's 90 s inside a context of 30 s is covered, but not how long
  anything takes.

TLC has nothing to explore there that a unit test would not reach.
