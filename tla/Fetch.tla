------------------------------- MODULE Fetch --------------------------------
(***************************************************************************)
(* internal/fetch: concurrent GetWithMeta calls over one shared cache and  *)
(* one shared singleflight group, as the HTTP server issues them (one      *)
(* Client per /sub request, Cache and Group injected).                     *)
(*                                                                         *)
(* A call looks its URL up in the cache, then joins the flight of that URL *)
(* or starts one, and waits for its result or for its own context to end.  *)
(* A flight runs in a goroutine of its own, under a deadline of its own:   *)
(* it looks in the cache again, asks the origin (with retries), has        *)
(* FlareSolverr solve a challenge and replays the request, stores a        *)
(* success and lands, answering everyone who joined it.                    *)
(*                                                                         *)
(* The origin's content is a version number that only grows, so that an    *)
(* older answer can be told from a newer one.                              *)
(***************************************************************************)
EXTENDS Integers, FiniteSets

CONSTANTS
  Calls,         \* the GetWithMeta calls, each made at most once
  Urls, NoEntry, TTL, MaxEntries,   \* see CacheOps
  Options,       \* what a call may ask for: a subset of CallOptions
  Replies,       \* what the origin may answer: a subset of ReplyKinds
  Faults,        \* what may go wrong: a subset of FaultKinds
  Solver,        \* whether a FlareSolverr endpoint is configured
  MaxRetries,    \* Options.MaxRetries: New makes 0 the default 2
  MaxVersion,    \* bound on the versions of a URL's content
  MaxClock       \* bound on the cache's clock

\* nocache: CacheTTL < 0 in New, the client has no cache.  flush: the handler
\* flushes the shared cache before it makes the call (&flushcache=1).
CallOptions == [url : Urls, nocache : BOOLEAN, flush : BOOLEAN]

\* 403 stands for itself and for 503, 404 for every other failure status.
\* "challenge" is a body with one of the interstitial's markers in it.
ReplyKinds == [status : {200, 403, 404},
               body : {"content", "empty", "challenge"}]

\* network: a connection fails or breaks.  deadline: the flight's context
\* ends.  solver: FlareSolverr refuses or cannot be reached.  hangup: an HTTP
\* client goes away before its call returns.
FaultKinds == {"network", "deadline", "solver", "hangup"}

ASSUME FetchAssumption ==
  /\ IsFiniteSet(Urls)
  /\ Options \subseteq CallOptions
  /\ Replies \subseteq ReplyKinds
  /\ Faults \subseteq FaultKinds
  /\ Solver \in BOOLEAN
  /\ MaxRetries \in Nat \ {0}
  /\ TTL \in Nat \ {0}
  /\ MaxEntries \in Int
  /\ MaxVersion \in Nat
  /\ MaxClock \in Nat

\* What a fetch returns.
Response == [status : {200, 403, 404},
             body : {"content", "empty", "challenge"},
             version : Nat]

NoResponse == [status |-> 0]
Failed == [status |-> 1]      \* an error returned by fetchDirect
Gone == [status |-> 2]        \* ctx.Err(): the caller went away

ASSUME NoEntryAssumption ==
  NoEntry \notin [body : Response, expires : Nat]

INSTANCE CacheOps WITH Bodies <- Response

VARIABLES
  entries, clock,   \* the shared cache (see Cache)
  origin,           \* the version of its content each URL serves now
  pc,               \* where each call is
  opt,              \* what each call asks for
  canceled,         \* the calls whose context has ended
  answer,           \* what each call returned
  flight,           \* singleflight.Group: the flight of each URL
  barrier,          \* history: the version each URL had at its last flush
  copy,             \* history: the version of each URL stored last
  note              \* history: what was true when each call was made

vars == <<entries, clock, origin, pc, opt, canceled, answer, flight,
          barrier, copy, note>>

\* client: the call whose closure the flight runs.  attempt: the iteration of
\* do's loop.  expired: flightCtx has ended.  got: the last response read, in
\* the end what the flight returns.
Flight == [phase : {"check", "direct", "solve", "replay", "store", "land"},
           client : Calls,
           attempt : 0 .. MaxRetries,
           expired : BOOLEAN,
           got : Response \cup {NoResponse, Failed}]

NoFlight == [phase |-> "none"]

\* asked: the version of the URL when the call was made.  seen: the newest
\* one a call had been answered with by then.  flushed: barrier by then.
\* led: the call started the flight it waited for.
Note == [asked : Nat, seen : Nat, flushed : Nat, led : BOOLEAN]

UrlOf(c) == opt[c].url

\* Whether the client of call c was built with a cache.
Caching(c) == ~opt[c].nocache

InFlight(u) == flight[u].phase # "none"

Init ==
  /\ entries = EmptyCache
  /\ clock = 0
  /\ origin = [u \in Urls |-> 0]
  /\ pc = [c \in Calls |-> "idle"]
  /\ opt \in [Calls -> Options]
  /\ canceled = {}
  /\ answer = [c \in Calls |-> NoResponse]
  /\ flight = [u \in Urls |-> NoFlight]
  /\ barrier = [u \in Urls |-> 0]
  /\ copy = [u \in Urls |-> 0]
  /\ note = [c \in Calls |-> [asked |-> 0, seen |-> 0, flushed |-> 0,
                              led |-> FALSE]]

-----------------------------------------------------------------------------
(* The calls.                                                              *)

\* The newest version of u some call has been answered with, or 0.
SeenVersion(u) ==
  LET seen == {answer[c].version :
                 c \in {d \in Calls : UrlOf(d) = u /\ answer[d] \in Response}}
  IN  IF seen = {} THEN 0
      ELSE CHOOSE v \in seen : \A w \in seen : w <= v

\* Mutant of FlushCache: only the expired entries are dropped.
FlushExpired ==
  /\ entries' = Without(entries, Stored(entries) \ Live(entries, clock))
  /\ barrier' = [u \in Urls |-> IF InFlight(u) THEN barrier[u]
                                              ELSE origin[u]]

\* Cache.Flush; barrier moves for the URLs nobody is fetching meanwhile.
FlushCache ==
  /\ entries' = EmptyCache
  /\ barrier' = [u \in Urls |-> IF InFlight(u) THEN barrier[u]
                                              ELSE origin[u]]

\* handleSub up to the conversion: &flushcache=1 takes effect at once.
Arrive(c) ==
  /\ pc[c] = "idle"
  /\ IF opt[c].flush THEN FlushCache ELSE UNCHANGED <<entries, barrier>>
  /\ note' = [note EXCEPT ![c] = [asked |-> origin[UrlOf(c)],
                                  seen |-> SeenVersion(UrlOf(c)),
                                  flushed |-> barrier'[UrlOf(c)],
                                  led |-> FALSE]]
  /\ pc' = [pc EXCEPT ![c] = "lookup"]
  /\ UNCHANGED <<clock, origin, opt, canceled, answer, flight, copy>>

\* GetWithMeta's own look in the cache.
Lookup(c) ==
  /\ pc[c] = "lookup"
  /\ IF Caching(c) /\ Hit(entries, UrlOf(c), clock)
       THEN /\ answer' = [answer EXCEPT ![c] = entries[UrlOf(c)].body]
            /\ pc' = [pc EXCEPT ![c] = "done"]
       ELSE /\ pc' = [pc EXCEPT ![c] = "join"]
            /\ UNCHANGED answer
  /\ entries' = IF Caching(c) THEN AfterGet(entries, UrlOf(c), clock)
                              ELSE entries
  /\ UNCHANGED <<clock, origin, opt, canceled, flight, barrier, note, copy>>

\* group.DoChan: join the flight of the URL, or start it with this call's
\* client, whatever the two clients have in common: nocache and &proxy= are no
\* part of the key.
Join(c) ==
  /\ pc[c] = "join"
  /\ pc' = [pc EXCEPT ![c] = "wait"]
  /\ IF InFlight(UrlOf(c))
       THEN UNCHANGED <<flight, note>>
       ELSE /\ flight' = [flight EXCEPT ![UrlOf(c)] =
                            [phase |-> "check", client |-> c, attempt |-> 0,
                             expired |-> FALSE, got |-> NoResponse]]
            /\ note' = [note EXCEPT ![c].led = TRUE]
  /\ UNCHANGED <<entries, clock, origin, opt, canceled, answer, barrier,
                 copy>>

\* The context of a call ends: its HTTP client hung up.
Cancel(c) ==
  /\ "hangup" \in Faults
  /\ pc[c] \in {"lookup", "join", "wait"}
  /\ c \notin canceled
  /\ canceled' = canceled \cup {c}
  /\ UNCHANGED <<entries, clock, origin, pc, opt, answer, flight, barrier,
                 note, copy>>

\* The ctx.Done() branch of the select.
GiveUp(c) ==
  /\ pc[c] = "wait"
  /\ c \in canceled
  /\ answer' = [answer EXCEPT ![c] = Gone]
  /\ pc' = [pc EXCEPT ![c] = "done"]
  /\ UNCHANGED <<entries, clock, origin, opt, canceled, flight, barrier,
                 note, copy>>

-----------------------------------------------------------------------------
(* The flights.                                                            *)

IsCloudflareChallenge(r) == r.status \in {200, 403} /\ r.body = "challenge"

Fly(u, phase, got) ==
  flight' = [flight EXCEPT ![u].phase = phase, ![u].got = got]

\* Mutants of CheckHits: no second look; a look whatever the client.
NeverHits(u) == FALSE
HitsAnyway(u) == Hit(entries, u, clock)

CheckHits(u) == Caching(flight[u].client) /\ Hit(entries, u, clock)

\* The closure's second look in the cache.
Check(u) ==
  /\ flight[u].phase = "check"
  /\ IF CheckHits(u) THEN Fly(u, "land", entries[u].body)
                     ELSE Fly(u, "direct", NoResponse)
  /\ entries' = IF Caching(flight[u].client) THEN AfterGet(entries, u, clock)
                                             ELSE entries
  /\ UNCHANGED <<clock, origin, pc, opt, canceled, answer, barrier, note,
                 copy>>

\* Mutants of ContextOver: WithTimeout of the leader's own context;
\* WithoutCancel and no timeout at all.
ContextOfLeaderOver(u) ==
  flight[u].expired \/ flight[u].client \in canceled
ContextNeverOver(u) == FALSE

\* Whether flightCtx is over: its own deadline is the only thing that ends it.
ContextOver(u) == flight[u].expired

\* Mutant of Unusable: only 403 and 503 are refused.
UnusableIfForbidden(r) == r.status = 403

Unusable(r) == r.status # 200

\* Only the response to the direct request is looked at.
Challenged(u, r) == flight[u].phase = "direct" /\ IsCloudflareChallenge(r)

\* fetchDirect, the request answered: what becomes of a direct response and
\* of a replayed one.
Reply(u) ==
  /\ flight[u].phase \in {"direct", "replay"}
  /\ ~ContextOver(u)
  /\ \E kind \in Replies :
       LET r == [status |-> kind.status, body |-> kind.body,
                 version |-> origin[u]]
       IN  \/ Challenged(u, r) /\ Solver /\ Fly(u, "solve", r)
           \/ Challenged(u, r) /\ ~Solver /\ Fly(u, "land", Failed)
           \/ ~Challenged(u, r) /\ Unusable(r) /\ Fly(u, "land", Failed)
           \/ ~Challenged(u, r) /\ ~Unusable(r) /\ Fly(u, "store", r)
  /\ UNCHANGED <<entries, clock, origin, pc, opt, canceled, answer, barrier,
                 note, copy>>

\* Mutant of RetriesLeft: the test of the loop is made after the increment.
RetriesLeftAndOne(u) == flight[u].attempt <= MaxRetries

RetriesLeft(u) == flight[u].attempt < MaxRetries

\* An iteration of do's loop fails; after the last one fetchDirect gives up
\* or, on the direct request, turns to FlareSolverr.
AttemptFails(u) ==
  /\ flight[u].phase \in {"direct", "replay"}
  /\ "network" \in Faults \/ ContextOver(u)
  /\ IF RetriesLeft(u)
       THEN flight' = [flight EXCEPT ![u].attempt = @ + 1]
       ELSE IF flight[u].phase = "direct" /\ Solver
              THEN Fly(u, "solve", NoResponse)
              ELSE Fly(u, "land", Failed)
  /\ UNCHANGED <<entries, clock, origin, pc, opt, canceled, answer, barrier,
                 note, copy>>

\* solveCloudflare returns cookies, and the request is replayed with them.
Solve(u) ==
  /\ flight[u].phase = "solve"
  /\ ~ContextOver(u)
  /\ flight' = [flight EXCEPT ![u].phase = "replay", ![u].attempt = 0]
  /\ UNCHANGED <<entries, clock, origin, pc, opt, canceled, answer, barrier,
                 note, copy>>

SolveFails(u) ==
  /\ flight[u].phase = "solve"
  /\ "solver" \in Faults \/ ContextOver(u)
  /\ Fly(u, "land", Failed)
  /\ UNCHANGED <<entries, clock, origin, pc, opt, canceled, answer, barrier,
                 note, copy>>

\* The timer of flightCtx fires.
Deadline(u) ==
  /\ "deadline" \in Faults
  /\ flight[u].phase \in {"direct", "solve", "replay"}
  /\ ~flight[u].expired
  /\ flight' = [flight EXCEPT ![u].expired = TRUE]
  /\ UNCHANGED <<entries, clock, origin, pc, opt, canceled, answer, barrier,
                 note, copy>>

\* Mutant of Cacheable: empty bodies are cached too.
CacheableIfCaching(u) == Caching(flight[u].client)

Cacheable(u) == Caching(flight[u].client) /\ flight[u].got.body # "empty"

\* The cache stores r for u.
Keep(u, r) ==
  /\ entries' \in AfterSet(entries, u, r, clock)
  /\ copy' = [copy EXCEPT ![u] = r.version]

\* Mutant of Store: each caller stores what it was answered with, after the
\* flight has landed.
StoreByCallers(u) ==
  \/ /\ flight[u].phase = "store"
     /\ Fly(u, "land", flight[u].got)
     /\ UNCHANGED <<entries, clock, origin, pc, opt, canceled, answer, barrier,
                    note, copy>>
  \/ /\ \E c \in Calls :
          answer[c] \in Response /\ UrlOf(c) = u /\ Caching(c) /\ Keep(u, answer[c])
     /\ UNCHANGED <<clock, origin, pc, opt, canceled, answer, flight, barrier,
                    note>>

\* maybeCache: the status is 200 here.
Store(u) ==
  /\ flight[u].phase = "store"
  /\ IF Cacheable(u) THEN Keep(u, flight[u].got) ELSE UNCHANGED <<entries, copy>>
  /\ Fly(u, "land", flight[u].got)
  /\ UNCHANGED <<clock, origin, pc, opt, canceled, answer, barrier, note>>

\* Mutant of Joined: the call that started the flight is the only one.
JoinedOnlyByLeader(u) == {c \in Calls : pc[c] = "wait"} \cap {flight[u].client}

Joined(u) == {c \in Calls : pc[c] = "wait" /\ UrlOf(c) = u}

\* singleflight's doCall: under the group's lock the key is deleted and the
\* result sent to every call that joined.
Land(u) ==
  /\ flight[u].phase = "land"
  /\ answer' = [c \in Calls |-> IF c \in Joined(u) THEN flight[u].got
                                                   ELSE answer[c]]
  /\ pc' = [c \in Calls |-> IF c \in Joined(u) THEN "done" ELSE pc[c]]
  /\ flight' = [flight EXCEPT ![u] = NoFlight]
  /\ UNCHANGED <<entries, clock, origin, opt, canceled, barrier, note, copy>>

-----------------------------------------------------------------------------
(* The rest of the world.                                                  *)

\* GET /flushcache.
FlushRequest ==
  /\ FlushCache
  /\ UNCHANGED <<clock, origin, pc, opt, canceled, answer, flight, note,
                 copy>>

\* The origin changes what it serves.
Publish(u) ==
  /\ origin[u] < MaxVersion
  /\ origin' = [origin EXCEPT ![u] = @ + 1]
  /\ UNCHANGED <<entries, clock, pc, opt, canceled, answer, flight, barrier,
                 note, copy>>

Tick ==
  /\ clock < MaxClock
  /\ clock' = clock + 1
  /\ UNCHANGED <<entries, origin, pc, opt, canceled, answer, flight, barrier,
                 note, copy>>

CallStep(c) == Arrive(c) \/ Lookup(c) \/ Join(c) \/ Cancel(c) \/ GiveUp(c)

FlightStep(u) ==
  \/ Check(u) \/ Reply(u) \/ AttemptFails(u) \/ Solve(u) \/ SolveFails(u)
  \/ Deadline(u) \/ Store(u) \/ Land(u)

Next ==
  \/ \E c \in Calls : CallStep(c)
  \/ \E u \in Urls : FlightStep(u) \/ Publish(u)
  \/ FlushRequest
  \/ Tick

Spec == Init /\ [][Next]_vars

(* A goroutine that can run does run, a timer that is set fires, and an    *)
(* I/O call whose context is over returns.  Nothing is assumed of the      *)
(* origin, of FlareSolverr or of the HTTP clients.                         *)
Fairness ==
  /\ \A c \in Calls : WF_vars(Lookup(c)) /\ WF_vars(Join(c))
  /\ \A u \in Urls :
       /\ WF_vars(Check(u))
       /\ WF_vars(Deadline(u))
       /\ WF_vars((AttemptFails(u) \/ SolveFails(u)) /\ ContextOver(u))
       /\ WF_vars(Store(u))
       /\ WF_vars(Land(u))

FairSpec == Spec /\ Fairness

-----------------------------------------------------------------------------
(* Properties.                                                             *)

TypeOK ==
  /\ entries \in Caches
  /\ clock \in Nat
  /\ origin \in [Urls -> Nat]
  /\ pc \in [Calls -> {"idle", "lookup", "join", "wait", "done"}]
  /\ opt \in [Calls -> Options]
  /\ canceled \subseteq Calls
  /\ answer \in [Calls -> Response \cup {NoResponse, Failed, Gone}]
  /\ flight \in [Urls -> Flight \cup {NoFlight}]
  /\ barrier \in [Urls -> Nat]
  /\ copy \in [Urls -> Nat]
  /\ note \in [Calls -> Note]

Answered(c) == answer[c] \in Response

(* No thundering herd: a flight whose client has a cache contacts the      *)
(* origin only while the cache has nothing readable for its URL, however   *)
(* the calls, the flights and the flushes interleave (fetch.go, the second *)
(* look in the cache inside the singleflight closure).                     *)
FillsOnlyOnMiss ==
  \A u \in Urls :
    /\ flight[u].phase \in {"direct", "solve", "replay", "store"}
    /\ Caching(flight[u].client)
    => u \notin Live(entries, clock)

(* Everyone who waits has somebody to wait for: the flight of its URL is   *)
(* in progress, so a result will be sent (fetch.go, DoChan and the select).*)
WaitersHaveAFlight ==
  \A c \in Calls : pc[c] = "wait" => InFlight(UrlOf(c))

(* A call is answered with a 200 response or an error, never with an error *)
(* page or with the body of a failed attempt, and what is cached for those *)
(* who come later is such a response and not empty (fetch.go, fetchDirect  *)
(* and maybeCache).                                                        *)
OnlySuccesses ==
  /\ \A c \in Calls : Answered(c) => answer[c].status = 200
  /\ \A u \in Stored(entries) :
       entries[u].body.status = 200 /\ entries[u].body.body # "empty"

(* No call is answered with a Cloudflare interstitial (fetch.go,           *)
(* fetchDirect and isCloudflareChallenge).                                 *)
NoChallengeAnswered ==
  \A c \in Calls : Answered(c) => ~IsCloudflareChallenge(answer[c])

\* The abstraction: an answer is its version, an error, or none yet.
Promise ==
  INSTANCE Replica WITH
    wants <- [c \in Calls |-> UrlOf(c)],
    got <- [c \in Calls |-> CASE answer[c] = NoResponse -> -1
                             [] answer[c] \in Response -> answer[c].version
                             [] OTHER -> -2]

(* Nobody is ever answered with something older than what has been stored  *)
(* of its URL, cached, flushed, expired or evicted since, and what is      *)
(* stored never goes back: flights of a URL do not overlap and each stores *)
(* before it lands (fetch.go, the singleflight closure).                   *)
ImplementsReplica == Promise!Spec

(* Where every call uses the cache, reads are monotonic: none is answered  *)
(* with an older version than an answer given before it was made.          *)
MonotonicReads ==
  (\A c \in Calls : Caching(c)) =>
    \A c \in Calls : Answered(c) => answer[c].version >= note[c].seen

(* A flush that meets no flight of a URL is a barrier: what was cached     *)
(* before it is not served to a call made after it (cache.go, Flush).      *)
FlushIsBarrierWhenQuiet ==
  \A c \in Calls : Answered(c) => answer[c].version >= note[c].flushed

(* A nocache call that leads its flight is answered with what the origin   *)
(* served after the call was made (fetch.go, New with CacheTTL < 0).       *)
LeadingNoCacheIsFresh ==
  \A c \in Calls :
    Answered(c) /\ opt[c].nocache /\ note[c].led
      => answer[c].version >= note[c].asked

(* Clients that hang up hurt nobody else: when nothing but hanging up goes *)
(* wrong, every call whose own client stayed is answered with a response,  *)
(* even one that joined a flight whose leader left (fetch.go, the flight's *)
(* context is WithoutCancel of the leader's).                              *)
HangUpsAreIsolated ==
  \A c \in Calls : pc[c] = "done" /\ c \notin canceled => Answered(c)

(* Every call returns, though its origin never answers: the flight's       *)
(* deadline ends it and all who wait for it (fetch.go, WithTimeout).       *)
EveryCallReturns ==
  \A c \in Calls : pc[c] = "lookup" ~> pc[c] = "done"

-----------------------------------------------------------------------------
(* What the documentation says and the code does not do.                   *)

(* url-params: "nocache: bypass this request's TTL cache and force a       *)
(* refetch".  A nocache call joins a flight that asked the origin, or read *)
(* the cache, before the call was made.                                    *)
NoCacheForcesRefetch ==
  \A c \in Calls :
    Answered(c) /\ opt[c].nocache => answer[c].version >= note[c].asked

=============================================================================
