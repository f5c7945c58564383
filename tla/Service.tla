------------------------------- MODULE Service -------------------------------
(***************************************************************************)
(* The HTTP service: cmd/subconverter-ng's serve command, from its launch  *)
(* to its exit, with the settings it comes up with (Settings), the chain   *)
(* of handlers of internal/server, the limiter's buckets (Buckets) and the *)
(* conversions under way when a signal arrives.                            *)
(*                                                                         *)
(* Each client sends at most one request.  What a conversion does is in    *)
(* Convert and what the limiter does with calls that overtake each other   *)
(* in RateLimit; here a conversion is the fetches it waits for one after   *)
(* the other, and Allow is one step, with nothing evicted.                 *)
(***************************************************************************)
EXTENDS Settings, Buckets, Sequences

CONSTANTS
  Clients,
  ProxyAddr,     \* the address that trusted_proxies lists, if it lists any
  Runs,          \* the launches to look at, with their requests
  Timeout,       \* the good value of fetch.timeout
  Grace,         \* how long Shutdown waits
  WriteTimeout,  \* http.Server's WriteTimeout, from the end of the header
  MaxRuleWaves,  \* bound on the rounds of ruleset fetches of a conversion
  MaxClock       \* bound on the clock

Public == {"version", "healthz", "readyz", "web"}

\* tokens: the token of the query, of Authorization and of X-API-Token.
\* remote: the peer's address; xff, xrip: what its headers say.
Request ==
  [path : Public \cup {"sub", "flushcache"},
   tokens : [1 .. 3 -> {"none", "wrong", "right"}],
   remote : Keys, xff : Keys \cup {"none"}, xrip : Keys \cup {"none"},
   url : {"missing", "separators", "given"}, flush : BOOLEAN,
   proxy : {"none", "public", "private", "unparsable"}, supported : BOOLEAN,
   insert : {"unset", "on", "off"}, config : BOOLEAN]

NoRequest == [path |-> "none"]

\* file: what --config leads to.  listen: the --listen flag.
Run == [file : {"document", "missing", "malformed", "unreadable"},
        entry : [Fields -> STRING], var : [Fields -> STRING], listen : STRING,
        request : [Clients -> Request \cup {NoRequest}]]

ASSUME ServiceAssumption ==
  /\ \A r \in Runs :
       /\ \A f \in Fields : r.entry[f] \in FileValuesOf(f)
                            /\ r.var[f] \in EnvValuesOf(f)
       /\ r.listen \in ValuesOf("listen") \cup {"absent"}
       /\ \A c \in Clients : r.request[c] \in Request \cup {NoRequest}
  /\ ProxyAddr \in Keys
  /\ {Timeout, Grace, WriteTimeout} \subseteq Nat \ {0}
  /\ MaxRuleWaves \in Nat
  /\ MaxClock \in Nat /\ MaxClock < TTL

VARIABLES
  launch,     \* how the process was launched, and what it will be asked
  process,    \* what the process is doing, or how it ended
  cfg,        \* the settings
  clock,
  signaled,   \* when the signal arrived
  buckets,    \* the limiter's buckets
  stage,      \* how far each request has come
  accepted,   \* when its header was read
  waves,      \* the rounds of fetches its conversion has yet to wait for
  waveAt,     \* when the current one began
  status,     \* the status of its response
  effects,    \* history: what it did besides being answered
  waited      \* history: how many rounds of fetches have ended

requestVars == <<stage, accepted, waves, waveAt, status, effects, waited>>
vars == <<launch, process, cfg, clock, signaled, buckets, requestVars>>

Running == {"loading", "loaded", "serving", "draining"}
Exits == {"killed", "fatal", "panicked", "graceful", "forced"}
Ends == {"answered", "gone", "late", "cut"}

Init ==
  /\ launch \in Runs
  /\ process = "loading"
  /\ cfg = [f \in Fields |-> Default(f)]
  /\ clock = 0
  /\ signaled = 0
  /\ buckets = [k \in Keys |-> NoBucket]
  /\ stage = [c \in Clients |-> "absent"]
  /\ accepted = [c \in Clients |-> 0]
  /\ waves = [c \in Clients |-> <<>>]
  /\ waveAt = [c \in Clients |-> 0]
  /\ status = [c \in Clients |-> 0]
  /\ effects = [c \in Clients |-> {}]
  /\ waited = [c \in Clients |-> 0]

UnderWay(c) == stage[c] \notin Ends \cup {"absent"}

\* The process exits, and with it the requests under way.
Exit(how) ==
  /\ process' = how
  /\ stage' = [c \in Clients |-> IF UnderWay(c) THEN "cut" ELSE stage[c]]
  /\ UNCHANGED <<launch, clock, buckets, accepted, waves, waveAt, status,
                 effects, waited>>

-----------------------------------------------------------------------------
(* cmdServe, up to ListenAndServe.                                         *)

Entries == IF launch.file = "document" THEN launch.entry
                                       ELSE [f \in Fields |-> "absent"]

\* config.Load.
Load ==
  LET loaded == Loaded(Entries, launch.var)
  IN  /\ process = "loading"
      /\ IF launch.file \in {"malformed", "unreadable"} \/ ~Valid(loaded)
           THEN Exit("fatal") /\ UNCHANGED cfg
           ELSE /\ process' = "loaded"
                /\ cfg' = loaded
                /\ UNCHANGED <<launch, clock, buckets, requestVars>>
      /\ UNCHANGED signaled

\* server.New parses the proxies itself, and panics on what it cannot parse.
Proxies(s) == Trimmed(s["trusted_proxies"].value)
Panics(s) ==
  /\ Proxies(s) # "empty"
  /\ ~ParsePrefix(Proxies(s))
  /\ ~ParseAddr(Proxies(s))

\* The flag, the second Validate and newHTTPServer.
Start ==
  LET final == UnderFlag(cfg, launch.listen)
  IN  /\ process = "loaded"
      /\ cfg' = final
      /\ process' = CASE ~Valid(final) -> "fatal"
                      [] Valid(final) /\ Panics(final) -> "panicked"
                      [] OTHER -> "serving"
      /\ UNCHANGED <<launch, clock, signaled, buckets, requestVars>>

\* A signal before signal.Notify has its default effect.
Killed ==
  /\ process \in {"loading", "loaded"}
  /\ Exit("killed")
  /\ UNCHANGED <<cfg, signaled>>

-----------------------------------------------------------------------------
(* The handlers.                                                           *)

LimiterOn == cfg["enabled"].value = "on"
CacheOn == cfg["cache_ttl"].value # "negative"
PrivateAllowed == cfg["allow_private_ips"].value = "on"

\* One request's stage goes on; more is up to the caller.
To(c, s) == stage' = [stage EXCEPT ![c] = s]

Respond(c, code) ==
  /\ To(c, "replying")
  /\ status' = [status EXCEPT ![c] = code]

Does(c, what) == effects' = [effects EXCEPT ![c] = @ \cup what]

\* Mutant of FirstStage: the limiter is outside of the authentication.
FirstStageLimiting(r) == IF r.path \in Public THEN "handling" ELSE "limiting"

\* Where the mux leads a request to.
FirstStage(r) == IF r.path \in Public THEN "handling" ELSE "authenticating"

Accept(c) ==
  /\ process = "serving"
  /\ stage[c] = "absent" /\ launch.request[c] # NoRequest
  /\ To(c, FirstStage(launch.request[c]))
  /\ accepted' = [accepted EXCEPT ![c] = clock]
  /\ UNCHANGED <<buckets, waves, waveAt, status, effects, waited>>

\* The first token that is not empty.
Presented(r) ==
  LET given == {i \in 1 .. 3 : r.tokens[i] # "none"}
  IN  IF given = {} THEN "none"
        ELSE r.tokens[CHOOSE i \in given : \A j \in given : i <= j]

Authorized(r) ==
  cfg["api_access_token"].value = "empty" \/ Presented(r) = "right"

Authenticate(c) ==
  /\ stage[c] = "authenticating"
  /\ IF Authorized(launch.request[c])
       THEN To(c, "limiting") /\ UNCHANGED status
       ELSE Respond(c, 401)
  /\ UNCHANGED <<buckets, accepted, waves, waveAt, effects, waited>>

\* Mutant of IsTrustedProxy: with any proxy configured, every peer is one.
IsTrustedProxyAny(addr) == Proxies(cfg) # "empty"

IsTrustedProxy(addr) ==
  Proxies(cfg) # "empty" /\ addr = ProxyAddr

ClientIP(r) ==
  CASE IsTrustedProxy(r.remote) /\ r.xff # "none" -> r.xff
    [] IsTrustedProxy(r.remote) /\ r.xff = "none" /\ r.xrip # "none" -> r.xrip
    [] OTHER -> r.remote

\* rateLimit and Allow.
Limit(c) ==
  LET key == ClientIP(launch.request[c])
      b == buckets[key]
  IN  /\ stage[c] = "limiting"
      /\ IF ~LimiterOn
           THEN To(c, "handling") /\ UNCHANGED <<buckets, status, effects>>
           ELSE /\ buckets' = [buckets EXCEPT ![key] =
                     IF b = NoBucket THEN FirstBucket(clock)
                                     ELSE SpentBucket(b, clock)]
                /\ IF b = NoBucket \/ Refilled(b, clock) >= Cost
                     THEN /\ To(c, "handling")
                          /\ Does(c, {"spent"})
                          /\ UNCHANGED status
                     ELSE Respond(c, 429) /\ UNCHANGED effects
      /\ UNCHANGED <<accepted, waves, waveAt, waited>>

\* The fetches a conversion waits for, if nothing goes wrong: n rounds of
\* rulesets, maxConcurrentRulesetFetches in each, if there is a config.
Waves(r, n) ==
  LET Step(present, name) == IF present THEN <<name>> ELSE <<>>
      inserting == \/ r.insert = "on"
                   \/ r.insert = "unset" /\ cfg["insert_enabled"].value = "on"
      configured == r.config \/ cfg["default_config_url"].value = "good"
  IN  <<"subs">>
        \o Step(inserting /\ cfg["insert_urls"].value = "good", "inserts")
        \o Step(configured, "config")
        \o [i \in 1 .. IF configured THEN n ELSE 0 |-> "rules"]

ProxyRefused(r) ==
  \/ r.proxy = "unparsable"
  \/ r.proxy = "private" /\ ~PrivateAllowed

\* What handleSub and Run answer before they fetch anything: 0 for nothing.
SubAnswer(r) ==
  IF r.url = "missing" \/ ProxyRefused(r) THEN 400
    ELSE IF ~r.supported \/ r.url = "separators" THEN 424 ELSE 0

\* handleSub, up to the first fetch.  The cache is flushed before the proxy is
\* looked at.
HandleSub(c) ==
  LET r == launch.request[c]
      flushed == IF r.url # "missing" /\ r.flush /\ CacheOn THEN {"flushed"}
                                                           ELSE {}
  IN  IF SubAnswer(r) # 0
        THEN /\ Respond(c, SubAnswer(r))
             /\ Does(c, flushed)
             /\ UNCHANGED <<waves, waveAt>>
        ELSE /\ To(c, "converting")
             /\ Does(c, flushed \cup {"fetched"})
             /\ waveAt' = [waveAt EXCEPT ![c] = clock]
             /\ \E n \in 0 .. MaxRuleWaves :
                  waves' = [waves EXCEPT ![c] = Waves(r, n)]
             /\ UNCHANGED status

Handle(c) ==
  LET r == launch.request[c]
  IN  /\ stage[c] = "handling"
      /\ CASE r.path = "sub" -> HandleSub(c)
           [] r.path = "flushcache" ->
                /\ Respond(c, 200)
                /\ Does(c, IF CacheOn THEN {"flushed"} ELSE {})
                /\ UNCHANGED <<waves, waveAt>>
           [] OTHER -> Respond(c, 200) /\ UNCHANGED <<effects, waves, waveAt>>
      /\ UNCHANGED <<buckets, accepted, waited>>

\* A round of fetches ends, each of them within the timeout.  A subscription
\* or a config that fails fails the conversion, and so do no nodes at all.
EndWave(c) ==
  /\ stage[c] = "converting"
  /\ LET wave == Head(waves[c])
         next == Tail(waves[c])
         nodesDue == /\ wave \in {"subs", "inserts"}
                     /\ \A i \in DOMAIN next : next[i] # "inserts"
     IN  /\ waves' = [waves EXCEPT ![c] = next]
         /\ \/ next # <<>>
               /\ waveAt' = [waveAt EXCEPT ![c] = clock]
               /\ UNCHANGED <<stage, status>>
            \/ next = <<>> /\ Respond(c, 200) /\ UNCHANGED waveAt
            \/ nodesDue /\ Respond(c, 422) /\ UNCHANGED waveAt
            \/ wave \in {"subs", "config"} /\ Respond(c, 424) /\ UNCHANGED waveAt
  /\ waited' = [waited EXCEPT ![c] = @ + 1]
  /\ UNCHANGED <<buckets, accepted, effects>>

\* The client hangs up, which ends the context of its conversion.
HangUp(c) ==
  /\ stage[c] = "converting"
  /\ To(c, "canceled")
  /\ UNCHANGED <<buckets, accepted, waves, waveAt, status, effects, waited>>

\* Mutant of SeesCancel: a conversion does not look at its context.
SeesCancelNever(c) == FALSE

\* The fetches of a conversion whose context has ended return.
SeesCancel(c) == stage[c] = "canceled"

Abandon(c) ==
  /\ SeesCancel(c)
  /\ To(c, "gone")
  /\ UNCHANGED <<buckets, accepted, waves, waveAt, status, effects, waited>>

\* The handler writes its response, and the connection's write deadline is
\* over or it is not.
Reply(c) ==
  /\ stage[c] = "replying"
  /\ To(c, IF clock - accepted[c] >= WriteTimeout THEN "late" ELSE "answered")
  /\ UNCHANGED <<buckets, accepted, waves, waveAt, status, effects, waited>>

HandlerStep(c) ==
  /\ process \in Running
  /\ \/ Authenticate(c)
     \/ Limit(c)
     \/ Handle(c)
     \/ EndWave(c)
     \/ Abandon(c)
     \/ Reply(c)
  /\ UNCHANGED <<launch, process, cfg, clock, signaled>>

ClientStep(c) ==
  /\ process \in Running
  /\ Accept(c) \/ HangUp(c)
  /\ UNCHANGED <<launch, process, cfg, clock, signaled>>

-----------------------------------------------------------------------------
(* The end of cmdServe.                                                    *)

\* ListenAndServe fails: at once, or later.
ServeFails ==
  /\ process = "serving"
  /\ Exit("fatal")
  /\ UNCHANGED <<cfg, signaled>>

\* Shutdown begins: no request is accepted from now on.  Later signals have
\* no effect.
Signal ==
  /\ process = "serving"
  /\ clock + Grace <= MaxClock
  /\ process' = "draining"
  /\ signaled' = clock
  /\ UNCHANGED <<launch, cfg, clock, buckets, requestVars>>

\* Mutant of Drained: only conversions are waited for.
DrainedOfConversions == \A c \in Clients : stage[c] # "converting"

\* No connection is active.
Drained == \A c \in Clients : ~UnderWay(c)

\* Shutdown returns nil, and main returns.
GracefulExit ==
  /\ process = "draining"
  /\ Drained
  /\ Exit("graceful")
  /\ UNCHANGED <<cfg, signaled>>

GraceOver == clock >= signaled + Grace

\* Shutdown's context is over, and main returns all the same.
ForcedExit ==
  /\ process = "draining"
  /\ ~Drained /\ GraceOver
  /\ Exit("forced")
  /\ UNCHANGED <<cfg, signaled>>

ProcessStep == Load \/ Start \/ GracefulExit \/ ForcedExit

\* The current round of a conversion is within the timeout.
InTime(c) == clock - waveAt[c] < Timeout

\* Time passes only while nothing but fetches is waited for: what the handlers
\* and the process do besides takes none.
Tick ==
  /\ clock < MaxClock
  /\ \/ process = "serving"
     \/ process = "draining" /\ ~Drained /\ ~GraceOver
  /\ \A c \in Clients :
       UnderWay(c) => stage[c] = "converting" /\ InTime(c)
  /\ clock' = clock + 1
  /\ UNCHANGED <<launch, process, cfg, signaled, buckets, requestVars>>

Next ==
  \/ ProcessStep
  \/ \E c \in Clients : HandlerStep(c) \/ ClientStep(c)
  \/ Killed \/ ServeFails \/ Signal
  \/ Tick

Spec == Init /\ [][Next]_vars

(* The process and its handlers go on when they can, and a round of        *)
(* fetches ends (Fetch, EveryCallReturns).  Neither a request nor a signal *)
(* has to come.                                                            *)
Fairness ==
  /\ WF_vars(ProcessStep)
  /\ \A c \in Clients : WF_vars(HandlerStep(c))

FairSpec == Spec /\ Fairness

-----------------------------------------------------------------------------
(* Properties.                                                             *)

TypeOK ==
  /\ process \in Running \cup Exits
  /\ cfg \in [Fields -> Setting]
  /\ clock \in 0 .. MaxClock
  /\ signaled \in 0 .. clock
  /\ buckets \in [Keys -> Bucket \cup {NoBucket}]
  /\ stage \in [Clients -> {"absent", "authenticating", "limiting", "handling",
                            "converting", "canceled", "replying"} \cup Ends]
  /\ accepted \in [Clients -> 0 .. clock]
  /\ waves \in [Clients -> Seq({"subs", "inserts", "config", "rules"})]
  /\ waveAt \in [Clients -> 0 .. clock]
  /\ status \in [Clients -> {0, 200, 400, 401, 422, 424, 429}]
  /\ effects \in [Clients -> SUBSET {"spent", "flushed", "fetched"}]
  /\ waited \in [Clients -> 0 .. MaxRuleWaves + 3]

\* What a layer says of a setting: "absent" for nothing.
Said(layer, f) ==
  CASE layer = "flag" -> IF f = "listen" /\ launch.listen # "empty"
                           THEN launch.listen ELSE "absent"
    [] layer = "env"  -> IF Noticed(f, launch.var[f]) THEN launch.var[f]
                                                     ELSE "absent"
    [] layer = "file" -> Entries[f]
    [] OTHER          -> Default(f).value

\* The most specific layer that says something of a setting.
Decisive(f) ==
  CASE Said("flag", f) # "absent" -> "flag"
    [] Said("flag", f) = "absent" /\ Said("env", f) # "absent" -> "env"
    [] Said("flag", f) = "absent" /\ Said("env", f) = "absent"
         /\ Said("file", f) # "absent" -> "file"
    [] OTHER -> "default"

(* A process that serves has the settings it was given, each from the most *)
(* specific of flag, environment, file and defaults, except that a limit   *)
(* of 0 stands for its default; none of them is one that Validate refuses  *)
(* or that the server cannot work with, so that New never panics           *)
(* (config.go, Load and Validate; main.go, cmdServe; server.go, New).      *)
SettingsSound ==
  /\ process # "panicked"
  /\ process \in {"serving", "draining"} =>
       \A f \in Fields :
         /\ \/ cfg[f].from = Decisive(f)
               /\ cfg[f].value = Said(Decisive(f), f)
            \/ f \in Limits /\ Said(Decisive(f), f) = "empty"
               /\ cfg[f] = Default(f)
         /\ cfg[f].value \notin {"bad", "negative"} \/ f = "cache_ttl"
         /\ f \in Limits => cfg[f].value # "empty"

(* A request that is turned away has no effect: without the token it does  *)
(* not even cost its address a limiter token, over the limit or wrong in   *)
(* its parameters it causes no fetch, and over the limit it flushes        *)
(* nothing.  A conversion is answered with 200 only after all its rounds   *)
(* of fetches, and a public path never refuses (server.go, Handler,        *)
(* handleSub).                                                             *)
StatusTellsTruth ==
  \A c \in Clients :
    LET r == launch.request[c]
    IN  /\ status[c] \in {401, 429} => effects[c] = {}
        /\ status[c] = 400 => "fetched" \notin effects[c]
        /\ effects[c] # {} => Authorized(r)
        /\ status[c] # 0 /\ r.path \in Public =>
             status[c] = 200 /\ effects[c] = {}
        /\ status[c] = 200 /\ r.path = "sub" =>
             "fetched" \in effects[c] /\ waves[c] = <<>>
        /\ LimiterOn /\ {"flushed", "fetched"} \cap effects[c] # {} =>
             "spent" \in effects[c]

(* A bucket changes only at a request that has authenticated, and it is    *)
(* the bucket of its sender: of the peer, or of whom a trusted peer names. *)
(* No other peer can spend or claim somebody else's tokens (server.go,     *)
(* clientIP: "honoured ONLY when the connection comes from a configured    *)
(* trusted proxy").                                                        *)
OwnTokensOnly ==
  [][\A k \in Keys :
       buckets'[k] # buckets[k] =>
         \E c \in Clients :
           LET r == launch.request[c]
           IN  /\ stage[c] = "limiting" /\ stage'[c] # "limiting"
               /\ Authorized(r)
               /\ r.remote # k => r.remote = ProxyAddr /\ k \in {r.xff, r.xrip}
    ]_buckets

(* Nothing is cut short without need: a response comes too late for the    *)
(* connection only if its rounds of fetches can take as long as            *)
(* WriteTimeout, the process leaves a request unanswered only if serving   *)
(* fails or a conversion is not over when the whole of Grace is, and a     *)
(* graceful exit leaves none (main.go, newHTTPServer and cmdServe).        *)
NothingCutShort ==
  \A c \in Clients :
    /\ stage[c] = "late" => waited[c] * Timeout >= WriteTimeout
    /\ stage[c] = "cut" =>
         \/ process = "fatal"
         \/ /\ process = "forced"
            /\ clock = signaled + Grace
            /\ "fetched" \in effects[c]
    /\ process = "graceful" => stage[c] \in {"absent", "answered", "gone", "late"}

(* A request that was accepted ends, whether or not its client stays and   *)
(* whatever its fetches do, and after a signal the process ends (server.go, *)
(* handleSub; main.go, cmdServe).                                          *)
EverythingEnds ==
  /\ \A c \in Clients : stage[c] # "absent" ~> stage[c] \in Ends
  /\ process = "draining" ~> process \in Exits

=============================================================================
