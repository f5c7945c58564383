---------------------------- MODULE Service_proofs -----------------------------
(***************************************************************************)
(* Proofs about Service, for every set of clients and launches, every      *)
(* timeout, grace period and write deadline, and any bucket size and rate. *)
(***************************************************************************)
EXTENDS Service, SequenceTheorems, TLAPS

-----------------------------------------------------------------------------
(* The settings.                                                           *)

\* What the file and the environment say of a setting, and else its default.
Given(f, e, v) ==
  IF Noticed(f, v) THEN [from |-> "env", value |-> v]
    ELSE IF e = "absent" THEN Default(f) ELSE [from |-> "file", value |-> e]

LEMMA FieldKinds ==
  ASSUME NEW f \in Fields
  PROVE  \/ f \in Urls /\ f \notin Limits /\ f \notin Numbers /\ f \notin Switches
               /\ f \notin Lists /\ f # "listen"
         \/ f \in Texts \ Urls /\ f \notin Limits /\ f \notin Numbers
               /\ f \notin Switches /\ f \notin Lists
         \/ f \in Limits /\ f \in Numbers /\ f \notin Texts /\ f \notin Urls
               /\ f \notin Switches /\ f \notin Lists /\ f # "listen"
         \/ f = "cache_ttl" /\ f \in Numbers /\ f \notin Limits /\ f \notin Texts
               /\ f \notin Urls /\ f \notin Switches /\ f \notin Lists
         \/ f \in Switches /\ f \notin Texts /\ f \notin Urls /\ f \notin Numbers
               /\ f \notin Limits /\ f \notin Lists /\ f # "listen"
         \/ f \in Lists /\ f \notin Texts /\ f \notin Urls /\ f \notin Numbers
               /\ f \notin Limits /\ f \notin Switches /\ f # "listen"
BY DEF Fields, Texts, Urls, Limits, Numbers, Switches, Lists

\* The values of a setting, whatever layer they come from.
LEMMA ValuesFacts ==
  ASSUME NEW f \in Fields
  PROVE  /\ Default(f).value \in ValuesOf(f) /\ Default(f).from = "default"
         /\ Default(f) = [from |-> "default", value |-> Default(f).value]
         /\ f \in Limits => Default(f).value = "good"
         /\ "absent" \notin ValuesOf(f)
         /\ \A e \in FileValuesOf(f) : e # "absent" => e \in ValuesOf(f)
         /\ \A v \in EnvValuesOf(f) : Noticed(f, v) => v \in ValuesOf(f)
         /\ \A v \in ValuesOf(f) : ~Refused(f, v) =>
              v \notin {"bad", "negative"} \/ f = "cache_ttl"
<1>1. Default(f).value \in ValuesOf(f)
  <2>1. CASE f \in Urls
    BY <2>1, FieldKinds DEF ValuesOf, Default, Switches
  <2>2. CASE f \in Texts \ Urls
    BY <2>2, FieldKinds DEF ValuesOf, Default, Switches
  <2>3. CASE f \in Numbers
    BY <2>3, FieldKinds DEF ValuesOf, Default, Switches
  <2>4. CASE f \in Switches
    BY <2>4, FieldKinds DEF ValuesOf, Default, Switches
  <2>5. CASE f \in Lists
    BY <2>5, FieldKinds DEF ValuesOf, Default, Switches
  <2> QED BY <2>1, <2>2, <2>3, <2>4, <2>5, FieldKinds
<1>2. Default(f) = [from |-> "default", value |-> Default(f).value]
  BY DEF Default
<1>3. f \in Limits => Default(f).value = "good"
  BY FieldKinds DEF Default, Switches
<1>4. "absent" \notin ValuesOf(f)
  BY FieldKinds DEF ValuesOf
<1>5. \A v \in EnvValuesOf(f) : Noticed(f, v) => v \in ValuesOf(f)
  BY DEF EnvValuesOf, Noticed
<1>6. \A v \in ValuesOf(f) : ~Refused(f, v) =>
        v \notin {"bad", "negative"} \/ f = "cache_ttl"
  BY FieldKinds DEF ValuesOf, Refused, Trimmed, ParsePrefix, ParseAddr
<1> QED BY <1>1, <1>2, <1>3, <1>4, <1>5, <1>6 DEF FileValuesOf

\* What Load makes of a setting.
LEMMA LoadedFacts ==
  ASSUME NEW f \in Fields, NEW entry, NEW var,
         entry[f] \in FileValuesOf(f), var[f] \in EnvValuesOf(f)
  PROVE  LET given  == Given(f, entry[f], var[f])
             loaded == Loaded(entry, var)[f]
         IN  /\ given.value \in ValuesOf(f)
             /\ loaded = IF f \in Limits /\ given.value = "empty" THEN Default(f)
                                                                 ELSE given
             /\ loaded.value \in ValuesOf(f)
             /\ loaded \in Setting
             /\ f \in Limits => loaded.value # "empty"
<1> DEFINE given  == Given(f, entry[f], var[f])
           loaded == Loaded(entry, var)[f]
<1>1. loaded = IF f \in Limits /\ given.value = "empty" THEN Default(f) ELSE given
  BY DEF Loaded, Backfilled, UnderEnv, FromFile, Given
<1>2. given.value \in ValuesOf(f) /\ given \in [from : {"default", "file", "env"},
                                                value : ValuesOf(f)]
  BY ValuesFacts DEF Given
<1> HIDE DEF given, loaded
<1>3. Default(f) \in [from : {"default", "file", "env"}, value : ValuesOf(f)]
  BY ValuesFacts
<1>4. loaded \in [from : {"default", "file", "env"}, value : ValuesOf(f)]
  BY <1>1, <1>2, <1>3
<1>5. loaded \in Setting
  BY <1>4 DEF Setting
<1>6. f \in Limits => loaded.value # "empty"
  BY <1>1, ValuesFacts
<1> QED BY <1>1, <1>2, <1>4, <1>5, <1>6 DEF given, loaded

-----------------------------------------------------------------------------
(* The limiter's buckets.                                                  *)

LEMMA BucketTypes ==
  /\ \A now \in Nat : FirstBucket(now) \in Bucket
  /\ \A b \in Bucket, now \in Nat : SpentBucket(b, now) \in Bucket
<1>1. Burst \in Nat \ {0} /\ Rate \in Nat /\ Cost \in Nat \ {0}
  BY BucketsAssumption DEF Burst, Rate
<1>2. Full \in Nat /\ Cost <= Full
  <2>1. \A b \in Nat \ {0}, c \in Nat \ {0} : b * c \in Nat /\ c <= b * c
    <3> SUFFICES ASSUME NEW b \in Nat \ {0}, NEW c \in Nat \ {0}
                 PROVE  b * c \in Nat /\ c <= b * c
      OBVIOUS
    <3>1. b * c = (b - 1) * c + c /\ (b - 1) * c \in Nat
      OBVIOUS
    <3> QED BY <3>1
  <2> QED BY <1>1, <2>1 DEF Full
<1>3. ASSUME NEW now \in Nat PROVE FirstBucket(now) \in Bucket
  BY <1>1, <1>2 DEF FirstBucket, Bucket
<1>4. ASSUME NEW b \in Bucket, NEW now \in Nat PROVE SpentBucket(b, now) \in Bucket
  <2>1. b.tokens \in 0 .. Full /\ b.lastSeen \in Nat
    BY DEF Bucket
  <2>2. Refilled(b, now) \in 0 .. Full
    <3>1. CASE now - b.lastSeen > 0
      <4>1. PICK d \in Nat : d = now - b.lastSeen
        BY <2>1, <3>1
      <4>2. d * Rate \in Nat
        BY <1>1
      <4> QED BY <1>2, <2>1, <3>1, <4>1, <4>2 DEF Refilled, AtMost
    <3>2. CASE ~ (now - b.lastSeen > 0)
      BY <2>1, <3>2 DEF Refilled
    <3> QED BY <3>1, <3>2
  <2> QED BY <1>1, <1>2, <2>2 DEF SpentBucket, Bucket
<1> QED BY <1>3, <1>4

-----------------------------------------------------------------------------
(* The invariant.                                                          *)

Stages == {"absent", "authenticating", "limiting", "handling", "converting",
           "canceled", "replying"} \cup Ends

Early == {"absent", "authenticating", "limiting", "handling"}

Codes == {0, 200, 400, 401, 422, 424, 429}

WaveNames == {"subs", "inserts", "config", "rules"}

Typed ==
  /\ launch \in Runs
  /\ process \in Running \cup Exits
  /\ cfg \in [Fields -> Setting]
  /\ clock \in 0 .. MaxClock
  /\ signaled \in 0 .. clock
  /\ buckets \in [Keys -> Bucket \cup {NoBucket}]
  /\ stage \in [Clients -> Stages]
  /\ accepted \in [Clients -> 0 .. clock]
  /\ waves \in [Clients -> Seq(WaveNames)]
  /\ waveAt \in [Clients -> 0 .. clock]
  /\ status \in [Clients -> Codes]
  /\ effects \in [Clients -> SUBSET {"spent", "flushed", "fetched"}]
  /\ waited \in [Clients -> Nat]

\* What StatusTellsTruth says of one request.
Told(c, r) ==
  /\ status[c] \in {401, 429} => effects[c] = {}
  /\ status[c] = 400 => "fetched" \notin effects[c]
  /\ effects[c] # {} => Authorized(r)
  /\ status[c] # 0 /\ r.path \in Public => status[c] = 200 /\ effects[c] = {}
  /\ status[c] = 200 /\ r.path = "sub" =>
       "fetched" \in effects[c] /\ waves[c] = <<>>
  /\ LimiterOn /\ ("flushed" \in effects[c] \/ "fetched" \in effects[c]) =>
       "spent" \in effects[c]

\* What the stage of a request says of it: which checks it has passed, and what
\* it may have done by then.
Coming(c, r) ==
  /\ stage[c] # "absent" => r \in Request
  /\ stage[c] \in {"authenticating", "limiting"} => r.path \notin Public
  /\ stage[c] \in {"absent", "authenticating", "limiting"} => effects[c] = {}
  /\ stage[c] = "limiting" => Authorized(r)
  /\ stage[c] = "handling" =>
       \/ r.path \in Public /\ effects[c] = {}
       \/ /\ r.path \notin Public /\ Authorized(r)
          /\ effects[c] = IF LimiterOn THEN {"spent"} ELSE {}
  /\ stage[c] \in {"converting", "canceled"} =>
       r.path = "sub" /\ "fetched" \in effects[c]
  /\ stage[c] \notin {"replying"} \cup Ends => status[c] = 0

\* The rounds that have ended and those that are left.
Counted(c) ==
  /\ waited[c] + Len(waves[c]) <= MaxRuleWaves + 3
  /\ stage[c] \in Early => waited[c] = 0 /\ waves[c] = <<>>
  /\ stage[c] = "converting" => waves[c] # <<>>

\* Only the rounds take time, and each of them no more than the timeout.
Timed(c) ==
  /\ stage[c] \in {"authenticating", "limiting", "handling"} => accepted[c] = clock
  /\ stage[c] = "converting" =>
       /\ waveAt[c] - accepted[c] <= waited[c] * Timeout
       /\ clock - waveAt[c] <= Timeout
  /\ stage[c] = "replying" => clock - accepted[c] <= waited[c] * Timeout
  /\ stage[c] = "late" => waited[c] * Timeout >= WriteTimeout

Sound(c) ==
  /\ \A r \in {launch.request[c]} : Told(c, r) /\ Coming(c, r)
  /\ Counted(c)
  /\ Timed(c)

\* Why a request may be cut.
CutOnly(c) ==
  stage[c] = "cut" =>
    \/ process = "fatal"
    \/ process = "forced" /\ clock = signaled + Grace /\ "fetched" \in effects[c]

\* How the process comes up and ends.
Ending ==
  /\ process \in {"loading", "loaded"} => \A c \in Clients : stage[c] = "absent"
  /\ process \in Running => \A c \in Clients : stage[c] # "cut"
  /\ process = "draining" => clock <= signaled + Grace
  /\ process = "draining" /\ clock > signaled =>
       \A c \in Clients : UnderWay(c) => "fetched" \in effects[c]
  /\ \A c \in Clients : CutOnly(c)
  /\ process = "graceful" =>
       \A c \in Clients : stage[c] \in {"absent", "answered", "gone", "late"}

\* The settings that a running process has.
Configured ==
  /\ process # "panicked"
  /\ process \in Running \ {"loading"} => Valid(cfg)
  /\ process = "loaded" => cfg = Loaded(Entries, launch.var)
  /\ process \in {"serving", "draining"} =>
       cfg = UnderFlag(Loaded(Entries, launch.var), launch.listen)

IInv == Typed /\ (\A c \in Clients : Sound(c)) /\ Ending /\ Configured

-----------------------------------------------------------------------------
(* One request goes on.                                                    *)

\* Nothing but request c has changed, apart from the buckets.
Frame(c) ==
  /\ UNCHANGED <<launch, process, cfg, clock, signaled>>
  /\ \A d \in Clients : d # c =>
       /\ stage'[d] = stage[d] /\ accepted'[d] = accepted[d]
       /\ waves'[d] = waves[d] /\ waveAt'[d] = waveAt[d]
       /\ status'[d] = status[d] /\ effects'[d] = effects[d]
       /\ waited'[d] = waited[d]

\* Request c has these values now, in the order of requestVars.
Local(c, s, a, w, wa, st, ef, wt) ==
  /\ stage' = [stage EXCEPT ![c] = s]
  /\ accepted' = [accepted EXCEPT ![c] = a]
  /\ waves' = [waves EXCEPT ![c] = w]
  /\ waveAt' = [waveAt EXCEPT ![c] = wa]
  /\ status' = [status EXCEPT ![c] = st]
  /\ effects' = [effects EXCEPT ![c] = ef]
  /\ waited' = [waited EXCEPT ![c] = wt]

LEMMA Unmoved ==
  ASSUME NEW S, NEW f \in [Clients -> S], NEW c \in Clients
  PROVE  f = [f EXCEPT ![c] = f[c]]
OBVIOUS

LEMMA Same ==
  ASSUME Typed, NEW c \in Clients
  PROVE  /\ stage = [stage EXCEPT ![c] = stage[c]]
         /\ accepted = [accepted EXCEPT ![c] = accepted[c]]
         /\ waves = [waves EXCEPT ![c] = waves[c]]
         /\ waveAt = [waveAt EXCEPT ![c] = waveAt[c]]
         /\ status = [status EXCEPT ![c] = status[c]]
         /\ effects = [effects EXCEPT ![c] = effects[c]]
         /\ waited = [waited EXCEPT ![c] = waited[c]]
BY DEF Typed

LEMMA LocalFacts ==
  ASSUME Typed, NEW c \in Clients,
         UNCHANGED <<launch, process, cfg, clock, signaled>>,
         NEW s \in Stages, NEW a \in 0 .. clock, NEW w \in Seq(WaveNames),
         NEW wa \in 0 .. clock, NEW st \in Codes,
         NEW ef \in SUBSET {"spent", "flushed", "fetched"}, NEW wt \in Nat,
         Local(c, s, a, w, wa, st, ef, wt),
         buckets' \in [Keys -> Bucket \cup {NoBucket}]
  PROVE  /\ Typed' /\ Frame(c)
         /\ stage'[c] = s /\ accepted'[c] = a /\ waves'[c] = w /\ waveAt'[c] = wa
         /\ status'[c] = st /\ effects'[c] = ef /\ waited'[c] = wt
<1>1. /\ stage' \in [Clients -> Stages] /\ stage'[c] = s
      /\ status' \in [Clients -> Codes] /\ status'[c] = st
      /\ waited' \in [Clients -> Nat] /\ waited'[c] = wt
  BY DEF Typed, Local
<1>2. /\ accepted' \in [Clients -> 0 .. clock] /\ accepted'[c] = a
      /\ waveAt' \in [Clients -> 0 .. clock] /\ waveAt'[c] = wa
  BY DEF Typed, Local
<1>3. waves' \in [Clients -> Seq(WaveNames)] /\ waves'[c] = w
  BY DEF Typed, Local
<1>4. /\ effects' \in [Clients -> SUBSET {"spent", "flushed", "fetched"}]
      /\ effects'[c] = ef
  BY DEF Typed, Local
<1>5. Typed'
  BY <1>1, <1>2, <1>3, <1>4 DEF Typed
<1>6. Frame(c)
  BY DEF Frame, Local, Typed
<1> QED BY <1>1, <1>2, <1>3, <1>4, <1>5, <1>6

LEMMA OthersSound ==
  ASSUME NEW c \in Clients, Frame(c), NEW d \in Clients, d # c, Sound(d)
  PROVE  Sound(d)'
BY DEF Frame, Sound, Told, Coming, Counted, Timed, Authorized, LimiterOn

\* What a step of request c does to the end of the process.
Onward(c) ==
  /\ stage'[c] \notin {"absent", "cut"}
  /\ effects[c] \subseteq effects'[c]
  /\ IF stage[c] = "absent" THEN process = "serving" ELSE UnderWay(c)

\* What is shown of a step of request c.
Advances(c) == Typed' /\ Frame(c) /\ Sound(c)' /\ Onward(c)

\* The values of request c before the step.
At(c, r, s, a, w, wa, st, ef, wt) ==
  /\ r = launch.request[c]
  /\ s = stage[c] /\ s \in Stages
  /\ a = accepted[c] /\ a \in 0 .. clock
  /\ w = waves[c] /\ w \in Seq(WaveNames)
  /\ wa = waveAt[c] /\ wa \in 0 .. clock
  /\ st = status[c] /\ st \in Codes
  /\ ef = effects[c] /\ ef \in SUBSET {"spent", "flushed", "fetched"}
  /\ wt = waited[c] /\ wt \in Nat

LEMMA AtSome ==
  ASSUME Typed, NEW c \in Clients
  PROVE  \E r, s, a, w, wa, st, ef, wt : At(c, r, s, a, w, wa, st, ef, wt)
BY DEF Typed, At

LEMMA AcceptAdvances ==
  ASSUME Typed, NEW c \in Clients, Sound(c), Accept(c),
         UNCHANGED <<launch, process, cfg, clock, signaled>>
  PROVE  Advances(c)
<1>1. PICK r, s, a, w, wa, st, ef, wt : At(c, r, s, a, w, wa, st, ef, wt)
  BY AtSome
<1>2. PICK first : first = FirstStage(r)
  OBVIOUS
<1>3. PICK now : now = clock /\ now \in 0 .. clock
  BY DEF Typed
<1>4. r \in Request
  BY <1>1, ServiceAssumption DEF Typed, At, Accept
<1>5. first = IF r.path \in Public THEN "handling" ELSE "authenticating"
  BY <1>2 DEF FirstStage
<1>6. first \in Stages
  BY <1>5 DEF Stages
<1>7. Local(c, first, now, w, wa, st, ef, wt)
  BY <1>1, <1>2, <1>3, Same DEF Accept, To, Local, At
<1>8. buckets' \in [Keys -> Bucket \cup {NoBucket}]
  BY DEF Accept, Typed
<1>9. /\ Typed' /\ Frame(c)
      /\ stage'[c] = first /\ accepted'[c] = now /\ waves'[c] = w /\ waveAt'[c] = wa
      /\ status'[c] = st /\ effects'[c] = ef /\ waited'[c] = wt
  BY <1>1, <1>3, <1>6, <1>7, <1>8, LocalFacts DEF At
<1>10. stage[c] = "absent" /\ ef = {} /\ st = 0 /\ wt = 0 /\ w = <<>>
  BY <1>1 DEF Accept, Sound, Coming, Counted, At, Early, Ends
<1>11. Told(c, r)' /\ Coming(c, r)'
  BY <1>4, <1>5, <1>9, <1>10 DEF Told, Coming
<1>12. Counted(c)' /\ Timed(c)'
  BY <1>3, <1>5, <1>9, <1>10, ServiceAssumption DEF Counted, Timed, Early
<1>13. Sound(c)'
  BY <1>1, <1>11, <1>12 DEF Sound, At
<1>14. Onward(c)
  BY <1>5, <1>9, <1>10, <1>1 DEF Onward, At, Accept
<1> QED BY <1>9, <1>13, <1>14 DEF Advances

LEMMA AuthenticateAdvances ==
  ASSUME Typed, NEW c \in Clients, Sound(c), Authenticate(c),
         UNCHANGED <<launch, process, cfg, clock, signaled>>
  PROVE  Advances(c)
<1>1. PICK r, s, a, w, wa, st, ef, wt : At(c, r, s, a, w, wa, st, ef, wt)
  BY AtSome
<1>2. /\ s = "authenticating" /\ ef = {} /\ st = 0 /\ wt = 0 /\ w = <<>> /\ a = clock
      /\ r \in Request /\ r.path \notin Public
  BY <1>1 DEF Authenticate, Sound, Coming, Counted, Timed, At, Early, Ends
<1>3. PICK next, code :
        \/ Authorized(r) /\ next = "limiting" /\ code = 0
        \/ ~Authorized(r) /\ next = "replying" /\ code = 401
  OBVIOUS
<1>4. Local(c, next, a, w, wa, code, ef, wt)
  <2>1. CASE Authorized(r) /\ next = "limiting" /\ code = 0
    <3>1. To(c, "limiting")
          /\ UNCHANGED <<status, accepted, waves, waveAt, effects, waited>>
      BY <1>1, <2>1 DEF Authenticate, At
    <3> QED BY <1>1, <1>2, <2>1, <3>1, Same DEF To, Local, At
  <2>2. CASE ~Authorized(r) /\ next = "replying" /\ code = 401
    <3>1. Respond(c, 401) /\ UNCHANGED <<accepted, waves, waveAt, effects, waited>>
      BY <1>1, <2>2 DEF Authenticate, At
    <3> QED BY <1>1, <1>2, <2>2, <3>1, Same DEF To, Respond, Local, At
  <2> QED BY <1>3, <2>1, <2>2
<1>5. /\ next \in Stages /\ code \in Codes
      /\ buckets' \in [Keys -> Bucket \cup {NoBucket}]
  BY <1>3 DEF Authenticate, Typed, Stages, Codes
<1>6. /\ Typed' /\ Frame(c)
      /\ stage'[c] = next /\ accepted'[c] = a /\ waves'[c] = w /\ waveAt'[c] = wa
      /\ status'[c] = code /\ effects'[c] = ef /\ waited'[c] = wt
  BY <1>1, <1>4, <1>5, LocalFacts DEF At
<1>7. Told(c, r)' /\ Coming(c, r)'
  BY <1>2, <1>3, <1>6 DEF Told, Coming, Authorized, Ends
<1>8. Counted(c)' /\ Timed(c)'
  BY <1>2, <1>3, <1>6, ServiceAssumption DEF Counted, Timed, Early, Typed
<1>9. Sound(c)' /\ Onward(c)
  BY <1>1, <1>2, <1>3, <1>6, <1>7, <1>8 DEF Sound, At, Onward, UnderWay, Ends
<1> QED BY <1>6, <1>9 DEF Advances

\* A request spends a token of its own address's bucket, or is over the limit.
LEMMA LimitAdvances ==
  ASSUME Typed, NEW c \in Clients, Sound(c), Limit(c),
         UNCHANGED <<launch, process, cfg, clock, signaled>>
  PROVE  Advances(c)
<1>1. PICK r, s, a, w, wa, st, ef, wt : At(c, r, s, a, w, wa, st, ef, wt)
  BY AtSome
<1>2. /\ s = "limiting" /\ ef = {} /\ st = 0 /\ wt = 0 /\ w = <<>> /\ a = clock
      /\ r \in Request /\ r.path \notin Public /\ Authorized(r)
  BY <1>1 DEF Limit, Sound, Coming, Counted, Timed, At, Early, Ends
<1>3. PICK next, code, did :
        /\ \/ ~LimiterOn /\ next = "handling" /\ code = 0 /\ did = {}
           \/ LimiterOn /\ next = "handling" /\ code = 0 /\ did = {"spent"}
           \/ LimiterOn /\ next = "replying" /\ code = 429 /\ did = {}
        /\ Local(c, next, a, w, wa, code, did, wt)
  <2>1. CASE ~LimiterOn
    <3>1. Local(c, "handling", a, w, wa, 0, {}, wt)
      BY <1>1, <1>2, <2>1, Same DEF Limit, To, Local, At
    <3> QED BY <2>1, <3>1
  <2>2. CASE LimiterOn
    <3>1. \/ To(c, "handling") /\ Does(c, {"spent"}) /\ UNCHANGED status
          \/ Respond(c, 429) /\ UNCHANGED effects
      BY <2>2 DEF Limit
    <3>2. UNCHANGED <<accepted, waves, waveAt, waited>>
      BY DEF Limit
    <3>3. CASE To(c, "handling") /\ Does(c, {"spent"}) /\ UNCHANGED status
      <4>1. effects' = [effects EXCEPT ![c] = {"spent"}]
        <5>1. effects' = [effects EXCEPT ![c] = effects[c] \cup {"spent"}]
          BY <3>3 DEF Does, Typed
        <5>2. effects[c] \cup {"spent"} = {"spent"}
          BY <1>1, <1>2 DEF At
        <5> QED BY <5>1, <5>2
      <4>2. Local(c, "handling", a, w, wa, 0, {"spent"}, wt)
        BY <1>1, <1>2, <3>2, <3>3, <4>1, Same DEF To, Local, At
      <4> QED BY <2>2, <4>2
    <3>4. CASE Respond(c, 429) /\ UNCHANGED effects
      <4>1. Local(c, "replying", a, w, wa, 429, {}, wt)
        BY <1>1, <1>2, <3>2, <3>4, Same DEF Respond, To, Local, At
      <4> QED BY <2>2, <4>1
    <3> QED BY <3>1, <3>3, <3>4
  <2> QED BY <2>1, <2>2
<1>4. buckets' \in [Keys -> Bucket \cup {NoBucket}]
  <2>1. CASE UNCHANGED buckets
    BY <2>1 DEF Typed
  <2>2. CASE LimiterOn
    <3>1. PICK key : key = ClientIP(launch.request[c])
      OBVIOUS
    <3>2. PICK b : b = buckets[key]
      OBVIOUS
    <3>3. key \in Keys
      BY <1>1, <1>2, <3>1 DEF ClientIP, Request, At
    <3>4. b \in Bucket \cup {NoBucket} /\ clock \in Nat
      BY <3>2, <3>3 DEF Typed
    <3>5. PICK new : new = IF b = NoBucket THEN FirstBucket(clock) ELSE SpentBucket(b, clock)
      OBVIOUS
    <3>6. new \in Bucket
      BY <3>4, <3>5, BucketTypes
    <3>7. buckets' = [buckets EXCEPT ![key] = new]
      BY <2>2, <3>1, <3>2, <3>5 DEF Limit
    <3> HIDE DEF IInv
    <3> QED BY <3>6, <3>7 DEF Typed
  <2> QED BY <2>1, <2>2 DEF Limit
<1>5. next \in Stages /\ code \in Codes /\ did \in SUBSET {"spent", "flushed", "fetched"}
  BY <1>3 DEF Stages, Codes
<1>6. /\ Typed' /\ Frame(c)
      /\ stage'[c] = next /\ accepted'[c] = a /\ waves'[c] = w /\ waveAt'[c] = wa
      /\ status'[c] = code /\ effects'[c] = did /\ waited'[c] = wt
  BY <1>1, <1>3, <1>4, <1>5, LocalFacts DEF At
<1>7. /\ Authorized(r)' /\ LimiterOn' = LimiterOn
      /\ did = {} \/ did = {"spent"}
      /\ next \in {"handling", "replying"}
  BY <1>2, <1>3 DEF Authorized, LimiterOn
<1>8. Told(c, r)'
  BY <1>2, <1>3, <1>6, <1>7 DEF Told
<1>9. Coming(c, r)'
  BY <1>2, <1>3, <1>6, <1>7 DEF Coming, Ends
<1>10. Counted(c)' /\ Timed(c)'
  BY <1>2, <1>3, <1>6, ServiceAssumption DEF Counted, Timed, Early, Typed
<1>11. Sound(c)' /\ Onward(c)
  BY <1>1, <1>2, <1>3, <1>6, <1>8, <1>9, <1>10 DEF Sound, At, Onward, UnderWay, Ends
<1> QED BY <1>6, <1>11 DEF Advances

LEMMA WavesFacts ==
  ASSUME NEW r, NEW n \in 0 .. MaxRuleWaves
  PROVE  /\ Waves(r, n) \in Seq(WaveNames)
         /\ Len(Waves(r, n)) <= MaxRuleWaves + 3
         /\ Waves(r, n) # <<>>
<1> DEFINE inserting == /\ \/ r.insert = "on"
                           \/ r.insert = "unset" /\ cfg["insert_enabled"].value = "on"
                        /\ cfg["insert_urls"].value = "good"
           configured == r.config \/ cfg["default_config_url"].value = "good"
           p == IF inserting THEN <<"inserts">> ELSE <<>>
           q == IF configured THEN <<"config">> ELSE <<>>
           m == IF configured THEN n ELSE 0
           t == [i \in 1 .. m |-> "rules"]
<1>1. Waves(r, n) = <<"subs">> \o p \o q \o t
  BY DEF Waves
<1>2. <<"subs">> \in Seq(WaveNames) /\ Len(<<"subs">>) = 1
  BY DEF WaveNames
<1>3. p \in Seq(WaveNames) /\ Len(p) \in 0 .. 1
  <2>1. p = <<"inserts">> \/ p = <<>>
    OBVIOUS
  <2>2. \A x : x = <<"inserts">> => x \in Seq(WaveNames) /\ Len(x) = 1
    BY DEF WaveNames
  <2> HIDE DEF p
  <2>3. \A x : x = <<>> => x \in Seq(WaveNames) /\ Len(x) = 0
    OBVIOUS
  <2> QED BY <2>1, <2>2, <2>3
<1>4. q \in Seq(WaveNames) /\ Len(q) \in 0 .. 1
  <2>1. q = <<"config">> \/ q = <<>>
    OBVIOUS
  <2>2. \A x : x = <<"config">> => x \in Seq(WaveNames) /\ Len(x) = 1
    BY DEF WaveNames
  <2> HIDE DEF q
  <2>3. \A x : x = <<>> => x \in Seq(WaveNames) /\ Len(x) = 0
    OBVIOUS
  <2> QED BY <2>1, <2>2, <2>3
<1>5. t \in Seq(WaveNames) /\ Len(t) \in 0 .. MaxRuleWaves
  <2>1. m \in 0 .. MaxRuleWaves
    BY ServiceAssumption
  <2> HIDE DEF m
  <2>2. t \in [1 .. m -> WaveNames] /\ m \in Nat
    BY <2>1, ServiceAssumption DEF WaveNames
  <2>3. t \in Seq(WaveNames) /\ Len(t) = m
    BY <2>2
  <2> QED BY <2>1, <2>3
<1> HIDE DEF p, q, t
<1>6. PICK one : one = <<"subs">>
  OBVIOUS
<1>7. one \o p \in Seq(WaveNames) /\ Len(one \o p) \in 1 .. 2
  BY <1>2, <1>3, <1>6, ConcatProperties
<1>8. one \o p \o q \in Seq(WaveNames) /\ Len(one \o p \o q) \in 1 .. 3
  <2>1. PICK op : op = one \o p
    OBVIOUS
  <2>2. op \o q \in Seq(WaveNames) /\ Len(op \o q) = Len(op) + Len(q)
    BY <1>4, <1>7, <2>1, ConcatProperties
  <2>3. PICK x \in 1 .. 2, y \in 0 .. 1 : x = Len(op) /\ y = Len(q)
    BY <1>4, <1>7, <2>1
  <2>4. x + y \in 1 .. 3
    OBVIOUS
  <2> QED BY <2>1, <2>2, <2>3, <2>4
<1>9. PICK all : all = one \o p \o q \o t
  OBVIOUS
<1>10. all \in Seq(WaveNames) /\ Len(all) \in 1 .. MaxRuleWaves + 3
  <2>1. PICK opq : opq = one \o p \o q
    OBVIOUS
  <2>2. all \in Seq(WaveNames) /\ Len(all) = Len(opq) + Len(t)
    BY <1>5, <1>8, <1>9, <2>1, ConcatProperties
  <2>3. PICK x \in 1 .. 3, y \in 0 .. MaxRuleWaves : x = Len(opq) /\ y = Len(t)
    BY <1>5, <1>8, <2>1
  <2>4. x + y \in 1 .. MaxRuleWaves + 3
    <3> HIDE DEF m
    <3> QED BY ServiceAssumption
  <2>5. Len(all) = x + y
    BY <2>2, <2>3
  <2> QED BY <2>2, <2>4, <2>5
<1>11. all # <<>>
  BY <1>10, EmptySeq
<1> QED BY <1>1, <1>6, <1>9, <1>10, <1>11

\* A conversion begins only if the request has nothing wrong with it.
LEMMA HandleAdvances ==
  ASSUME Typed, NEW c \in Clients, Sound(c), Handle(c),
         UNCHANGED <<launch, process, cfg, clock, signaled>>
  PROVE  Advances(c)
<1>1. PICK r, s, a, w, wa, st, ef, wt : At(c, r, s, a, w, wa, st, ef, wt)
  BY AtSome
<1>2. /\ s = "handling" /\ st = 0 /\ wt = 0 /\ w = <<>> /\ a = clock
      /\ r \in Request
      /\ \/ r.path \in Public /\ ef = {}
         \/ /\ r.path \notin Public /\ Authorized(r)
            /\ ef = IF LimiterOn THEN {"spent"} ELSE {}
  BY <1>1 DEF Handle, Sound, Coming, Counted, Timed, At, Early, Ends
<1>3. PICK next, did, plan, began, code :
        /\ \/ /\ r.path \in Public
              /\ next = "replying" /\ code = 200 /\ did = ef /\ plan = w /\ began = wa
           \/ /\ r.path = "flushcache" /\ next = "replying" /\ code = 200
              /\ did \in {ef, ef \cup {"flushed"}} /\ plan = w /\ began = wa
           \/ /\ r.path = "sub" /\ next = "replying" /\ code \in {400, 424}
              /\ did \in {ef, ef \cup {"flushed"}} /\ plan = w /\ began = wa
           \/ /\ r.path = "sub" /\ next = "converting" /\ code = 0
              /\ did \in {ef \cup {"fetched"}, ef \cup {"flushed", "fetched"}}
              /\ plan \in Seq(WaveNames) /\ Len(plan) <= MaxRuleWaves + 3 /\ plan # <<>>
              /\ began = clock
        /\ Local(c, next, a, plan, began, code, did, wt)
  <2>0. UNCHANGED <<accepted, waited>>
    BY DEF Handle
  <2>1. CASE r.path = "flushcache"
    <3>1. PICK did : did = ef \cup (IF CacheOn THEN {"flushed"} ELSE {})
      OBVIOUS
    <3>2. /\ Respond(c, 200) /\ UNCHANGED <<waves, waveAt>>
          /\ effects' = [effects EXCEPT ![c] = did]
      BY <1>1, <2>1, <3>1 DEF Handle, Does, At, Typed
    <3>3. Local(c, "replying", a, w, wa, 200, did, wt)
      BY <1>1, <2>0, <3>2, Same DEF Respond, To, Local, At
    <3>4. did \in {ef, ef \cup {"flushed"}}
      BY <3>1
    <3> QED BY <2>1, <3>3, <3>4
  <2>2. CASE r.path = "sub"
    <3>1. PICK flushed : flushed = IF r.url # "missing" /\ r.flush /\ CacheOn
                                     THEN {"flushed"} ELSE {}
      OBVIOUS
    <3>2. HandleSub(c)
      BY <1>1, <2>2 DEF Handle, At
    <3>3. CASE SubAnswer(r) # 0
      <4>1. PICK code : code = SubAnswer(r) /\ code \in {400, 424}
        BY <3>3 DEF SubAnswer
      <4>2. PICK did : did = ef \cup flushed
        OBVIOUS
      <4>3. /\ Respond(c, code) /\ UNCHANGED <<waves, waveAt>>
            /\ Does(c, flushed)
        BY <1>1, <3>1, <3>2, <3>3, <4>1 DEF HandleSub, At
      <4>4. effects' = [effects EXCEPT ![c] = did]
        BY <1>1, <4>2, <4>3 DEF Does, At, Typed
      <4>5. Local(c, "replying", a, w, wa, code, did, wt)
        BY <1>1, <2>0, <4>3, <4>4, Same DEF Respond, To, Local, At
      <4>6. did \in {ef, ef \cup {"flushed"}}
        BY <3>1, <4>2
      <4> QED BY <2>2, <4>1, <4>5, <4>6
    <3>4. CASE SubAnswer(r) = 0
      <4>1. PICK did : did = ef \cup (flushed \cup {"fetched"})
        OBVIOUS
      <4>2. PICK n \in 0 .. MaxRuleWaves : waves' = [waves EXCEPT ![c] = Waves(r, n)]
        BY <1>1, <3>2, <3>4 DEF HandleSub, At
      <4>3. PICK plan : plan = Waves(r, n)
        OBVIOUS
      <4>4. /\ To(c, "converting") /\ UNCHANGED status
            /\ waveAt' = [waveAt EXCEPT ![c] = clock]
            /\ Does(c, flushed \cup {"fetched"})
        BY <1>1, <3>1, <3>2, <3>4 DEF HandleSub, At
      <4>5. effects' = [effects EXCEPT ![c] = did]
        BY <1>1, <4>1, <4>4 DEF Does, At, Typed
      <4>6. PICK now : now = clock
        OBVIOUS
      <4>7. Local(c, "converting", a, plan, now, 0, did, wt)
        BY <1>1, <1>2, <2>0, <4>2, <4>3, <4>4, <4>5, <4>6, Same DEF To, Local, At
      <4>8. plan \in Seq(WaveNames) /\ Len(plan) <= MaxRuleWaves + 3 /\ plan # <<>>
        BY <4>3, WavesFacts
      <4>9. did \in {ef \cup {"fetched"}, ef \cup {"flushed", "fetched"}}
        BY <3>1, <4>1
      <4> QED BY <2>2, <4>6, <4>7, <4>8, <4>9
    <3> QED BY <3>3, <3>4
  <2>3. CASE r.path \in Public
    <3>1. r.path # "sub" /\ r.path # "flushcache"
      BY <2>3 DEF Public
    <3>2. Respond(c, 200) /\ UNCHANGED <<effects, waves, waveAt>>
      BY <1>1, <3>1 DEF Handle, At
    <3>3. Local(c, "replying", a, w, wa, 200, ef, wt)
      BY <1>1, <2>0, <3>2, Same DEF Respond, To, Local, At
    <3> QED BY <2>3, <3>3
  <2>4. r.path \in Public \cup {"sub", "flushcache"}
    BY <1>2 DEF Request
  <2> QED BY <2>1, <2>2, <2>3, <2>4
<1>4. "sub" \notin Public /\ "flushcache" \notin Public
  BY DEF Public
<1>5. ef \in SUBSET {"spent", "flushed", "fetched"} /\ "flushed" \notin ef /\ "fetched" \notin ef
  BY <1>2
<1>6. /\ next \in {"replying", "converting"} /\ code \in {0, 200, 400, 424}
      /\ did \in SUBSET {"spent", "flushed", "fetched"} /\ ef \subseteq did
      /\ plan \in Seq(WaveNames) /\ began \in 0 .. clock
  BY <1>1, <1>3, <1>5 DEF At, Typed
<1>7. /\ Typed' /\ Frame(c)
      /\ stage'[c] = next /\ accepted'[c] = a /\ waves'[c] = plan /\ waveAt'[c] = began
      /\ status'[c] = code /\ effects'[c] = did /\ waited'[c] = wt
  <2>1. buckets' \in [Keys -> Bucket \cup {NoBucket}]
    BY DEF Handle, Typed
  <2>2. next \in Stages /\ code \in Codes
    BY <1>6 DEF Stages, Codes
  <2> QED BY <1>1, <1>3, <1>6, <2>1, <2>2, LocalFacts DEF At
<1>8. /\ Authorized(r)' = Authorized(r) /\ LimiterOn' = LimiterOn
  BY DEF Authorized, LimiterOn
<1>9. Told(c, r)'
  <2>1. CASE r.path \in Public
    <3>1. code = 200 /\ did = {} /\ r.path # "sub"
      BY <1>2, <1>3, <1>4, <2>1
    <3> QED BY <1>7, <3>1 DEF Told
  <2>2. CASE r.path \notin Public
    <3>1. Authorized(r) /\ (LimiterOn => "spent" \in did)
      BY <1>2, <1>3, <2>2
    <3>2. code = 200 => r.path # "sub"
      BY <1>3, <1>4, <2>2
    <3>3. code = 400 => "fetched" \notin did
      BY <1>3, <1>5, <2>2
    <3>4. code \notin {401, 429}
      BY <1>6
    <3> QED BY <1>7, <1>8, <2>2, <3>1, <3>2, <3>3, <3>4 DEF Told
  <2> QED BY <2>1, <2>2
<1>10. Coming(c, r)'
  BY <1>2, <1>3, <1>4, <1>7 DEF Coming, Ends
<1>11. Counted(c)'
  BY <1>2, <1>3, <1>7, ServiceAssumption DEF Counted, Early
<1>12. Timed(c)'
  <2>1. clock \in Nat /\ clock' = clock /\ a = clock /\ wt = 0 /\ Timeout \in Nat
    BY <1>2, ServiceAssumption DEF Typed
  <2>2. wt * Timeout = 0 /\ clock - a = 0
    BY <2>1
  <2>3. next = "converting" => began = clock
    BY <1>3
  <2>4. began - a = 0 \/ next # "converting"
    BY <2>1, <2>3
  <2>5. waveAt'[c] - accepted'[c] <= waited'[c] * Timeout \/ next # "converting"
    BY <1>7, <2>2, <2>4
  <2>6. clock' - waveAt'[c] <= Timeout \/ next # "converting"
    BY <1>7, <2>1, <2>3
  <2> QED BY <1>6, <1>7, <2>1, <2>2, <2>5, <2>6 DEF Timed
<1>13. Sound(c)' /\ Onward(c)
  BY <1>1, <1>2, <1>6, <1>7, <1>9, <1>10, <1>11, <1>12
     DEF Sound, At, Onward, UnderWay, Ends
<1> QED BY <1>7, <1>13 DEF Advances

LEMMA EndWaveAdvances ==
  ASSUME Typed, NEW c \in Clients, Sound(c), EndWave(c),
         UNCHANGED <<launch, process, cfg, clock, signaled>>
  PROVE  Advances(c)
<1>1. PICK r, s, a, w, wa, st, ef, wt : At(c, r, s, a, w, wa, st, ef, wt)
  BY AtSome
<1>2. /\ s = "converting" /\ st = 0 /\ w # <<>> /\ wt + Len(w) <= MaxRuleWaves + 3
      /\ wa - a <= wt * Timeout /\ clock - wa <= Timeout
      /\ r \in Request /\ r.path = "sub" /\ "fetched" \in ef
      /\ Authorized(r) /\ (LimiterOn => "spent" \in ef)
  BY <1>1 DEF EndWave, Sound, Told, Coming, Counted, Timed, At, Ends
<1>3. PICK left, more : left = Tail(w) /\ more = wt + 1
  OBVIOUS
<1>4. left \in Seq(WaveNames) /\ Len(left) = Len(w) - 1 /\ Len(w) \in Nat
  BY <1>1, <1>2, <1>3, HeadTailProperties, LenProperties DEF At
<1>5. /\ waves' = [waves EXCEPT ![c] = left]
      /\ UNCHANGED <<buckets, accepted, effects>>
      /\ \/ left # <<>> /\ waveAt' = [waveAt EXCEPT ![c] = clock] /\ UNCHANGED <<stage, status>>
         \/ left = <<>> /\ Respond(c, 200) /\ UNCHANGED waveAt
         \/ Respond(c, 422) /\ UNCHANGED waveAt
         \/ Respond(c, 424) /\ UNCHANGED waveAt
  BY <1>1, <1>3 DEF EndWave, At
<1>6. waited' = [waited EXCEPT ![c] = more]
  BY <1>1, <1>3 DEF EndWave, At, Typed
<1>7. PICK next, began, code :
        /\ \/ next = "converting" /\ left # <<>> /\ began = clock /\ code = 0
           \/ next = "replying" /\ began = wa /\ code = 200 /\ left = <<>>
           \/ next = "replying" /\ began = wa /\ code \in {422, 424}
        /\ Local(c, next, a, left, began, code, ef, more)
  <2>1. CASE /\ left # <<>> /\ waveAt' = [waveAt EXCEPT ![c] = clock]
             /\ UNCHANGED <<stage, status>>
    <3>1. PICK now : now = clock
      OBVIOUS
    <3>2. Local(c, "converting", a, left, now, 0, ef, more)
      BY <1>1, <1>2, <1>5, <1>6, <2>1, <3>1, Same DEF Local, At
    <3> QED BY <2>1, <3>1, <3>2
  <2>2. ASSUME NEW code \in {200, 422, 424}, Respond(c, code), UNCHANGED waveAt
        PROVE  Local(c, "replying", a, left, wa, code, ef, more)
    BY <1>1, <1>2, <1>5, <1>6, <2>2, Same DEF Local, Respond, To, At
  <2> QED BY <1>5, <2>1, <2>2
<1>8. /\ next \in {"converting", "replying"} /\ code \in {0, 200, 422, 424}
      /\ began \in 0 .. clock /\ more \in Nat /\ more = wt + 1
  BY <1>1, <1>3, <1>7 DEF At, Typed
<1>9. /\ Typed' /\ Frame(c)
      /\ stage'[c] = next /\ accepted'[c] = a /\ waves'[c] = left /\ waveAt'[c] = began
      /\ status'[c] = code /\ effects'[c] = ef /\ waited'[c] = more
  <2>1. buckets' \in [Keys -> Bucket \cup {NoBucket}]
    BY <1>5 DEF Typed
  <2>2. next \in Stages /\ code \in Codes
    BY <1>8 DEF Stages, Codes
  <2>3. a \in 0 .. clock /\ ef \in SUBSET {"spent", "flushed", "fetched"}
    BY <1>1 DEF At
  <2>4. Local(c, next, a, left, began, code, ef, more)
    BY <1>7
  <2> QED BY <1>4, <1>8, <2>1, <2>2, <2>3, <2>4, LocalFacts
<1>10. Authorized(r)' /\ LimiterOn' = LimiterOn /\ r.path \notin Public
  BY <1>2 DEF Authorized, LimiterOn, Public
<1>11. Told(c, r)'
  BY <1>2, <1>7, <1>9, <1>10 DEF Told
<1>12. Coming(c, r)'
  BY <1>2, <1>7, <1>9 DEF Coming, Ends
<1>13. Counted(c)'
  <2>1. more + Len(left) <= MaxRuleWaves + 3
    <3>1. wt \in Nat /\ MaxRuleWaves \in Nat
      BY <1>1, ServiceAssumption DEF At
    <3> QED BY <1>2, <1>4, <1>8, <3>1
  <2>2. next \notin Early /\ (next = "converting" => left # <<>>)
    BY <1>7 DEF Early
  <2> QED BY <1>9, <2>1, <2>2 DEF Counted
<1>14. clock - a <= more * Timeout
  <2>1. PICK t : t = wt * Timeout
    OBVIOUS
  <2>2. t \in Nat /\ more * Timeout = t + Timeout /\ Timeout \in Nat
    <3>1. \A x, y \in Nat : x * y \in Nat /\ (x + 1) * y = x * y + y
      OBVIOUS
    <3>2. wt \in Nat /\ Timeout \in Nat
      BY <1>1, ServiceAssumption DEF At
    <3> QED BY <1>8, <2>1, <3>1, <3>2
  <2>3. clock \in Nat /\ a \in Nat /\ wa \in Nat
    BY <1>1 DEF At, Typed
  <2> QED BY <1>2, <2>1, <2>2, <2>3
<1>15. Timed(c)'
  <2>1. clock' = clock /\ clock \in Nat /\ clock - clock = 0 /\ Timeout \in Nat
    BY ServiceAssumption DEF Typed
  <2> QED BY <1>7, <1>8, <1>9, <1>14, <2>1 DEF Timed
<1>16. Sound(c)' /\ Onward(c)
  BY <1>1, <1>2, <1>8, <1>9, <1>11, <1>12, <1>13, <1>15
     DEF Sound, At, Onward, UnderWay, Ends
<1> QED BY <1>9, <1>16 DEF Advances

\* HangUp, Abandon and Reply only change the stage.
LEMMA LeavingAdvances ==
  ASSUME Typed, NEW c \in Clients, Sound(c), HangUp(c) \/ Abandon(c) \/ Reply(c),
         UNCHANGED <<launch, process, cfg, clock, signaled>>
  PROVE  Advances(c)
<1>1. PICK r, s, a, w, wa, st, ef, wt : At(c, r, s, a, w, wa, st, ef, wt)
  BY AtSome
<1>2. PICK next :
        /\ \/ s = "converting" /\ next = "canceled"
           \/ s = "canceled" /\ next = "gone"
           \/ s = "replying" /\ next = "answered"
           \/ s = "replying" /\ next = "late" /\ clock - a >= WriteTimeout
        /\ stage' = [stage EXCEPT ![c] = next]
  BY <1>1 DEF HangUp, Abandon, SeesCancel, Reply, To, At
<1>3. Local(c, next, a, w, wa, st, ef, wt)
  <2>1. UNCHANGED <<accepted, waves, waveAt, status, effects, waited>>
    BY DEF HangUp, Abandon, Reply
  <2> QED BY <1>1, <1>2, <2>1, Same DEF Local, At
<1>4. /\ Typed' /\ Frame(c)
      /\ stage'[c] = next /\ accepted'[c] = a /\ waves'[c] = w /\ waveAt'[c] = wa
      /\ status'[c] = st /\ effects'[c] = ef /\ waited'[c] = wt
  <2>1. buckets' \in [Keys -> Bucket \cup {NoBucket}]
    BY DEF HangUp, Abandon, Reply, Typed
  <2>2. next \in Stages
    BY <1>2 DEF Stages, Ends
  <2> QED BY <1>1, <1>3, <2>1, <2>2, LocalFacts DEF At
<1>5. Told(c, r) /\ Coming(c, r) /\ Counted(c) /\ Timed(c)
  BY <1>1 DEF Sound, At
<1>6. Told(c, r)'
  BY <1>1, <1>4, <1>5 DEF Told, At, Authorized, LimiterOn
<1>7. Coming(c, r)'
  BY <1>1, <1>2, <1>4, <1>5 DEF Coming, At, Ends
<1>8. Counted(c)'
  BY <1>1, <1>2, <1>4, <1>5 DEF Counted, At, Early
<1>9. Timed(c)'
  <2>1. next \notin {"authenticating", "limiting", "handling", "converting", "replying"}
    BY <1>2
  <2>2. next = "late" => wt * Timeout >= WriteTimeout
    <3>1. ASSUME next = "late" PROVE clock - a <= wt * Timeout /\ clock - a >= WriteTimeout
      BY <1>1, <1>2, <1>5, <3>1 DEF Timed, At
    <3>2. clock - a \in Int /\ WriteTimeout \in Nat /\ wt * Timeout \in Nat
      BY <1>1, ServiceAssumption DEF At, Typed
    <3> QED BY <3>1, <3>2
  <2> QED BY <1>4, <2>1, <2>2 DEF Timed
<1>10. Sound(c)' /\ Onward(c)
  BY <1>1, <1>2, <1>4, <1>6, <1>7, <1>8, <1>9 DEF Sound, At, Onward, UnderWay, Ends
<1> QED BY <1>4, <1>10 DEF Advances

-----------------------------------------------------------------------------
(* The steps of the service.                                               *)

LEMMA RequestStep ==
  ASSUME IInv, NEW c \in Clients, HandlerStep(c) \/ ClientStep(c)
  PROVE  IInv'
<1> USE DEF IInv
<1>1. process \in Running /\ UNCHANGED <<launch, process, cfg, clock, signaled>>
  BY DEF HandlerStep, ClientStep
<1>2. Advances(c)
  BY <1>1, AcceptAdvances, AuthenticateAdvances, LimitAdvances, HandleAdvances,
     EndWaveAdvances, LeavingAdvances DEF HandlerStep, ClientStep
<1>3. Typed' /\ Frame(c) /\ Sound(c)' /\ Onward(c)
  BY <1>2 DEF Advances
<1>4. ASSUME NEW d \in Clients PROVE Sound(d)'
  BY <1>3, OthersSound
<1>5. Ending'
  <2>1. process \notin {"loading", "loaded"}
    BY <1>3 DEF Ending, Onward, UnderWay
  <2>2. ASSUME NEW d \in Clients PROVE stage'[d] # "cut"
    BY <1>1, <1>3 DEF Ending, Onward, Frame
  <2>3. ASSUME process = "draining", clock > signaled, NEW d \in Clients, UnderWay(d)'
        PROVE  "fetched" \in effects'[d]
    <3>1. UnderWay(d) /\ (d = c => effects[c] \subseteq effects'[c])
      BY <1>3, <2>3 DEF Onward, Frame, UnderWay
    <3>2. "fetched" \in effects[d]
      BY <2>3, <3>1 DEF Ending
    <3> QED BY <1>3, <3>1, <3>2 DEF Frame
  <2>4. process # "graceful"
    BY <1>1 DEF Running
  <2> QED BY <1>1, <2>1, <2>2, <2>3, <2>4 DEF Ending, CutOnly
<1>6. Configured'
  BY <1>1 DEF Configured, Valid, Entries
<1> QED BY <1>3, <1>4, <1>5, <1>6

\* Sound does not look at the process.
LEMMA ProcessLeaves ==
  ASSUME NEW c \in Clients, Sound(c),
         UNCHANGED <<launch, cfg, clock, requestVars>>
  PROVE  Sound(c)'
BY DEF Sound, Told, Coming, Counted, Timed, Authorized, LimiterOn, requestVars

\* A request that is cut has passed the checks it has passed.
LEMMA ExitSound ==
  ASSUME IInv, NEW how, Exit(how), cfg' = cfg, NEW c \in Clients
  PROVE  /\ Sound(c)'
         /\ stage'[c] = IF UnderWay(c) THEN "cut" ELSE stage[c]
<1>1. stage'[c] = IF UnderWay(c) THEN "cut" ELSE stage[c]
  BY DEF Exit
<1>2. UNCHANGED <<launch, clock, buckets, accepted, waves, waveAt, status,
                  effects, waited, cfg>>
  BY DEF Exit
<1>3. Sound(c)
  BY DEF IInv
<1>4. PICK r : r = launch.request[c]
  OBVIOUS
<1>5. Told(c, r) /\ Coming(c, r) /\ Counted(c) /\ Timed(c)
  BY <1>3, <1>4 DEF Sound
<1>6. Told(c, r)'
  BY <1>2, <1>5 DEF Told, Authorized, LimiterOn
<1>7. Coming(c, r)'
  BY <1>1, <1>2, <1>5 DEF Coming, UnderWay, Ends, Authorized, LimiterOn
<1>8. Counted(c)' /\ Timed(c)'
  BY <1>1, <1>2, <1>5 DEF Counted, Timed, UnderWay, Ends, Early
<1> QED BY <1>1, <1>2, <1>4, <1>6, <1>7, <1>8 DEF Sound

LEMMA ExitTyped ==
  ASSUME IInv, NEW how \in Exits, Exit(how), UNCHANGED <<cfg, signaled>>
  PROVE  Typed'
<1>1. stage' \in [Clients -> Stages]
  BY DEF Exit, IInv, Typed, Stages, Ends
<1> QED BY <1>1 DEF Exit, IInv, Typed

LEMMA ExitStep ==
  ASSUME IInv, Killed \/ ServeFails \/ GracefulExit \/ ForcedExit
              \/ (process = "loading" /\ Exit("fatal") /\ UNCHANGED <<cfg, signaled>>)
  PROVE  IInv'
<1> USE DEF IInv
<1>1. PICK how :
        /\ Exit(how) /\ UNCHANGED <<cfg, signaled>>
        /\ \/ how = "killed" /\ process \in {"loading", "loaded"}
           \/ how = "fatal"
           \/ how = "graceful" /\ process = "draining" /\ Drained
           \/ how = "forced" /\ process = "draining" /\ GraceOver /\ ~Drained
        /\ process \in Running
  BY DEF Killed, ServeFails, GracefulExit, ForcedExit, Running
<1>2. how \in Exits /\ process' = how
  BY <1>1 DEF Exits, Exit
<1>3. Typed'
  BY <1>1, <1>2, ExitTyped
<1>4. ASSUME NEW c \in Clients PROVE Sound(c)'
  BY <1>1, ExitSound
<1>5. UNCHANGED <<clock, signaled, effects>>
  BY <1>1 DEF Exit
<1>6. ASSUME NEW c \in Clients
      PROVE  stage'[c] = IF UnderWay(c) THEN "cut" ELSE stage[c]
  BY <1>1, ExitSound
<1>7. ASSUME NEW c \in Clients PROVE CutOnly(c)'
  <2>0. stage[c] # "cut"
    BY <1>1 DEF Ending
  <2>1. CASE how = "fatal"
    BY <1>2, <2>1 DEF CutOnly
  <2>2. CASE how = "killed" /\ process \in {"loading", "loaded"}
    <3>1. stage[c] = "absent"
      BY <2>2 DEF Ending
    <3>2. stage'[c] # "cut"
      BY <1>6, <3>1 DEF UnderWay
    <3> QED BY <3>2 DEF CutOnly
  <2>3. CASE how = "graceful" /\ process = "draining" /\ Drained
    <3>1. stage'[c] # "cut"
      BY <1>6, <2>0, <2>3 DEF Drained
    <3> QED BY <3>1 DEF CutOnly
  <2>4. CASE how = "forced" /\ process = "draining" /\ GraceOver /\ ~Drained
    <3>1. clock = signaled + Grace /\ clock > signaled
      <4>1. clock <= signaled + Grace /\ clock >= signaled + Grace
        BY <2>4 DEF Ending, GraceOver
      <4>2. clock \in Nat /\ signaled \in Nat /\ Grace \in Nat \ {0}
        BY ServiceAssumption DEF Typed
      <4> QED BY <4>1, <4>2
    <3>2. UnderWay(c) => "fetched" \in effects[c]
      BY <2>4, <3>1 DEF Ending
    <3>3. stage'[c] = "cut" => UnderWay(c)
      BY <1>6, <2>0
    <3> QED BY <1>2, <1>5, <2>4, <3>1, <3>2, <3>3 DEF CutOnly
  <2> QED BY <1>1, <2>1, <2>2, <2>3, <2>4
<1>8. ASSUME how = "graceful", NEW c \in Clients
      PROVE  stage'[c] \in {"absent", "answered", "gone", "late"}
  <2>1. ~UnderWay(c)
    BY <1>1, <1>8 DEF Drained
  <2>2. stage[c] # "cut"
    BY <1>1 DEF Ending
  <2> QED BY <1>6, <2>1, <2>2 DEF UnderWay, Ends
<1>9. Ending'
  BY <1>1, <1>2, <1>7, <1>8 DEF Ending, Running
<1>10. Configured'
  BY <1>1, <1>2 DEF Configured, Running
<1> QED BY <1>3, <1>4, <1>9, <1>10

\* Whatever the settings become, a request that has not come is sound.
LEMMA AbsentSound ==
  ASSUME IInv, NEW c \in Clients, stage[c] = "absent",
         UNCHANGED <<launch, clock, requestVars>>
  PROVE  Sound(c)'
<1>1. effects[c] = {} /\ status[c] = 0 /\ waited[c] = 0 /\ waves[c] = <<>>
      /\ waited[c] + Len(waves[c]) <= MaxRuleWaves + 3
  BY DEF IInv, Sound, Coming, Counted, Early, Ends
<1> QED BY <1>1 DEF Sound, Told, Coming, Counted, Timed, requestVars

LEMMA EntriesFacts ==
  ASSUME Typed, NEW f \in Fields
  PROVE  Entries[f] \in FileValuesOf(f) /\ launch.var[f] \in EnvValuesOf(f)
BY ServiceAssumption DEF Typed, Entries, FileValuesOf

LEMMA LoadStep == ASSUME IInv, Load PROVE IInv'
<1> USE DEF IInv
<1>1. CASE process = "loading" /\ Exit("fatal") /\ UNCHANGED <<cfg, signaled>>
  BY <1>1, ExitStep
<1>2. CASE /\ process = "loading" /\ process' = "loaded"
           /\ cfg' = Loaded(Entries, launch.var) /\ Valid(Loaded(Entries, launch.var))
           /\ UNCHANGED <<launch, clock, buckets, requestVars, signaled>>
  <2>1. cfg' \in [Fields -> Setting]
    <3>1. PICK e, v : e = Entries /\ v = launch.var
      OBVIOUS
    <3>2. \A f \in Fields : Loaded(e, v)[f] \in Setting
      BY <3>1, EntriesFacts, LoadedFacts
    <3>3. PICK loaded : loaded = Loaded(e, v)
      OBVIOUS
    <3>4. loaded = [f \in Fields |-> loaded[f]]
      BY <3>3 DEF Loaded, Backfilled
    <3> QED BY <1>2, <3>1, <3>2, <3>3, <3>4
  <2>2. Typed'
    BY <1>2, <2>1 DEF Typed, Running, requestVars
  <2>3. \A c \in Clients : stage[c] = "absent"
    BY <1>2 DEF Ending
  <2>4. ASSUME NEW c \in Clients PROVE Sound(c)'
    BY <1>2, <2>3, AbsentSound
  <2>5. Ending'
    BY <1>2, <2>3 DEF Ending, CutOnly, requestVars
  <2>6. Configured'
    <3>1. Valid(cfg)'
      BY <1>2 DEF Valid
    <3>2. Entries' = Entries
      BY <1>2 DEF Entries
    <3> QED BY <1>2, <3>1, <3>2 DEF Configured
  <2> QED BY <2>2, <2>4, <2>5, <2>6
<1> QED BY <1>1, <1>2 DEF Load

LEMMA StartStep == ASSUME IInv, Start PROVE IInv'
<1> USE DEF IInv
<1>1. PICK final : final = UnderFlag(cfg, launch.listen)
  OBVIOUS
<1>2. /\ process = "loaded" /\ cfg' = final
      /\ UNCHANGED <<launch, clock, signaled, buckets, requestVars>>
      /\ \/ process' = "fatal"
         \/ Valid(final) /\ Panics(final)
         \/ process' = "serving" /\ Valid(final)
  BY <1>1 DEF Start
<1>3. ~ (Valid(final) /\ Panics(final))
  BY DEF Valid, Panics, Proxies, Refused, Fields, Lists
<1>4. final \in [Fields -> Setting]
  <2>1. CASE launch.listen \in {"absent", "empty"}
    BY <1>1, <2>1 DEF UnderFlag, Typed
  <2>2. CASE launch.listen \notin {"absent", "empty"}
    <3>1. launch.listen \in ValuesOf("listen") /\ "listen" \in Fields
      BY <2>2, ServiceAssumption DEF Typed, Fields, Texts
    <3>2. [from |-> "flag", value |-> launch.listen] \in Setting
      BY <3>1 DEF Setting
    <3> QED BY <1>1, <2>2, <3>1, <3>2 DEF UnderFlag, Typed
  <2> QED BY <2>1, <2>2
<1>5. Typed'
  BY <1>2, <1>3, <1>4 DEF Typed, Running, Exits, requestVars
<1>6. \A c \in Clients : stage[c] = "absent"
  BY <1>2 DEF Ending
<1>7. ASSUME NEW c \in Clients PROVE Sound(c)'
  BY <1>2, <1>6, AbsentSound
<1>8. Ending'
  BY <1>2, <1>3, <1>6 DEF Ending, CutOnly, requestVars
<1>9. Configured'
  <2>1. cfg = Loaded(Entries, launch.var)
    BY <1>2 DEF Configured
  <2>2. UnderFlag(Loaded(Entries, launch.var), launch.listen)'
          = UnderFlag(Loaded(Entries, launch.var), launch.listen)
    BY <1>2 DEF UnderFlag, Entries
  <2>3. Valid(final) => Valid(cfg)'
    BY <1>2 DEF Valid
  <2> QED BY <1>1, <1>2, <1>3, <2>1, <2>2, <2>3 DEF Configured, Running
<1> QED BY <1>5, <1>7, <1>8, <1>9

LEMMA SignalStep == ASSUME IInv, Signal PROVE IInv'
<1> USE DEF IInv
<1>1. /\ process = "serving" /\ process' = "draining" /\ signaled' = clock
      /\ UNCHANGED <<launch, cfg, clock, buckets, requestVars>>
  BY DEF Signal
<1>2. Typed'
  BY <1>1 DEF Typed, Running, requestVars
<1>3. ASSUME NEW c \in Clients PROVE Sound(c)'
  BY <1>1, ProcessLeaves
<1>4. Ending'
  <2>1. clock \in Nat /\ Grace \in Nat
    BY ServiceAssumption DEF Typed
  <2>2. clock' <= signaled' + Grace /\ ~ (clock' > signaled')
    BY <1>1, <2>1
  <2>3. \A c \in Clients : stage'[c] # "cut"
    BY <1>1 DEF Ending, Running, requestVars
  <2> QED BY <1>1, <2>2, <2>3 DEF Ending, CutOnly
<1>5. Configured'
  BY <1>1 DEF Configured, Valid, Entries, Running
<1> QED BY <1>2, <1>3, <1>4, <1>5

\* Time passes only for conversions that are within their timeout.
LEMMA TickStep == ASSUME IInv, Tick PROVE IInv'
<1> USE DEF IInv
<1>1. /\ clock < MaxClock /\ clock' = clock + 1
      /\ \/ process = "serving"
         \/ process = "draining" /\ ~GraceOver
      /\ UNCHANGED <<launch, process, cfg, signaled, buckets, requestVars>>
      /\ \A c \in Clients : UnderWay(c) => stage[c] = "converting" /\ InTime(c)
  BY DEF Tick
<1>2. clock \in Nat /\ MaxClock \in Nat /\ 0 .. clock \subseteq 0 .. clock + 1
      /\ clock + 1 \in 0 .. MaxClock
  BY <1>1, ServiceAssumption DEF Typed
<1>3. Typed'
  <2>1. accepted \in [Clients -> 0 .. clock + 1] /\ waveAt \in [Clients -> 0 .. clock + 1]
        /\ signaled \in 0 .. clock + 1
    BY <1>2 DEF Typed
  <2> QED BY <1>1, <1>2, <2>1 DEF Typed, requestVars
<1>4. ASSUME NEW c \in Clients PROVE Sound(c)'
  <2>1. PICK r : r = launch.request[c]
    OBVIOUS
  <2>2. Told(c, r) /\ Coming(c, r) /\ Counted(c) /\ Timed(c)
    BY <2>1 DEF Sound
  <2>3. Told(c, r)' /\ Coming(c, r)' /\ Counted(c)'
    BY <1>1, <2>2 DEF Told, Coming, Counted, Authorized, LimiterOn, requestVars
  <2>4. Timed(c)'
    <3>1. CASE UnderWay(c)
      <4>1. stage[c] = "converting" /\ clock - waveAt[c] < Timeout
        BY <1>1, <3>1 DEF InTime
      <4>2. (clock + 1) - waveAt[c] <= Timeout
        <5>1. waveAt[c] \in Nat /\ Timeout \in Nat
          BY ServiceAssumption DEF Typed
        <5> QED BY <1>2, <4>1, <5>1
      <4>3. /\ stage'[c] = "converting" /\ waveAt'[c] = waveAt[c]
            /\ accepted'[c] = accepted[c] /\ waited'[c] = waited[c]
            /\ clock' = clock + 1
        BY <1>1, <4>1 DEF requestVars
      <4>4. waveAt[c] - accepted[c] <= waited[c] * Timeout
        BY <2>2, <4>1 DEF Timed
      <4>5. waveAt'[c] - accepted'[c] <= waited'[c] * Timeout
        BY <4>3, <4>4
      <4>6. clock' - waveAt'[c] <= Timeout
        BY <4>2, <4>3
      <4>7. stage'[c] = "converting"
        BY <4>3
      <4> QED BY <4>5, <4>6, <4>7 DEF Timed
    <3>2. CASE ~UnderWay(c)
      BY <1>1, <2>2, <3>2 DEF Timed, UnderWay, Ends, requestVars
    <3> QED BY <3>1, <3>2
  <2> QED BY <1>1, <2>1, <2>3, <2>4 DEF Sound
<1>5. Ending'
  <2>1. process = "draining" => clock' <= signaled' + Grace
    <3>1. signaled \in Nat /\ Grace \in Nat
      BY ServiceAssumption DEF Typed
    <3> QED BY <1>1, <1>2, <3>1 DEF GraceOver
  <2>2. ASSUME NEW c \in Clients, UnderWay(c) PROVE "fetched" \in effects[c]
    <3>1. stage[c] = "converting"
      BY <1>1, <2>2
    <3> QED BY <3>1 DEF Sound, Coming
  <2>3. \A c \in Clients : UnderWay(c)' = UnderWay(c)
    BY <1>1 DEF UnderWay, requestVars
  <2>4. \A c \in Clients : stage'[c] # "cut"
    BY <1>1 DEF Ending, Running, requestVars
  <2> QED BY <1>1, <2>1, <2>2, <2>3, <2>4 DEF Ending, CutOnly, requestVars
<1>6. Configured'
  BY <1>1 DEF Configured, Valid, Entries
<1> QED BY <1>3, <1>4, <1>5, <1>6

LEMMA InitInv == Init => IInv
<1> SUFFICES ASSUME Init PROVE IInv
  OBVIOUS
<1>1. Typed
  <2>1. \A f \in Fields : Default(f) \in Setting
    BY ValuesFacts DEF Setting
  <2>2. cfg \in [Fields -> Setting]
    BY <2>1 DEF Init
  <2>3. 0 \in 0 .. MaxClock /\ <<>> \in Seq(WaveNames)
    BY ServiceAssumption, EmptySeq
  <2> QED BY <2>2, <2>3 DEF Init, Typed, Running, Stages, Codes
<1>2. ASSUME NEW c \in Clients PROVE Sound(c)
  <2>1. Len(<<>>) = 0 /\ MaxRuleWaves \in Nat
    BY ServiceAssumption
  <2> QED BY <2>1 DEF Init, Sound, Told, Coming, Counted, Timed, Early, Ends
<1>3. Ending /\ Configured
  BY DEF Init, Ending, CutOnly, Configured, Running
<1> QED BY <1>1, <1>2, <1>3 DEF IInv

LEMMA StepInv == IInv /\ [Next]_vars => IInv'
<1> SUFFICES ASSUME IInv, [Next]_vars PROVE IInv'
  OBVIOUS
<1>1. CASE UNCHANGED vars
  <2>1. Typed'
    BY <1>1 DEF IInv, Typed, vars, requestVars
  <2>2. ASSUME NEW c \in Clients PROVE Sound(c)'
    BY <1>1, ProcessLeaves DEF IInv, vars
  <2>3. Ending' /\ Configured'
    BY <1>1 DEF IInv, Ending, CutOnly, UnderWay, Configured, Valid, Entries, vars,
                requestVars
  <2> QED BY <2>1, <2>2, <2>3 DEF IInv
<1> QED BY <1>1, RequestStep, ExitStep, LoadStep, StartStep, SignalStep, TickStep
        DEF Next, ProcessStep

LEMMA InvAlways == Spec => []IInv
BY InitInv, StepInv, PTL DEF Spec

-----------------------------------------------------------------------------
(* What follows.                                                           *)

(* TypeOK: every variable of the service keeps its type, whose bound on    *)
(* waited is the number of rounds of fetches that a conversion can wait    *)
(* for.                                                                    *)
THEOREM TypeCorrect == Spec => []TypeOK
<1>1. IInv => TypeOK
  <2> SUFFICES ASSUME IInv PROVE TypeOK
    OBVIOUS
  <2>1. ASSUME NEW c \in Clients PROVE waited[c] \in 0 .. MaxRuleWaves + 3
    <3>1. /\ waited[c] \in Nat /\ Len(waves[c]) \in Nat
          /\ waited[c] + Len(waves[c]) <= MaxRuleWaves + 3
      BY LenProperties DEF IInv, Typed, Sound, Counted
    <3> QED BY <3>1, ServiceAssumption
  <2>2. waited \in [Clients -> 0 .. MaxRuleWaves + 3]
    BY <2>1 DEF IInv, Typed
  <2> QED BY <2>2 DEF IInv, Typed, TypeOK, Stages, Codes, WaveNames
<1> QED BY <1>1, InvAlways, PTL

(* SettingsSound: a process that serves has each of its settings from the  *)
(* most specific layer that says something of it, and none that Validate   *)
(* refuses, and New never panics.                                          *)
THEOREM SettingsSoundAlways == Spec => []SettingsSound
<1>1. IInv => SettingsSound
  <2> SUFFICES ASSUME IInv PROVE SettingsSound
    OBVIOUS
  <2>1. process # "panicked"
    BY DEF IInv, Configured
  <2>2. ASSUME process \in {"serving", "draining"}, NEW f \in Fields
        PROVE  /\ \/ cfg[f].from = Decisive(f)
                     /\ cfg[f].value = Said(Decisive(f), f)
                  \/ f \in Limits /\ Said(Decisive(f), f) = "empty"
                     /\ cfg[f] = Default(f)
               /\ cfg[f].value \notin {"bad", "negative"} \/ f = "cache_ttl"
               /\ f \in Limits => cfg[f].value # "empty"
    <3>1. /\ cfg = UnderFlag(Loaded(Entries, launch.var), launch.listen)
          /\ ~Refused(f, cfg[f].value)
      BY <2>2 DEF IInv, Configured, Valid, Running
    <3>2. PICK entry, var, flag : entry = Entries /\ var = launch.var /\ flag = launch.listen
      OBVIOUS
    <3>3. /\ entry[f] \in FileValuesOf(f) /\ var[f] \in EnvValuesOf(f)
          /\ flag \in ValuesOf("listen") \cup {"absent"}
      BY <3>2, EntriesFacts, ServiceAssumption DEF IInv, Typed
    <3>4. PICK e, v : e = entry[f] /\ v = var[f]
      OBVIOUS
    <3>5. PICK loaded : loaded = Loaded(entry, var)[f]
      OBVIOUS
    <3>6. /\ loaded = IF f \in Limits /\ Given(f, e, v).value = "empty" THEN Default(f)
                                                                        ELSE Given(f, e, v)
          /\ loaded.value \in ValuesOf(f)
          /\ f \in Limits => loaded.value # "empty"
      BY <3>3, <3>4, <3>5, LoadedFacts
    <3>7. CASE f = "listen" /\ flag \notin {"absent", "empty"}
      <4>1. cfg[f] = [from |-> "flag", value |-> flag]
        <5>1. Loaded(entry, var) = [g \in Fields |-> Loaded(entry, var)[g]]
          BY DEF Loaded, Backfilled
        <5> QED BY <3>1, <3>2, <3>7, <5>1 DEF UnderFlag
      <4>2. Said("flag", f) = flag /\ Decisive(f) = "flag"
        BY <3>2, <3>7 DEF Said, Decisive
      <4>3. f \notin Limits /\ flag \in ValuesOf(f)
        BY <3>3, <3>7 DEF Limits
      <4> QED BY <3>1, <4>1, <4>2, <4>3, ValuesFacts
    <3>8. CASE ~ (f = "listen" /\ flag \notin {"absent", "empty"})
      <4>1. cfg[f] = loaded
        BY <3>1, <3>2, <3>5, <3>8 DEF UnderFlag
      <4>2. Said("flag", f) = "absent"
        BY <3>2, <3>8 DEF Said
      <4>3. Given(f, e, v).from = Decisive(f) /\ Given(f, e, v).value = Said(Decisive(f), f)
        <5>1. Said("env", f) = IF Noticed(f, v) THEN v ELSE "absent"
          BY <3>2, <3>4 DEF Said
        <5>2. Said("file", f) = e /\ Said("default", f) = Default(f).value
          BY <3>2, <3>4 DEF Said
        <5>3. Noticed(f, v) => v # "absent"
          BY DEF Noticed
        <5>4. CASE Noticed(f, v)
          BY <4>2, <5>1, <5>3, <5>4 DEF Given, Decisive
        <5>5. CASE ~Noticed(f, v) /\ e # "absent"
          BY <4>2, <5>1, <5>2, <5>5 DEF Given, Decisive
        <5>6. CASE ~Noticed(f, v) /\ e = "absent"
          BY <4>2, <5>1, <5>2, <5>6, ValuesFacts DEF Given, Decisive
        <5> QED BY <5>4, <5>5, <5>6
      <4>4. loaded.value \notin {"bad", "negative"} \/ f = "cache_ttl"
        BY <3>1, <3>6, <4>1, ValuesFacts
      <4> QED BY <3>6, <4>1, <4>3, <4>4
    <3> QED BY <3>7, <3>8
  <2> QED BY <2>1, <2>2 DEF SettingsSound
<1> QED BY <1>1, InvAlways, PTL

(* StatusTellsTruth: a request that is turned away has no effect, and a    *)
(* conversion is answered with 200 only after all its rounds of fetches.   *)
THEOREM StatusTellsTruthAlways == Spec => []StatusTellsTruth
<1>1. IInv => StatusTellsTruth
  <2> SUFFICES ASSUME IInv, NEW c \in Clients
               PROVE  LET r == launch.request[c]
                      IN  /\ status[c] \in {401, 429} => effects[c] = {}
                          /\ status[c] = 400 => "fetched" \notin effects[c]
                          /\ effects[c] # {} => Authorized(r)
                          /\ status[c] # 0 /\ r.path \in Public =>
                               status[c] = 200 /\ effects[c] = {}
                          /\ status[c] = 200 /\ r.path = "sub" =>
                               "fetched" \in effects[c] /\ waves[c] = <<>>
                          /\ LimiterOn /\ {"flushed", "fetched"} \cap effects[c] # {} =>
                               "spent" \in effects[c]
    BY DEF StatusTellsTruth
  <2>1. Told(c, launch.request[c])
    BY DEF IInv, Sound
  <2> QED BY <2>1 DEF Told
<1> QED BY <1>1, InvAlways, PTL

(* NothingCutShort: a response is late only if its rounds of fetches can   *)
(* take as long as the write deadline, and a request is cut only if        *)
(* serving fails or its conversion outlasts the whole of Grace.            *)
THEOREM NothingCutShortAlways == Spec => []NothingCutShort
<1>1. IInv => NothingCutShort
  BY DEF IInv, Sound, Timed, Ending, CutOnly, NothingCutShort
<1> QED BY <1>1, InvAlways, PTL

(* OwnTokensOnly: a bucket changes only at an authenticated request of its *)
(* own sender, or of a trusted proxy that names the sender.                *)
THEOREM OwnTokensOnlyAlways == Spec => OwnTokensOnly
<1> DEFINE Own ==
      \A k \in Keys :
        buckets'[k] # buckets[k] =>
          \E c \in Clients :
            LET r == launch.request[c]
            IN  /\ stage[c] = "limiting" /\ stage'[c] # "limiting"
                /\ Authorized(r)
                /\ r.remote # k => r.remote = ProxyAddr /\ k \in {r.xff, r.xrip}
<1>1. IInv /\ [Next]_vars => [Own]_buckets
  <2> SUFFICES ASSUME IInv, [Next]_vars, buckets' # buckets PROVE Own
    OBVIOUS
  <2>1. PICK c \in Clients : Limit(c) /\ LimiterOn
    BY DEF Next, ProcessStep, Load, Start, GracefulExit, ForcedExit, Killed,
           ServeFails, Exit, Signal, Tick, HandlerStep, ClientStep, Accept, HangUp,
           Authenticate, Limit, Handle, EndWave, Abandon, Reply, vars
  <2>2. PICK r, key : r = launch.request[c] /\ key = ClientIP(r)
    OBVIOUS
  <2>3. /\ stage[c] = "limiting" /\ Authorized(r)
        /\ \A k \in Keys : k # key => buckets'[k] = buckets[k]
    BY <2>1, <2>2 DEF Limit, IInv, Sound, Coming, Typed
  <2>4. stage'[c] # "limiting"
    BY <2>1, <2>3 DEF Limit, To, Respond, IInv, Typed
  <2>5. r.remote # key => r.remote = ProxyAddr /\ key \in {r.xff, r.xrip}
    BY <2>2 DEF ClientIP, IsTrustedProxy
  <2> QED BY <2>2, <2>3, <2>4, <2>5
<1> QED BY <1>1, InvAlways, PTL DEF Spec, OwnTokensOnly

=============================================================================
