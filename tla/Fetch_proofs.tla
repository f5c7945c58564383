----------------------------- MODULE Fetch_proofs -----------------------------
(***************************************************************************)
(* Proofs about Fetch, for all sets of calls and URLs, all options, every  *)
(* selection of replies and faults, any TTL, capacity and number of        *)
(* retries: what the cache and the flights keep, and what the calls are    *)
(* answered with, which implements Replica.                                *)
(***************************************************************************)
EXTENDS Fetch, LeastNumbers, TLAPS

-----------------------------------------------------------------------------
(* The cache.                                                              *)

\* Nothing is in the cache next that was not in cache.
Shrunk(next, cache) ==
  /\ next \in Caches
  /\ \A u \in Urls : next[u] \in {cache[u], NoEntry}

LEMMA GetShrinks ==
  ASSUME NEW cache \in Caches, NEW url \in Urls, NEW now
  PROVE  Shrunk(AfterGet(cache, url, now), cache)
BY DEF Shrunk, AfterGet, Without, Caches

LEMMA FlushShrinks ==
  ASSUME NEW cache \in Caches
  PROVE  Shrunk(EmptyCache, cache)
BY DEF Shrunk, EmptyCache, Caches

LEMMA RoomShrinks ==
  ASSUME NEW cache \in Caches, NEW url \in Urls, NEW now,
         NEW room \in RoomFor(cache, url, now)
  PROVE  Shrunk(room, cache)
<1>1. \A us : Shrunk(Without(cache, us), cache)
  BY DEF Shrunk, Without, Caches
<1>2. Shrunk(cache, cache)
  BY DEF Shrunk
<1> QED BY <1>1, <1>2 DEF RoomFor

LEMMA EntryType ==
  ASSUME NEW r \in Response, NEW now \in Nat
  PROVE  /\ [body |-> r, expires |-> now + TTL] \in Entry
         /\ [body |-> r, expires |-> now + TTL] # NoEntry
BY FetchAssumption, NoEntryAssumption DEF Entry

\* set stores what it is given, and leaves or removes everything else.
LEMMA SetFacts ==
  ASSUME NEW cache \in Caches, NEW url \in Urls, NEW r \in Response,
         NEW now \in Nat, NEW next \in AfterSet(cache, url, r, now)
  PROVE  /\ next \in Caches
         /\ next[url] = [body |-> r, expires |-> now + TTL]
         /\ \A u \in Urls \ {url} : next[u] \in {cache[u], NoEntry}
<1>1. PICK room \in RoomFor(cache, url, now) :
        next = [room EXCEPT ![url] = [body |-> r, expires |-> now + TTL]]
  BY DEF AfterSet
<1>2. Shrunk(room, cache)
  BY RoomShrinks
<1> QED BY <1>1, <1>2, EntryType DEF Shrunk, Caches

LEMMA StoredEntry ==
  ASSUME NEW cache \in Caches, NEW u \in Stored(cache)
  PROVE  /\ u \in Urls
         /\ cache[u].body \in Response
         /\ cache[u].expires \in Nat
BY DEF Stored, Caches, Entry

-----------------------------------------------------------------------------
(* Flights.                                                                *)

LEMMA NotResponses ==
  /\ NoResponse \notin Response /\ Failed \notin Response /\ Gone \notin Response
  /\ NoResponse # Failed /\ NoResponse # Gone
BY DEF NoResponse, Failed, Gone, Response

Phases == {"check", "direct", "solve", "replay", "store", "land"}

LEMMA InFlightType ==
  ASSUME TypeOK, NEW u \in Urls, flight[u].phase \in Phases
  PROVE  flight[u] \in Flight
BY DEF TypeOK, NoFlight, Phases

LEMMA FlyFacts ==
  ASSUME TypeOK, NEW u \in Urls, flight[u] \in Flight, NEW phase \in Phases,
         NEW got \in Response \cup {NoResponse, Failed}, Fly(u, phase, got)
  PROVE  /\ flight' \in [Urls -> Flight \cup {NoFlight}]
         /\ flight'[u] \in Flight
         /\ flight'[u].phase = phase
         /\ flight'[u].got = got
         /\ flight'[u].client = flight[u].client
         /\ flight'[u].expired = flight[u].expired
         /\ \A v \in Urls \ {u} : flight'[v] = flight[v]
<1> DEFINE f == [flight[u] EXCEPT !.phase = phase, !.got = got]
<1>1. f \in Flight
  BY DEF Flight, Phases
<1>2. flight' = [flight EXCEPT ![u] = f]
  BY DEF Fly, TypeOK
<1>3. /\ f.phase = phase /\ f.got = got /\ f.client = flight[u].client
      /\ f.expired = flight[u].expired
  BY DEF Flight
<1> HIDE DEF f
<1> QED BY <1>1, <1>2, <1>3 DEF TypeOK

-----------------------------------------------------------------------------
(* Types.                                                                  *)

Success == {r \in Response : r.status = 200}

\* What a flight is about to store or to deliver.
Delivering ==
  \A u \in Urls :
    /\ flight[u].phase = "store" => flight[u].got \in Success
    /\ flight[u].phase = "land" => flight[u].got \in Success \cup {Failed}

LEMMA CallTypes ==
  ASSUME TypeOK, NEW c \in Calls
  PROVE  /\ opt[c] \in CallOptions /\ UrlOf(c) \in Urls
         /\ opt[c].nocache \in BOOLEAN /\ Caching(c) \in BOOLEAN
BY FetchAssumption DEF TypeOK, CallOptions, UrlOf, Caching

\* The invariant that everything else rests on: types, what a flight may carry,
\* and that nobody knows a version the origin has not served.
Versions ==
  /\ \A u \in Urls :
       /\ copy[u] <= origin[u]
       /\ u \in Stored(entries) => entries[u].body.version = copy[u]
       /\ flight[u].phase \in {"store", "land"} /\ flight[u].got \in Response =>
            copy[u] <= flight[u].got.version /\ flight[u].got.version <= origin[u]
  /\ \A c \in Calls : Answered(c) => answer[c].version <= origin[UrlOf(c)]

Sound == TypeOK /\ Delivering /\ OnlySuccesses /\ Versions

LEMMA SeenType ==
  ASSUME TypeOK, Versions, NEW u \in Urls
  PROVE  /\ SeenVersion(u) \in Nat
         /\ SeenVersion(u) # 0 =>
              \E c \in Calls : /\ UrlOf(c) = u /\ Answered(c)
                               /\ SeenVersion(u) = answer[c].version
<1> DEFINE seen == {answer[c].version :
                      c \in {d \in Calls : UrlOf(d) = u /\ answer[d] \in Response}}
<1>1. seen \subseteq Nat
  BY DEF Response
<1>2. CASE seen = {}
  BY <1>2 DEF SeenVersion
<1>3. CASE seen # {}
  <2>1. \A v \in seen : v <= origin[u]
    BY DEF Versions, Answered
  <2>2. origin[u] \in Nat
    BY DEF TypeOK
  <2>3. \E v \in seen : \A w \in seen : w <= v
    <3> HIDE DEF seen
    <3> QED BY <1>1, <1>3, <2>1, <2>2, GreatestNat
  <2>4. SeenVersion(u) \in seen
    BY <1>3, <2>3 DEF SeenVersion
  <2> QED BY <1>1, <2>4 DEF Answered
<1> QED BY <1>2, <1>3

-----------------------------------------------------------------------------
(* What a step may do to a URL, and to a call.                             *)

\* The cache keeps what it has for u, or loses it.
OnlyLost(u) == copy'[u] = copy[u] /\ entries'[u] \in {entries[u], NoEntry}

\* The second look of a flight, and the attempts that lead to no result.
Looks(u) ==
  /\ flight[u].phase = "check" /\ OnlyLost(u)
  /\ \/ /\ Caching(flight[u].client) /\ u \in Live(entries, clock)
        /\ flight'[u].phase = "land" /\ flight'[u].got = entries[u].body
     \/ /\ ~ (Caching(flight[u].client) /\ u \in Live(entries, clock))
        /\ flight'[u].phase = "direct"

Asking == {"direct", "solve", "replay"}

\* Something other than the client that hung up went wrong.
Faulty(u) ==
  \/ Faults \cap {"network", "solver"} # {}
  \/ flight[u].expired
  \/ \E kind \in Replies : kind.status # 200 \/ kind.body = "challenge"

Asks(u) ==
  /\ flight[u].phase \in Asking /\ OnlyLost(u)
  /\ \/ flight'[u].phase \in Asking
     \/ flight'[u].phase = "land" /\ flight'[u].got = Failed /\ Faulty(u)
     \/ /\ flight'[u].phase = "store"
        /\ flight'[u].got \in Success /\ flight'[u].got.version = origin[u]

Stores(u) ==
  /\ flight[u].phase = "store"
  /\ flight'[u].phase = "land" /\ flight'[u].got = flight[u].got
  /\ \/ /\ Cacheable(u)
        /\ entries'[u] = [body |-> flight[u].got, expires |-> clock + TTL]
        /\ copy'[u] = flight[u].got.version
        /\ clock' = clock
     \/ ~Cacheable(u) /\ OnlyLost(u)

Flies(u) ==
  /\ flight[u] \in Flight /\ flight'[u] \in Flight
  /\ flight'[u].client = flight[u].client
  /\ flight'[u].expired => flight[u].expired \/ "deadline" \in Faults
  /\ Looks(u) \/ Asks(u) \/ Stores(u)

\* A call that finds no flight of its URL starts one.
Opens(u) ==
  /\ ~InFlight(u) /\ OnlyLost(u)
  /\ \E c \in Calls :
       /\ pc[c] = "join" /\ pc'[c] = "wait" /\ note'[c].led
       /\ UrlOf(c) = u
       /\ flight'[u] = [phase |-> "check", client |-> c, attempt |-> 0,
                        expired |-> FALSE, got |-> NoResponse]

\* A flight answers everyone who waits for it.
Lands(u) ==
  /\ flight[u].phase = "land" /\ OnlyLost(u)
  /\ flight'[u] = NoFlight
  /\ \A c \in Joined(u) : pc'[c] = "done"

UrlMove(u) ==
  \/ OnlyLost(u) /\ flight'[u] = flight[u]
  \/ Flies(u)
  \/ Opens(u)
  \/ Lands(u)

\* A call is made, finds its URL in the cache, joins, gives up, or is answered.
Goes(c, from, to) == pc[c] = from /\ pc'[c] = to

Asked(c) ==
  /\ Goes(c, "idle", "lookup")
  /\ answer'[c] = answer[c]
  /\ note'[c].asked = origin[UrlOf(c)]
  /\ note'[c].seen = SeenVersion(UrlOf(c))
  /\ note'[c].flushed = barrier'[UrlOf(c)]
  /\ note'[c].led = FALSE

SameNote(c) ==
  /\ note'[c].asked = note[c].asked
  /\ note'[c].seen = note[c].seen
  /\ note'[c].flushed = note[c].flushed

CallMove(c) ==
  \/ pc'[c] = pc[c] /\ answer'[c] = answer[c] /\ note'[c] = note[c]
  \/ Asked(c)
  \/ /\ note'[c] = note[c]
     /\ \/ /\ Goes(c, "lookup", "done") /\ Caching(c)
           /\ UrlOf(c) \in Live(entries, clock)
           /\ answer'[c] = entries[UrlOf(c)].body
        \/ Goes(c, "lookup", "join") /\ answer'[c] = answer[c]
        \/ Goes(c, "wait", "done") /\ c \in canceled /\ answer'[c] = Gone
        \/ /\ Goes(c, "wait", "done")
           /\ flight[UrlOf(c)].phase = "land"
           /\ answer'[c] = flight[UrlOf(c)].got
  \/ /\ Goes(c, "join", "wait") /\ answer'[c] = answer[c] /\ SameNote(c)
     /\ flight'[UrlOf(c)].phase # "none"
     /\ note'[c].led =>
          \/ note[c].led
          \/ flight'[UrlOf(c)].client = c /\ flight'[UrlOf(c)].phase = "check"

-----------------------------------------------------------------------------

\* A step that touches neither flights nor what is stored.
LEMMA RestingMove ==
  ASSUME TypeOK, flight' = flight, copy' = copy, Shrunk(entries', entries)
  PROVE  \A u \in Urls : UrlMove(u)
BY DEF UrlMove, OnlyLost, Shrunk

LEMMA ShrunkSelf == ASSUME TypeOK PROVE Shrunk(entries, entries)
BY DEF TypeOK, Shrunk

\* A step that makes one flight fly on.
LEMMA FlyingMove ==
  ASSUME TypeOK, copy' = copy, Shrunk(entries', entries), NEW u \in Urls, Flies(u),
         \A v \in Urls \ {u} : flight'[v] = flight[v]
  PROVE  \A v \in Urls : UrlMove(v)
BY DEF UrlMove, OnlyLost, Shrunk

LEMMA CallUrlMoves ==
  ASSUME TypeOK, NEW c \in Calls, CallStep(c)
  PROVE  \A u \in Urls : UrlMove(u)
<1>1. CASE Arrive(c)
  <2>1. Shrunk(entries', entries)
    BY <1>1, FlushShrinks, ShrunkSelf DEF Arrive, FlushCache, TypeOK
  <2> QED BY <1>1, <2>1, RestingMove DEF Arrive
<1>2. CASE Lookup(c)
  <2>1. Shrunk(entries', entries)
    BY <1>2, GetShrinks, ShrunkSelf, CallTypes DEF Lookup, TypeOK
  <2> QED BY <1>2, <2>1, RestingMove DEF Lookup
<1>3. CASE Join(c)
  <2>1. CASE InFlight(UrlOf(c))
    BY <1>3, <2>1, RestingMove, ShrunkSelf DEF Join
  <2>2. CASE ~InFlight(UrlOf(c))
    <3>1. \A u \in Urls : OnlyLost(u)
      BY <1>3 DEF Join, OnlyLost
    <3>2. \A u \in Urls \ {UrlOf(c)} : flight'[u] = flight[u]
      BY <1>3, <2>2, CallTypes DEF Join, TypeOK
    <3>3. UrlOf(c) \in Urls /\ note[c] \in Note
      BY CallTypes DEF TypeOK
    <3>4. /\ flight'[UrlOf(c)] = [phase |-> "check", client |-> c, attempt |-> 0,
                                 expired |-> FALSE, got |-> NoResponse]
          /\ note'[c] = [note[c] EXCEPT !.led = TRUE]
          /\ pc[c] = "join" /\ pc'[c] = "wait"
      BY <1>3, <2>2, <3>3 DEF Join, TypeOK
    <3>5. note'[c].led
      BY <3>3, <3>4 DEF Note
    <3>6. Opens(UrlOf(c))
      BY <2>2, <3>1, <3>3, <3>4, <3>5 DEF Opens
    <3> QED BY <3>1, <3>2, <3>6 DEF UrlMove
  <2> QED BY <2>1, <2>2
<1>4. CASE Cancel(c) \/ GiveUp(c)
  BY <1>4, RestingMove, ShrunkSelf DEF Cancel, GiveUp
<1> QED BY <1>1, <1>2, <1>3, <1>4 DEF CallStep

LEMMA FlightUrlMoves ==
  ASSUME Sound, NEW u \in Urls, FlightStep(u)
  PROVE  \A v \in Urls : UrlMove(v)
<1> USE DEF Sound
<1>0. flight[u] \in Flight
  BY InFlightType DEF FlightStep, Check, Reply, AttemptFails, Solve, SolveFails,
                      Deadline, Store, Land, Phases
<1>a. flight[u].client \in Calls /\ flight[u].expired \in BOOLEAN
  BY <1>0 DEF Flight
<1>b. flight[u].phase # "none"
  BY <1>0 DEF Flight
<1>1. CASE Check(u)
  <2>1. Shrunk(entries', entries) /\ copy' = copy
    BY <1>1, <1>a, GetShrinks, ShrunkSelf DEF Check, TypeOK
  <2>2. CASE CheckHits(u)
    <3>1. entries[u].body \in Response /\ u \in Live(entries, clock)
      BY <2>2, StoredEntry DEF CheckHits, Hit, Live, TypeOK
    <3>2. Fly(u, "land", entries[u].body)
      BY <1>1, <2>2 DEF Check
    <3>3. Flies(u)
      BY <1>0, <1>1, <2>1, <2>2, <3>1, <3>2, FlyFacts
         DEF Check, CheckHits, Flies, Looks, OnlyLost, Shrunk, Phases
    <3> QED BY <1>0, <2>1, <3>1, <3>2, <3>3, FlyFacts, FlyingMove DEF Phases
  <2>3. CASE ~CheckHits(u)
    <3>2. Fly(u, "direct", NoResponse)
      BY <1>1, <2>3 DEF Check
    <3>3. Flies(u)
      BY <1>0, <1>1, <2>1, <2>3, <3>2, FlyFacts
         DEF Check, CheckHits, Hit, Flies, Looks, OnlyLost, Shrunk, Phases
    <3> QED BY <1>0, <2>1, <3>2, <3>3, FlyFacts, FlyingMove DEF Phases
  <2> QED BY <2>2, <2>3
<1>2. ASSUME NEW phase \in Asking \cup {"store", "land"},
             NEW got \in Response \cup {NoResponse, Failed}, Fly(u, phase, got),
             entries' = entries, copy' = copy, flight[u].phase \in Asking,
             phase = "land" => got = Failed /\ Faulty(u),
             phase = "store" => got \in Success /\ got.version = origin[u]
      PROVE  \A v \in Urls : UrlMove(v)
  <2>1. Flies(u)
    BY <1>0, <1>2, FlyFacts DEF Flies, Asks, OnlyLost, Phases, Asking
  <2> QED BY <1>0, <1>2, <2>1, FlyFacts, FlyingMove, ShrunkSelf DEF Phases, Asking
<1>3. CASE Reply(u)
  <2>1. PICK kind \in Replies :
          LET r == [status |-> kind.status, body |-> kind.body,
                    version |-> origin[u]]
          IN  \/ Challenged(u, r) /\ Solver /\ Fly(u, "solve", r)
              \/ Challenged(u, r) /\ ~Solver /\ Fly(u, "land", Failed)
              \/ ~Challenged(u, r) /\ Unusable(r) /\ Fly(u, "land", Failed)
              \/ ~Challenged(u, r) /\ ~Unusable(r) /\ Fly(u, "store", r)
    BY <1>3 DEF Reply
  <2> DEFINE r == [status |-> kind.status, body |-> kind.body,
                   version |-> origin[u]]
  <2>2. r \in Response /\ r.status = kind.status /\ r.body = kind.body
        /\ r.version = origin[u]
    BY FetchAssumption DEF Response, ReplyKinds, TypeOK
  <2>3. entries' = entries /\ copy' = copy /\ flight[u].phase \in Asking
    BY <1>3 DEF Reply, Asking
  <2>4. Challenged(u, r) => r.body = "challenge"
    BY DEF Challenged, IsCloudflareChallenge
  <2> HIDE DEF r
  <2>5. CASE Challenged(u, r) /\ Solver /\ Fly(u, "solve", r)
    BY <1>2, <2>2, <2>3, <2>5 DEF Asking
  <2>6. CASE Challenged(u, r) /\ ~Solver /\ Fly(u, "land", Failed)
    BY <1>2, <2>2, <2>3, <2>4, <2>6 DEF Faulty, Asking
  <2>7. CASE ~Challenged(u, r) /\ Unusable(r) /\ Fly(u, "land", Failed)
    BY <1>2, <2>2, <2>3, <2>7 DEF Faulty, Unusable, Asking
  <2>8. CASE ~Challenged(u, r) /\ ~Unusable(r) /\ Fly(u, "store", r)
    BY <1>2, <2>2, <2>3, <2>8 DEF Success, Unusable, Asking
  <2> QED BY <2>1, <2>5, <2>6, <2>7, <2>8 DEF r
<1>4. CASE AttemptFails(u)
  <2>1. Faulty(u) /\ entries' = entries /\ copy' = copy /\ flight[u].phase \in Asking
    BY <1>4 DEF AttemptFails, ContextOver, Faulty, Asking
  <2>2. CASE RetriesLeft(u)
    <3>1. flight' = [flight EXCEPT ![u].attempt = @ + 1]
      BY <1>4, <2>2 DEF AttemptFails
    <3>2. flight[u].attempt \in 0 .. MaxRetries /\ flight[u].attempt < MaxRetries
      BY <1>0, <2>2 DEF Flight, RetriesLeft
    <3>3. flight[u].attempt + 1 \in 0 .. MaxRetries
      BY <3>2, FetchAssumption
    <3>4. flight'[u] = [flight[u] EXCEPT !.attempt = @ + 1]
          /\ \A v \in Urls \ {u} : flight'[v] = flight[v]
      BY <3>1 DEF TypeOK
    <3>5. Flies(u)
      BY <1>0, <2>1, <3>3, <3>4 DEF Flies, Asks, OnlyLost, Flight
    <3> QED BY <2>1, <3>4, <3>5, FlyingMove, ShrunkSelf
  <2>3. CASE ~RetriesLeft(u) /\ flight[u].phase = "direct" /\ Solver
    BY <1>2, <1>4, <2>1, <2>3 DEF AttemptFails, Asking
  <2>4. CASE ~RetriesLeft(u) /\ ~(flight[u].phase = "direct" /\ Solver)
    BY <1>2, <1>4, <2>1, <2>4 DEF AttemptFails, Asking
  <2> QED BY <2>2, <2>3, <2>4
<1>5. CASE Solve(u)
  <2>1. /\ flight' = [flight EXCEPT ![u].phase = "replay", ![u].attempt = 0]
        /\ entries' = entries /\ copy' = copy /\ flight[u].phase \in Asking
    BY <1>5 DEF Solve, Asking
  <2>2. flight'[u] = [flight[u] EXCEPT !.phase = "replay", !.attempt = 0]
        /\ \A v \in Urls \ {u} : flight'[v] = flight[v]
    BY <2>1 DEF TypeOK
  <2>3. /\ flight'[u] \in Flight /\ flight'[u].phase = "replay"
        /\ flight'[u].client = flight[u].client
        /\ flight'[u].expired = flight[u].expired
    <3>1. 0 \in 0 .. MaxRetries
      BY FetchAssumption
    <3> DEFINE f == [flight[u] EXCEPT !.phase = "replay", !.attempt = 0]
    <3>2. /\ f \in Flight /\ f.phase = "replay" /\ f.client = flight[u].client
          /\ f.expired = flight[u].expired
      BY <1>0, <3>1 DEF Flight
    <3> QED BY <2>2, <3>2
  <2>4. Flies(u)
    BY <1>0, <2>1, <2>3 DEF Flies, Asks, Asking, OnlyLost
  <2> QED BY <2>1, <2>2, <2>4, FlyingMove, ShrunkSelf
<1>6. CASE SolveFails(u)
  <2>1. /\ Faulty(u) /\ Fly(u, "land", Failed)
        /\ entries' = entries /\ copy' = copy /\ flight[u].phase \in Asking
    BY <1>6 DEF SolveFails, ContextOver, Faulty, Asking
  <2> QED BY <1>2, <2>1 DEF Asking
<1>7. CASE Deadline(u)
  <2>1. /\ flight' = [flight EXCEPT ![u].expired = TRUE] /\ "deadline" \in Faults
        /\ entries' = entries /\ copy' = copy /\ flight[u].phase \in Asking
    BY <1>7 DEF Deadline, Asking
  <2>2. flight'[u] = [flight[u] EXCEPT !.expired = TRUE]
        /\ \A v \in Urls \ {u} : flight'[v] = flight[v]
    BY <2>1 DEF TypeOK
  <2>3. /\ flight'[u] \in Flight /\ flight'[u].phase = flight[u].phase
        /\ flight'[u].client = flight[u].client
    BY <1>0, <2>2 DEF Flight
  <2>4. Flies(u)
    BY <1>0, <2>1, <2>3 DEF Flies, Asks, Asking, OnlyLost
  <2> QED BY <2>1, <2>2, <2>4, FlyingMove, ShrunkSelf
<1>8. CASE Store(u)
  <2>1. flight[u].got \in Response
    BY <1>8 DEF Store, Delivering, Success
  <2>2. Fly(u, "land", flight[u].got) /\ flight[u].phase = "store" /\ clock' = clock
    BY <1>8 DEF Store
  <2>3. CASE Cacheable(u)
    <3>1. entries' \in AfterSet(entries, u, flight[u].got, clock)
          /\ copy' = [copy EXCEPT ![u] = flight[u].got.version]
      BY <1>8, <2>3 DEF Store, Keep
    <3>2. /\ entries'[u] = [body |-> flight[u].got, expires |-> clock + TTL]
          /\ \A v \in Urls \ {u} : entries'[v] \in {entries[v], NoEntry}
      BY <2>1, <3>1, SetFacts DEF TypeOK
    <3>3. copy'[u] = flight[u].got.version /\ \A v \in Urls \ {u} : copy'[v] = copy[v]
      BY <3>1 DEF TypeOK
    <3>4. Flies(u)
      BY <1>0, <2>1, <2>2, <2>3, <3>2, <3>3, FlyFacts DEF Flies, Stores, Phases
    <3>5. \A v \in Urls \ {u} : UrlMove(v)
      BY <1>0, <2>1, <2>2, <3>2, <3>3, FlyFacts DEF UrlMove, OnlyLost, Phases
    <3> QED BY <3>4, <3>5 DEF UrlMove
  <2>4. CASE ~Cacheable(u)
    <3>1. entries' = entries /\ copy' = copy
      BY <1>8, <2>4 DEF Store
    <3>2. Flies(u)
      BY <1>0, <2>1, <2>2, <2>4, <3>1, FlyFacts DEF Flies, Stores, OnlyLost, Phases
    <3> QED BY <1>0, <2>1, <2>2, <3>1, <3>2, FlyFacts, FlyingMove, ShrunkSelf DEF Phases
  <2> QED BY <2>3, <2>4
<1>9. CASE Land(u)
  <2>1. \A v \in Urls : OnlyLost(v)
    BY <1>9 DEF Land, OnlyLost
  <2>2. flight'[u] = NoFlight /\ \A v \in Urls \ {u} : flight'[v] = flight[v]
    BY <1>9 DEF Land, TypeOK
  <2>3. \A c \in Joined(u) : pc'[c] = "done"
    BY <1>9 DEF Land, Joined
  <2> QED BY <1>9, <2>1, <2>2, <2>3 DEF Land, Lands, UrlMove
<1> QED BY <1>1, <1>3, <1>4, <1>5, <1>6, <1>7, <1>8, <1>9 DEF FlightStep

LEMMA UrlMoves ==
  ASSUME Sound, [Next]_vars
  PROVE  \A u \in Urls : UrlMove(u)
<1> USE DEF Sound
<1>1. CASE \E c \in Calls : CallStep(c)
  BY <1>1, CallUrlMoves
<1>2. CASE \E u \in Urls : FlightStep(u)
  BY <1>2, FlightUrlMoves
<1>3. CASE \E u \in Urls : Publish(u)
  BY <1>3, RestingMove, ShrunkSelf DEF Publish
<1>4. CASE FlushRequest
  BY <1>4, RestingMove, FlushShrinks DEF FlushRequest, FlushCache, TypeOK
<1>5. CASE Tick \/ UNCHANGED vars
  BY <1>5, RestingMove, ShrunkSelf DEF Tick, vars
<1> QED BY <1>1, <1>2, <1>3, <1>4, <1>5 DEF Next

\* What never changes, and what only grows.
LEMMA Onward ==
  ASSUME TypeOK, [Next]_vars
  PROVE  /\ opt' = opt
         /\ clock' \in Nat /\ clock <= clock'
         /\ origin' \in [Urls -> Nat] /\ \A u \in Urls : origin[u] <= origin'[u]
         /\ canceled' \subseteq Calls /\ canceled \subseteq canceled'
<1> USE DEF TypeOK
<1>1. ASSUME NEW c \in Calls, CallStep(c) PROVE opt' = opt /\ clock' = clock
        /\ origin' = origin /\ canceled' \subseteq Calls /\ canceled \subseteq canceled'
  BY <1>1 DEF CallStep, Arrive, Lookup, Join, Cancel, GiveUp
<1>2. ASSUME NEW u \in Urls, FlightStep(u) PROVE opt' = opt /\ clock' = clock
        /\ origin' = origin /\ canceled' = canceled
  BY <1>2 DEF FlightStep, Check, Reply, AttemptFails, Solve, SolveFails, Deadline,
              Store, Land
<1>3. CASE \E u \in Urls : Publish(u)
  BY <1>3 DEF Publish
<1>4. CASE FlushRequest \/ UNCHANGED vars
  BY <1>4 DEF FlushRequest, vars
<1>5. CASE Tick
  BY <1>5 DEF Tick
<1> QED BY <1>1, <1>2, <1>3, <1>4, <1>5 DEF Next

LEMMA CallMoves ==
  ASSUME Sound, [Next]_vars
  PROVE  \A c \in Calls : CallMove(c)
<1> USE DEF Sound
<1>0. SUFFICES ASSUME NEW c \in Calls PROVE CallMove(c)
  OBVIOUS
<1> DEFINE Same(d) == pc'[d] = pc[d] /\ answer'[d] = answer[d] /\ note'[d] = note[d]
<1>1. ASSUME NEW d \in Calls, Arrive(d) PROVE CallMove(c)
  <2>1. CASE c # d
    BY <1>1, <2>1 DEF Arrive, TypeOK, CallMove
  <2>2. CASE c = d
    <3>1. note'[c] = [asked |-> origin[UrlOf(c)], seen |-> SeenVersion(UrlOf(c)),
                      flushed |-> barrier'[UrlOf(c)], led |-> FALSE]
      BY <1>1, <2>2 DEF Arrive, TypeOK
    <3>2. Asked(c)
      BY <1>1, <2>2, <3>1 DEF Arrive, TypeOK, Asked, Goes
    <3> QED BY <3>2 DEF CallMove
  <2> QED BY <2>1, <2>2
<1>2. ASSUME NEW d \in Calls, Lookup(d) PROVE CallMove(c)
  <2>1. CASE c # d
    BY <1>2, <2>1 DEF Lookup, TypeOK, CallMove
  <2>2. CASE c = d
    BY <1>2, <2>2 DEF Lookup, TypeOK, CallMove, Goes, Hit
  <2> QED BY <2>1, <2>2
<1>3. ASSUME NEW d \in Calls, Join(d) PROVE CallMove(c)
  <2>1. CASE c # d
    BY <1>3, <2>1 DEF Join, TypeOK, CallMove
  <2>2. CASE c = d /\ InFlight(UrlOf(d))
    BY <1>3, <2>2 DEF Join, TypeOK, CallMove, Goes, InFlight, SameNote
  <2>3. CASE c = d /\ ~InFlight(UrlOf(d))
    <3>1. UrlOf(c) \in Urls /\ note[c] \in Note
      BY CallTypes DEF TypeOK
    <3>2. /\ flight'[UrlOf(c)] = [phase |-> "check", client |-> c, attempt |-> 0,
                                 expired |-> FALSE, got |-> NoResponse]
          /\ note'[c] = [note[c] EXCEPT !.led = TRUE]
          /\ Goes(c, "join", "wait") /\ answer' = answer
      BY <1>3, <2>3, <3>1 DEF Join, TypeOK, Goes
    <3>3. SameNote(c)
      BY <3>1, <3>2 DEF Note, SameNote
    <3>4. flight'[UrlOf(c)].phase = "check" /\ flight'[UrlOf(c)].client = c
      BY <3>2
    <3> QED BY <3>2, <3>3, <3>4 DEF CallMove
  <2> QED BY <2>1, <2>2, <2>3
<1>4. ASSUME NEW d \in Calls, Cancel(d) PROVE CallMove(c)
  BY <1>4 DEF Cancel, CallMove
<1>5. ASSUME NEW d \in Calls, GiveUp(d) PROVE CallMove(c)
  BY <1>5 DEF GiveUp, TypeOK, CallMove, Goes
<1>6. ASSUME NEW u \in Urls, FlightStep(u) PROVE CallMove(c)
  <2>1. CASE Land(u)
    <3>1. CASE c \in Joined(u)
      BY <2>1, <3>1 DEF Land, Joined, CallMove, Goes
    <3>2. CASE c \notin Joined(u)
      BY <2>1, <3>2 DEF Land, CallMove
    <3> QED BY <3>1, <3>2
  <2>2. CASE ~Land(u)
    BY <1>6, <2>2 DEF FlightStep, Check, Reply, AttemptFails, Solve, SolveFails,
                      Deadline, Store, CallMove
  <2> QED BY <2>1, <2>2
<1>7. CASE (\E u \in Urls : Publish(u)) \/ FlushRequest \/ Tick \/ UNCHANGED vars
  BY <1>7 DEF Publish, FlushRequest, Tick, vars, CallMove
<1> QED BY <1>1, <1>2, <1>3, <1>4, <1>5, <1>6, <1>7 DEF Next, CallStep

\* The functions stay functions.
LEMMA TypeStep ==
  ASSUME Sound, [Next]_vars
  PROVE  TypeOK'
<1> USE DEF Sound
<1>1. /\ clock' \in Nat /\ origin' \in [Urls -> Nat] /\ opt' \in [Calls -> Options]
      /\ canceled' \subseteq Calls
  BY Onward DEF TypeOK
<1>2. ASSUME NEW u \in Urls PROVE flight'[u] \in Flight \cup {NoFlight}
  <2>1. UrlMove(u)
    BY UrlMoves
  <2>2. CASE Opens(u)
    BY <2>2, FetchAssumption DEF Opens, Flight
  <2> QED BY <2>1, <2>2 DEF UrlMove, Flies, Lands, TypeOK
<1>3. ASSUME NEW u \in Urls
      PROVE  entries'[u] \in Entry \cup {NoEntry} /\ copy'[u] \in Nat
  <2>1. CASE OnlyLost(u)
    BY <2>1 DEF OnlyLost, TypeOK, Caches
  <2>2. CASE Stores(u)
    <3>1. flight[u].got \in Response /\ flight[u].got.version \in Nat /\ clock \in Nat
      BY <2>2 DEF Stores, Delivering, Success, Response, TypeOK
    <3> QED BY <2>1, <2>2, <3>1, EntryType DEF Stores
  <2> QED BY <2>1, <2>2, UrlMoves DEF UrlMove, Flies, Looks, Asks, Opens, Lands
<1>4. ASSUME NEW c \in Calls
      PROVE  /\ pc'[c] \in {"idle", "lookup", "join", "wait", "done"}
             /\ answer'[c] \in Response \cup {NoResponse, Failed, Gone}
  <2>1. UrlOf(c) \in Urls
    BY CallTypes
  <2>2. UrlOf(c) \in Live(entries, clock) => entries[UrlOf(c)].body \in Response
    BY StoredEntry DEF Live, TypeOK
  <2>3. flight[UrlOf(c)].phase = "land" =>
          flight[UrlOf(c)].got \in Response \cup {Failed}
    BY <2>1 DEF Delivering, Success
  <2>4. \/ pc'[c] = pc[c] /\ answer'[c] = answer[c]
        \/ pc'[c] \in {"lookup", "join", "wait"} /\ answer'[c] = answer[c]
        \/ /\ pc'[c] = "done"
           /\ \/ UrlOf(c) \in Live(entries, clock)
                 /\ answer'[c] = entries[UrlOf(c)].body
              \/ answer'[c] = Gone
              \/ flight[UrlOf(c)].phase = "land" /\ answer'[c] = flight[UrlOf(c)].got
    BY CallMoves DEF CallMove, Asked, Goes
  <2> QED BY <2>2, <2>3, <2>4 DEF TypeOK
<1> DEFINE Shape == /\ entries' \in [Urls -> Entry \cup {NoEntry}]
                    /\ flight' = [u \in Urls |-> flight'[u]]
                    /\ copy' = [u \in Urls |-> copy'[u]]
                    /\ barrier' \in [Urls -> Nat]
                    /\ pc' = [c \in Calls |-> pc'[c]]
                    /\ answer' = [c \in Calls |-> answer'[c]]
                    /\ note' \in [Calls -> Note]
<1>5. Shape
  <2>1. ASSUME NEW c \in Calls, Arrive(c) PROVE Shape
    <3>1. barrier' \in [Urls -> Nat] /\ entries' \in [Urls -> Entry \cup {NoEntry}]
      BY <2>1 DEF Arrive, FlushCache, TypeOK, Caches, EmptyCache
    <3>2. [asked |-> origin[UrlOf(c)], seen |-> SeenVersion(UrlOf(c)),
           flushed |-> barrier'[UrlOf(c)], led |-> FALSE] \in Note
      BY <3>1, SeenType, CallTypes DEF Note, TypeOK
    <3> QED BY <2>1, <3>1, <3>2 DEF Arrive, TypeOK
  <2>2. ASSUME NEW c \in Calls, Lookup(c) PROVE Shape
    <3>1. entries' \in Caches
      BY <2>2, CallTypes, GetShrinks DEF Lookup, Shrunk, TypeOK
    <3> QED BY <2>2, <3>1 DEF Lookup, TypeOK, Caches
  <2>3. ASSUME NEW c \in Calls, Join(c) PROVE Shape
    <3>1. note' \in [Calls -> Note]
      <4>1. [note[c] EXCEPT !.led = TRUE] \in Note
        BY DEF TypeOK, Note
      <4> QED BY <2>3, <4>1 DEF Join, TypeOK
    <3> QED BY <2>3, <3>1 DEF Join, TypeOK, Caches
  <2>4. ASSUME NEW c \in Calls, Cancel(c) \/ GiveUp(c) PROVE Shape
    BY <2>4 DEF Cancel, GiveUp, TypeOK, Caches
  <2>5. ASSUME NEW u \in Urls, Check(u) PROVE Shape
    <3>1. entries' \in Caches
      BY <2>5, GetShrinks DEF Check, Shrunk, TypeOK
    <3> QED BY <2>5, <3>1 DEF Check, Fly, TypeOK, Caches
  <2>6. ASSUME NEW u \in Urls,
               Reply(u) \/ AttemptFails(u) \/ Solve(u) \/ SolveFails(u) \/ Deadline(u)
        PROVE  Shape
    BY <2>6 DEF Reply, AttemptFails, Solve, SolveFails, Deadline, Fly, TypeOK, Caches
  <2>7. ASSUME NEW u \in Urls, Store(u) PROVE Shape
    <3>1. flight[u].got \in Response /\ clock \in Nat /\ entries \in Caches
      BY <2>7 DEF Store, Delivering, Success, TypeOK
    <3>2. entries' \in Caches
      BY <2>7, <3>1, SetFacts DEF Store, Keep
    <3> QED BY <2>7, <3>2 DEF Store, Keep, Fly, TypeOK, Caches
  <2>8. ASSUME NEW u \in Urls, Land(u) PROVE Shape
    BY <2>8 DEF Land, TypeOK, Caches
  <2>9. CASE \E u \in Urls : Publish(u)
    BY <2>9 DEF Publish, TypeOK, Caches
  <2>10. CASE FlushRequest
    BY <2>10 DEF FlushRequest, FlushCache, EmptyCache, TypeOK, Caches
  <2>11. CASE Tick \/ UNCHANGED vars
    BY <2>11 DEF Tick, vars, TypeOK, Caches
  <2> HIDE DEF Shape
  <2> QED BY <2>1, <2>2, <2>3, <2>4, <2>5, <2>6, <2>7, <2>8, <2>9, <2>10, <2>11
          DEF Next, CallStep, FlightStep
<1>6. flight' \in [Urls -> Flight \cup {NoFlight}] /\ copy' \in [Urls -> Nat]
  BY <1>2, <1>3, <1>5
<1>7. /\ pc' \in [Calls -> {"idle", "lookup", "join", "wait", "done"}]
      /\ answer' \in [Calls -> Response \cup {NoResponse, Failed, Gone}]
  BY <1>4, <1>5
<1> QED BY <1>1, <1>5, <1>6, <1>7 DEF TypeOK, Caches

-----------------------------------------------------------------------------
(* Only successes, and no version that the origin has not served.          *)

LEMMA StayedEntry ==
  ASSUME TypeOK, NEW u \in Urls, OnlyLost(u), u \in Stored(entries')
  PROVE  u \in Stored(entries) /\ entries'[u] = entries[u]
BY DEF OnlyLost, Stored

LEMMA OpenOrLanded ==
  ASSUME NEW u
  PROVE  /\ Opens(u) => flight'[u].phase = "check"
         /\ Lands(u) => flight'[u].phase = "none"
<1>1. ASSUME NEW c,
             flight'[u] = [phase |-> "check", client |-> c, attempt |-> 0,
                           expired |-> FALSE, got |-> NoResponse]
      PROVE  flight'[u].phase = "check"
  BY <1>1
<1>2. NoFlight.phase = "none"
  BY DEF NoFlight
<1> QED BY <1>1, <1>2 DEF Opens, Lands

\* A flight that has something to deliver, where it has it from.
LEMMA CarriedOn ==
  ASSUME Sound, NEW u \in Urls, UrlMove(u), flight'[u].phase \in {"store", "land"}
  PROVE  \/ flight'[u] = flight[u] /\ OnlyLost(u)
         \/ Flies(u) /\ OnlyLost(u) /\ flight'[u].got = Failed
         \/ /\ Flies(u) /\ Looks(u) /\ OnlyLost(u)
            /\ flight'[u].phase = "land"
            /\ u \in Live(entries, clock) /\ Caching(flight[u].client)
            /\ flight'[u].got = entries[u].body
         \/ /\ Flies(u) /\ Asks(u) /\ OnlyLost(u)
            /\ flight'[u].phase = "store"
            /\ flight'[u].got \in Success /\ flight'[u].got.version = origin[u]
         \/ /\ Flies(u) /\ Stores(u)
            /\ flight'[u].phase = "land"
            /\ flight'[u].got = flight[u].got
<1>1. CASE Flies(u) /\ Looks(u)
  BY <1>1 DEF Looks
<1>2. CASE Flies(u) /\ Asks(u)
  BY <1>2 DEF Asks, Asking
<1>3. CASE Flies(u) /\ Stores(u)
  BY <1>3 DEF Stores
<1>4. ~Opens(u) /\ ~Lands(u)
  BY OpenOrLanded
<1> QED BY <1>1, <1>2, <1>3, <1>4 DEF UrlMove, Flies

LEMMA DeliveringStep ==
  ASSUME Sound, [Next]_vars
  PROVE  Delivering'
<1> USE DEF Sound
<1> SUFFICES ASSUME NEW u \in Urls, flight'[u].phase \in {"store", "land"}
             PROVE  /\ flight'[u].phase = "store" => flight'[u].got \in Success
                    /\ flight'[u].phase = "land" =>
                         flight'[u].got \in Success \cup {Failed}
  BY DEF Delivering
<1>1. u \in Live(entries, clock) => entries[u].body \in Success
  BY StoredEntry DEF Live, TypeOK, OnlySuccesses, Success
<1>2. flight[u].phase = "store" => flight[u].got \in Success
  BY DEF Delivering
<1>3. Flies(u) /\ OnlyLost(u) /\ flight'[u].got = Failed =>
        flight'[u].phase # "store"
  BY NotResponses DEF Flies, Looks, Asks, Asking, Stores, Success
<1>4. UrlMove(u)
  BY UrlMoves
<1>5. CASE flight'[u] = flight[u]
  BY <1>5 DEF Delivering
<1>6. CASE flight'[u] # flight[u]
  BY <1>1, <1>2, <1>3, <1>4, <1>6, CarriedOn DEF Stores
<1> QED BY <1>5, <1>6

LEMMA OnlySuccessesStep ==
  ASSUME Sound, [Next]_vars
  PROVE  OnlySuccesses'
<1> USE DEF Sound
<1>1. ASSUME NEW c \in Calls, Answered(c)' PROVE answer'[c].status = 200
  <2>1. UrlOf(c) \in Urls
    BY CallTypes
  <2>2. UrlOf(c) \in Live(entries, clock) => entries[UrlOf(c)].body.status = 200
    BY DEF Live, OnlySuccesses
  <2>3. flight[UrlOf(c)].phase = "land" /\ flight[UrlOf(c)].got \in Response =>
          flight[UrlOf(c)].got.status = 200
    BY <2>1, NotResponses DEF Delivering, Success
  <2>4. answer[c] \in Response => answer[c].status = 200
    BY DEF OnlySuccesses, Answered
  <2>5. CallMove(c) /\ answer'[c] \in Response
    BY <1>1, CallMoves DEF Answered
  <2>6. \/ answer'[c] = answer[c]
        \/ UrlOf(c) \in Live(entries, clock) /\ answer'[c] = entries[UrlOf(c)].body
        \/ flight[UrlOf(c)].phase = "land" /\ answer'[c] = flight[UrlOf(c)].got
    BY <2>5, NotResponses DEF CallMove, Asked
  <2> QED BY <2>2, <2>3, <2>4, <2>5, <2>6
<1>2. ASSUME NEW u \in Stored(entries')
      PROVE  entries'[u].body.status = 200 /\ entries'[u].body.body # "empty"
  <2>0. u \in Urls
    BY DEF Stored
  <2>1. CASE OnlyLost(u)
    BY <1>2, <2>0, <2>1, StayedEntry DEF OnlySuccesses
  <2>2. CASE Stores(u) /\ ~OnlyLost(u)
    <3>1. flight[u].got \in Success /\ flight[u].got.body # "empty"
      BY <2>0, <2>2 DEF Stores, Delivering, Cacheable
    <3> QED BY <2>2, <3>1 DEF Stores, Success
  <2> QED BY <2>0, <2>1, <2>2, UrlMoves
          DEF UrlMove, Flies, Looks, Asks, Opens, Lands
<1> QED BY <1>1, <1>2 DEF OnlySuccesses

LEMMA VersionsStep ==
  ASSUME Sound, [Next]_vars
  PROVE  Versions'
<1> USE DEF Sound
<1>1. ASSUME NEW u \in Urls
      PROVE  /\ copy'[u] <= origin'[u]
             /\ u \in Stored(entries') => entries'[u].body.version = copy'[u]
             /\ flight'[u].phase \in {"store", "land"} /\ flight'[u].got \in Response =>
                  copy'[u] <= flight'[u].got.version
                  /\ flight'[u].got.version <= origin'[u]
  <2>1. /\ origin[u] \in Nat /\ origin'[u] \in Nat /\ origin[u] <= origin'[u]
        /\ copy[u] \in Nat /\ copy[u] <= origin[u]
    BY Onward DEF TypeOK, Versions
  <2>2. /\ u \in Stored(entries) => entries[u].body.version = copy[u]
        /\ flight[u].phase \in {"store", "land"} /\ flight[u].got \in Response =>
             copy[u] <= flight[u].got.version /\ flight[u].got.version <= origin[u]
    BY DEF Versions
  <2>3. flight'[u].got \in Response => flight'[u].got.version \in Nat
    BY DEF Response
  <2>4. UrlMove(u)
    BY UrlMoves
  <2>5. CASE OnlyLost(u)
    <3>1. copy'[u] = copy[u]
          /\ (u \in Stored(entries') => entries'[u].body.version = copy[u])
      BY <2>2, <2>5, StayedEntry DEF OnlyLost
    <3>2. CASE flight'[u].phase \in {"store", "land"} /\ flight'[u].got \in Response
      <4>1. \/ flight'[u] = flight[u]
            \/ u \in Live(entries, clock) /\ flight'[u].got = entries[u].body
            \/ flight'[u].got.version = origin[u]
            \/ flight[u].phase = "store" /\ flight'[u].got = flight[u].got
        BY <2>4, <3>2, CarriedOn, NotResponses DEF Stores
      <4>2. u \in Live(entries, clock) => u \in Stored(entries)
        BY DEF Live
      <4> QED BY <2>1, <2>2, <2>3, <3>1, <3>2, <4>1, <4>2
    <3> QED BY <2>1, <3>1, <3>2
  <2>6. CASE ~OnlyLost(u)
    <3>1. Stores(u)
      BY <2>4, <2>6 DEF UrlMove, Flies, Looks, Asks, Opens, Lands
    <3>2. /\ flight[u].phase = "store" /\ flight[u].got \in Response
          /\ flight'[u].got = flight[u].got
          /\ entries'[u].body = flight[u].got
          /\ copy'[u] = flight[u].got.version
      BY <2>6, <3>1 DEF Stores, Delivering, Success
    <3> QED BY <2>1, <2>2, <2>3, <3>2
  <2> QED BY <2>5, <2>6
<1>2. ASSUME NEW c \in Calls, Answered(c)'
      PROVE  answer'[c].version <= origin'[UrlOf(c)]
  <2> DEFINE u == UrlOf(c)
  <2>1. u \in Urls
    BY CallTypes
  <2>2. origin[u] \in Nat /\ origin'[u] \in Nat /\ origin[u] <= origin'[u]
    BY <2>1, Onward DEF TypeOK
  <2>3. u \in Live(entries, clock) => entries[u].body.version <= origin[u]
    BY <2>1 DEF Live, Versions
  <2>4. flight[u].phase = "land" /\ flight[u].got \in Response =>
          flight[u].got.version <= origin[u]
    BY <2>1 DEF Versions
  <2>5. answer[c] \in Response => answer[c].version <= origin[u]
    BY DEF Versions, Answered
  <2>6. answer'[c] \in Response /\ answer'[c].version \in Nat
    BY <1>2 DEF Answered, Response
  <2>7. answer'[c].version <= origin[u]
    BY <2>3, <2>4, <2>5, <2>6, CallMoves, NotResponses DEF CallMove, Asked
  <2> QED BY <2>2, <2>6, <2>7
<1>3. \A c \in Calls : UrlOf(c)' = UrlOf(c)
  BY Onward DEF UrlOf
<1> QED BY <1>1, <1>2, <1>3 DEF Versions

LEMMA SoundInit == Init => Sound
<1> SUFFICES ASSUME Init PROVE Sound
  OBVIOUS
<1>1. TypeOK
  BY FetchAssumption DEF Init, TypeOK, Caches, EmptyCache, Note
<1>2. Delivering
  BY DEF Init, Delivering, NoFlight
<1>3. Stored(entries) = {}
  BY DEF Init, Stored, EmptyCache
<1>4. OnlySuccesses
  BY <1>3, NotResponses DEF Init, OnlySuccesses, Answered
<1>5. Versions
  BY <1>3, NotResponses DEF Init, Versions, NoFlight, Answered
<1> QED BY <1>1, <1>2, <1>4, <1>5 DEF Sound

LEMMA SoundStep == Sound /\ [Next]_vars => Sound'
BY TypeStep, DeliveringStep, OnlySuccessesStep, VersionsStep DEF Sound

LEMMA SoundAlways == Spec => []Sound
BY SoundInit, SoundStep, PTL DEF Spec

(* TypeOK holds in every reachable state.                                  *)
THEOREM TypeCorrect == Spec => []TypeOK
<1>1. Sound => TypeOK
  BY DEF Sound
<1> QED BY <1>1, SoundAlways, PTL

(* OnlySuccesses: no call is answered with an error page, and no empty or  *)
(* failed response is ever cached.                                         *)
THEOREM OnlySuccessesAlways == Spec => []OnlySuccesses
<1>1. Sound => OnlySuccesses
  BY DEF Sound
<1> QED BY <1>1, SoundAlways, PTL

-----------------------------------------------------------------------------
(* Who waits, and who asks the origin.                                     *)

(* WaitersHaveAFlight: whoever waits for a result waits for a flight that  *)
(* is in progress.                                                         *)
THEOREM WaitersHaveAFlightAlways == Spec => []WaitersHaveAFlight
<1>1. Init => WaitersHaveAFlight
  BY DEF Init, WaitersHaveAFlight
<1>2. Sound /\ WaitersHaveAFlight /\ [Next]_vars => WaitersHaveAFlight'
  <2> SUFFICES ASSUME Sound, WaitersHaveAFlight, [Next]_vars,
                      NEW c \in Calls, pc'[c] = "wait"
               PROVE  flight'[UrlOf(c)].phase # "none"
    BY Onward DEF Sound, WaitersHaveAFlight, InFlight, UrlOf
  <2> DEFINE u == UrlOf(c)
  <2>1. u \in Urls /\ UrlMove(u) /\ CallMove(c)
    BY CallTypes, UrlMoves, CallMoves DEF Sound
  <2>2. CASE pc[c] = "wait"
    <3>1. flight[u].phase # "none"
      BY <2>2 DEF WaitersHaveAFlight, InFlight
    <3>2. ~Lands(u)
      BY <2>1, <2>2 DEF Lands, Joined
    <3>3. Flies(u) => flight'[u].phase # "none"
      BY DEF Flies, Flight
    <3>4. ~Opens(u)
      BY <3>1 DEF Opens, InFlight
    <3> QED BY <2>1, <3>1, <3>2, <3>3, <3>4 DEF UrlMove
  <2>3. CASE pc[c] # "wait"
    BY <2>1, <2>3 DEF CallMove, Asked, Goes
  <2> QED BY <2>2, <2>3
<1> QED BY <1>1, <1>2, SoundAlways, PTL DEF Spec

\* What is not readable does not become so while a flight of its URL is still
\* at work.
LEMMA StaysUnread ==
  ASSUME Sound, [Next]_vars, NEW u \in Urls, OnlyLost(u), u \in Live(entries', clock')
  PROVE  u \in Live(entries, clock) /\ entries'[u] = entries[u]
<1>1. clock \in Nat /\ clock' \in Nat /\ clock <= clock'
  BY Onward DEF Sound, TypeOK
<1>2. u \in Stored(entries) /\ entries'[u] = entries[u]
  BY StayedEntry DEF Sound, Live
<1>3. entries[u].expires \in Nat
  BY <1>2, StoredEntry DEF Sound, TypeOK
<1>4. clock' < entries[u].expires
  BY <1>2 DEF Live
<1> QED BY <1>1, <1>2, <1>3, <1>4 DEF Live

\* FillsOnlyOnMiss is inductive next to Sound.
LEMMA FillsStep == Sound /\ FillsOnlyOnMiss /\ [Next]_vars => FillsOnlyOnMiss'
<1> SUFFICES ASSUME Sound, FillsOnlyOnMiss, [Next]_vars, NEW u \in Urls,
                    flight'[u].phase \in Asking \cup {"store"},
                    Caching(flight[u].client)', u \in Live(entries', clock')
             PROVE  FALSE
  BY DEF FillsOnlyOnMiss, Asking
<1>1. UrlMove(u)
  BY UrlMoves
<1>2. \A c : Caching(c)' <=> Caching(c)
  BY Onward DEF Sound, Caching
<1>3. OnlyLost(u)
  BY <1>1 DEF UrlMove, Flies, Looks, Asks, Stores, Opens, Lands, Asking
<1>4. u \in Live(entries, clock)
  BY <1>3, StaysUnread
<1>5. flight[u].phase \in Asking \cup {"store"} /\ flight'[u].client = flight[u].client
  <2>1. CASE Flies(u) /\ Looks(u)
    BY <1>2, <1>4, <2>1 DEF Flies, Looks, Asking
  <2>2. CASE Flies(u) /\ (Asks(u) \/ Stores(u))
    BY <2>2 DEF Flies, Asks, Stores
  <2>3. ~Opens(u) /\ ~Lands(u)
    BY OpenOrLanded DEF Asking
  <2> QED BY <1>1, <2>1, <2>2, <2>3 DEF UrlMove, Flies
<1> QED BY <1>2, <1>4, <1>5 DEF FillsOnlyOnMiss, Asking

(* FillsOnlyOnMiss: a flight whose client has a cache asks the origin only *)
(* while the cache has nothing readable for its URL.                       *)
THEOREM FillsOnlyOnMissAlways == Spec => []FillsOnlyOnMiss
<1>1. Init => FillsOnlyOnMiss
  BY DEF Init, FillsOnlyOnMiss, NoFlight
<1> QED BY <1>1, FillsStep, SoundAlways, PTL DEF Spec

-----------------------------------------------------------------------------
(* The refinement.                                                         *)

\* A call is answered once: until it is done it has no answer.
Unanswered == \A c \in Calls : pc[c] # "done" => answer[c] = NoResponse

LEMMA UnansweredStep == Sound /\ Unanswered /\ [Next]_vars => Unanswered'
<1> SUFFICES ASSUME Sound, Unanswered, [Next]_vars, NEW c \in Calls, pc'[c] # "done"
             PROVE  answer'[c] = NoResponse
  BY DEF Unanswered
<1>1. CallMove(c)
  BY CallMoves
<1> QED BY <1>1 DEF CallMove, Asked, Goes, Unanswered

LEMMA UnansweredAlways == Spec => []Unanswered
<1>1. Init => Unanswered
  BY DEF Init, Unanswered
<1> QED BY <1>1, UnansweredStep, SoundAlways, PTL DEF Spec

\* What the mapping makes of an answer.
Told(a) == CASE a = NoResponse -> -1
             [] a \in Response -> a.version
             [] OTHER -> -2

LEMMA ToldFacts ==
  /\ Told(NoResponse) = -1 /\ Told(Failed) = -2 /\ Told(Gone) = -2
  /\ \A a \in Response : Told(a) = a.version
BY NotResponses DEF Told

LEMMA SameState ==
  ASSUME origin' = origin, copy' = copy, opt' = opt, answer' = answer
  PROVE  UNCHANGED Promise!vars
BY DEF Promise!vars, UrlOf

\* Calls that have no answer yet and ask for u are answered alike.
LEMMA AnswerStep ==
  ASSUME TypeOK, NEW u \in Urls,
         NEW S \in SUBSET {c \in Calls : UrlOf(c) = u /\ answer[c] = NoResponse},
         NEW a, Told(a) \in copy[u] .. origin[u] \cup {-2},
         answer' = [c \in Calls |-> IF c \in S THEN a ELSE answer[c]],
         origin' = origin, copy' = copy, opt' = opt
  PROVE  Promise!Answer(u)
<1> DEFINE wants == [c \in Calls |-> UrlOf(c)]
           got == [c \in Calls |-> Told(answer[c])]
<1>1. S \in SUBSET {c \in Calls : wants[c] = u /\ got[c] = -1}
  BY ToldFacts
<1>2. [c \in Calls |-> Told(answer'[c])] =
        [c \in Calls |-> IF c \in S THEN Told(a) ELSE got[c]]
  <2>1. \A c \in Calls : Told(answer'[c]) = IF c \in S THEN Told(a) ELSE got[c]
    OBVIOUS
  <2> QED BY <2>1
<1>3. UNCHANGED <<origin, copy, wants>>
  BY DEF UrlOf
<1> QED BY <1>1, <1>2, <1>3
        DEF Promise!Answer, Promise!Pending, Promise!Failure, Told

LEMMA InitImplements == Init => Promise!Init
<1> SUFFICES ASSUME Init PROVE Promise!Init
  OBVIOUS
<1>1. [c \in Calls |-> UrlOf(c)] \in [Calls -> Urls]
  BY FetchAssumption DEF Init, UrlOf, CallOptions
<1>2. [c \in Calls |-> Told(answer[c])] = [c \in Calls |-> -1]
  BY ToldFacts DEF Init
<1> QED BY <1>1, <1>2 DEF Init, Promise!Init, Promise!Pending, Told

LEMMA CallImplements ==
  ASSUME Sound, Unanswered, NEW c \in Calls, CallStep(c)
  PROVE  [Promise!Next]_Promise!vars
<1> USE DEF Sound
<1>0. PICK u \in Urls : u = UrlOf(c)
  BY CallTypes
<1>1. CASE Lookup(c) /\ Caching(c) /\ Hit(entries, u, clock)
  <2>1. entries[u].body \in Response /\ entries[u].body.version = copy[u]
    BY <1>0, <1>1, StoredEntry DEF Hit, Live, Versions, TypeOK
  <2>2. copy[u] \in Nat /\ origin[u] \in Nat /\ copy[u] <= origin[u]
    BY <1>0 DEF TypeOK, Versions
  <2>3. Told(entries[u].body) \in copy[u] .. origin[u] \cup {-2}
    BY <2>1, <2>2, ToldFacts
  <2>4. answer' = [answer EXCEPT ![c] = entries[u].body] /\ pc[c] = "lookup"
        /\ origin' = origin /\ copy' = copy /\ opt' = opt
    BY <1>0, <1>1 DEF Lookup
  <2>5. answer' = [d \in Calls |-> IF d \in {c} THEN entries[u].body ELSE answer[d]]
    BY <2>4 DEF TypeOK
  <2>6. {c} \in SUBSET {d \in Calls : UrlOf(d) = u /\ answer[d] = NoResponse}
    BY <1>0, <2>4 DEF Unanswered
  <2>7. Promise!Answer(u)
    <3>1. PICK a : a = entries[u].body
      OBVIOUS
    <3>2. /\ Told(a) \in copy[u] .. origin[u] \cup {-2}
          /\ answer' = [d \in Calls |-> IF d \in {c} THEN a ELSE answer[d]]
          /\ origin' = origin /\ copy' = copy /\ opt' = opt
      BY <2>3, <2>4, <2>5, <3>1
    <3> QED BY <2>6, <3>2, AnswerStep
  <2> QED BY <1>0, <2>7 DEF Promise!Next
<1>2. CASE GiveUp(c)
  <2>1. answer' = [answer EXCEPT ![c] = Gone] /\ pc[c] = "wait"
        /\ origin' = origin /\ copy' = copy /\ opt' = opt
    BY <1>2 DEF GiveUp
  <2>2. answer' = [d \in Calls |-> IF d \in {c} THEN Gone ELSE answer[d]]
    BY <2>1 DEF TypeOK
  <2>3. {c} \in SUBSET {d \in Calls : UrlOf(d) = u /\ answer[d] = NoResponse}
    BY <1>0, <2>1 DEF Unanswered
  <2>4. Promise!Answer(u)
    <3>1. Told(Gone) \in copy[u] .. origin[u] \cup {-2}
      BY ToldFacts
    <3>2. PICK a : a = Gone
      OBVIOUS
    <3>3. /\ Told(a) \in copy[u] .. origin[u] \cup {-2}
          /\ answer' = [d \in Calls |-> IF d \in {c} THEN a ELSE answer[d]]
          /\ origin' = origin /\ copy' = copy /\ opt' = opt
      BY <2>1, <2>2, <3>1, <3>2
    <3> QED BY <2>3, <3>3, AnswerStep
  <2> QED BY <1>0, <2>4 DEF Promise!Next
<1>3. CASE Arrive(c) \/ Join(c) \/ Cancel(c)
           \/ (Lookup(c) /\ ~(Caching(c) /\ Hit(entries, u, clock)))
  BY <1>0, <1>3, SameState DEF Arrive, Join, Cancel, Lookup
<1> QED BY <1>1, <1>2, <1>3 DEF CallStep

LEMMA FlightImplements ==
  ASSUME Sound, Unanswered, NEW u \in Urls, FlightStep(u)
  PROVE  [Promise!Next]_Promise!vars
<1> USE DEF Sound
<1>1. CASE Store(u) /\ Cacheable(u)
  <2>1. flight[u].got \in Response /\ copy' = [copy EXCEPT ![u] = flight[u].got.version]
        /\ origin' = origin /\ opt' = opt /\ answer' = answer
    BY <1>1 DEF Store, Keep, Delivering, Success
  <2>2. /\ copy[u] \in Nat /\ origin[u] \in Nat /\ flight[u].got.version \in Nat
        /\ copy[u] <= flight[u].got.version /\ flight[u].got.version <= origin[u]
    BY <1>1, <2>1 DEF Store, TypeOK, Versions, Response
  <2>3. CASE flight[u].got.version = copy[u]
    <3>1. copy' = copy
      BY <2>1, <2>3 DEF TypeOK
    <3> QED BY <2>1, <3>1, SameState
  <2>4. CASE flight[u].got.version # copy[u]
    <3>1. flight[u].got.version \in copy[u] + 1 .. origin[u]
      BY <2>2, <2>4
    <3>2. Promise!Refresh(u)
      <4>1. UNCHANGED <<origin, [c \in Calls |-> UrlOf(c)],
                        [c \in Calls |-> Told(answer[c])]>>
        BY <2>1 DEF UrlOf
      <4> QED BY <2>1, <3>1, <4>1 DEF Promise!Refresh, Told
    <3> QED BY <3>2 DEF Promise!Next
  <2> QED BY <2>3, <2>4
<1>2. CASE Land(u)
  <2>1. flight[u].phase = "land" /\ flight[u].got \in Success \cup {Failed}
    BY <1>2 DEF Land, Delivering
  <2>2. copy[u] \in Nat /\ origin[u] \in Nat
    BY DEF TypeOK
  <2>3. CASE flight[u].got = Failed
    BY <1>2, <2>3, AnswerStep, ToldFacts
       DEF Land, Joined, Unanswered, Promise!Next
  <2>4. CASE flight[u].got \in Response
    <3>1. flight[u].got.version \in copy[u] .. origin[u]
      BY <2>1, <2>2, <2>4 DEF Versions, Response
    <3>2. Told(flight[u].got) \in copy[u] .. origin[u] \cup {-2}
      BY <2>4, <3>1, ToldFacts
    <3>3. Joined(u) \in SUBSET {c \in Calls : UrlOf(c) = u /\ answer[c] = NoResponse}
      BY DEF Joined, Unanswered
    <3>4. Promise!Answer(u)
      BY <1>2, <3>2, <3>3, AnswerStep DEF Land
    <3> QED BY <3>4 DEF Promise!Next
  <2> QED BY <2>1, <2>3, <2>4 DEF Success
<1>3. CASE ~Land(u) /\ ~(Store(u) /\ Cacheable(u))
  BY <1>3, SameState
     DEF FlightStep, Check, Reply, AttemptFails, Solve, SolveFails, Deadline, Store
<1> QED BY <1>1, <1>2, <1>3

(* ImplementsReplica: whatever flights, flushes, expiry and retries do,    *)
(* the calls are answered as by one copy of each URL that only moves       *)
(* forward.                                                                *)
THEOREM ImplementsReplicaAlways == Spec => ImplementsReplica
<1>1. Sound /\ Unanswered /\ [Next]_vars => [Promise!Next]_Promise!vars
  <2> SUFFICES ASSUME Sound, Unanswered, [Next]_vars
               PROVE  [Promise!Next]_Promise!vars
    OBVIOUS
  <2>1. CASE \E c \in Calls : CallStep(c)
    BY <2>1, CallImplements
  <2>2. CASE \E u \in Urls : FlightStep(u)
    BY <2>2, FlightImplements
  <2>3. ASSUME NEW u \in Urls, Publish(u) PROVE Promise!Publish(u)
    BY <2>3 DEF Publish, Promise!Publish, UrlOf
  <2>4. CASE FlushRequest \/ Tick \/ UNCHANGED vars
    BY <2>4, SameState DEF FlushRequest, Tick, vars
  <2> QED BY <2>1, <2>2, <2>3, <2>4 DEF Next, Promise!Next
<1> QED BY <1>1, InitImplements, UnansweredAlways, SoundAlways, PTL
        DEF Spec, ImplementsReplica, Promise!Spec

-----------------------------------------------------------------------------
(* Floors: versions below which no answer will fall.                       *)

\* No call is answered from now on with a version of u older than v: neither
\* the origin nor the cache nor a flight has one.
Floor(u, v) ==
  /\ v <= origin[u]
  /\ u \in Live(entries, clock) => v <= entries[u].body.version
  /\ flight[u].phase \in {"store", "land"} /\ flight[u].got \in Response =>
       v <= flight[u].got.version

LEMMA FloorStays ==
  ASSUME Sound, [Next]_vars, NEW u \in Urls, NEW v \in Nat, Floor(u, v)
  PROVE  Floor(u, v)'
<1>1. /\ origin[u] \in Nat /\ origin'[u] \in Nat /\ origin[u] <= origin'[u]
      /\ v <= origin[u]
  BY Onward DEF Sound, TypeOK, Floor
<1>2. UrlMove(u)
  BY UrlMoves
<1>3. ASSUME u \in Live(entries', clock') PROVE v <= entries'[u].body.version
  <2>1. CASE OnlyLost(u)
    BY <1>3, <2>1, StaysUnread DEF Floor
  <2>2. CASE ~OnlyLost(u)
    <3>1. Stores(u)
      BY <1>2, <2>2 DEF UrlMove, Flies, Looks, Asks, Opens, Lands
    <3>2. /\ flight[u].phase = "store" /\ flight[u].got \in Response
          /\ entries'[u].body = flight[u].got
      BY <2>2, <3>1 DEF Stores, Sound, Delivering, Success
    <3> QED BY <3>2 DEF Floor
  <2> QED BY <2>1, <2>2
<1>4. ASSUME flight'[u].phase \in {"store", "land"}, flight'[u].got \in Response
      PROVE  v <= flight'[u].got.version
  <2>1. \/ flight'[u] = flight[u]
        \/ u \in Live(entries, clock) /\ flight'[u].got = entries[u].body
        \/ flight'[u].got.version = origin[u]
        \/ flight[u].phase = "store" /\ flight'[u].got = flight[u].got
    BY <1>2, <1>4, CarriedOn, NotResponses DEF Stores
  <2> QED BY <1>1, <1>4, <2>1 DEF Floor
<1> QED BY <1>1, <1>3, <1>4 DEF Floor

\* Where a new answer comes from.
LEMMA NewAnswer ==
  ASSUME Sound, [Next]_vars, NEW c \in Calls, ~Answered(c), Answered(c)'
  PROVE  /\ pc[c] \in {"lookup", "wait"} /\ pc'[c] = "done" /\ note'[c] = note[c]
         /\ \/ /\ pc[c] = "lookup" /\ Caching(c)
               /\ UrlOf(c) \in Live(entries, clock)
               /\ answer'[c] = entries[UrlOf(c)].body
            \/ /\ pc[c] = "wait"
               /\ flight[UrlOf(c)].phase = "land"
               /\ flight[UrlOf(c)].got \in Response
               /\ answer'[c] = flight[UrlOf(c)].got
BY CallMoves, NotResponses DEF CallMove, Asked, Goes, Answered

LEMMA FloorHolds ==
  ASSUME Sound, [Next]_vars, NEW c \in Calls, NEW v \in Nat,
         Floor(UrlOf(c), v), ~Answered(c), Answered(c)'
  PROVE  v <= answer'[c].version
BY NewAnswer DEF Floor

\* An answer is kept.
LEMMA OldAnswer ==
  ASSUME Sound, Unanswered, [Next]_vars, NEW c \in Calls, Answered(c)
  PROVE  answer'[c] = answer[c] /\ note'[c] = note[c]
<1>1. pc[c] = "done"
  BY NotResponses DEF Unanswered, Answered, Sound, TypeOK
<1> QED BY <1>1, CallMoves DEF CallMove, Asked, Goes

LEMMA UrlOfStays ==
  ASSUME Sound, [Next]_vars, NEW c \in Calls
  PROVE  UrlOf(c)' = UrlOf(c) /\ UrlOf(c) \in Urls /\ Caching(c)' = Caching(c)
BY Onward, CallTypes DEF Sound, UrlOf, Caching

-----------------------------------------------------------------------------
(* Flushes.                                                                *)

Barriers ==
  /\ \A u \in Urls : Floor(u, barrier[u])
  /\ \A c \in Calls : Floor(UrlOf(c), note[c].flushed)

LEMMA BarrierMoves ==
  ASSUME Sound, [Next]_vars, NEW u \in Urls
  PROVE  \/ barrier'[u] = barrier[u]
         \/ /\ barrier'[u] = origin[u] /\ origin' = origin
            /\ entries' = EmptyCache /\ flight'[u] = flight[u] /\ ~InFlight(u)
<1>1. CASE \E c \in Calls : Arrive(c)
  BY <1>1 DEF Arrive, FlushCache
<1>2. CASE FlushRequest
  BY <1>2 DEF FlushRequest, FlushCache
<1>3. CASE \E c \in Calls : Lookup(c) \/ Join(c) \/ Cancel(c) \/ GiveUp(c)
  BY <1>3 DEF Lookup, Join, Cancel, GiveUp
<1>4. CASE \E v \in Urls : FlightStep(v)
  BY <1>4 DEF FlightStep, Check, Reply, AttemptFails, Solve, SolveFails,
              Deadline, Store, Land
<1>5. CASE (\E v \in Urls : Publish(v)) \/ Tick \/ UNCHANGED vars
  BY <1>5 DEF Publish, Tick, vars
<1> QED BY <1>1, <1>2, <1>3, <1>4, <1>5 DEF Next, CallStep

LEMMA BarriersStep == Sound /\ Barriers /\ [Next]_vars => Barriers'
<1> SUFFICES ASSUME Sound, Barriers, [Next]_vars PROVE Barriers'
  OBVIOUS
<1>0. /\ \A u \in Urls : barrier[u] \in Nat /\ barrier'[u] \in Nat /\ origin[u] \in Nat
      /\ \A c \in Calls : note[c].flushed \in Nat
  BY TypeStep DEF Sound, TypeOK, Note
<1>1. ASSUME NEW u \in Urls PROVE Floor(u, barrier[u])'
  <2>1. CASE barrier'[u] = barrier[u]
    <3>1. PICK v \in Nat : v = barrier[u]
      BY <1>0
    <3>2. Floor(u, v)'
      BY <3>1, FloorStays DEF Barriers
    <3> QED BY <2>1, <3>1, <3>2 DEF Floor
  <2>2. CASE barrier'[u] # barrier[u]
    <3>1. /\ barrier'[u] = origin[u] /\ origin' = origin
          /\ entries' = EmptyCache /\ flight'[u] = flight[u] /\ ~InFlight(u)
      BY <2>2, BarrierMoves
    <3>2. u \notin Live(entries', clock')
      BY <3>1 DEF Live, Stored, EmptyCache
    <3>3. flight'[u].phase \notin {"store", "land"}
      BY <3>1 DEF InFlight, Sound, TypeOK, NoFlight, Flight
    <3> QED BY <1>0, <3>1, <3>2, <3>3 DEF Floor
  <2> QED BY <2>1, <2>2
<1>2. ASSUME NEW c \in Calls PROVE Floor(UrlOf(c), note[c].flushed)'
  <2>1. PICK u \in Urls : u = UrlOf(c) /\ UrlOf(c)' = u
    BY UrlOfStays
  <2>2. CASE Asked(c)
    BY <1>1, <2>1, <2>2 DEF Asked, Floor
  <2>3. CASE ~Asked(c)
    <3>1. note'[c].flushed = note[c].flushed
      BY <2>3, CallMoves DEF CallMove, SameNote
    <3>2. PICK v \in Nat : v = note[c].flushed
      BY <1>0
    <3>3. Floor(u, v)'
      BY <2>1, <3>2, FloorStays DEF Barriers
    <3> QED BY <2>1, <3>1, <3>2, <3>3 DEF Floor
  <2> QED BY <2>2, <2>3
<1> QED BY <1>1, <1>2 DEF Barriers

LEMMA BarriersAlways == Spec => []Barriers
<1>1. Init => Barriers
  BY FetchAssumption DEF Init, Barriers, Floor, Live, Stored, EmptyCache, NoFlight,
     UrlOf, CallOptions
<1> QED BY <1>1, BarriersStep, SoundAlways, PTL DEF Spec

(* FlushIsBarrierWhenQuiet: what was cached before a flush that met no     *)
(* flight of its URL is never served to a call made after it.              *)
THEOREM FlushIsBarrierAlways == Spec => []FlushIsBarrierWhenQuiet
<1>1. Init => FlushIsBarrierWhenQuiet
  BY NotResponses DEF Init, FlushIsBarrierWhenQuiet, Answered
<1>2. Sound /\ Unanswered /\ Barriers /\ FlushIsBarrierWhenQuiet /\ [Next]_vars
        => FlushIsBarrierWhenQuiet'
  <2> SUFFICES ASSUME Sound, Unanswered, Barriers, FlushIsBarrierWhenQuiet,
                      [Next]_vars, NEW c \in Calls, Answered(c)'
               PROVE  note'[c].flushed <= answer'[c].version
    BY TypeStep DEF FlushIsBarrierWhenQuiet, Answered, Sound, TypeOK, Note, Response
  <2>1. CASE Answered(c)
    <3>1. answer[c].version >= note[c].flushed
      BY <2>1 DEF FlushIsBarrierWhenQuiet
    <3>2. answer[c].version \in Nat /\ note[c].flushed \in Nat
      BY <2>1 DEF Answered, Response, Sound, TypeOK, Note
    <3> QED BY <2>1, <3>1, <3>2, OldAnswer
  <2>2. CASE ~Answered(c)
    <3>1. note[c].flushed \in Nat /\ Floor(UrlOf(c), note[c].flushed)
      BY DEF Barriers, Sound, TypeOK, Note
    <3>2. note'[c] = note[c]
      BY <2>2, NewAnswer
    <3>3. PICK v \in Nat : v = note[c].flushed
      BY <3>1
    <3> QED BY <2>2, <3>1, <3>2, <3>3, FloorHolds
  <2> QED BY <2>1, <2>2
<1> QED BY <1>1, <1>2, BarriersAlways, UnansweredAlways, SoundAlways, PTL DEF Spec

-----------------------------------------------------------------------------
(* Monotonic reads.                                                        *)

AllCaching == \A c \in Calls : Caching(c)

\* What a flight delivers is no newer than what the cache can be read for.
Landed ==
  \A u \in Urls :
    flight[u].phase = "land" /\ flight[u].got \in Response
      /\ u \in Live(entries, clock)
    => flight[u].got.version <= copy[u]

\* What has been answered is a floor, and so is what a call had seen.
Reads ==
  \A c \in Calls : /\ Floor(UrlOf(c), note[c].seen)
                   /\ Answered(c) => Floor(UrlOf(c), answer[c].version)

LEMMA AllCachingStays == Sound /\ [Next]_vars => AllCaching' = AllCaching
BY UrlOfStays DEF AllCaching

\* A flight stores what it delivers, unless the body is empty: then it asked
\* the origin because the cache had nothing readable, and it has nothing since.
LEMMA LandedStep ==
  ASSUME Sound, AllCaching, FillsOnlyOnMiss, Landed, [Next]_vars
  PROVE  Landed'
<1> SUFFICES ASSUME NEW u \in Urls, flight'[u].phase = "land",
                    flight'[u].got \in Response, u \in Live(entries', clock')
             PROVE  flight'[u].got.version <= copy'[u]
  BY DEF Landed
<1>1. UrlMove(u)
  BY UrlMoves
<1>2. flight'[u].got.version \in Nat /\ copy[u] \in Nat
  BY DEF Response, Sound, TypeOK
<1>3. OnlyLost(u) => u \in Live(entries, clock) /\ copy'[u] = copy[u]
  BY StaysUnread DEF OnlyLost
<1>4. CASE flight'[u] = flight[u] /\ OnlyLost(u)
  BY <1>3, <1>4 DEF Landed
<1>5. CASE u \in Live(entries, clock) /\ flight'[u].got = entries[u].body /\ OnlyLost(u)
  <2>1. entries[u].body.version = copy[u]
    BY <1>5 DEF Sound, Versions, Live
  <2> QED BY <1>2, <1>3, <1>5, <2>1
<1>6. CASE Flies(u) /\ Stores(u) /\ flight'[u].got = flight[u].got
  <2>1. Caching(flight[u].client) /\ flight[u].phase = "store"
    BY <1>6 DEF Flies, Flight, AllCaching, Stores
  <2>2. u \notin Live(entries, clock)
    BY <2>1 DEF FillsOnlyOnMiss
  <2>3. ~OnlyLost(u)
    BY <1>3, <2>2
  <2> QED BY <1>2, <1>6, <2>3 DEF Stores
<1> QED BY <1>1, <1>4, <1>5, <1>6, CarriedOn, NotResponses

\* What is answered now is as old as what may be answered later.
LEMMA NewAnswerFloor ==
  ASSUME Sound, Landed, [Next]_vars, NEW c \in Calls, ~Answered(c), Answered(c)'
  PROVE  /\ answer'[c].version \in Nat
         /\ Floor(UrlOf(c), answer'[c].version)
<1>1. PICK u \in Urls : u = UrlOf(c)
  BY UrlOfStays
<1>2. PICK a \in Response : a = answer'[c]
  BY DEF Answered
<1>3. /\ a.version \in Nat /\ copy[u] \in Nat /\ origin[u] \in Nat
      /\ u \in Live(entries, clock) => entries[u].body.version = copy[u]
      /\ copy[u] <= origin[u]
      /\ flight[u].phase \in {"store", "land"} /\ flight[u].got \in Response =>
           copy[u] <= flight[u].got.version /\ flight[u].got.version <= origin[u]
  BY DEF Response, Sound, TypeOK, Versions, Live
<1>4. ASSUME u \in Live(entries, clock), a = entries[u].body PROVE Floor(u, a.version)
  BY <1>3, <1>4 DEF Floor
<1>5. ASSUME flight[u].phase = "land", a = flight[u].got PROVE Floor(u, a.version)
  BY <1>3, <1>5 DEF Floor, Landed
<1>6. Floor(u, a.version)
  BY <1>1, <1>2, <1>4, <1>5, NewAnswer
<1> QED BY <1>1, <1>2, <1>3, <1>6

LEMMA ReadsStep ==
  ASSUME Sound, Unanswered, Landed, Reads, [Next]_vars
  PROVE  Reads'
<1> SUFFICES ASSUME NEW c \in Calls
             PROVE  /\ Floor(UrlOf(c), note[c].seen)'
                    /\ Answered(c)' => Floor(UrlOf(c), answer[c].version)'
  BY DEF Reads
<1>1. PICK u \in Urls : u = UrlOf(c) /\ u = UrlOf(c)'
  BY UrlOfStays
<1>2. \A v \in Nat : Floor(u, v) => Floor(u, v)'
  BY FloorStays
<1>3. \E v \in Nat : v = note'[c].seen /\ Floor(u, v)
  <2>1. CASE Asked(c)
    <3>1. PICK v \in Nat : v = SeenVersion(u)
      BY SeenType DEF Sound
    <3>2. ASSUME v = 0 PROVE Floor(u, v)
      <4>1. origin[u] \in Nat
        BY DEF Sound, TypeOK
      <4>2. u \in Live(entries, clock) => entries[u].body.version \in Nat
        BY StoredEntry DEF Sound, TypeOK, Live, Response
      <4>3. flight[u].got \in Response => flight[u].got.version \in Nat
        BY DEF Response
      <4> QED BY <3>2, <4>1, <4>2, <4>3 DEF Floor
    <3>3. ASSUME v # 0 PROVE Floor(u, v)
      <4>1. PICK d \in Calls : UrlOf(d) = u /\ Answered(d) /\ v = answer[d].version
        BY <3>1, <3>3, SeenType DEF Sound
      <4>2. Floor(UrlOf(d), answer[d].version)
        BY <4>1 DEF Reads
      <4> QED BY <4>1, <4>2 DEF Floor
    <3>4. note'[c].seen = v
      BY <1>1, <2>1, <3>1 DEF Asked
    <3> QED BY <3>2, <3>3, <3>4
  <2>2. CASE ~Asked(c)
    <3>1. note'[c].seen = note[c].seen
      BY <2>2, CallMoves DEF CallMove, SameNote
    <3>2. note[c].seen \in Nat /\ Floor(u, note[c].seen)
      BY <1>1 DEF Reads, Sound, TypeOK, Note
    <3> QED BY <3>1, <3>2
  <2> QED BY <2>1, <2>2
<1>4. ASSUME Answered(c)' PROVE \E v \in Nat : v = answer'[c].version /\ Floor(u, v)
  <2>1. CASE Answered(c)
    <3>1. answer'[c] = answer[c]
      BY <2>1, OldAnswer
    <3>2. answer[c].version \in Nat
      BY <2>1 DEF Answered, Response
    <3>3. Floor(u, answer[c].version)
      BY <1>1, <2>1 DEF Reads
    <3> QED BY <3>1, <3>2, <3>3
  <2>2. CASE ~Answered(c)
    BY <1>1, <1>4, <2>2, NewAnswerFloor
  <2> QED BY <2>1, <2>2
<1>5. Floor(UrlOf(c), note[c].seen)'
  <2>1. PICK v \in Nat : v = note'[c].seen /\ Floor(u, v)
    BY <1>3
  <2>2. Floor(u, v)'
    BY <1>2, <2>1
  <2> QED BY <1>1, <2>1, <2>2 DEF Floor
<1>6. ASSUME Answered(c)' PROVE Floor(UrlOf(c), answer[c].version)'
  <2>1. PICK v \in Nat : v = answer'[c].version /\ Floor(u, v)
    BY <1>4, <1>6
  <2>2. Floor(u, v)'
    BY <1>2, <2>1
  <2> QED BY <1>1, <2>1, <2>2 DEF Floor
<1> QED BY <1>5, <1>6

(* MonotonicReads: where every call uses the cache, no call is answered    *)
(* with something older than what had been answered when it was made.      *)
THEOREM MonotonicReadsAlways == Spec => []MonotonicReads
<1> DEFINE Seen(c) == Answered(c) => note[c].seen <= answer[c].version
           Reading == AllCaching => /\ Landed /\ Reads
                                    /\ \A c \in Calls : Seen(c)
<1>1. Init => Reading
  <2> SUFFICES ASSUME Init PROVE Landed /\ Reads /\ \A c \in Calls : Seen(c)
    OBVIOUS
  <2>1. Landed
    BY DEF Init, Landed, NoFlight
  <2>2. \A c \in Calls : UrlOf(c) \in Urls /\ ~Answered(c)
    BY FetchAssumption, NotResponses DEF Init, UrlOf, CallOptions, Answered
  <2>3. Reads
    BY <2>2 DEF Init, Reads, Floor, Live, Stored, EmptyCache, NoFlight
  <2> QED BY <2>1, <2>2, <2>3
<1>2. Sound /\ Unanswered /\ FillsOnlyOnMiss /\ Reading /\ [Next]_vars => Reading'
  <2> SUFFICES ASSUME Sound, Unanswered, FillsOnlyOnMiss, AllCaching, [Next]_vars,
                      Landed, Reads, \A c \in Calls : Seen(c)
               PROVE  Landed' /\ Reads' /\ \A c \in Calls : Seen(c)'
    BY AllCachingStays
  <2>1. Landed' /\ Reads'
    BY LandedStep, ReadsStep
  <2>2. ASSUME NEW c \in Calls, Answered(c)'
        PROVE  note'[c].seen <= answer'[c].version
    <3>1. CASE Answered(c)
      BY <3>1, OldAnswer
    <3>2. CASE ~Answered(c)
      <4>1. PICK v \in Nat : v = note[c].seen
        BY DEF Sound, TypeOK, Note
      <4>2. Floor(UrlOf(c), v) /\ note'[c] = note[c]
        BY <2>2, <3>2, <4>1, NewAnswer DEF Reads
      <4> QED BY <2>2, <3>2, <4>1, <4>2, FloorHolds
    <3> QED BY <3>1, <3>2
  <2> QED BY <2>1, <2>2
<1>3. Sound /\ Reading => MonotonicReads
  <2> SUFFICES ASSUME Sound, Reading, AllCaching, NEW c \in Calls, Answered(c)
               PROVE  answer[c].version >= note[c].seen
    BY DEF MonotonicReads, AllCaching
  <2>1. answer[c].version \in Nat /\ note[c].seen \in Nat
    BY DEF Answered, Response, Sound, TypeOK, Note
  <2> QED BY <2>1
<1> HIDE DEF Reading
<1> QED BY <1>1, <1>2, <1>3, FillsOnlyOnMissAlways, UnansweredAlways, SoundAlways,
           PTL DEF Spec

-----------------------------------------------------------------------------
(* Nocache calls.                                                          *)

\* Whether call c waits for the flight it started.
Leads(c) == note[c].led /\ pc[c] = "wait"

Leading ==
  \A c \in Calls :
    /\ note[c].asked <= origin[UrlOf(c)]
    /\ note[c].led => pc[c] \in {"wait", "done"}
    /\ Leads(c) => flight[UrlOf(c)].client = c
    /\ Leads(c) /\ ~Caching(c) /\ flight[UrlOf(c)].phase \in {"store", "land"}
         /\ flight[UrlOf(c)].got \in Response
       => note[c].asked <= flight[UrlOf(c)].got.version

LEMMA LeadingStep ==
  ASSUME Sound, WaitersHaveAFlight, Leading, [Next]_vars
  PROVE  Leading'
<1> SUFFICES ASSUME NEW c \in Calls
             PROVE  /\ note'[c].asked <= origin'[UrlOf(c)]
                    /\ note'[c].led => pc'[c] \in {"wait", "done"}
                    /\ Leads(c)' => flight'[UrlOf(c)].client = c
                    /\ Leads(c)' /\ ~Caching(c)
                         /\ flight'[UrlOf(c)].phase \in {"store", "land"}
                         /\ flight'[UrlOf(c)].got \in Response
                       => note'[c].asked <= flight'[UrlOf(c)].got.version
  BY UrlOfStays DEF Leading
<1>1. PICK u \in Urls : u = UrlOf(c)
  BY UrlOfStays
<1>2. UrlMove(u) /\ CallMove(c)
  BY UrlMoves, CallMoves
<1>3. /\ origin[u] \in Nat /\ origin'[u] \in Nat /\ origin[u] <= origin'[u]
      /\ note[c].asked \in Nat /\ note[c].asked <= origin[u]
  BY <1>1, Onward DEF Sound, TypeOK, Note, Leading
<1>4. note'[c].asked \in {note[c].asked, origin[u]}
  BY <1>1, <1>2 DEF CallMove, Asked, SameNote
<1>5. note'[c].led => pc'[c] \in {"wait", "done"}
  BY <1>2 DEF CallMove, Asked, Goes, Leading
<1>6. ASSUME Leads(c)'
      PROVE  \/ flight'[u].client = c /\ flight'[u].phase = "check"
             \/ Leads(c) /\ note'[c] = note[c]
  BY <1>1, <1>2, <1>6 DEF Leads, CallMove, Asked, Goes, Leading
<1>7. ASSUME Leads(c), Leads(c)'
      PROVE  /\ flight'[u].client = c
             /\ flight'[u] = flight[u] \/ Flies(u)
  <2>1. flight[u].client = c /\ InFlight(u)
    BY <1>1, <1>7 DEF Leading, Leads, WaitersHaveAFlight
  <2>2. ~Opens(u)
    BY <2>1 DEF Opens
  <2>3. ~Lands(u)
    BY <1>1, <1>7 DEF Lands, Joined, Leads
  <2> QED BY <1>2, <2>1, <2>2, <2>3 DEF UrlMove, Flies
<1>8. ASSUME Leads(c), Leads(c)', note'[c] = note[c], ~Caching(c),
             flight'[u].phase \in {"store", "land"}, flight'[u].got \in Response
      PROVE  note'[c].asked <= flight'[u].got.version
  <2>1. flight[u].client = c
    BY <1>1, <1>8 DEF Leading
  <2>2. \/ flight'[u] = flight[u]
        \/ flight'[u].got.version = origin[u]
        \/ flight[u].phase = "store" /\ flight'[u].got = flight[u].got
    BY <1>2, <1>8, <2>1, CarriedOn, NotResponses DEF Stores
  <2>3. flight[u].phase \in {"store", "land"} /\ flight[u].got \in Response =>
          note[c].asked <= flight[u].got.version
    BY <1>1, <1>8 DEF Leading
  <2> QED BY <1>3, <1>8, <2>2, <2>3
<1>9. note'[c].asked <= origin'[u]
  BY <1>3, <1>4
<1> QED BY <1>1, <1>5, <1>6, <1>7, <1>8, <1>9

(* LeadingNoCacheIsFresh: a nocache call that started the flight it waited *)
(* for is answered with what the origin served after the call was made.    *)
THEOREM LeadingNoCacheIsFreshAlways == Spec => []LeadingNoCacheIsFresh
<1>1. Init => Leading /\ LeadingNoCacheIsFresh
  <2> SUFFICES ASSUME Init PROVE Leading /\ LeadingNoCacheIsFresh
    OBVIOUS
  <2>1. \A c \in Calls : UrlOf(c) \in Urls /\ ~Answered(c) /\ note[c].led = FALSE
    BY FetchAssumption, NotResponses DEF Init, UrlOf, CallOptions, Answered
  <2> QED BY <2>1 DEF Init, Leading, Leads, LeadingNoCacheIsFresh
<1>2. Sound /\ Unanswered /\ WaitersHaveAFlight /\ Leading /\ LeadingNoCacheIsFresh
        /\ [Next]_vars => Leading' /\ LeadingNoCacheIsFresh'
  <2> SUFFICES ASSUME Sound, Unanswered, WaitersHaveAFlight, Leading,
                      LeadingNoCacheIsFresh, [Next]_vars,
                      NEW c \in Calls, Answered(c)', opt[c].nocache, note'[c].led
               PROVE  note'[c].asked <= answer'[c].version
    BY LeadingStep, TypeStep, Onward
       DEF LeadingNoCacheIsFresh, Answered, Sound, TypeOK, Note, Response
  <2>1. CASE Answered(c)
    <3>1. answer'[c] = answer[c] /\ note'[c] = note[c]
      BY <2>1, OldAnswer
    <3>2. answer[c].version \in Nat /\ note[c].asked \in Nat
      BY <2>1 DEF Answered, Response, Sound, TypeOK, Note
    <3> QED BY <2>1, <3>1, <3>2 DEF LeadingNoCacheIsFresh
  <2>2. CASE ~Answered(c)
    <3>1. ~Caching(c)
      BY DEF Caching
    <3>2. /\ pc[c] = "wait" /\ note'[c] = note[c]
          /\ flight[UrlOf(c)].phase = "land" /\ flight[UrlOf(c)].got \in Response
          /\ answer'[c] = flight[UrlOf(c)].got
      BY <2>2, <3>1, NewAnswer
    <3>3. Leads(c)
      BY <3>2 DEF Leads
    <3> QED BY <3>1, <3>2, <3>3 DEF Leading
  <2> QED BY <2>1, <2>2
<1> QED BY <1>1, <1>2, WaitersHaveAFlightAlways, UnansweredAlways, SoundAlways, PTL
        DEF Spec

-----------------------------------------------------------------------------
(* Hang-ups.                                                               *)

\* Nothing but hanging up goes wrong.
OnlyHangUps ==
  /\ Faults \subseteq {"hangup"}
  /\ \A kind \in Replies : kind.status = 200 /\ kind.body # "challenge"

Healthy ==
  /\ \A u \in Urls :
       /\ InFlight(u) => ~flight[u].expired
       /\ flight[u].phase = "land" => flight[u].got \in Response
  /\ HangUpsAreIsolated

LEMMA HealthyStep ==
  ASSUME OnlyHangUps, Sound, Healthy, [Next]_vars
  PROVE  Healthy'
<1>1. ASSUME NEW u \in Urls
      PROVE  /\ InFlight(u)' => ~flight'[u].expired
             /\ flight'[u].phase = "land" => flight'[u].got \in Response
  <2>1. UrlMove(u)
    BY UrlMoves
  <2>2. Flies(u) => InFlight(u)
    BY DEF Flies, Flight, InFlight
  <2>3. Opens(u) => flight'[u].phase = "check" /\ flight'[u].expired = FALSE
    <3>1. ASSUME NEW c,
                 flight'[u] = [phase |-> "check", client |-> c, attempt |-> 0,
                               expired |-> FALSE, got |-> NoResponse]
          PROVE  flight'[u].phase = "check" /\ flight'[u].expired = FALSE
      BY <3>1
    <3> QED BY <3>1 DEF Opens
  <2>4. Lands(u) => flight'[u].phase = "none"
    BY OpenOrLanded
  <2>5. Flies(u) => ~flight'[u].expired
    BY <2>2 DEF Flies, OnlyHangUps, Healthy
  <2>6. ASSUME Flies(u), flight'[u].phase = "land" PROVE flight'[u].got \in Response
    <3>1. ~Faulty(u)
      BY <2>2, <2>6 DEF Faulty, OnlyHangUps, Healthy
    <3>2. CASE Looks(u)
      <4>1. u \in Live(entries, clock) /\ flight'[u].got = entries[u].body
        BY <2>6, <3>2 DEF Looks
      <4> QED BY <4>1, StoredEntry DEF Live, Sound, TypeOK
    <3>3. CASE Stores(u)
      BY <3>3 DEF Stores, Sound, Delivering, Success
    <3>4. ~Asks(u)
      BY <2>6, <3>1 DEF Asks, Asking
    <3> QED BY <2>6, <3>2, <3>3, <3>4 DEF Flies
  <2> QED BY <2>1, <2>3, <2>4, <2>5, <2>6 DEF UrlMove, Healthy, InFlight
<1>2. ASSUME NEW c \in Calls, pc'[c] = "done", c \notin canceled'
      PROVE  Answered(c)'
  <2>1. PICK u \in Urls : u = UrlOf(c)
    BY UrlOfStays
  <2>2. c \notin canceled
    BY <1>2, Onward DEF Sound
  <2>3. u \in Live(entries, clock) => entries[u].body \in Response
    BY StoredEntry DEF Live, Sound, TypeOK
  <2>4. flight[u].phase = "land" => flight[u].got \in Response
    BY DEF Healthy
  <2>5. \/ pc[c] = "done" /\ answer'[c] = answer[c]
        \/ u \in Live(entries, clock) /\ answer'[c] = entries[u].body
        \/ flight[u].phase = "land" /\ answer'[c] = flight[u].got
    BY <1>2, <2>1, <2>2, CallMoves DEF CallMove, Asked, Goes
  <2>6. pc[c] = "done" => answer[c] \in Response
    BY <2>2 DEF Healthy, HangUpsAreIsolated, Answered
  <2> QED BY <2>3, <2>4, <2>5, <2>6 DEF Answered
<1> QED BY <1>1, <1>2 DEF Healthy, HangUpsAreIsolated

(* HangUpsAreIsolated: when nothing but hanging up goes wrong, whoever     *)
(* stays is answered with a response, whichever call led its flight.       *)
THEOREM HangUpsAreIsolatedAlways ==
  ASSUME OnlyHangUps
  PROVE  Spec => []HangUpsAreIsolated
<1>1. Init => Healthy
  BY DEF Init, Healthy, HangUpsAreIsolated, InFlight, NoFlight
<1>2. Sound /\ Healthy /\ [Next]_vars => Healthy'
  BY HealthyStep
<1>3. Healthy => HangUpsAreIsolated
  BY DEF Healthy
<1> QED BY <1>1, <1>2, <1>3, SoundAlways, PTL DEF Spec

=============================================================================
