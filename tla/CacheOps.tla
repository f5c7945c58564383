------------------------------ MODULE CacheOps ------------------------------
(***************************************************************************)
(* The TTL cache of internal/fetch/cache.go as operators on its map of     *)
(* entries.  Every method of the Go type runs under one mutex, so each is  *)
(* one atomic function of the map and of the clock read inside the lock.   *)
(* The map is a total function with NoEntry where a URL has no entry.      *)
(***************************************************************************)
EXTENDS Integers, FiniteSets

CONSTANTS Urls,        \* the URLs that may be fetched: the map's keys
          Bodies,      \* what a fetch returns: the body and its headers
          NoEntry,     \* the absence of a key
          TTL,         \* the lifetime of an entry, in clock units
          MaxEntries   \* the field maxEntries; not positive: the default

Entry == [body : Bodies, expires : Nat]

ASSUME CacheAssumption ==
  /\ IsFiniteSet(Urls)
  /\ TTL \in Nat \ {0}
  /\ MaxEntries \in Int
  /\ NoEntry \notin Entry

DefaultMaxEntries == 1000

\* maxCap in set.
Capacity == IF MaxEntries <= 0 THEN DefaultMaxEntries ELSE MaxEntries

Caches == [Urls -> Entry \cup {NoEntry}]

EmptyCache == [u \in Urls |-> NoEntry]

Stored(cache) == {u \in Urls : cache[u] # NoEntry}

\* An entry is expired from the instant now = expires on.
Live(cache, now) == {u \in Stored(cache) : now < cache[u].expires}

Without(cache, us) ==
  [u \in Urls |-> IF u \in us THEN NoEntry ELSE cache[u]]

\* The live entries no other live entry expires before.
EarliestLive(cache, now) ==
  {v \in Live(cache, now) :
     \A w \in Live(cache, now) : cache[v].expires <= cache[w].expires}

-----------------------------------------------------------------------------

\* get: a hit returns the entry; an expired entry is deleted on the way.
Hit(cache, url, now) == url \in Live(cache, now)

AfterGet(cache, url, now) ==
  IF url \in Stored(cache) \ Live(cache, now)
    THEN Without(cache, {url})
    ELSE cache

\* Mutant of RoomFor: the capacity is compared with > instead of >=.
RoomForOneMore(cache, url, now) ==
  LET expired == Stored(cache) \ Live(cache, now)
  IN  IF url \in Stored(cache) \/ Cardinality(Stored(cache)) <= Capacity
        THEN {cache}
        ELSE IF expired # {}
               THEN {Without(cache, expired)}
               ELSE {Without(cache, {v}) : v \in EarliestLive(cache, now)}

\* Mutant of RoomFor: the test purged == 0 before the eviction is dropped.
RoomForTwice(cache, url, now) ==
  LET expired == Stored(cache) \ Live(cache, now)
  IN  IF url \in Stored(cache) \/ Cardinality(Stored(cache)) < Capacity
        THEN {cache}
        ELSE IF Live(cache, now) = {}
               THEN {EmptyCache}
               ELSE {Without(cache, expired \cup {v}) :
                       v \in EarliestLive(cache, now)}

\* The first half of set: what is left once room has been made for url.  A
\* full cache drops all its expired entries, or, having none, one of those
\* that expire first (which one is up to Go's map order).
RoomFor(cache, url, now) ==
  LET expired == Stored(cache) \ Live(cache, now)
  IN  IF url \in Stored(cache) \/ Cardinality(Stored(cache)) < Capacity
        THEN {cache}
        ELSE IF expired # {}
               THEN {Without(cache, expired)}
               ELSE {Without(cache, {v}) : v \in EarliestLive(cache, now)}

\* Mutant of AfterSet: the lifetime is subtracted.
AfterSetInThePast(cache, url, body, now) ==
  {[room EXCEPT ![url] = [body |-> body, expires |-> now - TTL]] :
     room \in RoomFor(cache, url, now)}

\* set: the caches it may leave behind.
AfterSet(cache, url, body, now) ==
  {[room EXCEPT ![url] = [body |-> body, expires |-> now + TTL]] :
     room \in RoomFor(cache, url, now)}

=============================================================================
