------------------------------- MODULE Buckets --------------------------------
(***************************************************************************)
(* The token buckets of internal/ratelimit, as operators on one bucket and *)
(* on the map of buckets: what New makes of its arguments, what a lookup   *)
(* refills and spends, and which buckets are stale.                        *)
(*                                                                         *)
(* Tokens are counted in units: a request costs Cost of them and a tick of *)
(* the clock refills Rate, so that Rate / Cost stands for refillPerSec,    *)
(* which is not a whole number.  (Go's rounding of it is not modelled.)    *)
(***************************************************************************)
EXTENDS Integers

CONSTANTS
  Keys,           \* the clients
  NoBucket,       \* the absence of a key in the map
  BurstArg,       \* New's argument burst
  RateArg,        \* New's argument ratePerMin, in units a tick
  Cost,           \* the units of a token
  TTL             \* the idle time after which a bucket may be evicted

\* New: a burst that is not positive is 1, a rate that is not is 0.
Burst == IF BurstArg <= 0 THEN 1 ELSE BurstArg
Rate == IF RateArg > 0 THEN RateArg ELSE 0

Full == Burst * Cost

Bucket == [tokens : 0 .. Full, lastSeen : Nat]

ASSUME BucketsAssumption ==
  /\ BurstArg \in Int
  /\ RateArg \in Int
  /\ Cost \in Nat \ {0}
  /\ TTL \in Nat \ {0}
  /\ NoBucket \notin Bucket

AtMost(x, bound) == IF x > bound THEN bound ELSE x

AtLeast(x, bound) == IF x < bound THEN bound ELSE x

\* Mutant of Refilled: the cap at the burst is forgotten.
RefilledUncapped(b, now) ==
  IF now - b.lastSeen > 0 THEN b.tokens + (now - b.lastSeen) * Rate
                          ELSE b.tokens

\* Mutant of Refilled: whole tokens only are refilled.
RefilledWhole(b, now) ==
  IF now - b.lastSeen > 0
    THEN AtMost(b.tokens + (((now - b.lastSeen) * Rate) \div Cost) * Cost, Full)
    ELSE b.tokens

\* The tokens of bucket b at the time now.
Refilled(b, now) ==
  IF now - b.lastSeen > 0
    THEN AtMost(b.tokens + (now - b.lastSeen) * Rate, Full)
    ELSE b.tokens

\* Mutant of FirstBucket: the first request is free.
FirstBucketUnspent(now) == [tokens |-> Full, lastSeen |-> now]

\* The bucket of a key first seen at the time now: full, less one token.
FirstBucket(now) == [tokens |-> Full - Cost, lastSeen |-> now]

\* Mutant of SpentBucket: a denied request leaves lastSeen alone.
SpentBucketIfAllowed(b, now) ==
  LET tokens == Refilled(b, now)
  IN  IF tokens >= Cost
        THEN [tokens |-> tokens - Cost, lastSeen |-> now]
        ELSE [tokens |-> tokens, lastSeen |-> b.lastSeen]

\* Bucket b once it has been refilled and, if it holds a token, spent one.
SpentBucket(b, now) ==
  LET tokens == Refilled(b, now)
  IN  [tokens |-> IF tokens >= Cost THEN tokens - Cost ELSE tokens,
       lastSeen |-> now]

IsStale(b, now) == b # NoBucket /\ now - b.lastSeen > TTL

\* evictStale.
Evicted(bs, now) ==
  [k \in Keys |-> IF IsStale(bs[k], now) THEN NoBucket ELSE bs[k]]

=============================================================================
