-------------------------- MODULE RateLimit_proofs --------------------------
(***************************************************************************)
(* Proofs about RateLimit, for every number of workers and keys and every  *)
(* burst, rate, cost and TTL.                                              *)
(***************************************************************************)
EXTENDS RateLimit, TLAPS

LEMMA ConstantTypes ==
  /\ Burst \in Nat \ {0}
  /\ Rate \in Nat
  /\ Full \in Nat
  /\ Cost \in Nat \ {0}
  /\ Cost <= Full
<1>1. Burst \in Nat \ {0} /\ Rate \in Nat /\ Cost \in Nat \ {0}
  BY BucketsAssumption, RateLimitAssumption DEF Burst, Rate
<1>2. \A b \in Nat \ {0}, c \in Nat \ {0} : b * c \in Nat /\ c <= b * c
  <2> SUFFICES ASSUME NEW b \in Nat \ {0}, NEW c \in Nat \ {0}
               PROVE  b * c \in Nat /\ c <= b * c
    OBVIOUS
  <2>1. b * c = (b - 1) * c + c
    OBVIOUS
  <2>2. (b - 1) * c \in Nat
    OBVIOUS
  <2> QED BY <2>1, <2>2
<1> QED BY <1>1, <1>2 DEF Full

-----------------------------------------------------------------------------
(* Arithmetic the buckets rest on.                                         *)

LEMMA Monotone ==
  \A r \in Nat, x, y \in Int : x <= y => r * x <= r * y
<1> SUFFICES ASSUME NEW r \in Nat, NEW x \in Int, NEW y \in Int, x <= y
             PROVE  r * x <= r * y
  OBVIOUS
<1>1. PICK d \in Nat : y = x + d
  <2>1. y - x \in Nat /\ y = x + (y - x)
    OBVIOUS
  <2> QED BY <2>1
<1>2. r * y = r * x + r * d
  BY <1>1
<1>3. r * d \in Nat /\ r * x \in Int
  OBVIOUS
<1> QED BY <1>2, <1>3

LEMMA Distribute ==
  \A r, x, y \in Int : /\ r * x \in Int
                       /\ r * (x + y) = r * x + r * y
                       /\ r * (x - y) = r * x - r * y
OBVIOUS

(* What a refill may and may not do to a bucket.                           *)
LEMMA RefilledFacts ==
  ASSUME NEW b \in Bucket, NEW now \in Nat
  PROVE  /\ Refilled(b, now) \in 0 .. Full
         /\ Refilled(b, now) <= b.tokens + Rate * AtLeast(now - b.lastSeen, 0)
         /\ \A time \in Nat, x \in Int :
              now <= time /\ x <= Full
                /\ x <= b.tokens + Rate * (time - b.lastSeen)
                => x <= Refilled(b, now) + Rate * (time - now)
<1>1. b.tokens \in 0 .. Full /\ b.lastSeen \in Nat
  BY DEF Bucket
<1>2. Rate \in Nat /\ Full \in Nat
  BY ConstantTypes
<1> DEFINE elapsed == now - b.lastSeen
<1>3. elapsed \in Int
  BY <1>1
<1>4. CASE elapsed > 0
  <2>1. elapsed * Rate = Rate * elapsed /\ Rate * elapsed \in Nat
    BY <1>2, <1>3, <1>4
  <2>2. Refilled(b, now) = AtMost(b.tokens + Rate * elapsed, Full)
    BY <1>4, <2>1 DEF Refilled
  <2>3. Refilled(b, now) \in 0 .. Full
    BY <1>1, <1>2, <2>1, <2>2 DEF AtMost
  <2>4. AtLeast(elapsed, 0) = elapsed
    BY <1>3, <1>4 DEF AtLeast
  <2>5. Refilled(b, now) <= b.tokens + Rate * elapsed
    BY <1>1, <1>2, <2>1, <2>2 DEF AtMost
  <2>6. ASSUME NEW time \in Nat, NEW x \in Int, now <= time, x <= Full,
               x <= b.tokens + Rate * (time - b.lastSeen)
        PROVE  x <= Refilled(b, now) + Rate * (time - now)
    <3>1. Rate * (time - now) \in Nat
      BY <1>2, <2>6
    <3>2. time - b.lastSeen = elapsed + (time - now)
      BY <1>1, <2>6
    <3>3. Rate * (time - b.lastSeen) = Rate * elapsed + Rate * (time - now)
      BY <1>2, <1>3, <3>2, <2>6, Distribute
    <3> HIDE DEF elapsed
    <3>4. CASE b.tokens + Rate * elapsed > Full
      BY <1>2, <2>2, <2>6, <3>1, <3>4 DEF AtMost
    <3>5. CASE ~(b.tokens + Rate * elapsed > Full)
      BY <1>1, <2>1, <2>2, <2>6, <3>1, <3>3, <3>5 DEF AtMost
    <3> QED BY <3>4, <3>5
  <2> QED BY <2>3, <2>4, <2>5, <2>6
<1>5. CASE ~(elapsed > 0)
  <2>1. Refilled(b, now) = b.tokens
    BY <1>5 DEF Refilled
  <2>2. AtLeast(elapsed, 0) = 0
    BY <1>3, <1>5 DEF AtLeast
  <2>3. Rate * 0 = 0
    BY <1>2
  <2>4. ASSUME NEW time \in Nat, NEW x \in Int, now <= time, x <= Full,
               x <= b.tokens + Rate * (time - b.lastSeen)
        PROVE  x <= Refilled(b, now) + Rate * (time - now)
    <3>1. time - b.lastSeen <= time - now
      BY <1>1, <1>5, <2>4
    <3>2. Rate * (time - b.lastSeen) <= Rate * (time - now)
      BY <1>1, <1>2, <2>4, <3>1, Monotone
    <3>3. Rate * (time - b.lastSeen) \in Int /\ Rate * (time - now) \in Int
      BY <1>1, <1>2, <2>4
    <3> QED BY <1>1, <2>1, <2>4, <3>2, <3>3
  <2> QED BY <1>1, <2>1, <2>2, <2>3, <2>4
<1> QED BY <1>4, <1>5

-----------------------------------------------------------------------------
(* Type correctness.                                                       *)

LEMMA BucketTypes ==
  /\ \A now \in Nat : FirstBucket(now) \in Bucket
  /\ \A b \in Bucket, now \in Nat : SpentBucket(b, now) \in Bucket
<1>1. ASSUME NEW now \in Nat PROVE FirstBucket(now) \in Bucket
  BY ConstantTypes DEF FirstBucket, Bucket
<1>2. ASSUME NEW b \in Bucket, NEW now \in Nat
      PROVE  SpentBucket(b, now) \in Bucket
  <2> DEFINE t == Refilled(b, now)
  <2>1. t \in 0 .. Full
    BY RefilledFacts
  <2>2. (IF t >= Cost THEN t - Cost ELSE t) \in 0 .. Full
    BY <2>1, ConstantTypes
  <2> QED BY <2>2 DEF SpentBucket, Bucket
<1> QED BY <1>1, <1>2

LEMMA TouchTypes ==
  ASSUME TypeOK, NEW ks, NEW now \in Nat, Touch(ks, now)
  PROVE  /\ touched' \in [Keys -> Nat]
         /\ skew' \in [Keys -> Nat]
         /\ born' \in [Keys -> Nat \cup {Never}]
<1>1. \A x \in Int : AtLeast(x, 0) \in Nat
  BY DEF AtLeast
<1>2. \A k \in Keys : touched[k] - now \in Int
  BY DEF TypeOK
<1> QED BY <1>1, <1>2 DEF Touch, TypeOK

LEMMA GrantTypes ==
  ASSUME TypeOK, NEW key \in Keys, Grant(key)
  PROVE  granted' \in [Keys -> Nat] /\ ideal' \in [Keys -> Int]
BY ConstantTypes DEF Grant, TypeOK

\* A worker in a call has a key and a time.
LEMMA CallTypes ==
  ASSUME TypeOK, NEW w \in Workers, call[w] # NoCall
  PROVE  call[w].key \in Keys /\ call[w].now \in Nat
BY DEF TypeOK

(* TypeOK holds in every reachable state.                                  *)
THEOREM TypeCorrect == Spec => []TypeOK
<1>1. Init => TypeOK
  BY ConstantTypes DEF Init, TypeOK, Never
<1>2. TypeOK /\ [Next]_vars => TypeOK'
  <2> SUFFICES ASSUME TypeOK, [Next]_vars PROVE TypeOK'
    OBVIOUS
  <2> USE DEF TypeOK
  <2>1. ASSUME NEW w \in Workers, NEW key \in Keys, ReadClock(w, key)
        PROVE  TypeOK'
    BY <2>1 DEF ReadClock, limiterVars, history
  <2>2. ASSUME NEW w \in Workers, AdmitNew(w) PROVE TypeOK'
    <3> DEFINE key == call[w].key
               now == call[w].now
               admitted == [buckets EXCEPT ![key] = FirstBucket(now)]
    <3>1. key \in Keys /\ now \in Nat
      BY <2>2, CallTypes DEF AdmitNew
    <3>2. admitted \in [Keys -> Bucket \cup {NoBucket}]
      BY <3>1, BucketTypes
    <3>3. Evicted(admitted, now) \in [Keys -> Bucket \cup {NoBucket}]
      BY <3>2 DEF Evicted
    <3>4. buckets' \in [Keys -> Bucket \cup {NoBucket}]
      BY <2>2, <3>2, <3>3 DEF AdmitNew
    <3>5. /\ touched' \in [Keys -> Nat]
          /\ skew' \in [Keys -> Nat]
          /\ born' \in [Keys -> Nat \cup {Never}]
      BY <2>2, <3>1, TouchTypes DEF AdmitNew
    <3>6. granted' \in [Keys -> Nat] /\ ideal' \in [Keys -> Int]
      BY <2>2, <3>1, GrantTypes DEF AdmitNew
    <3>7. lastEvict' \in Nat \cup {Never}
      BY <2>2, <3>1 DEF AdmitNew, LastEvictAfter
    <3>8. /\ call' \in [Workers -> [key : Keys, now : Nat] \cup {NoCall}]
          /\ clock' \in Nat /\ used' \in [Keys -> Nat]
      BY <2>2 DEF AdmitNew, Use
    <3> QED BY <3>4, <3>5, <3>6, <3>7, <3>8
  <2>3. ASSUME NEW w \in Workers, Spend(w) PROVE TypeOK'
    <3> DEFINE key == call[w].key
               now == call[w].now
    <3>1. key \in Keys /\ now \in Nat
      BY <2>3, CallTypes DEF Spend
    <3>2. buckets[key] \in Bucket
      BY <2>3, <3>1 DEF Spend
    <3>3. buckets' \in [Keys -> Bucket \cup {NoBucket}]
      BY <2>3, <3>1, <3>2, BucketTypes DEF Spend
    <3>4. /\ touched' \in [Keys -> Nat]
          /\ skew' \in [Keys -> Nat]
          /\ born' \in [Keys -> Nat \cup {Never}]
      BY <2>3, <3>1, TouchTypes DEF Spend
    <3>5. granted' \in [Keys -> Nat] /\ ideal' \in [Keys -> Int]
      BY <2>3, <3>1, GrantTypes DEF Spend
    <3>6. /\ call' \in [Workers -> [key : Keys, now : Nat] \cup {NoCall}]
          /\ clock' \in Nat /\ lastEvict' \in Nat \cup {Never}
          /\ used' \in [Keys -> Nat]
      BY <2>3 DEF Spend, Use
    <3> QED BY <3>3, <3>4, <3>5, <3>6
  <2>4. ASSUME EvictStale PROVE TypeOK'
    <3>1. buckets' \in [Keys -> Bucket \cup {NoBucket}]
      BY <2>4 DEF EvictStale, Evicted
    <3>2. /\ touched' \in [Keys -> Nat]
          /\ skew' \in [Keys -> Nat]
          /\ born' \in [Keys -> Nat \cup {Never}]
      BY <2>4, TouchTypes DEF EvictStale
    <3> QED BY <2>4, <3>1, <3>2 DEF EvictStale
  <2>5. ASSUME Tick PROVE TypeOK'
    BY <2>5, ConstantTypes DEF Tick, limiterVars, AtMost
  <2>6. CASE UNCHANGED vars
    BY <2>6 DEF vars
  <2> QED BY <2>1, <2>2, <2>3, <2>4, <2>5, <2>6 DEF Next
<1> QED BY <1>1, <1>2, PTL DEF Spec

-----------------------------------------------------------------------------
(* The history keeps time with the limiter.                                *)

Timely ==
  /\ \A w \in Workers : call[w] # NoCall => call[w].now <= clock
  /\ \A k \in Keys : touched[k] <= clock /\ born[k] <= clock
  /\ \A k \in Keys : born[k] = Never => /\ granted[k] = 0
                                        /\ buckets[k] = NoBucket
  /\ \A k \in Keys : buckets[k] # NoBucket
                       => touched[k] = buckets[k].lastSeen

LEMMA TimelyInvariant == Spec => []Timely
<1>1. Init => Timely
  BY DEF Init, Timely, Never
<1>2. TypeOK /\ Timely /\ [Next]_vars => Timely'
  <2> SUFFICES ASSUME TypeOK, Timely, [Next]_vars PROVE Timely'
    OBVIOUS
  <2> USE DEF TypeOK, Timely
  <2>1. ASSUME NEW w \in Workers, NEW key \in Keys, ReadClock(w, key)
        PROVE  Timely'
    BY <2>1 DEF ReadClock, limiterVars, history
  <2>2. ASSUME NEW w \in Workers, AdmitNew(w) PROVE Timely'
    <3> DEFINE key == call[w].key
               now == call[w].now
    <3>1. key \in Keys /\ now \in Nat /\ now <= clock
      BY <2>2, CallTypes DEF AdmitNew
    <3>2. \A v \in Workers : call'[v] # NoCall => call'[v].now <= clock'
      BY <2>2 DEF AdmitNew
    <3>3. PICK ks \in SUBSET Keys :
            /\ key \in ks
            /\ Touch(ks, now)
            /\ \A k \in Keys : k \notin ks =>
                 buckets'[k] \in {buckets[k], NoBucket}
            /\ \A k \in ks : k # key => buckets'[k] = NoBucket
      <4> DEFINE scan == lastEvict # Never /\ now - lastEvict >= EvictInterval
                 stale == {k \in Keys \ {key} : scan /\ IsStale(buckets[k], now)}
      <4>1. {key} \cup stale \in SUBSET Keys /\ Touch({key} \cup stale, now)
        BY <2>2, <3>1 DEF AdmitNew
      <4>2. \A k \in Keys : k \notin {key} \cup stale =>
              buckets'[k] \in {buckets[k], NoBucket}
        BY <2>2, <3>1 DEF AdmitNew, Evicted
      <4>3. \A k \in {key} \cup stale : k # key => buckets'[k] = NoBucket
        BY <2>2, <3>1 DEF AdmitNew, Evicted
      <4> QED BY <4>1, <4>2, <4>3
    <3>4. \A k \in Keys : touched'[k] <= clock' /\ born'[k] <= clock'
      BY <2>2, <3>1, <3>3 DEF AdmitNew, Touch
    <3>5. buckets'[key] # NoBucket => buckets'[key].lastSeen = now
      <4>1. FirstBucket(now) \in Bucket /\ FirstBucket(now).lastSeen = now
        BY <3>1, BucketTypes DEF FirstBucket
      <4>2. buckets'[key] \in {FirstBucket(now), NoBucket}
        BY <2>2, <3>1 DEF AdmitNew, Evicted
      <4> QED BY <4>1, <4>2
    <3>6. \A k \in Keys : buckets'[k] # NoBucket
                            => touched'[k] = buckets'[k].lastSeen
      BY <3>1, <3>3, <3>5 DEF Touch
    <3>7. \A k \in Keys : born'[k] = Never => /\ granted'[k] = 0
                                             /\ buckets'[k] = NoBucket
      <4> SUFFICES ASSUME NEW k \in Keys, born'[k] = Never
                   PROVE  granted'[k] = 0 /\ buckets'[k] = NoBucket
        OBVIOUS
      <4>1. k \notin ks /\ born[k] = Never
        BY <3>1, <3>3 DEF Touch, Never
      <4>2. granted'[k] = granted[k]
        BY <2>2, <3>1, <3>3, <4>1 DEF AdmitNew, Grant
      <4> QED BY <3>3, <4>1, <4>2
    <3> QED BY <3>2, <3>4, <3>6, <3>7
  <2>3. ASSUME NEW w \in Workers, Spend(w) PROVE Timely'
    <3> DEFINE key == call[w].key
               now == call[w].now
    <3>1. key \in Keys /\ now \in Nat /\ now <= clock
      BY <2>3, CallTypes DEF Spend
    <3>2. \A v \in Workers : call'[v] # NoCall => call'[v].now <= clock'
      BY <2>3 DEF Spend
    <3>3. \A k \in Keys : touched'[k] <= clock' /\ born'[k] <= clock'
      BY <2>3, <3>1 DEF Spend, Touch
    <3>4. \A k \in Keys : buckets'[k] # NoBucket
                            => touched'[k] = buckets'[k].lastSeen
      BY <2>3, <3>1 DEF Spend, Touch, SpentBucket
    <3>5. \A k \in Keys : born'[k] = Never => /\ granted'[k] = 0
                                             /\ buckets'[k] = NoBucket
      BY <2>3, <3>1 DEF Spend, Touch, Grant, Never
    <3> QED BY <3>2, <3>3, <3>4, <3>5
  <2>4. ASSUME EvictStale PROVE Timely'
    BY <2>4 DEF EvictStale, Evicted, Touch, IsStale
  <2>5. ASSUME Tick PROVE Timely'
    BY <2>5 DEF Tick, limiterVars, Never
  <2>6. CASE UNCHANGED vars
    BY <2>6 DEF vars
  <2> QED BY <2>1, <2>2, <2>3, <2>4, <2>5, <2>6 DEF Next
<1> QED BY <1>1, <1>2, TypeCorrect, PTL DEF Spec

-----------------------------------------------------------------------------
(* The rate.                                                               *)

\* The account of one key.
Balanced(k) ==
  born[k] # Never =>
    Cost * granted[k] + InHand(k)
      <= Full + Rate * (touched[k] - born[k] + skew[k])

(* A key that is touched at time now, where its hand h becomes h2, stays   *)
(* balanced if h2 is within what the time since last refills; a time set   *)
(* back is made up for by skew.                                            *)
LEMMA TouchBalances ==
  ASSUME NEW g \in Nat, NEW h \in Int, NEW h2 \in Int, NEW last \in Nat,
         NEW birth \in Nat, NEW s \in Nat, NEW now \in Nat,
         Cost * g + h <= Full + Rate * (last - birth + s),
         h2 <= h + Rate * AtLeast(now - last, 0)
  PROVE  Cost * g + h2
           <= Full + Rate * (now - birth + (s + AtLeast(last - now, 0)))
<1> DEFINE up == AtLeast(now - last, 0)
           down == AtLeast(last - now, 0)
           before == last - birth + s
<1>1. up \in Nat /\ down \in Nat /\ before \in Int
  BY DEF AtLeast
<1>2. now - birth + (s + down) = before + up
  BY DEF AtLeast
<1>3. Rate * (before + up) = Rate * before + Rate * up
  BY <1>1, ConstantTypes, Distribute
<1>4. Rate * before \in Int /\ Rate * up \in Int /\ Cost * g \in Int
  BY <1>1, ConstantTypes, Distribute
<1>5. Full \in Nat
  BY ConstantTypes
<1> HIDE DEF up, down, before
<1>6. Cost * g + h <= Full + Rate * before /\ h2 <= h + Rate * up
  BY DEF up, before
<1>7. Cost * g + h2 <= Full + Rate * (before + up)
  BY <1>3, <1>4, <1>5, <1>6
<1> QED BY <1>2, <1>7 DEF up, down, before

(* Eviction, too, hands out no more than the idle time refills.            *)
LEMMA EvictionRefills ==
  ASSUME FullBeforeEviction, NEW b \in Bucket, NEW now \in Nat,
         now - b.lastSeen > TTL
  PROVE  Full <= b.tokens + Rate * AtLeast(now - b.lastSeen, 0)
<1>1. b.tokens \in 0 .. Full /\ b.lastSeen \in Nat /\ TTL \in Nat
  BY BucketsAssumption, RateLimitAssumption DEF Bucket
<1>2. AtLeast(now - b.lastSeen, 0) = now - b.lastSeen
  BY <1>1 DEF AtLeast
<1>3. Rate * TTL <= Rate * (now - b.lastSeen)
  BY <1>1, ConstantTypes, Monotone
<1>4. Rate * TTL \in Int /\ Rate * (now - b.lastSeen) \in Int
  BY <1>1, ConstantTypes, Distribute
<1> QED BY <1>1, <1>2, <1>3, <1>4, ConstantTypes DEF FullBeforeEviction

(* A grant moves a token's worth from the hand to the account.             *)
LEMMA GrantBalances ==
  ASSUME NEW g \in Nat, NEW h \in Int
  PROVE  Cost * (g + 1) + (h - Cost) = Cost * g + h
BY ConstantTypes, Distribute

LEMMA BalancedInvariant ==
  TypeOK /\ Timely /\ FullBeforeEviction /\ (\A k \in Keys : Balanced(k))
    /\ [Next]_vars => (\A k \in Keys : Balanced(k))'
<1> SUFFICES ASSUME TypeOK, Timely, FullBeforeEviction,
                    \A k \in Keys : Balanced(k), [Next]_vars, NEW k \in Keys
             PROVE  Balanced(k)'
  OBVIOUS
<1> USE DEF Balanced, InHand
<1>0. /\ granted[k] \in Nat /\ touched[k] \in Nat /\ skew[k] \in Nat
      /\ born[k] \in Nat \cup {Never}
      /\ buckets[k] \in Bucket \cup {NoBucket}
  BY DEF TypeOK
\* An untouched key.
<1>1. ASSUME touched'[k] = touched[k], skew'[k] = skew[k], born'[k] = born[k],
             granted'[k] = granted[k], buckets'[k] = buckets[k]
      PROVE  Balanced(k)'
  BY <1>1
\* A key whose idle bucket is evicted at time now.
<1>2. ASSUME NEW now \in Nat, NEW ks, k \in ks, Touch(ks, now),
             IsStale(buckets[k], now), buckets'[k] = NoBucket,
             granted'[k] = granted[k]
      PROVE  Balanced(k)'
  <2>1. buckets[k] \in Bucket /\ now - buckets[k].lastSeen > TTL
    BY <1>0, <1>2 DEF IsStale
  <2>2. /\ touched[k] = buckets[k].lastSeen
        /\ buckets[k] # NoBucket
        /\ born[k] # Never /\ born[k] \in Nat
    BY <1>0, <1>2 DEF Timely, IsStale
  <2>3. /\ touched'[k] = now
        /\ skew'[k] = skew[k] + AtLeast(touched[k] - now, 0)
        /\ born'[k] = born[k]
    BY <1>2, <2>2 DEF Touch
  <2>4. Full <= buckets[k].tokens + Rate * AtLeast(now - touched[k], 0)
    BY <2>1, <2>2, EvictionRefills
  <2>5. buckets[k].tokens \in Int /\ Full \in Int
    BY <2>1, ConstantTypes DEF Bucket
  <2>6. Cost * granted[k] + buckets[k].tokens
          <= Full + Rate * (touched[k] - born[k] + skew[k])
    BY <2>2
  <2>7. Cost * granted[k] + Full
          <= Full + Rate * (now - born[k]
                              + (skew[k] + AtLeast(touched[k] - now, 0)))
    BY <1>0, <2>2, <2>4, <2>5, <2>6, TouchBalances
  <2> QED BY <1>2, <2>3, <2>7
<1>3. ASSUME NEW w \in Workers, AdmitNew(w) PROVE Balanced(k)'
  <2> DEFINE key == call[w].key
             now == call[w].now
             scan == lastEvict # Never /\ now - lastEvict >= EvictInterval
             stale == {j \in Keys \ {key} : scan /\ IsStale(buckets[j], now)}
  <2>1. key \in Keys /\ now \in Nat
    BY <1>3, CallTypes DEF AdmitNew
  <2>2. Touch({key} \cup stale, now)
    BY <1>3 DEF AdmitNew
  <2>3. FirstBucket(now) \in Bucket /\ FirstBucket(now).tokens = Full - Cost
    BY <2>1, BucketTypes DEF FirstBucket
  <2>4. CASE k = key
    <3>1. buckets'[k] = FirstBucket(now) \/ buckets'[k] = NoBucket
      BY <1>3, <2>1, <2>4 DEF AdmitNew, Evicted, TypeOK
    <3>2. buckets'[k] = FirstBucket(now)
      <4>1. ~IsStale(FirstBucket(now), now)
        BY <2>1, BucketsAssumption, RateLimitAssumption DEF IsStale, FirstBucket
      <4> QED BY <1>3, <2>1, <2>4, <4>1 DEF AdmitNew, Evicted, TypeOK
    <3>3. FirstBucket(now) # NoBucket
      BY <2>3, BucketsAssumption, RateLimitAssumption
    <3>4. granted'[k] = granted[k] + 1 /\ buckets[k] = NoBucket
      BY <1>3, <2>1, <2>4 DEF AdmitNew, Grant, TypeOK
    <3>5. Cost * granted'[k] + (Full - Cost) = Cost * granted[k] + Full
      BY <1>0, <3>4, GrantBalances, ConstantTypes
    <3>6. touched'[k] = now
      BY <2>2, <2>4 DEF Touch
    <3>7. CASE born[k] = Never
      <4>1. born'[k] = now /\ skew'[k] = skew[k] /\ granted[k] = 0
        BY <2>2, <2>4, <3>7 DEF Touch, Timely
      <4>2. Rate * (now - now + skew[k]) \in Nat
        BY <1>0, <2>1, ConstantTypes
      <4>3. Cost * granted[k] = 0
        BY <4>1, ConstantTypes
      <4> QED BY <2>3, <3>2, <3>3, <3>5, <3>6, <4>1, <4>2, <4>3, ConstantTypes
    <3>8. CASE born[k] # Never
      <4>1. born'[k] = born[k] /\ born[k] \in Nat
            /\ skew'[k] = skew[k] + AtLeast(touched[k] - now, 0)
        BY <1>0, <2>2, <2>4, <3>8 DEF Touch
      <4>2. AtLeast(now - touched[k], 0) \in Nat
        BY <1>0, <2>1 DEF AtLeast
      <4>3. Rate * AtLeast(now - touched[k], 0) \in Nat
        BY <4>2, ConstantTypes
      <4>4. Full <= Full + Rate * AtLeast(now - touched[k], 0) /\ Full \in Int
        BY <4>3, ConstantTypes
      <4>5. Cost * granted[k] + Full
              <= Full + Rate * (now - born[k]
                                  + (skew[k] + AtLeast(touched[k] - now, 0)))
        BY <1>0, <2>1, <3>4, <3>8, <4>1, <4>4, TouchBalances
      <4> QED BY <2>3, <3>2, <3>3, <3>5, <3>6, <4>1, <4>5
    <3> QED BY <3>7, <3>8
  <2>5. CASE k \in stale
    <3>1. buckets'[k] = NoBucket /\ granted'[k] = granted[k]
      BY <1>3, <2>1, <2>5 DEF AdmitNew, Evicted, Grant, TypeOK
    <3> QED BY <1>2, <2>1, <2>2, <2>5, <3>1
  <2>6. CASE k # key /\ k \notin stale
    <3>1. touched'[k] = touched[k] /\ skew'[k] = skew[k] /\ born'[k] = born[k]
      BY <2>2, <2>6 DEF Touch
    <3>2. granted'[k] = granted[k] /\ buckets'[k] = buckets[k]
      BY <1>3, <2>1, <2>6 DEF AdmitNew, Evicted, Grant, TypeOK
    <3> QED BY <1>1, <3>1, <3>2
  <2> QED BY <2>4, <2>5, <2>6
<1>4. ASSUME NEW w \in Workers, Spend(w) PROVE Balanced(k)'
  <2> DEFINE key == call[w].key
             now == call[w].now
             r == Refilled(buckets[key], now)
  <2>1. key \in Keys /\ now \in Nat
    BY <1>4, CallTypes DEF Spend
  <2>2. CASE k # key
    BY <1>1, <1>4, <2>1, <2>2 DEF Spend, Grant, Touch, TypeOK
  <2>3. CASE k = key
    <3>1. buckets[k] # NoBucket /\ buckets[k] \in Bucket
      BY <1>0, <1>4, <2>3 DEF Spend
    <3>2. born[k] # Never /\ born[k] \in Nat
          /\ touched[k] = buckets[k].lastSeen
      BY <1>0, <3>1 DEF Timely
    <3>3. /\ touched'[k] = now
          /\ skew'[k] = skew[k] + AtLeast(touched[k] - now, 0)
          /\ born'[k] = born[k]
      BY <1>4, <2>3, <3>2 DEF Spend, Touch
    <3>4. r \in Int /\ r <= buckets[k].tokens
                              + Rate * AtLeast(now - touched[k], 0)
      BY <2>1, <2>3, <3>1, <3>2, RefilledFacts
    <3>5. buckets[k].tokens \in Int
      BY <3>1 DEF Bucket
    <3>6. Cost * granted[k] + r
            <= Full + Rate * (now - born[k]
                                + (skew[k] + AtLeast(touched[k] - now, 0)))
      <4>1. Cost * granted[k] + buckets[k].tokens
              <= Full + Rate * (touched[k] - born[k] + skew[k])
        BY <3>1, <3>2
      <4> QED BY <1>0, <2>1, <3>2, <3>4, <3>5, <4>1, TouchBalances
    <3>7. /\ buckets'[k] = SpentBucket(buckets[k], now)
          /\ SpentBucket(buckets[k], now) # NoBucket
      BY <1>4, <2>1, <2>3, <3>1, BucketTypes, BucketsAssumption, RateLimitAssumption
         DEF Spend, TypeOK
    <3>8. CASE r >= Cost
      <4>1. granted'[k] = granted[k] + 1
        BY <1>4, <2>1, <2>3, <3>8 DEF Spend, Grant, TypeOK
      <4>2. buckets'[k].tokens = r - Cost
        BY <2>3, <3>7, <3>8 DEF SpentBucket
      <4>3. Cost * granted'[k] + (r - Cost) = Cost * granted[k] + r
        BY <1>0, <3>4, <4>1, GrantBalances
      <4> QED BY <3>3, <3>6, <3>7, <4>2, <4>3
    <3>9. CASE ~(r >= Cost)
      <4>1. granted'[k] = granted[k]
        BY <1>4, <2>3, <3>9 DEF Spend
      <4>2. buckets'[k].tokens = r
        BY <2>3, <3>7, <3>9 DEF SpentBucket
      <4> QED BY <3>3, <3>6, <3>7, <4>1, <4>2
    <3> QED BY <3>8, <3>9
  <2> QED BY <2>2, <2>3
<1>5. ASSUME EvictStale PROVE Balanced(k)'
  <2>1. clock \in Nat
    BY DEF TypeOK
  <2>2. CASE IsStale(buckets[k], clock)
    BY <1>2, <1>5, <2>1, <2>2 DEF EvictStale, Evicted
  <2>3. CASE ~IsStale(buckets[k], clock)
    BY <1>1, <1>5, <2>3 DEF EvictStale, Evicted, Touch
  <2> QED BY <2>2, <2>3
<1>6. CASE \/ \E w \in Workers, key \in Keys : ReadClock(w, key)
           \/ Tick
           \/ UNCHANGED vars
  BY <1>1, <1>6 DEF ReadClock, Tick, limiterVars, history, vars
<1> QED BY <1>3, <1>4, <1>5, <1>6 DEF Next

(* UnitsAccounted: what a key has spent and holds never exceeds its first  *)
(* burst and what was refilled since, for any number of concurrent calls.  *)
THEOREM UnitsAccountedAlways == Spec => []UnitsAccounted
<1>1. CASE FullBeforeEviction
  <2>1. Init => \A k \in Keys : Balanced(k)
    BY DEF Init, Balanced
  <2>2. Spec => [](\A k \in Keys : Balanced(k))
    BY <1>1, <2>1, BalancedInvariant, TypeCorrect, TimelyInvariant, PTL
       DEF Spec
  <2>3. (\A k \in Keys : Balanced(k)) => UnitsAccounted
    BY DEF Balanced, UnitsAccounted
  <2> QED BY <2>2, <2>3, PTL
<1>2. CASE ~FullBeforeEviction
  <2>1. UnitsAccounted
    BY <1>2 DEF UnitsAccounted
  <2> QED BY <2>1, PTL
<1> QED BY <1>1, <1>2

(* RateKeptInOrder: the rate limit holds for every key whose calls took    *)
(* the mutex in the order they read the clock in.                          *)
THEOREM RateKeptInOrderAlways == Spec => []RateKeptInOrder
<1>1. TypeOK /\ Timely /\ UnitsAccounted => RateKeptInOrder
  <2> SUFFICES ASSUME TypeOK, Timely, UnitsAccounted, FullBeforeEviction,
                      NEW k \in Keys, born[k] # Never, skew[k] = 0
               PROVE  Cost * granted[k] <= Full + Rate * (clock - born[k])
    BY DEF RateKeptInOrder
  <2>1. /\ granted[k] \in Nat /\ touched[k] \in Nat /\ clock \in Nat
        /\ born[k] \in Nat
        /\ touched[k] <= clock
    BY DEF TypeOK, Timely
  <2>2. InHand(k) \in Nat
    BY ConstantTypes DEF InHand, TypeOK, Bucket
  <2>3. Cost * granted[k] + InHand(k)
          <= Full + Rate * (touched[k] - born[k] + skew[k])
    BY DEF UnitsAccounted
  <2>4. touched[k] - born[k] + skew[k] <= clock - born[k]
    BY <2>1
  <2>5. Rate * (touched[k] - born[k] + skew[k]) <= Rate * (clock - born[k])
    BY <2>1, <2>4, ConstantTypes, Monotone
  <2>6. /\ Rate * (touched[k] - born[k] + skew[k]) \in Int
        /\ Rate * (clock - born[k]) \in Int
        /\ Cost * granted[k] \in Int
    BY <2>1, ConstantTypes, Distribute
  <2> QED BY <2>2, <2>3, <2>5, <2>6, ConstantTypes
<1> QED BY <1>1, TypeCorrect, TimelyInvariant, UnitsAccountedAlways, PTL

-----------------------------------------------------------------------------
(* The credit.                                                             *)

\* What a key can count on: its bucket holds, or would on the next call be
\* refilled to, at least what the ideal bucket holds.
Credited(k) ==
  /\ ideal[k] <= Full
  /\ buckets[k] # NoBucket =>
       ideal[k] <= buckets[k].tokens + Rate * (clock - buckets[k].lastSeen)

LEMMA CreditedInvariant ==
  TypeOK /\ Timely /\ (\A k \in Keys : Credited(k)) /\ [Next]_vars
    => (\A k \in Keys : Credited(k))'
<1> SUFFICES ASSUME TypeOK, Timely, \A k \in Keys : Credited(k), [Next]_vars,
                    NEW k \in Keys
             PROVE  Credited(k)'
  OBVIOUS
<1> USE DEF Credited
<1>0. /\ ideal[k] \in Int /\ clock \in Nat /\ Full \in Nat /\ Rate \in Nat
      /\ Cost \in Nat /\ Cost <= Full
      /\ buckets[k] \in Bucket \cup {NoBucket}
  BY ConstantTypes DEF TypeOK
<1>1. ASSUME ideal'[k] = ideal[k], clock' = clock,
             buckets'[k] \in {buckets[k], NoBucket}
      PROVE  Credited(k)'
  BY <1>1
<1>2. ASSUME NEW w \in Workers, AdmitNew(w) PROVE Credited(k)'
  <2> DEFINE key == call[w].key
             now == call[w].now
  <2>1. key \in Keys /\ now \in Nat /\ now <= clock
    BY <1>2, CallTypes DEF AdmitNew, Timely
  <2>2. CASE k # key
    BY <1>1, <1>2, <2>1, <2>2 DEF AdmitNew, Evicted, Grant, TypeOK
  <2>3. CASE k = key
    <3>1. ideal'[k] = ideal[k] - Cost /\ clock' = clock
      BY <1>2, <2>1, <2>3 DEF AdmitNew, Grant, TypeOK
    <3>2. buckets'[k] \in {FirstBucket(now), NoBucket}
      BY <1>2, <2>1, <2>3 DEF AdmitNew, Evicted, TypeOK
    <3>3. FirstBucket(now).tokens = Full - Cost
          /\ FirstBucket(now).lastSeen = now
      BY DEF FirstBucket
    <3>4. Rate * (clock - now) \in Nat
      BY <1>0, <2>1
    <3> QED BY <1>0, <3>1, <3>2, <3>3, <3>4
  <2> QED BY <2>2, <2>3
<1>3. ASSUME NEW w \in Workers, Spend(w) PROVE Credited(k)'
  <2> DEFINE key == call[w].key
             now == call[w].now
             r == Refilled(buckets[key], now)
  <2>1. key \in Keys /\ now \in Nat /\ now <= clock
    BY <1>3, CallTypes DEF Spend, Timely
  <2>2. CASE k # key
    BY <1>1, <1>3, <2>1, <2>2 DEF Spend, Grant, TypeOK
  <2>3. CASE k = key
    <3>1. buckets[k] # NoBucket /\ buckets[k] \in Bucket
      BY <1>0, <1>3, <2>3 DEF Spend
    <3>2. ideal[k] <= r + Rate * (clock - now)
      BY <1>0, <2>1, <2>3, <3>1, RefilledFacts
    <3>3. r \in Int /\ Rate * (clock - now) \in Int
      BY <1>0, <2>1, <2>3, <3>1, RefilledFacts
    <3>4. buckets'[k] = SpentBucket(buckets[k], now) /\ clock' = clock
      BY <1>3, <2>1, <2>3 DEF Spend, TypeOK
    <3>5. CASE r >= Cost
      <4>1. ideal'[k] = ideal[k] - Cost
        BY <1>3, <2>1, <2>3, <3>5 DEF Spend, Grant, TypeOK
      <4>2. buckets'[k].tokens = r - Cost /\ buckets'[k].lastSeen = now
        BY <2>3, <3>4, <3>5 DEF SpentBucket
      <4> QED BY <1>0, <3>2, <3>3, <3>4, <4>1, <4>2
    <3>6. CASE ~(r >= Cost)
      <4>1. ideal'[k] = ideal[k]
        BY <1>3, <2>3, <3>6 DEF Spend
      <4>2. buckets'[k].tokens = r /\ buckets'[k].lastSeen = now
        BY <2>3, <3>4, <3>6 DEF SpentBucket
      <4> QED BY <1>0, <3>2, <3>3, <3>4, <4>1, <4>2
    <3> QED BY <3>5, <3>6
  <2> QED BY <2>2, <2>3
<1>4. ASSUME Tick PROVE Credited(k)'
  <2>1. /\ ideal'[k] = AtMost(ideal[k] + Rate, Full)
        /\ clock' = clock + 1 /\ buckets' = buckets
    BY <1>4 DEF Tick, limiterVars
  <2>2. ideal'[k] <= Full /\ ideal'[k] <= ideal[k] + Rate
    BY <1>0, <2>1 DEF AtMost
  <2>3. CASE buckets[k] # NoBucket
    <3> DEFINE idle == clock - buckets[k].lastSeen
    <3>1. buckets[k].tokens \in Int /\ buckets[k].lastSeen \in Int
      BY <1>0, <2>3 DEF Bucket
    <3>2. clock' - buckets'[k].lastSeen = idle + 1 /\ idle \in Int
      <4>1. clock' = clock + 1 /\ buckets'[k].lastSeen = buckets[k].lastSeen
        BY <2>1
      <4>2. clock \in Int
        BY <1>0
      <4> QED BY ONLY <3>1, <4>1, <4>2
    <3>3. Rate * (idle + 1) = Rate * idle + Rate /\ Rate * idle \in Int
      <4>1. \A i \in Int : Rate * (i + 1) = Rate * i + Rate * 1
                           /\ Rate * i \in Int /\ Rate * 1 = Rate
        BY <1>0, Distribute
      <4> QED BY <3>2, <4>1
    <3>4. ideal'[k] \in Int
      BY <1>0, <2>1 DEF AtMost
    <3> HIDE DEF idle
    <3>5. ideal[k] <= buckets[k].tokens + Rate * idle
      BY <2>3 DEF idle
    <3>6. ideal'[k] <= buckets[k].tokens + Rate * (idle + 1)
      BY <1>0, <2>2, <3>1, <3>3, <3>4, <3>5
    <3> QED BY <2>1, <2>2, <3>2, <3>6
  <2>4. CASE buckets[k] = NoBucket
    BY <2>1, <2>2, <2>4
  <2> QED BY <2>3, <2>4
<1>5. CASE \/ \E w \in Workers, key \in Keys : ReadClock(w, key)
           \/ EvictStale
           \/ UNCHANGED vars
  BY <1>1, <1>5 DEF ReadClock, EvictStale, Evicted, limiterVars, history, vars
<1> QED BY <1>2, <1>3, <1>4, <1>5 DEF Next

(* CreditNotLost: no bucket ever holds less than one that is refilled at   *)
(* every instant, whatever the rate, the TTL and the order of the calls.   *)
THEOREM CreditNeverLost == Spec => []CreditNotLost
<1>1. Init => \A k \in Keys : Credited(k)
  <2> SUFFICES ASSUME Init, NEW k \in Keys PROVE Credited(k)
    OBVIOUS
  <2>1. ideal[k] = Full /\ buckets[k] = NoBucket
    BY DEF Init
  <2>2. Full <= Full
    BY ConstantTypes
  <2> QED BY <2>1, <2>2 DEF Credited
<1>2. Spec => [](\A k \in Keys : Credited(k))
  BY <1>1, CreditedInvariant, TypeCorrect, TimelyInvariant, PTL DEF Spec
<1>3. (\A k \in Keys : Credited(k)) => CreditNotLost
  BY DEF Credited, CreditNotLost
<1> QED BY <1>2, <1>3, PTL

-----------------------------------------------------------------------------
(* Eviction.                                                               *)

\* A key whose bucket is kept had the mutex no more than the TTL before the
\* time of the last scan, however far its bucket was set back.
Scanned ==
  /\ lastEvict <= clock
  /\ \A k \in Keys :
       buckets[k] # NoBucket => /\ lastEvict # Never
                                /\ buckets[k].lastSeen <= used[k]
                                /\ lastEvict - used[k] <= TTL

LEMMA ScannedInvariant ==
  TypeOK /\ Timely /\ Scanned /\ [Next]_vars => Scanned'
<1> SUFFICES ASSUME TypeOK, Timely, Scanned, [Next]_vars PROVE Scanned'
  OBVIOUS
<1>0. /\ clock \in Nat /\ used \in [Keys -> Nat] /\ TTL \in Nat
      /\ lastEvict \in Nat \cup {Never}
  BY BucketsAssumption DEF TypeOK
<1>1. ASSUME NEW w \in Workers, AdmitNew(w) PROVE Scanned'
  <2> DEFINE key == call[w].key
             now == call[w].now
             scan == lastEvict # Never /\ now - lastEvict >= EvictInterval
  <2>1. key \in Keys /\ now \in Nat /\ now <= clock /\ clock' = clock
    BY <1>1, CallTypes DEF AdmitNew, Timely
  <2>2. lastEvict' = IF lastEvict = Never \/ scan THEN now ELSE lastEvict
    BY <1>1 DEF AdmitNew, LastEvictAfter
  <2>3. lastEvict' <= clock' /\ lastEvict' # Never
    BY <1>0, <2>1, <2>2 DEF Scanned, Never
  <2>4. ASSUME NEW k \in Keys, buckets'[k] # NoBucket
        PROVE  buckets'[k].lastSeen <= used'[k] /\ lastEvict' - used'[k] <= TTL
    <3>1. CASE k = key
      <4>1. used'[k] = clock
        BY <1>0, <1>1, <3>1 DEF AdmitNew, Use
      <4>2. buckets'[k] = FirstBucket(now)
        BY <1>1, <2>1, <2>4, <3>1 DEF AdmitNew, Evicted, TypeOK
      <4>3. lastEvict' \in Int
        BY <1>0, <2>1, <2>2 DEF Never
      <4>4. buckets'[k].lastSeen = now
        BY <4>2 DEF FirstBucket
      <4>5. lastEvict' <= used'[k]
        BY <2>1, <2>3, <4>1
      <4>6. buckets'[k].lastSeen <= used'[k]
        BY <2>1, <4>1, <4>4
      <4>7. lastEvict' - used'[k] <= 0
        <5>1. \A x, y \in Int : x <= y => x - y <= 0
          OBVIOUS
        <5>2. used'[k] \in Int
          BY <1>0, <4>1
        <5> QED BY <4>3, <4>5, <5>1, <5>2
      <4>8. \A x \in Int : x <= 0 => x <= TTL
        BY <1>0
      <4>9. lastEvict' - used'[k] \in Int
        BY <1>0, <4>1, <4>3
      <4> QED BY <4>6, <4>7, <4>8, <4>9
    <3>2. CASE k # key
      <4>1. used'[k] = used[k]
        BY <1>0, <1>1, <3>2 DEF AdmitNew, Use
      <4>2. /\ buckets'[k] = buckets[k] /\ buckets[k] # NoBucket
            /\ scan => ~IsStale(buckets[k], now)
        BY <1>1, <2>1, <2>4, <3>2 DEF AdmitNew, Evicted, TypeOK
      <4>3. /\ lastEvict # Never /\ buckets[k].lastSeen <= used[k]
            /\ lastEvict - used[k] <= TTL
            /\ buckets[k].lastSeen \in Nat
        BY <4>2 DEF Scanned, TypeOK, Bucket
      <4>4. CASE scan
        <5>1. now - buckets[k].lastSeen <= TTL
          BY <1>0, <2>1, <4>2, <4>3, <4>4 DEF IsStale
        <5> QED BY <1>0, <2>1, <2>2, <4>1, <4>2, <4>3, <4>4, <5>1
      <4>5. CASE ~scan
        BY <2>2, <4>1, <4>2, <4>3, <4>5
      <4> QED BY <4>4, <4>5
    <3> QED BY <3>1, <3>2
  <2> QED BY <2>3, <2>4 DEF Scanned
<1>2. ASSUME NEW w \in Workers, Spend(w) PROVE Scanned'
  <2> DEFINE key == call[w].key
             now == call[w].now
  <2>1. key \in Keys /\ now \in Nat /\ now <= clock
    BY <1>2, CallTypes DEF Spend, Timely
  <2>2. clock' = clock /\ lastEvict' = lastEvict
    BY <1>2 DEF Spend
  <2>3. ASSUME NEW k \in Keys, buckets'[k] # NoBucket
        PROVE  /\ lastEvict # Never /\ buckets'[k].lastSeen <= used'[k]
               /\ lastEvict - used'[k] <= TTL
    <3>1. CASE k = key
      <4>1. used'[k] = clock
        BY <1>0, <1>2, <3>1 DEF Spend, Use
      <4>2. buckets'[k].lastSeen = now
        BY <1>2, <2>1, <3>1 DEF Spend, SpentBucket, TypeOK
      <4>3. lastEvict # Never
        BY <1>2, <2>1 DEF Spend, Scanned
      <4> QED BY <1>0, <2>1, <4>1, <4>2, <4>3 DEF Scanned
    <3>2. CASE k # key
      <4>1. used'[k] = used[k] /\ buckets'[k] = buckets[k]
        BY <1>0, <1>2, <2>1, <3>2 DEF Spend, Use, TypeOK
      <4> QED BY <2>3, <4>1 DEF Scanned
    <3> QED BY <3>1, <3>2
  <2> QED BY <2>2, <2>3 DEF Scanned
<1>3. ASSUME EvictStale PROVE Scanned'
  <2>1. \A k \in Keys : buckets'[k] \in {buckets[k], NoBucket}
    BY <1>3 DEF EvictStale, Evicted
  <2> QED BY <1>3, <2>1 DEF EvictStale, Scanned
<1>4. ASSUME Tick PROVE Scanned'
  BY <1>0, <1>4 DEF Tick, limiterVars, Scanned, Never
<1>5. CASE \/ \E w \in Workers, key \in Keys : ReadClock(w, key)
           \/ UNCHANGED vars
  BY <1>5 DEF ReadClock, limiterVars, history, vars, Scanned
<1> QED BY <1>1, <1>2, <1>3, <1>4, <1>5 DEF Next

(* IdleClientsForgotten: whenever a client is new, every other that has a  *)
(* bucket was served within the TTL and one interval of its time, for any  *)
(* number of clients, in whatever order calls take the mutex (Allow).      *)
THEOREM IdleClientsForgottenAlways == Spec => IdleClientsForgotten
<1> DEFINE Recent(w) ==
      AdmitNew(w) => \A k \in Keys :
        buckets'[k] # NoBucket => call[w].now - used'[k] < TTL + EvictInterval
<1>1. Init => Scanned
  BY DEF Init, Scanned, Never
<1>2. Spec => []Scanned
  BY <1>1, ScannedInvariant, TypeCorrect, TimelyInvariant, PTL DEF Spec
<1>3. TypeOK /\ TypeOK' /\ Timely /\ Scanned' /\ [Next]_vars
        => [\A w \in Workers : Recent(w)]_vars
  <2> SUFFICES ASSUME TypeOK, TypeOK', Timely, Scanned', NEW w \in Workers,
                      AdmitNew(w), NEW k \in Keys, buckets'[k] # NoBucket
               PROVE  call[w].now - used'[k] < TTL + EvictInterval
    OBVIOUS
  <2> DEFINE now == call[w].now
             scan == lastEvict # Never /\ now - lastEvict >= EvictInterval
  <2>1. now \in Nat
    BY CallTypes DEF AdmitNew
  <2>2. lastEvict' = IF lastEvict = Never \/ scan THEN now ELSE lastEvict
    BY DEF AdmitNew, LastEvictAfter
  <2>3. lastEvict' - used'[k] <= TTL /\ used'[k] \in Nat
    BY DEF Scanned, TypeOK
  <2>4. /\ EvictInterval \in Nat \ {0} /\ TTL \in Nat
        /\ lastEvict \in Nat \cup {Never} /\ lastEvict' \in Int
    BY BucketsAssumption, RateLimitAssumption DEF TypeOK, Never
  <2>5. now - lastEvict' < EvictInterval
    BY <2>1, <2>2, <2>4 DEF Never
  <2> QED BY <2>1, <2>3, <2>4, <2>5
<1>4. Spec => [][\A w \in Workers : Recent(w)]_vars
  BY <1>2, <1>3, TypeCorrect, TimelyInvariant, PTL DEF Spec
<1> QED BY <1>4 DEF IdleClientsForgotten

=============================================================================
