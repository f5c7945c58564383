------------------------------ MODULE RateLimit -----------------------------
(***************************************************************************)
(* internal/ratelimit: a token bucket for each client key, refilled when   *)
(* it is looked at, created when its key is first seen and evicted when it *)
(* has been idle for long.  Allow reads the clock BEFORE it takes the      *)
(* limiter's mutex, so the calls of concurrent HTTP handlers may run under *)
(* the mutex in another order than they read the clock in.                 *)
(***************************************************************************)
EXTENDS Buckets

CONSTANTS
  Workers,        \* the goroutines that serve requests
  EvictInterval,  \* the time between two scans for stale buckets
  MaxClock        \* bound on the clock

ASSUME RateLimitAssumption ==
  /\ EvictInterval \in Nat \ {0}
  /\ MaxClock \in Nat

VARIABLES
  clock,       \* what Limiter.now returns
  buckets,     \* Limiter.buckets
  lastEvict,   \* Limiter.lastEvict
  call,        \* the call of Allow each worker is in
  granted,     \* history: how many calls of a key were allowed
  born,        \* history: the time the first call of a key had read
  touched,     \* history: the time of the last change of a key's bucket
  skew,        \* history: by how much in all touched was set back
  used,        \* history: the clock when a call of a key last had the mutex
  ideal        \* history: a bucket that is refilled at every tick

limiterVars == <<buckets, lastEvict>>
history == <<granted, born, touched, skew, used, ideal>>
vars == <<clock, buckets, lastEvict, call, granted, born, touched, skew,
          used, ideal>>

\* The zero time.Time, and the born of a key that was never seen.
Never == -1

NoCall == [key |-> "none"]

Init ==
  /\ clock = 0
  /\ buckets = [k \in Keys |-> NoBucket]
  /\ lastEvict = Never
  /\ call = [w \in Workers |-> NoCall]
  /\ granted = [k \in Keys |-> 0]
  /\ born = [k \in Keys |-> Never]
  /\ touched = [k \in Keys |-> 0]
  /\ skew = [k \in Keys |-> 0]
  /\ used = [k \in Keys |-> 0]
  /\ ideal = [k \in Keys |-> Full]

-----------------------------------------------------------------------------

\* The history of one step at time now that touches the keys ks.
Touch(ks, now) ==
  /\ touched' = [k \in Keys |-> IF k \in ks THEN now ELSE touched[k]]
  /\ skew' = [k \in Keys |-> IF k \in ks /\ born[k] # Never
                               THEN skew[k] + AtLeast(touched[k] - now, 0)
                               ELSE skew[k]]
  /\ born' = [k \in Keys |-> IF k \in ks /\ born[k] = Never
                               THEN now ELSE born[k]]

Use(key) == used' = [used EXCEPT ![key] = clock]

Grant(key) ==
  /\ granted' = [granted EXCEPT ![key] = @ + 1]
  /\ ideal' = [ideal EXCEPT ![key] = @ - Cost]

-----------------------------------------------------------------------------

\* Allow, up to the mutex.
ReadClock(w, key) ==
  /\ call[w] = NoCall
  /\ call' = [call EXCEPT ![w] = [key |-> key, now |-> clock]]
  /\ UNCHANGED <<clock, limiterVars, history>>

\* Mutant of LastEvictAfter: the interval is never begun.
LastEvictUnbegun(now, scan) == IF scan THEN now ELSE lastEvict

\* The first new key begins the interval after which a scan is due, and a scan
\* the next one.
LastEvictAfter(now, scan) ==
  IF lastEvict = Never \/ scan THEN now ELSE lastEvict

\* Allow under the mutex, the key not in the map: a full bucket spends its
\* first token, and now and then the stale buckets are evicted.
AdmitNew(w) ==
  LET key == call[w].key
      now == call[w].now
      admitted == [buckets EXCEPT ![key] = FirstBucket(now)]
      scan == lastEvict # Never /\ now - lastEvict >= EvictInterval
      stale == {k \in Keys \ {key} : scan /\ IsStale(buckets[k], now)}
  IN  /\ call[w] # NoCall
      /\ buckets[key] = NoBucket
      /\ buckets' = IF scan THEN Evicted(admitted, now) ELSE admitted
      /\ lastEvict' = LastEvictAfter(now, scan)
      /\ call' = [call EXCEPT ![w] = NoCall]
      /\ Grant(key)
      /\ Touch({key} \cup stale, now)
      /\ Use(key)
      /\ UNCHANGED clock

\* Allow under the mutex, the key in the map.
Spend(w) ==
  LET key == call[w].key
      now == call[w].now
  IN  /\ call[w] # NoCall
      /\ buckets[key] # NoBucket
      /\ buckets' = [buckets EXCEPT ![key] = SpentBucket(@, now)]
      /\ call' = [call EXCEPT ![w] = NoCall]
      /\ IF Refilled(buckets[key], now) >= Cost
           THEN Grant(key)
           ELSE UNCHANGED <<granted, ideal>>
      /\ Touch({key}, now)
      /\ Use(key)
      /\ UNCHANGED <<clock, lastEvict>>

\* The exported EvictStale, which reads the clock under the mutex.
EvictStale ==
  /\ buckets' = Evicted(buckets, clock)
  /\ Touch({k \in Keys : IsStale(buckets[k], clock)}, clock)
  /\ UNCHANGED <<clock, lastEvict, call, granted, used, ideal>>

Tick ==
  /\ clock < MaxClock
  /\ clock' = clock + 1
  /\ ideal' = [k \in Keys |-> AtMost(ideal[k] + Rate, Full)]
  /\ UNCHANGED <<limiterVars, call, granted, born, touched, skew, used>>

Next ==
  \/ \E w \in Workers, key \in Keys : ReadClock(w, key)
  \/ \E w \in Workers : AdmitNew(w) \/ Spend(w)
  \/ EvictStale
  \/ Tick

Spec == Init /\ [][Next]_vars

-----------------------------------------------------------------------------
(* Properties.                                                             *)

TypeOK ==
  /\ clock \in Nat
  /\ buckets \in [Keys -> Bucket \cup {NoBucket}]
  /\ lastEvict \in Nat \cup {Never}
  /\ call \in [Workers -> [key : Keys, now : Nat] \cup {NoCall}]
  /\ granted \in [Keys -> Nat]
  /\ born \in [Keys -> Nat \cup {Never}]
  /\ touched \in [Keys -> Nat]
  /\ skew \in [Keys -> Nat]
  /\ used \in [Keys -> Nat]
  /\ ideal \in [Keys -> Int]

\* The units a key has in hand: a key without a bucket has a full one.
InHand(k) == IF buckets[k] = NoBucket THEN Full ELSE buckets[k].tokens

\* A bucket that nobody touches is full again before it may be evicted.
FullBeforeEviction == Full <= Rate * TTL

(* Every unit a key has spent or holds was in its first full bucket or was *)
(* refilled since, where a time set back by calls that overtook each other *)
(* is refilled twice (ratelimit.go, Allow and evictStale).                 *)
UnitsAccounted ==
  FullBeforeEviction =>
    \A k \in Keys :
      born[k] # Never =>
        Cost * granted[k] + InHand(k)
          <= Full + Rate * (touched[k] - born[k] + skew[k])

(* The rate limit itself, for a key whose calls take the mutex in the      *)
(* order they read the clock in: never more than a burst and what the time *)
(* since its first call refills, evicted or not (ratelimit.go, Allow).     *)
RateKeptInOrder ==
  FullBeforeEviction =>
    \A k \in Keys :
      born[k] # Never /\ skew[k] = 0 =>
        Cost * granted[k] <= Full + Rate * (clock - born[k])

(* No credit is lost: a key never has less than if its bucket had been     *)
(* refilled at every instant, however its calls are spaced and ordered,    *)
(* whether they were denied and whether it was evicted (ratelimit.go,      *)
(* bucket: "so that sub-token refills between requests are not lost").     *)
CreditNotLost ==
  \A k \in Keys :
    LET b == buckets[k]
    IN  /\ ideal[k] <= Full
        /\ b # NoBucket =>
             ideal[k] <= b.tokens + Rate * (clock - b.lastSeen)

(* The map holds only clients that were there of late: whenever a new one  *)
(* is let in, every other whose bucket is kept was really served within    *)
(* the TTL and one interval of the new one's time, although scans are made *)
(* only now and then, only for a new key, and by times that may be long    *)
(* past (ratelimit.go: "evicted lazily to bound memory usage").            *)
IdleClientsForgotten ==
  [][\A w \in Workers :
       AdmitNew(w) =>
         \A k \in Keys :
           buckets'[k] # NoBucket
             => call[w].now - used'[k] < TTL + EvictInterval]_vars

-----------------------------------------------------------------------------
(* What the comments say and the code does not do.                         *)

(* "Each client key gets its own bucket that refills continuously at a     *)
(* fixed rate up to a burst capacity" and Allow "is safe for concurrent    *)
(* use": calls that overtake each other are refilled twice.                *)
RateKept ==
  FullBeforeEviction =>
    \A k \in Keys :
      born[k] # Never =>
        Cost * granted[k] <= Full + Rate * (clock - born[k])

=============================================================================
