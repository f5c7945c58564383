---------------------------- MODULE Cache_proofs ----------------------------
(***************************************************************************)
(* Proofs about Cache, for every finite set of URLs, every set of bodies   *)
(* and every TTL and capacity: it keeps within its capacity, and it        *)
(* implements TTLStore.                                                    *)
(***************************************************************************)
EXTENDS Cache, FiniteSetTheorems, TLAPS

LEMMA CapacityType == Capacity \in Nat \ {0}
BY CacheAssumption DEF Capacity, DefaultMaxEntries

-----------------------------------------------------------------------------
(* The operators on caches.                                                *)

LEMMA WithoutFacts ==
  ASSUME NEW cache \in Caches, NEW us
  PROVE  /\ Without(cache, us) \in Caches
         /\ Stored(Without(cache, us)) = Stored(cache) \ us
BY DEF Caches, Without, Stored

LEMMA PutFacts ==
  ASSUME NEW cache \in Caches, NEW url \in Urls, NEW e \in Entry
  PROVE  /\ [cache EXCEPT ![url] = e] \in Caches
         /\ Stored([cache EXCEPT ![url] = e]) = Stored(cache) \cup {url}
<1>1. e # NoEntry
  BY CacheAssumption
<1> QED BY <1>1 DEF Caches, Stored

LEMMA StoredFinite ==
  ASSUME NEW cache \in Caches
  PROVE  /\ IsFiniteSet(Stored(cache))
         /\ Cardinality(Stored(cache)) \in Nat
<1>1. Stored(cache) \in SUBSET Urls
  BY DEF Stored
<1>2. IsFiniteSet(Stored(cache))
  BY <1>1, CacheAssumption, FS_Subset
<1> QED BY <1>2, FS_CardinalityType

LEMMA EmptyFacts == EmptyCache \in Caches /\ Stored(EmptyCache) = {}
BY DEF EmptyCache, Caches, Stored

\* Of a full cache with nothing expired something is always evicted or kept:
\* a proper subset of the entries is smaller.
LEMMA FewerStored ==
  ASSUME NEW cache \in Caches, NEW us \in SUBSET Stored(cache),
         us # Stored(cache)
  PROVE  /\ IsFiniteSet(us)
         /\ Cardinality(us) \in Nat
         /\ Cardinality(us) < Cardinality(Stored(cache))
<1>1. IsFiniteSet(Stored(cache)) /\ Cardinality(Stored(cache)) \in Nat
  BY StoredFinite
<1>2. /\ IsFiniteSet(us)
      /\ Cardinality(us) <= Cardinality(Stored(cache))
      /\ Cardinality(us) # Cardinality(Stored(cache))
  BY <1>1, FS_Subset
<1>3. Cardinality(us) \in Nat
  BY <1>2, FS_CardinalityType
<1> QED BY <1>1, <1>2, <1>3

\* The ways to make room, one by one.
LEMMA RoomCases ==
  ASSUME NEW cache \in Caches, NEW url \in Urls, NEW now \in Nat,
         NEW room \in RoomFor(cache, url, now)
  PROVE  \/ /\ url \in Stored(cache) \/ Cardinality(Stored(cache)) < Capacity
            /\ room = cache
         \/ /\ url \notin Stored(cache)
            /\ ~(Cardinality(Stored(cache)) < Capacity)
            /\ Stored(cache) # Live(cache, now)
            /\ room = Without(cache, Stored(cache) \ Live(cache, now))
         \/ /\ url \notin Stored(cache)
            /\ ~(Cardinality(Stored(cache)) < Capacity)
            /\ Stored(cache) = Live(cache, now)
            /\ \E v \in EarliestLive(cache, now) : room = Without(cache, {v})
<1> DEFINE expired == Stored(cache) \ Live(cache, now)
<1>1. expired = {} <=> Stored(cache) = Live(cache, now)
  BY DEF Live
<1>2. CASE url \in Stored(cache) \/ Cardinality(Stored(cache)) < Capacity
  BY <1>2 DEF RoomFor
<1>3. CASE /\ ~(url \in Stored(cache) \/ Cardinality(Stored(cache)) < Capacity)
           /\ expired # {}
  BY <1>1, <1>3 DEF RoomFor
<1>4. CASE /\ ~(url \in Stored(cache) \/ Cardinality(Stored(cache)) < Capacity)
           /\ expired = {}
  BY <1>1, <1>4 DEF RoomFor
<1> QED BY <1>2, <1>3, <1>4

LEMMA RoomFacts ==
  ASSUME NEW cache \in Caches, NEW url \in Urls, NEW now \in Nat,
         NEW room \in RoomFor(cache, url, now),
         Cardinality(Stored(cache)) <= Capacity
  PROVE  /\ room \in Caches
         /\ url \in Stored(room) \/ Cardinality(Stored(room)) < Capacity
         /\ Cardinality(Stored(room)) <= Capacity
<1> DEFINE smaller == Stored(room) \in SUBSET Stored(cache)
                      /\ Stored(room) # Stored(cache)
<1>0. Cardinality(Stored(cache)) \in Nat /\ Capacity \in Nat
  BY StoredFinite, CapacityType
<1>1. CASE room = cache
           /\ (url \in Stored(cache) \/ Cardinality(Stored(cache)) < Capacity)
  BY <1>1
<1>2. ASSUME room \in Caches, smaller
      PROVE  Cardinality(Stored(room)) < Capacity
             /\ Cardinality(Stored(room)) <= Capacity
  <2>1. /\ Cardinality(Stored(room)) \in Nat
        /\ Cardinality(Stored(room)) < Cardinality(Stored(cache))
    BY <1>2, FewerStored
  <2> QED BY <1>0, <2>1
<1>3. CASE /\ Stored(cache) # Live(cache, now)
           /\ room = Without(cache, Stored(cache) \ Live(cache, now))
  <2>1. room \in Caches /\ Stored(room) = Live(cache, now)
    BY <1>3, WithoutFacts DEF Live
  <2>2. smaller
    BY <1>3, <2>1 DEF Live
  <2> QED BY <1>2, <2>1, <2>2
<1>4. ASSUME NEW v \in EarliestLive(cache, now), room = Without(cache, {v})
      PROVE  room \in Caches /\ smaller
  <2>1. v \in Stored(cache)
    BY DEF EarliestLive, Live
  <2> QED BY <1>4, <2>1, WithoutFacts
<1> QED BY <1>1, <1>2, <1>3, <1>4, RoomCases

LEMMA EntryType ==
  \A body \in Bodies, now \in Nat :
    [body |-> body, expires |-> now + TTL] \in Entry
BY CacheAssumption DEF Entry

LEMMA AfterSetFacts ==
  ASSUME NEW cache \in Caches, NEW url \in Urls, NEW body \in Bodies,
         NEW now \in Nat, NEW next \in AfterSet(cache, url, body, now),
         Cardinality(Stored(cache)) <= Capacity
  PROVE  next \in Caches /\ Cardinality(Stored(next)) <= Capacity
<1> DEFINE e == [body |-> body, expires |-> now + TTL]
<1>1. PICK room \in RoomFor(cache, url, now) : next = [room EXCEPT ![url] = e]
  BY DEF AfterSet
<1>2. /\ room \in Caches
      /\ url \in Stored(room) \/ Cardinality(Stored(room)) < Capacity
      /\ Cardinality(Stored(room)) <= Capacity
  BY RoomFacts
<1>3. next \in Caches /\ Stored(next) = Stored(room) \cup {url}
  BY <1>1, <1>2, EntryType, PutFacts
<1>4. IsFiniteSet(Stored(room)) /\ Cardinality(Stored(room)) \in Nat
  BY <1>2, StoredFinite
<1>5. Cardinality(Stored(next)) = IF url \in Stored(room)
                                    THEN Cardinality(Stored(room))
                                    ELSE Cardinality(Stored(room)) + 1
  BY <1>3, <1>4, FS_AddElement
<1> QED BY <1>2, <1>3, <1>4, <1>5, CapacityType

-----------------------------------------------------------------------------
(* The invariants.                                                         *)

LEMMA InvariantStep ==
  TypeOK /\ WithinCapacity /\ [Next]_vars => TypeOK' /\ WithinCapacity'
<1> SUFFICES ASSUME TypeOK, WithinCapacity, [Next]_vars
             PROVE  TypeOK' /\ WithinCapacity'
  OBVIOUS
<1> USE DEF TypeOK, WithinCapacity
<1>1. ASSUME NEW url \in Urls, Get(url) PROVE TypeOK' /\ WithinCapacity'
  <2>1. /\ AfterGet(entries, url, clock) \in Caches
        /\ Stored(AfterGet(entries, url, clock)) \in SUBSET Stored(entries)
    BY WithoutFacts DEF AfterGet
  <2>2. Cardinality(Stored(AfterGet(entries, url, clock)))
          <= Cardinality(Stored(entries))
    BY <2>1, StoredFinite, FS_Subset
  <2>3. answer' \in Entry \cup {NoEntry}
    BY <1>1 DEF Get, Caches
  <2>4. /\ Cardinality(Stored(AfterGet(entries, url, clock))) \in Nat
        /\ Cardinality(Stored(entries)) \in Nat
    BY <2>1, StoredFinite
  <2> QED BY <1>1, <2>1, <2>2, <2>3, <2>4, CapacityType DEF Get
<1>2. ASSUME NEW url \in Urls, NEW body \in Bodies, Set(url, body)
      PROVE  TypeOK' /\ WithinCapacity'
  BY <1>2, AfterSetFacts DEF Set
<1>3. ASSUME Flush PROVE TypeOK' /\ WithinCapacity'
  BY <1>3, EmptyFacts, FS_EmptySet, CapacityType DEF Flush
<1>4. ASSUME Tick PROVE TypeOK' /\ WithinCapacity'
  BY <1>4 DEF Tick
<1>5. CASE UNCHANGED vars
  BY <1>5 DEF vars
<1> QED BY <1>1, <1>2, <1>3, <1>4, <1>5 DEF Next

LEMMA Invariant == Spec => [](TypeOK /\ WithinCapacity)
<1>1. Init => TypeOK /\ WithinCapacity
  BY EmptyFacts, FS_EmptySet, CapacityType DEF Init, TypeOK, WithinCapacity
<1> QED BY <1>1, InvariantStep, PTL DEF Spec

(* TypeOK holds in every reachable state.                                  *)
THEOREM TypeCorrect == Spec => []TypeOK
BY Invariant, PTL

(* WithinCapacity: the map never holds more entries than its capacity.     *)
THEOREM NeverOverCapacity == Spec => []WithinCapacity
BY Invariant, PTL

-----------------------------------------------------------------------------
(* The refinement.                                                         *)

\* TTLStore extends the same operators: under Store they mean the same.
LEMMA SameOperators ==
  /\ Store!EmptyCache = EmptyCache
  /\ Store!Capacity = Capacity
  /\ \A cache : Store!Stored(cache) = Stored(cache)
  /\ \A cache, us : Store!Without(cache, us) = Without(cache, us)
  /\ \A cache, now : Store!EarliestLive(cache, now) = EarliestLive(cache, now)
  /\ \A S : Store!Cardinality(S) = Cardinality(S)
BY DEF Store!Cardinality, Cardinality, Store!EmptyCache, EmptyCache, Store!Capacity, Capacity,
       Store!DefaultMaxEntries, DefaultMaxEntries, Store!Stored, Stored,
       Store!Without, Without, Store!EarliestLive, EarliestLive, Store!Live,
       Live

\* What is readable in a cache.
Visible(cache, now) == Without(cache, Stored(cache) \ Live(cache, now))

LEMMA VisibleFacts ==
  ASSUME NEW cache \in Caches, NEW now \in Nat
  PROVE  /\ Visible(cache, now) \in Caches
         /\ Stored(Visible(cache, now)) = Live(cache, now)
         /\ \A u \in Urls : Visible(cache, now)[u] =
                              IF u \in Live(cache, now) THEN cache[u]
                                                        ELSE NoEntry
         /\ EarliestLive(Visible(cache, now), now) = EarliestLive(cache, now)
<1>1. Visible(cache, now) \in Caches
  BY WithoutFacts DEF Visible
<1>2. Stored(Visible(cache, now)) = Live(cache, now)
  BY WithoutFacts DEF Visible, Live
<1>3. \A u \in Urls : Visible(cache, now)[u] =
                        IF u \in Live(cache, now) THEN cache[u] ELSE NoEntry
  BY DEF Visible, Without, Live, Stored
<1>4. Live(Visible(cache, now), now) = Live(cache, now)
  BY <1>2, <1>3 DEF Live, Stored
<1>5. EarliestLive(Visible(cache, now), now) = EarliestLive(cache, now)
  BY <1>3, <1>4 DEF EarliestLive, Live, Stored
<1> QED BY <1>1, <1>2, <1>3, <1>5

\* Two caches with the same entries are the same.
LEMMA SameEntries ==
  ASSUME NEW c \in Caches, NEW d \in Caches, \A u \in Urls : c[u] = d[u]
  PROVE  c = d
BY DEF Caches

LEMMA GetImplementsRead ==
  ASSUME TypeOK, NEW url \in Urls, Get(url)
  PROVE  Store!Read(url)
<1>1. entries \in Caches /\ clock \in Nat /\ entries' = AfterGet(entries, url, clock)
  BY DEF TypeOK, Get
<1>2. entries' \in Caches /\ clock' = clock
  BY <1>1, WithoutFacts DEF AfterGet, Get
<1>3. Live(entries', clock) = Live(entries, clock)
  BY <1>1 DEF AfterGet, Live, Stored, Without
<1>4. \A u \in Live(entries, clock) : entries'[u] = entries[u]
  BY <1>1 DEF AfterGet, Live, Stored, Without
<1>5. Visible(entries', clock) = Visible(entries, clock)
  BY <1>1, <1>2, <1>3, <1>4, VisibleFacts, SameEntries
<1>6. answer' = Visible(entries, clock)[url]
  BY <1>1, VisibleFacts DEF Get, Hit
<1> QED BY <1>2, <1>5, <1>6 DEF Store!Read, Readable, Visible

LEMMA SetImplementsWrite ==
  ASSUME TypeOK, WithinCapacity, NEW url \in Urls, NEW body \in Bodies,
         Set(url, body)
  PROVE  Store!Write(url, body)
<1> DEFINE e == [body |-> body, expires |-> clock + TTL]
           R == Visible(entries, clock)
           L == Live(entries, clock)
<1>1. /\ entries \in Caches /\ clock \in Nat /\ e \in Entry
      /\ clock' = clock /\ answer' = answer
  BY EntryType DEF TypeOK, Set
<1>2. PICK room \in RoomFor(entries, url, clock) :
        entries' = [room EXCEPT ![url] = e]
  BY DEF Set, AfterSet
<1>3. room \in Caches /\ entries' \in Caches
  BY <1>1, <1>2, RoomFacts, PutFacts DEF WithinCapacity
<1>4. \A u \in Urls : entries'[u] = IF u = url THEN e ELSE room[u]
  BY <1>2, <1>3 DEF Caches
<1>5. url \in Live(entries', clock)
  <2>1. e # NoEntry /\ clock < e.expires
    BY <1>1, CacheAssumption
  <2> QED BY <1>4, <2>1 DEF Live, Stored
<1>6. \A u \in Urls \ {url} : u \in Live(entries', clock) <=> u \in Live(room, clock)
  BY <1>4 DEF Live, Stored
<1>7. /\ R \in Caches /\ Stored(R) = L
      /\ \A u \in Urls : R[u] = IF u \in L THEN entries[u] ELSE NoEntry
      /\ EarliestLive(R, clock) = EarliestLive(entries, clock)
  BY <1>1, VisibleFacts
<1>8. /\ Cardinality(Stored(entries)) \in Nat /\ Cardinality(L) \in Nat
      /\ Cardinality(Stored(entries)) <= Capacity /\ Capacity \in Nat
      /\ L \in SUBSET Stored(entries)
      /\ L # Stored(entries) => Cardinality(L) < Cardinality(Stored(entries))
  <2>1. L \in SUBSET Stored(entries)
    BY DEF Live
  <2>2. IsFiniteSet(L)
    BY <1>1, <2>1, StoredFinite, FS_Subset
  <2> QED BY <1>1, <2>1, <2>2, StoredFinite, FewerStored, FS_CardinalityType,
             CapacityType DEF WithinCapacity
\* It is enough to name what is lost.
<1>9. ASSUME NEW lost \in SUBSET EarliestLive(R, clock),
             Cardinality(lost) = IF /\ url \notin L
                                    /\ Cardinality(L) = Capacity
                                   THEN 1 ELSE 0,
             \A u \in Urls \ {url} :
               /\ u \in Live(room, clock) <=> u \in L /\ u \notin lost
               /\ u \in Live(room, clock) => room[u] = entries[u]
      PROVE  Store!Write(url, body)
  <2> DEFINE W == [Without(R, lost) EXCEPT ![url] = e]
  <2>1. W \in Caches
    BY <1>1, <1>7, WithoutFacts, PutFacts
  <2>2. \A u \in Urls : W[u] = IF u = url THEN e
                               ELSE IF u \in lost THEN NoEntry ELSE R[u]
    BY <1>7, WithoutFacts DEF Without, Caches
  <2>3. \A u \in Urls : Visible(entries', clock)[u] = W[u]
    <3> SUFFICES ASSUME NEW u \in Urls
                 PROVE  Visible(entries', clock)[u] = W[u]
      OBVIOUS
    <3>1. Visible(entries', clock)[u] =
            IF u \in Live(entries', clock) THEN entries'[u] ELSE NoEntry
      BY <1>1, <1>3, VisibleFacts
    <3>2. CASE u = url
      BY <1>4, <1>5, <2>2, <3>1, <3>2
    <3>3. CASE u # url
      BY <1>4, <1>6, <1>7, <1>9, <2>2, <3>1, <3>3
    <3> QED BY <3>2, <3>3
  <2>4. Visible(entries', clock) = W
    BY <1>1, <1>3, <2>1, <2>3, VisibleFacts, SameEntries
  <2>5. Readable' = W /\ Readable = R
    BY <1>1, <2>4 DEF Readable, Visible
  <2>6. Cardinality(lost) = IF Store!Crowded(url) THEN 1 ELSE 0
    <3>1. Store!Stored(Readable) = L
      <4>1. Readable = R
        BY <2>5
      <4>2. Store!Stored(Readable) = Stored(Readable)
        BY SameOperators
      <4> QED BY ONLY <1>7, <4>1, <4>2
    <3>2. Store!Crowded(url) <=> url \notin L /\ Cardinality(L) = Capacity
      <4> HIDE DEF L
      <4> QED BY <3>1, SameOperators DEF Store!Crowded
    <3> HIDE DEF L
    <3> QED BY <1>9, <3>2
  <2>7. lost \in SUBSET Store!EarliestLive(Readable, clock)
    BY <2>5, SameOperators
  <2>8. Readable' = [Store!Without(Readable, lost) EXCEPT
                       ![url] = [body |-> body, expires |-> clock + TTL]]
    BY <2>5, SameOperators
  <2>9. UNCHANGED <<clock, answer>>
    BY <1>1
  <2> HIDE DEF W, R, L, e
  <2> QED BY <2>6, <2>7, <2>8, <2>9, SameOperators DEF Store!Write
<1>10. CASE room = entries
            /\ (url \in Stored(entries) \/ Cardinality(Stored(entries)) < Capacity)
  <2>1. ~(url \notin L /\ Cardinality(L) = Capacity)
    <3>1. CASE url \in Stored(entries) /\ url \notin L
      BY <1>8, <3>1
    <3>2. CASE Cardinality(Stored(entries)) < Capacity
      BY <1>8, <3>2
    <3> QED BY <1>10, <3>1, <3>2
  <2> QED BY <1>9, <1>10, <2>1, FS_EmptySet
<1>11. CASE /\ Stored(entries) # Live(entries, clock)
            /\ room = Without(entries, Stored(entries) \ Live(entries, clock))
  <2>1. Cardinality(L) # Capacity
    BY <1>8, <1>11
  <2>2. Live(room, clock) = L /\ \A u \in L : room[u] = entries[u]
    BY <1>1, <1>11 DEF Live, Stored, Without
  <2> QED BY <1>9, <2>1, <2>2, FS_EmptySet
<1>12. ASSUME NEW v \in EarliestLive(entries, clock),
              room = Without(entries, {v}),
              url \notin Stored(entries),
              ~(Cardinality(Stored(entries)) < Capacity),
              Stored(entries) = Live(entries, clock)
       PROVE  Store!Write(url, body)
  <2>1. url \notin L /\ Cardinality(L) = Capacity
    BY <1>8, <1>12
  <2>2. \A u \in Urls : /\ u \in Live(room, clock) <=> u \in L /\ u # v
                        /\ u # v => room[u] = entries[u]
    BY <1>1, <1>12 DEF Live, Stored, Without
  <2>3. Cardinality({v}) = 1
    BY FS_Singleton
  <2>4. {v} \in SUBSET EarliestLive(R, clock)
    BY <1>7, <1>12
  <2>5. \A u \in Urls \ {url} :
          /\ u \in Live(room, clock) <=> u \in L /\ u \notin {v}
          /\ u \in Live(room, clock) => room[u] = entries[u]
    BY <2>2
  <2> QED BY <1>9, <2>1, <2>3, <2>4, <2>5
<1> QED BY <1>1, <1>10, <1>11, <1>12, RoomCases

LEMMA FlushImplementsDrop ==
  ASSUME TypeOK, Flush
  PROVE  Store!Drop
<1>1. entries' = EmptyCache /\ clock' = clock /\ answer' = answer
  BY DEF Flush
<1>2. Without(EmptyCache, Stored(EmptyCache) \ Live(EmptyCache, clock))
        = EmptyCache
  BY DEF Without, EmptyCache
<1> QED BY <1>1, <1>2, SameOperators DEF Store!Drop, Readable

LEMMA TickImplementsPass ==
  ASSUME TypeOK, Tick
  PROVE  Store!Pass
<1>1. /\ entries \in Caches /\ clock \in Nat
      /\ clock < MaxClock /\ clock' = clock + 1
      /\ entries' = entries /\ answer' = answer
  BY DEF TypeOK, Tick
<1> DEFINE R == Visible(entries, clock)
           gone == {u \in Stored(R) : R[u].expires <= clock'}
<1>2. /\ R \in Caches /\ Stored(R) = Live(entries, clock)
      /\ \A u \in Urls : R[u] = IF u \in Live(entries, clock) THEN entries[u]
                                                              ELSE NoEntry
  BY <1>1, VisibleFacts
<1>3. \A u \in Stored(entries) : entries[u].expires \in Nat
  BY <1>1 DEF Stored, Caches, Entry
<1>4. Live(entries, clock') = Live(entries, clock) \ gone
  <2>1. gone = {u \in Live(entries, clock) : entries[u].expires <= clock'}
    BY <1>2 DEF Live, Stored
  <2>2. \A u \in Stored(entries) : clock' < entries[u].expires
          <=> clock < entries[u].expires /\ ~(entries[u].expires <= clock')
    BY <1>1, <1>3
  <2> HIDE DEF gone
  <2> QED BY <2>1, <2>2 DEF Live
<1>5. /\ Visible(entries, clock') \in Caches
      /\ \A u \in Urls : Visible(entries, clock')[u] =
           IF u \in Live(entries, clock') THEN entries[u] ELSE NoEntry
  BY <1>1, VisibleFacts
<1>6. Without(R, gone) \in Caches
      /\ \A u \in Urls : Without(R, gone)[u] = IF u \in gone THEN NoEntry
                                                            ELSE R[u]
  BY <1>2, WithoutFacts DEF Without
<1>7. Visible(entries, clock') = Without(R, gone)
  BY <1>2, <1>4, <1>5, <1>6, SameEntries
<1>8. Readable' = Visible(entries, clock') /\ Readable = R
  BY <1>1 DEF Readable, Visible
<1>9. Readable' = Store!Without(Readable, {u \in Store!Stored(Readable) :
                                             Readable[u].expires <= clock'})
  BY <1>7, <1>8, SameOperators
<1> QED BY <1>1, <1>9 DEF Store!Pass

(* ImplementsStore: every behaviour of the cache is, seen through what is  *)
(* readable, a behaviour of the ideal store.                               *)
THEOREM ImplementsStoreAlways == Spec => ImplementsStore
<1>1. Init => Store!StoreInit
  BY EmptyFacts, SameOperators
     DEF Init, Store!StoreInit, Readable, Without, EmptyCache
<1>2. TypeOK /\ WithinCapacity /\ [Next]_vars
        => [Store!StoreNext]_Store!storeVars
  <2> SUFFICES ASSUME TypeOK, WithinCapacity, [Next]_vars
               PROVE  [Store!StoreNext]_Store!storeVars
    OBVIOUS
  <2>1. ASSUME NEW url \in Urls, Get(url) PROVE Store!StoreNext
    BY <2>1, GetImplementsRead DEF Store!StoreNext
  <2>2. ASSUME NEW url \in Urls, NEW body \in Bodies, Set(url, body)
        PROVE  Store!StoreNext
    BY <2>2, SetImplementsWrite DEF Store!StoreNext
  <2>3. ASSUME Flush PROVE Store!StoreNext
    BY <2>3, FlushImplementsDrop DEF Store!StoreNext
  <2>4. ASSUME Tick PROVE Store!StoreNext
    BY <2>4, TickImplementsPass DEF Store!StoreNext
  <2>5. CASE UNCHANGED vars
    BY <2>5 DEF vars, Store!storeVars, Readable, Stored, Live, Without
  <2> QED BY <2>1, <2>2, <2>3, <2>4, <2>5 DEF Next
<1> QED BY <1>1, <1>2, Invariant, PTL DEF Spec, ImplementsStore, Store!StoreSpec

=============================================================================
