------------------------------- MODULE Cache --------------------------------
(***************************************************************************)
(* The fetch cache as a component: its methods in any order, by any number *)
(* of callers (they are serialised by Cache.mu), while time passes.        *)
(***************************************************************************)
EXTENDS CacheOps

CONSTANT MaxClock      \* bound on the clock

VARIABLES entries,     \* Cache.entries
          clock,       \* what Cache.now returns
          answer       \* the entry the last get returned, NoEntry for a miss

vars == <<entries, clock, answer>>

Init ==
  /\ entries = EmptyCache
  /\ clock = 0
  /\ answer = NoEntry

Get(url) ==
  /\ answer' = IF Hit(entries, url, clock) THEN entries[url] ELSE NoEntry
  /\ entries' = AfterGet(entries, url, clock)
  /\ UNCHANGED clock

Set(url, body) ==
  /\ entries' \in AfterSet(entries, url, body, clock)
  /\ UNCHANGED <<clock, answer>>

Flush ==
  /\ entries' = EmptyCache
  /\ UNCHANGED <<clock, answer>>

Tick ==
  /\ clock < MaxClock
  /\ clock' = clock + 1
  /\ UNCHANGED <<entries, answer>>

Next ==
  \/ \E url \in Urls : Get(url)
  \/ \E url \in Urls, body \in Bodies : Set(url, body)
  \/ Flush
  \/ Tick

Spec == Init /\ [][Next]_vars

-----------------------------------------------------------------------------

TypeOK ==
  /\ entries \in Caches
  /\ clock \in Nat
  /\ answer \in Entry \cup {NoEntry}

(* The map never outgrows its capacity, however many URLs are fetched and  *)
(* however long their expired entries stay unread (cache.go, set).         *)
WithinCapacity == Cardinality(Stored(entries)) <= Capacity

(* Deleting expired entries lazily, purging them only when the map is full *)
(* and evicting only when nothing has expired implements the store of      *)
(* TTLStore: no caller can see the difference (cache.go, get and set).     *)
Readable == Without(entries, Stored(entries) \ Live(entries, clock))

Store == INSTANCE TTLStore WITH readable <- Readable

ImplementsStore == Store!StoreSpec

=============================================================================
