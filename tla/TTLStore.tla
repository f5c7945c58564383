------------------------------ MODULE TTLStore ------------------------------
(***************************************************************************)
(* What the fetch cache promises, without its mechanism.  An entry is      *)
(* readable from the moment it is stored until its lifetime is over, and   *)
(* then it is gone: nothing has to find and delete it.  An entry is lost   *)
(* before its time only to a flush, or because a new URL is stored while   *)
(* as many readable entries as the cache may hold are in it; then one of   *)
(* those that would expire first is lost, and no other.                    *)
(***************************************************************************)
EXTENDS CacheOps

CONSTANT MaxClock

VARIABLES readable,   \* the readable entries
          clock,
          answer      \* what the last lookup returned

storeVars == <<readable, clock, answer>>

StoreInit ==
  /\ readable = EmptyCache
  /\ clock = 0
  /\ answer = NoEntry

Read(url) ==
  /\ answer' = readable[url]
  /\ UNCHANGED <<readable, clock>>

Crowded(url) ==
  /\ url \notin Stored(readable)
  /\ Cardinality(Stored(readable)) = Capacity

Write(url, body) ==
  /\ \E lost \in SUBSET EarliestLive(readable, clock) :
       /\ Cardinality(lost) = IF Crowded(url) THEN 1 ELSE 0
       /\ readable' = [Without(readable, lost) EXCEPT
                         ![url] = [body |-> body, expires |-> clock + TTL]]
  /\ UNCHANGED <<clock, answer>>

Drop ==
  /\ readable' = EmptyCache
  /\ UNCHANGED <<clock, answer>>

Pass ==
  /\ clock < MaxClock
  /\ clock' = clock + 1
  /\ readable' = Without(readable, {u \in Stored(readable) :
                                      readable[u].expires <= clock'})
  /\ UNCHANGED answer

StoreNext ==
  \/ \E url \in Urls : Read(url)
  \/ \E url \in Urls, body \in Bodies : Write(url, body)
  \/ Drop
  \/ Pass

StoreSpec == StoreInit /\ [][StoreNext]_storeVars

=============================================================================
