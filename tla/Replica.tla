------------------------------- MODULE Replica --------------------------------
(***************************************************************************)
(* What internal/fetch promises the callers of GetWithMeta, whatever it    *)
(* does with flights, flushes, retries and time: behind it, each URL has a *)
(* copy of some version the origin has served.  The copy only moves        *)
(* forward, and a call is answered with the version of the copy or a newer *)
(* one of the origin, or with an error.  Fetch implements this             *)
(* (ImplementsReplica).                                                    *)
(***************************************************************************)
EXTENDS Integers

CONSTANTS Calls, Urls

VARIABLES
  origin,   \* the version each URL has at its origin
  copy,     \* the version of the copy of each URL
  wants,    \* the URL each call asks for
  got       \* what each call was answered with

vars == <<origin, copy, wants, got>>

\* What a call has instead of a version: no answer yet, or an error.
Pending == -1
Failure == -2

Init ==
  /\ origin = [u \in Urls |-> 0]
  /\ copy = [u \in Urls |-> 0]
  /\ wants \in [Calls -> Urls]
  /\ got = [c \in Calls |-> Pending]

Publish(u) ==
  /\ origin' = [origin EXCEPT ![u] = @ + 1]
  /\ UNCHANGED <<copy, wants, got>>

\* The copy catches up with the origin, or with what it served a while ago.
Refresh(u) ==
  /\ \E v \in copy[u] + 1 .. origin[u] : copy' = [copy EXCEPT ![u] = v]
  /\ UNCHANGED <<origin, wants, got>>

\* Calls that ask for u are answered, all alike.
Answer(u) ==
  /\ \E S \in SUBSET {c \in Calls : wants[c] = u /\ got[c] = Pending},
        v \in copy[u] .. origin[u] \cup {Failure} :
       got' = [c \in Calls |-> IF c \in S THEN v ELSE got[c]]
  /\ UNCHANGED <<origin, copy, wants>>

Next == \E u \in Urls : Publish(u) \/ Refresh(u) \/ Answer(u)

Spec == Init /\ [][Next]_vars

=============================================================================
