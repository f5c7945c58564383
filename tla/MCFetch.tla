------------------------------ MODULE MCFetch -------------------------------
(* Instances of Fetch: what calls may ask for, what the origin may answer. *)
EXTENDS Fetch, TLC

CONSTANTS u1, u2

Ask(nocaches, flushes) ==
  [url : Urls, nocache : nocaches, flush : flushes]

NoCacheOrFlush == Ask(BOOLEAN, {FALSE}) \cup Ask({FALSE}, {TRUE})
CachingCall == Ask({FALSE}, {FALSE})
NoCacheOrNot == Ask(BOOLEAN, {FALSE})

Good == {[status |-> 200, body |-> "content"]}
GoodOrForbidden == Good \cup {[status |-> 403, body |-> "challenge"]}
GoodOrEmpty == Good \cup {[status |-> 200, body |-> "empty"]}
GoodOrChallenge == GoodOrForbidden \cup {[status |-> 200, body |-> "challenge"]}
OfEachSort == GoodOrForbidden \cup GoodOrEmpty
                \cup {[status |-> 404, body |-> "content"]}

Interchangeable == Permutations(Calls)

=============================================================================
