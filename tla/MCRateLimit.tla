---------------------------- MODULE MCRateLimit -----------------------------
(* Instances of RateLimit.                                                 *)
EXTENDS RateLimit, TLC

Interchangeable == Permutations(Keys) \cup Permutations(Workers)

=============================================================================
