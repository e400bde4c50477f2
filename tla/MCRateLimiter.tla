---------------------------- MODULE MCRateLimiter ----------------------------
(* RateLimiter for TLC: clients and call slots are interchangeable. *)
EXTENDS RateLimiter, TLC

Symmetry == Permutations(Clients) \cup Permutations(Requests)
==============================================================================
