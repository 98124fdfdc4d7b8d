--------------------------- MODULE MCRateLimiter ---------------------------
(* RateLimiter for TLC: two addresses that share the map and the sweep, and a
   bucket of two tokens that refills in four ticks.  The sweep comes every three
   ticks; the horizon leaves room for calls before an eviction and after it. *)
EXTENDS RateLimiter, TLC

Symmetry == Permutations(Keys)
=============================================================================
