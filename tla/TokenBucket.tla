----------------------------- MODULE TokenBucket -----------------------------
(* What package ratelimit promises its callers, with no map, no timestamps and
   no cleanup: every key owns a bucket that starts full, refills one unit per
   tick up to Cap, and a call for a key is let through exactly when the bucket
   holds the price of a request.

   RateLimiter implements this module; the refinement mapping is there. *)
EXTENDS Naturals

CONSTANTS Keys,   \* the client addresses Allow is called with
          Cap,    \* what a full bucket holds
          Price   \* what one request costs

VARIABLES level,  \* level[k]: what the bucket of k holds now
          reply   \* the last call and its answer

Init == /\ level = [k \in Keys |-> Cap]
        /\ reply = [key |-> "none", ok |-> FALSE]

\* One tick of the clock refills every bucket.
Refill == /\ level' = [k \in Keys |-> IF level[k] < Cap THEN level[k] + 1 ELSE Cap]
          /\ UNCHANGED reply

Grant(k) == /\ Price <= level[k]
            /\ 0 < Cap
            /\ level' = [level EXCEPT ![k] = @ - Price]
            /\ reply' = [key |-> k, ok |-> TRUE]

Deny(k) == /\ ~(Price <= level[k] /\ 0 < Cap)
           /\ reply' = [key |-> k, ok |-> FALSE]
           /\ UNCHANGED level

Next == Refill \/ \E k \in Keys : Grant(k) \/ Deny(k)

Spec == Init /\ [][Next]_<<level, reply>>
=============================================================================
