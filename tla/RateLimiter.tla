---------------------------- MODULE RateLimiter ----------------------------
(* internal/adapters/ratelimit: the in-memory token bucket per client address
   that stands before the ingest endpoints and the login forms.

   The map `visitors` holds a bucket only for the keys seen lately: Allow
   creates one lazily, and a ten-minute ticker evicts the idle ones.  The
   limiter's own arithmetic is golang.org/x/time/rate (external).

   Time is a number of ticks, and tokens are counted in ticks of refill: one
   token is PerToken of them, so a bucket of Burst tokens refills in
   Burst * PerToken ticks -- one minute in the code, where the rate and the
   burst both come from the same perMinute.

   Both methods run wholly under rl.mu, so each is one action.  Bound:
   Horizon, the last instant the model reaches. *)
EXTENDS Naturals, Sequences

CONSTANTS Keys,        \* the client addresses
          Burst,       \* perMinute
          PerToken,    \* ticks in which one token comes back
          IdleLimit,   \* a key idle for longer than this may be evicted
          SweepEvery,  \* period of the cleanup ticker
          Horizon      \* bound: the clock stops here

\* What a full bucket holds, in ticks of refill.
Cap == Burst * PerToken

(* A full refill (a minute) is not longer than the idle limit (ten minutes):
   the two literals of the code that make an eviction harmless. *)
ASSUME RateAssumption == /\ Burst \in Nat
                         /\ PerToken \in Nat \ {0}
                         /\ IdleLimit \in Nat
                         /\ SweepEvery \in Nat \ {0}
                         /\ Horizon \in Nat
                         /\ Cap \in Nat
                         /\ Cap <= IdleLimit

VARIABLES visitors,  \* rl.visitors; NoBucket where the map has no entry
          now,       \* the clock
          sweepAt,   \* when the cleanup ticker fires next
          reply,     \* the last call of Allow and its result
          grants     \* history: grants[k] is the instants k was let through

vars == <<visitors, now, sweepAt, reply, grants>>

NoBucket == [units |-> 0, last |-> 0, lastSeen |-> 0, there |-> FALSE]

\* visitor: the tokens its limiter held at the instant `last`, and lastSeen.
Bucket(u, l, s) == [units |-> u, last |-> l, lastSeen |-> s, there |-> TRUE]

Present == {k \in Keys : visitors[k].there}

-----------------------------------------------------------------------------

\* Limiter.advance of x/time/rate: the tokens v's limiter holds now.
Advance(v) == IF v.units + (now - v.last) < Cap
              THEN v.units + (now - v.last)
              ELSE Cap

\* The entry Allow works on: a key the map lacks gets a fresh, full limiter.
Entry(k) == IF visitors[k].there THEN visitors[k] ELSE Bucket(Cap, now, now)

\* What key k could spend now.
Level(k) == Advance(Entry(k))

\* New: an empty map, and the ticker of cleanupLoop started.
Init == /\ visitors = [k \in Keys |-> NoBucket]
        /\ now = 0
        /\ sweepAt = SweepEvery
        /\ reply = [key |-> "none", ok |-> FALSE]
        /\ grants = [k \in Keys |-> <<>>]

\* lim.reserveN(now, 1, 0).ok of x/time/rate.
Affords(k) == Burst > 0 /\ Level(k) >= PerToken

\* The calls of Allow: everything but what becomes of the entry.
Answer(k, ok) == /\ reply' = [key |-> k, ok |-> ok]
                 /\ grants' = [grants EXCEPT ![k] = IF ok THEN Append(@, now) ELSE @]
                 /\ UNCHANGED <<now, sweepAt>>

\* A mistake in Allow: the refill counts, but its start is not moved.
AllowForgetfulRefill(k) ==
  LET e == Entry(k) IN
  /\ visitors' = [visitors EXCEPT ![k] =
       IF Affords(k) THEN Bucket(Level(k) - PerToken, e.last, now) ELSE Bucket(e.units, e.last, now)]
  /\ Answer(k, Affords(k))

\* A mistake in Allow: the time of last use is not moved.
AllowKeepingLastSeen(k) ==
  LET e == Entry(k) IN
  /\ visitors' = [visitors EXCEPT ![k] =
       IF Affords(k) THEN Bucket(Level(k) - PerToken, now, e.lastSeen) ELSE e]
  /\ Answer(k, Affords(k))

(* Allow: lastSeen moves on every call, but a denied call leaves the
   limiter's own tokens and timestamp alone. *)
Allow(k) ==
  LET e == Entry(k) IN
  /\ visitors' = [visitors EXCEPT ![k] =
       IF Affords(k) THEN Bucket(Level(k) - PerToken, now, now) ELSE Bucket(e.units, e.last, now)]
  /\ Answer(k, Affords(k))

\* A mistake in the condition of cleanupLoop: every entry counts as idle.
IdleAtOnce(v) == v.there

\* The condition of cleanupLoop: strictly longer than the limit.
Idle(v) == v.there /\ now - v.lastSeen > IdleLimit

\* A mistake in cleanupLoop: only empty buckets are evicted.
SweepOnlyEmpty ==
  /\ now >= sweepAt
  /\ visitors' = [k \in Keys |-> IF Idle(visitors[k]) /\ visitors[k].units = 0
                                 THEN NoBucket ELSE visitors[k]]
  /\ sweepAt' = now + SweepEvery
  /\ UNCHANGED <<now, reply, grants>>

\* One turn of cleanupLoop, when its ticker has fired.
Sweep ==
  /\ now >= sweepAt
  /\ visitors' = [k \in Keys |-> IF Idle(visitors[k]) THEN NoBucket ELSE visitors[k]]
  /\ sweepAt' = now + SweepEvery
  /\ UNCHANGED <<now, reply, grants>>

(* The clock.  It does not pass the instant a sweep is due: the goroutine of
   cleanupLoop is taken to run within a tick of its ticker. *)
Tick == /\ now < Horizon
        /\ now < sweepAt
        /\ now' = now + 1
        /\ UNCHANGED <<visitors, sweepAt, reply, grants>>

Next == Tick \/ Sweep \/ \E k \in Keys : Allow(k)

Spec == Init /\ [][Next]_vars

-----------------------------------------------------------------------------
(* Properties. *)

BucketType == [units : Nat, last : Nat, lastSeen : Nat, there : BOOLEAN]

(* Every entry of the map Limiter.visitors holds at most a full bucket, and
   its two timestamps never lie ahead of the clock nor `last` ahead of lastSeen. *)
TypeOK == /\ visitors \in [Keys -> BucketType]
          /\ now \in Nat
          /\ sweepAt \in Nat
          /\ grants \in [Keys -> Seq(Nat)]
          /\ \A k \in Keys : /\ visitors[k].units <= Cap
                             /\ visitors[k].last <= visitors[k].lastSeen
                             /\ visitors[k].lastSeen <= now

\* How many requests of k were let through from its i-th one on.
Since(k, i) == Len(grants[k]) + 1 - i

(* The limit the package documents: from any granted request on, key k is let
   through at most a burst of requests plus one per PerToken ticks elapsed,
   whatever evictions the cleanup goroutine did in between (an eviction forgets
   the bucket, and the next Allow starts from a full one). *)
WindowBound ==
  \A k \in Keys : \A i \in 1..Len(grants[k]) :
     Since(k, i) * PerToken <= Cap + (now - grants[k][i])

(* "so the map doesn't grow unbounded" (cleanupLoop): no entry outlives its
   last use by more than the idle limit and one period of the ticker. *)
StaleBound ==
  \A k \in Present : now - visitors[k].lastSeen <= IdleLimit + SweepEvery

(* A bucket per key that is never evicted, of which Limiter is the
   implementation: lazily creating and evicting entries is invisible. *)
Ideal == INSTANCE TokenBucket WITH
           Price <- PerToken,
           level <- [k \in Keys |-> Level(k)]

(* Every answer of Allow is the answer the never-evicted bucket would give. *)
ImplementsTokenBucket == Ideal!Spec
=============================================================================
