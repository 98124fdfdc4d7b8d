------------------------- MODULE RateLimiterProofs -------------------------
(* What holds of the rate limiter for every number of addresses, every burst
   and every refill rate.  The one fact all of it rests on is that an entry
   idle for longer than IdleLimit has refilled completely, so that evicting it
   changes nothing Allow can answer (EvictionKeepsLevel). *)
EXTENDS RateLimiter, TLAPS

-----------------------------------------------------------------------------
(* Type correctness. *)

LEMMA BucketTyped ==
  ASSUME NEW u \in Nat, NEW l \in Nat, NEW s \in Nat
  PROVE  /\ Bucket(u, l, s) \in BucketType
         /\ Bucket(u, l, s).units = u
         /\ Bucket(u, l, s).last = l
         /\ Bucket(u, l, s).lastSeen = s
         /\ Bucket(u, l, s).there
BY DEF Bucket, BucketType

LEMMA NoBucketTyped ==
  /\ NoBucket \in BucketType
  /\ NoBucket.units = 0 /\ NoBucket.last = 0 /\ NoBucket.lastSeen = 0
  /\ ~NoBucket.there
BY DEF NoBucket, BucketType

\* The entry Allow(k) works on is well formed and was last used in the past.
LEMMA EntryTyped ==
  ASSUME TypeOK, NEW k \in Keys
  PROVE  /\ Entry(k) \in BucketType
         /\ Entry(k).units <= Cap
         /\ Entry(k).last <= Entry(k).lastSeen
         /\ Entry(k).lastSeen <= now
         /\ Entry(k).there
<1>1. Cap \in Nat
  BY RateAssumption
<1>2. CASE visitors[k].there
  BY <1>2 DEF Entry, TypeOK
<1>3. CASE ~visitors[k].there
  BY <1>1, <1>3, BucketTyped DEF Entry, TypeOK
<1> QED BY <1>2, <1>3

LEMMA LevelTyped ==
  ASSUME TypeOK, NEW k \in Keys
  PROVE  /\ Level(k) \in 0..Cap
         /\ Entry(k).units <= Level(k)
<1>1. /\ Entry(k).units \in Nat /\ Entry(k).last \in Nat /\ now \in Nat
      /\ Entry(k).units <= Cap
      /\ Entry(k).last <= now
  BY EntryTyped DEF BucketType, TypeOK
<1>2. Cap \in Nat
  BY RateAssumption
<1> QED BY <1>1, <1>2 DEF Level, Advance

\* What Allow writes: a well-formed entry, seen now.
LEMMA AllowWrites ==
  ASSUME TypeOK, NEW k \in Keys, Allow(k)
  PROVE  /\ visitors'[k] \in BucketType
         /\ visitors'[k].units = IF Affords(k) THEN Level(k) - PerToken ELSE Entry(k).units
         /\ visitors'[k].last = IF Affords(k) THEN now ELSE Entry(k).last
         /\ visitors'[k].lastSeen = now
         /\ visitors'[k].there
<1> DEFINE b == IF Affords(k) THEN Bucket(Level(k) - PerToken, now, now)
                            ELSE Bucket(Entry(k).units, Entry(k).last, now)
<1>1. visitors'[k] = b
  BY DEF Allow, TypeOK
<1>2. /\ now \in Nat /\ Entry(k).units \in Nat /\ Entry(k).last \in Nat
      /\ Level(k) \in Nat /\ PerToken \in Nat
  BY EntryTyped, LevelTyped, RateAssumption DEF TypeOK, BucketType
<1>3. CASE Affords(k)
  <2>1. Level(k) - PerToken \in Nat
    BY <1>2, <1>3 DEF Affords
  <2>2. PICK u \in Nat : u = Level(k) - PerToken
    BY <2>1
  <2>3. visitors'[k] = Bucket(u, now, now)
    BY <1>1, <1>3, <2>2
  <2>4. /\ Bucket(u, now, now) \in BucketType
        /\ Bucket(u, now, now).units = u
        /\ Bucket(u, now, now).last = now
        /\ Bucket(u, now, now).lastSeen = now
        /\ Bucket(u, now, now).there
    BY <1>2, BucketTyped
  <2> QED BY <1>3, <2>2, <2>3, <2>4
<1>4. CASE ~Affords(k)
  BY <1>1, <1>2, <1>4, BucketTyped
<1> QED BY <1>3, <1>4

(* Limiter.visitors is well formed in every reachable state: no bucket holds
   more than a burst, and no timestamp of an entry is ahead of the clock. *)
THEOREM TypeCorrect == Spec => []TypeOK
<1>1. Init => TypeOK
  BY NoBucketTyped, RateAssumption DEF Init, TypeOK
<1>2. TypeOK /\ [Next]_vars => TypeOK'
  <2> SUFFICES ASSUME TypeOK, [Next]_vars PROVE TypeOK'
    OBVIOUS
  <2>1. CASE Tick
    BY <2>1 DEF Tick, TypeOK, BucketType
  <2>2. CASE Sweep
    <3>1. \A k \in Keys : visitors'[k] = visitors[k] \/ visitors'[k] = NoBucket
      BY <2>2 DEF Sweep
    <3>2. visitors' \in [Keys -> BucketType]
      BY <2>2, <3>1, NoBucketTyped DEF Sweep, TypeOK
    <3>3. now \in Nat /\ now' = now /\ sweepAt' \in Nat /\ grants' = grants /\ Cap \in Nat
      BY <2>2, RateAssumption DEF Sweep, TypeOK
    <3>4. \A k \in Keys : /\ visitors'[k].units <= Cap
                          /\ visitors'[k].last <= visitors'[k].lastSeen
                          /\ visitors'[k].lastSeen <= now'
      BY <3>1, <3>3, NoBucketTyped DEF TypeOK
    <3> QED BY <3>2, <3>3, <3>4 DEF TypeOK
  <2>3. ASSUME NEW k \in Keys, Allow(k) PROVE TypeOK'
    <3>1. now' = now /\ sweepAt' = sweepAt
      BY <2>3 DEF Allow, Answer
    <3>2. grants' \in [Keys -> Seq(Nat)]
      BY <2>3 DEF Allow, Answer, TypeOK
    <3>3. /\ visitors' \in [Keys -> BucketType]
          /\ \A j \in Keys : j # k => visitors'[j] = visitors[j]
      <4>1. visitors'[k] \in BucketType
        BY <2>3, AllowWrites
      <4>2. visitors' = [visitors EXCEPT ![k] = visitors'[k]]
        BY <2>3 DEF Allow, TypeOK
      <4> QED BY <4>1, <4>2 DEF TypeOK
    <3>4. /\ visitors'[k].units <= Cap
          /\ visitors'[k].last <= visitors'[k].lastSeen
          /\ visitors'[k].lastSeen <= now'
      <4>1. /\ Entry(k).units <= Cap /\ Entry(k).last <= now
            /\ Level(k) \in 0..Cap /\ PerToken \in Nat /\ Cap \in Nat /\ now \in Nat
            /\ Entry(k).units \in Nat /\ Entry(k).last \in Nat
        BY EntryTyped, LevelTyped, RateAssumption DEF TypeOK, BucketType
      <4>2. Affords(k) => Level(k) - PerToken <= Cap
        BY <4>1 DEF Affords
      <4> QED BY <2>3, <3>1, <4>1, <4>2, AllowWrites
    <3> QED BY <3>1, <3>2, <3>3, <3>4 DEF TypeOK
  <2>4. CASE UNCHANGED vars
    BY <2>4 DEF vars, TypeOK
  <2> QED BY <2>1, <2>2, <2>3, <2>4 DEF Next
<1> QED BY <1>1, <1>2, PTL DEF Spec

-----------------------------------------------------------------------------
(* Evictions. *)

(* cleanupLoop only forgets buckets that are full: an entry idle for longer
   than IdleLimit has had the time to refill, because a full refill takes Cap
   ticks and Cap <= IdleLimit. *)
LEMMA EvictionKeepsLevel ==
  ASSUME TypeOK, NEW k \in Keys, Idle(visitors[k])
  PROVE  Level(k) = Cap
<1>1. /\ visitors[k].units \in Nat /\ visitors[k].last \in Nat /\ visitors[k].lastSeen \in Nat
      /\ visitors[k].last <= visitors[k].lastSeen
      /\ now \in Nat /\ Cap \in Nat /\ IdleLimit \in Nat /\ Cap <= IdleLimit
  BY RateAssumption DEF TypeOK, BucketType
<1>2. now - visitors[k].last >= Cap
  BY <1>1 DEF Idle
<1>3. Entry(k) = visitors[k]
  BY DEF Entry, Idle
<1> QED BY <1>1, <1>2, <1>3 DEF Level, Advance

\* The three steps, as the bucket of one key sees them.
LEMMA SweepLevel ==
  ASSUME TypeOK, TypeOK', Sweep, NEW k \in Keys
  PROVE  Level(k)' = Level(k)
<1>1. now' = now /\ now \in Nat /\ Cap \in Nat
  BY RateAssumption DEF Sweep, TypeOK
<1>2. CASE Idle(visitors[k])
  <2>1. visitors'[k] = NoBucket
    BY <1>2 DEF Sweep
  <2>2. Entry(k)' = Bucket(Cap, now, now)
    BY <1>1, <2>1, NoBucketTyped DEF Entry
  <2>3. Level(k)' = Cap
    BY <1>1, <2>2, BucketTyped DEF Level, Advance
  <2> QED BY <1>2, <2>3, EvictionKeepsLevel
<1>3. CASE ~Idle(visitors[k])
  <2>1. visitors'[k] = visitors[k]
    BY <1>3 DEF Sweep
  <2> QED BY <1>1, <2>1 DEF Level, Advance, Entry
<1> QED BY <1>2, <1>3

LEMMA TickLevel ==
  ASSUME TypeOK, TypeOK', Tick, NEW k \in Keys
  PROVE  Level(k)' = IF Level(k) < Cap THEN Level(k) + 1 ELSE Cap
<1>1. now' = now + 1 /\ visitors' = visitors /\ now \in Nat /\ Cap \in Nat
  BY RateAssumption DEF Tick, TypeOK
<1>2. CASE visitors[k].there
  <2>1. Entry(k)' = visitors[k] /\ Entry(k) = visitors[k]
    BY <1>1, <1>2 DEF Entry
  <2>2. /\ visitors[k].units \in Nat /\ visitors[k].last \in Nat /\ visitors[k].units <= Cap
        /\ visitors[k].last <= now
    BY DEF TypeOK, BucketType
  <2> QED BY <1>1, <2>1, <2>2 DEF Level, Advance
<1>3. CASE ~visitors[k].there
  <2>1. Entry(k)' = Bucket(Cap, now + 1, now + 1) /\ Entry(k) = Bucket(Cap, now, now)
    BY <1>1, <1>3 DEF Entry
  <2>2. now + 1 \in Nat
    BY <1>1
  <2>3. Level(k)' = Cap /\ Level(k) = Cap
    BY <1>1, <2>1, <2>2, BucketTyped DEF Level, Advance
  <2> QED BY <1>1, <2>3
<1> QED BY <1>2, <1>3

LEMMA AllowLevel ==
  ASSUME TypeOK, TypeOK', NEW k \in Keys, Allow(k), NEW j \in Keys
  PROVE  Level(j)' = IF j = k /\ Affords(k) THEN Level(k) - PerToken ELSE Level(j)
<1>1. now' = now /\ now \in Nat /\ Cap \in Nat
  BY RateAssumption DEF Allow, Answer, TypeOK
<1>2. CASE j # k
  <2>1. visitors'[j] = visitors[j]
    BY <1>2 DEF Allow, TypeOK
  <2> QED BY <1>1, <1>2, <2>1 DEF Level, Advance, Entry
<1>3. CASE j = k
  <2>1. visitors'[k].there /\ Entry(k)' = visitors'[k]
    BY AllowWrites DEF Entry
  <2>2. CASE Affords(k)
    <3>1. /\ visitors'[k].units = Level(k) - PerToken
          /\ visitors'[k].last = now
      BY <2>2, AllowWrites
    <3>2. Level(k) - PerToken < Cap /\ Level(k) - PerToken \in Nat
      BY <2>2, LevelTyped, RateAssumption DEF Affords
    <3>3. Level(k)' = Level(k) - PerToken
      BY <1>1, <2>1, <3>1, <3>2 DEF Level, Advance
    <3> QED BY <1>3, <2>2, <3>3
  <2>3. CASE ~Affords(k)
    <3>1. /\ visitors'[k].units = Entry(k).units
          /\ visitors'[k].last = Entry(k).last
      BY <2>3, AllowWrites
    <3> QED BY <1>1, <1>3, <2>1, <2>3, <3>1 DEF Level, Advance
  <2> QED BY <2>2, <2>3
<1> QED BY <1>2, <1>3

(* Lazily created and evicted entries are invisible: Limiter answers every
   call of Allow as a bucket per address that exists from the start and is
   never evicted. *)
THEOREM Refinement == Spec => ImplementsTokenBucket
<1> USE DEF ImplementsTokenBucket
<1>1. Init => Ideal!Init
  <2> SUFFICES ASSUME Init PROVE Ideal!Init
    OBVIOUS
  <2>1. \A k \in Keys : Level(k) = Cap
    <3> SUFFICES ASSUME NEW k \in Keys PROVE Level(k) = Cap
      OBVIOUS
    <3>1. Entry(k) = Bucket(Cap, 0, 0) /\ now = 0 /\ Cap \in Nat
      BY NoBucketTyped, RateAssumption DEF Init, Entry
    <3> QED BY <3>1, BucketTyped DEF Level, Advance
  <2> QED BY <2>1 DEF Ideal!Init, Init
<1>2. TypeOK /\ TypeOK' /\ [Next]_vars => [Ideal!Next]_<<[k \in Keys |-> Level(k)], reply>>
  <2> SUFFICES ASSUME TypeOK, TypeOK', [Next]_vars
               PROVE  [Ideal!Next]_<<[k \in Keys |-> Level(k)], reply>>
    OBVIOUS
  <2>1. CASE Tick
    <3>1. Ideal!Refill
      BY <2>1, TickLevel DEF Ideal!Refill, Tick
    <3> QED BY <3>1 DEF Ideal!Next
  <2>2. CASE Sweep
    <3>1. reply' = reply /\ \A k \in Keys : Level(k)' = Level(k)
      BY <2>2, SweepLevel DEF Sweep
    <3> QED BY <3>1
  <2>3. ASSUME NEW k \in Keys, Allow(k)
        PROVE  Ideal!Grant(k) \/ Ideal!Deny(k)
    <3>1. Cap \in Nat /\ PerToken \in Nat \ {0} /\ Burst \in Nat /\ Level(k) \in 0..Cap
      BY LevelTyped, RateAssumption
    <3>2. Burst > 0 /\ Level(k) >= PerToken <=> PerToken <= Level(k) /\ 0 < Cap
      <4>1. Burst = 0 => Cap = 0
        BY <3>1 DEF Cap
      <4> QED BY <3>1, <4>1
    <3>3. reply' = [key |-> k, ok |-> Affords(k)]
      BY <2>3 DEF Allow, Answer
    <3>4. CASE Affords(k)
      <4>1. [j \in Keys |-> Level(j)'] = [[j \in Keys |-> Level(j)] EXCEPT ![k] = @ - PerToken]
        BY <2>3, <3>4, AllowLevel
      <4> QED BY <3>2, <3>3, <3>4, <4>1 DEF Ideal!Grant, Affords
    <3>5. CASE ~Affords(k)
      <4>1. \A j \in Keys : Level(j)' = Level(j)
        BY <2>3, <3>5, AllowLevel
      <4> QED BY <3>2, <3>3, <3>5, <4>1 DEF Ideal!Deny, Affords
    <3> QED BY <3>4, <3>5
  <2>4. CASE UNCHANGED vars
    BY <2>4 DEF vars, Level, Advance, Entry
  <2> QED BY <2>1, <2>2, <2>3, <2>4 DEF Next, Ideal!Next
<1> QED BY <1>1, <1>2, TypeCorrect, PTL DEF Spec, Ideal!Spec

-----------------------------------------------------------------------------
(* The rate over any window. *)

(* Why the bound holds: what was let through since a granted request, together
   with what the bucket still holds, was either in the bucket then or has
   flowed in since. *)
WindowInv ==
  \A k \in Keys : \A i \in 1..Len(grants[k]) :
     /\ grants[k][i] <= now
     /\ Since(k, i) * PerToken + Level(k) <= Cap + (now - grants[k][i])

\* One more request costs one more PerToken.
LEMMA OneMore ==
  ASSUME NEW n \in Nat
  PROVE  (n + 1) * PerToken = n * PerToken + PerToken
BY RateAssumption

\* A level that rises no faster than the clock leaves the bound intact.
LEMMA StillWithin ==
  ASSUME NEW cap \in Nat, NEW spent \in Nat, NEW from \in Nat,
         NEW then \in Nat, NEW later \in Nat, NEW had \in Nat, NEW has \in Nat,
         from <= then, spent + had <= cap + (then - from),
         later >= then, has - had <= later - then
  PROVE  from <= later /\ spent + has <= cap + (later - from)
OBVIOUS

LEMMA SinceTyped ==
  ASSUME TypeOK, NEW k \in Keys, NEW i \in 1..Len(grants[k])
  PROVE  /\ Since(k, i) \in Nat
         /\ Since(k, i) * PerToken \in Nat
         /\ grants[k][i] \in Nat
<1>1. grants[k] \in Seq(Nat) /\ Len(grants[k]) \in Nat /\ PerToken \in Nat
  BY RateAssumption DEF TypeOK
<1>2. Since(k, i) \in Nat /\ grants[k][i] \in Nat
  BY <1>1 DEF Since
<1> QED BY <1>1, <1>2

(* An address is never let through more often than its burst plus one request
   per PerToken ticks, over any window that starts with a granted request and
   across any number of evictions by cleanupLoop. *)
THEOREM RateIsBounded == Spec => []WindowBound
<1>1. Init => WindowInv
  BY DEF Init, WindowInv
<1>2. TypeOK /\ TypeOK' /\ WindowInv /\ [Next]_vars => WindowInv'
  <2> SUFFICES ASSUME TypeOK, TypeOK', WindowInv, [Next]_vars,
                      NEW k \in Keys, NEW i \in 1..Len(grants[k])'
               PROVE  (/\ grants[k][i] <= now
                       /\ Since(k, i) * PerToken + Level(k) <= Cap + (now - grants[k][i]))'
    BY DEF WindowInv
  <2>0. Cap \in Nat /\ PerToken \in Nat \ {0} /\ now \in Nat /\ Level(k) \in 0..Cap
    BY LevelTyped, RateAssumption DEF TypeOK
  <2>1. ASSUME grants'[k] = grants[k], now' >= now, now' \in Nat,
               Level(k)' \in Nat, Level(k)' - Level(k) <= now' - now
        PROVE  (/\ grants[k][i] <= now
                /\ Since(k, i) * PerToken + Level(k) <= Cap + (now - grants[k][i]))'
    <3>1. i \in 1..Len(grants[k]) /\ Since(k, i)' = Since(k, i)
      BY <2>1 DEF Since
    <3>2. /\ grants[k][i] <= now
          /\ Since(k, i) * PerToken + Level(k) <= Cap + (now - grants[k][i])
      BY <3>1 DEF WindowInv
    <3>3. Since(k, i) * PerToken \in Nat /\ grants[k][i] \in Nat
      BY <3>1, SinceTyped
    <3> DEFINE c == Since(k, i) * PerToken
               g == grants[k][i]
    <3>4. c' = c /\ g' = g
      BY <2>1, <3>1
    <3>5. c \in Nat /\ g \in Nat /\ g <= now /\ c + Level(k) <= Cap + (now - g)
      BY <3>2, <3>3
    <3> HIDE DEF c, g
    <3>6. g <= now' /\ c + Level(k)' <= Cap + (now' - g)
      <4>1. Level(k) \in Nat
        BY <2>0
      <4> QED BY <2>0, <2>1, <3>5, <4>1, StillWithin
    <3> QED BY <3>4, <3>6 DEF c, g
  <2>2. CASE Tick
    <3>1. Level(k)' = IF Level(k) < Cap THEN Level(k) + 1 ELSE Cap
      BY <2>2, TickLevel
    <3>2. now' = now + 1 /\ grants'[k] = grants[k]
      BY <2>2 DEF Tick
    <3>3. now' >= now /\ now' \in Nat /\ Level(k)' \in Nat /\ Level(k)' - Level(k) <= now' - now
      BY <2>0, <3>1, <3>2
    <3> QED BY <2>1, <3>2, <3>3
  <2>3. CASE Sweep
    <3>1. Level(k)' = Level(k) /\ now' = now /\ grants'[k] = grants[k]
      BY <2>3, SweepLevel DEF Sweep
    <3>2. now' >= now /\ now' \in Nat /\ Level(k)' \in Nat /\ Level(k)' - Level(k) <= now' - now
      BY <2>0, <3>1
    <3> QED BY <2>1, <3>1, <3>2
  <2>4. ASSUME NEW j \in Keys, Allow(j)
        PROVE  (/\ grants[k][i] <= now
                /\ Since(k, i) * PerToken + Level(k) <= Cap + (now - grants[k][i]))'
    <3>1. /\ now' = now
          /\ Level(k)' = IF k = j /\ Affords(j) THEN Level(j) - PerToken ELSE Level(k)
      BY <2>4, AllowLevel DEF Allow, Answer
    <3>2. CASE ~(k = j /\ Affords(j))
      <4>1. grants'[k] = grants[k]
        BY <2>4, <3>2 DEF Allow, Answer, TypeOK
      <4>2. now' >= now /\ now' \in Nat /\ Level(k)' \in Nat /\ Level(k)' - Level(k) <= now' - now
        BY <2>0, <3>1, <3>2
      <4> QED BY <2>1, <4>1, <4>2
    <3>3. CASE k = j /\ Affords(j)
      <4>1. grants'[k] = Append(grants[k], now)
        BY <2>4, <3>3 DEF Allow, Answer, TypeOK
      <4>2. grants[k] \in Seq(Nat)
        BY DEF TypeOK
      <4>3. Level(k)' = Level(k) - PerToken
        BY <3>1, <3>3
      <4>4. /\ Len(grants'[k]) = Len(grants[k]) + 1
            /\ grants'[k][Len(grants[k]) + 1] = now
            /\ \A m \in 1..Len(grants[k]) : grants'[k][m] = grants[k][m]
        BY <4>1, <4>2
      <4>5. CASE i = Len(grants[k]) + 1
        <5>1. Since(k, i)' = 1
          BY <4>2, <4>4, <4>5 DEF Since
        <5>2. grants'[k][i] = now
          BY <4>4, <4>5
        <5>3. 1 * PerToken + (Level(k) - PerToken) <= Cap + (now - now)
          BY <2>0
        <5> QED BY <2>0, <3>1, <4>3, <5>1, <5>2, <5>3
      <4>6. CASE i # Len(grants[k]) + 1
        <5>1. i \in 1..Len(grants[k])
          BY <4>2, <4>4, <4>6
        <5>2. /\ Since(k, i) \in Nat /\ Since(k, i) * PerToken \in Nat /\ grants[k][i] \in Nat
          BY <5>1, SinceTyped
        <5>3. Since(k, i)' = Since(k, i) + 1
          BY <4>2, <4>4, <5>1 DEF Since
        <5>4. /\ grants[k][i] <= now
              /\ Since(k, i) * PerToken + Level(k) <= Cap + (now - grants[k][i])
          BY <5>1 DEF WindowInv
        <5>5. grants'[k][i] = grants[k][i]
          BY <4>4, <5>1
        <5>6. (Since(k, i) * PerToken)' = Since(k, i) * PerToken + PerToken
          BY <5>2, <5>3, OneMore
        <5> DEFINE c == Since(k, i) * PerToken
                   g == grants[k][i]
        <5>7. /\ c \in Nat /\ g \in Nat /\ g <= now /\ c + Level(k) <= Cap + (now - g)
              /\ c' = c + PerToken /\ g' = g
          BY <5>2, <5>4, <5>5, <5>6
        <5> HIDE DEF c, g
        <5>8. g' <= now' /\ c' + Level(k)' <= Cap + (now' - g')
          BY <2>0, <3>1, <4>3, <5>7
        <5> QED BY <5>8 DEF c, g
      <4> QED BY <4>5, <4>6
    <3> QED BY <3>2, <3>3
  <2>5. CASE UNCHANGED vars
    <3>1. Level(k)' = Level(k) /\ now' = now /\ grants'[k] = grants[k]
      BY <2>5 DEF vars, Level, Advance, Entry
    <3>2. now' >= now /\ now' \in Nat /\ Level(k)' \in Nat /\ Level(k)' - Level(k) <= now' - now
      BY <2>0, <3>1
    <3> QED BY <2>1, <3>1, <3>2
  <2> QED BY <2>2, <2>3, <2>4, <2>5 DEF Next
<1>3. TypeOK /\ WindowInv => WindowBound
  <2> SUFFICES ASSUME TypeOK, WindowInv, NEW k \in Keys, NEW i \in 1..Len(grants[k])
               PROVE  Since(k, i) * PerToken <= Cap + (now - grants[k][i])
    BY DEF WindowBound
  <2>1. /\ grants[k][i] <= now
        /\ Since(k, i) * PerToken + Level(k) <= Cap + (now - grants[k][i])
    BY DEF WindowInv
  <2>2. /\ Cap \in Nat /\ now \in Nat /\ Level(k) \in 0..Cap
        /\ Since(k, i) * PerToken \in Nat /\ grants[k][i] \in Nat
    BY LevelTyped, SinceTyped, RateAssumption DEF TypeOK
  <2> QED BY <2>1, <2>2
<1> QED BY <1>1, <1>2, <1>3, TypeCorrect, PTL DEF Spec

-----------------------------------------------------------------------------
(* The size of the map. *)

\* The next sweep comes soon enough for every entry the last one left behind.
SweepInv == /\ now <= sweepAt
            /\ sweepAt <= now + SweepEvery
            /\ \A k \in Present : sweepAt <= visitors[k].lastSeen + IdleLimit + SweepEvery

(* cleanupLoop keeps the map from growing: with a sweep every SweepEvery
   ticks, no entry is older than IdleLimit + SweepEvery. *)
THEOREM MapIsBounded == Spec => []StaleBound
<1>0. IdleLimit \in Nat /\ SweepEvery \in Nat
  BY RateAssumption
<1>1. Init => SweepInv
  BY <1>0, NoBucketTyped DEF Init, SweepInv, Present
<1>2. TypeOK /\ TypeOK' /\ SweepInv /\ [Next]_vars => SweepInv'
  <2> SUFFICES ASSUME TypeOK, TypeOK', SweepInv, [Next]_vars PROVE SweepInv'
    OBVIOUS
  <2>0. /\ now \in Nat /\ sweepAt \in Nat
        /\ \A k \in Keys : visitors[k].lastSeen \in Nat /\ visitors[k].lastSeen <= now
    BY DEF TypeOK, BucketType
  <2>1. CASE Tick
    BY <1>0, <2>0, <2>1 DEF Tick, SweepInv, Present
  <2>2. CASE Sweep
    <3>1. now' = now /\ sweepAt' = now + SweepEvery
      BY <2>2 DEF Sweep
    <3>2. ASSUME NEW k \in Present'
          PROVE  sweepAt' <= visitors'[k].lastSeen + IdleLimit + SweepEvery
      <4>1. k \in Keys /\ visitors'[k].there
        BY DEF Present
      <4>2. ~Idle(visitors[k]) /\ visitors'[k] = visitors[k]
        BY <2>2, <4>1, NoBucketTyped DEF Sweep
      <4>3. now - visitors[k].lastSeen <= IdleLimit
        BY <1>0, <2>0, <4>1, <4>2 DEF Idle
      <4> QED BY <1>0, <2>0, <3>1, <4>1, <4>2, <4>3
    <3> QED BY <1>0, <2>0, <3>1, <3>2 DEF SweepInv
  <2>3. ASSUME NEW k \in Keys, Allow(k) PROVE SweepInv'
    <3>1. now' = now /\ sweepAt' = sweepAt /\ visitors'[k].lastSeen = now
      BY <2>3, AllowWrites DEF Allow, Answer
    <3>2. \A j \in Keys : j # k => visitors'[j] = visitors[j]
      BY <2>3 DEF Allow, TypeOK
    <3>3. ASSUME NEW j \in Present'
          PROVE  sweepAt' <= visitors'[j].lastSeen + IdleLimit + SweepEvery
      <4>1. CASE j = k
        BY <1>0, <2>0, <3>1, <4>1 DEF SweepInv
      <4>2. CASE j # k
        BY <3>1, <3>2, <4>2 DEF SweepInv, Present
      <4> QED BY <4>1, <4>2
    <3> QED BY <3>1, <3>3 DEF SweepInv
  <2>4. CASE UNCHANGED vars
    BY <2>4 DEF vars, SweepInv, Present
  <2> QED BY <2>1, <2>2, <2>3, <2>4 DEF Next
<1>3. TypeOK /\ SweepInv => StaleBound
  <2> SUFFICES ASSUME TypeOK, SweepInv, NEW k \in Present
               PROVE  now - visitors[k].lastSeen <= IdleLimit + SweepEvery
    BY DEF StaleBound
  <2>1. now \in Nat /\ sweepAt \in Nat /\ visitors[k].lastSeen \in Nat
    BY DEF TypeOK, BucketType, Present
  <2> QED BY <1>0, <2>1 DEF SweepInv
<1> QED BY <1>1, <1>2, <1>3, TypeCorrect, PTL DEF Spec

=============================================================================
