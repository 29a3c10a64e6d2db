------------------------------- MODULE Limiter -------------------------------
(***************************************************************************)
(* The sign-in rate limit (auth.py: RateLimiter, rate_limit_login): a      *)
(* token bucket per client address, in memory.  hit() reads the clock,     *)
(* then waits for the lock; a lot of buckets are pruned by a hit.          *)
(*                                                                         *)
(* The clock counts ticks, and a bucket holds ticks too: one token is what *)
(* refills in Period of them (capacity 10 and rate 1/6 are Capacity 10 and *)
(* Period 6 with ticks of a second).  The names do not clash with those of *)
(* other modules, so that a run may have this one beside another.          *)
(***************************************************************************)
EXTENDS Integers, FiniteSets

CONSTANTS
  Addresses,  \* of clients
  Threads,    \* request threads: hits at the same time
  Capacity, Period,
  Second,     \* ticks: Retry-After counts seconds
  Crowd,      \* 10_000 buckets
  MaxWait,    \* bound: ticks a thread waits for the lock
  MaxClock    \* bound: the clock stops here

ASSUME BucketAssumption == Capacity \in Nat \ {0} /\ Period \in Nat \ {0}
ASSUME ClockAssumption == Second \in Nat \ {0} /\ MaxWait \in Nat /\ MaxClock \in Nat

VARIABLES
  clock,      \* time.monotonic()
  buckets,    \* _buckets, in ticks; NoBucket if there is none
  hits,       \* the address and the `now` of each thread that waits for the lock
  debt,       \* history: what the reference bucket of each address holds
  forgotten,  \* history: how often each bucket was pruned
  promised    \* history: when each address was last told to come back, 0 if not since

limiterVars == <<clock, buckets, hits, debt, forgotten, promised>>

Full == Capacity * Period
NoBucket == [tokens |-> Full, last |-> -1]
NoHit == [address |-> "none", now |-> 0]
Minimum(i, j) == IF i < j THEN i ELSE j

Bucket == [tokens : -MaxWait .. Full, last : 0 .. MaxClock]
Hit == [address : Addresses, now : 0 .. MaxClock]

\* The values of the clock, the buckets, the threads and the histories.
LimiterTypeOK ==
  /\ clock \in 0 .. MaxClock
  /\ buckets \in [Addresses -> Bucket \cup {NoBucket}]
  /\ hits \in [Threads -> Hit \cup {NoHit}]
  /\ debt \in [Addresses -> Nat] /\ forgotten \in [Addresses -> Nat]
  /\ promised \in [Addresses -> Nat]

LimiterInit ==
  /\ clock = 0
  /\ buckets = [a \in Addresses |-> NoBucket]
  /\ hits = [t \in Threads |-> NoHit]
  /\ debt = [a \in Addresses |-> 0]
  /\ forgotten = [a \in Addresses |-> 0]
  /\ promised = [a \in Addresses |-> 0]

-----------------------------------------------------------------------------
(* hit() *)

ReadClock(t, a) ==
  /\ hits[t] = NoHit
  /\ hits' = [hits EXCEPT ![t] = [address |-> a, now |-> clock]]
  /\ UNCHANGED <<clock, buckets, debt, forgotten, promised>>

\* _prune(): a bucket that must have filled up is as good as none.
Expired(b, now) == b # NoBucket /\ now - b.last >= Full

Crowded == Cardinality({a \in Addresses : buckets[a] # NoBucket}) > Crowd
Pruned(now) == IF Crowded THEN {a \in Addresses : Expired(buckets[a], now)} ELSE {}
Kept(now) == [a \in Addresses |-> IF a \in Pruned(now) THEN NoBucket ELSE buckets[a]]

\* What a bucket holds at a time, be it before its last hit.  A defect to test the
\* properties with: it overflows.
RefilledOver(b, now) == IF b = NoBucket THEN Full ELSE b.tokens + (now - b.last)
Refilled(b, now) ==
  IF b = NoBucket THEN Full ELSE Minimum(Full, b.tokens + (now - b.last))

\* int(wait) + 1 seconds after the answer.  A defect to test the properties with: rounded down.
ComeBackRoundedDown(wait) == clock + (wait \div Second) * Second
ComeBack(wait) == clock + (wait \div Second + 1) * Second

\* The rest of hit() under the lock.
Take(t) ==
  LET a == hits[t].address
      now == hits[t].now
      tokens == Refilled(Kept(now)[a], now)
      admitted == tokens >= Period
  IN
  /\ hits[t] # NoHit
  /\ buckets' = [Kept(now) EXCEPT ![a] =
                   [tokens |-> IF admitted THEN tokens - Period ELSE tokens, last |-> now]]
  /\ hits' = [hits EXCEPT ![t] = NoHit]
  /\ debt' = [debt EXCEPT ![a] = IF admitted THEN @ + Period ELSE @]
  /\ forgotten' = [b \in Addresses |->
                     IF b \in Pruned(now) THEN forgotten[b] + 1 ELSE forgotten[b]]
  /\ promised' = [promised EXCEPT ![a] = IF admitted THEN 0 ELSE ComeBack(Period - tokens)]
  /\ UNCHANGED clock

\* A second passes; the reference bucket leaks.
Pass ==
  /\ clock < MaxClock
  /\ \A t \in Threads : hits[t] # NoHit => clock - hits[t].now < MaxWait
  /\ clock' = clock + 1
  /\ debt' = [a \in Addresses |-> IF debt[a] = 0 THEN 0 ELSE debt[a] - 1]
  /\ UNCHANGED <<buckets, hits, forgotten, promised>>

LimiterNext ==
  \/ \E t \in Threads : (\E a \in Addresses : ReadClock(t, a)) \/ Take(t)
  \/ Pass

LimiterSpec == LimiterInit /\ [][LimiterNext]_limiterVars

-----------------------------------------------------------------------------
(* Properties *)

\* "10 attempts in a burst, then one every 6 s, per client address": the reference bucket
\* leaks one tick a tick, and every attempt that is let through pours a token's worth in.  However
\* hits wait for the lock, and read the clock in another order than they get it, it never holds
\* more than a burst and one wait; each time the bucket is forgotten gives away two waits at most.
AttemptsAreBounded ==
  \A a \in Addresses : debt[a] <= Full + MaxWait * (1 + 2 * forgotten[a])

\* Retry-After: a client that comes back when it was told is let in, unless another attempt of
\* its address was let in since - whatever hits that read the clock before it did in between.
RetryAfterIsEnough ==
  [][\A t \in Threads : \A a \in Addresses :
       Take(t) /\ hits[t].address = a /\ promised[a] > 0 /\ hits[t].now >= promised[a]
       => promised'[a] = 0]_limiterVars
=============================================================================
