---------------------------- MODULE RateLimiter ----------------------------
(***************************************************************************)
(* RateLimiter (src/policy/rate_limiter.cpp): one token bucket per client, *)
(* filled when it is used, under one lock.  The unit of a bucket is what   *)
(* it earns in one tick of the clock, so a request costs Cost units and    *)
(* the bucket holds at most Burst of them.                                 *)
(***************************************************************************)
EXTENDS Integers, Sequences

CONSTANTS
    Clients,   \* keys: remote addresses
    Burst,     \* burst_size, in ticks of refill
    Cost,      \* ticks of refill that pay for one request
    Enabled,   \* enabled, by the guardrail preset
    MaxClock   \* bound: the clock stops here

ASSUME LimiterAssumption ==
    /\ Cost \in Nat \ {0} /\ Burst \in Nat /\ Burst >= Cost
    /\ Enabled \in BOOLEAN
    /\ MaxClock \in Nat

VARIABLES
    clock,     \* steady_clock
    buckets,   \* per client, its bucket, or NoBucket
    granted    \* history: per client, the times its requests were let in

limiterVars == <<clock, buckets, granted>>

NoBucket == [tokens |-> 0, last |-> 0, known |-> FALSE]

LimiterInit ==
    /\ clock = 0
    /\ buckets = [k \in Clients |-> NoBucket]
    /\ granted = [k \in Clients |-> <<>>]

Tick ==
    /\ clock < MaxClock
    /\ clock' = clock + 1
    /\ UNCHANGED <<buckets, granted>>

Least(a, b) == IF a <= b THEN a ELSE b

\* What a bucket holds now, up to its burst.
Refill(k) == Least(buckets[k].tokens + (clock - buckets[k].last), Burst)

\* A new bucket is full.
Holding(k) == IF buckets[k].known THEN Refill(k) ELSE Burst

Grants(k) == ~Enabled \/ Holding(k) >= Cost

\* Bug: the time of the refill is not noted, so it is earned again.
BugTryAcquire(k) ==
    /\ buckets' = [buckets EXCEPT ![k] =
           [tokens |-> IF Grants(k) THEN Holding(k) - Cost ELSE Holding(k),
            last |-> @.last, known |-> TRUE]]
    /\ granted' = IF Grants(k) THEN [granted EXCEPT ![k] = Append(@, clock)] ELSE granted
    /\ UNCHANGED clock

\* try_acquire.  A limiter that is off keeps no buckets.
TryAcquire(k) ==
    /\ IF Enabled
       THEN buckets' = [buckets EXCEPT ![k] =
                [tokens |-> IF Grants(k) THEN Holding(k) - Cost ELSE Holding(k),
                 last |-> clock, known |-> TRUE]]
       ELSE UNCHANGED buckets
    /\ granted' = IF Grants(k) THEN [granted EXCEPT ![k] = Append(@, clock)] ELSE granted
    /\ UNCHANGED clock

\* reset: the client starts over, with a full bucket.
Reset(k) ==
    /\ buckets' = [buckets EXCEPT ![k] = NoBucket]
    /\ granted' = [granted EXCEPT ![k] = <<>>]
    /\ UNCHANGED clock

\* evict_stale: forgets the buckets that were not used for longer than age.
EvictStale(age) ==
    /\ buckets' = [k \in Clients |->
                      IF buckets[k].known /\ buckets[k].last + age < clock
                      THEN NoBucket ELSE buckets[k]]
    /\ UNCHANGED <<clock, granted>>

\* The server only ever calls try_acquire.  A caller of evict_stale keeps a
\* bucket at least as long as it takes to fill.
LimiterNext ==
    \/ Tick
    \/ \E k \in Clients : TryAcquire(k) \/ Reset(k)
    \/ \E age \in Nat : age >= Burst /\ EvictStale(age)

LimiterSpec == LimiterInit /\ [][LimiterNext]_limiterVars

-----------------------------------------------------------------------------
LimiterTypeOK ==
    /\ clock \in Nat
    /\ buckets \in [Clients -> [tokens : Nat, last : Nat, known : BOOLEAN]]
    /\ granted \in [Clients -> Seq(Nat)]

\* Over any stretch of time a client is let in at most as often as a full
\* bucket and the refill of that time pay for, however its requests, the
\* refills and the removal of idle buckets interleave.
WindowBound ==
    Enabled =>
        \A k \in Clients : \A i \in 1 .. Len(granted[k]) : \A j \in i .. Len(granted[k]) :
            (j - i + 1) * Cost <= Burst + (granted[k][j] - granted[k][i])
=============================================================================
