----------------------------- MODULE RateLimiter -----------------------------
(* The per-address token bucket of internal/web/middleware.go.  A bucket's      *)
(* tokens are counted in fractions of 1/Refill, so one token is Refill units    *)
(* and one unit is earned per unit of time.                                     *)
EXTENDS Integers, Sequences

CONSTANTS
    Addresses,     \* client addresses
    Refill,        \* time to earn one request
    Burst,         \* requests a full bucket holds
    IdleWindow,    \* rateLimiterIdleWindow
    MaxRateTime    \* bound: the last instant of the clock

\* Every limiter of the server refills completely within the idle window.
ASSUME RateAssumption ==
    /\ Refill \in Nat \ {0} /\ Burst \in Nat \ {0} /\ MaxRateTime \in Nat
    /\ IdleWindow \in Nat /\ Burst * Refill <= IdleWindow

VARIABLES
    rateTime,   \* time.Now
    bucket,     \* RateLimiter.clients
    granted     \* history: when each address was let through

rateVars == <<rateTime, bucket, granted>>

\* What n requests are worth.
Worth(n) == n * Refill
NoBucket == [tokens |-> -1, lastCheck |-> 0]

RateInit ==
    /\ rateTime = 0
    /\ bucket = [a \in Addresses |-> NoBucket]
    /\ granted = [a \in Addresses |-> << >>]

\* Variant: a quiet bucket fills without end.
RefilledUncapped(a) == bucket[a].tokens + (rateTime - bucket[a].lastCheck)

\* The bucket after it earned what the time since lastCheck is worth, at most a
\* full bucket.
Refilled(a) ==
    LET earned == bucket[a].tokens + (rateTime - bucket[a].lastCheck)
    IN  IF earned > Worth(Burst) THEN Worth(Burst) ELSE earned

Granted(a, tokens) ==
    /\ bucket' = [bucket EXCEPT ![a] = [tokens |-> tokens, lastCheck |-> rateTime]]
    /\ granted' = [granted EXCEPT ![a] = Append(@, rateTime)]
    /\ UNCHANGED rateTime

\* The first request of an address creates its bucket, one token short of full.
AllowNew(a) == bucket[a] = NoBucket /\ Granted(a, Worth(Burst - 1))

AllowKnown(a) ==
    /\ bucket[a] # NoBucket /\ Refilled(a) >= Refill
    /\ Granted(a, Refilled(a) - Refill)

\* A refusal keeps what was earned.
Refuse(a) ==
    /\ bucket[a] # NoBucket /\ Refilled(a) < Refill
    /\ bucket' = [bucket EXCEPT ![a] = [tokens |-> Refilled(a), lastCheck |-> rateTime]]
    /\ UNCHANGED <<rateTime, granted>>

Allow(a) == AllowNew(a) \/ AllowKnown(a) \/ Refuse(a)

IdleTooLong(a) == bucket[a] # NoBucket /\ rateTime - bucket[a].lastCheck > IdleWindow

\* cleanup forgets the buckets that went quiet.
Cleanup ==
    /\ \E a \in Addresses : IdleTooLong(a)
    /\ bucket' = [a \in Addresses |-> IF IdleTooLong(a) THEN NoBucket ELSE bucket[a]]
    /\ UNCHANGED <<rateTime, granted>>

RateTick ==
    /\ rateTime < MaxRateTime
    /\ rateTime' = rateTime + 1
    /\ UNCHANGED <<bucket, granted>>

RateNext ==
    \/ \E a \in Addresses : Allow(a)
    \/ Cleanup \/ RateTick

RateSpec == RateInit /\ [][RateNext]_rateVars

-----------------------------------------------------------------------------
RateTypeOK ==
    /\ rateTime \in Nat
    /\ bucket \in [Addresses -> [tokens : -1..Worth(Burst), lastCheck : 0..rateTime]]
    /\ granted \in [Addresses -> Seq(Nat)]

\* The promise of NewRateLimiter: whatever window one looks at, an address was
\* let through at most Burst times plus once per Refill, although cleanup forgets
\* buckets and a refusal moves lastCheck.
RateHeld ==
    \A a \in Addresses : \A i, j \in DOMAIN granted[a] :
        i <= j => Worth(j - i + 1) <= Worth(Burst) + (granted[a][j] - granted[a][i])

\* Why it is so: what an address was granted since any of its grants, and what its
\* bucket holds, is covered by a full bucket and the time that has passed.  A bucket
\* is forgotten only once the time alone covers it.
Covered(a, i) ==
    IF bucket[a] = NoBucket THEN Worth(Len(granted[a]) - i + 1) <= rateTime - granted[a][i]
    ELSE Worth(Len(granted[a]) - i + 1) + bucket[a].tokens <= Worth(Burst) + (bucket[a].lastCheck - granted[a][i])

RateInv ==
    /\ RateTypeOK /\ RateHeld
    /\ \A a \in Addresses :
          /\ bucket[a] # NoBucket => bucket[a].tokens >= 0
          /\ \A i \in DOMAIN granted[a] : Covered(a, i)

=============================================================================
