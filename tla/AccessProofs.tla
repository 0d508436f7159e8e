----------------------------- MODULE AccessProofs ------------------------------
EXTENDS Access, SequenceTheorems, TLAPS

(* Who may sign in and how often anybody may ask, for any number of clients,   *)
(* attempts and password changes.  The token bucket first, then handleLogin    *)
(* and HandleChangeWebPassword, then both together.                            *)

-----------------------------------------------------------------------------
(* The token bucket.                                                           *)

\* What one request more is worth.
LEMMA OneMore ==
    ASSUME NEW n \in Int PROVE Worth(n) \in Int /\ Worth(n + 1) = Worth(n) + Refill
<1>1. Refill \in Int
  BY RateAssumption
<1>. QED BY <1>1 DEF Worth

\* A full bucket refills within the idle window.
LEMMA WorthFacts ==
    /\ Refill \in Nat /\ Refill > 0 /\ Burst \in Nat
    /\ Worth(Burst) \in Nat /\ Worth(Burst - 1) \in Nat /\ Worth(Burst) = Worth(Burst - 1) + Refill
    /\ Worth(1) = Refill
    /\ IdleWindow \in Nat /\ Worth(Burst) <= IdleWindow
<1>1. /\ Refill \in Nat /\ Refill > 0 /\ Burst \in Nat /\ Burst > 0
      /\ IdleWindow \in Nat /\ Worth(Burst) <= IdleWindow
  BY RateAssumption DEF Worth
<1>3. Burst - 1 \in Nat /\ Burst - 1 \in Int /\ (Burst - 1) + 1 = Burst
  BY <1>1
<1>4. Worth(Burst) \in Nat /\ Worth(Burst - 1) \in Nat
  BY <1>1, <1>3 DEF Worth
<1>5. Worth(Burst) = Worth(Burst - 1) + Refill
  BY <1>3, OneMore
<1>6. Worth(1) = Refill
  BY <1>1 DEF Worth
<1>. QED BY <1>1, <1>4, <1>5, <1>6

\* What is known of a bucket and of the grants of its address.
LEMMA BucketFacts ==
    ASSUME RateInv, NEW a \in Addresses
    PROVE  /\ rateTime \in Nat
           /\ bucket[a].tokens \in Int /\ bucket[a].tokens <= Worth(Burst)
           /\ bucket[a].lastCheck \in Nat /\ bucket[a].lastCheck <= rateTime
           /\ bucket[a] # NoBucket => bucket[a].tokens >= 0
           /\ granted[a] \in Seq(Nat) /\ Len(granted[a]) \in Nat
           /\ DOMAIN granted[a] = 1..Len(granted[a])
           /\ \A i \in DOMAIN granted[a] : granted[a][i] \in Nat
<1>1. /\ rateTime \in Nat /\ granted[a] \in Seq(Nat)
      /\ bucket[a] \in [tokens : -1..Worth(Burst), lastCheck : 0..rateTime]
      /\ bucket[a] # NoBucket => bucket[a].tokens >= 0
  BY DEF RateInv, RateTypeOK
<1>2. /\ bucket[a].tokens \in -1..Worth(Burst)
      /\ bucket[a].lastCheck \in 0..rateTime
  BY <1>1
<1>3. Worth(Burst) \in Nat
  BY WorthFacts
<1>4. bucket[a].tokens \in Int /\ bucket[a].tokens <= Worth(Burst)
  BY <1>2, <1>3
<1>5. bucket[a].lastCheck \in Nat /\ bucket[a].lastCheck <= rateTime
  BY <1>1, <1>2
<1>6. /\ Len(granted[a]) \in Nat /\ DOMAIN granted[a] = 1..Len(granted[a])
      /\ \A i \in DOMAIN granted[a] : granted[a][i] \in Nat
  BY <1>1
<1>. QED BY <1>1, <1>4, <1>5, <1>6

\* A bucket never holds more than it earned, nor more than Burst.
LEMMA RefilledFacts ==
    ASSUME RateInv, NEW a \in Addresses, bucket[a] # NoBucket
    PROVE  /\ Refilled(a) \in Nat /\ Refilled(a) <= Worth(Burst)
           /\ Refilled(a) <= bucket[a].tokens + (rateTime - bucket[a].lastCheck)
<1>1. Worth(Burst) \in Nat
  BY WorthFacts
<1>2. /\ bucket[a].tokens \in Nat /\ rateTime \in Nat
      /\ bucket[a].lastCheck \in Nat /\ bucket[a].lastCheck <= rateTime
  BY BucketFacts
<1>. QED BY <1>1, <1>2 DEF Refilled

\* The grants of an address, in the words of RateInv.
LEMMA CoverFacts ==
    ASSUME RateInv, NEW a \in Addresses, NEW i \in DOMAIN granted[a]
    PROVE  /\ Len(granted[a]) - i + 1 \in Int /\ granted[a][i] \in Nat
           /\ Worth(Len(granted[a]) - i + 1) \in Int
           /\ bucket[a] = NoBucket => Worth(Len(granted[a]) - i + 1) <= rateTime - granted[a][i]
           /\ bucket[a] # NoBucket =>
                 Worth(Len(granted[a]) - i + 1) + bucket[a].tokens
                     <= Worth(Burst) + (bucket[a].lastCheck - granted[a][i])
<1>1. Len(granted[a]) - i + 1 \in Int /\ granted[a][i] \in Nat
  BY BucketFacts
<1>2. Worth(Len(granted[a]) - i + 1) \in Int
  BY <1>1, OneMore, Zenon
<1>3. Covered(a, i)
  BY DEF RateInv
<1>. QED BY <1>1, <1>2, <1>3 DEF Covered

\* What it takes to be covered after a step, with a bucket.
LEMMA CoveredNext ==
    ASSUME NEW a, NEW i, bucket'[a] # NoBucket,
           Worth(Len(granted'[a]) - i + 1) + bucket'[a].tokens
               <= Worth(Burst) + (bucket'[a].lastCheck - granted'[a][i])
    PROVE  Covered(a, i)'
  BY DEF Covered, NoBucket

\* A grant: the address has one more, its bucket is what is left.
LEMMA GrantedStep ==
    ASSUME RateInv, NEW a \in Addresses, NEW t \in Nat, Granted(a, t),
           t + Refill <= Worth(Burst),
           \A i \in DOMAIN granted[a] :
               Worth(Len(granted[a]) - i + 1) + t + Refill <= Worth(Burst) + (rateTime - granted[a][i])
    PROVE  RateInv'
<1>. DEFINE g == granted[a]
            n == Len(g)
            h == Append(g, rateTime)
<1>1. /\ rateTime \in Nat /\ g \in Seq(Nat) /\ n \in Nat /\ DOMAIN g = 1..n
      /\ \A i \in 1..n : g[i] \in Nat
  BY BucketFacts
<1>2. /\ h \in Seq(Nat) /\ Len(h) = n + 1 /\ DOMAIN h = 1..(n + 1) /\ h[n + 1] = rateTime
      /\ \A i \in 1..n : h[i] = g[i]
  BY <1>1
<1>3. /\ rateTime' = rateTime
      /\ bucket'[a] = [tokens |-> t, lastCheck |-> rateTime] /\ granted'[a] = h
      /\ \A b \in Addresses \ {a} : bucket'[b] = bucket[b] /\ granted'[b] = granted[b]
      /\ bucket' \in [Addresses -> [tokens : -1..Worth(Burst), lastCheck : 0..rateTime]]
      /\ granted' \in [Addresses -> Seq(Nat)]
  <2>1. t \in -1..Worth(Burst)
    BY WorthFacts
  <2>2. rateTime \in 0..rateTime
    BY <1>1
  <2>. QED BY <1>2, <2>1, <2>2 DEF Granted, RateInv, RateTypeOK
<1>. HIDE DEF h
<1>4. RateTypeOK'
  BY <1>1, <1>3 DEF RateTypeOK
<1>5. bucket'[a].tokens = t /\ bucket'[a].lastCheck = rateTime /\ bucket'[a] # NoBucket
  BY <1>3 DEF NoBucket
<1>6. ASSUME NEW i \in 1..(n + 1)
      PROVE  Worth(n + 1 - i + 1) \in Int /\ Worth(n + 1 - i + 1) + t <= Worth(Burst) + (rateTime - h[i])
  <2>1. CASE i = n + 1
    <3>1. n + 1 - i + 1 = 1
      BY <1>1, <2>1
    <3>2. h[i] = rateTime /\ rateTime - h[i] = 0
      BY <1>1, <1>2, <2>1
    <3>3. Worth(1) = Refill /\ Refill \in Nat /\ Worth(Burst) \in Nat
      BY WorthFacts
    <3>4. Worth(n + 1 - i + 1) = Refill
      BY <3>1, <3>3
    <3>. QED BY <3>2, <3>3, <3>4
  <2>2. CASE i \in 1..n
    <3>1. Worth(n - i + 1) + t + Refill <= Worth(Burst) + (rateTime - g[i])
      BY <1>1, <2>2, Zenon
    <3>2. n - i + 1 \in Int /\ n + 1 - i + 1 = (n - i + 1) + 1
      BY <1>1
    <3>3. Worth(n + 1 - i + 1) = Worth(n - i + 1) + Refill /\ Worth(n - i + 1) \in Int
      BY <3>2, OneMore, Zenon
    <3>5. h[i] = g[i] /\ g[i] \in Nat
      BY <1>1, <1>2, <2>2, Zenon
    <3>6. Refill \in Nat /\ Worth(Burst) \in Nat
      BY WorthFacts
    <3>7. Worth(n + 1 - i + 1) \in Int
      BY <3>3, <3>6
    <3>8. Worth(n + 1 - i + 1) + t = Worth(n - i + 1) + t + Refill
      BY <3>3, <3>6
    <3>. QED BY <3>1, <3>5, <3>7, <3>8
  <2>. QED BY <1>1, <2>1, <2>2
<1>7. \A b \in Addresses : /\ bucket'[b] # NoBucket => bucket'[b].tokens >= 0
                           /\ \A i \in DOMAIN granted'[b] : Covered(b, i)'
  <2>1. \A b \in Addresses \ {a} : /\ bucket'[b] # NoBucket => bucket'[b].tokens >= 0
                                   /\ \A i \in DOMAIN granted'[b] : Covered(b, i)'
    BY <1>3, Zenon DEF RateInv, Covered
  <2>2. \A i \in DOMAIN granted'[a] : Covered(a, i)'
    <3>. SUFFICES ASSUME NEW i \in 1..(n + 1) PROVE Covered(a, i)'
      BY <1>2, <1>3
    <3>1. Len(granted'[a]) = n + 1 /\ granted'[a][i] = h[i]
      BY <1>2, <1>3
    <3>2. Worth(Len(granted'[a]) - i + 1) + bucket'[a].tokens
              <= Worth(Burst) + (bucket'[a].lastCheck - granted'[a][i])
      BY <1>5, <1>6, <3>1
    <3>. QED BY <1>5, <3>2, CoveredNext
  <2>. QED BY <1>5, <2>1, <2>2
<1>8. RateHeld'
  <2>. SUFFICES ASSUME NEW i \in 1..(n + 1), NEW j \in 1..(n + 1), i <= j
                PROVE  Worth(j - i + 1) <= Worth(Burst) + (h[j] - h[i])
    BY <1>2, <1>3, Zenon DEF RateHeld, RateInv
  <2>1. CASE j = n + 1
    <3>3. h[i] \in Nat
      BY <1>2
    <3>4. Worth(Burst) \in Nat
      BY WorthFacts
    <3>5. Worth(j - i + 1) \in Int /\ Worth(j - i + 1) + t <= Worth(Burst) + (rateTime - h[i]) /\ h[j] = rateTime
      BY <1>2, <1>6, <2>1
    <3>. QED BY <1>1, <3>3, <3>4, <3>5
  <2>2. CASE j # n + 1
    <3>1. i \in 1..n /\ j \in 1..n
      <4>. n \in Nat
        BY <1>1
      <4>. HIDE DEF n
      <4>. QED BY ONLY n \in Nat, i \in 1..(n + 1), j \in 1..(n + 1), i <= j, <2>2
    <3>2. Worth(j - i + 1) <= Worth(Burst) + (g[j] - g[i])
      BY <1>1, <3>1, Zenon DEF RateInv, RateHeld
    <3>. QED BY <1>2, <3>1, <3>2, Zenon
  <2>. QED BY <2>1, <2>2
<1>. QED BY <1>4, <1>7, <1>8 DEF RateInv

\* Sums of the quantities above.
LEMMA NewCovered ==
    ASSUME NEW w \in Int, NEW less \in Nat, NEW full \in Nat, NEW one \in Nat, full = less + one,
           NEW now \in Nat, NEW then \in Nat, w <= now - then
    PROVE  w + less + one <= full + (now - then)
  OBVIOUS
LEMMA RefilledCovered ==
    ASSUME NEW w \in Int, NEW had \in Int, NEW has \in Nat, NEW full \in Nat, NEW now \in Nat, NEW last \in Nat,
           NEW then \in Nat, w + had <= full + (last - then), has <= had + (now - last)
    PROVE  w + has <= full + (now - then)
  OBVIOUS
LEMMA ForgottenCovered ==
    ASSUME NEW w \in Int, NEW had \in Nat, NEW full \in Nat, NEW now \in Nat, NEW last \in Nat, NEW then \in Nat,
           w + had <= full + (last - then), full < now - last
    PROVE  w <= now - then
  OBVIOUS

\* RateLimiter.Allow.
LEMMA AllowStep ==
    ASSUME RateInv, NEW a \in Addresses, Allow(a) PROVE RateInv'
<1>0. /\ rateTime \in Nat /\ Refill \in Nat /\ Worth(Burst) \in Nat /\ Worth(Burst - 1) \in Nat
      /\ Worth(Burst) = Worth(Burst - 1) + Refill
      /\ bucket[a].tokens \in Int /\ bucket[a].lastCheck \in Nat
  BY WorthFacts, BucketFacts
<1>1. CASE AllowNew(a)
  <2>1. bucket[a] = NoBucket /\ Granted(a, Worth(Burst - 1))
    BY <1>1 DEF AllowNew
  <2>2. Worth(Burst - 1) + Refill <= Worth(Burst)
    BY <1>0
  <2>3. ASSUME NEW i \in DOMAIN granted[a]
        PROVE  Worth(Len(granted[a]) - i + 1) + Worth(Burst - 1) + Refill <= Worth(Burst) + (rateTime - granted[a][i])
    BY <1>0, <2>1, CoverFacts, NewCovered, Zenon
  <2>. QED BY <1>0, <2>1, <2>2, <2>3, GrantedStep
<1>2. CASE AllowKnown(a)
  <2>1. bucket[a] # NoBucket /\ Refilled(a) >= Refill /\ Granted(a, Refilled(a) - Refill)
    BY <1>2 DEF AllowKnown
  <2>2. /\ Refilled(a) \in Nat /\ Refilled(a) <= Worth(Burst)
        /\ Refilled(a) <= bucket[a].tokens + (rateTime - bucket[a].lastCheck)
    BY <2>1, RefilledFacts
  <2>3. /\ Refilled(a) - Refill \in Nat
        /\ (Refilled(a) - Refill) + Refill = Refilled(a)
        /\ (Refilled(a) - Refill) + Refill <= Worth(Burst)
    BY <1>0, <2>1, <2>2
  <2>4. ASSUME NEW i \in DOMAIN granted[a]
        PROVE  Worth(Len(granted[a]) - i + 1) + (Refilled(a) - Refill) + Refill
                   <= Worth(Burst) + (rateTime - granted[a][i])
    <3>1. /\ Worth(Len(granted[a]) - i + 1) \in Int /\ granted[a][i] \in Nat
          /\ Worth(Len(granted[a]) - i + 1) + bucket[a].tokens <= Worth(Burst) + (bucket[a].lastCheck - granted[a][i])
      BY <2>1, CoverFacts
    <3>2. Worth(Len(granted[a]) - i + 1) + Refilled(a) <= Worth(Burst) + (rateTime - granted[a][i])
      BY <1>0, <2>2, <3>1, RefilledCovered, Zenon
    <3>3. Worth(Len(granted[a]) - i + 1) + (Refilled(a) - Refill) + Refill = Worth(Len(granted[a]) - i + 1) + Refilled(a)
      BY <1>0, <2>2, <3>1
    <3>. QED BY <3>2, <3>3
  <2>. QED BY <2>1, <2>3, <2>4, GrantedStep
<1>3. CASE Refuse(a)
  <2>1. /\ bucket[a] # NoBucket /\ UNCHANGED <<rateTime, granted>>
        /\ bucket' = [bucket EXCEPT ![a] = [tokens |-> Refilled(a), lastCheck |-> rateTime]]
    BY <1>3 DEF Refuse
  <2>2. /\ Refilled(a) \in Nat /\ Refilled(a) <= Worth(Burst)
        /\ Refilled(a) <= bucket[a].tokens + (rateTime - bucket[a].lastCheck)
    BY <2>1, RefilledFacts
  <2>3. Refilled(a) \in -1..Worth(Burst) /\ rateTime \in 0..rateTime
    BY <1>0, <2>2
  <2>4. /\ bucket' \in [Addresses -> [tokens : -1..Worth(Burst), lastCheck : 0..rateTime]]
        /\ bucket'[a] = [tokens |-> Refilled(a), lastCheck |-> rateTime]
        /\ \A b \in Addresses \ {a} : bucket'[b] = bucket[b]
    BY <2>1, <2>3 DEF RateInv, RateTypeOK
  <2>5. bucket'[a].tokens = Refilled(a) /\ bucket'[a].lastCheck = rateTime /\ bucket'[a] # NoBucket
    BY <2>2, <2>4 DEF NoBucket
  <2>6. RateTypeOK' /\ RateHeld'
    BY <2>1, <2>4 DEF RateInv, RateTypeOK, RateHeld
  <2>7. ASSUME NEW i \in DOMAIN granted'[a] PROVE Covered(a, i)'
    <3>0. i \in DOMAIN granted[a] /\ granted'[a] = granted[a]
      BY <2>1
    <3>1. /\ Worth(Len(granted[a]) - i + 1) \in Int /\ granted[a][i] \in Nat
          /\ Worth(Len(granted[a]) - i + 1) + bucket[a].tokens <= Worth(Burst) + (bucket[a].lastCheck - granted[a][i])
      BY <2>1, <3>0, CoverFacts
    <3>2. Worth(Len(granted[a]) - i + 1) + Refilled(a) <= Worth(Burst) + (rateTime - granted[a][i])
      BY <1>0, <2>2, <3>1, RefilledCovered, Zenon
    <3>3. Worth(Len(granted'[a]) - i + 1) + bucket'[a].tokens
              <= Worth(Burst) + (bucket'[a].lastCheck - granted'[a][i])
      BY <2>5, <3>0, <3>2
    <3>. QED BY <2>5, <3>3, CoveredNext
  <2>8. \A b \in Addresses \ {a} : /\ bucket'[b] # NoBucket => bucket'[b].tokens >= 0
                                   /\ \A i \in DOMAIN granted'[b] : Covered(b, i)'
    BY <2>1, <2>4 DEF RateInv, Covered
  <2>9. bucket'[a].tokens >= 0
    BY <2>2, <2>5
  <2>. QED BY <2>6, <2>7, <2>8, <2>9 DEF RateInv
<1>. QED BY <1>1, <1>2, <1>3 DEF Allow

\* Time passes; cleanup forgets what time alone covers.
LEMMA QuietStep ==
    ASSUME RateInv, Cleanup \/ RateTick PROVE RateInv'
<1>1. /\ granted' = granted /\ rateTime' \in Nat /\ rateTime \in Nat /\ rateTime <= rateTime'
      /\ \A a \in Addresses : \/ bucket'[a] = bucket[a]
                              \/ /\ bucket'[a] = NoBucket /\ bucket[a] # NoBucket /\ rateTime' = rateTime
                                 /\ rateTime - bucket[a].lastCheck > IdleWindow
      /\ DOMAIN bucket' = Addresses /\ bucket' = [a \in Addresses |-> bucket'[a]]
  BY DEF Cleanup, RateTick, IdleTooLong, RateInv, RateTypeOK
<1>2. ASSUME NEW a \in Addresses
      PROVE  /\ bucket'[a] \in [tokens : -1..Worth(Burst), lastCheck : 0..rateTime']
             /\ bucket'[a] # NoBucket => bucket'[a].tokens >= 0
  <2>1. NoBucket \in [tokens : -1..Worth(Burst), lastCheck : 0..rateTime']
    <3>1. -1 \in -1..Worth(Burst) /\ 0 \in 0..rateTime'
      BY <1>1, WorthFacts
    <3>. QED BY <3>1 DEF NoBucket
  <2>2. bucket[a] \in [tokens : -1..Worth(Burst), lastCheck : 0..rateTime']
    <3>1. bucket[a] \in [tokens : -1..Worth(Burst), lastCheck : 0..rateTime]
      BY DEF RateInv, RateTypeOK
    <3>2. \A n \in 0..rateTime : n \in 0..rateTime'
      BY <1>1
    <3>. QED BY <3>1, <3>2
  <2>. QED BY <1>1, <2>1, <2>2 DEF RateInv
<1>3. RateTypeOK' /\ RateHeld'
  BY <1>1, <1>2 DEF RateInv, RateTypeOK, RateHeld
<1>4. ASSUME NEW a \in Addresses, NEW i \in DOMAIN granted'[a] PROVE Covered(a, i)'
  <2>0. i \in DOMAIN granted[a] /\ granted'[a] = granted[a]
    BY <1>1
  <2>1. /\ Worth(Len(granted[a]) - i + 1) \in Int /\ granted[a][i] \in Nat
        /\ bucket[a] = NoBucket => Worth(Len(granted[a]) - i + 1) <= rateTime - granted[a][i]
        /\ bucket[a] # NoBucket =>
              Worth(Len(granted[a]) - i + 1) + bucket[a].tokens
                  <= Worth(Burst) + (bucket[a].lastCheck - granted[a][i])
    BY <2>0, CoverFacts
  <2>2. CASE bucket'[a] = NoBucket
    <3>1. Worth(Len(granted[a]) - i + 1) <= rateTime' - granted[a][i]
      <4>1. CASE bucket[a] = NoBucket
        BY <1>1, <2>1, <4>1
      <4>2. CASE bucket[a] # NoBucket
        <5>1. rateTime' = rateTime /\ rateTime - bucket[a].lastCheck > IdleWindow
          BY <1>1, <2>2, <4>2
        <5>2. /\ bucket[a].tokens \in Nat /\ bucket[a].lastCheck \in Nat
              /\ Worth(Burst) \in Nat /\ IdleWindow \in Nat /\ Worth(Burst) <= IdleWindow
          BY <4>2, BucketFacts, WorthFacts
        <5>3. Worth(Burst) < rateTime - bucket[a].lastCheck
          BY <1>1, <5>1, <5>2
        <5>. QED BY <1>1, <2>1, <4>2, <5>1, <5>2, <5>3, ForgottenCovered, Zenon
      <4>. QED BY <4>1, <4>2
    <3>2. Worth(Len(granted'[a]) - i + 1) <= rateTime' - granted'[a][i]
      BY <2>0, <3>1
    <3>. QED BY <2>2, <3>2 DEF Covered
  <2>3. CASE bucket'[a] # NoBucket
    <3>1. bucket'[a] = bucket[a]
      BY <1>1, <2>3
    <3>3. Worth(Len(granted'[a]) - i + 1) + bucket'[a].tokens
              <= Worth(Burst) + (bucket'[a].lastCheck - granted'[a][i])
      BY <2>0, <2>1, <2>3, <3>1
    <3>. QED BY <2>3, <3>3, CoveredNext
  <2>. QED BY <2>2, <2>3
<1>. QED BY <1>2, <1>3, <1>4 DEF RateInv

\* The promise of NewRateLimiter, for any rate, burst and idle window in which a
\* bucket refills: in every stretch of time an address is let through at most
\* Burst times plus once per Refill, whatever cleanup forgets.
THEOREM RateIsHeld == RateSpec => []RateHeld
<1>1. RateInit => RateInv
  <2>. SUFFICES ASSUME RateInit PROVE RateInv
    OBVIOUS
  <2>1. -1 \in -1..Worth(Burst) /\ 0 \in 0..0 /\ 0 \in Nat
    BY WorthFacts
  <2>2. NoBucket \in [tokens : -1..Worth(Burst), lastCheck : 0..0]
    BY <2>1 DEF NoBucket
  <2>3. << >> \in Seq(Nat) /\ DOMAIN << >> = {}
    OBVIOUS
  <2>4. RateTypeOK
    BY <2>1, <2>2, <2>3 DEF RateInit, RateTypeOK
  <2>5. RateHeld
    BY <2>3 DEF RateInit, RateHeld
  <2>. QED BY <2>3, <2>4, <2>5 DEF RateInit, RateInv
<1>2. RateInv /\ [RateNext]_rateVars => RateInv'
  <2>. SUFFICES ASSUME RateInv, [RateNext]_rateVars PROVE RateInv'
    OBVIOUS
  <2>1. CASE UNCHANGED rateVars
    BY <2>1 DEF rateVars, RateInv, RateTypeOK, RateHeld, Covered
  <2>. QED BY <2>1, AllowStep, QuietStep DEF RateNext
<1>3. RateInv => RateHeld
  BY DEF RateInv
<1>. QED BY <1>1, <1>2, <1>3, PTL DEF RateSpec

-----------------------------------------------------------------------------
(* handleLogin and HandleChangeWebPassword.                                    *)

LEMMA LoginConstants ==
    /\ Threshold \in Nat /\ Threshold > 0 /\ LockoutBase \in Nat /\ LockoutMax \in Nat /\ LockoutMax >= 1
    /\ IdleReset \in Nat /\ BudgetSpacing \in Nat /\ BudgetMaxWait \in Nat /\ MaxTime \in Nat
    /\ DurationBits \in Nat /\ DurationBits > 0 /\ LockoutMax < 2^(DurationBits - 1)
    /\ Nobody \notin LoginClients
<1>1. \A n \in {Threshold, LockoutBase, BudgetFailures, BudgetSpacing, DurationBits} : n \in Nat \ {0}
  BY LoginAssumption
<1>2. \A n \in {LockoutMax, IdleReset, BudgetWindow, BudgetMaxWait, MaxTime, MaxRestarts} : n \in Nat
  BY LoginAssumption
<1>3. LockoutBase \in Nat \ {0} /\ LockoutMax \in Nat /\ LockoutBase <= LockoutMax
  BY <1>1, <1>2, LoginAssumption
<1>. QED BY <1>1, <1>2, <1>3, LoginAssumption

\* The lockout is positive and at most the maximum, overflow or not.
LEMMA LockoutFacts ==
    ASSUME NEW n \in Nat, n >= Threshold
    PROVE  Lockout(n) \in Nat /\ Lockout(n) >= 1 /\ Lockout(n) <= LockoutMax
<1>. DEFINE half == 2^(DurationBits - 1)
            raw == LockoutBase * 2^(n - Threshold)
<1>1. DurationBits - 1 \in Nat /\ n - Threshold \in Nat /\ LockoutMax \in Nat /\ LockoutMax >= 1
  BY LoginConstants
<1>2. half \in Int /\ half > LockoutMax
  BY <1>1, LoginConstants
<1>3. raw \in Int
  <2>1. 2^(n - Threshold) \in Int
    BY <1>1
  <2>. QED BY <2>1, LoginConstants
<1>4. Wrapped(raw) \in Int
  <2>. HIDE DEF half, raw
  <2>1. 2 * half \in Nat /\ 2 * half > 0
    BY <1>1, <1>2
  <2>2. raw % (2 * half) \in Int
    BY <1>3, <2>1
  <2>3. Wrapped(raw) = IF raw % (2 * half) >= half THEN (raw % (2 * half)) - 2 * half ELSE raw % (2 * half)
    BY DEF Wrapped, half
  <2>. QED BY <1>2, <2>1, <2>2, <2>3
<1>5. Lockout(n) = IF Wrapped(raw) > LockoutMax \/ Wrapped(raw) <= 0 THEN LockoutMax ELSE Wrapped(raw)
  BY DEF Lockout
<1>. HIDE DEF raw
<1>. QED BY <1>1, <1>4, <1>5

\* A request that is over.
LEMMA IdleRequests ==
    /\ NoAttempt \in AttemptType /\ NoAttempt.pc = "new"
    /\ [NoAttempt EXCEPT !.pc = "done"] \in AttemptType /\ [NoAttempt EXCEPT !.pc = "done"].pc = "done"
    /\ NoChange \in ChangeType /\ NoChange.pc = "new"
    /\ [NoChange EXCEPT !.pc = "done"] \in ChangeType /\ [NoChange EXCEPT !.pc = "done"].pc = "done"
  BY DEF NoAttempt, NoChange, AttemptType, ChangeType

\* One login moves.
LEMMA AttemptMoves ==
    ASSUME LoginInv, NEW r \in Logins, NEW v \in AttemptType, attempt' = [attempt EXCEPT ![r] = v]
    PROVE  /\ attempt' \in [Logins -> AttemptType]
           /\ attempt'[r] = v
           /\ \A q \in Logins : q # r => attempt'[q] = attempt[q]
  BY DEF LoginInv

\* Its fields.
LEMMA AttemptFields ==
    ASSUME LoginInv, NEW r \in Logins
    PROVE  /\ attempt[r] \in AttemptType /\ attempt[r].slot \in Nat
           /\ attempt[r].pc \in {"new", "checked", "waiting", "comparing", "done"}
           /\ attempt[r].pc \in {"checked", "waiting", "comparing"} => attempt[r].ip \in LoginClients
<1>1. attempt[r] \in AttemptType
  BY DEF LoginInv
<1>. QED BY <1>1 DEF LoginInv, GuardInv, AttemptType

\* While no record changes, time only unlocks.
LEMMA GuardKept ==
    ASSUME LoginInv, UNCHANGED loginGuard, loginTime' \in Nat, loginTime <= loginTime'
    PROVE  /\ loginGuard' = [c \in LoginClients |-> loginGuard'[c]]
           /\ \A c \in LoginClients : RecordInv(loginGuard[c])'
           /\ \A c \in LoginClients : Locked(c)' => Locked(c)
<1>1. ASSUME NEW c \in LoginClients
      PROVE  RecordInv(loginGuard[c])' /\ (Locked(c)' => Locked(c))
  <2>1. /\ RecordInv(loginGuard[c]) /\ loginTime \in Nat /\ IdleReset \in Nat
        /\ loginGuard[c].lastSeen \in Int /\ loginGuard[c].lockedUntil \in Nat
    BY LoginConstants DEF LoginInv, GuardInv, RecordInv
  <2>2. RecordInv(loginGuard[c])'
    BY <2>1 DEF RecordInv
  <2>3. Locked(c)' => Locked(c)
    BY <2>1 DEF Locked, Known, LoginQuiet
  <2>. QED BY <2>2, <2>3
<1>. QED BY <1>1 DEF LoginInv, GuardInv

\* What one login does leaves the sessions justified, as long as it reads today's
\* hash and becomes a session only by what it read.
LEMMA SessionsKept ==
    ASSUME LoginInv, NEW r \in Logins, NEW v \in AttemptType, attempt' = [attempt EXCEPT ![r] = v],
           UNCHANGED <<authHash, keptSession, loginOverlap>>,
           \A s \in sessions' : \/ s \in sessions /\ s # r
                                \/ s = r /\ v.pc = "done" /\ (v.seen = authHash \/ r \in loginOverlap),
           v.pc = "comparing" => v.seen = authHash
    PROVE  sessions' \subseteq Logins /\ SessionInv' /\ SessionsJustified'
<1>1. attempt'[r] = v /\ \A q \in Logins : q # r => attempt'[q] = attempt[q]
  BY AttemptMoves, Zenon
<1>2. sessions \subseteq Logins /\ SessionInv /\ SessionsJustified
  BY DEF LoginInv
<1>3. sessions' \subseteq Logins
  BY <1>2
<1>4. SessionInv'
  BY <1>1, <1>2, <1>3 DEF SessionInv
<1>5. SessionsJustified'
  BY <1>1, <1>2, <1>3 DEF SessionsJustified
<1>. QED BY <1>3, <1>4, <1>5

LEMMA HashesKept ==
    ASSUME LoginInv, UNCHANGED <<passwordChange, authHash, cfgHash, savedHash, disturbed>>
    PROVE  /\ passwordChange' \in [PasswordChanges -> ChangeType] /\ HashInv'
           /\ authHash' \in Passwords /\ cfgHash' \in Passwords /\ savedHash' \in Passwords /\ disturbed' \in BOOLEAN
  BY DEF LoginInv, HashInv, Changing

\* Who waits waits for the slot it was given, and time only shortens the wait.
LEMMA SlotsKept ==
    ASSUME LoginInv, UNCHANGED <<nextSlot, slots>>, loginTime' \in Nat, loginTime <= loginTime',
           \A q \in Logins : attempt'[q].pc = "waiting" =>
               attempt[q].pc = "waiting" /\ attempt'[q].slot = attempt[q].slot
    PROVE  SlotInv' /\ SlotsSpaced'
<1>1. SlotInv /\ SlotsSpaced /\ loginTime \in Nat /\ BudgetMaxWait \in Nat
  BY LoginConstants DEF LoginInv
<1>2. SlotInv'
  BY <1>1 DEF SlotInv
<1>3. ASSUME NEW q \in Logins, attempt'[q].pc = "waiting"
      PROVE  attempt'[q].slot <= loginTime' + BudgetMaxWait
  <2>1. /\ attempt'[q].slot = attempt[q].slot /\ attempt[q].slot \in Nat
        /\ attempt[q].slot <= loginTime + BudgetMaxWait
    BY <1>1, <1>3, AttemptFields DEF SlotsSpaced
  <2>. QED BY <1>1, <2>1
<1>4. SlotsSpaced'
  BY <1>1, <1>3 DEF SlotsSpaced
<1>. QED BY <1>2, <1>4

\* While no address becomes locked, nobody new has to be excused.
LEMMA LocksKept ==
    ASSUME LoginInv, overtaken' = overtaken,
           loginGuard' = [c \in LoginClients |-> loginGuard'[c]],
           \A c \in LoginClients : RecordInv(loginGuard[c])' /\ (Locked(c)' => Locked(c)),
           \A q \in Logins : attempt'[q].pc \in {"checked", "waiting", "comparing"} =>
               \/ attempt[q].pc \in {"checked", "waiting", "comparing"} /\ attempt'[q].ip = attempt[q].ip
               \/ attempt'[q].ip \in LoginClients /\ ~Locked(attempt[q].ip)'
    PROVE  GuardInv' /\ LockedIsNotChecked'
<1>1. ASSUME NEW q \in Logins, attempt'[q].pc \in {"checked", "waiting", "comparing"}
      PROVE  attempt'[q].ip \in LoginClients /\ (Locked(attempt[q].ip)' => q \in overtaken')
  <2>1. CASE attempt'[q].ip \in LoginClients /\ ~Locked(attempt[q].ip)'
    BY <2>1
  <2>2. CASE attempt[q].pc \in {"checked", "waiting", "comparing"} /\ attempt'[q].ip = attempt[q].ip
    <3>1. attempt[q].ip \in LoginClients
      BY <2>2, AttemptFields
    <3>2. Locked(attempt[q].ip) => q \in overtaken
      BY <2>2 DEF LoginInv, LockedIsNotChecked
    <3>3. PICK c \in LoginClients : c = attempt[q].ip /\ c = attempt'[q].ip
      BY <2>2, <3>1
    <3>4. (Locked(attempt[q].ip)' <=> Locked(c)') /\ (Locked(c)' => Locked(c)) /\ (Locked(c) <=> Locked(attempt[q].ip))
      BY <3>3 DEF Locked, Known, LoginQuiet
    <3>. QED BY <3>2, <3>3, <3>4
  <2>. QED BY <1>1, <2>1, <2>2
<1>2. GuardInv'
  BY <1>1 DEF GuardInv
<1>3. LockedIsNotChecked'
  BY <1>1 DEF LockedIsNotChecked
<1>. QED BY <1>2, <1>3

\* One record of the guard moves.
LEMMA RecordMoves ==
    ASSUME LoginInv, NEW c \in LoginClients, NEW rec, RecordInv(rec), UNCHANGED loginTime,
           loginGuard' = [loginGuard EXCEPT ![c] = rec]
    PROVE  /\ loginGuard' = [d \in LoginClients |-> loginGuard'[d]]
           /\ \A d \in LoginClients : RecordInv(loginGuard[d])'
           /\ loginGuard'[c] = rec
           /\ \A d \in LoginClients : d # c => loginGuard'[d] = loginGuard[d]
<1>1. loginGuard = [d \in LoginClients |-> loginGuard[d]] /\ \A d \in LoginClients : RecordInv(loginGuard[d])
  BY DEF LoginInv, GuardInv
<1>2. /\ loginGuard' = [d \in LoginClients |-> loginGuard'[d]] /\ loginGuard'[c] = rec
      /\ \A d \in LoginClients : d # c => loginGuard'[d] = loginGuard[d]
  BY <1>1
<1>3. ASSUME NEW d \in LoginClients PROVE RecordInv(loginGuard[d])'
  <2>1. loginGuard'[d] = rec \/ loginGuard'[d] = loginGuard[d]
    BY <1>2
  <2>. QED BY <1>1, <2>1 DEF RecordInv
<1>. QED BY <1>2, <1>3

LEMMA NoRecordInv == ASSUME LoginInv PROVE RecordInv(NoRecord)
<1>1. NoRecord \in [failures : Nat, lockedUntil : Nat, lastSeen : Int]
  BY DEF NoRecord
<1>2. NoRecord.failures = 0 /\ NoRecord.lockedUntil = 0 /\ NoRecord.lastSeen = -1
  BY DEF NoRecord
<1>3. loginTime \in Nat /\ Threshold \in Nat /\ Threshold > 0
  BY LoginConstants DEF LoginInv
<1>. QED BY <1>1, <1>2, <1>3 DEF RecordInv

\* A record that is dropped, or stays, locks nobody.
LEMMA ForgottenUnlocks ==
    ASSUME LoginInv, UNCHANGED loginTime, NEW c \in LoginClients,
           loginGuard'[c] = NoRecord \/ loginGuard'[c] = loginGuard[c]
    PROVE  Locked(c)' => Locked(c)
  BY DEF Locked, Known, LoginQuiet

\* A request that is answered without a session disturbs nothing.
LEMMA AnsweredStep ==
    ASSUME LoginInv, NEW r \in Logins, Answered(r), UNCHANGED <<loginTime, authHash, keptSession, loginOverlap>>,
           sessions' \subseteq sessions \ {r}, UNCHANGED <<nextSlot, slots>>
    PROVE  /\ attempt' \in [Logins -> AttemptType] /\ attempt'[r].pc = "done"
           /\ \A q \in Logins : q # r => attempt'[q] = attempt[q]
           /\ sessions' \subseteq Logins /\ SessionInv' /\ SessionsJustified' /\ SlotInv' /\ SlotsSpaced'
<1>. DEFINE v == [NoAttempt EXCEPT !.pc = "done"]
<1>1. v \in AttemptType /\ v.pc = "done" /\ attempt' = [attempt EXCEPT ![r] = v]
  BY IdleRequests DEF Answered
<1>. HIDE DEF v
<1>2. /\ attempt' \in [Logins -> AttemptType] /\ attempt'[r] = v
      /\ \A q \in Logins : q # r => attempt'[q] = attempt[q]
  BY <1>1, AttemptMoves, Zenon
<1>3. sessions' \subseteq Logins /\ SessionInv' /\ SessionsJustified'
  <2>1. \A s \in sessions' : s \in sessions /\ s # r
    OBVIOUS
  <2>2. v.pc # "comparing"
    BY <1>1
  <2>. QED BY <1>1, <2>1, <2>2, SessionsKept, Zenon
<1>4. \A q \in Logins : attempt'[q].pc = "waiting" => attempt[q].pc = "waiting" /\ attempt'[q].slot = attempt[q].slot
  BY <1>1, <1>2
<1>5. loginTime' \in Nat /\ loginTime <= loginTime'
  BY DEF LoginInv
<1>6. SlotInv' /\ SlotsSpaced'
  BY <1>4, <1>5, SlotsKept
<1>. QED BY <1>1, <1>2, <1>3, <1>6

\* A login under way is not a session yet.
LEMMA NoSessionYet ==
    ASSUME LoginInv, NEW r \in Logins, attempt[r].pc # "done" PROVE r \notin sessions
  BY DEF LoginInv, SessionInv

\* LockedFor.
LEMMA LockedForStep ==
    ASSUME LoginInv, NEW r \in Logins, NEW c \in LoginClients, NEW p \in Passwords, LockedFor(r, c, p)
    PROVE  LoginInv'
<1>0. /\ attempt[r].pc = "new" /\ r \notin sessions
      /\ UNCHANGED <<loginTime, passwordChange, sessions, authHash, cfgHash, savedHash, budgetFailures, nextSlot,
                     keptSession, loginOverlap, overtaken, slots, disturbed>>
  BY NoSessionYet DEF LockedFor, credentials, loginHistory
<1>1. HashInv' /\ passwordChange' \in [PasswordChanges -> ChangeType] /\ disturbed' \in BOOLEAN
      /\ authHash' \in Passwords /\ cfgHash' \in Passwords /\ savedHash' \in Passwords /\ loginTime' \in Nat
  BY <1>0, HashesKept DEF LoginInv
<1>2. PICK rec : /\ RecordInv(rec) /\ loginGuard' = [loginGuard EXCEPT ![c] = rec]
                 /\ rec = NoRecord \/ rec = loginGuard[c]
  <2>1. RecordInv(loginGuard[c]) /\ RecordInv(NoRecord)
    BY NoRecordInv DEF LoginInv, GuardInv
  <2>. QED BY <2>1, Zenon DEF LockedFor
<1>3. /\ loginGuard' = [d \in LoginClients |-> loginGuard'[d]]
      /\ \A d \in LoginClients : RecordInv(loginGuard[d])'
      /\ \A d \in LoginClients : loginGuard'[d] = NoRecord \/ loginGuard'[d] = loginGuard[d]
  BY <1>0, <1>2, RecordMoves, Zenon
<1>4. \A d \in LoginClients : Locked(d)' => Locked(d)
  BY <1>0, <1>3, ForgottenUnlocks
<1>5. CASE Locked(c)
  <2>1. Answered(r) /\ sessions' \subseteq sessions \ {r}
    BY <1>0, <1>5 DEF LockedFor
  <2>2. /\ attempt' \in [Logins -> AttemptType] /\ attempt'[r].pc = "done"
        /\ \A q \in Logins : q # r => attempt'[q] = attempt[q]
        /\ sessions' \subseteq Logins /\ SessionInv' /\ SessionsJustified' /\ SlotInv' /\ SlotsSpaced'
    BY <1>0, <2>1, AnsweredStep, Zenon
  <2>3. GuardInv' /\ LockedIsNotChecked'
    BY <1>0, <1>3, <1>4, <2>2, LocksKept
  <2>. QED BY <1>1, <2>2, <2>3 DEF LoginInv
<1>6. CASE ~Locked(c)
  <2>. DEFINE v == [attempt[r] EXCEPT !.pc = "checked", !.ip = c, !.password = p]
  <2>1. attempt[r] \in AttemptType
    BY AttemptFields, Zenon
  <2>2. v \in AttemptType /\ v.pc = "checked" /\ v.ip = c
    BY <2>1, Zenon DEF AttemptType
  <2>3. attempt' = [attempt EXCEPT ![r] = v]
    BY <1>6, Zenon DEF LockedFor, LoginInv
  <2>. HIDE DEF v
  <2>4. /\ attempt' \in [Logins -> AttemptType] /\ attempt'[r] = v
        /\ \A q \in Logins : q # r => attempt'[q] = attempt[q]
    BY <2>2, <2>3, AttemptMoves, Zenon
  <2>5. sessions' \subseteq Logins /\ SessionInv' /\ SessionsJustified'
    BY <1>0, <2>2, <2>3, SessionsKept, Zenon
  <2>6. \A q \in Logins : attempt'[q].pc = "waiting" => attempt[q].pc = "waiting" /\ attempt'[q].slot = attempt[q].slot
    BY <2>2, <2>4
  <2>7. SlotInv' /\ SlotsSpaced'
    <3>1. loginTime' \in Nat /\ loginTime <= loginTime'
      BY <1>0 DEF LoginInv
    <3>. QED BY <1>0, <2>6, <3>1, SlotsKept
  <2>8. attempt'[r].ip = c /\ ~Locked(attempt[r].ip)'
    <3>1. ~Locked(c)'
      BY <1>4, <1>6
    <3>2. attempt'[r].ip = c
      BY <2>2, <2>4
    <3>. QED BY <3>1, <3>2 DEF Locked, Known, LoginQuiet
  <2>9. GuardInv' /\ LockedIsNotChecked'
    BY <1>0, <1>3, <1>4, <2>4, <2>8, LocksKept
  <2>. QED BY <1>1, <2>4, <2>5, <2>7, <2>9 DEF LoginInv
<1>. QED BY <1>5, <1>6

\* A login moves on for the address it came from.
LEMMA OnItsWay ==
    ASSUME LoginInv, NEW r \in Logins, NEW v \in AttemptType, attempt' = [attempt EXCEPT ![r] = v],
           \/ v.pc = "done"
           \/ attempt[r].pc \in {"checked", "waiting", "comparing"} /\ v.ip = attempt[r].ip,
           UNCHANGED <<loginTime, loginGuard, overtaken>>
    PROVE  GuardInv' /\ LockedIsNotChecked'
<1>1. attempt'[r] = v /\ \A q \in Logins : q # r => attempt'[q] = attempt[q]
  BY AttemptMoves, Zenon
<1>2. loginTime' \in Nat /\ loginTime <= loginTime'
  BY DEF LoginInv
<1>3. /\ loginGuard' = [c \in LoginClients |-> loginGuard'[c]]
      /\ \A c \in LoginClients : RecordInv(loginGuard[c])' /\ (Locked(c)' => Locked(c))
  BY <1>2, GuardKept
<1>4. \A q \in Logins : attempt'[q].pc \in {"checked", "waiting", "comparing"} =>
          attempt[q].pc \in {"checked", "waiting", "comparing"} /\ attempt'[q].ip = attempt[q].ip
  BY <1>1
<1>. QED BY <1>3, <1>4, LocksKept

\* Reserve.
LEMMA ReserveStep ==
    ASSUME LoginInv, NEW r \in Logins, Reserve(r) PROVE LoginInv'
<1>0. /\ attempt[r].pc = "checked" /\ r \notin sessions
      /\ UNCHANGED <<loginTime, passwordChange, sessions, authHash, cfgHash, savedHash, loginGuard,
                     keptSession, loginOverlap, overtaken, disturbed>>
  BY NoSessionYet DEF Reserve, credentials
<1>1. /\ HashInv' /\ passwordChange' \in [PasswordChanges -> ChangeType] /\ disturbed' \in BOOLEAN
      /\ authHash' \in Passwords /\ cfgHash' \in Passwords /\ savedHash' \in Passwords /\ loginTime' \in Nat
  BY <1>0, HashesKept DEF LoginInv
<1>2. /\ loginTime \in Nat /\ nextSlot \in Nat /\ BudgetMaxWait \in Nat /\ BudgetSpacing \in Nat
      /\ SlotStart \in Nat /\ SlotStart >= nextSlot
  BY LoginConstants DEF LoginInv, SlotInv, SlotStart
<1>3. CASE Answered(r) /\ UNCHANGED <<nextSlot, slots>>
  <2>1. sessions' \subseteq sessions \ {r}
    BY <1>0
  <2>2. /\ attempt' \in [Logins -> AttemptType] /\ attempt'[r].pc = "done"
        /\ sessions' \subseteq Logins /\ SessionInv' /\ SessionsJustified' /\ SlotInv' /\ SlotsSpaced'
    BY <1>0, <1>3, <2>1, AnsweredStep
  <2>3. GuardInv' /\ LockedIsNotChecked'
    BY <1>0, <1>3, IdleRequests, OnItsWay, Zenon DEF Answered
  <2>. QED BY <1>1, <2>2, <2>3 DEF LoginInv
<1>4. ASSUME NEW n \in Nat, n <= loginTime + BudgetMaxWait,
             attempt' = [attempt EXCEPT ![r].pc = "waiting", ![r].slot = n],
             SlotInv', \A a, b \in slots' : a # b => a[2] - b[2] >= BudgetSpacing \/ b[2] - a[2] >= BudgetSpacing
      PROVE  LoginInv'
  <2>. DEFINE v == [attempt[r] EXCEPT !.pc = "waiting", !.slot = n]
  <2>1. attempt[r] \in AttemptType
    BY AttemptFields
  <2>2. v \in AttemptType /\ v.pc = "waiting" /\ v.ip = attempt[r].ip /\ v.slot = n
    BY <2>1, Zenon DEF AttemptType
  <2>3. attempt' = [attempt EXCEPT ![r] = v]
    BY <1>4, Zenon DEF LoginInv
  <2>. HIDE DEF v
  <2>4. /\ attempt' \in [Logins -> AttemptType] /\ attempt'[r] = v
        /\ \A q \in Logins : q # r => attempt'[q] = attempt[q]
    BY <2>2, <2>3, AttemptMoves, Zenon
  <2>5. sessions' \subseteq Logins /\ SessionInv' /\ SessionsJustified'
    BY <1>0, <2>2, <2>3, SessionsKept, Zenon
  <2>6. GuardInv' /\ LockedIsNotChecked'
    BY <1>0, <2>2, <2>3, OnItsWay, Zenon
  <2>7. \A q \in Logins : attempt'[q].pc = "waiting" => attempt'[q].slot <= loginTime' + BudgetMaxWait
    BY <1>0, <1>4, <2>2, <2>4 DEF LoginInv, SlotsSpaced
  <2>8. SlotsSpaced'
    BY <1>4, <2>7, Zenon DEF SlotsSpaced
  <2>. QED BY <1>1, <1>4, <2>4, <2>5, <2>6, <2>8 DEF LoginInv
<1>5. CASE attempt' = [attempt EXCEPT ![r].pc = "waiting", ![r].slot = loginTime] /\ UNCHANGED <<nextSlot, slots>>
  <2>1. loginTime <= loginTime + BudgetMaxWait
    BY <1>2
  <2>2. SlotInv' /\ \A a, b \in slots' : a # b => a[2] - b[2] >= BudgetSpacing \/ b[2] - a[2] >= BudgetSpacing
    BY <1>5 DEF LoginInv, SlotInv, SlotsSpaced
  <2>. QED BY <1>2, <1>4, <1>5, <2>1, <2>2, Zenon
<1>6. CASE /\ SlotStart - loginTime <= BudgetMaxWait
           /\ nextSlot' = SlotStart + BudgetSpacing /\ slots' = slots \cup {<<r, SlotStart>>}
           /\ attempt' = [attempt EXCEPT ![r].pc = "waiting", ![r].slot = SlotStart]
  <2>1. SlotStart <= loginTime + BudgetMaxWait
    BY <1>2, <1>6
  <2>2. ASSUME NEW a \in slots PROVE a \in Logins \X Nat /\ a[2] \in Nat /\ a[2] + BudgetSpacing <= SlotStart
    <3>1. a \in Logins \X Nat /\ a[2] + BudgetSpacing <= nextSlot
      BY DEF LoginInv, SlotInv
    <3>2. a[2] \in Nat
      BY <3>1
    <3>. QED BY <1>2, <3>1, <3>2
  <2>3. SlotInv'
    <3>1. nextSlot' \in Nat /\ slots' \subseteq Logins \X Nat
      BY <1>2, <1>6, <2>2
    <3>2. ASSUME NEW a \in slots' PROVE a[2] + BudgetSpacing <= nextSlot'
      <4>1. CASE a \in slots
        BY <1>2, <1>6, <2>2, <4>1
      <4>2. CASE a = <<r, SlotStart>>
        BY <1>2, <1>6, <4>2
      <4>. QED BY <1>6, <4>1, <4>2
    <3>. QED BY <3>1, <3>2 DEF SlotInv
  <2>4. ASSUME NEW a \in slots', NEW b \in slots', a # b
        PROVE  a[2] - b[2] >= BudgetSpacing \/ b[2] - a[2] >= BudgetSpacing
    <3>1. CASE a \in slots /\ b \in slots
      BY <2>4, <3>1 DEF LoginInv, SlotsSpaced
    <3>2. CASE a \in slots /\ b = <<r, SlotStart>>
      BY <1>2, <2>2, <3>2
    <3>3. CASE b \in slots /\ a = <<r, SlotStart>>
      BY <1>2, <2>2, <3>3
    <3>. QED BY <1>6, <2>4, <3>1, <3>2, <3>3
  <2>. QED BY <1>2, <1>4, <1>6, <2>1, <2>3, <2>4, Zenon
<1>. QED BY <1>3, <1>5, <1>6 DEF Reserve

\* GivesUp, VerifyRead.
LEMMA GivesUpStep ==
    ASSUME LoginInv, NEW r \in Logins, GivesUp(r) PROVE LoginInv'
<1>0. /\ attempt[r].pc = "waiting" /\ Answered(r) /\ sessions' \subseteq sessions \ {r}
      /\ UNCHANGED <<loginTime, passwordChange, sessions, authHash, cfgHash, savedHash, loginGuard, nextSlot,
                     keptSession, loginOverlap, overtaken, slots, disturbed>>
  BY NoSessionYet DEF GivesUp, credentials, loginLimits, loginHistory
<1>1. /\ HashInv' /\ passwordChange' \in [PasswordChanges -> ChangeType] /\ disturbed' \in BOOLEAN
      /\ authHash' \in Passwords /\ cfgHash' \in Passwords /\ savedHash' \in Passwords /\ loginTime' \in Nat
  BY <1>0, HashesKept DEF LoginInv
<1>2. /\ attempt' \in [Logins -> AttemptType]
      /\ sessions' \subseteq Logins /\ SessionInv' /\ SessionsJustified' /\ SlotInv' /\ SlotsSpaced'
  BY <1>0, AnsweredStep, Zenon
<1>3. GuardInv' /\ LockedIsNotChecked'
  BY <1>0, IdleRequests, OnItsWay, Zenon DEF Answered
<1>. QED BY <1>1, <1>2, <1>3 DEF LoginInv

LEMMA VerifyReadStep ==
    ASSUME LoginInv, NEW r \in Logins, VerifyRead(r) PROVE LoginInv'
<1>0. /\ attempt[r].pc = "waiting" /\ r \notin sessions
      /\ attempt' = [attempt EXCEPT ![r].pc = "comparing", ![r].seen = authHash]
      /\ UNCHANGED <<loginTime, passwordChange, sessions, authHash, cfgHash, savedHash, loginGuard, nextSlot,
                     keptSession, loginOverlap, overtaken, slots, disturbed>>
  BY NoSessionYet DEF VerifyRead, credentials, loginLimits, loginHistory
<1>1. /\ HashInv' /\ passwordChange' \in [PasswordChanges -> ChangeType] /\ disturbed' \in BOOLEAN
      /\ authHash' \in Passwords /\ cfgHash' \in Passwords /\ savedHash' \in Passwords /\ loginTime' \in Nat
  BY <1>0, HashesKept DEF LoginInv
<1>. DEFINE v == [attempt[r] EXCEPT !.pc = "comparing", !.seen = authHash]
<1>2. attempt[r] \in AttemptType /\ authHash \in Passwords
  BY AttemptFields DEF LoginInv
<1>3. v \in AttemptType /\ v.pc = "comparing" /\ v.ip = attempt[r].ip /\ v.seen = authHash
  BY <1>2, Zenon DEF AttemptType
<1>4. attempt' = [attempt EXCEPT ![r] = v]
  BY <1>0, Zenon DEF LoginInv
<1>. HIDE DEF v
<1>5. /\ attempt' \in [Logins -> AttemptType] /\ attempt'[r] = v
      /\ \A q \in Logins : q # r => attempt'[q] = attempt[q]
  BY <1>3, <1>4, AttemptMoves, Zenon
<1>6. sessions' \subseteq Logins /\ SessionInv' /\ SessionsJustified'
  BY <1>0, <1>3, <1>4, SessionsKept, Zenon
<1>7. GuardInv' /\ LockedIsNotChecked'
  BY <1>0, <1>3, <1>4, OnItsWay, Zenon
<1>8. SlotInv' /\ SlotsSpaced'
  <2>1. loginTime' \in Nat /\ loginTime <= loginTime'
    BY <1>0 DEF LoginInv
  <2>2. \A q \in Logins : attempt'[q].pc = "waiting" => attempt[q].pc = "waiting" /\ attempt'[q].slot = attempt[q].slot
    BY <1>3, <1>5
  <2>. QED BY <1>0, <2>1, <2>2, SlotsKept, Zenon
<1>. QED BY <1>1, <1>5, <1>6, <1>7, <1>8 DEF LoginInv

\* What loginGuard.RecordFailure leaves: one failure more, seen now, locked for what
\* that earns.  The record it starts from is the one on file, or a new one.
LEMMA FailedFacts ==
    ASSUME LoginInv, NEW c \in LoginClients
    PROVE  /\ RecordInv(Failed(c))
           /\ \E rec : /\ RecordInv(rec) /\ (rec = NoRecord \/ (rec = loginGuard[c] /\ ~LoginQuiet(c)))
                       /\ rec = NoRecord => ~Known(c) \/ LoginQuiet(c)
                       /\ Failed(c).failures = rec.failures + 1 /\ Failed(c).lastSeen = loginTime
                       /\ Failed(c).lockedUntil = IF rec.failures + 1 < Threshold THEN rec.lockedUntil
                                                  ELSE loginTime + Lockout(rec.failures + 1)
<1>. DEFINE rec == IF ~Known(c) \/ LoginQuiet(c) THEN NoRecord ELSE loginGuard[c]
<1>1. RecordInv(rec) /\ (rec = NoRecord \/ (rec = loginGuard[c] /\ ~LoginQuiet(c)))
                     /\ (rec = NoRecord => ~Known(c) \/ LoginQuiet(c))
  BY NoRecordInv DEF LoginInv, GuardInv, Known
<1>2. Failed(c) = [failures |-> rec.failures + 1, lastSeen |-> loginTime,
                   lockedUntil |-> IF rec.failures + 1 < Threshold THEN rec.lockedUntil
                                   ELSE loginTime + Lockout(rec.failures + 1)]
  BY DEF Failed
<1>. HIDE DEF rec
<1>3. /\ Failed(c).failures = rec.failures + 1 /\ Failed(c).lastSeen = loginTime
      /\ Failed(c).lockedUntil = IF rec.failures + 1 < Threshold THEN rec.lockedUntil
                                 ELSE loginTime + Lockout(rec.failures + 1)
  BY <1>2
<1>4. RecordInv(Failed(c))
  <2>1. /\ rec.failures \in Nat /\ rec.lockedUntil \in Nat
        /\ rec.failures < Threshold => rec.lockedUntil = 0
    BY <1>1 DEF RecordInv
  <2>2. loginTime \in Nat /\ Threshold \in Nat /\ rec.failures + 1 \in Nat
    BY <2>1, LoginConstants DEF LoginInv
  <2>3. rec.failures + 1 >= Threshold => Lockout(rec.failures + 1) \in Nat
    BY <2>2, LockoutFacts
  <2>4. Failed(c).lockedUntil = IF rec.failures + 1 < Threshold THEN 0 ELSE loginTime + Lockout(rec.failures + 1)
    BY <1>3, <2>1, <2>2
  <2>5. Failed(c).lockedUntil \in Nat
    BY <2>2, <2>3, <2>4
  <2>6. Failed(c) \in [failures : Nat, lockedUntil : Nat, lastSeen : Int]
    <3>1. Failed(c) = [failures |-> Failed(c).failures, lastSeen |-> Failed(c).lastSeen,
                       lockedUntil |-> Failed(c).lockedUntil]
      BY <1>2
    <3>2. Failed(c).failures \in Nat /\ Failed(c).lastSeen \in Int
      BY <1>3, <2>2
    <3>. QED BY <2>5, <3>1, <3>2
  <2>. QED BY <1>3, <2>2, <2>4, <2>6 DEF RecordInv
<1>. QED BY <1>1, <1>3, <1>4

\* Both RecordFailures.
LEMMA RecordFailureStep ==
    ASSUME LoginInv, NEW r \in Logins, RecordFailure(r) PROVE LoginInv'
<1>0. /\ attempt[r].pc = "comparing" /\ Answered(r) /\ sessions' \subseteq sessions \ {r}
      /\ UNCHANGED <<loginTime, passwordChange, sessions, authHash, cfgHash, savedHash, nextSlot,
                     keptSession, loginOverlap, slots, disturbed>>
  BY NoSessionYet, Zenon DEF RecordFailure, credentials
<1>1. /\ HashInv' /\ passwordChange' \in [PasswordChanges -> ChangeType] /\ disturbed' \in BOOLEAN
      /\ authHash' \in Passwords /\ cfgHash' \in Passwords /\ savedHash' \in Passwords /\ loginTime' \in Nat
  BY <1>0, HashesKept DEF LoginInv
<1>2. /\ attempt' \in [Logins -> AttemptType] /\ attempt'[r].pc = "done"
      /\ \A q \in Logins : q # r => attempt'[q] = attempt[q]
      /\ sessions' \subseteq Logins /\ SessionInv' /\ SessionsJustified' /\ SlotInv' /\ SlotsSpaced'
  BY <1>0, AnsweredStep, Zenon
<1>3. PICK c \in LoginClients : c = attempt[r].ip
  BY <1>0, AttemptFields, Zenon
<1>4. /\ loginGuard' = [loginGuard EXCEPT ![c] = Failed(c)]
      /\ overtaken' = IF Failed(c).lockedUntil <= loginTime THEN overtaken
                      ELSE overtaken \cup {q \in Logins : attempt[q].ip = c /\ attempt[q].pc \notin {"new", "done"}}
  BY <1>3 DEF RecordFailure
<1>5. /\ loginGuard' = [d \in LoginClients |-> loginGuard'[d]] /\ \A d \in LoginClients : RecordInv(loginGuard[d])'
      /\ loginGuard'[c] = Failed(c) /\ \A d \in LoginClients : d # c => loginGuard'[d] = loginGuard[d]
  BY <1>0, <1>4, FailedFacts, RecordMoves, Zenon
<1>6. ASSUME NEW q \in Logins, attempt'[q].pc \in {"checked", "waiting", "comparing"}
      PROVE  attempt'[q].ip \in LoginClients /\ (Locked(attempt[q].ip)' => q \in overtaken')
  <2>1. q # r /\ attempt'[q] = attempt[q] /\ attempt[q].pc \in {"checked", "waiting", "comparing"}
    BY <1>2, <1>6
  <2>2. attempt[q].ip \in LoginClients
    BY <2>1, AttemptFields
  <2>3. CASE attempt[q].ip = c
    <3>1. SUFFICES ASSUME Locked(attempt[q].ip)' PROVE q \in overtaken'
      BY <2>1, <2>2
    <3>2. Failed(c).lockedUntil > loginTime
      BY <1>0, <1>5, <2>1, <2>3, <3>1 DEF Locked
    <3>3. Failed(c).lockedUntil \in Nat /\ loginTime \in Nat
      BY FailedFacts DEF RecordInv, LoginInv
    <3>4. ~(Failed(c).lockedUntil <= loginTime)
      BY <3>2, <3>3
    <3>. QED BY <1>4, <2>1, <2>3, <3>4
  <2>4. CASE attempt[q].ip # c
    <3>1. Locked(attempt[q].ip)' => Locked(attempt[q].ip)
      BY <1>0, <1>5, <2>1, <2>2, <2>4 DEF Locked, Known, LoginQuiet
    <3>2. Locked(attempt[q].ip) => q \in overtaken
      BY <2>1 DEF LoginInv, LockedIsNotChecked
    <3>. QED BY <1>4, <2>1, <2>2, <3>1, <3>2
  <2>. QED BY <2>3, <2>4
<1>7. GuardInv' /\ LockedIsNotChecked'
  BY <1>5, <1>6 DEF GuardInv, LockedIsNotChecked
<1>. QED BY <1>1, <1>2, <1>7 DEF LoginInv

\* RecordSuccess and Auth.Login.
LEMMA LoginStep ==
    ASSUME LoginInv, NEW r \in Logins, Login(r) PROVE LoginInv'
<1>0. /\ attempt[r].pc = "comparing" /\ r \notin sessions
      /\ UNCHANGED <<loginTime, passwordChange, authHash, cfgHash, savedHash, nextSlot,
                     keptSession, loginOverlap, overtaken, slots, disturbed>>
  BY NoSessionYet DEF Login, loginHistory
<1>1. /\ HashInv' /\ passwordChange' \in [PasswordChanges -> ChangeType] /\ disturbed' \in BOOLEAN
      /\ authHash' \in Passwords /\ cfgHash' \in Passwords /\ savedHash' \in Passwords
      /\ loginTime' \in Nat /\ loginTime <= loginTime'
  BY <1>0, HashesKept DEF LoginInv
<1>2. PICK c \in LoginClients : c = attempt[r].ip
  BY <1>0, AttemptFields
<1>3. /\ loginGuard' = [d \in LoginClients |-> loginGuard'[d]] /\ \A d \in LoginClients : RecordInv(loginGuard[d])'
      /\ \A d \in LoginClients : loginGuard'[d] = NoRecord \/ loginGuard'[d] = loginGuard[d]
  <2>1. loginGuard' = [loginGuard EXCEPT ![c] = NoRecord]
    BY <1>2 DEF Login, RecordSuccess
  <2>. QED BY <1>0, <2>1, NoRecordInv, RecordMoves, Zenon
<1>4. \A d \in LoginClients : Locked(d)' => Locked(d)
  BY <1>0, <1>3, ForgottenUnlocks
<1>5. PICK v \in AttemptType : /\ v.pc = "done" /\ attempt' = [attempt EXCEPT ![r] = v]
                               /\ \/ sessions' = sessions \cup {r} /\ v.seen = attempt[r].seen
                                  \/ sessions' = sessions
  <2>1. CASE Answered(r) /\ UNCHANGED sessions
    BY <2>1, IdleRequests, Zenon DEF Answered
  <2>2. CASE /\ sessions' = sessions \cup {r}
             /\ attempt' = [attempt EXCEPT ![r] = [NoAttempt EXCEPT !.pc = "done", !.seen = attempt[r].seen]]
    <3>1. attempt[r] \in AttemptType
      BY AttemptFields
    <3>2. /\ [NoAttempt EXCEPT !.pc = "done", !.seen = attempt[r].seen] \in AttemptType
          /\ [NoAttempt EXCEPT !.pc = "done", !.seen = attempt[r].seen].pc = "done"
          /\ [NoAttempt EXCEPT !.pc = "done", !.seen = attempt[r].seen].seen = attempt[r].seen
      BY <3>1, Zenon DEF NoAttempt, AttemptType
    <3>. QED BY <2>2, <3>2, Zenon
  <2>. QED BY <2>1, <2>2 DEF Login
<1>6. /\ attempt' \in [Logins -> AttemptType] /\ attempt'[r] = v
      /\ \A q \in Logins : q # r => attempt'[q] = attempt[q]
  BY <1>5, AttemptMoves, Zenon
<1>7. attempt[r].seen = authHash \/ r \in loginOverlap
  BY <1>0 DEF LoginInv, SessionInv
<1>8. sessions' \subseteq Logins /\ SessionInv' /\ SessionsJustified'
  <2>1. \A s \in sessions' : \/ s \in sessions /\ s # r
                             \/ s = r /\ v.pc = "done" /\ (v.seen = authHash \/ r \in loginOverlap)
    BY <1>0, <1>5, <1>7
  <2>2. v.pc # "comparing"
    BY <1>5
  <2>. QED BY <1>0, <1>5, <2>1, <2>2, SessionsKept, Zenon
<1>9. SlotInv' /\ SlotsSpaced'
  <2>1. \A q \in Logins : attempt'[q].pc = "waiting" => attempt[q].pc = "waiting" /\ attempt'[q].slot = attempt[q].slot
    BY <1>5, <1>6
  <2>. QED BY <1>0, <1>1, <2>1, SlotsKept, Zenon
<1>10. GuardInv' /\ LockedIsNotChecked'
  <2>1. \A q \in Logins : attempt'[q].pc \in {"checked", "waiting", "comparing"} =>
            attempt[q].pc \in {"checked", "waiting", "comparing"} /\ attempt'[q].ip = attempt[q].ip
    BY <1>5, <1>6
  <2>. QED BY <1>0, <1>3, <1>4, <2>1, LocksKept
<1>. QED BY <1>1, <1>6, <1>8, <1>9, <1>10 DEF LoginInv

\* Auth.Logout.
LEMMA LogoutStep ==
    ASSUME LoginInv, NEW r \in Logins, Logout(r) PROVE LoginInv'
<1>0. /\ Answered(r) /\ sessions' \subseteq sessions \ {r}
      /\ UNCHANGED <<loginTime, passwordChange, authHash, cfgHash, savedHash, loginGuard, nextSlot,
                     keptSession, loginOverlap, overtaken, slots, disturbed>>
  BY DEF Logout, loginLimits, loginHistory
<1>1. /\ HashInv' /\ passwordChange' \in [PasswordChanges -> ChangeType] /\ disturbed' \in BOOLEAN
      /\ authHash' \in Passwords /\ cfgHash' \in Passwords /\ savedHash' \in Passwords /\ loginTime' \in Nat
  BY <1>0, HashesKept DEF LoginInv
<1>2. /\ attempt' \in [Logins -> AttemptType]
      /\ sessions' \subseteq Logins /\ SessionInv' /\ SessionsJustified' /\ SlotInv' /\ SlotsSpaced'
  BY <1>0, AnsweredStep
<1>3. GuardInv' /\ LockedIsNotChecked'
  BY <1>0, IdleRequests, OnItsWay, Zenon DEF Answered
<1>. QED BY <1>1, <1>2, <1>3 DEF LoginInv

\* One password change moves; the logins and the guard do not.
LEMMA ChangeMoves ==
    ASSUME LoginInv, NEW k \in PasswordChanges, NEW v \in ChangeType,
           passwordChange' = [passwordChange EXCEPT ![k] = v]
    PROVE  /\ passwordChange' \in [PasswordChanges -> ChangeType] /\ passwordChange'[k] = v
           /\ \A l \in PasswordChanges : l # k => passwordChange'[l] = passwordChange[l]
  BY DEF LoginInv

LEMMA ChangeFields ==
    ASSUME LoginInv, NEW k \in PasswordChanges
    PROVE  /\ passwordChange[k] \in ChangeType
           /\ passwordChange[k].pc \in {"new", "hashed", "changed", "saved", "done"}
           /\ passwordChange[k].new \in Passwords \cup {Nobody}
<1>1. passwordChange[k] \in ChangeType
  BY DEF LoginInv
<1>. QED BY <1>1 DEF ChangeType

\* Which changes run, once one of them has moved to v.
LEMMA ChangingNext ==
    ASSUME LoginInv, NEW k \in PasswordChanges, NEW v \in ChangeType,
           passwordChange' = [passwordChange EXCEPT ![k] = v]
    PROVE  Changing' = IF v.pc \in {"new", "done"} THEN Changing \ {k} ELSE Changing \cup {k}
  BY ChangeMoves, Zenon DEF Changing

\* A change that moves on, or ends.
LEMMA ChangeGoesOn ==
    ASSUME LoginInv, NEW k \in Changing, NEW v \in ChangeType, passwordChange' = [passwordChange EXCEPT ![k] = v],
           v.pc \in {"hashed", "changed", "saved"}, v.new = passwordChange[k].new, UNCHANGED disturbed,
           ~disturbed =>
               /\ v.pc = "hashed" => authHash' = cfgHash' /\ cfgHash' = savedHash'
               /\ v.pc = "changed" => cfgHash' = v.new
               /\ v.pc = "saved" => cfgHash' = v.new /\ savedHash' = cfgHash'
    PROVE  HashInv'
<1>1. k \in PasswordChanges /\ HashInv
  BY DEF Changing, LoginInv
<1>2. Changing' = Changing /\ passwordChange'[k] = v
      /\ \A l \in PasswordChanges : l # k => passwordChange'[l] = passwordChange[l]
  <2>1. Changing' = Changing \cup {k}
    BY <1>1, ChangingNext, Zenon
  <2>2. Changing \cup {k} = Changing
    OBVIOUS
  <2>. QED BY <1>1, <2>1, <2>2, ChangeMoves, Zenon
<1>3. \A l \in Changing : l \in PasswordChanges
  BY DEF Changing
<1>4. \A l \in Changing' : passwordChange'[l].new \in Passwords
  BY <1>1, <1>2, <1>3 DEF HashInv
<1>5. ~disturbed => \A l \in Changing' : l = k
  BY <1>1, <1>2 DEF HashInv
<1>. QED BY <1>2, <1>4, <1>5 DEF HashInv

LEMMA ChangeEnds ==
    ASSUME LoginInv, NEW k \in Changing, NEW v \in ChangeType, passwordChange' = [passwordChange EXCEPT ![k] = v],
           v.pc = "done",
           disturbed => disturbed', ~disturbed' => authHash' = cfgHash' /\ cfgHash' = savedHash'
    PROVE  HashInv'
<1>1. k \in PasswordChanges /\ HashInv
  BY DEF Changing, LoginInv
<1>2. Changing' = Changing \ {k} /\ \A l \in PasswordChanges : l # k => passwordChange'[l] = passwordChange[l]
  BY <1>1, ChangingNext, ChangeMoves, Zenon
<1>3. \A l \in Changing : l \in PasswordChanges
  BY DEF Changing
<1>4. \A l \in Changing' : passwordChange'[l].new \in Passwords
  BY <1>1, <1>2, <1>3 DEF HashInv
<1>5. ~disturbed' => ~disturbed /\ Changing' = {} /\ authHash' = cfgHash' /\ cfgHash' = savedHash'
  BY <1>1, <1>2 DEF HashInv
<1>. QED BY <1>2, <1>4, <1>5 DEF HashInv

LEMMA LoginsRest ==
    ASSUME LoginInv, UNCHANGED <<attempt, loginGuard, nextSlot, overtaken, slots>>,
           loginTime' \in Nat, loginTime <= loginTime'
    PROVE  attempt' \in [Logins -> AttemptType] /\ GuardInv' /\ LockedIsNotChecked' /\ SlotInv' /\ SlotsSpaced'
<1>1. SlotInv' /\ SlotsSpaced'
  BY SlotsKept
<1>2. /\ loginGuard' = [c \in LoginClients |-> loginGuard'[c]]
      /\ \A c \in LoginClients : RecordInv(loginGuard[c])' /\ (Locked(c)' => Locked(c))
  BY GuardKept
<1>3. GuardInv' /\ LockedIsNotChecked'
  BY <1>2, LocksKept
<1>. QED BY <1>1, <1>3 DEF LoginInv

\* AuthRequired and the comparison with the current password.
LEMMA ChangeRequestStep ==
    ASSUME LoginInv, NEW k \in PasswordChanges, NEW s \in Logins, NEW current \in Passwords, NEW new \in Passwords,
           ChangeRequest(k, s, current, new)
    PROVE  LoginInv'
<1>0. /\ passwordChange[k].pc = "new" /\ k \notin Changing
      /\ UNCHANGED <<loginTime, attempt, sessions, authHash, cfgHash, savedHash, loginGuard, nextSlot,
                     keptSession, loginOverlap, overtaken, slots>>
  BY DEF ChangeRequest, credentials, loginLimits, Changing
<1>1. /\ loginTime' \in Nat /\ loginTime <= loginTime' /\ authHash' \in Passwords /\ cfgHash' \in Passwords
      /\ savedHash' \in Passwords /\ sessions' \subseteq Logins /\ SessionInv' /\ SessionsJustified'
  <2>1. SessionInv' /\ SessionsJustified'
    BY <1>0 DEF LoginInv, SessionInv, SessionsJustified
  <2>. QED BY <1>0, <2>1 DEF LoginInv
<1>2. attempt' \in [Logins -> AttemptType] /\ GuardInv' /\ LockedIsNotChecked' /\ SlotInv' /\ SlotsSpaced'
  BY <1>0, <1>1, LoginsRest, Zenon
<1>3. disturbed' \in BOOLEAN /\ HashInv /\ disturbed \in BOOLEAN
  BY DEF ChangeRequest, LoginInv
<1>4. CASE CurrentPasswordMatches(current)
  <2>. DEFINE v == [pc |-> "hashed", by |-> s, new |-> new]
  <2>1. v \in ChangeType /\ v.pc = "hashed" /\ v.new = new
    BY DEF ChangeType
  <2>2. passwordChange' = [passwordChange EXCEPT ![k] = v] /\ disturbed' = (disturbed \/ Changing # {})
    BY <1>4 DEF ChangeRequest
  <2>. HIDE DEF v
  <2>3. /\ passwordChange' \in [PasswordChanges -> ChangeType] /\ passwordChange'[k] = v
        /\ \A l \in PasswordChanges : l # k => passwordChange'[l] = passwordChange[l]
        /\ Changing' = Changing \cup {k}
    BY <2>1, <2>2, ChangeMoves, ChangingNext, Zenon
  <2>4. \A l \in Changing : l \in PasswordChanges /\ l # k
    BY <1>0, Zenon DEF Changing
  <2>5. \A l \in Changing' : passwordChange'[l].new \in Passwords
    BY <1>3, <2>1, <2>3, <2>4 DEF HashInv
  <2>6. ~disturbed' => Changing' = {k} /\ authHash' = cfgHash' /\ cfgHash' = savedHash'
    BY <1>0, <1>3, <2>2, <2>3, Zenon DEF HashInv
  <2>7. HashInv'
    BY <2>1, <2>3, <2>5, <2>6 DEF HashInv
  <2>. QED BY <1>1, <1>2, <1>3, <2>3, <2>7 DEF LoginInv
<1>5. CASE ~CurrentPasswordMatches(current)
  <2>. DEFINE v == [NoChange EXCEPT !.pc = "done"]
  <2>1. v \in ChangeType /\ v.pc = "done"
    BY IdleRequests
  <2>2. passwordChange' = [passwordChange EXCEPT ![k] = v] /\ disturbed' = disturbed
    BY <1>3, <1>5 DEF ChangeRequest
  <2>. HIDE DEF v
  <2>3. /\ passwordChange' \in [PasswordChanges -> ChangeType]
        /\ \A l \in PasswordChanges : l # k => passwordChange'[l] = passwordChange[l]
        /\ Changing' = Changing
    <3>1. Changing' = Changing \ {k}
      BY <2>1, <2>2, ChangingNext, Zenon
    <3>2. Changing \ {k} = Changing
      BY <1>0
    <3>. QED BY <2>1, <2>2, <3>1, <3>2, ChangeMoves, Zenon
  <2>4. \A l \in Changing : l \in PasswordChanges /\ passwordChange'[l] = passwordChange[l]
    BY <1>0, <2>3, Zenon DEF Changing
  <2>5. HashInv'
    BY <1>0, <1>3, <2>2, <2>3, <2>4, Zenon DEF HashInv
  <2>. QED BY <1>1, <1>2, <1>3, <2>3, <2>5 DEF LoginInv
<1>. QED BY <1>4, <1>5

\* The config changes in memory, is saved, and Auth takes the hash over.
LEMMA ChangeConfigStep ==
    ASSUME LoginInv, NEW k \in PasswordChanges, ChangeConfig(k) PROVE LoginInv'
<1>0. /\ passwordChange[k].pc = "hashed" /\ k \in Changing /\ cfgHash' = passwordChange[k].new
      /\ UNCHANGED <<loginTime, attempt, sessions, authHash, savedHash, loginGuard, nextSlot,
                     keptSession, loginOverlap, overtaken, slots, disturbed>>
  BY DEF ChangeConfig, loginLimits, loginHistory, Changing
<1>1. /\ loginTime' \in Nat /\ loginTime <= loginTime' /\ authHash' \in Passwords /\ cfgHash' \in Passwords
      /\ savedHash' \in Passwords /\ sessions' \subseteq Logins /\ SessionInv' /\ SessionsJustified'
      /\ disturbed' \in BOOLEAN
  <2>1. SessionInv' /\ SessionsJustified'
    BY <1>0 DEF LoginInv, SessionInv, SessionsJustified
  <2>. QED BY <1>0, <2>1 DEF LoginInv, HashInv
<1>2. attempt' \in [Logins -> AttemptType] /\ GuardInv' /\ LockedIsNotChecked' /\ SlotInv' /\ SlotsSpaced'
  BY <1>0, <1>1, LoginsRest
<1>. DEFINE v == [passwordChange[k] EXCEPT !.pc = "changed"]
<1>3. passwordChange[k] \in ChangeType
  BY ChangeFields
<1>4. v \in ChangeType /\ v.pc = "changed" /\ v.new = passwordChange[k].new
  BY <1>3 DEF ChangeType
<1>5. passwordChange' = [passwordChange EXCEPT ![k] = v]
  BY DEF ChangeConfig, LoginInv
<1>. HIDE DEF v
<1>6. passwordChange' \in [PasswordChanges -> ChangeType] /\ HashInv'
  BY <1>0, <1>4, <1>5, ChangeMoves, ChangeGoesOn, Zenon
<1>. QED BY <1>1, <1>2, <1>6 DEF LoginInv

LEMMA ChangeSaveStep ==
    ASSUME LoginInv, NEW k \in PasswordChanges, ChangeSave(k) PROVE LoginInv'
<1>0. /\ passwordChange[k].pc = "changed" /\ k \in Changing
      /\ UNCHANGED <<loginTime, attempt, sessions, authHash, cfgHash, loginGuard, nextSlot,
                     keptSession, loginOverlap, overtaken, slots>>
  BY DEF ChangeSave, loginLimits, Changing
<1>1. /\ loginTime' \in Nat /\ loginTime <= loginTime' /\ authHash' \in Passwords /\ cfgHash' \in Passwords
      /\ cfgHash \in Passwords /\ savedHash \in Passwords /\ sessions' \subseteq Logins
      /\ SessionInv' /\ SessionsJustified' /\ disturbed \in BOOLEAN
  <2>1. SessionInv' /\ SessionsJustified'
    BY <1>0 DEF LoginInv, SessionInv, SessionsJustified
  <2>. QED BY <1>0, <2>1 DEF LoginInv
<1>2. attempt' \in [Logins -> AttemptType] /\ GuardInv' /\ LockedIsNotChecked' /\ SlotInv' /\ SlotsSpaced'
  BY <1>0, <1>1, LoginsRest
<1>3. CASE /\ savedHash' = cfgHash /\ UNCHANGED disturbed
           /\ passwordChange' = [passwordChange EXCEPT ![k].pc = "saved"]
  <2>. DEFINE v == [passwordChange[k] EXCEPT !.pc = "saved"]
  <2>3. passwordChange[k] \in ChangeType
    BY ChangeFields
  <2>4. v \in ChangeType /\ v.pc = "saved" /\ v.new = passwordChange[k].new
    BY <2>3 DEF ChangeType
  <2>5. passwordChange' = [passwordChange EXCEPT ![k] = v]
    BY <1>3 DEF LoginInv
  <2>. HIDE DEF v
  <2>6. ~disturbed => cfgHash' = v.new /\ savedHash' = cfgHash'
    BY <1>0, <1>3, <2>4 DEF LoginInv, HashInv
  <2>7. passwordChange' \in [PasswordChanges -> ChangeType] /\ HashInv'
    BY <1>3, <1>0, <2>4, <2>5, <2>6, ChangeMoves, ChangeGoesOn, Zenon
  <2>. QED BY <1>1, <1>2, <1>3, <2>7 DEF LoginInv
<1>4. CASE /\ passwordChange' = [passwordChange EXCEPT ![k] = [NoChange EXCEPT !.pc = "done"]]
           /\ disturbed' = TRUE /\ UNCHANGED savedHash
  <2>1. passwordChange' \in [PasswordChanges -> ChangeType] /\ HashInv'
    BY <1>0, <1>4, IdleRequests, ChangeMoves, ChangeEnds, Zenon
  <2>. QED BY <1>1, <1>2, <1>4, <2>1 DEF LoginInv
<1>. QED BY <1>3, <1>4, Zenon DEF ChangeSave

LEMMA ChangePasswordStep ==
    ASSUME LoginInv, NEW k \in PasswordChanges, ChangePassword(k) PROVE LoginInv'
<1>0. /\ passwordChange[k].pc = "saved" /\ k \in Changing /\ authHash' = passwordChange[k].new
      /\ sessions' = sessions \cap {passwordChange[k].by} /\ keptSession' = passwordChange[k].by
      /\ loginOverlap' = {r \in Logins : attempt[r].pc = "comparing"}
      /\ UNCHANGED <<loginTime, attempt, cfgHash, savedHash, loginGuard, nextSlot, overtaken, slots, disturbed>>
  BY DEF ChangePassword, loginLimits, Changing
<1>1. /\ loginTime' \in Nat /\ loginTime <= loginTime' /\ authHash' \in Passwords /\ cfgHash' \in Passwords
      /\ savedHash' \in Passwords /\ sessions' \subseteq Logins /\ disturbed' \in BOOLEAN
  BY <1>0 DEF LoginInv, HashInv
<1>2. SessionInv' /\ SessionsJustified'
  BY <1>0 DEF LoginInv, SessionInv, SessionsJustified
<1>3. attempt' \in [Logins -> AttemptType] /\ GuardInv' /\ LockedIsNotChecked' /\ SlotInv' /\ SlotsSpaced'
  BY <1>0, <1>1, LoginsRest
<1>4. ~disturbed' => authHash' = cfgHash' /\ cfgHash' = savedHash'
  BY <1>0 DEF LoginInv, HashInv
<1>5. passwordChange' = [passwordChange EXCEPT ![k] = [NoChange EXCEPT !.pc = "done"]]
  BY DEF ChangePassword
<1>6. passwordChange' \in [PasswordChanges -> ChangeType] /\ HashInv'
  BY <1>0, <1>4, <1>5, IdleRequests, ChangeMoves, ChangeEnds, Zenon
<1>. QED BY <1>1, <1>2, <1>3, <1>6 DEF LoginInv

\* Another handler saves the config; the guard's sweep; a restart; time.
LEMMA OtherSaveStep ==
    ASSUME LoginInv, OtherSave PROVE LoginInv'
<1>0. /\ savedHash' = cfgHash
      /\ UNCHANGED <<loginTime, attempt, passwordChange, sessions, authHash, cfgHash, loginGuard, nextSlot,
                     keptSession, loginOverlap, overtaken, slots, disturbed>>
  BY DEF OtherSave, loginLimits, loginHistory
<1>1. /\ loginTime' \in Nat /\ loginTime <= loginTime' /\ authHash' \in Passwords /\ cfgHash' \in Passwords
      /\ savedHash' \in Passwords /\ sessions' \subseteq Logins /\ SessionInv' /\ SessionsJustified'
      /\ disturbed' \in BOOLEAN /\ passwordChange' \in [PasswordChanges -> ChangeType]
  BY <1>0 DEF LoginInv, SessionInv, SessionsJustified
<1>2. attempt' \in [Logins -> AttemptType] /\ GuardInv' /\ LockedIsNotChecked' /\ SlotInv' /\ SlotsSpaced'
  BY <1>0, <1>1, LoginsRest
<1>3. Changing' = Changing /\ HashInv
  BY <1>0 DEF Changing, LoginInv
<1>4. HashInv'
  BY <1>0, <1>3 DEF HashInv
<1>. QED BY <1>1, <1>2, <1>4 DEF LoginInv

LEMMA SweepStep ==
    ASSUME LoginInv, Sweep PROVE LoginInv'
<1>0. UNCHANGED <<loginTime, attempt, passwordChange, sessions, authHash, cfgHash, savedHash, nextSlot,
                  keptSession, loginOverlap, overtaken, slots, disturbed>>
  BY DEF Sweep, credentials, loginHistory
<1>1. /\ loginTime' \in Nat /\ loginTime <= loginTime' /\ sessions' \subseteq Logins
      /\ SessionInv' /\ SessionsJustified' /\ attempt' \in [Logins -> AttemptType]
  BY <1>0 DEF LoginInv, SessionInv, SessionsJustified
<1>2. /\ HashInv' /\ passwordChange' \in [PasswordChanges -> ChangeType] /\ disturbed' \in BOOLEAN
      /\ authHash' \in Passwords /\ cfgHash' \in Passwords /\ savedHash' \in Passwords
  BY <1>0, HashesKept
<1>3. SlotInv' /\ SlotsSpaced'
  BY <1>0, <1>1, SlotsKept
<1>4. /\ loginGuard' = [c \in LoginClients |-> loginGuard'[c]]
      /\ \A c \in LoginClients : loginGuard'[c] = NoRecord \/ loginGuard'[c] = loginGuard[c]
  BY DEF Sweep
<1>5. ASSUME NEW c \in LoginClients PROVE RecordInv(loginGuard[c])' /\ (Locked(c)' => Locked(c))
  <2>1. RecordInv(loginGuard[c]) /\ RecordInv(NoRecord)
    BY NoRecordInv DEF LoginInv, GuardInv
  <2>2. RecordInv(loginGuard[c])'
    BY <1>0, <1>4, <2>1 DEF RecordInv
  <2>. QED BY <1>0, <1>4, <2>2, ForgottenUnlocks
<1>6. GuardInv' /\ LockedIsNotChecked'
  BY <1>0, <1>4, <1>5, LocksKept
<1>. QED BY <1>1, <1>2, <1>3, <1>6 DEF LoginInv

LEMMA RestartStep ==
    ASSUME LoginInv, LoginRestart PROVE LoginInv'
<1>0. /\ loginTime' = loginTime /\ savedHash' = savedHash /\ authHash' = savedHash /\ cfgHash' = savedHash
      /\ sessions' = {} /\ nextSlot' = 0 /\ slots' = {} /\ overtaken' = {} /\ disturbed' = FALSE
  BY DEF LoginRestart
<1>1. /\ attempt' \in [Logins -> AttemptType]
      /\ \A r \in Logins : attempt'[r].pc \in {"new", "done"}
  <2>1. attempt' = [r \in Logins |-> IF attempt[r].pc = "new" THEN NoAttempt ELSE [NoAttempt EXCEPT !.pc = "done"]]
    BY DEF LoginRestart
  <2>. QED BY <2>1, IdleRequests
<1>2. /\ passwordChange' \in [PasswordChanges -> ChangeType]
      /\ \A k \in PasswordChanges : passwordChange'[k].pc \in {"new", "done"}
  <2>1. passwordChange' = [k \in PasswordChanges |->
                              IF passwordChange[k].pc = "new" THEN NoChange ELSE [NoChange EXCEPT !.pc = "done"]]
    BY DEF LoginRestart
  <2>. QED BY <2>1, IdleRequests
<1>3. HashInv' /\ authHash' \in Passwords /\ cfgHash' \in Passwords /\ savedHash' \in Passwords
  <2>1. Changing' = {}
    BY <1>2 DEF Changing
  <2>. QED BY <1>0, <2>1 DEF HashInv, LoginInv
<1>4. loginGuard' = [c \in LoginClients |-> loginGuard'[c]] /\ \A c \in LoginClients : RecordInv(loginGuard[c])'
  <2>1. loginGuard' = [c \in LoginClients |-> NoRecord]
    BY DEF LoginRestart
  <2>. QED BY <1>0, <2>1, NoRecordInv DEF RecordInv
<1>5. GuardInv' /\ LockedIsNotChecked' /\ SessionInv' /\ SessionsJustified'
  BY <1>0, <1>1, <1>4 DEF GuardInv, LockedIsNotChecked, SessionInv, SessionsJustified
<1>6. SlotInv' /\ SlotsSpaced'
  BY <1>0, <1>1 DEF SlotInv, SlotsSpaced
<1>. QED BY <1>0, <1>1, <1>2, <1>3, <1>5, <1>6, Zenon DEF LoginInv

LEMMA LoginTickStep ==
    ASSUME LoginInv, LoginTick PROVE LoginInv'
<1>0. /\ loginTime' = loginTime + 1
      /\ UNCHANGED <<attempt, passwordChange, sessions, authHash, cfgHash, savedHash, loginGuard, nextSlot,
                     keptSession, loginOverlap, overtaken, slots, disturbed>>
  BY DEF LoginTick, credentials, loginLimits, loginHistory
<1>1. /\ loginTime' \in Nat /\ loginTime <= loginTime' /\ sessions' \subseteq Logins
      /\ SessionInv' /\ SessionsJustified'
  BY <1>0 DEF LoginInv, SessionInv, SessionsJustified
<1>2. /\ HashInv' /\ passwordChange' \in [PasswordChanges -> ChangeType] /\ disturbed' \in BOOLEAN
      /\ authHash' \in Passwords /\ cfgHash' \in Passwords /\ savedHash' \in Passwords
  BY <1>0, HashesKept
<1>3. attempt' \in [Logins -> AttemptType] /\ GuardInv' /\ LockedIsNotChecked' /\ SlotInv' /\ SlotsSpaced'
  BY <1>0, <1>1, LoginsRest
<1>. QED BY <1>1, <1>2, <1>3 DEF LoginInv

LEMMA LoginStarts == LoginInit => LoginInv
<1>. SUFFICES ASSUME LoginInit PROVE LoginInv
  OBVIOUS
<1>1. /\ attempt \in [Logins -> AttemptType] /\ \A r \in Logins : attempt[r].pc = "new"
      /\ passwordChange \in [PasswordChanges -> ChangeType] /\ Changing = {}
  BY IdleRequests DEF LoginInit, Changing
<1>2. \A c \in LoginClients : RecordInv(loginGuard[c])
  <2>1. NoRecord \in [failures : Nat, lockedUntil : Nat, lastSeen : Int] /\ NoRecord.failures = 0
        /\ NoRecord.lockedUntil = 0 /\ NoRecord.lastSeen = -1
    BY DEF NoRecord
  <2>. QED BY <2>1, LoginConstants DEF LoginInit, RecordInv
<1>3. GuardInv /\ LockedIsNotChecked
  BY <1>1, <1>2 DEF LoginInit, GuardInv, LockedIsNotChecked
<1>4. SessionInv /\ SessionsJustified /\ HashInv /\ SlotInv /\ SlotsSpaced
  BY <1>1 DEF LoginInit, SessionInv, SessionsJustified, HashInv, SlotInv, SlotsSpaced
<1>. QED BY <1>1, <1>3, <1>4, Zenon DEF LoginInit, LoginInv

LEMMA LoginKeeps == LoginInv /\ [LoginNext]_loginVars => LoginInv'
<1>. SUFFICES ASSUME LoginInv, [LoginNext]_loginVars PROVE LoginInv'
  OBVIOUS
<1>1. CASE UNCHANGED loginVars
  <2>1. /\ UNCHANGED <<loginTime, attempt, passwordChange, sessions, authHash, cfgHash, savedHash, loginGuard,
                       nextSlot, keptSession, loginOverlap, overtaken, slots, disturbed>>
    BY <1>1 DEF loginVars, credentials, loginLimits, loginHistory
  <2>2. loginTime' \in Nat /\ loginTime <= loginTime'
    BY <2>1 DEF LoginInv
  <2>3. attempt' \in [Logins -> AttemptType] /\ GuardInv' /\ LockedIsNotChecked' /\ SlotInv' /\ SlotsSpaced'
    BY <2>1, <2>2, LoginsRest
  <2>4. /\ HashInv' /\ passwordChange' \in [PasswordChanges -> ChangeType] /\ disturbed' \in BOOLEAN
        /\ authHash' \in Passwords /\ cfgHash' \in Passwords /\ savedHash' \in Passwords
    BY <2>1, HashesKept
  <2>5. sessions' \subseteq Logins /\ SessionInv' /\ SessionsJustified'
    BY <2>1 DEF LoginInv, SessionInv, SessionsJustified
  <2>. QED BY <2>2, <2>3, <2>4, <2>5 DEF LoginInv
<1>2. CASE \E r \in Logins : HandleLogin(r) \/ Logout(r)
  BY <1>2, LockedForStep, ReserveStep, GivesUpStep, VerifyReadStep, RecordFailureStep, LoginStep, LogoutStep
     DEF HandleLogin, AwaitLoginBudget
<1>3. CASE \E k \in PasswordChanges : HandleChangeWebPassword(k)
  BY <1>3, ChangeRequestStep, ChangeConfigStep, ChangeSaveStep, ChangePasswordStep DEF HandleChangeWebPassword
<1>. QED BY <1>1, <1>2, <1>3, SweepStep, OtherSaveStep, RestartStep, LoginTickStep DEF LoginNext

\* handleLogin and HandleChangeWebPassword, for any number of logins, addresses and
\* password changes: every session rests on today's hash or was there when it
\* changed, the three hashes agree when no change runs, nobody is checked while
\* locked out, and the slots of the budget are apart.
THEOREM SignInIsSound == LoginSpec => [](SessionsJustified /\ HashesAgree /\ LockedIsNotChecked /\ SlotsSpaced)
<1>1. LoginInv => SessionsJustified /\ HashesAgree /\ LockedIsNotChecked /\ SlotsSpaced
  BY DEF LoginInv, HashInv, HashesAgree
<1>. QED BY <1>1, LoginStarts, LoginKeeps, PTL DEF LoginSpec

\* A failure earns an unlock no earlier than the one on record.
LEMMA FailureNeverShortens ==
    ASSUME LockoutsGrow, LoginInv, NEW c \in LoginClients, ~LoginQuiet(c)
    PROVE  Failed(c).lockedUntil >= loginGuard[c].lockedUntil
<1>1. PICK rec : /\ RecordInv(rec) /\ (rec = NoRecord \/ rec = loginGuard[c])
                 /\ rec = NoRecord => ~Known(c)
                 /\ Failed(c).lockedUntil = IF rec.failures + 1 < Threshold THEN rec.lockedUntil
                                            ELSE loginTime + Lockout(rec.failures + 1)
  BY FailedFacts
<1>2. rec = loginGuard[c]
  BY <1>1 DEF Known
<1>. DEFINE n == rec.failures
<1>3. /\ n \in Nat /\ rec.lastSeen \in Int /\ rec.lockedUntil \in Nat /\ rec.lastSeen <= loginTime
      /\ rec.lockedUntil = IF n < Threshold THEN 0 ELSE rec.lastSeen + Lockout(n)
      /\ loginTime \in Nat /\ Threshold \in Nat
  BY <1>1, LoginConstants DEF RecordInv, LoginInv
<1>. HIDE DEF n
<1>4. n + 1 \in Nat /\ n <= n + 1
  BY <1>3
<1>5. CASE n + 1 < Threshold
  <2>1. Failed(c).lockedUntil = rec.lockedUntil
    BY <1>1, <1>5 DEF n
  <2>. QED BY <1>2, <1>3, <2>1
<1>6. CASE n + 1 >= Threshold
  <2>1. Lockout(n + 1) \in Nat
    BY <1>4, <1>6, LockoutFacts
  <2>0. ~(n + 1 < Threshold)
    BY <1>3, <1>4, <1>6
  <2>2. Failed(c).lockedUntil = loginTime + Lockout(n + 1)
    BY <1>1, <2>0 DEF n
  <2>3. CASE n < Threshold
    BY <1>2, <1>3, <2>1, <2>2, <2>3
  <2>4. CASE n >= Threshold
    <3>1. Lockout(n) \in Nat /\ Lockout(n) <= Lockout(n + 1)
      BY <1>3, <1>4, <2>4, LockoutFacts DEF LockoutsGrow, LockoutsGrowOver
    <3>. QED BY <1>2, <1>3, <2>1, <2>2, <2>4, <3>1
  <2>. QED BY <1>3, <2>3, <2>4
<1>7. n + 1 < Threshold \/ n + 1 >= Threshold
  BY ONLY <1>3, <1>4
<1>. QED BY ONLY <1>5, <1>6, <1>7

\* Every step leaves a record as it is, drops it, or counts a failure on it.
LEMMA RecordSteps ==
    ASSUME LoginInv, LoginNext, NEW c \in LoginClients
    PROVE  loginGuard'[c] \in {loginGuard[c], NoRecord, Failed(c)}
<1>0. loginGuard = [d \in LoginClients |-> loginGuard[d]]
  BY DEF LoginInv, GuardInv
<1>1. ASSUME NEW r \in Logins, HandleLogin(r) \/ Logout(r) PROVE loginGuard'[c] \in {loginGuard[c], NoRecord, Failed(c)}
  <2>1. ASSUME NEW d \in LoginClients, NEW p \in Passwords, LockedFor(r, d, p)
        PROVE  loginGuard'[c] \in {loginGuard[c], NoRecord}
    BY <1>0, <2>1 DEF LockedFor
  <2>2. ASSUME RecordFailure(r) PROVE loginGuard'[c] \in {loginGuard[c], Failed(c)}
    BY <1>0, <2>2 DEF RecordFailure
  <2>3. ASSUME Login(r) PROVE loginGuard'[c] \in {loginGuard[c], NoRecord}
    BY <1>0, <2>3 DEF Login, RecordSuccess
  <2>4. ASSUME AwaitLoginBudget(r) \/ VerifyRead(r) \/ Logout(r) PROVE loginGuard' = loginGuard
    BY <2>4 DEF AwaitLoginBudget, Reserve, GivesUp, VerifyRead, Logout, loginLimits
  <2>. QED BY <1>1, <2>1, <2>2, <2>3, <2>4 DEF HandleLogin
<1>2. ASSUME NEW k \in PasswordChanges, HandleChangeWebPassword(k) PROVE loginGuard' = loginGuard
  BY <1>2 DEF HandleChangeWebPassword, ChangeRequest, ChangeConfig, ChangeSave, ChangePassword, loginLimits
<1>3. ASSUME OtherSave \/ LoginTick PROVE loginGuard' = loginGuard
  BY <1>3 DEF OtherSave, LoginTick, loginLimits
<1>4. ASSUME Sweep \/ LoginRestart PROVE loginGuard'[c] \in {loginGuard[c], NoRecord}
  BY <1>4 DEF Sweep, LoginRestart
<1>. QED BY <1>1, <1>2, <1>3, <1>4 DEF LoginNext

\* Who is let in and how often anybody may ask, for every value of the constants
\* under which the doubling lockout does not fall back: the promises of handleLogin,
\* HandleChangeWebPassword, loginGuard, loginBudget and RateLimiter together, the
\* lockout that no failure shortens included.
THEOREM AccessIsSound ==
    ASSUME LockoutsGrow PROVE AccessSpec => AccessSound
<1>1. LoginInv /\ [LoginNext]_loginVars =>
          [\A c \in LoginClients : loginGuard'[c] # NoRecord =>
               loginGuard'[c].lockedUntil >= loginGuard[c].lockedUntil \/ LoginQuiet(c)]_loginVars
  <2>. SUFFICES ASSUME LoginInv, LoginNext, NEW c \in LoginClients, loginGuard'[c] # NoRecord, ~LoginQuiet(c)
                PROVE  loginGuard'[c].lockedUntil >= loginGuard[c].lockedUntil
    OBVIOUS
  <2>1. loginGuard'[c] = loginGuard[c] \/ loginGuard'[c] = Failed(c)
    BY RecordSteps
  <2>2. loginGuard[c].lockedUntil \in Nat
    BY DEF LoginInv, GuardInv, RecordInv
  <2>. QED BY <2>1, <2>2, FailureNeverShortens
<1>2. LoginSpec => LockoutNeverShortens
  BY <1>1, LoginStarts, LoginKeeps, PTL DEF LoginSpec, LockoutNeverShortens
<1>. QED BY <1>2, SignInIsSound, RateIsHeld DEF AccessSpec, AccessSound, SignInSound

===============================================================================
