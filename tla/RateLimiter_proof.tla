-------------------------- MODULE RateLimiter_proof --------------------------
(***************************************************************************)
(* Theorems about the rate limiter, for any number of gateways, buckets,   *)
(* dimensions and resends, every capacity, rate, skew and delay.           *)
(***************************************************************************)
EXTENDS RateLimiter, FiniteSetTheorems, TLAPS

\* The clock argument of a call that is out is what its host's clock showed
\* when the call was stamped.
Stamped ==
    \A c \in Callers : sent[c] # NotSent => sent[c] = (time - delay[c]) + Skew[c]

\* A bucket was last used TTL - ttl seconds ago, by a host at most MaxSkew ahead.
UsedBefore ==
    \A k \in BucketKeys :
        /\ k \in exists => lastUpdate[k] + TTL <= time + ttl[k] + MaxSkew
        /\ k \in exists => ttl[k] >= 1
        /\ k \notin exists /\ consumed[k] > 0 => lastUpdate[k] + TTL <= time + MaxSkew

\* A bucket exists only once something was taken from it.
Opened == \A k \in exists : Cost > 0 => consumed[k] > 0

IInv ==
    /\ LimiterTypeOK
    /\ Stamped
    /\ UsedBefore
    /\ Opened
    /\ NoTokenFromNowhere

------------------------------------------------------------------------------
\* Arithmetic of rates.
LEMMA Distribute ==
    ASSUME NEW r \in Int, NEW x \in Int, NEW y \in Int
    PROVE  r * x + y * r = r * (x + y)
  BY Z3

\* A rate earns at least r * g over any time of at least g.
LEMMA EarnsAtLeast ==
    ASSUME NEW r \in Nat, NEW x \in Int, NEW y \in Int, NEW g \in Int, y >= g
    PROVE  r * x + r * g <= r * (x + y)
  <1>1. \A n, m \in Nat : n * m \in Nat
    BY Z3
  <1>2. r * (y - g) \in Nat
    BY <1>1
  <1>3. r * x + r * g + r * (y - g) = r * (x + y)
    BY Z3
  <1>4. QED
    BY <1>2, <1>3

\* The script never finds more than the capacity, nor more than what was left
\* and what the clock argument has earned.
LEMMA AvailableBounds ==
    ASSUME LimiterTypeOK, NEW k \in BucketKeys, NEW now \in Nat
    PROVE  /\ Available(k, now) \in Int
           /\ Available(k, now) <= Capacity[k]
           /\ k \in exists =>
                Available(k, now) <= tokens[k] + (now - lastUpdate[k]) * Rate[k]
           /\ k \notin exists => Available(k, now) = Capacity[k]
  <1>1. Capacity[k] \in Nat /\ Rate[k] \in Nat /\ tokens[k] \in Nat /\ lastUpdate[k] \in Nat
    BY LimiterAssumption DEF LimiterTypeOK
  <1>2. (now - lastUpdate[k]) * Rate[k] \in Int
    BY <1>1
  <1>3. QED
    BY <1>1, <1>2 DEF Available, Least

\* Taking from a bucket keeps the Redis state and the tally well formed.
LEMMA TakeType ==
    ASSUME LimiterTypeOK, NEW k \in BucketKeys, NEW now \in Nat,
           Available(k, now) >= Cost, Take(k, now)
    PROVE  /\ exists' \in SUBSET BucketKeys
           /\ tokens' \in [BucketKeys -> Nat]
           /\ \A j \in BucketKeys : tokens'[j] <= Capacity[j]
           /\ lastUpdate' \in [BucketKeys -> Nat]
           /\ ttl' \in [BucketKeys -> 0..TTL]
           /\ consumed' \in [BucketKeys -> Nat]
           /\ since' \in [BucketKeys -> Nat]
  <1> USE LimiterAssumption
  <1> DEFINE left == Available(k, now) - Cost
  <1>1. left \in Nat /\ left <= Capacity[k]
    BY AvailableBounds
  <1>2. tokens' = [tokens EXCEPT ![k] = left]
    BY DEF Take
  <1> HIDE DEF left
  <1>3. tokens' \in [BucketKeys -> Nat] /\ \A j \in BucketKeys : tokens'[j] <= Capacity[j]
    BY <1>1, <1>2 DEF LimiterTypeOK
  <1>4. QED
    BY <1>3 DEF Take, LimiterTypeOK

\* The part of the invariant that taking from a bucket could break: the
\* potential does not rise, and the bucket is younger than its expiry.
LEMMA TakePotential ==
    ASSUME IInv, NEW k \in BucketKeys, NEW now \in Nat, NEW d \in 0..MaxDelay, NEW s \in 0..MaxSkew,
           now = (time - d) + s, time' = time,
           Available(k, now) >= Cost, Take(k, now)
    PROVE  UsedBefore' /\ Opened' /\ NoTokenFromNowhere'
  <1> USE LimiterAssumption
  <1>1. LimiterTypeOK
    BY DEF IInv
  <1>2. /\ exists' = exists \union {k}
        /\ lastUpdate'[k] = now /\ ttl'[k] = TTL /\ consumed'[k] = consumed[k] + Cost
        /\ tokens'[k] = Available(k, now) - Cost
        /\ since'[k] = IF consumed[k] = 0 THEN now ELSE since[k]
    BY <1>1 DEF Take, LimiterTypeOK
  <1>3. \A j \in BucketKeys \ {k} :
           /\ j \in exists' <=> j \in exists
           /\ lastUpdate'[j] = lastUpdate[j] /\ ttl'[j] = ttl[j] /\ consumed'[j] = consumed[j]
           /\ tokens'[j] = tokens[j] /\ since'[j] = since[j]
    BY <1>1 DEF Take, LimiterTypeOK
  <1>4. /\ Capacity[k] \in Nat /\ Rate[k] \in Nat /\ tokens[k] \in Nat /\ lastUpdate[k] \in Nat
        /\ consumed[k] \in Nat /\ since[k] \in Nat /\ time \in Nat /\ ttl[k] \in 0..TTL
    BY <1>1 DEF LimiterTypeOK
  <1>5. UsedBefore'
    <2>1. now + TTL <= time + TTL + MaxSkew
      BY <1>4
    <2>2. QED
      BY <1>2, <1>3, <2>1 DEF UsedBefore, IInv
  <1>6. Opened'
    BY <1>2, <1>3, <1>4 DEF Opened, IInv, LimiterTypeOK
  <1>7. consumed'[k] + tokens'[k] <= Capacity[k] + Rate[k] * (now - since'[k])
    <2>1. consumed'[k] + tokens'[k] = consumed[k] + Available(k, now)
      BY <1>2, <1>4, AvailableBounds, <1>1
    <2>2. CASE consumed[k] = 0
      <3>1. Rate[k] * (now - since'[k]) = 0
        BY <1>2, <1>4, <2>2
      <3>2. QED
        BY <2>1, <2>2, <3>1, AvailableBounds, <1>1, <1>4
    <2>3. CASE consumed[k] > 0 /\ k \in exists
      <3>1. consumed[k] + tokens[k] <= Capacity[k] + Rate[k] * (lastUpdate[k] - since[k])
        BY <2>3 DEF IInv, NoTokenFromNowhere
      <3>2. Available(k, now) <= tokens[k] + (now - lastUpdate[k]) * Rate[k]
        BY <2>3, AvailableBounds, <1>1
      <3>4. Rate[k] * (lastUpdate[k] - since[k]) + (now - lastUpdate[k]) * Rate[k]
              = Rate[k] * (now - since[k])
        <4>1. (lastUpdate[k] - since[k]) + (now - lastUpdate[k]) = now - since[k]
          BY <1>4
        <4>2. QED
          BY <4>1, <1>4, Distribute
      <3>5. /\ Rate[k] * (lastUpdate[k] - since[k]) \in Int
            /\ (now - lastUpdate[k]) * Rate[k] \in Int
            /\ Rate[k] * (now - since[k]) \in Int
        BY <1>4
      <3>6. since'[k] = since[k]
        BY <1>2, <2>3, <1>4
      <3> DEFINE p == Rate[k] * (lastUpdate[k] - since[k])
                 q == (now - lastUpdate[k]) * Rate[k]
                 w == Rate[k] * (now - since[k])
      <3>7. p \in Int /\ q \in Int /\ w \in Int /\ p + q = w
        BY <3>4, <3>5
      <3>8. consumed[k] + tokens[k] <= Capacity[k] + p /\ Available(k, now) <= tokens[k] + q
        BY <3>1, <3>2
      <3>9. Available(k, now) \in Int
        BY AvailableBounds, <1>1
      <3> HIDE DEF p, q, w
      <3>10. consumed[k] + Available(k, now) <= Capacity[k] + w
        BY <3>7, <3>8, <3>9, <1>4
      <3>11. QED
        BY <2>1, <3>6, <3>10 DEF w
    <2>4. CASE consumed[k] > 0 /\ k \notin exists
      <3>1. consumed[k] <= Capacity[k] + Rate[k] * (lastUpdate[k] - since[k])
        BY <2>4, <1>4 DEF IInv, NoTokenFromNowhere
      <3>2. now - lastUpdate[k] >= TTL - MaxDelay - MaxSkew
        BY <2>4, <1>4 DEF IInv, UsedBefore
      <3> DEFINE g == TTL - MaxDelay - MaxSkew
                 p == Rate[k] * (lastUpdate[k] - since[k])
                 w == Rate[k] * (now - since[k])
      <3>4. p + Rate[k] * g <= w
        <4>1. (lastUpdate[k] - since[k]) + (now - lastUpdate[k]) = now - since[k]
          BY <1>4
        <4>2. g \in Int /\ lastUpdate[k] - since[k] \in Int /\ now - lastUpdate[k] \in Int
          BY <1>4
        <4>3. QED
          BY <3>2, <4>1, <4>2, <1>4, EarnsAtLeast
      <3>5. Capacity[k] <= Rate[k] * g
        BY RefillsBeforeExpiry
      <3>6. p \in Int /\ w \in Int /\ Rate[k] * g \in Int
        BY <1>4
      <3>7. Available(k, now) = Capacity[k]
        BY <2>4, AvailableBounds, <1>1
      <3>8. since'[k] = since[k]
        BY <1>2, <2>4, <1>4
      <3>9. consumed[k] <= Capacity[k] + p
        BY <3>1
      <3> DEFINE m == Rate[k] * g
      <3>10. m \in Int /\ p + m <= w /\ Capacity[k] <= m
        BY <3>4, <3>5, <3>6
      <3> HIDE DEF p, w, m
      <3>11. consumed[k] + Capacity[k] <= Capacity[k] + w
        BY <3>6, <3>9, <3>10, <1>4
      <3>12. QED
        BY <2>1, <3>7, <3>8, <3>11 DEF w
    <2>5. QED
      BY <2>2, <2>3, <2>4, <1>4
  <1>8. NoTokenFromNowhere'
    <2>1. SUFFICES ASSUME NEW j \in BucketKeys, consumed'[j] > 0
                   PROVE  consumed'[j] + (IF j \in exists' THEN tokens'[j] ELSE 0)
                            <= Capacity[j] + Rate[j] * (lastUpdate'[j] - since'[j])
      BY DEF NoTokenFromNowhere
    <2>2. CASE j = k
      BY <1>2, <1>7, <2>2
    <2>3. CASE j # k
      BY <1>3, <2>1, <2>3 DEF IInv, NoTokenFromNowhere
    <2>4. QED
      BY <2>2, <2>3
  <1>9. QED
    BY <1>5, <1>6, <1>8
------------------------------------------------------------------------------
\* No bucket exists at first, and the invariant holds.
LEMMA Initially == LimiterInit => IInv
  <1> USE LimiterAssumption
  <1>1. LimiterInit => LimiterTypeOK
    BY DEF LimiterInit, LimiterTypeOK
  <1>2. LimiterInit => Stamped /\ UsedBefore /\ Opened /\ NoTokenFromNowhere
    BY DEF LimiterInit, Stamped, UsedBefore, Opened, NoTokenFromNowhere
  <1>3. QED
    BY <1>1, <1>2 DEF IInv

\* A call that takes from the bucket of its dimension, whether its reply
\* arrives or not.
LEMMA TakeStep ==
    ASSUME IInv, NEW c \in Callers, Grant(c) \/ Resend(c)
    PROVE  IInv'
  <1> USE LimiterAssumption
  <1> DEFINE k == Dimension(c)
             now == sent[c]
  <1>1. LimiterTypeOK
    BY DEF IInv
  <1>2. k \in BucketKeys
    <2>1. granted[c] \in 0..(NumDimensions - 1)
      BY <1>1 DEF LimiterTypeOK
    <2>2. granted[c] + 1 \in Dimensions
      BY <2>1 DEF Dimensions
    <2>3. QED
      BY <2>2 DEF Dimension
  <1>3. /\ now \in Nat /\ now = (time - delay[c]) + Skew[c]
        /\ delay[c] \in 0..MaxDelay /\ Skew[c] \in 0..MaxSkew
    BY <1>1 DEF IInv, Stamped, LimiterTypeOK, Grant, Resend
  <1>4. Available(k, now) >= Cost /\ Take(k, now) /\ time' = time
    BY DEF Grant, Resend
  <1> HIDE DEF k, now
  <1>5. UsedBefore' /\ Opened' /\ NoTokenFromNowhere'
    BY <1>2, <1>3, <1>4, TakePotential
  <1>6. /\ granted' \in [Callers -> 0..(NumDimensions - 1)]
        /\ sent' \in [Callers -> Nat \union {NotSent}]
        /\ delay' \in [Callers -> 0..MaxDelay]
        /\ resends' \in [Callers -> 0..MaxResends]
        /\ passed' \in [BucketKeys -> Nat]
    <2>1. CASE Grant(c)
      <3>1. (granted[c] + 1) % NumDimensions \in 0..(NumDimensions - 1)
        BY <1>1 DEF LimiterTypeOK
      <3>2. passed' \in [BucketKeys -> Nat]
        BY <1>1, <2>1 DEF Grant, LimiterTypeOK
      <3>3. QED
        BY <1>1, <2>1, <3>1, <3>2 DEF Grant, Answered, LimiterTypeOK
    <2>2. CASE Resend(c)
      BY <1>1, <2>2 DEF Resend, LimiterTypeOK
    <2>3. QED
      BY <2>1, <2>2
  <1>7. LimiterTypeOK'
    BY <1>1, <1>2, <1>3, <1>4, <1>6, TakeType DEF LimiterTypeOK
  <1>8. Stamped'
    BY <1>1, <1>4 DEF IInv, Stamped, Grant, Resend, Answered, LimiterTypeOK
  <1>9. QED
    BY <1>5, <1>7, <1>8 DEF IInv

\* A step that leaves the buckets and the time alone.
LEMMA CallStep ==
    ASSUME IInv, NEW c \in Callers, Stamp(c) \/ Deny(c) \/ Unreachable(c)
    PROVE  IInv'
  <1> USE LimiterAssumption
  <1>1. LimiterTypeOK
    BY DEF IInv
  <1>2. UNCHANGED <<time, redis, tally>>
    BY DEF Stamp, Deny, Unreachable
  <1>3. time + Skew[c] \in Nat
    BY <1>1 DEF LimiterTypeOK
  <1>4. /\ granted' \in [Callers -> 0..(NumDimensions - 1)]
        /\ sent' \in [Callers -> Nat \union {NotSent}]
        /\ delay' \in [Callers -> 0..MaxDelay]
        /\ resends' \in [Callers -> 0..MaxResends]
    <2>1. CASE Stamp(c)
      <3> DEFINE now == time + Skew[c]
      <3>1. sent' = [sent EXCEPT ![c] = now] /\ now \in Nat
        BY <1>3, <2>1 DEF Stamp
      <3> HIDE DEF now
      <3>2. sent' \in [Callers -> Nat \union {NotSent}]
        BY <1>1, <3>1 DEF LimiterTypeOK
      <3>3. QED
        BY <1>1, <2>1, <3>2 DEF Stamp, LimiterTypeOK
    <2>2. CASE Deny(c) \/ Unreachable(c)
      <3>1. granted' = [granted EXCEPT ![c] = 0] /\ Answered(c)
        BY <2>2 DEF Deny, Unreachable
      <3>2. 0 \in 0..(NumDimensions - 1)
        OBVIOUS
      <3>3. granted' \in [Callers -> 0..(NumDimensions - 1)]
        BY <1>1, <3>1, <3>2 DEF LimiterTypeOK
      <3>4. QED
        BY <1>1, <3>1, <3>3 DEF Answered, LimiterTypeOK
    <2>3. QED
      BY <2>1, <2>2
  <1>5. LimiterTypeOK'
    BY <1>1, <1>2, <1>4 DEF LimiterTypeOK, redis, tally
  <1>6. Stamped'
    <2>1. SUFFICES ASSUME NEW e \in Callers, sent'[e] # NotSent
                   PROVE  sent'[e] = (time' - delay'[e]) + Skew[e]
      BY DEF Stamped
    <2>2. CASE e = c
      <3>1. Stamp(c)
        BY <1>1, <2>1, <2>2 DEF Deny, Unreachable, Answered, LimiterTypeOK
      <3>2. sent'[c] = time + Skew[c] /\ delay'[c] = 0 /\ time' = time
        BY <1>1, <3>1 DEF Stamp, LimiterTypeOK
      <3>3. QED
        BY <1>1, <2>2, <3>2 DEF LimiterTypeOK
    <2>3. CASE e # c
      <3>1. sent'[e] = sent[e] /\ delay'[e] = delay[e] /\ time' = time
        BY <1>1, <2>3 DEF Stamp, Deny, Unreachable, Answered, LimiterTypeOK
      <3>2. QED
        BY <2>1, <3>1 DEF IInv, Stamped
    <2>4. QED
      BY <2>2, <2>3
  <1>7. UsedBefore' /\ Opened' /\ NoTokenFromNowhere'
    BY <1>2 DEF IInv, UsedBefore, Opened, NoTokenFromNowhere, redis, tally
  <1>8. QED
    BY <1>5, <1>6, <1>7 DEF IInv

\* A second passes; the buckets whose time is up are gone.
LEMMA TickStep ==
    ASSUME IInv, Tick
    PROVE  IInv'
  <1> USE LimiterAssumption
  <1>1. LimiterTypeOK /\ UsedBefore
    BY DEF IInv
  <1>2. LimiterTypeOK'
    <2>1. delay' \in [Callers -> 0..MaxDelay]
      BY <1>1 DEF Tick, LimiterTypeOK
    <2>2. ttl' \in [BucketKeys -> 0..TTL]
      BY <1>1 DEF Tick, LimiterTypeOK, UsedBefore
    <2>3. QED
      BY <1>1, <2>1, <2>2 DEF Tick, LimiterTypeOK, tally
  <1>3. Stamped'
    <2>1. SUFFICES ASSUME NEW e \in Callers, sent'[e] # NotSent
                   PROVE  sent'[e] = (time' - delay'[e]) + Skew[e]
      BY DEF Stamped
    <2>2. sent[e] = (time - delay[e]) + Skew[e]
      BY <2>1 DEF IInv, Stamped, Tick
    <2>3. sent'[e] = sent[e] /\ time' = time + 1 /\ delay'[e] = delay[e] + 1
      BY <1>1, <2>1 DEF Tick, LimiterTypeOK
    <2>4. time \in Int /\ delay[e] \in Int /\ Skew[e] \in Int
      BY <1>1 DEF LimiterTypeOK
    <2>5. time' - delay'[e] = time - delay[e]
      <3> HIDE LimiterAssumption
      <3>1. QED
        BY <2>3, <2>4
    <2>6. QED
      BY <2>2, <2>3, <2>5
  <1>4. UsedBefore'
    BY <1>1 DEF UsedBefore, Tick, LimiterTypeOK, tally
  <1>5. Opened'
    BY DEF IInv, Opened, Tick, tally
  <1>6. NoTokenFromNowhere'
    BY <1>1 DEF IInv, NoTokenFromNowhere, Tick, LimiterTypeOK, tally
  <1>7. QED
    BY <1>2, <1>3, <1>4, <1>5, <1>6 DEF IInv

\* Every step keeps the invariant, so it holds in every reachable state.
LEMMA Inductive == LimiterSpec => []IInv
  <1>1. IInv /\ [LimiterNext]_limiterVars => IInv'
    <2> SUFFICES ASSUME IInv, [LimiterNext]_limiterVars
                 PROVE  IInv'
      OBVIOUS
    <2>1. CASE UNCHANGED limiterVars
      BY <2>1 DEF limiterVars, redis, calls, tally, IInv, LimiterTypeOK, Stamped, UsedBefore, Opened,
                  NoTokenFromNowhere
    <2>2. QED
      BY <2>1, TakeStep, CallStep, TickStep DEF LimiterNext
  <1>2. QED
    BY Initially, <1>1, PTL DEF LimiterSpec

\* Every reachable bucket holds between zero tokens and its capacity.
THEOREM TypeCorrect == LimiterSpec => []LimiterTypeOK
  <1>1. IInv => LimiterTypeOK
    BY DEF IInv
  <1>2. QED
    BY Inductive, <1>1, PTL

\* However the clocks of the gateways differ, and whatever is retried, delayed
\* or expired, a bucket gives out its capacity and its rate, and no more.
THEOREM NoTokenCreated == LimiterSpec => []NoTokenFromNowhere
  <1>1. IInv => NoTokenFromNowhere
    BY DEF IInv
  <1>2. QED
    BY Inductive, <1>1, PTL
------------------------------------------------------------------------------
(* The calls that pass *)

\* The calls under way that have been charged to a bucket.
Paid(k) == {c \in Callers : \E d \in 1..granted[c] : BucketsOf[c][d] = k}

\* A bucket has given a charge to every call that has passed, and to every call that is
\* on its way to.
PaidFor == \A k \in BucketKeys : Cost * (passed[k] + Cardinality(Paid(k))) <= consumed[k]

\* Arithmetic of charges.
LEMMA ChargesGrow ==
    ASSUME NEW a \in Nat, NEW x \in Nat, NEW y \in Nat, y <= x + 1
    PROVE  /\ y <= x => a * y <= a * x
           /\ a * y <= a * x + a
  <1>1. \A n, m \in Nat : n * m \in Nat
    BY Z3
  <1>2. ASSUME NEW z \in Nat, y <= z
        PROVE  a * y <= a * z
    <2>1. a * (z - y) \in Nat
      BY <1>1, <1>2
    <2>2. a * y + a * (z - y) = a * z
      BY Z3
    <2>3. a * y \in Nat /\ a * z \in Nat
      BY <1>1
    <2>4. QED
      BY <2>1, <2>2, <2>3
  <1>3. a * (x + 1) = a * x + a
    BY Z3
  <1>4. QED
    BY <1>2, <1>3

\* There are finitely many such calls.
LEMMA PaidFinite ==
    ASSUME NEW k
    PROVE  IsFiniteSet(Paid(k)) /\ Cardinality(Paid(k)) \in Nat
  <1>1. Paid(k) \subseteq Callers
    BY DEF Paid
  <1>2. QED
    BY <1>1, LimiterAssumption, FS_Subset, FS_CardinalityType

\* The same of the next state.
LEMMA PaidFiniteNext ==
    ASSUME NEW k
    PROVE  IsFiniteSet(Paid(k)') /\ Cardinality(Paid(k)') \in Nat
  <1>1. Paid(k)' \subseteq Callers
    BY DEF Paid
  <1>2. QED
    BY <1>1, LimiterAssumption, FS_Subset, FS_CardinalityType

\* What a bucket has given covers what its calls count, as long as both grow alike.
LEMMA StaysPaid ==
    ASSUME LimiterTypeOK, LimiterTypeOK', PaidFor, NEW k \in BucketKeys,
           LET n  == passed[k] + Cardinality(Paid(k))
               n1 == passed'[k] + Cardinality(Paid(k)')
           IN  \/ n1 <= n /\ consumed'[k] >= consumed[k]
               \/ n1 <= n + 1 /\ consumed'[k] = consumed[k] + Cost
    PROVE  Cost * (passed'[k] + Cardinality(Paid(k)')) <= consumed'[k]
  <1> DEFINE n  == passed[k] + Cardinality(Paid(k))
             n1 == passed'[k] + Cardinality(Paid(k)')
  <1>1. n \in Nat /\ n1 \in Nat /\ Cost \in Nat
    BY PaidFinite, PaidFiniteNext, LimiterAssumption DEF LimiterTypeOK
  <1>2. consumed[k] \in Nat /\ consumed'[k] \in Nat
    BY DEF LimiterTypeOK
  <1>3. Cost * n <= consumed[k]
    BY DEF PaidFor
  <1>4. \/ n1 <= n /\ consumed'[k] >= consumed[k]
        \/ n1 <= n + 1 /\ consumed'[k] = consumed[k] + Cost
    OBVIOUS
  <1> HIDE DEF n, n1
  <1>5. Cost * n \in Nat /\ Cost * n1 \in Nat
    BY <1>1, Z3
  <1>6. Cost * n1 <= consumed'[k]
    <2>1. CASE n1 <= n /\ consumed'[k] >= consumed[k]
      <3>1. Cost * n1 <= Cost * n
        BY <1>1, <2>1, ChargesGrow
      <3>2. QED
        BY <1>2, <1>3, <1>5, <2>1, <3>1
    <2>2. CASE n1 <= n + 1 /\ consumed'[k] = consumed[k] + Cost
      <3>1. Cost * n1 <= Cost * n + Cost
        BY <1>1, <2>2, ChargesGrow
      <3>2. QED
        BY <1>1, <1>2, <1>3, <1>5, <2>2, <3>1
    <2>3. QED
      BY <1>4, <2>1, <2>2
  <1>7. QED
    BY <1>6 DEF n1

\* A call moves from its dimension to the next, or through.
LEMMA GrantPays ==
    ASSUME IInv, IInv', PaidFor, NEW c \in Callers, Grant(c)
    PROVE  PaidFor'
  <1> SUFFICES ASSUME NEW k \in BucketKeys
               PROVE  Cost * (passed'[k] + Cardinality(Paid(k)')) <= consumed'[k]
    BY DEF PaidFor
  <1>1. LimiterTypeOK /\ LimiterTypeOK'
    BY DEF IInv
  <1>2. /\ granted[c] \in 0..(NumDimensions - 1) /\ NumDimensions \in Nat \ {0}
        /\ passed[k] \in Nat /\ consumed[k] \in Nat
        /\ \A q \in Callers \ {c} : granted'[q] = granted[q]
    BY <1>1, LimiterAssumption DEF LimiterTypeOK, Grant
  <1>3. /\ Dimension(c) = k => consumed'[k] = consumed[k] + Cost
        /\ Dimension(c) # k => consumed'[k] = consumed[k]
    BY <1>1 DEF Grant, Take, LimiterTypeOK
  <1>4. /\ IsFiniteSet(Paid(k)) /\ Cardinality(Paid(k)) \in Nat
        /\ IsFiniteSet(Paid(k)') /\ Cardinality(Paid(k)') \in Nat
    BY PaidFinite, PaidFiniteNext
  <1>5. CASE granted[c] # NumDimensions - 1
    <2>1. granted'[c] = granted[c] + 1 /\ passed' = passed
      <3>1. (granted[c] + 1) % NumDimensions = granted[c] + 1
        BY <1>2, <1>5
      <3>2. QED
        BY <1>1, <1>5, <3>1 DEF Grant, LimiterTypeOK
    <2>2. Paid(k)' = IF Dimension(c) = k THEN Paid(k) \union {c} ELSE Paid(k)
      BY <1>2, <2>1 DEF Paid, Dimension
    <2>3. CASE Dimension(c) = k
      <3>1. Cardinality(Paid(k)') <= Cardinality(Paid(k)) + 1
        BY <1>4, <2>2, <2>3, FS_AddElement
      <3>2. QED
        BY <1>1, <1>2, <1>3, <1>4, <2>1, <2>3, <3>1, StaysPaid
    <2>4. CASE Dimension(c) # k
      BY <1>1, <1>2, <1>3, <1>4, <2>1, <2>2, <2>4, StaysPaid
    <2>5. QED
      BY <2>3, <2>4
  <1>6. CASE granted[c] = NumDimensions - 1
    <2>1. granted'[c] = 0
      <3>1. (granted[c] + 1) % NumDimensions = 0
        BY <1>2, <1>6
      <3>2. QED
        BY <1>1, <3>1 DEF Grant, LimiterTypeOK
    <2>2. passed'[k] = IF \E d \in Dimensions : BucketsOf[c][d] = k THEN passed[k] + 1 ELSE passed[k]
      BY <1>6 DEF Grant
    <2>3. Paid(k)' = Paid(k) \ {c}
      BY <1>2, <2>1 DEF Paid
    <2>4. (\E d \in Dimensions : BucketsOf[c][d] = k) => Dimension(c) = k \/ c \in Paid(k)
      BY <1>2, <1>6 DEF Dimensions, Dimension, Paid
    <2>5. Cardinality(Paid(k)') <= Cardinality(Paid(k))
      BY <1>4, <2>3, FS_Subset
    <2>6. c \in Paid(k) => Cardinality(Paid(k)') = Cardinality(Paid(k)) - 1
      BY <1>4, <2>3, FS_RemoveElement
    <2>7. CASE Dimension(c) = k
      BY <1>1, <1>2, <1>3, <1>4, <2>2, <2>5, <2>7, StaysPaid
    <2>8. CASE Dimension(c) # k
      <3>1. passed'[k] + Cardinality(Paid(k)') <= passed[k] + Cardinality(Paid(k))
        <4>1. CASE c \in Paid(k)
          BY <1>2, <1>4, <2>2, <2>6, <4>1
        <4>2. CASE c \notin Paid(k)
          BY <1>2, <1>4, <2>2, <2>4, <2>5, <2>8, <4>2
        <4>3. QED
          BY <4>1, <4>2
      <3>2. QED
        BY <1>1, <1>2, <1>3, <2>8, <3>1, StaysPaid
    <2>9. QED
      BY <2>7, <2>8
  <1>7. QED
    BY <1>5, <1>6

\* No other step counts a call.
LEMMA OthersPay ==
    ASSUME IInv, IInv', PaidFor,
           \/ \E c \in Callers : Stamp(c) \/ Resend(c) \/ Deny(c) \/ Unreachable(c)
           \/ Tick
           \/ UNCHANGED limiterVars
    PROVE  PaidFor'
  <1> SUFFICES ASSUME NEW k \in BucketKeys
               PROVE  Cost * (passed'[k] + Cardinality(Paid(k)')) <= consumed'[k]
    BY DEF PaidFor
  <1>1. LimiterTypeOK /\ LimiterTypeOK'
    BY DEF IInv
  <1>2. passed[k] \in Nat /\ consumed[k] \in Nat /\ Cost \in Nat
    BY <1>1, LimiterAssumption DEF LimiterTypeOK
  <1>3. passed' = passed /\ consumed'[k] >= consumed[k]
    BY <1>1, <1>2 DEF Stamp, Resend, Deny, Unreachable, Tick, Take, tally, limiterVars, LimiterTypeOK
  <1>4. \A q \in Callers : granted'[q] \in {granted[q], 0}
    BY <1>1 DEF Stamp, Resend, Deny, Unreachable, Tick, limiterVars, calls, LimiterTypeOK
  <1>5. Paid(k)' \subseteq Paid(k)
    BY <1>4 DEF Paid
  <1>6. Cardinality(Paid(k)') <= Cardinality(Paid(k))
        /\ Cardinality(Paid(k)) \in Nat /\ Cardinality(Paid(k)') \in Nat
    BY <1>5, PaidFinite, PaidFiniteNext, FS_Subset
  <1>7. passed'[k] + Cardinality(Paid(k)') <= passed[k] + Cardinality(Paid(k))
    BY <1>2, <1>3, <1>6
  <1>8. QED
    BY <1>1, <1>3, <1>7, StaysPaid

\* So it holds in every reachable state.
LEMMA PaidInvariant == LimiterSpec => []PaidFor
  <1>1. LimiterInit => PaidFor
    <2>1. SUFFICES ASSUME LimiterInit, NEW k \in BucketKeys
                   PROVE  Cost * (passed[k] + Cardinality(Paid(k))) <= consumed[k]
      BY DEF PaidFor
    <2>2. Paid(k) = {}
      BY <2>1 DEF LimiterInit, Paid
    <2>3. passed[k] + Cardinality(Paid(k)) = 0 /\ consumed[k] = 0
      BY <2>1, <2>2, FS_EmptySet DEF LimiterInit
    <2>4. QED
      BY <2>3, LimiterAssumption
  <1>2. IInv /\ IInv' /\ PaidFor /\ [LimiterNext]_limiterVars => PaidFor'
    BY GrantPays, OthersPay DEF LimiterNext
  <1>3. QED
    BY Inductive, <1>1, <1>2, PTL DEF LimiterSpec

\* The limiter does what it is for: the requests that pass all their dimensions stay,
\* in each of their buckets, within its capacity and its rate, although a call is
\* charged to one bucket after the other and may be refused, repeated or lost between.
THEOREM PassesBounded == LimiterSpec => []PassesWithinRate
  <1>1. IInv /\ PaidFor => PassesWithinRate
    <2> SUFFICES ASSUME IInv, PaidFor, NEW k \in BucketKeys, passed[k] > 0
                 PROVE  passed[k] * Cost <= Capacity[k] + Rate[k] * (lastUpdate[k] - since[k])
      BY DEF PassesWithinRate
    <2> DEFINE m == Cardinality(Paid(k))
               n == passed[k]
               w == Rate[k] * (lastUpdate[k] - since[k])
    <2>1. /\ n \in Nat \ {0} /\ Cost \in Nat \ {0} /\ m \in Nat /\ consumed[k] \in Nat
          /\ tokens[k] \in Nat /\ Capacity[k] \in Nat
          /\ Rate[k] \in Nat /\ lastUpdate[k] \in Nat /\ since[k] \in Nat
      BY PaidFinite, LimiterAssumption DEF IInv, LimiterTypeOK
    <2>2. Cost * (n + m) <= consumed[k]
      BY DEF PaidFor
    <2>3. w \in Int
      BY <2>1
    <2> HIDE DEF m, n, w
    <2>4. n * Cost <= Cost * (n + m) /\ n * Cost > 0
      <3>1. \A x, y \in Nat : x * y \in Nat
        BY Z3
      <3>2. Cost * (n + m) = n * Cost + Cost * m
        BY <2>1, Z3
      <3>3. Cost * m \in Nat /\ n * Cost \in Nat
        BY <2>1, <3>1
      <3>4. n * Cost # 0
        BY <2>1, Z3
      <3>5. QED
        BY <3>2, <3>3, <3>4
    <2>5. Cost * (n + m) \in Int /\ n * Cost \in Int
      BY <2>1
    <2>6. consumed[k] > 0 /\ n * Cost <= consumed[k]
      BY <2>1, <2>2, <2>4, <2>5
    <2>7. consumed[k] + (IF k \in exists THEN tokens[k] ELSE 0) <= Capacity[k] + w
      BY <2>6 DEF IInv, NoTokenFromNowhere, w
    <2>8. n * Cost <= Capacity[k] + w
      BY <2>1, <2>3, <2>5, <2>6, <2>7
    <2>9. QED
      BY <2>8 DEF n, w
  <1>2. QED
    BY <1>1, Inductive, PaidInvariant, PTL
==============================================================================
