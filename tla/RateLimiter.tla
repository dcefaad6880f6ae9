----------------------------- MODULE RateLimiter -----------------------------
(***************************************************************************)
(* internal/breaker/limiter.go: token buckets kept in Redis, one for each  *)
(* user, app and model, and CheckMultiDimension, which charges a request   *)
(* to its buckets one after the other.                                     *)
(*                                                                         *)
(* The script runs atomically in Redis, but the time it is given was read  *)
(* by the calling gateway before the call went out.  So the script sees    *)
(* the clocks of several hosts, and in an order that is not theirs.  The   *)
(* Redis client resends a call whose reply is lost, and a bucket that      *)
(* nothing was taken from for a while expires.                             *)
(*                                                                         *)
(* Time is in seconds, as in time.Now().Unix().  Rates are whole numbers.  *)
(***************************************************************************)
EXTENDS Integers, FiniteSets

CONSTANTS
    BucketKeys,     \* Redis keys "ratelimit:<dimension>:<identifier>"
    Callers,        \* concurrent calls of CheckMultiDimension
    NumDimensions,  \* three in the code: user, app, model
    BucketsOf,      \* BucketsOf[c]: the buckets of the call, in the order they are charged
    Capacity,       \* Capacity[k], the bucket's size
    Rate,           \* Rate[k], tokens gained in a second
    Cost,           \* tokens a call asks for (1 in ChatHandler.Handle)
    Skew,           \* Skew[c]: how far the clock of the caller's host is ahead
    MaxSkew,        \* no two clocks differ by more
    TTL,            \* EXPIRE key 3600
    MaxDelay,       \* a call answers or fails within this time (client timeouts)
    NotSent,        \* no call is out
    MaxResends,     \* BOUND: resends of one call by the Redis client
    MaxTime         \* BOUND: the time explored

Dimensions == 1 .. NumDimensions

ASSUME LimiterAssumption ==
    /\ IsFiniteSet(Callers)
    /\ NumDimensions \in Nat \ {0}
    /\ BucketsOf \in [Callers -> [Dimensions -> BucketKeys]]
    /\ Capacity \in [BucketKeys -> Nat]
    /\ Rate \in [BucketKeys -> Nat]
    /\ Cost \in Nat \ {0}
    /\ MaxSkew \in Nat
    /\ Skew \in [Callers -> 0..MaxSkew]
    /\ TTL \in Nat \ {0}
    /\ MaxDelay \in Nat
    /\ NotSent \notin Int
    /\ MaxResends \in Nat
    /\ MaxTime \in Nat

\* A bucket that expires would have been full again by then: 3600 s at the
\* shipped rates refill every bucket many times over.
ASSUME RefillsBeforeExpiry ==
    /\ MaxDelay + MaxSkew <= TTL
    /\ \A k \in BucketKeys : Capacity[k] <= Rate[k] * (TTL - MaxDelay - MaxSkew)

VARIABLES
    time,           \* real time
    exists,         \* buckets present in Redis
    tokens,         \* hash field "tokens"
    lastUpdate,     \* hash field "last_update"
    ttl,            \* seconds until Redis drops the bucket
    granted,        \* dimensions that have let the call pass so far
    sent,           \* the now argument of the script call that is out, or NotSent
    delay,          \* time since that call was stamped
    resends,        \* resends of that call
    consumed,       \* HISTORY: tokens taken from a bucket
    since,          \* HISTORY: the now argument that first created it
    passed          \* HISTORY: calls charged to a bucket and let through

redis == <<exists, tokens, lastUpdate, ttl>>
calls == <<granted, sent, delay, resends>>
tally == <<consumed, since, passed>>
limiterVars == <<time, redis, calls, tally>>

LimiterTypeOK ==
    /\ time \in Nat
    /\ exists \in SUBSET BucketKeys
    /\ tokens \in [BucketKeys -> Nat]
    /\ \A k \in BucketKeys : tokens[k] <= Capacity[k]
    /\ lastUpdate \in [BucketKeys -> Nat]
    /\ ttl \in [BucketKeys -> 0..TTL]
    /\ granted \in [Callers -> 0..(NumDimensions - 1)]
    /\ sent \in [Callers -> Nat \union {NotSent}]
    /\ delay \in [Callers -> 0..MaxDelay]
    /\ resends \in [Callers -> 0..MaxResends]
    /\ consumed \in [BucketKeys -> Nat]
    /\ since \in [BucketKeys -> Nat]
    /\ passed \in [BucketKeys -> Nat]

LimiterInit ==
    /\ time = 0
    /\ exists = {}
    /\ tokens = [k \in BucketKeys |-> 0]
    /\ lastUpdate = [k \in BucketKeys |-> 0]
    /\ ttl = [k \in BucketKeys |-> 0]
    /\ granted = [c \in Callers |-> 0]
    /\ sent = [c \in Callers |-> NotSent]
    /\ delay = [c \in Callers |-> 0]
    /\ resends = [c \in Callers |-> 0]
    /\ consumed = [k \in BucketKeys |-> 0]
    /\ since = [k \in BucketKeys |-> 0]
    /\ passed = [k \in BucketKeys |-> 0]

------------------------------------------------------------------------------
(* tokenBucketScript *)

Least(a, b) == IF a <= b THEN a ELSE b

\* Mutant of Available: the refill is not capped.
AvailableUncapped(k, now) ==
    IF k \in exists THEN tokens[k] + (now - lastUpdate[k]) * Rate[k] ELSE Capacity[k]

\* Mutant of Available: a clock that went back is taken to have stood still.
AvailableClamped(k, now) ==
    LET elapsed == IF now < lastUpdate[k] THEN 0 ELSE now - lastUpdate[k]
    IN  IF k \in exists THEN Least(Capacity[k], tokens[k] + elapsed * Rate[k]) ELSE Capacity[k]

\* The tokens the script finds.  elapsed may be negative: then the bucket loses
\* tokens, for this call only unless something is taken.
Available(k, now) ==
    IF k \in exists
    THEN Least(Capacity[k], tokens[k] + (now - lastUpdate[k]) * Rate[k])
    ELSE Capacity[k]

\* Mutant of Take: a refill is stored without moving last_update.
TakeKeepsStamp(k, now) ==
    /\ exists' = exists \union {k}
    /\ tokens' = [tokens EXCEPT ![k] = Available(k, now) - Cost]
    /\ lastUpdate' = IF k \in exists THEN lastUpdate ELSE [lastUpdate EXCEPT ![k] = now]
    /\ ttl' = [ttl EXCEPT ![k] = TTL]
    /\ consumed' = [consumed EXCEPT ![k] = @ + Cost]
    /\ since' = IF consumed[k] = 0 THEN [since EXCEPT ![k] = now] ELSE since

Take(k, now) ==
    /\ exists' = exists \union {k}
    /\ tokens' = [tokens EXCEPT ![k] = Available(k, now) - Cost]
    /\ lastUpdate' = [lastUpdate EXCEPT ![k] = now]
    /\ ttl' = [ttl EXCEPT ![k] = TTL]
    /\ consumed' = [consumed EXCEPT ![k] = @ + Cost]
    /\ since' = IF consumed[k] = 0 THEN [since EXCEPT ![k] = now] ELSE since

------------------------------------------------------------------------------
(* AllowRequest and CheckMultiDimension *)

Dimension(c) == BucketsOf[c][granted[c] + 1]

\* AllowRequest reads the clock and sends the script.
Stamp(c) ==
    /\ sent[c] = NotSent
    /\ sent' = [sent EXCEPT ![c] = time + Skew[c]]
    /\ delay' = [delay EXCEPT ![c] = 0]
    /\ resends' = [resends EXCEPT ![c] = 0]
    /\ UNCHANGED <<time, redis, granted, tally>>

Answered(c) ==
    /\ sent' = [sent EXCEPT ![c] = NotSent]
    /\ delay' = [delay EXCEPT ![c] = 0]
    /\ resends' = [resends EXCEPT ![c] = 0]

\* The dimension lets the call pass; the last one lets the request through.
Grant(c) ==
    /\ sent[c] # NotSent
    /\ Available(Dimension(c), sent[c]) >= Cost
    /\ Take(Dimension(c), sent[c])
    /\ granted' = [granted EXCEPT ![c] = (@ + 1) % NumDimensions]
    /\ passed' = IF granted[c] = NumDimensions - 1
                 THEN [k \in BucketKeys |->
                        IF \E d \in Dimensions : BucketsOf[c][d] = k THEN passed[k] + 1 ELSE passed[k]]
                 ELSE passed
    /\ Answered(c)
    /\ UNCHANGED time

\* The script runs and its reply is lost: the client sends the same call again.
Resend(c) ==
    /\ sent[c] # NotSent
    /\ resends[c] < MaxResends
    /\ resends' = [resends EXCEPT ![c] = @ + 1]
    /\ Available(Dimension(c), sent[c]) >= Cost
    /\ Take(Dimension(c), sent[c])
    /\ UNCHANGED <<time, granted, sent, delay, passed>>

\* The dimension refuses, and writes nothing: the request ends with a 429.
Deny(c) ==
    /\ sent[c] # NotSent
    /\ Available(Dimension(c), sent[c]) < Cost
    /\ granted' = [granted EXCEPT ![c] = 0]
    /\ Answered(c)
    /\ UNCHANGED <<time, redis, tally>>

\* Redis cannot be reached, or the client has gone: the request ends with a 429.
Unreachable(c) ==
    /\ sent[c] # NotSent
    /\ granted' = [granted EXCEPT ![c] = 0]
    /\ Answered(c)
    /\ UNCHANGED <<time, redis, tally>>

\* Time passes for the hosts, the calls and Redis, which drops what expires.
Tick ==
    /\ time < MaxTime
    /\ \A c \in Callers : sent[c] # NotSent => delay[c] < MaxDelay
    /\ time' = time + 1
    /\ delay' = [c \in Callers |-> IF sent[c] = NotSent THEN 0 ELSE delay[c] + 1]
    /\ ttl' = [k \in BucketKeys |-> IF k \in exists THEN ttl[k] - 1 ELSE ttl[k]]
    /\ exists' = {k \in exists : ttl[k] > 1}
    /\ UNCHANGED <<tokens, lastUpdate, granted, sent, resends, tally>>

LimiterNext ==
    \/ \E c \in Callers : Stamp(c) \/ Grant(c) \/ Resend(c) \/ Deny(c) \/ Unreachable(c)
    \/ Tick

LimiterSpec == LimiterInit /\ [][LimiterNext]_limiterVars

------------------------------------------------------------------------------
(* Properties *)

\* The potential of a bucket only falls: what was taken and what is left never
\* exceed the capacity and what the clock argument has earned since the first
\* call.  Neither stale clocks, nor skew, resends or expiry create tokens.
NoTokenFromNowhere ==
    \A k \in BucketKeys : consumed[k] > 0 =>
        consumed[k] + (IF k \in exists THEN tokens[k] ELSE 0)
            <= Capacity[k] + Rate[k] * (lastUpdate[k] - since[k])

\* What the limiter is for: the requests let through on a bucket, in every one
\* of their three dimensions, stay within a burst of its capacity and its rate.
PassesWithinRate ==
    \A k \in BucketKeys : passed[k] > 0 =>
        passed[k] * Cost <= Capacity[k] + Rate[k] * (lastUpdate[k] - since[k])
==============================================================================
