---------------------------- MODULE SlidingWindow ----------------------------
(***************************************************************************)
(* The ring of one-second buckets in which the circuit breaker of          *)
(* internal/breaker/circuit.go counts the outcomes of the requests to one  *)
(* API key.                                                                *)
(*                                                                         *)
(* Time.  The code only ever looks at the AGE of a timestamp, compared     *)
(* with one second and with the window, and at the wall-clock second       *)
(* modulo the number of buckets.  So the model keeps ages, in ticks of     *)
(* 1/TicksPerSec second, saturated one tick past the window, and a clock   *)
(* that wraps around after a whole turn of the ring: time is unbounded     *)
(* and the state space is finite.                                          *)
(***************************************************************************)
EXTENDS Integers, FiniteSetsExt

CONSTANTS
    TotalBuckets,   \* seconds in the window: int(WindowSize.Seconds()), at least 1
    TicksPerSec,    \* clock ticks in bucketSize, which is time.Second
    RateNum,        \* ErrorThreshold is RateNum / RateDen
    RateDen

ASSUME WindowAssumption ==
    /\ TotalBuckets \in Nat \ {0}
    /\ TicksPerSec \in Nat \ {0}
    /\ RateNum \in Nat
    /\ RateDen \in Nat \ {0}

Window == TotalBuckets * TicksPerSec

\* An age that no comparison of the code distinguishes from any greater one.
\* It is also the age of Go's zero time.Time in a bucket never written.
Expired == Window + 1

Ages == 0 .. Expired

Older(age) == IF age = Expired THEN age ELSE age + 1

\* The wall clock, modulo the ring.
Clocks == 0 .. (Window - 1)

\* Mutant of NextClock: an off-by-one in the modulus.
NextClockOffByOne(clock) == (clock + 1) % (Window + 1)

NextClock(clock) == (clock + 1) % Window

Bucket == [age : Ages, success : Nat, failure : Nat]
BucketIndex == 0 .. (TotalBuckets - 1)
Buckets == [BucketIndex -> Bucket]

EmptyBucket == [age |-> Expired, success |-> 0, failure |-> 0]
newBuckets == [i \in BucketIndex |-> EmptyBucket]

AgeBuckets(buckets) ==
    [i \in BucketIndex |-> [buckets[i] EXCEPT !.age = Older(@)]]

bucketIndex(clock) == clock \div TicksPerSec

\* Mutant of fresh: a bucket starts a new second with the counters of the old one.
freshKeepsCounts(bucket) ==
    IF bucket.age > TicksPerSec THEN [bucket EXCEPT !.age = 0] ELSE bucket

\* The bucket as record sees it: reset when its timestamp is over a second old.
fresh(bucket) ==
    IF bucket.age > TicksPerSec THEN [age |-> 0, success |-> 0, failure |-> 0] ELSE bucket

record(buckets, clock, success) ==
    LET bucket == fresh(buckets[bucketIndex(clock)])
    IN  [buckets EXCEPT ![bucketIndex(clock)] =
            IF success THEN [bucket EXCEPT !.success = @ + 1]
                       ELSE [bucket EXCEPT !.failure = @ + 1]]

\* Mutant of inWindow: a strict comparison with a window one second short.
inWindowShort(bucket) == bucket.age < Window - TicksPerSec

\* "Only count data within the window".
inWindow(bucket) == bucket.age <= Window

Counted(buckets) == {i \in BucketIndex : inWindow(buckets[i])}
totalSuccess(buckets) == MapThenSumSet(LAMBDA i : buckets[i].success, Counted(buckets))
totalFailure(buckets) == MapThenSumSet(LAMBDA i : buckets[i].failure, Counted(buckets))

\* calculateErrorRate(...) > ErrorThreshold, in integers.  An empty window has
\* rate 0, which no threshold of Nat is below.
RateAbove(buckets) ==
    LET bad   == totalFailure(buckets)
        total == totalSuccess(buckets) + bad
    IN  bad * RateDen > RateNum * total

\* calculateErrorRate(...) < ErrorThreshold.
RateBelow(buckets) ==
    LET bad   == totalFailure(buckets)
        total == totalSuccess(buckets) + bad
    IN  IF total = 0 THEN RateNum > 0 ELSE bad * RateDen < RateNum * total
==============================================================================
