---------------------------- MODULE WindowAccuracy ----------------------------
(***************************************************************************)
(* How far the ring of buckets may be from an exact sliding window.        *)
(*                                                                         *)
(* One key's ring, fed with outcomes at arbitrary ticks, next to an exact  *)
(* log of the outcomes of the last Window ticks.  The log is not in the    *)
(* code: it is the reference the ring is compared with.                    *)
(***************************************************************************)
EXTENDS SlidingWindow

CONSTANT
    MaxPerTick      \* BOUND: outcomes recorded within one tick

ASSUME MaxPerTickAssumption == MaxPerTick \in Nat \ {0}

VARIABLES
    now,            \* wall clock modulo the ring
    ring,           \* SlidingWindow.buckets
    log             \* log[a]: the outcomes recorded exactly a ticks ago

ringVars == <<now, ring, log>>

LogAges == 0 .. Window
NoOutcome == [success |-> 0, failure |-> 0]

RingTypeOK ==
    /\ now \in Clocks
    /\ ring \in Buckets
    /\ log \in [LogAges -> [success : 0..MaxPerTick, failure : 0..MaxPerTick]]

RingInit ==
    /\ now \in Clocks
    /\ ring = newBuckets
    /\ log = [a \in LogAges |-> NoOutcome]

Outcome(success) ==
    /\ log[0].success + log[0].failure < MaxPerTick
    /\ ring' = record(ring, now, success)
    /\ log' = IF success THEN [log EXCEPT ![0].success = @ + 1]
                         ELSE [log EXCEPT ![0].failure = @ + 1]
    /\ UNCHANGED now

RingTick ==
    /\ now' = NextClock(now)
    /\ ring' = AgeBuckets(ring)
    /\ log' = [a \in LogAges |-> IF a = 0 THEN NoOutcome ELSE log[a - 1]]

RingNext ==
    \/ \E success \in BOOLEAN : Outcome(success)
    \/ RingTick

RingSpec == RingInit /\ [][RingNext]_ringVars

------------------------------------------------------------------------------
SuccessesWithin(age) == MapThenSumSet(LAMBDA a : log[a].success, 0..age)
FailuresWithin(age) == MapThenSumSet(LAMBDA a : log[a].failure, 0..age)

\* The error rate never counts an outcome older than the window, and counts no
\* outcome twice: neither a reused bucket nor a stale one leaks into the rate
\* (record resets by age, calculateErrorRate filters by age).
NeverCountsStale ==
    /\ totalSuccess(ring) <= SuccessesWithin(Window)
    /\ totalFailure(ring) <= FailuresWithin(Window)

\* Every outcome of the last TotalBuckets - 1 seconds is counted: a bucket takes
\* the timestamp of its FIRST outcome, so its later ones may leave the window up
\* to a second early, and never earlier than that.
CountsRecent ==
    /\ totalSuccess(ring) >= SuccessesWithin(Window - TicksPerSec)
    /\ totalFailure(ring) >= FailuresWithin(Window - TicksPerSec)
==============================================================================
