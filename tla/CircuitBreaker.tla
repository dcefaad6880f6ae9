--------------------------- MODULE CircuitBreaker ---------------------------
(***************************************************************************)
(* internal/breaker/circuit.go: one sliding window and one breaker state   *)
(* per API key, as internal/router/failover.go drives it.  An attempt asks *)
(* AllowRequest, runs, and then calls RecordSuccess or RecordFailure with  *)
(* the same key; many attempts do so at once, so an outcome may be         *)
(* recorded in a breaker state other than the one that admitted it.        *)
(*                                                                         *)
(* Each operation runs under window.mu and is one action.  An AllowRequest *)
(* that refuses changes nothing (but may create the window of the key) and *)
(* leaves the attempt's slot free.                                         *)
(***************************************************************************)
EXTENDS SlidingWindow

CONSTANTS
    Keys,               \* API keys
    Requests,           \* slots for attempts in flight
    NoKey,              \* the slot is free
    MaxRequests,        \* config.MaxRequests
    HalfOpenTimeout,    \* config.HalfOpenTimeout, in ticks
    MaxPerBucket        \* BOUND: outcomes recorded in one bucket

ASSUME CircuitBreakerAssumption ==
    /\ NoKey \notin Keys
    /\ MaxRequests \in Nat
    /\ HalfOpenTimeout \in Nat
    /\ MaxPerBucket \in Nat \ {0}

VARIABLES
    clock,          \* wall clock modulo the ring
    known,          \* keys with an entry in cb.windows
    state,          \* window.state
    sinceChange,    \* age of window.lastStateChange, saturated
    halfOpenCount,  \* window.halfOpenCount
    buckets,        \* window.buckets
    inflight        \* the key an attempt holds, admitted and not yet recorded

window == <<state, sinceChange, halfOpenCount, buckets>>
vars == <<clock, known, window, inflight>>

CircuitState == {"closed", "open", "halfOpen"}

\* Past HalfOpenTimeout every age is the same to AllowRequest.
LongAgo == HalfOpenTimeout + 1
ChangeAges == 0 .. LongAgo

TypeOK ==
    /\ clock \in Clocks
    /\ known \in SUBSET Keys
    /\ state \in [Keys -> CircuitState]
    /\ sinceChange \in [Keys -> ChangeAges]
    /\ halfOpenCount \in [Keys -> 0..MaxRequests]
    /\ buckets \in [Keys -> Buckets]
    /\ inflight \in [Requests -> Keys \union {NoKey}]

\* What newWindow builds.  A window that does not exist yet is kept in this
\* state, which is what LoadOrStore stores at the first call for its key
\* (lastStateChange is not read in a closed window).
Init ==
    /\ clock \in Clocks
    /\ known = {}
    /\ state = [k \in Keys |-> "closed"]
    /\ sinceChange = [k \in Keys |-> 0]
    /\ halfOpenCount = [k \in Keys |-> 0]
    /\ buckets = [k \in Keys |-> newBuckets]
    /\ inflight = [r \in Requests |-> NoKey]

------------------------------------------------------------------------------
(* AllowRequest *)

allowClosed(k) ==
    /\ state[k] = "closed"
    /\ UNCHANGED window

\* Mutant of allowOpen: halfOpenCount keeps the value of the last half-open period.
allowOpenNoReset(k) ==
    /\ state[k] = "open"
    /\ sinceChange[k] > HalfOpenTimeout
    /\ state' = [state EXCEPT ![k] = "halfOpen"]
    /\ sinceChange' = [sinceChange EXCEPT ![k] = 0]
    /\ UNCHANGED <<halfOpenCount, buckets>>

\* Mutant of allowOpen: the probe is let through and the state stays open.
allowOpenStays(k) ==
    /\ state[k] = "open"
    /\ sinceChange[k] > HalfOpenTimeout
    /\ UNCHANGED window

\* The request that moves an open window to half-open is not counted in
\* halfOpenCount.
allowOpen(k) ==
    /\ state[k] = "open"
    /\ sinceChange[k] > HalfOpenTimeout
    /\ state' = [state EXCEPT ![k] = "halfOpen"]
    /\ sinceChange' = [sinceChange EXCEPT ![k] = 0]
    /\ halfOpenCount' = [halfOpenCount EXCEPT ![k] = 0]
    /\ UNCHANGED buckets

\* Mutant of allowHalfOpen: an off-by-one in the limit.
allowHalfOpenOffByOne(k) ==
    /\ state[k] = "halfOpen"
    /\ halfOpenCount[k] <= MaxRequests
    /\ halfOpenCount' = [halfOpenCount EXCEPT ![k] = @ + 1]
    /\ UNCHANGED <<state, sinceChange, buckets>>

allowHalfOpen(k) ==
    /\ state[k] = "halfOpen"
    /\ halfOpenCount[k] < MaxRequests
    /\ halfOpenCount' = [halfOpenCount EXCEPT ![k] = @ + 1]
    /\ UNCHANGED <<state, sinceChange, buckets>>

Allows(k) ==
    \/ state[k] = "closed"
    \/ state[k] = "open" /\ sinceChange[k] > HalfOpenTimeout
    \/ state[k] = "halfOpen" /\ halfOpenCount[k] < MaxRequests

AllowRequest(r, k) ==
    /\ inflight[r] = NoKey
    /\ known' = known \union {k}
    /\ \/ /\ allowClosed(k) \/ allowOpen(k) \/ allowHalfOpen(k)
          /\ inflight' = [inflight EXCEPT ![r] = k]
       \/ /\ ~Allows(k)
          /\ UNCHANGED <<window, inflight>>
    /\ UNCHANGED clock

------------------------------------------------------------------------------
(* RecordSuccess, RecordFailure *)

InBound(k) ==
    LET bucket == fresh(buckets[k][bucketIndex(clock)])
    IN  bucket.success + bucket.failure < MaxPerBucket

\* Mutant of RecordSuccess: a success closes the window in any state.
RecordSuccessAnyState(r, k) ==
    /\ inflight[r] = k
    /\ InBound(k)
    /\ inflight' = [inflight EXCEPT ![r] = NoKey]
    /\ buckets' = [buckets EXCEPT ![k] = record(@, clock, TRUE)]
    /\ IF RateBelow(buckets'[k])
       THEN /\ state' = [state EXCEPT ![k] = "closed"]
            /\ sinceChange' = [sinceChange EXCEPT ![k] = 0]
       ELSE UNCHANGED <<state, sinceChange>>
    /\ UNCHANGED <<clock, known, halfOpenCount>>

RecordSuccess(r, k) ==
    /\ inflight[r] = k
    /\ k \in known
    /\ InBound(k)
    /\ inflight' = [inflight EXCEPT ![r] = NoKey]
    /\ buckets' = [buckets EXCEPT ![k] = record(@, clock, TRUE)]
    /\ IF state[k] = "halfOpen" /\ RateBelow(buckets'[k])
       THEN /\ state' = [state EXCEPT ![k] = "closed"]
            /\ sinceChange' = [sinceChange EXCEPT ![k] = 0]
       ELSE UNCHANGED <<state, sinceChange>>
    /\ UNCHANGED <<clock, known, halfOpenCount>>

\* The first call for a key is always AllowRequest, so the branch of
\* RecordSuccess that finds no window is never taken by the failover loop.
RecordFailure(r, k) ==
    /\ inflight[r] = k
    /\ InBound(k)
    /\ inflight' = [inflight EXCEPT ![r] = NoKey]
    /\ known' = known \union {k}
    /\ buckets' = [buckets EXCEPT ![k] = record(@, clock, FALSE)]
    /\ IF RateAbove(buckets'[k]) /\ state[k] = "closed"
       THEN /\ state' = [state EXCEPT ![k] = "open"]
            /\ sinceChange' = [sinceChange EXCEPT ![k] = 0]
       ELSE UNCHANGED <<state, sinceChange>>
    /\ UNCHANGED <<clock, halfOpenCount>>

Tick ==
    /\ clock' = NextClock(clock)
    /\ sinceChange' = [k \in Keys |-> IF sinceChange[k] = LongAgo THEN LongAgo
                                                             ELSE sinceChange[k] + 1]
    /\ buckets' = [k \in Keys |-> AgeBuckets(buckets[k])]
    /\ UNCHANGED <<known, state, halfOpenCount, inflight>>

Next ==
    \/ \E r \in Requests, k \in Keys :
        AllowRequest(r, k) \/ RecordSuccess(r, k) \/ RecordFailure(r, k)
    \/ Tick

Spec == Init /\ [][Next]_vars

\* Time passes, every attempt ends (its HTTP client has a timeout) and clients
\* keep asking for every key.
Fairness ==
    /\ WF_vars(Tick)
    /\ \A r \in Requests : WF_vars(\E k \in Keys : RecordSuccess(r, k) \/ RecordFailure(r, k))
    /\ \A k \in Keys : WF_vars(\E r \in Requests : AllowRequest(r, k))

FairSpec == Spec /\ Fairness

------------------------------------------------------------------------------
(* Properties *)

\* No attempt starts on a key that has been open for HalfOpenTimeout or less,
\* and an open key leaves that state only by admitting a probe: the outcomes of
\* attempts admitted before it opened arrive late and move nothing.
StartsAttempt(k) == \E r \in Requests : inflight[r] # k /\ inflight'[r] = k

QuietStep(k) ==
    state[k] = "open" =>
        /\ StartsAttempt(k) => sinceChange[k] > HalfOpenTimeout
        /\ state'[k] = "open" \/ (state'[k] = "halfOpen" /\ StartsAttempt(k))

OpenIsQuiet == [][\A k \in Keys : QuietStep(k)]_vars

\* A half-open key whose probes are all spent and all answered without closing
\* it stays like that for ever: AllowRequest refuses, so no outcome can arrive,
\* and neither RecordFailure nor the passing of time reopens it.
Wedged(k) ==
    /\ state[k] = "halfOpen"
    /\ halfOpenCount[k] = MaxRequests
    /\ \A r \in Requests : inflight[r] # k

WedgedForever == [][\A k \in Keys : Wedged(k) => Wedged(k)']_vars

\* The breaker keeps the promise made to the failover loop: at most
\* MaxRequests + 1 probes in a half-open period, closed only by a success and
\* opened only by a failure, of whatever attempt.
probes == [k \in Keys |-> IF state[k] = "halfOpen" THEN halfOpenCount[k] + 1 ELSE 0]

Abstract == INSTANCE AbstractBreaker
    WITH state <- state, probes <- probes, inflight <- inflight

ImplementsAbstract == Abstract!Spec

\* An open key is eventually probed, whatever late outcomes arrive meanwhile.
OpenGetsProbed == \A k \in Keys : (state[k] = "open") ~> (state[k] = "halfOpen")

\* What requirements.md:60-61 promise of a tripped breaker: half-open lets
\* probes through so that the key can recover.  A key that is half-open is
\* never left for ever with no probe running and none allowed.
HalfOpenKeepsProbing ==
    \A k \in Keys :
        []<>(state[k] # "halfOpen" \/ \E r \in Requests : inflight[r] = k)
==============================================================================
