------------------------ MODULE CircuitBreaker_proof ------------------------
(***************************************************************************)
(* Theorems about the circuit breaker, for every set of keys and attempts, *)
(* every window, threshold, timeout and probe limit.                       *)
(***************************************************************************)
EXTENDS CircuitBreaker, WindowAccuracy, WellFoundedInduction, FiniteSetTheorems, TLAPS

\* The window is at least one tick long.
LEMMA WindowType == Window \in Nat \ {0} /\ Expired \in Nat
  <1>1. ASSUME NEW m \in Nat \ {0}, NEW n \in Nat \ {0}
        PROVE  m * n \in Nat \ {0}
    OBVIOUS
  <1>2. QED
    BY <1>1, WindowAssumption DEF Window, Expired

\* The window is at least one second long, and a second one tick.
LEMMA WindowBounds ==
    /\ TotalBuckets \in Nat /\ TotalBuckets >= 1
    /\ TicksPerSec \in Nat /\ TicksPerSec >= 1
    /\ Window \in Nat /\ Window >= TicksPerSec
    /\ TotalBuckets = 1 => Window = TicksPerSec
    /\ TotalBuckets > 1 => Window >= 2 * TicksPerSec
  <1>1. ASSUME NEW m \in Nat, NEW t \in Nat, t >= 1
        PROVE  m * t \in Nat /\ (m >= 1 => m * t >= t) /\ (m >= 2 => m * t >= 2 * t) /\ 1 * t = t
    OBVIOUS
  <1>2. QED
    BY <1>1, WindowAssumption DEF Window

\* bucketIndex is the second a tick of the clock is in.
LEMMA BucketIndexBounds ==
    ASSUME NEW c \in Clocks
    PROVE  /\ bucketIndex(c) \in BucketIndex
           /\ bucketIndex(c) * TicksPerSec \in Nat
           /\ bucketIndex(c) * TicksPerSec <= c
           /\ c < bucketIndex(c) * TicksPerSec + TicksPerSec
  <1> DEFINE q == c \div TicksPerSec
  <1>1. c \in Nat /\ c < TotalBuckets * TicksPerSec
    BY WindowBounds DEF Clocks, Window
  <1>2. q \in Nat /\ q * TicksPerSec \in Nat /\ q * TicksPerSec <= c /\ c < q * TicksPerSec + TicksPerSec
    <2>1. \A n \in Nat, t \in Nat \ {0} :
             n \div t \in Nat /\ (n \div t) * t <= n /\ n < (n \div t) * t + t
      BY Z3
    <2>2. \A m, t \in Nat : m * t \in Nat
      BY Z3
    <2>3. QED
      BY <2>1, <2>2, <1>1, WindowAssumption
  <1>3. q < TotalBuckets
    <2>1. SUFFICES ASSUME q >= TotalBuckets
                   PROVE  FALSE
      BY <1>2, WindowAssumption
    <2>2. \A a, b, t \in Nat : a >= b => a * t >= b * t
      BY Z3
    <2>3. q * TicksPerSec >= TotalBuckets * TicksPerSec
      BY <2>1, <2>2, <1>2, WindowAssumption
    <2>4. TotalBuckets * TicksPerSec \in Nat
      BY WindowAssumption
    <2>5. QED
      BY <1>1, <1>2, <2>3, <2>4
  <1>4. QED
    BY <1>2, <1>3, WindowAssumption DEF bucketIndex, BucketIndex

\* The wall clock never leaves the ring.
LEMMA NextClockType ==
    ASSUME NEW c \in Clocks
    PROVE  NextClock(c) \in Clocks
  BY WindowType DEF NextClock, Clocks

\* Getting older keeps an age in its saturated range.
LEMMA OlderType ==
    ASSUME NEW a \in Ages
    PROVE  Older(a) \in Ages
  BY WindowType DEF Older, Ages, Expired

\* A new ring is well formed.
LEMMA EmptyBucketsType == newBuckets \in Buckets
  BY WindowType DEF newBuckets, EmptyBucket, Buckets, Bucket, Ages, Expired

\* It stays so as its buckets get older.
LEMMA AgeBucketsType ==
    ASSUME NEW b \in Buckets
    PROVE  AgeBuckets(b) \in Buckets
  <1>1. ASSUME NEW i \in BucketIndex
        PROVE  [b[i] EXCEPT !.age = Older(@)] \in Bucket
    <2>1. b[i] \in Bucket
      BY DEF Buckets
    <2>2. Older(b[i].age) \in Ages
      BY <2>1, OlderType DEF Bucket
    <2>3. QED
      BY <2>1, <2>2 DEF Bucket
  <1>2. QED
    BY <1>1 DEF AgeBuckets, Buckets

\* Recording an outcome writes one bucket, of the current second.
LEMMA RecordType ==
    ASSUME NEW b \in Buckets, NEW c \in Clocks, NEW ok \in BOOLEAN
    PROVE  record(b, c, ok) \in Buckets
  <1> DEFINE i == bucketIndex(c)
             f == fresh(b[i])
  <1>1. i \in BucketIndex
    BY BucketIndexBounds
  <1>2. b[i] \in Bucket
    BY <1>1 DEF Buckets
  <1>3. f \in Bucket
    BY <1>2, WindowType DEF fresh, Bucket, Ages, Expired
  <1>4. [f EXCEPT !.success = @ + 1] \in Bucket /\ [f EXCEPT !.failure = @ + 1] \in Bucket
    BY <1>3 DEF Bucket
  <1>5. QED
    BY <1>1, <1>4 DEF record, Buckets

------------------------------------------------------------------------------

\* The three ways to admit, as one relation on the window of one key.
allow(k) == allowClosed(k) \/ allowOpen(k) \/ allowHalfOpen(k)

\* Admitting and recording keep every window well formed; in particular
\* halfOpenCount never passes MaxRequests, in whatever state an outcome comes.
LEMMA TypeStep ==
    ASSUME TypeOK, [Next]_vars
    PROVE  TypeOK'
  <1> USE CircuitBreakerAssumption, WindowType
  <1>1. ASSUME NEW r \in Requests, NEW k \in Keys, AllowRequest(r, k)
        PROVE  TypeOK'
    <2>1. clock' \in Clocks /\ known' \in SUBSET Keys
      BY <1>1 DEF AllowRequest, TypeOK
    <2>2. inflight' \in [Requests -> Keys \union {NoKey}]
      BY <1>1 DEF AllowRequest, TypeOK
    <2>3. CASE UNCHANGED window
      BY <2>1, <2>2, <2>3 DEF TypeOK, window
    <2>4. CASE allowOpen(k)
      BY <2>1, <2>2, <2>4 DEF TypeOK, allowOpen, CircuitState, ChangeAges, LongAgo
    <2>5. CASE allowHalfOpen(k)
      <3>1. halfOpenCount[k] + 1 \in 0..MaxRequests
        BY <2>5 DEF TypeOK, allowHalfOpen
      <3>2. QED
        BY <2>1, <2>2, <2>5, <3>1 DEF TypeOK, allowHalfOpen
    <2>6. QED
      BY <1>1, <2>3, <2>4, <2>5 DEF AllowRequest, allowClosed
  <1>2. ASSUME NEW r \in Requests, NEW k \in Keys, RecordSuccess(r, k)
        PROVE  TypeOK'
    <2>1. record(buckets[k], clock, TRUE) \in Buckets
      BY RecordType DEF TypeOK
    <2>2. buckets' \in [Keys -> Buckets]
      BY <1>2, <2>1 DEF RecordSuccess, TypeOK
    <2>3. inflight' \in [Requests -> Keys \union {NoKey}]
      BY <1>2 DEF RecordSuccess, TypeOK
    <2>4. state' \in [Keys -> CircuitState] /\ sinceChange' \in [Keys -> ChangeAges]
      <3>1. \/ /\ state' = [state EXCEPT ![k] = "closed"]
               /\ sinceChange' = [sinceChange EXCEPT ![k] = 0]
            \/ UNCHANGED <<state, sinceChange>>
        BY <1>2 DEF RecordSuccess
      <3>2. QED
        BY <3>1 DEF TypeOK, CircuitState, ChangeAges, LongAgo
    <2>5. QED
      BY <1>2, <2>2, <2>3, <2>4 DEF RecordSuccess, TypeOK
  <1>3. ASSUME NEW r \in Requests, NEW k \in Keys, RecordFailure(r, k)
        PROVE  TypeOK'
    <2>1. record(buckets[k], clock, FALSE) \in Buckets
      BY RecordType DEF TypeOK
    <2>2. buckets' \in [Keys -> Buckets]
      BY <1>3, <2>1 DEF RecordFailure, TypeOK
    <2>3. inflight' \in [Requests -> Keys \union {NoKey}]
      BY <1>3 DEF RecordFailure, TypeOK
    <2>4. state' \in [Keys -> CircuitState] /\ sinceChange' \in [Keys -> ChangeAges]
      <3>1. \/ /\ state' = [state EXCEPT ![k] = "open"]
               /\ sinceChange' = [sinceChange EXCEPT ![k] = 0]
            \/ UNCHANGED <<state, sinceChange>>
        BY <1>3 DEF RecordFailure
      <3>2. QED
        BY <3>1 DEF TypeOK, CircuitState, ChangeAges, LongAgo
    <2>5. QED
      BY <1>3, <2>2, <2>3, <2>4 DEF RecordFailure, TypeOK
  <1>4. CASE Tick
    <2>1. clock' \in Clocks
      BY <1>4, NextClockType DEF Tick, TypeOK
    <2>2. sinceChange' \in [Keys -> ChangeAges]
      BY <1>4 DEF Tick, TypeOK, ChangeAges, LongAgo
    <2>3. buckets' \in [Keys -> Buckets]
      BY <1>4, AgeBucketsType DEF Tick, TypeOK
    <2>4. QED
      BY <1>4, <2>1, <2>2, <2>3 DEF Tick, TypeOK
  <1>5. CASE UNCHANGED vars
    BY <1>5 DEF vars, window, TypeOK
  <1>6. QED
    BY <1>1, <1>2, <1>3, <1>4, <1>5 DEF Next

\* A new breaker is well formed.
LEMMA TypeInit == Init => TypeOK
  BY CircuitBreakerAssumption, WindowType, EmptyBucketsType
     DEF Init, TypeOK, CircuitState, ChangeAges, LongAgo

\* Every reachable breaker is well formed: halfOpenCount stays within
\* MaxRequests and every bucket index and age within its range.
THEOREM TypeCorrect == Spec => []TypeOK
  <1>1. TypeOK /\ [Next]_vars => TypeOK'
    BY TypeStep
  <1>2. QED
    BY TypeInit, <1>1, PTL DEF Spec

------------------------------------------------------------------------------
\* An open key starts no attempt before its timeout and is moved by no outcome.
LEMMA QuietNext ==
    ASSUME TypeOK, [Next]_vars, NEW k \in Keys
    PROVE  QuietStep(k)
  <1> SUFFICES ASSUME state[k] = "open"
               PROVE  /\ StartsAttempt(k) => sinceChange[k] > HalfOpenTimeout
                      /\ \/ state'[k] = "open"
                         \/ state'[k] = "halfOpen" /\ StartsAttempt(k)
    BY DEF QuietStep
  <1>1. ASSUME NEW r \in Requests, NEW j \in Keys, AllowRequest(r, j)
        PROVE  QuietStep(k)
    <2>1. CASE allow(j) /\ inflight' = [inflight EXCEPT ![r] = j]
      <3>1. inflight[r] # k
        BY <1>1, CircuitBreakerAssumption DEF AllowRequest
      <3>2. inflight' = [inflight EXCEPT ![r] = j] /\ inflight \in [Requests -> Keys \union {NoKey}]
        BY <2>1 DEF TypeOK
      <3>3. CASE j = k
        <4>1. allowOpen(k)
          BY <2>1, <3>3 DEF allow, allowClosed, allowHalfOpen
        <4>2. inflight'[r] = k
          BY <3>2, <3>3
        <4>3. QED
          BY <4>1, <4>2, <3>1 DEF allowOpen, QuietStep, StartsAttempt, TypeOK
      <3>4. CASE j # k
        <4>1. ~StartsAttempt(k)
          BY <3>2, <3>4 DEF StartsAttempt
        <4>2. state'[k] = state[k]
          BY <2>1, <3>4 DEF allow, allowClosed, allowOpen, allowHalfOpen, window, TypeOK
        <4>3. QED
          BY <4>1, <4>2 DEF QuietStep
      <3>5. QED
        BY <3>3, <3>4
    <2>2. CASE UNCHANGED <<window, inflight>>
      BY <2>2 DEF QuietStep, StartsAttempt, window
    <2>3. QED
      BY <1>1, <2>1, <2>2 DEF AllowRequest, allow
  <1>2. ASSUME NEW r \in Requests, NEW j \in Keys, RecordSuccess(r, j) \/ RecordFailure(r, j)
        PROVE  QuietStep(k)
    <2>1. inflight' = [inflight EXCEPT ![r] = NoKey]
      BY <1>2 DEF RecordSuccess, RecordFailure
    <2>2. ~StartsAttempt(k)
      BY <2>1, CircuitBreakerAssumption DEF StartsAttempt, TypeOK
    <2>3. state'[k] = "open"
      BY <1>2 DEF RecordSuccess, RecordFailure, TypeOK
    <2>4. QED
      BY <2>2, <2>3 DEF QuietStep
  <1>3. CASE Tick \/ UNCHANGED vars
    BY <1>3 DEF Tick, vars, window, QuietStep, StartsAttempt
  <1>4. QED
    BY <1>1, <1>2, <1>3 DEF Next, QuietStep

\* A breaker that has opened keeps its promise: no attempt before the timeout,
\* and late outcomes do not move it.
THEOREM Quiet == Spec => OpenIsQuiet
  <1>1. TypeOK /\ [Next]_vars => [\A k \in Keys : QuietStep(k)]_vars
    BY QuietNext
  <1>2. QED
    BY TypeCorrect, <1>1, PTL DEF Spec, OpenIsQuiet
------------------------------------------------------------------------------
\* A wedged key stays wedged: with every probe spent and answered nothing can
\* admit, and no outcome or tick moves a half-open key that has none in flight.
LEMMA WedgedNext ==
    ASSUME TypeOK, [Next]_vars, NEW k \in Keys, Wedged(k)
    PROVE  Wedged(k)'
  <1> USE DEF Wedged
  <1>1. ASSUME NEW r \in Requests, NEW j \in Keys, AllowRequest(r, j)
        PROVE  Wedged(k)'
    <2>1. CASE allow(j) /\ inflight' = [inflight EXCEPT ![r] = j]
      <3>1. j # k
        BY <2>1, CircuitBreakerAssumption
           DEF allow, allowClosed, allowOpen, allowHalfOpen, TypeOK
      <3>2. \A q \in Requests : inflight'[q] # k
        BY <2>1, <3>1 DEF TypeOK
      <3>3. state'[k] = state[k] /\ halfOpenCount'[k] = halfOpenCount[k]
        BY <2>1, <3>1 DEF allow, allowClosed, allowOpen, allowHalfOpen, window, TypeOK
      <3>4. QED
        BY <3>2, <3>3
    <2>2. CASE UNCHANGED <<window, inflight>>
      BY <2>2 DEF window
    <2>3. QED
      BY <1>1, <2>1, <2>2 DEF AllowRequest, allow
  <1>2. ASSUME NEW r \in Requests, NEW j \in Keys, RecordSuccess(r, j) \/ RecordFailure(r, j)
        PROVE  Wedged(k)'
    <2>1. j # k
      BY <1>2 DEF RecordSuccess, RecordFailure
    <2>2. inflight' = [inflight EXCEPT ![r] = NoKey] /\ halfOpenCount' = halfOpenCount
      BY <1>2 DEF RecordSuccess, RecordFailure
    <2>3. \A q \in Requests : inflight'[q] # k
      BY <2>2, CircuitBreakerAssumption DEF TypeOK
    <2>4. state'[k] = state[k]
      BY <1>2, <2>1 DEF RecordSuccess, RecordFailure, TypeOK
    <2>5. QED
      BY <2>2, <2>3, <2>4
  <1>3. CASE Tick \/ UNCHANGED vars
    BY <1>3 DEF Tick, vars, window
  <1>4. QED
    BY <1>1, <1>2, <1>3 DEF Next

\* Once a half-open key has spent its probes and none is running, it is refused
\* for the rest of the process's life, in every configuration.
THEOREM WedgeIsPermanent == Spec => WedgedForever
  <1>1. TypeOK /\ [Next]_vars => [\A k \in Keys : Wedged(k) => Wedged(k)']_vars
    BY WedgedNext
  <1>2. QED
    BY TypeCorrect, <1>1, PTL DEF Spec, WedgedForever

------------------------------------------------------------------------------
\* An admission is an admission of the abstract breaker.
LEMMA AdmitMaps ==
    ASSUME TypeOK, NEW r \in Requests, NEW k \in Keys, AllowRequest(r, k)
    PROVE  [Abstract!Next]_(Abstract!vars)
  <1> USE CircuitBreakerAssumption
  <1>1. CASE UNCHANGED <<window, inflight>>
    BY <1>1 DEF window, probes, Abstract!vars
  <1>2. CASE allow(k) /\ inflight' = [inflight EXCEPT ![r] = k]
    <2>1. inflight[r] = NoKey
      BY DEF AllowRequest
    <2>2. ASSUME allowClosed(k)
          PROVE  Abstract!Admit(r, k)
      BY <1>2, <2>1, <2>2 DEF allowClosed, window, probes, Abstract!Admit
    <2>3. ASSUME allowOpen(k)
          PROVE  Abstract!Admit(r, k)
      <3>1. probes' = [probes EXCEPT ![k] = 1]
        <4>1. state'[k] = "halfOpen" /\ halfOpenCount'[k] = 0
          BY <2>3 DEF allowOpen, TypeOK
        <4>2. \A j \in Keys \ {k} : state'[j] = state[j] /\ halfOpenCount'[j] = halfOpenCount[j]
          BY <2>3 DEF allowOpen, TypeOK
        <4>3. probes'[k] = 1
          BY <4>1 DEF probes
        <4>4. \A j \in Keys \ {k} : probes'[j] = probes[j]
          BY <4>2 DEF probes
        <4>5. QED
          BY <4>3, <4>4 DEF probes
      <3>2. QED
        BY <1>2, <2>1, <2>3, <3>1 DEF allowOpen, Abstract!Admit
    <2>4. ASSUME allowHalfOpen(k)
          PROVE  Abstract!Admit(r, k)
      <3>1. probes' = [probes EXCEPT ![k] = @ + 1]
        BY <2>4 DEF allowHalfOpen, probes, TypeOK
      <3>2. probes[k] < MaxRequests + 1
        BY <2>4 DEF allowHalfOpen, probes, TypeOK
      <3>3. QED
        BY <1>2, <2>1, <2>4, <3>1, <3>2
           DEF allowHalfOpen, Abstract!Admit, Abstract!ProbeLimit
    <2>5. QED
      BY <1>2, <2>2, <2>3, <2>4 DEF allow, Abstract!Next
  <1>3. QED
    BY <1>1, <1>2 DEF AllowRequest, allow

\* An outcome is an outcome of the abstract breaker.
LEMMA OutcomeMaps ==
    ASSUME TypeOK, NEW r \in Requests, NEW k \in Keys,
           RecordSuccess(r, k) \/ RecordFailure(r, k)
    PROVE  Abstract!Next
  <1>1. inflight[r] = k /\ inflight' = [inflight EXCEPT ![r] = NoKey]
    BY DEF RecordSuccess, RecordFailure
  <1>2. halfOpenCount' = halfOpenCount
    BY DEF RecordSuccess, RecordFailure
  <1>3. CASE state' = state
    <2>1. probes' = probes
      BY <1>2, <1>3 DEF probes
    <2>2. Abstract!Succeed(r, k)
      BY <1>1, <1>3, <2>1 DEF Abstract!Succeed
    <2>3. QED
      BY <2>2 DEF Abstract!Next
  <1>4. CASE state[k] = "halfOpen" /\ state' = [state EXCEPT ![k] = "closed"]
    <2>1. probes' = [probes EXCEPT ![k] = 0]
      BY <1>2, <1>4 DEF probes, TypeOK
    <2>2. Abstract!Succeed(r, k)
      BY <1>1, <1>4, <2>1 DEF Abstract!Succeed
    <2>3. QED
      BY <2>2 DEF Abstract!Next
  <1>5. CASE state[k] = "closed" /\ state' = [state EXCEPT ![k] = "open"]
    <2>1. probes' = probes
      BY <1>2, <1>5 DEF probes, TypeOK
    <2>2. Abstract!Fail(r, k)
      BY <1>1, <1>5, <2>1 DEF Abstract!Fail
    <2>3. QED
      BY <2>2 DEF Abstract!Next
  <1>6. QED
    BY <1>3, <1>4, <1>5 DEF RecordSuccess, RecordFailure

\* The circuit breaker implements the abstract one.
THEOREM Refinement == Spec => ImplementsAbstract
  <1>1. Init => Abstract!Init
    BY DEF Init, Abstract!Init, probes
  <1>2. TypeOK /\ [Next]_vars => [Abstract!Next]_(Abstract!vars)
    <2> SUFFICES ASSUME TypeOK, [Next]_vars
                 PROVE  [Abstract!Next]_(Abstract!vars)
      OBVIOUS
    <2>1. CASE Tick \/ UNCHANGED vars
      BY <2>1 DEF Tick, vars, window, probes, Abstract!vars
    <2>2. QED
      BY <2>1, AdmitMaps, OutcomeMaps DEF Next
  <1>3. QED
    BY TypeCorrect, <1>1, <1>2, PTL DEF Spec, ImplementsAbstract, Abstract!Spec

------------------------------------------------------------------------------
(***************************************************************************)
(* The window the breaker counts in is a sliding window to within a        *)
(* second: one ring next to the exact log of WindowAccuracy.               *)
(*                                                                         *)
(* The totals are sums over sets, so the first part is about such sums:    *)
(* their equation, that any term may be taken first, and what follows.     *)
(* All of it rests on one induction, over Nat, stated with a set for the   *)
(* property instead of an operator.  The second part is the invariant: a   *)
(* bucket in the window counts exactly the outcomes of its second since    *)
(* its timestamp.                                                          *)
(***************************************************************************)

\* The order of the natural numbers, as the library's induction knows it.
LEMMA LessIsWellFounded ==
    IsWellFoundedOn({ss \in Nat \X Nat : ss[1] < ss[2]}, Nat)
  BY NatLessThanWellFounded DEF OpToRel

\* Induction over Nat, with a set for the property: the least natural number
\* outside the set would have a predecessor inside.
LEMMA Induction ==
    ASSUME NEW P, 0 \in P, \A n \in Nat : n \in P => n + 1 \in P
    PROVE  Nat \subseteq P
  <1> DEFINE Outside == Nat \ P
             Less == {ss \in Nat \X Nat : ss[1] < ss[2]}
  <1>1. SUFFICES ASSUME Outside # {}
                 PROVE  FALSE
    OBVIOUS
  <1>2. Outside \subseteq Nat
    OBVIOUS
  <1>3. \E n \in Outside : \A m \in Outside : <<m, n>> \notin Less
    <2>1. IsWellFoundedOn(Less, Nat)
      BY LessIsWellFounded
    <2> HIDE DEF Outside, Less
    <2>2. QED
      BY <1>1, <1>2, <2>1, WFMin
  <1>4. PICK n \in Outside : \A m \in Outside : <<m, n>> \notin Less
    BY <1>3
  <1>5. n \in Nat /\ n # 0
    OBVIOUS
  <1>6. n - 1 \in Nat /\ n - 1 < n /\ (n - 1) + 1 = n
    BY <1>5
  <1>7. n - 1 \in Outside
    BY <1>4, <1>6
  <1>8. QED
    BY <1>4, <1>6, <1>7

\* Induction over the subsets of a finite set, one element at a time.
LEMMA SubsetInduction ==
    ASSUME NEW S, IsFiniteSet(S), NEW P,
           \A s \in SUBSET S : (\A x \in s : s \ {x} \in P) => s \in P
    PROVE  SUBSET S \subseteq P
  <1> DEFINE N == {n \in Nat : \A s \in SUBSET S : Cardinality(s) = n => s \in P}
  <1>1. \A s \in SUBSET S : IsFiniteSet(s) /\ Cardinality(s) \in Nat
    BY FS_Subset, FS_CardinalityType
  <1>2. 0 \in N
    <2>1. \A s \in SUBSET S : Cardinality(s) = 0 => s = {}
      BY <1>1, FS_EmptySet
    <2>2. QED
      BY <2>1
  <1>3. ASSUME NEW n \in Nat, n \in N
        PROVE  n + 1 \in N
    <2>1. ASSUME NEW s \in SUBSET S, Cardinality(s) = n + 1, NEW x \in s
          PROVE  s \ {x} \in P
      <3>1. Cardinality(s \ {x}) = Cardinality(s) - 1
        BY <1>1, FS_RemoveElement
      <3>2. Cardinality(s \ {x}) = n /\ s \ {x} \in SUBSET S
        BY <2>1, <3>1
      <3>3. QED
        BY <1>3, <3>2
    <2>2. QED
      BY <2>1
  <1>4. Nat \subseteq N
    <2> HIDE DEF N
    <2> QED
      BY <1>2, <1>3, Induction
  <1>5. QED
    BY <1>1, <1>4

------------------------------------------------------------------------------
\* The sum of f over a finite set, as FiniteSetsExt defines it.
Sum(f, S) == MapThenSumSet(LAMBDA x : f[x], S)

\* The element MapThenSumSet takes next, and the function it chooses: the sums
\* of all the subsets of S.
Any(s) == CHOOSE x \in s : TRUE
Sums(f, S, g) ==
    g = [s \in SUBSET S |-> IF s = {} THEN 0 ELSE f[Any(s)] + g[s \ {Any(s)}]]

\* FiniteSetsExt's definition, unfolded.
LEMMA SumDef ==
    ASSUME NEW f, NEW S
    PROVE  Sum(f, S) = (CHOOSE g : Sums(f, S, g))[S]
  BY DEF Sum, Sums, Any, MapThenSumSet, MapThenFoldSet

\* It is an element.
LEMMA AnyIn == ASSUME NEW s, s # {} PROVE Any(s) \in s
  BY DEF Any

\* The equation at one subset.
LEMMA SumsOn ==
    ASSUME NEW f, NEW S, NEW g, Sums(f, S, g), NEW s \in SUBSET S
    PROVE  g[s] = IF s = {} THEN 0 ELSE f[Any(s)] + g[s \ {Any(s)}]
  BY DEF Sums

\* It has one solution at most, on every finite set.
LEMMA SumsUnique ==
    ASSUME NEW f, NEW S, NEW T, NEW g, NEW h, Sums(f, S, g), Sums(f, T, h),
           NEW u, IsFiniteSet(u), u \subseteq S, u \subseteq T
    PROVE  g[u] = h[u]
  <1> DEFINE P == {s \in SUBSET u : g[s] = h[s]}
  <1>1. ASSUME NEW s \in SUBSET u, \A x \in s : s \ {x} \in P
        PROVE  s \in P
    <2>1. CASE s = {}
      BY <2>1, SumsOn
    <2>2. CASE s # {}
      <3>1. g[s \ {Any(s)}] = h[s \ {Any(s)}]
        BY <1>1, <2>2, AnyIn
      <3>2. g[s] = f[Any(s)] + g[s \ {Any(s)}]
        BY <2>2, SumsOn
      <3>3. h[s] = f[Any(s)] + h[s \ {Any(s)}]
        BY <2>2, SumsOn
      <3>4. QED
        BY <3>1, <3>2, <3>3
    <2>3. QED
      BY <2>1, <2>2
  <1>2. SUBSET u \subseteq P
    <2> HIDE DEF P
    <2> QED
      BY <1>1, SubsetInduction
  <1>3. QED
    BY <1>2

\* A solution on S is one on every subset of S.
LEMMA SumsRestricted ==
    ASSUME NEW f, NEW S, NEW g, Sums(f, S, g), NEW T \in SUBSET S
    PROVE  Sums(f, T, [s \in SUBSET T |-> g[s]])
  <1> DEFINE h == [s \in SUBSET T |-> g[s]]
             k == [s \in SUBSET T |-> IF s = {} THEN 0 ELSE f[Any(s)] + h[s \ {Any(s)}]]
  <1>1. ASSUME NEW s \in SUBSET T
        PROVE  h[s] = k[s]
    <2>1. s \ {Any(s)} \in SUBSET T /\ s \in SUBSET S
      OBVIOUS
    <2>2. g[s] = IF s = {} THEN 0 ELSE f[Any(s)] + g[s \ {Any(s)}]
      BY <2>1, SumsOn
    <2>3. QED
      BY <2>1, <2>2
  <1>2. h = k
    BY <1>1
  <1>3. QED
    BY <1>2 DEF Sums

\* So the sum is the value of any solution.
LEMMA SumIs ==
    ASSUME NEW f, NEW S, IsFiniteSet(S), NEW g, Sums(f, S, g)
    PROVE  Sum(f, S) = g[S]
  <1> DEFINE c == CHOOSE h : Sums(f, S, h)
  <1>1. Sums(f, S, c)
    OBVIOUS
  <1> HIDE DEF c
  <1>2. c[S] = g[S]
    BY <1>1, SumsUnique
  <1>3. QED
    BY <1>2, SumDef DEF c

\* One unfolding, given that the sum is defined on S.
LEMMA SumUnfold ==
    ASSUME NEW f, NEW S, IsFiniteSet(S), NEW g, Sums(f, S, g)
    PROVE  Sum(f, S) = IF S = {} THEN 0 ELSE f[Any(S)] + Sum(f, S \ {Any(S)})
  <1> DEFINE T == S \ {Any(S)}
             h == [s \in SUBSET T |-> g[s]]
  <1>1. Sum(f, S) = g[S]
    BY SumIs
  <1>2. Sums(f, T, h) /\ IsFiniteSet(T)
    <2>1. T \in SUBSET S
      OBVIOUS
    <2>2. IsFiniteSet(T)
      BY <2>1, FS_Subset
    <2>3. Sums(f, T, h)
      <3> HIDE DEF T
      <3> QED
        BY <2>1, SumsRestricted
    <2>4. QED
      BY <2>2, <2>3
  <1>3. Sum(f, T) = h[T] /\ h[T] = g[T]
    <2>1. Sum(f, T) = h[T]
      <3> HIDE DEF T, h
      <3> QED BY <1>2, SumIs
    <2>2. QED BY <2>1
  <1>4. QED
    BY <1>1, <1>3, SumsOn

\* It has a solution: put together from the sums of the smaller subsets.
LEMMA SumsExists ==
    ASSUME NEW f, NEW S, IsFiniteSet(S)
    PROVE  \E g : Sums(f, S, g)
  <1> DEFINE P == {s \in SUBSET S : \E g : Sums(f, s, g)}
  <1>1. ASSUME NEW s \in SUBSET S, \A x \in s : s \ {x} \in P
        PROVE  s \in P
    <2> DEFINE g == [t \in SUBSET s |-> IF t = {} THEN 0 ELSE f[Any(t)] + Sum(f, t \ {Any(t)})]
               k == [t \in SUBSET s |-> IF t = {} THEN 0 ELSE f[Any(t)] + g[t \ {Any(t)}]]
    <2>1. ASSUME NEW t \in SUBSET s, t # s
          PROVE  g[t] = Sum(f, t)
      <3>1. PICK x \in s : x \notin t
        BY <2>1
      <3>2. PICK h : Sums(f, s \ {x}, h)
        BY <1>1
      <3>3. Sums(f, t, [u \in SUBSET t |-> h[u]]) /\ IsFiniteSet(t)
        BY <3>1, <3>2, SumsRestricted, FS_Subset
      <3>4. Sum(f, t) = IF t = {} THEN 0 ELSE f[Any(t)] + Sum(f, t \ {Any(t)})
        BY <3>3, SumUnfold
      <3>5. QED
        BY <3>4
    <2>2. ASSUME NEW t \in SUBSET s
          PROVE  g[t] = k[t]
      <3>1. CASE t = {}
        BY <3>1
      <3>2. CASE t # {}
        <4>1. t \ {Any(t)} \in SUBSET s /\ t \ {Any(t)} # s
          BY <3>2, AnyIn
        <4>2. g[t \ {Any(t)}] = Sum(f, t \ {Any(t)})
          <5> HIDE DEF g
          <5> QED BY <4>1, <2>1
        <4>3. QED
          BY <4>2, <3>2
      <3>3. QED
        BY <3>1, <3>2
    <2>3. g = k
      BY <2>2
    <2>4. Sums(f, s, g)
      BY <2>3 DEF Sums
    <2>5. QED
      <3> HIDE DEF g
      <3> QED BY <2>4
  <1>2. SUBSET S \subseteq P
    <2> HIDE DEF P
    <2> QED
      BY <1>1, SubsetInduction
  <1>3. QED
    BY <1>2

\* Nothing to add.
LEMMA SumEmpty ==
    ASSUME NEW f PROVE Sum(f, {}) = 0
  BY SumUnfold, SumsExists, FS_EmptySet

\* One term and the others.
LEMMA SumAny ==
    ASSUME NEW f, NEW S, IsFiniteSet(S), S # {}
    PROVE  Sum(f, S) = f[Any(S)] + Sum(f, S \ {Any(S)})
  BY SumUnfold, SumsExists

\* The sums of this module: finitely many natural numbers.
Terms(f, S) == IsFiniteSet(S) /\ \A x \in S : f[x] \in Nat

\* Some of them are still finitely many.
LEMMA TermsSubset ==
    ASSUME NEW f, NEW S, Terms(f, S), NEW T \in SUBSET S
    PROVE  Terms(f, T)
  BY FS_Subset DEF Terms

\* A sum of natural numbers is one.
LEMMA SumType ==
    ASSUME NEW f, NEW S, Terms(f, S)
    PROVE  Sum(f, S) \in Nat
  <1> DEFINE P == {s \in SUBSET S : Sum(f, s) \in Nat}
  <1>1. ASSUME NEW s \in SUBSET S, \A x \in s : s \ {x} \in P
        PROVE  s \in P
    <2>1. CASE s = {}
      BY <2>1, SumEmpty
    <2>2. CASE s # {}
      <3>1. Any(s) \in s /\ IsFiniteSet(s)
        BY <2>2, AnyIn, TermsSubset DEF Terms
      <3>2. Sum(f, s) = f[Any(s)] + Sum(f, s \ {Any(s)})
        BY <2>2, <3>1, SumAny
      <3>3. f[Any(s)] \in Nat /\ Sum(f, s \ {Any(s)}) \in Nat
        BY <1>1, <3>1 DEF Terms
      <3>4. QED
        BY <3>2, <3>3
    <2>3. QED
      BY <2>1, <2>2
  <1>2. SUBSET S \subseteq P
    <2> HIDE DEF P
    <2> QED
      BY <1>1, SubsetInduction DEF Terms
  <1>3. QED
    BY <1>2

\* The order of the terms does not matter: any of them may be taken first.
LEMMA SumRemove ==
    ASSUME NEW f, NEW S, Terms(f, S), NEW z \in S
    PROVE  Sum(f, S) = f[z] + Sum(f, S \ {z})
  <1> DEFINE P == {s \in SUBSET S : \A x \in s : Sum(f, s) = f[x] + Sum(f, s \ {x})}
  <1>1. ASSUME NEW s \in SUBSET S, \A x \in s : s \ {x} \in P
        PROVE  s \in P
    <2>1. SUFFICES ASSUME NEW x \in s
                   PROVE  Sum(f, s) = f[x] + Sum(f, s \ {x})
      OBVIOUS
    <2> DEFINE y == Any(s)
               r == (s \ {x}) \ {y}
    <2>2. y \in s /\ IsFiniteSet(s) /\ Terms(f, r) /\ Terms(f, s)
      BY AnyIn, TermsSubset DEF Terms
    <2>3. Sum(f, s) = f[y] + Sum(f, s \ {y})
      BY <2>2, SumAny
    <2> HIDE DEF y
    <2>4. CASE x = y
      BY <2>3, <2>4
    <2>5. CASE x # y
      <3>1. s \ {y} \in P /\ s \ {x} \in P
        BY <1>1, <2>2
      <3>2. Sum(f, s \ {y}) = f[x] + Sum(f, (s \ {y}) \ {x})
        BY <3>1, <2>5
      <3>3. Sum(f, s \ {x}) = f[y] + Sum(f, r)
        BY <3>1, <2>2, <2>5
      <3>4. (s \ {y}) \ {x} = r
        OBVIOUS
      <3>5. f[x] \in Nat /\ f[y] \in Nat /\ Sum(f, r) \in Nat
        BY <2>2, SumType DEF Terms
      <3> HIDE DEF r, P
      <3>6. Sum(f, s \ {y}) = f[x] + Sum(f, r)
        BY <3>2, <3>4
      <3>7. QED
        BY <2>3, <3>3, <3>5, <3>6
    <2>6. QED
      BY <2>4, <2>5
  <1>2. SUBSET S \subseteq P
    <2> HIDE DEF P
    <2> QED
      BY <1>1, SubsetInduction DEF Terms
  <1>3. QED
    BY <1>2

\* Functions that agree on S have the same sum over S.
LEMMA SumEqual ==
    ASSUME NEW f, NEW g, NEW S, IsFiniteSet(S), \A x \in S : f[x] = g[x]
    PROVE  Sum(f, S) = Sum(g, S)
  <1> DEFINE P == {s \in SUBSET S : Sum(f, s) = Sum(g, s)}
  <1>1. ASSUME NEW s \in SUBSET S, \A x \in s : s \ {x} \in P
        PROVE  s \in P
    <2>1. CASE s = {}
      BY <2>1, SumEmpty
    <2>2. CASE s # {}
      <3>1. Any(s) \in s /\ IsFiniteSet(s)
        BY <2>2, AnyIn, FS_Subset
      <3>2. Sum(f, s) = f[Any(s)] + Sum(f, s \ {Any(s)})
        BY <2>2, <3>1, SumAny
      <3>3. Sum(g, s) = g[Any(s)] + Sum(g, s \ {Any(s)})
        BY <2>2, <3>1, SumAny
      <3>4. QED
        BY <1>1, <3>1, <3>2, <3>3
    <2>3. QED
      BY <2>1, <2>2
  <1>2. SUBSET S \subseteq P
    <2> HIDE DEF P
    <2> QED
      BY <1>1, SubsetInduction
  <1>3. QED
    BY <1>2

\* Only the terms that are not zero count: a set that holds all those of
\* another one has at least its sum.
LEMMA SumSupport ==
    ASSUME NEW f, NEW S, NEW T, Terms(f, S), Terms(f, T),
           \A x \in S : f[x] # 0 => x \in T
    PROVE  Sum(f, S) <= Sum(f, T)
  <1> DEFINE Holds(s, t) == \A x \in s : f[x] # 0 => x \in t
             P == {s \in SUBSET S : \A t \in SUBSET T : Holds(s, t) => Sum(f, s) <= Sum(f, t)}
  <1>1. \A s \in SUBSET S : Terms(f, s) /\ Sum(f, s) \in Nat
    BY TermsSubset, SumType
  <1>2. \A t \in SUBSET T : Terms(f, t) /\ Sum(f, t) \in Nat
    BY TermsSubset, SumType
  <1>3. ASSUME NEW s \in SUBSET S, \A x \in s : s \ {x} \in P
        PROVE  s \in P
    <2>1. SUFFICES ASSUME NEW t \in SUBSET T, Holds(s, t)
                   PROVE  Sum(f, s) <= Sum(f, t)
      OBVIOUS
    <2>2. CASE s = {}
      BY <1>2, <2>2, SumEmpty
    <2>3. CASE s # {}
      <3>1. PICK x \in s : TRUE
        BY <2>3
      <3>2. Sum(f, s) = f[x] + Sum(f, s \ {x})
        BY <1>1, SumRemove
      <3>3. f[x] \in Nat /\ s \ {x} \in SUBSET S /\ s \ {x} \in P
        BY <1>3 DEF Terms
      <3>4. CASE f[x] = 0
        <4>1. Holds(s \ {x}, t)
          BY <2>1
        <4>2. Sum(f, s \ {x}) <= Sum(f, t)
          BY <3>3, <4>1
        <4>3. QED
          BY <1>1, <3>2, <3>3, <3>4, <4>2
      <3>5. CASE f[x] # 0
        <4>1. x \in t /\ Holds(s \ {x}, t \ {x}) /\ t \ {x} \in SUBSET T
          BY <2>1, <3>5
        <4>2. Sum(f, t) = f[x] + Sum(f, t \ {x})
          BY <1>2, <4>1, SumRemove
        <4>3. Sum(f, s \ {x}) <= Sum(f, t \ {x})
          BY <3>3, <4>1
        <4>4. Sum(f, s \ {x}) \in Nat /\ Sum(f, t \ {x}) \in Nat
          BY <1>1, <1>2, <3>3, <4>1
        <4> HIDE DEF P, Holds
        <4>5. QED
          BY <3>2, <3>3, <4>2, <4>3, <4>4
      <3>6. QED
        BY <3>4, <3>5
    <2>4. QED
      BY <2>2, <2>3
  <1>4. SUBSET S \subseteq P
    <2> HIDE DEF P
    <2> QED
      BY <1>3, SubsetInduction DEF Terms
  <1>5. S \in P /\ Holds(S, T)
    BY <1>4
  <1>6. QED
    BY <1>5

\* One term of the sum grows by one.
LEMMA SumBump ==
    ASSUME NEW f, NEW g, NEW S, Terms(f, S), NEW z \in S,
           \A x \in S \ {z} : g[x] = f[x],
           g[z] = f[z] + 1
    PROVE  Sum(g, S) = Sum(f, S) + 1
  <1> DEFINE r == S \ {z}
  <1>1. Terms(f, r) /\ Terms(g, S) /\ f[z] \in Nat
    BY TermsSubset DEF Terms
  <1>2. Sum(f, S) = f[z] + Sum(f, r) /\ Sum(g, S) = g[z] + Sum(g, r)
    BY <1>1, SumRemove
  <1>3. Sum(f, r) = Sum(g, r)
    BY <1>1, SumEqual DEF Terms
  <1>4. Sum(f, r) \in Nat
    BY <1>1, SumType
  <1>5. QED
    BY <1>1, <1>2, <1>3, <1>4

\* The same terms under other names: g at p[a] is f at a.
Image(p, S) == {p[a] : a \in S}
OneToOne(p, S) == \A a, b \in S : p[a] = p[b] => a = b
Renames(f, g, p, S) == \A a \in S : g[p[a]] = f[a]

\* They have the same sum, if no two names are one.
LEMMA SumImage ==
    ASSUME NEW f, NEW g, NEW S, Terms(f, S), NEW p,
           Renames(f, g, p, S), OneToOne(p, S)
    PROVE  Sum(g, Image(p, S)) = Sum(f, S)
  <1> DEFINE Im(s) == Image(p, s)
             P == {s \in SUBSET S : Terms(g, Im(s)) /\ Sum(g, Im(s)) = Sum(f, s)}
  <1>1. ASSUME NEW s \in SUBSET S, \A x \in s : s \ {x} \in P
        PROVE  s \in P
    <2>1. CASE s = {}
      <3>1. Im(s) = {}
        BY <2>1 DEF Image
      <3>2. QED
        BY <2>1, <3>1, SumEmpty, FS_EmptySet DEF Terms
    <2>2. CASE s # {}
      <3>1. PICK x \in s : TRUE
        BY <2>2
      <3>2. Sum(f, s) = f[x] + Sum(f, s \ {x})
        BY TermsSubset, SumRemove
      <3>3. Im(s) = Im(s \ {x}) \cup {p[x]} /\ Im(s) \ {p[x]} = Im(s \ {x})
        BY DEF Image, OneToOne
      <3>4. Terms(g, Im(s \ {x})) /\ Sum(g, Im(s \ {x})) = Sum(f, s \ {x})
        BY <1>1
      <3>5. g[p[x]] = f[x] /\ f[x] \in Nat
        BY DEF Terms, Renames
      <3> HIDE DEF Im
      <3>6. Terms(g, Im(s \ {x}) \cup {p[x]})
        BY <3>4, <3>5, FS_AddElement DEF Terms
      <3>7. Sum(g, Im(s)) = g[p[x]] + Sum(g, Im(s \ {x}))
        <4>1. Terms(g, Im(s)) /\ p[x] \in Im(s)
          BY <3>3, <3>6
        <4>2. Sum(g, Im(s)) = g[p[x]] + Sum(g, Im(s) \ {p[x]})
          BY <4>1, SumRemove
        <4>3. QED
          BY <3>3, <4>2
      <3>8. Sum(g, Im(s)) = Sum(f, s)
        BY <3>2, <3>4, <3>5, <3>7
      <3>9. QED
        BY <3>3, <3>6, <3>8
    <2>3. QED
      BY <2>1, <2>2
  <1>2. SUBSET S \subseteq P
    <2> HIDE DEF P
    <2> QED
      BY <1>1, SubsetInduction DEF Terms
  <1>3. S \in P
    BY <1>2
  <1>4. QED
    BY <1>3

\* The sum of a set of numbers all moved up by one.
LEMMA SumShift ==
    ASSUME NEW f, NEW g, NEW S, Terms(f, S), S \subseteq Nat,
           \A a \in S : g[a + 1] = f[a]
    PROVE  Sum(g, {a + 1 : a \in S}) = Sum(f, S)
  <1> DEFINE p == [a \in S |-> a + 1]
  <1>1. Image(p, S) = {a + 1 : a \in S}
    BY DEF Image
  <1>2. Renames(f, g, p, S)
    BY DEF Renames
  <1>3. OneToOne(p, S)
    BY DEF OneToOne
  <1>4. Sum(g, Image(p, S)) = Sum(f, S)
    <2> HIDE DEF p
    <2> QED
      BY <1>2, <1>3, SumImage
  <1>5. QED
    BY <1>1, <1>4

\* The sums of two sets with no element in common.
LEMMA SumUnion ==
    ASSUME NEW f, NEW S, NEW T, Terms(f, S), Terms(f, T), S \cap T = {}
    PROVE  Sum(f, S \cup T) = Sum(f, S) + Sum(f, T)
  <1> DEFINE P == {s \in SUBSET S : Sum(f, s \cup T) = Sum(f, s) + Sum(f, T)}
  <1>1. ASSUME NEW s \in SUBSET S
        PROVE  Terms(f, s) /\ Terms(f, s \cup T)
    <2>1. Terms(f, s)
      BY TermsSubset
    <2>2. QED
      BY <2>1, FS_Union DEF Terms
  <1>2. Sum(f, T) \in Nat /\ \A s \in SUBSET S : Sum(f, s) \in Nat
    BY <1>1, SumType
  <1>3. ASSUME NEW s \in SUBSET S, \A x \in s : s \ {x} \in P
        PROVE  s \in P
    <2>1. CASE s = {}
      BY <1>2, <2>1, SumEmpty
    <2>2. CASE s # {}
      <3>1. PICK x \in s : TRUE
        BY <2>2
      <3>2. Sum(f, s) = f[x] + Sum(f, s \ {x})
        BY TermsSubset, SumRemove
      <3>3. (s \cup T) \ {x} = (s \ {x}) \cup T /\ x \in s \cup T
        OBVIOUS
      <3>4. Sum(f, s \cup T) = f[x] + Sum(f, (s \ {x}) \cup T)
        <4>1. Sum(f, s \cup T) = f[x] + Sum(f, (s \cup T) \ {x})
          BY <1>1, <3>3, SumRemove
        <4>2. QED
          BY <3>3, <4>1
      <3>5. Sum(f, (s \ {x}) \cup T) = Sum(f, s \ {x}) + Sum(f, T)
        BY <1>3
      <3>6. f[x] \in Nat /\ Sum(f, s \ {x}) \in Nat
        BY <1>2 DEF Terms
      <3>7. Sum(f, s \cup T) = Sum(f, s) + Sum(f, T)
        <4> HIDE DEF P
        <4> QED
          BY <1>2, <3>2, <3>4, <3>5, <3>6
      <3>8. QED
        BY <3>7
    <2>3. QED
      BY <2>1, <2>2
  <1>4. SUBSET S \subseteq P
    <2> HIDE DEF P
    <2> QED
      BY <1>3, SubsetInduction DEF Terms
  <1>5. QED
    BY <1>4

\* A sum of sums: the parts k[i] of a finite set D, no two of them sharing an
\* element, each with the sum n[i].
LEMMA SumOfParts ==
    ASSUME NEW f, NEW D, Terms(f, D),
           NEW C, IsFiniteSet(C), NEW k \in [C -> SUBSET D],
           \A i, j \in C : i # j => k[i] \cap k[j] = {},
           NEW n, \A i \in C : n[i] = Sum(f, k[i])
    PROVE  Sum(n, C) = Sum(f, UNION {k[i] : i \in C})
  <1> DEFINE All(s) == UNION {k[i] : i \in s}
             P == {s \in SUBSET C : Sum(n, s) = Sum(f, All(s))}
  <1>1. \A s \in SUBSET C : Terms(f, All(s))
    <2>1. \A s \in SUBSET C : All(s) \in SUBSET D
      OBVIOUS
    <2> HIDE DEF All
    <2>2. QED
      BY <2>1, TermsSubset
  <1>2. \A i \in C : Terms(f, k[i])
    BY TermsSubset
  <1>3. \A s \in SUBSET C : Terms(n, s)
    <2>1. \A i \in C : n[i] \in Nat
      BY <1>2, SumType
    <2>2. QED
      BY <2>1, FS_Subset DEF Terms
  <1>4. ASSUME NEW s \in SUBSET C, \A i \in s : s \ {i} \in P
        PROVE  s \in P
    <2>1. CASE s = {}
      <3>1. All(s) = {}
        BY <2>1
      <3>2. QED
        BY <2>1, <3>1, SumEmpty
    <2>2. CASE s # {}
      <3>1. PICK i \in s : TRUE
        BY <2>2
      <3>2. Sum(n, s) = n[i] + Sum(n, s \ {i})
        BY <1>3, SumRemove
      <3> DEFINE rest == All(s \ {i})
      <3>3. All(s) = k[i] \cup rest /\ k[i] \cap rest = {}
        OBVIOUS
      <3>4. Terms(f, k[i]) /\ Terms(f, rest)
        <4>1. s \ {i} \in SUBSET C
          OBVIOUS
        <4> HIDE DEF All
        <4>2. QED
          BY <1>1, <1>2, <4>1
      <3>5. Sum(n, s \ {i}) = Sum(f, rest)
        BY <1>4
      <3> HIDE DEF All, rest
      <3>6. Sum(f, k[i] \cup rest) = Sum(f, k[i]) + Sum(f, rest)
        BY <3>3, <3>4, SumUnion
      <3>7. Sum(n, s) = Sum(f, All(s))
        BY <3>2, <3>3, <3>5, <3>6
      <3>8. QED
        BY <3>7
    <2>3. QED
      BY <2>1, <2>2
  <1>5. SUBSET C \subseteq P
    <2> HIDE DEF P
    <2> QED
      BY <1>4, SubsetInduction
  <1>6. C \in P
    BY <1>5
  <1>7. QED
    BY <1>6

------------------------------------------------------------------------------
(***************************************************************************)
(* The ring against the log.  At(c, a) is what the wall clock showed a     *)
(* ticks before it shows c, and Slot(c, a) the bucket of that second.      *)
(***************************************************************************)
At(c, a) == IF a <= c THEN c - a ELSE c + Window - a
Slot(c, a) == bucketIndex(At(c, a))

\* The ages of the outcomes a bucket holds, given the age of its timestamp.
Kept(c, age, i) == {a \in 0 .. age : Slot(c, a) = i}

Stamp(b) == [i \in BucketIndex |-> b[i].age]
Successes(r) == [i \in DOMAIN r |-> r[i].success]
Failures(r) == [i \in DOMAIN r |-> r[i].failure]

\* A bucket in the window counts the outcomes of its second since its timestamp.
CountsKept(c, stamp, count, term) ==
    \A i \in BucketIndex : stamp[i] <= Window => count[i] = Sum(term, Kept(c, stamp[i], i))

\* Its timestamp was taken in its second.
Stamped(c, stamp) ==
    \A i \in BucketIndex : stamp[i] <= Window => Slot(c, stamp[i]) = i

\* A second that had an outcome has a timestamp at least as old, by less than
\* a second: not before that second began, if there is more than one bucket.
Held(c, stamp, l) ==
    \A a \in 0 .. Window - TicksPerSec : l[a] # NoOutcome =>
        LET i == Slot(c, a)
        IN  /\ a <= stamp[i] /\ stamp[i] <= a + TicksPerSec
            /\ TotalBuckets > 1 => stamp[i] <= a + At(c, a) - i * TicksPerSec

Inv ==
    /\ RingTypeOK
    /\ CountsKept(now, Stamp(ring), Successes(ring), Successes(log))
    /\ CountsKept(now, Stamp(ring), Failures(ring), Failures(log))
    /\ Stamped(now, Stamp(ring))
    /\ Held(now, Stamp(ring), log)

------------------------------------------------------------------------------
\* The clock was in the ring at every age of the log.
LEMMA AtType ==
    ASSUME NEW c \in Clocks, NEW a \in LogAges
    PROVE  At(c, a) \in Clocks
  BY WindowBounds DEF At, Clocks, LogAges

\* The outcome is from the second of its bucket.
LEMMA SlotBounds ==
    ASSUME NEW c \in Clocks, NEW a \in LogAges
    PROVE  /\ Slot(c, a) \in BucketIndex
           /\ Slot(c, a) * TicksPerSec \in Nat
           /\ Slot(c, a) * TicksPerSec <= At(c, a)
           /\ At(c, a) < Slot(c, a) * TicksPerSec + TicksPerSec
  BY AtType, BucketIndexBounds DEF Slot

\* The outcomes of this very tick belong to the bucket that record writes.
LEMMA SlotNow ==
    ASSUME NEW c \in Clocks
    PROVE  At(c, 0) = c /\ Slot(c, 0) = bucketIndex(c)
  BY DEF At, Slot, Clocks

\* The clock moves on by one, and after the last tick of the ring to zero.
LEMMA NextClockIs ==
    ASSUME NEW c \in Clocks
    PROVE  /\ NextClock(c) \in Clocks
           /\ NextClock(c) = IF c = Window - 1 THEN 0 ELSE c + 1
  <1>1. \A m \in Nat \ {0}, n \in Nat : (n < m => n % m = n) /\ m % m = 0
    BY Z3
  <1>2. c + 1 \in Nat /\ Window \in Nat \ {0} /\ c + 1 <= Window
    BY WindowBounds DEF Clocks
  <1>3. NextClock(c) = IF c = Window - 1 THEN 0 ELSE c + 1
    BY <1>1, <1>2 DEF NextClock, Clocks
  <1>4. QED
    BY <1>3, WindowBounds DEF Clocks

\* An outcome gets older by one tick and stays in the bucket of its second.
LEMMA SlotTick ==
    ASSUME NEW c \in Clocks, NEW a \in 0 .. Window - 1
    PROVE  At(NextClock(c), a + 1) = At(c, a) /\ Slot(NextClock(c), a + 1) = Slot(c, a)
  <1>1. At(NextClock(c), a + 1) = At(c, a)
    BY WindowBounds, NextClockIs DEF At, Clocks
  <1>2. QED
    BY <1>1 DEF Slot

\* What a log gives the sums.
LogTerms == [LogAges -> Nat]

\* What a bucket holds can be summed.
LEMMA KeptTerms ==
    ASSUME NEW c, NEW age \in LogAges, NEW i, NEW term \in LogTerms
    PROVE  /\ Terms(term, Kept(c, age, i))
           /\ Sum(term, Kept(c, age, i)) \in Nat
           /\ Kept(c, age, i) \subseteq LogAges
  <1>1. IsFiniteSet(0 .. age)
    BY WindowBounds, FS_Interval DEF LogAges
  <1>2. Kept(c, age, i) \in SUBSET (0 .. age) /\ 0 .. age \subseteq LogAges
    BY WindowBounds DEF Kept, LogAges
  <1>3. Terms(term, Kept(c, age, i))
    BY <1>1, <1>2, FS_Subset DEF Terms, LogTerms
  <1>4. QED
    BY <1>2, <1>3, SumType

\* So can the whole log.
LEMMA LogAgesTerms ==
    ASSUME NEW term \in LogTerms
    PROVE  Terms(term, LogAges)
  <1>1. IsFiniteSet(LogAges)
    BY WindowBounds, FS_Interval DEF LogAges
  <1>2. QED
    BY <1>1 DEF Terms, LogTerms

\* A tick moves the terms of every bucket up and adds none.
LEMMA TickCounts ==
    ASSUME NEW c \in Clocks, NEW stamp \in [BucketIndex -> Ages], NEW count,
           NEW term \in LogTerms, NEW next \in LogTerms,
           next[0] = 0, \A a \in 0 .. Window - 1 : next[a + 1] = term[a],
           CountsKept(c, stamp, count, term)
    PROVE  CountsKept(NextClock(c), [i \in BucketIndex |-> Older(stamp[i])], count, next)
  <1>1. SUFFICES ASSUME NEW i \in BucketIndex, Older(stamp[i]) <= Window
                 PROVE  count[i] = Sum(next, Kept(NextClock(c), Older(stamp[i]), i))
    BY DEF CountsKept
  <1> DEFINE s == stamp[i]
             old == Kept(c, s, i)
             new == Kept(NextClock(c), s + 1, i)
             up == {a + 1 : a \in old}
  <1>2. s \in 0 .. Window - 1 /\ Older(s) = s + 1
    BY <1>1, WindowBounds DEF Older, Ages, Expired
  <1>3. count[i] = Sum(term, old)
    BY <1>2, WindowBounds DEF CountsKept
  <1>4. s \in LogAges /\ s + 1 \in LogAges
    BY <1>2, WindowBounds DEF LogAges
  <1>5. Terms(term, old) /\ Terms(next, new) /\ Sum(next, new) \in Nat
    BY <1>4, KeptTerms
  <1>6. old \subseteq 0 .. Window - 1 /\ old \subseteq Nat
    BY <1>2, WindowBounds DEF Kept
  <1>7. up \subseteq new
    <2>1. ASSUME NEW a \in old
          PROVE  a + 1 \in new
      <3>1. a \in 0 .. Window - 1 /\ a \in 0 .. s /\ Slot(c, a) = i
        BY <1>6 DEF Kept
      <3>2. Slot(NextClock(c), a + 1) = i
        BY <3>1, SlotTick
      <3>3. a + 1 \in 0 .. s + 1
        BY <1>2, <3>1
      <3>4. QED
        BY <3>2, <3>3 DEF Kept
    <2> HIDE DEF old, new
    <2>2. QED
      BY <2>1
  <1>8. ASSUME NEW x \in new, next[x] # 0
        PROVE  x \in up
    <2>1. x \in 0 .. s + 1 /\ Slot(NextClock(c), x) = i /\ x # 0
      BY <1>8 DEF Kept
    <2>2. x - 1 \in 0 .. Window - 1 /\ x - 1 \in 0 .. s /\ (x - 1) + 1 = x
      BY <1>2, <2>1, WindowBounds
    <2>3. Slot(c, x - 1) = i
      BY <2>1, <2>2, SlotTick
    <2>4. x - 1 \in old
      BY <2>2, <2>3 DEF Kept
    <2> HIDE DEF old
    <2>5. QED
      BY <2>2, <2>4
  <1>9. Sum(next, up) = Sum(term, old)
    <2>1. \A a \in old : next[a + 1] = term[a]
      BY <1>6
    <2> HIDE DEF old
    <2>2. QED
      BY <1>5, <1>6, <2>1, SumShift
  <1>10. Sum(next, up) = Sum(next, new)
    <2> HIDE DEF up, new
    <2>1. Terms(next, up) /\ Sum(next, up) \in Nat
      BY <1>5, <1>7, TermsSubset, SumType
    <2>2. Sum(next, up) <= Sum(next, new)
      BY <1>5, <1>7, <2>1, SumSupport
    <2>3. Sum(next, new) <= Sum(next, up)
      BY <1>5, <1>8, <2>1, SumSupport
    <2>4. QED
      BY <1>5, <2>1, <2>2, <2>3
  <1>11. QED
    BY <1>2, <1>3, <1>9, <1>10

\* A timestamp stays in the second of its bucket.
LEMMA TickStamped ==
    ASSUME NEW c \in Clocks, NEW stamp \in [BucketIndex -> Ages], Stamped(c, stamp)
    PROVE  Stamped(NextClock(c), [i \in BucketIndex |-> Older(stamp[i])])
  <1>1. SUFFICES ASSUME NEW i \in BucketIndex, Older(stamp[i]) <= Window
                 PROVE  Slot(NextClock(c), Older(stamp[i])) = i
    BY DEF Stamped
  <1>2. stamp[i] \in 0 .. Window - 1 /\ Older(stamp[i]) = stamp[i] + 1
    BY <1>1, WindowBounds DEF Older, Ages, Expired
  <1>3. Slot(c, stamp[i]) = i
    BY <1>2, WindowBounds DEF Stamped
  <1>4. QED
    BY <1>2, <1>3, SlotTick

\* An outcome and the timestamp of its second get older together.
LEMMA TickHeld ==
    ASSUME NEW c \in Clocks, NEW stamp \in [BucketIndex -> Ages], NEW l, NEW next,
           next[0] = NoOutcome, \A a \in 0 .. Window - 1 : next[a + 1] = l[a],
           Held(c, stamp, l)
    PROVE  Held(NextClock(c), [i \in BucketIndex |-> Older(stamp[i])], next)
  <1> DEFINE older == [i \in BucketIndex |-> Older(stamp[i])]
             d == NextClock(c)
  <1>1. SUFFICES ASSUME NEW x \in 0 .. Window - TicksPerSec, next[x] # NoOutcome
                 PROVE  LET i == Slot(d, x)
                        IN  /\ x <= older[i] /\ older[i] <= x + TicksPerSec
                            /\ TotalBuckets > 1 => older[i] <= x + At(d, x) - i * TicksPerSec
    BY DEF Held
  <1> DEFINE a == x - 1
             i == Slot(c, a)
  <1>2. /\ a \in 0 .. Window - 1 /\ a \in 0 .. Window - TicksPerSec
        /\ a + 1 = x /\ a + TicksPerSec < Window
    BY <1>1, WindowBounds
  <1>3. Slot(d, x) = i /\ At(d, x) = At(c, a)
    BY <1>2, SlotTick
  <1>4. i \in BucketIndex /\ i * TicksPerSec \in Nat /\ At(c, a) \in Nat
    <2>1. a \in LogAges
      BY <1>2, WindowBounds DEF LogAges
    <2>2. QED
      BY <2>1, SlotBounds, AtType DEF Clocks
  <1>5. l[a] # NoOutcome
    BY <1>1, <1>2
  <1> DEFINE m == i * TicksPerSec
             t == At(c, a)
             s == stamp[i]
  <1>6. a <= s /\ s <= a + TicksPerSec /\ (TotalBuckets > 1 => s <= a + t - m)
    BY <1>2, <1>5 DEF Held
  <1>7. s \in Nat /\ older[i] = s + 1
    <2>1. s \in Ages
      BY <1>4
    <2>2. s # Expired
      BY <1>2, <1>6, <2>1, WindowBounds DEF Expired, Ages
    <2>3. QED
      BY <1>4, <2>1, <2>2, WindowBounds DEF Older, Ages, Expired
  <1>8. /\ x <= older[i] /\ older[i] <= x + TicksPerSec
        /\ TotalBuckets > 1 => older[i] <= x + t - m
    <2> HIDE DEF i, t, m, s, older, d
    <2>1. m \in Nat /\ t \in Nat
      BY <1>4 DEF m, t
    <2>2. QED
      BY <1>2, <1>6, <1>7, <2>1, WindowBounds
  <1>9. QED
    BY <1>3, <1>8

\* record adds d, 0 or 1, to a counter of the bucket of the current second and
\* the log the same to the outcomes of this tick.  A bucket that stays.
LEMMA KeepCounts ==
    ASSUME NEW c \in Clocks, NEW stamp \in [BucketIndex -> Ages],
           NEW count, NEW counted, NEW d \in 0 .. 1,
           NEW term \in LogTerms, NEW next \in LogTerms,
           next[0] = term[0] + d, \A a \in LogAges \ {0} : next[a] = term[a],
           counted[bucketIndex(c)] = count[bucketIndex(c)] + d,
           \A i \in BucketIndex \ {bucketIndex(c)} : counted[i] = count[i],
           CountsKept(c, stamp, count, term)
    PROVE  CountsKept(c, stamp, counted, next)
  <1>1. SUFFICES ASSUME NEW i \in BucketIndex, stamp[i] <= Window
                 PROVE  counted[i] = Sum(next, Kept(c, stamp[i], i))
    BY DEF CountsKept
  <1> DEFINE k == Kept(c, stamp[i], i)
  <1>2. stamp[i] \in LogAges
    BY <1>1, WindowBounds DEF Ages, LogAges
  <1>3. Terms(term, k) /\ k \subseteq LogAges
    BY <1>2, KeptTerms
  <1>4. count[i] = Sum(term, k)
    BY <1>1 DEF CountsKept
  <1>5. CASE i = bucketIndex(c)
    <2>1. 0 \in k
      BY <1>2, <1>5, SlotNow, WindowBounds DEF Kept, LogAges
    <2>2. CASE d = 0
      <3>1. \A a \in k : next[a] = term[a]
        <4>1. next[0] = term[0]
          BY <2>2, WindowBounds DEF LogTerms, LogAges
        <4>2. QED
          BY <1>3, <4>1
      <3>2. Sum(term, k) = Sum(next, k)
        <4> HIDE DEF k
        <4> QED
          BY <1>3, <3>1, SumEqual DEF Terms
      <3>3. Sum(term, k) \in Nat
        BY <1>2, KeptTerms
      <3>4. QED
        BY <1>4, <1>5, <2>2, <3>2, <3>3
    <2>3. CASE d = 1
      <3>1. \A a \in k \ {0} : next[a] = term[a]
        BY <1>3
      <3>2. Sum(next, k) = Sum(term, k) + 1
        <4> HIDE DEF k
        <4> QED
          BY <1>3, <2>1, <2>3, <3>1, SumBump
      <3>3. QED
        BY <1>4, <1>5, <2>3, <3>2
    <2>4. QED
      BY <2>2, <2>3
  <1>6. CASE i # bucketIndex(c)
    <2>1. 0 \notin k
      BY <1>6, SlotNow DEF Kept
    <2>2. \A a \in k : next[a] = term[a]
      BY <1>3, <2>1
    <2>3. Sum(term, k) = Sum(next, k)
      <3> HIDE DEF k
      <3> QED
        BY <1>3, <2>2, SumEqual DEF Terms
    <2>4. QED
      BY <1>4, <1>6, <2>3
  <1>7. QED
    BY <1>5, <1>6

\* A bucket that starts a new second.
LEMMA ResetCounts ==
    ASSUME NEW c \in Clocks, NEW stamp \in [BucketIndex -> Ages],
           NEW count, NEW counted, NEW d \in 0 .. 1,
           NEW term \in LogTerms, NEW next \in LogTerms,
           next[0] = d, \A a \in LogAges \ {0} : next[a] = term[a],
           counted[bucketIndex(c)] = d,
           \A i \in BucketIndex \ {bucketIndex(c)} : counted[i] = count[i],
           CountsKept(c, stamp, count, term)
    PROVE  CountsKept(c, [stamp EXCEPT ![bucketIndex(c)] = 0], counted, next)
  <1> DEFINE stamped == [stamp EXCEPT ![bucketIndex(c)] = 0]
  <1>1. SUFFICES ASSUME NEW i \in BucketIndex, stamped[i] <= Window
                 PROVE  counted[i] = Sum(next, Kept(c, stamped[i], i))
    BY DEF CountsKept
  <1>2. CASE i = bucketIndex(c)
    <2>1. Kept(c, 0, i) = {0}
      BY <1>2, SlotNow DEF Kept
    <2>2. IsFiniteSet({0}) /\ next[0] \in Nat /\ next[0] = d
      BY FS_EmptySet, FS_AddElement
    <2>3. Terms(next, {0})
      BY <2>2 DEF Terms
    <2>4. Sum(next, {0}) = next[0] + Sum(next, {0} \ {0})
      BY <2>3, SumRemove
    <2>5. Sum(next, {0} \ {0}) = 0
      <3>1. {0} \ {0} = {}
        OBVIOUS
      <3>2. QED
        BY <3>1, SumEmpty
    <2>6. Sum(next, {0}) = d
      BY <2>2, <2>4, <2>5
    <2>7. stamped[i] = 0
      BY <1>2
    <2>8. QED
      BY <1>2, <2>1, <2>6, <2>7
  <1>3. CASE i # bucketIndex(c)
    <2> DEFINE k == Kept(c, stamp[i], i)
    <2>1. stamped[i] = stamp[i] /\ stamp[i] \in LogAges
      BY <1>1, <1>3, WindowBounds DEF Ages, LogAges
    <2>2. Terms(term, k) /\ k \subseteq LogAges
      BY <2>1, KeptTerms
    <2>3. 0 \notin k
      BY <1>3, SlotNow DEF Kept
    <2>4. \A a \in k : next[a] = term[a]
      BY <2>2, <2>3
    <2>5. Sum(term, k) = Sum(next, k)
      <3> HIDE DEF k
      <3> QED
        BY <2>2, <2>4, SumEqual DEF Terms
    <2>6. count[i] = Sum(term, k)
      BY <1>1, <2>1 DEF CountsKept
    <2>7. QED
      BY <1>3, <2>1, <2>5, <2>6
  <1>4. QED
    BY <1>2, <1>3

\* A bucket that stays has been stamped in the current second, not before it
\* began: so it holds the outcome recorded now.
LEMMA KeepHeld ==
    ASSUME NEW c \in Clocks, NEW stamp \in [BucketIndex -> Ages],
           stamp[bucketIndex(c)] <= TicksPerSec, Stamped(c, stamp),
           NEW l, NEW next, \A a \in LogAges \ {0} : next[a] = l[a],
           Held(c, stamp, l)
    PROVE  Held(c, stamp, next)
  <1>1. SUFFICES ASSUME NEW a \in 0 .. Window - TicksPerSec, next[a] # NoOutcome
                 PROVE  LET i == Slot(c, a)
                        IN  /\ a <= stamp[i] /\ stamp[i] <= a + TicksPerSec
                            /\ TotalBuckets > 1 => stamp[i] <= a + At(c, a) - i * TicksPerSec
    BY DEF Held
  <1>2. CASE a # 0
    <2>1. l[a] # NoOutcome
      BY <1>1, <1>2, WindowBounds DEF LogAges
    <2>2. QED
      BY <2>1 DEF Held
  <1>3. CASE a = 0
    <2> DEFINE i == bucketIndex(c)
               s == stamp[i]
               m == i * TicksPerSec
    <2>1. i \in BucketIndex /\ m \in Nat /\ m <= c /\ c < m + TicksPerSec /\ c \in Nat /\ c < Window
      BY BucketIndexBounds, WindowBounds DEF Clocks
    <2>2. s \in Nat /\ s <= TicksPerSec /\ s \in LogAges
      BY <2>1, WindowBounds DEF Ages, LogAges
    <2>3. Slot(c, s) = i
      BY <2>1, <2>2, WindowBounds DEF Stamped
    <2>4. m <= At(c, s) /\ At(c, s) < m + TicksPerSec
      BY <2>2, <2>3, SlotBounds
    <2>5. ASSUME TotalBuckets > 1
          PROVE  s <= c - m
      <3> HIDE DEF m, s, i
      <3>1. CASE s <= c
        BY <2>1, <2>2, <2>4, <3>1 DEF At
      <3>2. CASE s > c
        <4>1. At(c, s) = c + Window - s
          BY <2>1, <2>2, <3>2 DEF At
        <4>2. Window >= 2 * TicksPerSec
          BY <2>5, WindowBounds
        <4>3. QED
          BY <2>1, <2>2, <2>4, <4>1, <4>2, WindowBounds
      <3>3. QED
        BY <2>1, <2>2, <3>1, <3>2
    <2>6. At(c, a) = c /\ Slot(c, a) = i
      BY <1>3, SlotNow
    <2>7. a <= s /\ s <= a + TicksPerSec /\ (TotalBuckets > 1 => s <= a + c - m)
      <3> HIDE DEF m, s, i
      <3> QED
        BY <1>3, <2>1, <2>2, <2>5, WindowBounds
    <2>8. QED
      BY <2>6, <2>7
  <1>4. QED
    BY <1>2, <1>3

\* A bucket that starts a new second holds no outcome the window still owes.
LEMMA ResetHeld ==
    ASSUME NEW c \in Clocks, NEW stamp \in [BucketIndex -> Ages],
           stamp[bucketIndex(c)] > TicksPerSec,
           NEW l, NEW next, \A a \in LogAges \ {0} : next[a] = l[a],
           Held(c, stamp, l)
    PROVE  Held(c, [stamp EXCEPT ![bucketIndex(c)] = 0], next)
  <1> DEFINE n == bucketIndex(c)
             stamped == [stamp EXCEPT ![n] = 0]
  <1>1. SUFFICES ASSUME NEW a \in 0 .. Window - TicksPerSec, next[a] # NoOutcome
                 PROVE  LET i == Slot(c, a)
                        IN  /\ a <= stamped[i] /\ stamped[i] <= a + TicksPerSec
                            /\ TotalBuckets > 1 => stamped[i] <= a + At(c, a) - i * TicksPerSec
    BY DEF Held
  <1> DEFINE m == n * TicksPerSec
  <1>2. n \in BucketIndex /\ m \in Nat /\ m <= c /\ c < m + TicksPerSec /\ c \in Nat
    BY BucketIndexBounds, WindowBounds DEF Clocks
  <1>3. CASE a = 0
    <2>1. At(c, a) = c /\ Slot(c, a) = n /\ stamped[n] = 0
      BY <1>2, <1>3, SlotNow
    <2>2. 0 <= c - m /\ 0 <= a + TicksPerSec
      <3> HIDE DEF m, n
      <3> QED
        BY <1>2, <1>3, WindowBounds
    <2>3. 0 <= a + c - m
      <3> HIDE DEF m, n
      <3> QED
        BY <1>2, <1>3, <2>2
    <2> HIDE DEF stamped, n
    <2>4. QED
      BY <1>3, <2>1, <2>2, <2>3 DEF m
  <1>4. CASE a # 0
    <2> DEFINE i == Slot(c, a)
    <2>1. l[a] # NoOutcome /\ a \in LogAges
      BY <1>1, <1>4, WindowBounds DEF LogAges
    <2>2. /\ a <= stamp[i] /\ stamp[i] <= a + TicksPerSec
          /\ TotalBuckets > 1 => stamp[i] <= a + At(c, a) - i * TicksPerSec
      BY <2>1 DEF Held
    <2>3. ASSUME i = n
          PROVE  FALSE
      <3> DEFINE s == stamp[n]
                 t == At(c, a)
      <3>1. t \in Nat /\ t < m + TicksPerSec /\ s \in Nat
        BY <1>2, <2>1, <2>3, SlotBounds, AtType, WindowBounds DEF Clocks, Ages, Expired
      <3>2. s > TicksPerSec /\ (TotalBuckets > 1 => s <= a + t - m)
        BY <2>2, <2>3
      <3>3. TotalBuckets > 1
        BY <1>4, WindowBounds
      <3>4. a <= c => t = c - a
        BY DEF At
      <3>5. a > c => t = c + Window - a
        BY <1>2 DEF At
      <3> HIDE DEF s, t, m, n
      <3>6. QED
        BY <1>2, <1>4, <3>1, <3>2, <3>3, <3>4, <3>5, WindowBounds
    <2>4. stamped[i] = stamp[i]
      BY <2>1, <2>3, SlotBounds
    <2> HIDE DEF stamped, i
    <2>5. QED
      BY <2>2, <2>4 DEF i
  <1>5. QED
    BY <1>3, <1>4

------------------------------------------------------------------------------
\* What the type invariant says of the ring and of the log.
LEMMA RingTypes ==
    ASSUME NEW b \in Buckets
    PROVE  /\ Stamp(b) \in [BucketIndex -> Ages]
           /\ Successes(b) \in [BucketIndex -> Nat]
           /\ Failures(b) \in [BucketIndex -> Nat]
           /\ \A i \in BucketIndex : /\ b[i] \in Bucket
                                     /\ Stamp(b)[i] = b[i].age
                                     /\ Successes(b)[i] = b[i].success
                                     /\ Failures(b)[i] = b[i].failure
  BY DEF Buckets, Bucket, Stamp, Successes, Failures

\* The logs of the type invariant.
Logs == [LogAges -> [success : 0 .. MaxPerTick, failure : 0 .. MaxPerTick]]

\* And the counts of the log.
LEMMA LogTypes ==
    ASSUME NEW l \in Logs
    PROVE  /\ Successes(l) \in LogTerms
           /\ Failures(l) \in LogTerms
           /\ \A a \in LogAges : /\ l[a] \in [success : Nat, failure : Nat]
                                 /\ Successes(l)[a] = l[a].success
                                 /\ Failures(l)[a] = l[a].failure
  BY MaxPerTickAssumption DEF Logs, LogTerms, Successes, Failures

\* An expired age is outside the window.
LEMMA AgesType == 0 \in Ages /\ 0 \in LogAges /\ Expired \in Ages /\ ~ (Expired <= Window)
  BY WindowBounds DEF Ages, LogAges, Expired

\* Initially: no bucket is in the window, and the log is empty.
LEMMA InitInv == RingInit => Inv
  <1> SUFFICES ASSUME RingInit
               PROVE  Inv
    OBVIOUS
  <1>1. now \in Clocks /\ ring = newBuckets /\ log = [a \in LogAges |-> NoOutcome]
    BY DEF RingInit
  <1>2. \A i \in BucketIndex : Stamp(ring)[i] = Expired
    BY <1>1 DEF Stamp, newBuckets, EmptyBucket
  <1>3. RingTypeOK
    BY <1>1, AgesType, MaxPerTickAssumption
       DEF RingTypeOK, newBuckets, EmptyBucket, Buckets, Bucket, NoOutcome
  <1>4. Held(now, Stamp(ring), log)
    BY <1>1, WindowBounds DEF Held, LogAges
  <1>5. QED
    BY <1>2, <1>3, <1>4, AgesType DEF Inv, CountsKept, Stamped

\* A tick of the clock: the ring and the log get older together.
LEMMA TickInv == Inv /\ RingTick => Inv'
  <1> SUFFICES ASSUME Inv, RingTick
               PROVE  Inv'
    OBVIOUS
  <1> DEFINE older == [i \in BucketIndex |-> Older(Stamp(ring)[i])]
  <1>1. now \in Clocks /\ ring \in Buckets /\ log \in Logs
    BY DEF Inv, RingTypeOK, Logs
  <1>2. /\ now' = NextClock(now)
        /\ ring' = AgeBuckets(ring)
        /\ log' = [a \in LogAges |-> IF a = 0 THEN NoOutcome ELSE log[a - 1]]
    BY DEF RingTick
  <1>3. ring' \in Buckets
    <2>1. ASSUME NEW i \in BucketIndex
          PROVE  [ring[i] EXCEPT !.age = Older(@)] \in Bucket
      <3>1. ring[i] \in Bucket /\ Older(ring[i].age) \in Ages
        BY <1>1, RingTypes, OlderType DEF Bucket
      <3>2. QED
        BY <3>1 DEF Bucket
    <2>2. QED
      BY <1>2, <2>1 DEF AgeBuckets, Buckets
  <1>4. log' \in Logs
    <2>1. \A a \in LogAges : a # 0 => a - 1 \in LogAges
      BY WindowBounds DEF LogAges
    <2>2. NoOutcome \in [success : 0 .. MaxPerTick, failure : 0 .. MaxPerTick]
      BY MaxPerTickAssumption DEF NoOutcome
    <2>3. QED
      BY <1>1, <1>2, <2>1, <2>2 DEF Logs
  <1>5. RingTypeOK'
    BY <1>1, <1>2, <1>3, <1>4, NextClockIs DEF RingTypeOK, Logs
  <1>6. /\ Stamp(ring') = older
        /\ Successes(ring') = Successes(ring)
        /\ Failures(ring') = Failures(ring)
    <2>1. ASSUME NEW i \in BucketIndex
          PROVE  /\ ring'[i].age = Older(ring[i].age)
                 /\ ring'[i].success = ring[i].success
                 /\ ring'[i].failure = ring[i].failure
      BY <1>1, <1>2, RingTypes DEF AgeBuckets, Bucket
    <2>2. \A i \in BucketIndex : Older(Stamp(ring)[i]) = Older(ring[i].age)
      BY <1>1, RingTypes
    <2>3. Stamp(ring') = older
      BY <2>1, <2>2 DEF Stamp
    <2>4. DOMAIN ring = BucketIndex /\ DOMAIN ring' = BucketIndex
      BY <1>1, <1>3 DEF Buckets
    <2>5. QED
      BY <2>1, <2>3, <2>4 DEF Successes, Failures
  <1>7. /\ log'[0] = NoOutcome
        /\ \A a \in 0 .. Window - 1 : log'[a + 1] = log[a]
    BY <1>2, WindowBounds DEF LogAges
  <1>8. /\ Successes(log')[0] = 0 /\ Failures(log')[0] = 0
        /\ \A a \in 0 .. Window - 1 : /\ Successes(log')[a + 1] = Successes(log)[a]
                                      /\ Failures(log')[a + 1] = Failures(log)[a]
    <2>1. \A a \in 0 .. Window - 1 : a \in LogAges /\ a + 1 \in LogAges
      BY WindowBounds DEF LogAges
    <2>2. QED
      BY <1>1, <1>4, <1>7, <2>1, LogTypes, AgesType DEF NoOutcome
  <1>9. /\ Stamp(ring) \in [BucketIndex -> Ages]
        /\ Successes(log) \in LogTerms /\ Failures(log) \in LogTerms
        /\ Successes(log') \in LogTerms /\ Failures(log') \in LogTerms
    BY <1>1, <1>4, RingTypes, LogTypes
  <1>10. /\ CountsKept(now, Stamp(ring), Successes(ring), Successes(log))
         /\ CountsKept(now, Stamp(ring), Failures(ring), Failures(log))
         /\ Stamped(now, Stamp(ring))
         /\ Held(now, Stamp(ring), log)
    BY DEF Inv
  <1>11. CountsKept(now', Stamp(ring'), Successes(ring'), Successes(log'))
    BY <1>1, <1>2, <1>6, <1>8, <1>9, <1>10, TickCounts
  <1>12. CountsKept(now', Stamp(ring'), Failures(ring'), Failures(log'))
    BY <1>1, <1>2, <1>6, <1>8, <1>9, <1>10, TickCounts
  <1>13. Stamped(now', Stamp(ring'))
    BY <1>1, <1>2, <1>6, <1>9, <1>10, TickStamped
  <1>14. Held(now', Stamp(ring'), log')
    BY <1>1, <1>2, <1>6, <1>7, <1>9, <1>10, TickHeld
  <1>15. QED
    BY <1>5, <1>11, <1>12, <1>13, <1>14 DEF Inv

\* The bucket that record writes, and the tick of the log that Result writes.
LEMMA ResultInv == ASSUME NEW success \in BOOLEAN PROVE Inv /\ Outcome(success) => Inv'
  <1> SUFFICES ASSUME Inv, Outcome(success)
               PROVE  Inv'
    OBVIOUS
  <1> DEFINE n == bucketIndex(now)
             g == IF success THEN 1 ELSE 0
             h == IF success THEN 0 ELSE 1
             old == fresh(ring[n])
             written == [age |-> old.age, success |-> old.success + g, failure |-> old.failure + h]
  <1>1. now \in Clocks /\ ring \in Buckets /\ log \in Logs
    BY DEF Inv, RingTypeOK, Logs
  <1>2. n \in BucketIndex /\ g \in 0 .. 1 /\ h \in 0 .. 1
    BY <1>1, BucketIndexBounds
  <1>3. old \in Bucket
    BY <1>1, <1>2, RingTypes, AgesType DEF fresh, Bucket
  <1>4. ring' = [ring EXCEPT ![n] = written]
    <2>1. CASE success
      <3>1. [old EXCEPT !.success = @ + 1] = written
        BY <1>3, <2>1 DEF Bucket
      <3>2. ring' = [ring EXCEPT ![n] = [old EXCEPT !.success = @ + 1]]
        BY <2>1 DEF Outcome, record
      <3>3. QED
        BY <3>1, <3>2
    <2>2. CASE ~ success
      <3>1. [old EXCEPT !.failure = @ + 1] = written
        BY <1>3, <2>2 DEF Bucket
      <3>2. ring' = [ring EXCEPT ![n] = [old EXCEPT !.failure = @ + 1]]
        BY <2>2 DEF Outcome, record
      <3>3. QED
        BY <3>1, <3>2
    <2>3. QED
      BY <2>1, <2>2
  <1>5. written \in Bucket /\ ring' \in Buckets
    <2>1. written \in Bucket
      BY <1>2, <1>3 DEF Bucket
    <2>2. QED
      BY <1>1, <1>2, <1>4, <2>1 DEF Buckets
  <1>6. /\ log' \in Logs
        /\ \A a \in LogAges \ {0} : log'[a] = log[a]
        /\ log'[0].success = log[0].success + g
        /\ log'[0].failure = log[0].failure + h
    <2>1. log[0] \in [success : 0 .. MaxPerTick, failure : 0 .. MaxPerTick]
      BY <1>1, AgesType DEF Logs
    <2>2. log[0].success + log[0].failure < MaxPerTick
      BY DEF Outcome
    <2>3. CASE success
      <3>1. log' = [log EXCEPT ![0].success = @ + 1]
        BY <2>3 DEF Outcome
      <3>2. [log[0] EXCEPT !.success = @ + 1] \in [success : 0 .. MaxPerTick, failure : 0 .. MaxPerTick]
        BY <2>1, <2>2, MaxPerTickAssumption
      <3>3. log' = [log EXCEPT ![0] = [log[0] EXCEPT !.success = @ + 1]]
        BY <3>1
      <3>4. QED
        BY <1>1, <2>1, <2>3, <3>2, <3>3, AgesType DEF Logs
    <2>4. CASE ~ success
      <3>1. log' = [log EXCEPT ![0].failure = @ + 1]
        BY <2>4 DEF Outcome
      <3>2. [log[0] EXCEPT !.failure = @ + 1] \in [success : 0 .. MaxPerTick, failure : 0 .. MaxPerTick]
        BY <2>1, <2>2, MaxPerTickAssumption
      <3>3. log' = [log EXCEPT ![0] = [log[0] EXCEPT !.failure = @ + 1]]
        BY <3>1
      <3>4. QED
        BY <1>1, <2>1, <2>4, <3>2, <3>3, AgesType DEF Logs
    <2>5. QED
      BY <2>3, <2>4
  <1>7. now' = now
    BY DEF Outcome
  <1>8. RingTypeOK'
    BY <1>1, <1>5, <1>6, <1>7 DEF RingTypeOK, Logs
  <1>9. /\ Successes(log')[0] = Successes(log)[0] + g
        /\ Failures(log')[0] = Failures(log)[0] + h
        /\ \A a \in LogAges \ {0} : /\ Successes(log')[a] = Successes(log)[a]
                                    /\ Failures(log')[a] = Failures(log)[a]
    BY <1>1, <1>6, LogTypes, AgesType
  <1>10. /\ Successes(ring')[n] = old.success + g
         /\ Failures(ring')[n] = old.failure + h
         /\ Stamp(ring') = [Stamp(ring) EXCEPT ![n] = old.age]
         /\ \A i \in BucketIndex \ {n} : /\ Successes(ring')[i] = Successes(ring)[i]
                                         /\ Failures(ring')[i] = Failures(ring)[i]
    <2> HIDE DEF n, old, g, h
    <2>1. ring'[n] = written /\ \A i \in BucketIndex \ {n} : ring'[i] = ring[i]
      BY <1>1, <1>2, <1>4 DEF Buckets
    <2>2. \A i \in BucketIndex : ring'[i].age = IF i = n THEN old.age ELSE ring[i].age
      BY <2>1
    <2>3. Stamp(ring') = [Stamp(ring) EXCEPT ![n] = old.age]
      BY <2>2 DEF Stamp
    <2>4. QED
      BY <1>1, <1>2, <1>5, <2>1, <2>3, RingTypes
  <1>11. /\ Stamp(ring) \in [BucketIndex -> Ages]
         /\ Successes(log) \in LogTerms /\ Failures(log) \in LogTerms
         /\ Successes(log') \in LogTerms /\ Failures(log') \in LogTerms
    BY <1>1, <1>6, RingTypes, LogTypes
  <1>12. /\ CountsKept(now, Stamp(ring), Successes(ring), Successes(log))
         /\ CountsKept(now, Stamp(ring), Failures(ring), Failures(log))
         /\ Stamped(now, Stamp(ring))
         /\ Held(now, Stamp(ring), log)
    BY DEF Inv
  <1>13. Stamp(ring)[n] = ring[n].age /\ ring[n] \in Bucket
    BY <1>1, <1>2, RingTypes
  <1>14. ASSUME ~ (ring[n].age > TicksPerSec)
         PROVE  Inv'
    <2>1. old = ring[n]
      BY <1>14 DEF fresh
    <2>2. Stamp(ring') = Stamp(ring)
      <3>1. old.age = Stamp(ring)[n]
        BY <1>13, <2>1
      <3>2. QED
        BY <1>10, <1>11, <3>1
    <2>3. /\ Successes(ring')[n] = Successes(ring)[n] + g
          /\ Failures(ring')[n] = Failures(ring)[n] + h
      BY <1>1, <1>2, <1>10, <2>1, RingTypes
    <2>4. Stamp(ring)[n] <= TicksPerSec
      BY <1>13, <1>14, WindowBounds DEF Bucket, Ages, Expired
    <2> HIDE DEF g, h
    <2>5. CountsKept(now, Stamp(ring), Successes(ring'), Successes(log'))
      BY <1>1, <1>2, <1>9, <1>10, <1>11, <1>12, <2>3, KeepCounts
    <2>6. CountsKept(now, Stamp(ring), Failures(ring'), Failures(log'))
      BY <1>1, <1>2, <1>9, <1>10, <1>11, <1>12, <2>3, KeepCounts
    <2>7. Held(now, Stamp(ring), log')
      BY <1>1, <1>6, <1>11, <1>12, <2>4, KeepHeld
    <2>8. QED
      BY <1>7, <1>8, <1>12, <2>2, <2>5, <2>6, <2>7 DEF Inv
  <1>15. ASSUME ring[n].age > TicksPerSec
         PROVE  Inv'
    <2>1. old = [age |-> 0, success |-> 0, failure |-> 0]
      BY <1>15 DEF fresh
    <2>2. Stamp(ring') = [Stamp(ring) EXCEPT ![n] = 0]
      BY <1>10, <2>1
    <2>3. Successes(ring')[n] = g /\ Failures(ring')[n] = h
      BY <1>2, <1>10, <2>1
    <2>4. log[0] = NoOutcome
      <3>1. SUFFICES ASSUME log[0] # NoOutcome
                     PROVE  FALSE
        OBVIOUS
      <3>2. 0 \in 0 .. Window - TicksPerSec /\ Slot(now, 0) = n
        BY <1>1, SlotNow, WindowBounds
      <3>3. Stamp(ring)[n] <= 0 + TicksPerSec
        BY <1>12, <3>1, <3>2 DEF Held
      <3>4. QED
        BY <1>13, <1>15, <3>3, WindowBounds DEF Bucket, Ages, Expired
    <2>5. Successes(log)[0] = 0 /\ Failures(log)[0] = 0
      BY <1>1, <2>4, LogTypes, AgesType DEF NoOutcome
    <2>6. Successes(log')[0] = g /\ Failures(log')[0] = h
      BY <1>2, <1>9, <2>5
    <2> HIDE DEF g, h
    <2> DEFINE reset == [Stamp(ring) EXCEPT ![bucketIndex(now)] = 0]
    <2>7. CountsKept(now, reset, Successes(ring'), Successes(log'))
      <3>1. \A i \in BucketIndex \ {bucketIndex(now)} : Successes(ring')[i] = Successes(ring)[i]
        BY <1>10
      <3>2. \A a \in LogAges \ {0} : Successes(log')[a] = Successes(log)[a]
        BY <1>9
      <3>3. Successes(ring')[bucketIndex(now)] = g /\ Successes(log')[0] = g
        BY <2>3, <2>6
      <3>4. QED
        BY <1>1, <1>2, <1>11, <1>12, <3>1, <3>2, <3>3, ResetCounts
    <2>8. CountsKept(now, reset, Failures(ring'), Failures(log'))
      <3>1. \A i \in BucketIndex \ {bucketIndex(now)} : Failures(ring')[i] = Failures(ring)[i]
        BY <1>10
      <3>2. \A a \in LogAges \ {0} : Failures(log')[a] = Failures(log)[a]
        BY <1>9
      <3>3. Failures(ring')[bucketIndex(now)] = h /\ Failures(log')[0] = h
        BY <2>3, <2>6
      <3>4. QED
        BY <1>1, <1>2, <1>11, <1>12, <3>1, <3>2, <3>3, ResetCounts
    <2>9. Stamped(now, Stamp(ring'))
      BY <1>1, <1>2, <1>11, <1>12, <2>2, SlotNow DEF Stamped
    <2>10. Held(now, reset, log')
      <3>1. Stamp(ring)[bucketIndex(now)] > TicksPerSec
        BY <1>13, <1>15
      <3>2. \A a \in LogAges \ {0} : log'[a] = log[a]
        BY <1>6
      <3>3. QED
        BY <1>1, <1>11, <1>12, <3>1, <3>2, ResetHeld
    <2>11. Stamp(ring') = reset
      BY <2>2
    <2> HIDE DEF reset
    <2>12. QED
      BY <1>7, <1>8, <2>7, <2>8, <2>9, <2>10, <2>11 DEF Inv
  <1>16. QED
    BY <1>14, <1>15

\* The invariant holds in every state.
LEMMA Inductive == RingSpec => []Inv
  <1>1. RingInit => Inv
    BY InitInv
  <1>2. Inv /\ [RingNext]_ringVars => Inv'
    <2> SUFFICES ASSUME Inv, [RingNext]_ringVars
                 PROVE  Inv'
      OBVIOUS
    <2>1. ASSUME NEW success \in BOOLEAN, Outcome(success)
          PROVE  Inv'
      BY <2>1, ResultInv
    <2>2. CASE RingTick
      BY <2>2, TickInv
    <2>3. CASE UNCHANGED ringVars
      <3>1. now' = now /\ ring' = ring /\ log' = log
        BY <2>3 DEF ringVars
      <3>2. QED
        BY <3>1 DEF Inv, RingTypeOK
    <2>4. QED
      BY <2>1, <2>2, <2>3 DEF RingNext
  <1>3. QED
    BY <1>1, <1>2, PTL DEF RingSpec

\* The ring stays well formed: the clock never leaves it, every bucket keeps an
\* age of the saturated range, and the log never exceeds its bound.
THEOREM RingTypeCorrect == RingSpec => []RingTypeOK
  <1>1. Inv => RingTypeOK
    BY DEF Inv
  <1>2. QED
    BY <1>1, Inductive, PTL

------------------------------------------------------------------------------
(***************************************************************************)
(* From the buckets to the totals.  The outcomes the window counts are     *)
(* those its buckets keep, each in one bucket only.                        *)
(***************************************************************************)
\* calculateErrorRate adds up the successes, and the failures, of Counted.
LEMMA Totals ==
    ASSUME NEW b \in Buckets
    PROVE  /\ totalSuccess(b) = Sum(Successes(b), Counted(b))
           /\ totalFailure(b) = Sum(Failures(b), Counted(b))
  <1> DEFINE S == Counted(b)
             ones(g) == g = [s \in SUBSET S |-> IF s = {} THEN 0
                             ELSE b[Any(s)].success + g[s \ {Any(s)}]]
             bads(g) == g = [s \in SUBSET S |-> IF s = {} THEN 0
                             ELSE b[Any(s)].failure + g[s \ {Any(s)}]]
  <1>1. \A s \in SUBSET S : s # {} => /\ Successes(b)[Any(s)] = b[Any(s)].success
                                      /\ Failures(b)[Any(s)] = b[Any(s)].failure
    BY RingTypes, AnyIn DEF Counted
  <1>2. IsFiniteSet(S)
    <2>1. IsFiniteSet(BucketIndex) /\ S \in SUBSET BucketIndex
      BY WindowBounds, FS_Interval DEF BucketIndex, Counted
    <2>2. QED
      BY <2>1, FS_Subset
  <1> HIDE DEF S
  <1>3. \A g : ones(g) <=> Sums(Successes(b), S, g)
    BY <1>1 DEF Sums
  <1>4. \A g : bads(g) <=> Sums(Failures(b), S, g)
    BY <1>1 DEF Sums
  <1>5. totalSuccess(b) = (CHOOSE g : ones(g))[S]
    BY DEF totalSuccess, MapThenSumSet, MapThenFoldSet, Any, S
  <1>6. totalFailure(b) = (CHOOSE g : bads(g))[S]
    BY DEF totalFailure, MapThenSumSet, MapThenFoldSet, Any, S
  <1> HIDE DEF ones, bads
  <1>7. totalSuccess(b) = Sum(Successes(b), S)
    <2>1. PICK g : Sums(Successes(b), S, g)
      BY <1>2, SumsExists
    <2>2. ones(CHOOSE k : ones(k))
      BY <1>3, <2>1
    <2>3. Sums(Successes(b), S, CHOOSE k : ones(k))
      BY <1>3, <2>2
    <2>4. QED
      BY <1>2, <1>5, <2>3, SumIs
  <1>8. totalFailure(b) = Sum(Failures(b), S)
    <2>1. PICK g : Sums(Failures(b), S, g)
      BY <1>2, SumsExists
    <2>2. bads(CHOOSE k : bads(k))
      BY <1>4, <2>1
    <2>3. Sums(Failures(b), S, CHOOSE k : bads(k))
      BY <1>4, <2>2
    <2>4. QED
      BY <1>2, <1>6, <2>3, SumIs
  <1>9. QED
    BY <1>7, <1>8 DEF S

\* The exact counts of the log.
LEMMA Within ==
    ASSUME NEW age \in LogAges, log \in Logs
    PROVE  /\ SuccessesWithin(age) = Sum(Successes(log), 0 .. age)
           /\ FailuresWithin(age) = Sum(Failures(log), 0 .. age)
  <1> DEFINE S == 0 .. age
             ones(g) == g = [s \in SUBSET S |-> IF s = {} THEN 0
                             ELSE log[Any(s)].success + g[s \ {Any(s)}]]
             bads(g) == g = [s \in SUBSET S |-> IF s = {} THEN 0
                             ELSE log[Any(s)].failure + g[s \ {Any(s)}]]
  <1>1. \A s \in SUBSET S : s # {} => /\ Successes(log)[Any(s)] = log[Any(s)].success
                                      /\ Failures(log)[Any(s)] = log[Any(s)].failure
    <2>1. S \subseteq LogAges
      BY WindowBounds DEF LogAges
    <2>2. \A s \in SUBSET S : s # {} => Any(s) \in LogAges
      BY <2>1, AnyIn
    <2>3. QED
      BY <2>2, LogTypes
  <1>2. IsFiniteSet(S)
    BY WindowBounds, FS_Interval DEF LogAges
  <1> HIDE DEF S
  <1>3. \A g : ones(g) <=> Sums(Successes(log), S, g)
    BY <1>1 DEF Sums
  <1>4. \A g : bads(g) <=> Sums(Failures(log), S, g)
    BY <1>1 DEF Sums
  <1>5. SuccessesWithin(age) = (CHOOSE g : ones(g))[S]
    BY DEF SuccessesWithin, MapThenSumSet, MapThenFoldSet, Any, S
  <1>6. FailuresWithin(age) = (CHOOSE g : bads(g))[S]
    BY DEF FailuresWithin, MapThenSumSet, MapThenFoldSet, Any, S
  <1> HIDE DEF ones, bads
  <1>7. SuccessesWithin(age) = Sum(Successes(log), S)
    <2>1. PICK g : Sums(Successes(log), S, g)
      BY <1>2, SumsExists
    <2>2. ones(CHOOSE k : ones(k))
      BY <1>3, <2>1
    <2>3. Sums(Successes(log), S, CHOOSE k : ones(k))
      BY <1>3, <2>2
    <2>4. QED
      BY <1>2, <1>5, <2>3, SumIs
  <1>8. FailuresWithin(age) = Sum(Failures(log), S)
    <2>1. PICK g : Sums(Failures(log), S, g)
      BY <1>2, SumsExists
    <2>2. bads(CHOOSE k : bads(k))
      BY <1>4, <2>1
    <2>3. Sums(Failures(log), S, CHOOSE k : bads(k))
      BY <1>4, <2>2
    <2>4. QED
      BY <1>2, <1>6, <2>3, SumIs
  <1>9. QED
    BY <1>7, <1>8 DEF S

\* The ages of the outcomes the window counts.
Covered(c, stamp) == UNION {Kept(c, stamp[i], i) : i \in {j \in BucketIndex : stamp[j] <= Window}}

\* The total of a counter is the sum of the log over those ages.
LEMMA CountedSum ==
    ASSUME NEW c \in Clocks, NEW stamp \in [BucketIndex -> Ages], NEW count,
           NEW term \in LogTerms, CountsKept(c, stamp, count, term)
    PROVE  /\ Sum(count, {j \in BucketIndex : stamp[j] <= Window}) = Sum(term, Covered(c, stamp))
           /\ Covered(c, stamp) \in SUBSET LogAges
  <1> DEFINE C == {j \in BucketIndex : stamp[j] <= Window}
             k == [i \in C |-> Kept(c, stamp[i], i)]
  <1>1. Terms(term, LogAges)
    BY LogAgesTerms
  <1>2. IsFiniteSet(C)
    <2>1. IsFiniteSet(BucketIndex)
      BY WindowBounds, FS_Interval DEF BucketIndex
    <2>2. QED
      BY <2>1, FS_Subset
  <1>3. \A i \in C : stamp[i] \in LogAges
    BY WindowBounds DEF Ages, LogAges
  <1>4. k \in [C -> SUBSET LogAges]
    BY <1>3, WindowBounds DEF Kept, LogAges
  <1>5. \A i, j \in C : i # j => k[i] \cap k[j] = {}
    BY DEF Kept
  <1>6. \A i \in C : count[i] = Sum(term, k[i])
    BY DEF CountsKept
  <1>7. Covered(c, stamp) = UNION {k[i] : i \in C}
    BY DEF Covered
  <1> HIDE DEF C, k
  <1>8. Sum(count, C) = Sum(term, UNION {k[i] : i \in C})
    BY <1>1, <1>2, <1>4, <1>5, <1>6, SumOfParts
  <1>9. UNION {k[i] : i \in C} \in SUBSET LogAges
    BY <1>4
  <1>10. QED
    BY <1>7, <1>8, <1>9 DEF C

\* Nothing older than the window, nothing twice; and of the last TotalBuckets - 1
\* seconds everything.
LEMMA TotalBounds ==
    ASSUME NEW c \in Clocks, NEW stamp \in [BucketIndex -> Ages], NEW count, NEW l,
           NEW term \in LogTerms, CountsKept(c, stamp, count, term),
           Held(c, stamp, l), \A a \in LogAges : l[a] = NoOutcome => term[a] = 0
    PROVE  LET counted == {j \in BucketIndex : stamp[j] <= Window}
           IN  /\ Sum(count, counted) <= Sum(term, 0 .. Window)
               /\ Sum(count, counted) >= Sum(term, 0 .. Window - TicksPerSec)
  <1> DEFINE all == Covered(c, stamp)
             recent == 0 .. Window - TicksPerSec
  <1>1. Terms(term, LogAges)
    BY LogAgesTerms
  <1>2. all \in SUBSET LogAges /\ recent \in SUBSET LogAges
    <2>1. recent \in SUBSET LogAges
      BY WindowBounds DEF LogAges
    <2> HIDE DEF recent
    <2>2. QED
      BY <2>1, CountedSum
  <1>3. Terms(term, all) /\ Terms(term, recent)
    <2> HIDE DEF all, recent
    <2> QED
      BY <1>1, <1>2, TermsSubset
  <1>4. Sum(term, all) <= Sum(term, LogAges)
    <2> HIDE DEF all
    <2> QED
      BY <1>1, <1>2, <1>3, SumSupport
  <1>5. ASSUME NEW a \in recent, term[a] # 0
        PROVE  a \in all
    <2> DEFINE i == Slot(c, a)
    <2>1. a \in LogAges /\ l[a] # NoOutcome
      BY <1>2, <1>5
    <2>2. a <= stamp[i] /\ stamp[i] <= a + TicksPerSec
      BY <2>1 DEF Held
    <2>3. i \in BucketIndex
      BY <2>1, SlotBounds
    <2>4. stamp[i] <= Window /\ a \in 0 .. stamp[i]
      BY <2>2, <2>3, WindowBounds DEF Ages, Expired
    <2>5. a \in Kept(c, stamp[i], i)
      BY <2>4 DEF Kept
    <2>6. QED
      BY <2>3, <2>4, <2>5 DEF Covered
  <1>6. Sum(term, recent) <= Sum(term, all)
    <2> HIDE DEF all, recent
    <2> QED
      BY <1>3, <1>5, SumSupport
  <1>7. Sum(term, all) \in Nat /\ Sum(term, recent) \in Nat
    <2> HIDE DEF all, recent
    <2> QED
      BY <1>3, SumType
  <1>8. LogAges = 0 .. Window
    BY DEF LogAges
  <1>9. QED
    BY <1>4, <1>6, <1>7, <1>8, CountedSum

\* In every state of the invariant, the two bounds for the two totals.
LEMMA Accuracy == Inv => NeverCountsStale /\ CountsRecent
  <1> SUFFICES ASSUME Inv
               PROVE  NeverCountsStale /\ CountsRecent
    OBVIOUS
  <1>1. now \in Clocks /\ ring \in Buckets /\ log \in Logs
    BY DEF Inv, RingTypeOK, Logs
  <1>2. /\ Stamp(ring) \in [BucketIndex -> Ages]
        /\ Successes(log) \in LogTerms /\ Failures(log) \in LogTerms
    BY <1>1, RingTypes, LogTypes
  <1>3. \A a \in LogAges : log[a] = NoOutcome => Successes(log)[a] = 0 /\ Failures(log)[a] = 0
    BY <1>1, LogTypes DEF NoOutcome
  <1> DEFINE counted == {j \in BucketIndex : Stamp(ring)[j] <= Window}
  <1>4. Counted(ring) = counted
    BY <1>1, RingTypes DEF Counted, inWindow
  <1>5. /\ Sum(Successes(ring), counted) <= Sum(Successes(log), 0 .. Window)
        /\ Sum(Successes(ring), counted) >= Sum(Successes(log), 0 .. Window - TicksPerSec)
    BY <1>1, <1>2, <1>3, TotalBounds DEF Inv
  <1>6. /\ Sum(Failures(ring), counted) <= Sum(Failures(log), 0 .. Window)
        /\ Sum(Failures(ring), counted) >= Sum(Failures(log), 0 .. Window - TicksPerSec)
    BY <1>1, <1>2, <1>3, TotalBounds DEF Inv
  <1>7. Window \in LogAges /\ Window - TicksPerSec \in LogAges
    BY WindowBounds DEF LogAges
  <1>8. QED
    BY <1>1, <1>4, <1>5, <1>6, <1>7, Totals, Within DEF NeverCountsStale, CountsRecent

\* The error rate never counts an outcome older than the window, and none
\* twice, whatever the window size and the length of a second in ticks: record
\* resets a bucket by age before the ring comes round to it again.
THEOREM NothingStale == RingSpec => []NeverCountsStale
  BY Accuracy, Inductive, PTL

\* It counts every outcome of the last TotalBuckets - 1 seconds: taking the
\* timestamp of the first outcome of a second loses no more than that.
THEOREM RecentCounted == RingSpec => []CountsRecent
  BY Accuracy, Inductive, PTL
==============================================================================
