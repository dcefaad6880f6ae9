----------------------------- MODULE Quota_proof -----------------------------
(***************************************************************************)
(* Theorems about quotas, for any keys, requests, totals and retries, and  *)
(* the estimate of zero that handleStream reserves.                        *)
(***************************************************************************)
EXTENDS Quota, FiniteSetTheorems, TLAPS

OpenSteps == {"recording", "streaming", "finding", "settling"}

\* Streams that hold a reservation and have not been settled.
OpenStreams(k) == {r \in Requests : k \in Path[r] /\ pc[r] \in OpenSteps}

\* The applications of the settlement script that a request may still make.
Spent(r) == IF pc[r] = "settling" THEN retries[r] ELSE 0
Tries == 1 .. (1 + MaxRetries)
Slots(k) == Sharers(k) \X Tries

\* One element for every application that may still charge k.
Credits(k) == {c \in Slots(k) : c[1] \in OpenStreams(k) /\ c[2] > Spent(c[1])}

\* The zero estimate holds nothing back.
NothingReserved == reserved = [k \in Keys |-> 0]

\* What is used and what may still be charged stay within the bound.
CreditBound ==
    \A k \in Keys : used[k] + MaxActual * Cardinality(Credits(k))
                        <= Total[k] + MaxActual * Cardinality(Slots(k))

IInv == TypeOK /\ NothingReserved /\ CreditBound

------------------------------------------------------------------------------
\* The applications of the settlement script that can ever be are finitely many.
LEMMA SlotsFinite ==
    ASSUME NEW k
    PROVE  /\ IsFiniteSet(Slots(k))
           /\ Cardinality(Slots(k)) = Cardinality(Sharers(k)) * (1 + MaxRetries)
           /\ Cardinality(Slots(k)) \in Nat /\ Cardinality(Sharers(k)) \in Nat
  <1>1. IsFiniteSet(Tries) /\ Cardinality(Tries) = 1 + MaxRetries
    BY FS_Interval, QuotaAssumption DEF Tries
  <1>2. IsFiniteSet(Sharers(k))
    BY FS_Subset, QuotaAssumption DEF Sharers
  <1>3. QED
    BY <1>1, <1>2, FS_Product, FS_CardinalityType DEF Slots

\* The applications left are among all that ever are.
LEMMA CreditsBounded ==
    ASSUME NEW k
    PROVE  /\ IsFiniteSet(Credits(k))
           /\ Cardinality(Credits(k)) \in Nat
           /\ Cardinality(Credits(k)) <= Cardinality(Slots(k))
  <1>1. Credits(k) \in SUBSET Slots(k)
    BY DEF Credits
  <1>2. QED
    BY <1>1, SlotsFinite, FS_Subset, FS_CardinalityType

\* More applications left allow for more to be charged.
LEMMA Monotone ==
    ASSUME NEW a \in Nat, NEW b \in Nat, a <= b
    PROVE  MaxActual * a \in Nat /\ MaxActual * b \in Nat /\ MaxActual * a <= MaxActual * b
  <1>1. MaxActual \in Nat
    BY QuotaAssumption
  <1>2. \A n, m \in Nat : n * m \in Nat
    BY Z3
  <1>3. MaxActual * (b - a) \in Nat
    BY <1>1, <1>2
  <1>4. MaxActual * a + MaxActual * (b - a) = MaxActual * b
    BY <1>1, Z3
  <1>5. QED
    BY <1>1, <1>2, <1>3, <1>4
------------------------------------------------------------------------------
(* Types *)

\* Moving on keeps the steps and the retries well formed.
LEMMA GoToType ==
    ASSUME TypeOK, NEW r \in Requests, NEW step \in Steps, GoTo(r, step)
    PROVE  pc' \in [Requests -> Steps] /\ retries' \in [Requests -> 0..MaxRetries]
  BY QuotaAssumption DEF TypeOK, GoTo

\* So does the end of a request.
LEMMA EndType ==
    ASSUME TypeOK, NEW r \in Requests, NEW lost \in BOOLEAN, End(r, lost)
    PROVE  /\ pc' \in [Requests -> Steps]
           /\ cancelled' \in [Requests -> BOOLEAN]
           /\ record' \in [Requests -> BOOLEAN]
           /\ actual' \in [Requests -> 0..MaxActual]
           /\ retries' \in [Requests -> 0..MaxRetries]
           /\ unsettled' \in [Requests -> BOOLEAN]
  <1>1. "idle" \in Steps /\ 0 \in 0..MaxActual
    BY QuotaAssumption DEF Steps
  <1>2. pc' \in [Requests -> Steps] /\ retries' \in [Requests -> 0..MaxRetries]
    BY <1>1, GoToType DEF End
  <1>3. QED
    BY <1>1, <1>2 DEF End, TypeOK

\* Charging a request of 0..MaxActual tokens keeps the balances well formed.
LEMMA ChargeType ==
    ASSUME TypeOK, NEW r \in Requests, Charge(r, actual[r])
    PROVE  /\ used' \in [Keys -> Nat]
           /\ \A k \in Keys : k \notin Path[r] => used'[k] = used[k]
           /\ \A k \in Keys : k \in Path[r] => used'[k] = used[k] + actual[r]
           /\ actual[r] \in Nat /\ actual[r] <= MaxActual
  <1>1. actual[r] \in 0..MaxActual
    BY DEF TypeOK
  <1>2. QED
    BY <1>1, QuotaAssumption DEF TypeOK, Charge

\* Holding and releasing an estimate of zero changes nothing.
LEMMA HoldNothing ==
    ASSUME TypeOK, NothingReserved, NEW r \in Requests,
           Hold(r, Estimate) \/ Hold(r, -Estimate)
    PROVE  reserved' = reserved
  BY EstimateAssumption DEF NothingReserved, Hold
------------------------------------------------------------------------------
(* The credit bound *)

\* Nothing is charged and no application becomes possible.
LEMMA CreditsShrink ==
    ASSUME IInv, NEW k \in Keys, used'[k] = used[k], Credits(k)' \in SUBSET Credits(k)
    PROVE  used'[k] + MaxActual * Cardinality(Credits(k)')
               <= Total[k] + MaxActual * Cardinality(Slots(k))
  <1> DEFINE a == Cardinality(Credits(k)')
             b == Cardinality(Credits(k))
             n == Cardinality(Slots(k))
  <1>1. a \in Nat /\ b \in Nat /\ n \in Nat /\ a <= b
    BY CreditsBounded, FS_Subset, FS_CardinalityType, SlotsFinite
  <1>2. used[k] \in Nat /\ Total[k] \in Nat
    BY QuotaAssumption DEF IInv, TypeOK
  <1>3. used[k] + MaxActual * b <= Total[k] + MaxActual * n
    BY DEF IInv, CreditBound
  <1>4. n \in Nat /\ MaxActual \in Nat
    BY SlotsFinite, QuotaAssumption
  <1> DEFINE x == MaxActual * a
             y == MaxActual * b
             z == MaxActual * n
  <1>5. x \in Nat /\ y \in Nat /\ x <= y
    BY <1>1, Monotone
  <1>6. z \in Nat
    BY <1>1, Monotone
  <1>7. used[k] + y <= Total[k] + z
    BY <1>3
  <1> HIDE DEF x, y, z
  <1>8. used'[k] + x <= Total[k] + z
    BY <1>2, <1>5, <1>6, <1>7
  <1>9. QED
    BY <1>8 DEF x, z

\* An application of the settlement script uses up one credit.
LEMMA CreditSpent ==
    ASSUME IInv, NEW k \in Keys, NEW t \in Nat, t <= MaxActual, used'[k] = used[k] + t,
           NEW c \in Credits(k), Credits(k)' \in SUBSET (Credits(k) \ {c})
    PROVE  used'[k] + MaxActual * Cardinality(Credits(k)')
               <= Total[k] + MaxActual * Cardinality(Slots(k))
  <1> DEFINE a == Cardinality(Credits(k)')
             b == Cardinality(Credits(k))
             n == Cardinality(Slots(k))
  <1>1. a \in Nat /\ b \in Nat /\ n \in Nat /\ a + 1 <= b
    <2>1. IsFiniteSet(Credits(k)) /\ b \in Nat
      BY CreditsBounded
    <2>2. IsFiniteSet(Credits(k) \ {c}) /\ Cardinality(Credits(k) \ {c}) = b - 1
      BY <2>1, FS_RemoveElement
    <2>3. IsFiniteSet(Credits(k)') /\ a <= b - 1
      BY <2>2, FS_Subset
    <2>4. QED
      BY <2>1, <2>3, FS_CardinalityType, SlotsFinite
  <1>2. used[k] \in Nat /\ Total[k] \in Nat /\ MaxActual \in Nat
    BY QuotaAssumption DEF IInv, TypeOK
  <1>3. used[k] + MaxActual * b <= Total[k] + MaxActual * n
    BY DEF IInv, CreditBound
  <1> DEFINE x == MaxActual * a
             y == MaxActual * b
             z == MaxActual * n
             w == MaxActual * (a + 1)
  <1>4. x \in Nat /\ y \in Nat /\ z \in Nat /\ w \in Nat /\ w <= y
    <2>1. a + 1 \in Nat
      BY <1>1
    <2>2. w \in Nat /\ y \in Nat /\ w <= y
      BY <1>1, <2>1, Monotone
    <2>3. x \in Nat /\ z \in Nat
      BY <1>1, Monotone
    <2>4. QED
      BY <2>2, <2>3
  <1>5. w = x + MaxActual
    BY <1>1, <1>2
  <1>6. used[k] + y <= Total[k] + z
    BY <1>3
  <1> HIDE DEF x, y, z, w
  <1>7. used'[k] + x <= Total[k] + z
    BY <1>2, <1>4, <1>5, <1>6
  <1>8. QED
    BY <1>7 DEF x, z

\* A quota within its total satisfies the bound whatever may still be charged.
LEMMA WithinTotal ==
    ASSUME NEW k \in Keys, used'[k] \in Nat, used'[k] <= Total[k]
    PROVE  used'[k] + MaxActual * Cardinality(Credits(k)')
               <= Total[k] + MaxActual * Cardinality(Slots(k))
  <1> DEFINE a == Cardinality(Credits(k)')
             n == Cardinality(Slots(k))
  <1>1. a \in Nat /\ n \in Nat /\ a <= n
    <2>1. Credits(k)' \in SUBSET Slots(k)
      BY DEF Credits
    <2>2. QED
      BY <2>1, SlotsFinite, FS_Subset, FS_CardinalityType
  <1> DEFINE x == MaxActual * a
             z == MaxActual * n
  <1>2. x \in Nat /\ z \in Nat /\ x <= z
    BY <1>1, Monotone
  <1>3. Total[k] \in Nat
    BY QuotaAssumption
  <1> HIDE DEF x, z
  <1>4. used'[k] + x <= Total[k] + z
    BY <1>2, <1>3
  <1>5. QED
    BY <1>4 DEF x, z
------------------------------------------------------------------------------
(* Steps *)

\* A request that is not opened by the step, and whose retries are not taken
\* back, keeps or loses its credits.
LEMMA CreditsKept ==
    ASSUME TypeOK, TypeOK', NEW r \in Requests, NEW k \in Keys,
           \A q \in Requests \ {r} : pc'[q] = pc[q] /\ retries'[q] = retries[q],
           pc'[r] \in OpenSteps => pc[r] \in OpenSteps /\ Spent(r)' >= Spent(r)
    PROVE  Credits(k)' \in SUBSET Credits(k)
  <1>1. SUFFICES ASSUME NEW q \in Requests, NEW i \in Tries, <<q, i>> \in Credits(k)'
                 PROVE  <<q, i>> \in Credits(k)
    BY DEF Credits, Slots, Sharers, OpenStreams
  <1>2. q \in OpenStreams(k)' /\ i > Spent(q)'
    BY <1>1 DEF Credits
  <1>3. Spent(r) \in Nat /\ Spent(r)' \in Nat /\ i \in Int
    BY QuotaAssumption DEF Spent, TypeOK, Tries
  <1>4. q \in OpenStreams(k) /\ i > Spent(q)
    <2>1. CASE q = r
      BY <1>2, <1>3, <2>1 DEF OpenStreams, OpenSteps
    <2>2. CASE q # r
      BY <1>2, <2>2 DEF OpenStreams, OpenSteps, Spent
    <2>3. QED
      BY <2>1, <2>2
  <1>5. QED
    BY <1>4 DEF Credits, Slots, Sharers, OpenStreams

\* A step that leaves the balances alone and opens no stream.
LEMMA Unbilled ==
    ASSUME IInv, TypeOK', UNCHANGED balances, NEW r \in Requests,
           \A q \in Requests \ {r} : pc'[q] = pc[q] /\ retries'[q] = retries[q],
           pc'[r] \in OpenSteps => pc[r] \in OpenSteps /\ Spent(r)' >= Spent(r)
    PROVE  IInv'
  <1>1. NothingReserved'
    BY DEF IInv, NothingReserved, balances
  <1>2. CreditBound'
    <2>1. SUFFICES ASSUME NEW k \in Keys
                   PROVE  used'[k] + MaxActual * Cardinality(Credits(k)')
                            <= Total[k] + MaxActual * Cardinality(Slots(k))
      BY DEF CreditBound
    <2>2. Credits(k)' \in SUBSET Credits(k)
      BY CreditsKept DEF IInv
    <2>3. used'[k] = used[k]
      BY DEF balances
    <2>4. QED
      BY <2>2, <2>3, CreditsShrink
  <1>3. QED
    BY <1>1, <1>2 DEF IInv

\* The request is over: it has no credits left.
LEMMA EndsUnbilled ==
    ASSUME IInv, NEW r \in Requests, NEW lost \in BOOLEAN, End(r, lost), UNCHANGED balances
    PROVE  IInv'
  <1>1. TypeOK
    BY DEF IInv
  <1>2. TypeOK'
    BY <1>1, EndType DEF TypeOK, balances
  <1>3. \A q \in Requests \ {r} : pc'[q] = pc[q] /\ retries'[q] = retries[q]
    BY <1>1 DEF End, GoTo, TypeOK
  <1>4. pc'[r] \notin OpenSteps
    BY <1>1 DEF End, GoTo, TypeOK, OpenSteps
  <1>5. QED
    BY <1>2, <1>3, <1>4, Unbilled

\* The request moves on, and if it ends up open it was open before.
LEMMA MovesUnbilled ==
    ASSUME IInv, NEW r \in Requests, NEW step \in Steps, GoTo(r, step), UNCHANGED balances,
           cancelled' \in [Requests -> BOOLEAN], record' \in [Requests -> BOOLEAN],
           actual' \in [Requests -> 0..MaxActual], unsettled' \in [Requests -> BOOLEAN],
           step \in OpenSteps => pc[r] \in OpenSteps \ {"settling"}
    PROVE  IInv'
  <1>1. TypeOK
    BY DEF IInv
  <1>2. TypeOK'
    BY <1>1, GoToType DEF TypeOK, balances
  <1>3. \A q \in Requests \ {r} : pc'[q] = pc[q] /\ retries'[q] = retries[q]
    BY <1>1 DEF GoTo, TypeOK
  <1>4. pc'[r] = step /\ retries'[r] = 0
    BY <1>1 DEF GoTo, TypeOK
  <1>5. pc'[r] \in OpenSteps => pc[r] \in OpenSteps /\ Spent(r)' >= Spent(r)
    BY <1>4 DEF Spent
  <1>6. QED
    BY <1>2, <1>3, <1>5, Unbilled

\* The steps that charge nothing, reserve nothing and open no stream.
LEMMA QuietSteps ==
    ASSUME IInv, NEW r \in Requests,
           \/ StartStream(r) \/ ReserveRefused(r) \/ RecordReservation(r)
           \/ ReservationExpires(r) \/ StreamEnds(r) \/ FindReservation(r) \/ ReservationLost(r)
           \/ StartUnary(r) \/ Serve(r) \/ ServeFails(r) \/ DeductRefused(r)
           \/ Disconnect(r) \/ RedisFails(r)
    PROVE  IInv'
  <1>1. TypeOK
    BY DEF IInv
  <1>2. CASE StartStream(r) \/ StartUnary(r)
    <2>1. \E step \in Steps \ OpenSteps : GoTo(r, step)
      BY <1>2 DEF StartStream, StartUnary, Steps, OpenSteps
    <2>2. unsettled' \in [Requests -> BOOLEAN]
      BY <1>1, <1>2 DEF StartStream, StartUnary, TypeOK
    <2>3. UNCHANGED <<balances, cancelled, record, actual>>
      BY <1>2 DEF StartStream, StartUnary
    <2>4. QED
      BY <1>1, <2>1, <2>2, <2>3, MovesUnbilled DEF TypeOK
  <1>3. CASE RecordReservation(r)
    <2>1. "streaming" \in Steps /\ GoTo(r, "streaming") /\ pc[r] \in OpenSteps \ {"settling"}
      BY <1>3 DEF RecordReservation, Steps, OpenSteps
    <2>2. record' \in [Requests -> BOOLEAN]
      BY <1>1, <1>3 DEF RecordReservation, TypeOK
    <2>3. UNCHANGED <<balances, cancelled, actual, unsettled>>
      BY <1>3 DEF RecordReservation
    <2>4. QED
      BY <1>1, <2>1, <2>2, <2>3, MovesUnbilled DEF TypeOK
  <1>4. CASE StreamEnds(r) \/ Serve(r)
    <2>1. \E step \in Steps : /\ GoTo(r, step)
                              /\ step \in OpenSteps => pc[r] \in OpenSteps \ {"settling"}
      <3>1. CASE StreamEnds(r)
        BY <3>1 DEF StreamEnds, Steps, OpenSteps
      <3>2. CASE Serve(r)
        BY <3>2 DEF Serve, Steps, OpenSteps
      <3>3. QED
        BY <1>4, <3>1, <3>2
    <2>2. actual' \in [Requests -> 0..MaxActual]
      BY <1>1, <1>4 DEF StreamEnds, Serve, TypeOK
    <2>3. UNCHANGED <<balances, cancelled, record, unsettled>>
      BY <1>4 DEF StreamEnds, Serve
    <2>4. QED
      BY <1>1, <2>1, <2>2, <2>3, MovesUnbilled DEF TypeOK
  <1>5. CASE FindReservation(r)
    <2>1. "settling" \in Steps /\ GoTo(r, "settling") /\ pc[r] \in OpenSteps \ {"settling"}
      BY <1>5 DEF FindReservation, Steps, OpenSteps
    <2>2. UNCHANGED <<balances, cancelled, record, actual, unsettled>>
      BY <1>5 DEF FindReservation
    <2>3. QED
      BY <1>1, <2>1, <2>2, MovesUnbilled DEF TypeOK
  <1>6. CASE ReservationExpires(r) \/ Disconnect(r)
    <2>1. UNCHANGED <<balances, pc, retries>>
      BY <1>6 DEF ReservationExpires, Disconnect
    <2>2. TypeOK'
      BY <1>1, <1>6 DEF ReservationExpires, Disconnect, TypeOK, balances
    <2>3. Spent(r)' = Spent(r) /\ Spent(r) \in Nat
      BY <1>1, <2>1, QuotaAssumption DEF Spent, TypeOK
    <2>4. QED
      BY <2>1, <2>2, <2>3, Unbilled
  <1>7. CASE ReserveRefused(r) \/ ReservationLost(r) \/ ServeFails(r) \/ DeductRefused(r)
             \/ RedisFails(r)
    <2>1. UNCHANGED balances
      BY <1>7 DEF ReserveRefused, ReservationLost, ServeFails, DeductRefused, RedisFails
    <2>2. \E lost \in BOOLEAN : End(r, lost)
      <3>1. LostWithClient(r) \in BOOLEAN
        BY DEF LostWithClient
      <3>2. QED
        BY <1>7, <3>1 DEF ReserveRefused, ReservationLost, ServeFails, DeductRefused, RedisFails
    <2>3. QED
      BY <2>1, <2>2, EndsUnbilled
  <1>8. QED
    BY <1>2, <1>3, <1>4, <1>5, <1>6, <1>7

\* A stream is admitted only while its quotas are within their totals, which
\* makes room for all it may be charged.
LEMMA ReserveStep ==
    ASSUME IInv, NEW r \in Requests, Reserve(r)
    PROVE  IInv'
  <1>1. TypeOK /\ NothingReserved
    BY DEF IInv
  <1>2. reserved' = reserved /\ used' = used
    BY <1>1, HoldNothing DEF Reserve
  <1>3. GoTo(r, "recording") /\ "recording" \in Steps
    BY DEF Reserve, Steps
  <1>4. TypeOK'
    BY <1>1, <1>2, <1>3, GoToType DEF TypeOK, Reserve
  <1>5. NothingReserved'
    BY <1>1, <1>2 DEF NothingReserved
  <1>6. CreditBound'
    <2>1. SUFFICES ASSUME NEW k \in Keys
                   PROVE  used'[k] + MaxActual * Cardinality(Credits(k)')
                            <= Total[k] + MaxActual * Cardinality(Slots(k))
      BY DEF CreditBound
    <2>2. CASE k \in Path[r]
      <3>1. used[k] \in Nat /\ reserved[k] = 0 /\ Total[k] \in Nat
        BY <1>1, QuotaAssumption DEF TypeOK, NothingReserved
      <3>2. used[k] <= Total[k]
        BY <2>2, <3>1, EstimateAssumption DEF Reserve, CanReserve
      <3>3. QED
        BY <1>2, <3>1, <3>2, WithinTotal
    <2>3. CASE k \notin Path[r]
      <3>1. \A q \in Requests \ {r} : pc'[q] = pc[q] /\ retries'[q] = retries[q]
        BY <1>1, <1>3 DEF GoTo, TypeOK
      <3>2. Credits(k)' \in SUBSET Credits(k)
        <4>1. SUFFICES ASSUME NEW q \in Requests, NEW i \in Tries, <<q, i>> \in Credits(k)'
                       PROVE  <<q, i>> \in Credits(k)
          BY DEF Credits, Slots, Sharers, OpenStreams
        <4>2. q \in OpenStreams(k)' /\ i > Spent(q)'
          BY <4>1 DEF Credits
        <4>3. q # r
          BY <2>3, <4>2 DEF OpenStreams, OpenSteps
        <4>4. q \in OpenStreams(k) /\ i > Spent(q)
          BY <3>1, <4>2, <4>3 DEF OpenStreams, OpenSteps, Spent
        <4>5. QED
          BY <4>4 DEF Credits, Slots, Sharers, OpenStreams
      <3>3. QED
        BY <1>2, <3>2, CreditsShrink
    <2>4. QED
      BY <2>2, <2>3
  <1>7. QED
    BY <1>4, <1>5, <1>6 DEF IInv

\* The settlement of a stream, answered or not, spends one of its credits.
LEMMA SettleStep ==
    ASSUME IInv, NEW r \in Requests, pc[r] = "settling",
           Settle(r) \/ LoseReply(r)
    PROVE  IInv'
  <1>1. TypeOK /\ NothingReserved
    BY DEF IInv
  <1>2. Hold(r, -Estimate) /\ Charge(r, actual[r])
    BY DEF Settle, LoseReply
  <1>3. reserved' = reserved
    BY <1>1, <1>2, HoldNothing
  <1>4. TypeOK'
    <2>1. used' \in [Keys -> Nat]
      BY <1>1, <1>2, ChargeType
    <2>2. CASE Settle(r)
      <3>1. End(r, FALSE)
        BY <2>2 DEF Settle
      <3>2. QED
        BY <1>1, <1>3, <2>1, <3>1, EndType DEF TypeOK
    <2>3. CASE LoseReply(r)
      <3>1. retries' \in [Requests -> 0..MaxRetries]
        BY <1>1, <2>3, QuotaAssumption DEF LoseReply, TypeOK
      <3>2. QED
        BY <1>1, <1>3, <2>1, <2>3, <3>1 DEF LoseReply, TypeOK
    <2>4. QED
      BY <2>2, <2>3
  <1>5. NothingReserved'
    BY <1>1, <1>3 DEF NothingReserved
  <1>6. \A q \in Requests \ {r} : pc'[q] = pc[q] /\ retries'[q] = retries[q]
    BY <1>1 DEF Settle, LoseReply, End, GoTo, TypeOK
  <1>7. \/ pc'[r] = "idle"
        \/ pc'[r] = "settling" /\ retries'[r] = retries[r] + 1
    BY <1>1 DEF Settle, LoseReply, End, GoTo, TypeOK
  <1>8. retries[r] \in 0..MaxRetries
    BY <1>1 DEF TypeOK
  <1>9. CreditBound'
    <2>1. SUFFICES ASSUME NEW k \in Keys
                   PROVE  used'[k] + MaxActual * Cardinality(Credits(k)')
                            <= Total[k] + MaxActual * Cardinality(Slots(k))
      BY DEF CreditBound
    <2>2. Credits(k)' \in SUBSET Credits(k)
      <3>1. pc'[r] \in OpenSteps => pc[r] \in OpenSteps /\ Spent(r)' >= Spent(r)
        BY <1>7, <1>8, QuotaAssumption DEF OpenSteps, Spent
      <3>2. QED
        BY <1>1, <1>4, <1>6, <3>1, CreditsKept
    <2>3. CASE k \in Path[r]
      <3> DEFINE i == retries[r] + 1
                 c == <<r, i>>
      <3>1. i \in Tries /\ i > Spent(r)
        BY <1>8, QuotaAssumption DEF Tries, Spent
      <3>2. r \in OpenStreams(k)
        BY <2>3 DEF OpenStreams, OpenSteps
      <3>3. c \in Credits(k)
        BY <3>1, <3>2 DEF Credits, Slots, Sharers, OpenStreams
      <3>4. c \notin Credits(k)'
        <4>1. r \in OpenStreams(k)' => Spent(r)' = i
          BY <1>7 DEF OpenStreams, OpenSteps, Spent
        <4>2. i \in Int
          BY <1>8
        <4>3. QED
          BY <4>1, <4>2 DEF Credits
      <3>5. Credits(k)' \in SUBSET (Credits(k) \ {c})
        BY <2>2, <3>4
      <3>6. /\ used'[k] = used[k] + actual[r]
            /\ actual[r] \in Nat /\ actual[r] <= MaxActual
        BY <1>1, <1>2, <2>3, ChargeType
      <3> HIDE DEF c
      <3>7. QED
        BY <3>3, <3>5, <3>6, CreditSpent
    <2>4. CASE k \notin Path[r]
      <3>1. used'[k] = used[k]
        BY <1>1, <1>2, <2>4, ChargeType
      <3>2. QED
        BY <2>2, <3>1, CreditsShrink
    <2>5. QED
      BY <2>3, <2>4
  <1>10. QED
    BY <1>4, <1>5, <1>9 DEF IInv

\* A deduction, answered or not, stays within the totals.
LEMMA DeductStep ==
    ASSUME IInv, NEW r \in Requests, pc[r] = "deducting",
           Deduct(r) \/ LoseReply(r)
    PROVE  IInv'
  <1>1. TypeOK /\ NothingReserved
    BY DEF IInv
  <1>2. CanDeduct(r) /\ Charge(r, actual[r]) /\ reserved' = reserved
    BY DEF Deduct, LoseReply
  <1>3. TypeOK'
    <2>1. used' \in [Keys -> Nat]
      BY <1>1, <1>2, ChargeType
    <2>2. CASE Deduct(r)
      <3>1. End(r, FALSE)
        BY <2>2 DEF Deduct
      <3>2. QED
        BY <1>1, <1>2, <2>1, <3>1, EndType DEF TypeOK
    <2>3. CASE LoseReply(r)
      <3>1. retries' \in [Requests -> 0..MaxRetries]
        BY <1>1, <2>3, QuotaAssumption DEF LoseReply, TypeOK
      <3>2. QED
        BY <1>1, <1>2, <2>1, <2>3, <3>1 DEF LoseReply, TypeOK
    <2>4. QED
      BY <2>2, <2>3
  <1>4. NothingReserved'
    BY <1>1, <1>2 DEF NothingReserved
  <1>5. \A q \in Requests \ {r} : pc'[q] = pc[q] /\ retries'[q] = retries[q]
    BY <1>1 DEF Deduct, LoseReply, End, GoTo, TypeOK
  <1>6. pc'[r] \notin OpenSteps
    BY <1>1 DEF Deduct, LoseReply, End, GoTo, TypeOK, OpenSteps
  <1>7. CreditBound'
    <2>1. SUFFICES ASSUME NEW k \in Keys
                   PROVE  used'[k] + MaxActual * Cardinality(Credits(k)')
                            <= Total[k] + MaxActual * Cardinality(Slots(k))
      BY DEF CreditBound
    <2>2. CASE k \in Path[r]
      <3>1. used'[k] = used[k] + actual[r] /\ used'[k] \in Nat /\ used[k] \in Nat
        BY <1>1, <1>2, <2>2, ChargeType DEF TypeOK
      <3>2. Total[k] - used[k] >= actual[r] /\ Total[k] \in Nat /\ actual[r] \in Nat
        BY <1>1, <1>2, <2>2, ChargeType, QuotaAssumption DEF CanDeduct
      <3>3. QED
        BY <3>1, <3>2, WithinTotal
    <2>3. CASE k \notin Path[r]
      <3>1. used'[k] = used[k]
        BY <1>1, <1>2, <2>3, ChargeType
      <3>2. Credits(k)' \in SUBSET Credits(k)
        BY <1>1, <1>3, <1>5, <1>6, CreditsKept
      <3>3. QED
        BY <3>1, <3>2, CreditsShrink
    <2>4. QED
      BY <2>2, <2>3
  <1>8. QED
    BY <1>3, <1>4, <1>7 DEF IInv

\* A reservation sent twice reserves nothing twice.
LEMMA ReserveAgainStep ==
    ASSUME IInv, NEW r \in Requests, pc[r] = "reserving", LoseReply(r)
    PROVE  IInv'
  <1>1. TypeOK /\ NothingReserved
    BY DEF IInv
  <1>2. reserved' = reserved /\ used' = used
    BY <1>1, HoldNothing DEF LoseReply
  <1>3. retries' \in [Requests -> 0..MaxRetries]
    BY <1>1, QuotaAssumption DEF LoseReply, TypeOK
  <1>4. TypeOK'
    BY <1>1, <1>2, <1>3 DEF LoseReply, TypeOK
  <1>5. \A q \in Requests \ {r} : pc'[q] = pc[q] /\ retries'[q] = retries[q]
    BY <1>1 DEF LoseReply, TypeOK
  <1>6. pc'[r] \notin OpenSteps
    BY DEF LoseReply, OpenSteps
  <1>7. QED
    BY <1>2, <1>4, <1>5, <1>6, Unbilled DEF balances
------------------------------------------------------------------------------
(* Theorems *)

\* Quotas nothing was charged to satisfy the invariant.
LEMMA Initially == Init => IInv
  <1> SUFFICES ASSUME Init PROVE IInv
    OBVIOUS
  <1>1. TypeOK
    BY QuotaAssumption DEF Init, TypeOK, Steps
  <1>2. NothingReserved
    BY DEF Init, NothingReserved
  <1>3. CreditBound
    <2>1. SUFFICES ASSUME NEW k \in Keys
                   PROVE  used[k] + MaxActual * Cardinality(Credits(k))
                            <= Total[k] + MaxActual * Cardinality(Slots(k))
      BY DEF CreditBound
    <2> DEFINE x == MaxActual * Cardinality(Credits(k))
               z == MaxActual * Cardinality(Slots(k))
    <2>2. x \in Nat /\ z \in Nat /\ x <= z
      BY CreditsBounded, SlotsFinite, FS_CardinalityType, Monotone
    <2>3. used[k] = 0 /\ Total[k] \in Nat
      BY QuotaAssumption DEF Init
    <2> HIDE DEF x, z
    <2>4. used[k] + x <= Total[k] + z
      BY <2>2, <2>3
    <2>5. QED
      BY <2>4 DEF x, z
  <1>4. QED
    BY <1>1, <1>2, <1>3 DEF IInv

\* Every step keeps the invariant.
LEMMA Inductive == IInv /\ [Next]_vars => IInv'
  <1> SUFFICES ASSUME IInv, [Next]_vars
               PROVE  IInv'
    OBVIOUS
  <1>1. CASE UNCHANGED vars
    <2>1. TypeOK' /\ NothingReserved'
      BY <1>1 DEF IInv, TypeOK, NothingReserved, vars, balances
    <2>2. CreditBound'
      BY <1>1 DEF IInv, CreditBound, Credits, OpenStreams, Spent, vars, balances
    <2>3. QED
      BY <2>1, <2>2 DEF IInv
  <1>2. ASSUME NEW r \in Requests, Reserve(r)
        PROVE  IInv'
    BY <1>2, ReserveStep
  <1>3. ASSUME NEW r \in Requests, Settle(r)
        PROVE  IInv'
    BY <1>3, SettleStep DEF Settle
  <1>4. ASSUME NEW r \in Requests, Deduct(r)
        PROVE  IInv'
    BY <1>4, DeductStep DEF Deduct
  <1>5. ASSUME NEW r \in Requests, LoseReply(r)
        PROVE  IInv'
    <2>1. pc[r] \in {"reserving", "settling", "deducting"}
      BY <1>5 DEF LoseReply, Scripts
    <2>2. QED
      BY <1>5, <2>1, ReserveAgainStep, SettleStep, DeductStep
  <1>6. QED
    BY <1>1, <1>2, <1>3, <1>4, <1>5, QuietSteps DEF Next

\* So it holds in every reachable state.
LEMMA Invariant == Spec => []IInv
  BY Initially, Inductive, PTL DEF Spec

\* Every value keeps its type, whatever is lost, sent twice or left unsettled:
\* "used" is never negative, so no settlement gives tokens back.
THEOREM TypeCorrect == Spec => []TypeOK
  <1>1. IInv => TypeOK
    BY DEF IInv
  <1>2. QED
    BY <1>1, Invariant, PTL

\* settleQuotaScript checks nothing, and yet a quota is overdrawn by no more
\* than the requests that run together may use, for any quotas shared in any
\* way between any finite number of requests.
THEOREM OverdraftIsBounded == Spec => []OverdraftBounded
  <1>1. IInv => OverdraftBounded
    <2>1. SUFFICES ASSUME IInv, NEW k \in Keys
                   PROVE  used[k] <= Total[k] + Cardinality(Sharers(k)) * MaxBill
      BY DEF OverdraftBounded
    <2> DEFINE n == Cardinality(Sharers(k))
               x == MaxActual * Cardinality(Credits(k))
               z == MaxActual * Cardinality(Slots(k))
    <2>2. n \in Nat /\ MaxActual \in Nat /\ MaxRetries \in Nat /\ Total[k] \in Nat
          /\ used[k] \in Nat
      BY <2>1, SlotsFinite, QuotaAssumption DEF IInv, TypeOK
    <2>3. x \in Nat /\ z \in Nat
      BY CreditsBounded, SlotsFinite, Monotone
    <2>4. z = n * MaxBill
      <3>1. z = MaxActual * (n * (1 + MaxRetries))
        BY SlotsFinite
      <3>2. \A a, b, c \in Nat : a * (b * c) = b * (a * c)
        BY Z3
      <3>3. QED
        BY <2>2, <3>1, <3>2 DEF MaxBill
    <2>5. used[k] + x <= Total[k] + z
      BY <2>1 DEF IInv, CreditBound
    <2> HIDE DEF x, z
    <2>6. used[k] <= Total[k] + z
      BY <2>2, <2>3, <2>5
    <2>7. QED
      BY <2>4, <2>6
  <1>2. QED
    BY <1>1, Invariant, PTL

\* A deduction never takes a quota past its total: between the answer of the
\* upstream and its deduction any number of settlements and deductions of other
\* requests may run, and the script still sees them all. A step that does is the
\* settlement of a stream below that quota, and that stream is the one that moves.
THEOREM OnlySettlementsOverdraw == Spec => OnlyStreamsOverdraw
  <1> DEFINE A == \A k \in Keys : used'[k] > used[k] /\ used'[k] > Total[k] =>
                    \E r \in Requests : k \in Path[r] /\ SettlementOf(r)
  <1>1. IInv /\ [Next]_vars => [A]_vars
    <2> SUFFICES ASSUME IInv, Next, NEW k \in Keys, used'[k] > used[k], used'[k] > Total[k]
                 PROVE  \E r \in Requests : k \in Path[r] /\ SettlementOf(r)
      BY DEF OnlyStreamsOverdraw
    <2>1. TypeOK
      BY DEF IInv
    <2>2. used[k] \in Nat /\ Total[k] \in Nat
      BY <2>1, QuotaAssumption DEF TypeOK
    <2>3. PICK r \in Requests : \/ Settle(r) \/ Deduct(r) \/ LoseReply(r)
                                \/ used' = used
      BY DEF Next, StartStream, Reserve, ReserveRefused, RecordReservation,
             ReservationExpires, StreamEnds, FindReservation, ReservationLost, StartUnary,
             Serve, ServeFails, DeductRefused, Disconnect, RedisFails, balances
    <2>4. CASE used' = used
      BY <2>2, <2>4
    <2>5. CASE Settle(r) \/ Deduct(r) \/ LoseReply(r)
      <3>1. \/ pc[r] \in {"settling", "deducting"} /\ Charge(r, actual[r])
            \/ used' = used
        BY <2>5 DEF Settle, Deduct, LoseReply
      <3>2. Charge(r, actual[r])
        BY <2>2, <3>1
      <3>3. k \in Path[r] /\ used'[k] = used[k] + actual[r] /\ actual[r] \in Nat
        BY <2>1, <2>2, <3>2, ChargeType
      <3>4. pc[r] # "deducting"
        <4>1. SUFFICES ASSUME pc[r] = "deducting" PROVE FALSE
          OBVIOUS
        <4>2. CanDeduct(r)
          BY <2>5, <4>1 DEF Settle, Deduct, LoseReply
        <4>3. QED
          BY <2>2, <3>3, <4>2 DEF CanDeduct
      <3>5. pc[r] = "settling"
        BY <2>2, <3>1, <3>4
      <3>6. pc'[r] = "idle" \/ retries'[r] > retries[r]
        <4>1. CASE Settle(r)
          BY <2>1, <4>1 DEF Settle, End, GoTo, TypeOK
        <4>2. CASE LoseReply(r)
          BY <2>1, <4>2 DEF LoseReply, TypeOK
        <4>3. QED
          BY <2>5, <3>5, <4>1, <4>2 DEF Deduct
      <3>7. QED
        BY <3>3, <3>5, <3>6 DEF SettlementOf
    <2>6. QED
      BY <2>3, <2>4, <2>5
  <1>2. QED
    BY <1>1, Invariant, PTL DEF Spec, OnlyStreamsOverdraw
------------------------------------------------------------------------------
(* Refinement *)

\* What a grant is at each step of its request.
LEMMA GrantAt ==
    ASSUME NEW r \in Requests
    PROVE  /\ pc[r] \in {"recording", "streaming", "finding"} => grant[r] = 1 + MaxRetries
           /\ pc[r] = "settling" => grant[r] = 1 + MaxRetries - retries[r]
           /\ pc[r] \notin OpenSteps => grant[r] = 0
  BY DEF grant, OpenSteps

\* The same of the next state.
LEMMA GrantAtNext ==
    ASSUME NEW r \in Requests
    PROVE  /\ pc'[r] \in {"recording", "streaming", "finding"} => grant'[r] = 1 + MaxRetries
           /\ pc'[r] = "settling" => grant'[r] = 1 + MaxRetries - retries'[r]
           /\ pc'[r] \notin OpenSteps => grant'[r] = 0
  BY DEF grant, OpenSteps

\* One request moves: the grants of the others are left alone.
LEMMA GrantMoves ==
    ASSUME NEW r \in Requests,
           \A q \in Requests \ {r} : pc'[q] = pc[q] /\ retries'[q] = retries[q]
    PROVE  grant' = [grant EXCEPT ![r] = grant'[r]]
  BY DEF grant

\* Only the request that steps moves.
LEMMA OneMoves ==
    ASSUME TypeOK, NEW r \in Requests,
           \/ StartStream(r) \/ Reserve(r) \/ ReserveRefused(r) \/ RecordReservation(r)
           \/ ReservationExpires(r) \/ StreamEnds(r) \/ FindReservation(r) \/ ReservationLost(r)
           \/ Settle(r)
           \/ StartUnary(r) \/ Serve(r) \/ ServeFails(r) \/ Deduct(r) \/ DeductRefused(r)
           \/ Disconnect(r) \/ RedisFails(r) \/ LoseReply(r)
    PROVE  \A q \in Requests \ {r} : pc'[q] = pc[q] /\ retries'[q] = retries[q]
  BY DEF StartStream, Reserve, ReserveRefused, RecordReservation, ReservationExpires, StreamEnds,
         FindReservation, ReservationLost, Settle, StartUnary, Serve, ServeFails, Deduct,
         DeductRefused, Disconnect, RedisFails, LoseReply, End, GoTo, TypeOK

\* A reservation opens an account's grant.
LEMMA ReserveOpens ==
    ASSUME IInv, NEW r \in Requests, Reserve(r)
    PROVE  Account!Open(r)
  <1>1. TypeOK /\ NothingReserved
    BY DEF IInv
  <1>2. grant[r] = 0
    BY GrantAt DEF Reserve, OpenSteps
  <1>3. grant' = [grant EXCEPT ![r] = 1 + MaxRetries]
    <2>1. pc'[r] = "recording"
      BY <1>1 DEF Reserve, GoTo, TypeOK
    <2>2. QED
      BY <1>1, <2>1, OneMoves, GrantMoves, GrantAtNext
  <1>4. \A k \in Path[r] : used[k] <= Total[k]
    <2>1. SUFFICES ASSUME NEW k \in Path[r] PROVE used[k] <= Total[k]
      OBVIOUS
    <2>2. k \in Keys
      BY QuotaAssumption
    <2>3. used[k] \in Nat /\ Total[k] \in Nat /\ reserved[k] = 0
      BY <1>1, <2>2, QuotaAssumption DEF TypeOK, NothingReserved
    <2>4. Total[k] - used[k] - reserved[k] >= Estimate
      BY DEF Reserve, CanReserve
    <2>5. QED
      BY <2>3, <2>4, EstimateAssumption
  <1>5. used' = used
    BY DEF Reserve
  <1>6. QED
    BY <1>2, <1>3, <1>4, <1>5 DEF Account!Open

\* A settlement, answered or not, is a charge under the grant.
LEMMA SettleCharges ==
    ASSUME IInv, NEW r \in Requests, pc[r] = "settling", Settle(r) \/ LoseReply(r)
    PROVE  Account!Charge(r)
  <1>1. TypeOK
    BY DEF IInv
  <1>2. retries[r] \in 0..MaxRetries /\ actual[r] \in 0..MaxActual /\ MaxRetries \in Nat
    BY <1>1, QuotaAssumption DEF TypeOK
  <1>3. grant[r] = 1 + MaxRetries - retries[r] /\ grant[r] > 0
    BY <1>2, GrantAt
  <1>4. Account!Add(r, actual[r])
    BY DEF Settle, LoseReply, Charge, Account!Add
  <1>5. grant'[r] \in {grant[r] - 1, 0}
    <2>1. \/ pc'[r] = "idle"
          \/ pc'[r] = "settling" /\ retries'[r] = retries[r] + 1
      BY <1>1 DEF Settle, LoseReply, End, GoTo, TypeOK
    <2>2. CASE pc'[r] = "idle"
      BY <2>2, GrantAtNext DEF OpenSteps
    <2>3. CASE pc'[r] = "settling" /\ retries'[r] = retries[r] + 1
      BY <1>2, <1>3, <2>3, GrantAtNext
    <2>4. QED
      BY <2>1, <2>2, <2>3
  <1>6. grant' = [grant EXCEPT ![r] = grant'[r]]
    BY <1>1, OneMoves, GrantMoves
  <1>7. grant' \in {[grant EXCEPT ![r] = @ - 1], [grant EXCEPT ![r] = 0]}
    BY <1>5, <1>6
  <1>8. QED
    BY <1>2, <1>3, <1>4, <1>7 DEF Account!Charge

\* A stream that cannot be settled gives its grant back.
LEMMA LossCloses ==
    ASSUME IInv, NEW r \in Requests, pc[r] \in {"finding", "settling"},
           ReservationLost(r) \/ RedisFails(r)
    PROVE  Account!Close(r)
  <1>1. TypeOK
    BY DEF IInv
  <1>2. retries[r] \in 0..MaxRetries /\ MaxRetries \in Nat
    BY <1>1, QuotaAssumption DEF TypeOK
  <1>3. grant[r] > 0
    BY <1>2, GrantAt
  <1>4. pc'[r] = "idle"
    BY <1>1 DEF ReservationLost, RedisFails, End, GoTo, TypeOK
  <1>5. grant' = [grant EXCEPT ![r] = 0]
    BY <1>1, <1>4, OneMoves, GrantMoves, GrantAtNext DEF OpenSteps
  <1>6. used' = used
    BY DEF ReservationLost, RedisFails, balances
  <1>7. QED
    BY <1>3, <1>5, <1>6 DEF Account!Close

\* A deduction, answered or not, is one of the account.
LEMMA DeductDeducts ==
    ASSUME IInv, NEW r \in Requests, pc[r] = "deducting", Deduct(r) \/ LoseReply(r)
    PROVE  Account!Deduct(r)
  <1>1. TypeOK
    BY DEF IInv
  <1>2. actual[r] \in 0..MaxActual
    BY <1>1 DEF TypeOK
  <1>3. Account!Add(r, actual[r])
    BY DEF Deduct, LoseReply, Charge, Account!Add
  <1>4. \A k \in Path[r] : used[k] + actual[r] <= Total[k]
    <2>1. SUFFICES ASSUME NEW k \in Path[r] PROVE used[k] + actual[r] <= Total[k]
      OBVIOUS
    <2>2. k \in Keys
      BY QuotaAssumption
    <2>3. used[k] \in Nat /\ Total[k] \in Nat /\ actual[r] \in Nat
      BY <1>1, <1>2, <2>2, QuotaAssumption DEF TypeOK
    <2>4. Total[k] - used[k] >= actual[r]
      BY DEF Deduct, LoseReply, CanDeduct
    <2>5. QED
      BY <2>3, <2>4
  <1>5. grant' = grant
    <2>1. pc'[r] \notin OpenSteps /\ pc[r] \notin OpenSteps
      BY <1>1 DEF Deduct, LoseReply, End, GoTo, TypeOK, OpenSteps
    <2>2. grant'[r] = grant[r]
      BY <2>1, GrantAt, GrantAtNext
    <2>3. grant' = [grant EXCEPT ![r] = grant[r]]
      BY <1>1, <2>2, OneMoves, GrantMoves
    <2>4. QED
      BY <2>3 DEF grant
  <1>6. QED
    BY <1>2, <1>3, <1>4, <1>5 DEF Account!Deduct

\* Every other step of a request leaves the accounts alone.
LEMMA OthersStutter ==
    ASSUME IInv, NEW r \in Requests,
           \/ StartStream(r) \/ ReserveRefused(r) \/ RecordReservation(r)
           \/ ReservationExpires(r) \/ StreamEnds(r) \/ FindReservation(r)
           \/ StartUnary(r) \/ Serve(r) \/ ServeFails(r) \/ DeductRefused(r) \/ Disconnect(r)
           \/ pc[r] \in {"reserving", "deducting"} /\ RedisFails(r)
           \/ pc[r] = "reserving" /\ LoseReply(r)
    PROVE  UNCHANGED Account!vars
  <1>1. TypeOK
    BY DEF IInv
  <1>2. grant'[r] = grant[r]
    <2>1. CASE RecordReservation(r) \/ StreamEnds(r)
      <3>1. pc[r] \in {"recording", "streaming"} /\ pc'[r] \in {"streaming", "finding"}
        BY <1>1, <2>1 DEF RecordReservation, StreamEnds, GoTo, TypeOK
      <3>2. QED
        BY <3>1, GrantAt, GrantAtNext
    <2>2. CASE FindReservation(r)
      <3>1. pc[r] = "finding" /\ pc'[r] = "settling" /\ retries'[r] = 0
        BY <1>1, <2>2 DEF FindReservation, GoTo, TypeOK
      <3>2. MaxRetries \in Nat
        BY QuotaAssumption
      <3>3. QED
        BY <3>1, <3>2, GrantAt, GrantAtNext
    <2>3. CASE ReservationExpires(r) \/ Disconnect(r)
      BY <2>3 DEF ReservationExpires, Disconnect, grant
    <2>4. CASE \/ StartStream(r) \/ ReserveRefused(r) \/ StartUnary(r) \/ Serve(r)
               \/ ServeFails(r) \/ DeductRefused(r)
               \/ pc[r] \in {"reserving", "deducting"} /\ RedisFails(r)
               \/ pc[r] = "reserving" /\ LoseReply(r)
      <3>1. pc[r] \notin OpenSteps
        BY <2>4 DEF StartStream, ReserveRefused, StartUnary, Serve, ServeFails, DeductRefused,
                    OpenSteps
      <3>2. pc'[r] \notin OpenSteps
        BY <1>1, <2>4 DEF StartStream, ReserveRefused, StartUnary, Serve, ServeFails,
              DeductRefused, RedisFails, LoseReply, End, GoTo, TypeOK, OpenSteps
      <3>3. QED
        BY <3>1, <3>2, GrantAt, GrantAtNext
    <2>5. QED
      BY <2>1, <2>2, <2>3, <2>4
  <1>3. grant' = grant
    <2>1. grant' = [grant EXCEPT ![r] = grant[r]]
      BY <1>1, <1>2, OneMoves, GrantMoves
    <2>2. QED
      BY <2>1 DEF grant
  <1>4. used' = used
    BY DEF StartStream, ReserveRefused, RecordReservation, ReservationExpires, StreamEnds,
           FindReservation, StartUnary, Serve, ServeFails, DeductRefused, Disconnect, RedisFails,
           LoseReply, balances
  <1>5. QED
    BY <1>3, <1>4 DEF Account!vars

\* The quota keeps its promise to the owner of every account: whatever is lost, late,
\* repeated or left unsettled, a deduction fits, and a stream is charged within a grant
\* that it got while nothing was overdrawn.
THEOREM Refinement == Spec => ImplementsAccount
  <1>1. Init => Account!Init
    BY DEF Init, Account!Init, grant
  <1>2. IInv /\ [Next]_vars => [Account!Next]_(Account!vars)
    <2> SUFFICES ASSUME IInv, [Next]_vars
                 PROVE  [Account!Next]_(Account!vars)
      OBVIOUS
    <2>1. CASE UNCHANGED vars
      BY <2>1 DEF vars, balances, Account!vars, grant
    <2>2. ASSUME NEW r \in Requests,
                 \/ StartStream(r) \/ ReserveRefused(r) \/ RecordReservation(r)
                 \/ ReservationExpires(r) \/ StreamEnds(r) \/ FindReservation(r)
                 \/ StartUnary(r) \/ Serve(r) \/ ServeFails(r) \/ DeductRefused(r)
                 \/ Disconnect(r)
          PROVE  UNCHANGED Account!vars
      BY <2>2, OthersStutter
    <2>3. ASSUME NEW r \in Requests,
                 Reserve(r) \/ ReservationLost(r) \/ Settle(r) \/ Deduct(r)
          PROVE  Account!Open(r) \/ Account!Close(r) \/ Account!Charge(r) \/ Account!Deduct(r)
      BY <2>3, ReserveOpens, LossCloses, SettleCharges, DeductDeducts
         DEF ReservationLost, Settle, Deduct
    <2>4. ASSUME NEW r \in Requests, RedisFails(r)
          PROVE  Account!Close(r) \/ UNCHANGED Account!vars
      <3>1. pc[r] \in {"reserving", "deducting", "finding", "settling"}
        BY <2>4 DEF RedisFails, Scripts
      <3>2. QED
        BY <2>4, <3>1, LossCloses, OthersStutter
    <2>5. ASSUME NEW r \in Requests, LoseReply(r)
          PROVE  Account!Charge(r) \/ Account!Deduct(r) \/ UNCHANGED Account!vars
      <3>1. pc[r] \in {"reserving", "settling", "deducting"}
        BY <2>5 DEF LoseReply, Scripts
      <3>2. QED
        BY <2>5, <3>1, SettleCharges, DeductDeducts, OthersStutter
    <2>6. QED
      BY <2>1, <2>2, <2>3, <2>4, <2>5 DEF Next, Account!Next
  <1>3. QED
    BY <1>1, <1>2, Invariant, PTL DEF Spec, ImplementsAccount, Account!Spec
==============================================================================
