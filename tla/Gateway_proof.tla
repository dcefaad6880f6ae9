---------------------------- MODULE Gateway_proof ----------------------------
(***************************************************************************)
(* What Gateway promises of bills and breakers, for any number of requests *)
(* and keys, any walks of the failover loop and answers of any length.     *)
(*                                                                         *)
(* The invariant: while an attempt runs there is a candidate; the last     *)
(* result lies between what was written and what was counted, except while *)
(* a stream is counting; and an attempt that is about to be reported as    *)
(* failed has made its own key suspect, and no other.                      *)
(***************************************************************************)
EXTENDS Gateway, TLAPS

\* The steps with an attempt under way, or answered and not yet reported.
Attempting == {"calling", "streaming", "succeeded", "failed"}

HasCandidate == \A r \in Requests : pc[r] \in Attempting => walk[r] # <<>>

Balanced ==
    \A r \in Requests :
        /\ shown[r] <= counted[r]
        /\ pc[r] # "streaming" => result[r] \in shown[r]..counted[r]

Blamed ==
    /\ \A r \in Requests : pc[r] = "failed" => Candidate(r) \in suspect
    /\ WellKeysStayClosed

IInv == TypeOK /\ HasCandidate /\ Balanced /\ Blamed

\* The actions that touch nothing but where the request is, its client and its walk.
Moves(r) ==
    \/ Arrive(r) \/ Dispatch(r) \/ Reserve(r) \/ Refuse(r)
    \/ Leave(r) \/ Expire(r)
    \/ Exhausted(r) /\ r \in Streaming
------------------------------------------------------------------------------
(* The actions, seen by what they do *)

\* A sequence that is not empty has a head and a tail of its kind.
LEMMA HeadAndTail ==
    ASSUME NEW S, NEW s \in Seq(S), s # <<>>
    PROVE  Head(s) \in S /\ Tail(s) \in Seq(S)
  OBVIOUS

\* The key of an attempt is a key.
LEMMA CandidateIsKey ==
    ASSUME TypeOK, NEW r \in Requests, walk[r] # <<>>
    PROVE  Candidate(r) \in Keys /\ Tail(walk[r]) \in Seq(Keys)
  <1>1. walk[r] \in Seq(Keys)
    BY DEF TypeOK
  <1>2. QED
    BY <1>1, HeadAndTail DEF Candidate

\* What is offered next is one of the walks.
LEMMA WalkIsOffered ==
    ASSUME TypeOK, NEW r \in Requests, Walk(r)
    PROVE  /\ walk' \in [Requests -> Seq(Keys)]
           /\ pc' = [pc EXCEPT ![r] = "offering"]
  BY GatewayAssumption DEF TypeOK, Walk, GoTo

\* The end of a request.
LEMMA ReturnKeeps ==
    ASSUME IInv, NEW r \in Requests, Return(r)
    PROVE  IInv'
  <1>1. TypeOK
    BY DEF IInv
  <1>2. pc' = [pc EXCEPT ![r] = "idle"] /\ UNCHANGED <<breaker, suspect>>
    BY DEF Return, GoTo
  <1>3. TypeOK'
    <2>1. <<>> \in Seq(Keys) /\ 0 \in 0..MaxTokens
      BY GatewayAssumption
    <2>2. Breaker!TypeOK'
      BY <1>1, <1>2 DEF breaker, TypeOK, Breaker!TypeOK
    <2>3. QED
      BY <1>1, <2>1, <2>2 DEF Return, GoTo, TypeOK, Steps
  <1>4. HasCandidate'
    BY <1>1 DEF IInv, HasCandidate, Return, GoTo, TypeOK, Attempting
  <1>5. Balanced'
    BY <1>1, GatewayAssumption DEF IInv, Balanced, Return, GoTo, TypeOK
  <1>6. Blamed'
    BY <1>1, <1>2 DEF IInv, Blamed, WellKeysStayClosed, Candidate, Return, TypeOK, breaker
  <1>7. QED
    BY <1>3, <1>4, <1>5, <1>6 DEF IInv

\* A request moves on, neither into nor out of an attempt.
LEMMA MovesKeep ==
    ASSUME IInv, NEW r \in Requests, Moves(r)
    PROVE  IInv'
  <1>1. TypeOK
    BY DEF IInv
  <1>2. UNCHANGED <<breaker, answer, suspect>>
    BY DEF Moves, Arrive, Dispatch, Reserve, Refuse, Leave, Expire, Exhausted
  <1>3. \/ pc' = pc
        \/ /\ pc[r] \notin Attempting
           /\ \E step \in Steps \ Attempting : pc' = [pc EXCEPT ![r] = step]
    BY <1>1, WalkIsOffered
       DEF Moves, Arrive, Dispatch, Reserve, Refuse, Leave, Expire, Exhausted, GoTo, Steps,
           Attempting
  <1>4. walk' \in [Requests -> Seq(Keys)]
    <2>1. CASE Refuse(r)
      BY <1>1, <2>1, CandidateIsKey DEF Refuse, TypeOK
    <2>2. CASE \/ Arrive(r) \/ Leave(r) \/ Expire(r)
               \/ Exhausted(r) /\ r \in Streaming
      BY <1>1, <2>2 DEF Arrive, Leave, Expire, Exhausted, TypeOK
    <2>3. CASE Dispatch(r) \/ Reserve(r)
      BY <1>1, <2>3, WalkIsOffered DEF Dispatch, Reserve, TypeOK
    <2>4. QED
      BY <2>1, <2>2, <2>3 DEF Moves
  <1>5. pc[r] \in Attempting => walk' = walk
    BY DEF Moves, Arrive, Dispatch, Reserve, Refuse, Leave, Expire, Exhausted, Attempting
  <1>6. \A q \in Requests \ {r} : walk'[q] = walk[q]
    BY <1>1 DEF Moves, Arrive, Dispatch, Reserve, Refuse, Leave, Expire, Exhausted, Walk, TypeOK
  <1>7. client' \in [Requests -> {"there", "late", "gone"}]
    BY <1>1 DEF Moves, Arrive, Dispatch, Reserve, Refuse, Leave, Expire, Exhausted, TypeOK
  <1>8. pc' \in [Requests -> Steps]
    BY <1>1, <1>3 DEF TypeOK
  <1>9. \A q \in Requests : pc'[q] \in Attempting => pc'[q] = pc[q] /\ walk'[q] = walk[q]
    BY <1>1, <1>3, <1>5, <1>6 DEF TypeOK
  <1>10. \A q \in Requests : pc'[q] # "streaming" => pc[q] # "streaming"
    BY <1>1, <1>3 DEF TypeOK, Attempting
  <1>11. TypeOK'
    <2>1. Breaker!TypeOK'
      BY <1>1, <1>2 DEF breaker, TypeOK, Breaker!TypeOK
    <2>2. QED
      BY <1>1, <1>2, <1>4, <1>7, <1>8, <2>1 DEF TypeOK, answer
  <1>12. HasCandidate'
    BY <1>9 DEF IInv, HasCandidate
  <1>13. Balanced'
    BY <1>2, <1>10 DEF IInv, Balanced, answer
  <1>14. Blamed'
    BY <1>2, <1>9 DEF IInv, Blamed, WellKeysStayClosed, Candidate, breaker, Attempting
  <1>15. QED
    BY <1>11, <1>12, <1>13, <1>14 DEF IInv

\* The step to another place does not disturb the others.
LEMMA GoToKeeps ==
    ASSUME TypeOK, NEW r \in Requests, NEW step \in Steps, GoTo(r, step)
    PROVE  /\ pc' \in [Requests -> Steps]
           /\ pc'[r] = step
           /\ \A q \in Requests \ {r} : pc'[q] = pc[q]
  BY DEF TypeOK, GoTo

\* The breaker stays well formed.
LEMMA BreakerKeeps ==
    ASSUME TypeOK, NEW r \in Requests, NEW k \in Keys,
           Breaker!Admit(r, k) \/ Breaker!Succeed(r, k) \/ Breaker!Fail(r, k)
    PROVE  Breaker!TypeOK'
  <1>1. Breaker!TypeOK /\ MaxRequests \in Nat
    BY GatewayAssumption DEF TypeOK
  <1>2. state' \in [Keys -> Breaker!CircuitState]
    BY <1>1 DEF Breaker!TypeOK, Breaker!CircuitState, Breaker!Admit, Breaker!Succeed, Breaker!Fail
  <1>3. probes' \in [Keys -> 0..Breaker!ProbeLimit]
    <2>1. 1 \in 0..Breaker!ProbeLimit /\ 0 \in 0..Breaker!ProbeLimit
      BY <1>1 DEF Breaker!ProbeLimit
    <2>2. probes[k] < Breaker!ProbeLimit => probes[k] + 1 \in 0..Breaker!ProbeLimit
      BY <1>1 DEF Breaker!TypeOK, Breaker!ProbeLimit
    <2>3. QED
      BY <1>1, <2>1, <2>2 DEF Breaker!TypeOK, Breaker!Admit, Breaker!Succeed, Breaker!Fail
  <1>4. inflight' \in [Requests -> Keys \union {NoKey}]
    BY <1>1 DEF Breaker!TypeOK, Breaker!Admit, Breaker!Succeed, Breaker!Fail
  <1>5. QED
    BY <1>2, <1>3, <1>4 DEF Breaker!TypeOK

\* Only a failure takes a key out of the closed state, and only its own.
LEMMA OnlyFailOpens ==
    ASSUME TypeOK, NEW r \in Requests, NEW k \in Keys, NEW j \in Keys, state'[j] # "closed"
    PROVE  /\ Breaker!Admit(r, k) \/ Breaker!Succeed(r, k) => state[j] # "closed"
           /\ Breaker!Fail(r, k) => state[j] # "closed" \/ j = k
  BY DEF TypeOK, Breaker!TypeOK, Breaker!CircuitState, Breaker!Admit, Breaker!Succeed, Breaker!Fail

\* An attempt begins.
LEMMA AdmitKeeps ==
    ASSUME IInv, NEW r \in Requests, Admit(r)
    PROVE  IInv'
  <1>1. TypeOK /\ walk[r] # <<>> /\ pc[r] = "offering"
    BY DEF IInv, Admit
  <1>2. Candidate(r) \in Keys
    BY <1>1, CandidateIsKey
  <1>3. GoTo(r, "calling") /\ "calling" \in Steps
    BY DEF Admit, Steps
  <1>4. /\ pc' \in [Requests -> Steps] /\ pc'[r] = "calling"
        /\ \A q \in Requests \ {r} : pc'[q] = pc[q]
    BY <1>1, <1>3, GoToKeeps
  <1>5. UNCHANGED <<client, walk, answer, suspect>>
    BY DEF Admit
  <1>6. TypeOK'
    <2>1. Breaker!TypeOK'
      BY <1>1, <1>2, BreakerKeeps DEF Admit
    <2>2. QED
      BY <1>1, <1>4, <1>5, <2>1 DEF TypeOK, answer
  <1>7. HasCandidate'
    BY <1>1, <1>4, <1>5 DEF IInv, HasCandidate
  <1>8. Balanced'
    BY <1>1, <1>4, <1>5 DEF IInv, Balanced, answer
  <1>9. Blamed'
    <2>1. WellKeysStayClosed'
      BY <1>1, <1>2, <1>5, OnlyFailOpens DEF IInv, Blamed, WellKeysStayClosed, Admit
    <2>2. QED
      BY <1>4, <1>5, <2>1 DEF IInv, Blamed, Candidate
  <1>10. QED
    BY <1>6, <1>7, <1>8, <1>9 DEF IInv

\* An attempt is reported, to the breaker of its own key.
LEMMA ReportKeeps ==
    ASSUME IInv, NEW r \in Requests, ReportSuccess(r) \/ ReportFailure(r)
    PROVE  IInv'
  <1>1. TypeOK /\ pc[r] \in {"succeeded", "failed"}
    BY DEF IInv, ReportSuccess, ReportFailure
  <1>2. walk[r] # <<>>
    BY <1>1 DEF IInv, HasCandidate, Attempting
  <1>3. Candidate(r) \in Keys /\ Tail(walk[r]) \in Seq(Keys)
    BY <1>1, <1>2, CandidateIsKey
  <1>4. \E step \in {"billing", "offering"} : step \in Steps /\ GoTo(r, step)
    BY DEF ReportSuccess, ReportFailure, Steps
  <1>5. /\ pc' \in [Requests -> Steps] /\ pc'[r] \in {"billing", "offering"}
        /\ \A q \in Requests \ {r} : pc'[q] = pc[q]
    BY <1>1, <1>4, GoToKeeps
  <1>6. UNCHANGED <<client, answer, suspect>>
    BY DEF ReportSuccess, ReportFailure
  <1>7. walk' \in [Requests -> Seq(Keys)] /\ \A q \in Requests \ {r} : walk'[q] = walk[q]
    BY <1>1, <1>3 DEF ReportSuccess, ReportFailure, TypeOK
  <1>8. TypeOK'
    <2>1. Breaker!TypeOK'
      BY <1>1, <1>3, BreakerKeeps DEF ReportSuccess, ReportFailure
    <2>2. QED
      BY <1>1, <1>5, <1>6, <1>7, <2>1 DEF TypeOK, answer
  <1>9. HasCandidate'
    BY <1>5, <1>7 DEF IInv, HasCandidate, Attempting
  <1>10. Balanced'
    BY <1>1, <1>5, <1>6 DEF IInv, Balanced, answer
  <1>11. Blamed'
    <2>1. WellKeysStayClosed'
      <3>1. SUFFICES ASSUME NEW j \in Keys, state'[j] # "closed" PROVE j \in suspect
        BY <1>6 DEF WellKeysStayClosed
      <3>2. CASE ReportSuccess(r)
        BY <1>1, <1>3, <3>1, <3>2, OnlyFailOpens
           DEF IInv, Blamed, WellKeysStayClosed, ReportSuccess
      <3>3. CASE ReportFailure(r)
        <4>1. state[j] # "closed" \/ j = Candidate(r)
          BY <1>1, <1>3, <3>1, <3>3, OnlyFailOpens DEF ReportFailure
        <4>2. Candidate(r) \in suspect
          BY <3>3 DEF IInv, Blamed, ReportFailure
        <4>3. QED
          BY <4>1, <4>2 DEF IInv, Blamed, WellKeysStayClosed
      <3>4. QED
        BY <3>2, <3>3
    <2>2. QED
      BY <1>5, <1>6, <1>7, <2>1 DEF IInv, Blamed, Candidate
  <1>12. QED
    BY <1>8, <1>9, <1>10, <1>11 DEF IInv
------------------------------------------------------------------------------
(* The executor *)

\* What a running attempt does to the answer, without the breaker and the walk.
LEMMA AttemptKeeps ==
    ASSUME IInv, NEW r \in Requests, pc[r] \in Attempting,
           NEW step \in Attempting, GoTo(r, step),
           client' \in [Requests -> {"there", "late", "gone"}],
           counted' \in [Requests -> 0..MaxTokens],
           shown' \in [Requests -> 0..MaxTokens],
           result' \in [Requests -> 0..MaxTokens],
           earlier' \in [Requests -> Nat],
           \A q \in Requests \ {r} : /\ counted'[q] = counted[q]
                                     /\ shown'[q] = shown[q]
                                     /\ result'[q] = result[q],
           shown'[r] <= counted'[r],
           step # "streaming" => result'[r] \in shown'[r]..counted'[r],
           suspect \subseteq suspect', suspect' \in SUBSET Keys,
           step = "failed" => Candidate(r) \in suspect',
           UNCHANGED <<breaker, walk>>
    PROVE  IInv'
  <1>1. TypeOK /\ step \in Steps
    BY DEF IInv, Attempting, Steps
  <1>2. /\ pc' \in [Requests -> Steps] /\ pc'[r] = step
        /\ \A q \in Requests \ {r} : pc'[q] = pc[q]
    BY <1>1, GoToKeeps
  <1>3. TypeOK'
    <2>1. Breaker!TypeOK'
      BY <1>1 DEF breaker, TypeOK, Breaker!TypeOK
    <2>2. QED
      BY <1>1, <1>2, <2>1 DEF TypeOK
  <1>4. HasCandidate'
    BY <1>2 DEF IInv, HasCandidate
  <1>5. Balanced'
    BY <1>2 DEF IInv, Balanced
  <1>6. Blamed'
    BY <1>2 DEF IInv, Blamed, WellKeysStayClosed, Candidate, breaker
  <1>7. QED
    BY <1>3, <1>4, <1>5, <1>6 DEF IInv

\* Every step of the executor keeps the invariant.
LEMMA ExecutorKeeps ==
    ASSUME IInv, NEW r \in Requests,
           \/ CallFails(r) \/ Respond(r) \/ Answer(r) \/ Count(r) \/ Deliver(r)
           \/ StreamEnds(r) \/ StreamBreaks(r)
    PROVE  IInv'
  <1>1. TypeOK /\ Balanced /\ MaxTokens \in Nat
    BY GatewayAssumption DEF IInv
  <1>2. /\ counted[r] \in 0..MaxTokens /\ shown[r] \in 0..MaxTokens /\ shown[r] <= counted[r]
        /\ suspect \in SUBSET Keys
    BY <1>1 DEF TypeOK, Balanced
  <1>3. pc[r] \in Attempting => Candidate(r) \in Keys
    BY <1>1, CandidateIsKey DEF IInv, HasCandidate
  <1>4. CASE CallFails(r)
    <2>1. pc[r] = "calling" /\ GoTo(r, "failed") /\ suspect' = suspect \union {Candidate(r)}
      BY <1>4 DEF CallFails, FailAttempt
    <2>2. UNCHANGED <<breaker, client, walk, counted, shown, result, earlier>>
      BY <1>4 DEF CallFails, answer
    <2>3. result[r] \in shown[r]..counted[r]
      BY <1>1, <2>1 DEF Balanced
    <2>4. QED
      BY <1>1, <1>2, <1>3, <2>1, <2>2, <2>3, AttemptKeeps DEF Attempting, TypeOK
  <1>5. CASE Respond(r)
    <2>1. pc[r] = "calling" /\ GoTo(r, "succeeded")
      BY <1>5 DEF Respond
    <2>2. PICK n \in 0..MaxTokens : /\ counted' = [counted EXCEPT ![r] = n]
                                    /\ shown' = [shown EXCEPT ![r] = n]
                                    /\ result' = [result EXCEPT ![r] = n]
      BY <1>5 DEF Respond
    <2>3. UNCHANGED <<breaker, client, walk, suspect, earlier>>
      BY <1>5 DEF Respond
    <2>4. /\ counted' \in [Requests -> 0..MaxTokens] /\ counted'[r] = n
          /\ shown' \in [Requests -> 0..MaxTokens] /\ shown'[r] = n
          /\ result' \in [Requests -> 0..MaxTokens] /\ result'[r] = n
          /\ \A q \in Requests \ {r} : /\ counted'[q] = counted[q]
                                       /\ shown'[q] = shown[q]
                                       /\ result'[q] = result[q]
      BY <1>1, <2>2 DEF TypeOK
    <2>5. n <= n /\ n \in n..n
      OBVIOUS
    <2>6. QED
      BY <1>1, <1>2, <2>1, <2>3, <2>4, <2>5, AttemptKeeps DEF Attempting, TypeOK
  <1>6. CASE Answer(r)
    <2>1. pc[r] = "calling" /\ GoTo(r, "streaming")
      BY <1>6 DEF Answer
    <2>2. /\ counted' = [counted EXCEPT ![r] = 0] /\ shown' = [shown EXCEPT ![r] = 0]
          /\ earlier' = [earlier EXCEPT ![r] = @ + shown[r]]
          /\ UNCHANGED <<breaker, client, walk, result, suspect>>
      BY <1>6 DEF Answer
    <2>3. /\ counted' \in [Requests -> 0..MaxTokens] /\ counted'[r] = 0
          /\ shown' \in [Requests -> 0..MaxTokens] /\ shown'[r] = 0
          /\ \A q \in Requests \ {r} : counted'[q] = counted[q] /\ shown'[q] = shown[q]
      <3>1. 0 \in 0..MaxTokens
        BY <1>1
      <3>2. QED
        BY <1>1, <2>2, <3>1 DEF TypeOK
    <2>4. /\ pc[r] \in Attempting /\ "streaming" \in Attempting /\ "streaming" # "failed"
          /\ shown'[r] <= counted'[r]
      BY <2>1, <2>3 DEF Attempting
    <2>5. /\ client' \in [Requests -> {"there", "late", "gone"}]
          /\ result' \in [Requests -> 0..MaxTokens]
          /\ earlier' \in [Requests -> Nat]
          /\ suspect \subseteq suspect' /\ suspect' \in SUBSET Keys
          /\ \A q \in Requests \ {r} : result'[q] = result[q]
      <3>1. earlier[r] + shown[r] \in Nat
        BY <1>1, <1>2 DEF TypeOK
      <3>2. QED
        BY <1>1, <2>2, <3>1 DEF TypeOK
    <2>6. QED
      BY <1>1, <1>2, <2>1, <2>2, <2>3, <2>4, <2>5, AttemptKeeps
  <1>7. CASE Count(r) \/ Deliver(r)
    <2>1. pc[r] = "streaming" /\ GoTo(r, "streaming")
      BY <1>1, <1>7 DEF Count, Deliver, GoTo, TypeOK
    <2>2. UNCHANGED <<breaker, client, walk, result, earlier, suspect>>
      BY <1>7 DEF Count, Deliver
    <2>3. \/ counted[r] < MaxTokens /\ counted' = [counted EXCEPT ![r] = @ + 1] /\ shown' = shown
          \/ shown[r] < counted[r] /\ shown' = [shown EXCEPT ![r] = @ + 1] /\ counted' = counted
      BY <1>7 DEF Count, Deliver
    <2>4. /\ counted' \in [Requests -> 0..MaxTokens] /\ shown' \in [Requests -> 0..MaxTokens]
          /\ shown'[r] <= counted'[r]
          /\ \A q \in Requests \ {r} : counted'[q] = counted[q] /\ shown'[q] = shown[q]
      <3>1. CASE /\ counted[r] < MaxTokens /\ shown' = shown
                 /\ counted' = [counted EXCEPT ![r] = @ + 1]
        <4>1. counted[r] + 1 \in 0..MaxTokens /\ shown[r] <= counted[r] + 1
          BY <1>1, <1>2, <3>1
        <4>2. QED
          BY <1>1, <1>2, <3>1, <4>1 DEF TypeOK
      <3>2. CASE /\ shown[r] < counted[r] /\ counted' = counted
                 /\ shown' = [shown EXCEPT ![r] = @ + 1]
        <4>1. shown[r] + 1 \in 0..MaxTokens /\ shown[r] + 1 <= counted[r]
          BY <1>1, <1>2, <3>2
        <4>2. QED
          BY <1>1, <1>2, <3>2, <4>1 DEF TypeOK
      <3>3. QED
        BY <2>3, <3>1, <3>2
    <2>5. QED
      BY <1>1, <1>2, <2>1, <2>2, <2>4, AttemptKeeps DEF Attempting, TypeOK
  <1>8. CASE StreamEnds(r)
    <2>1. pc[r] = "streaming" /\ GoTo(r, "succeeded") /\ shown[r] = counted[r]
      BY <1>8 DEF StreamEnds
    <2>2. /\ result' = [result EXCEPT ![r] = counted[r]]
          /\ UNCHANGED <<breaker, client, walk, counted, shown, earlier, suspect>>
      BY <1>8 DEF StreamEnds
    <2>3. /\ result' \in [Requests -> 0..MaxTokens] /\ result'[r] = counted[r]
          /\ \A q \in Requests \ {r} : result'[q] = result[q]
      BY <1>1, <1>2, <2>2 DEF TypeOK
    <2>4. counted[r] \in shown[r]..counted[r]
      BY <1>2, <2>1
    <2>5. QED
      BY <1>1, <1>2, <2>1, <2>2, <2>3, <2>4, AttemptKeeps DEF Attempting, TypeOK
  <1>9. CASE StreamBreaks(r)
    <2>1. /\ pc[r] = "streaming" /\ GoTo(r, "failed")
          /\ suspect' = suspect \union {Candidate(r)}
      BY <1>9 DEF StreamBreaks, FailAttempt
    <2>2. PICK n \in shown[r]..counted[r] : result' = [result EXCEPT ![r] = n]
      BY <1>9 DEF StreamBreaks
    <2>3. n \in 0..MaxTokens
      BY <1>1, <1>2
    <2>4. client' \in [Requests -> {"there", "late", "gone"}]
      BY <1>1, <1>9 DEF StreamBreaks, TypeOK
    <2>5. UNCHANGED <<breaker, walk, counted, shown, earlier>>
      BY <1>9 DEF StreamBreaks
    <2>6. result' \in [Requests -> 0..MaxTokens] /\ result'[r] = n
          /\ \A q \in Requests \ {r} : result'[q] = result[q]
      BY <1>1, <2>2, <2>3 DEF TypeOK
    <2>7. QED
      BY <1>1, <1>2, <1>3, <2>1, <2>2, <2>4, <2>5, <2>6, AttemptKeeps DEF Attempting, TypeOK
  <1>10. QED
    BY <1>4, <1>5, <1>6, <1>7, <1>8, <1>9
------------------------------------------------------------------------------
(* Theorems *)

\* No request has begun: there is nothing to bill and nobody to blame.
LEMMA Initially == Init => IInv
  <1> SUFFICES ASSUME Init PROVE IInv
    OBVIOUS
  <1>1. TypeOK
    <2>1. Breaker!TypeOK
      <3>1. 0 \in 0..Breaker!ProbeLimit
        BY GatewayAssumption DEF Breaker!ProbeLimit
      <3>2. QED
        BY <3>1 DEF Init, Breaker!Init, Breaker!TypeOK, Breaker!CircuitState
    <2>2. <<>> \in Seq(Keys) /\ 0 \in 0..MaxTokens
      BY GatewayAssumption
    <2>3. QED
      BY <2>1, <2>2 DEF Init, TypeOK, Steps
  <1>2. HasCandidate /\ Balanced /\ Blamed
    BY DEF Init, Breaker!Init, HasCandidate, Balanced, Blamed, WellKeysStayClosed, Attempting
  <1>3. QED
    BY <1>1, <1>2 DEF IInv

\* Every step keeps the invariant.
LEMMA Inductive == IInv /\ [Next]_vars => IInv'
  <1> SUFFICES ASSUME IInv, [Next]_vars
               PROVE  IInv'
    OBVIOUS
  <1>1. CASE UNCHANGED vars
    <2>1. TypeOK'
      <3>1. Breaker!TypeOK'
        BY <1>1 DEF IInv, TypeOK, Breaker!TypeOK, vars, breaker
      <3>2. QED
        BY <1>1, <3>1 DEF IInv, TypeOK, vars, breaker, answer
    <2>2. HasCandidate' /\ Balanced' /\ Blamed'
      BY <1>1 DEF IInv, HasCandidate, Balanced, Blamed, WellKeysStayClosed, Candidate, vars,
                  breaker, answer
    <2>3. QED
      BY <2>1, <2>2 DEF IInv
  <1>2. ASSUME NEW r \in Requests, TurnAway(r) \/ ReserveFails(r) \/ Bill(r)
        PROVE  IInv'
    BY <1>2, ReturnKeeps DEF TurnAway, ReserveFails, Bill
  <1>3. ASSUME NEW r \in Requests,
               \/ Arrive(r) \/ Dispatch(r) \/ Reserve(r) \/ Refuse(r) \/ Leave(r) \/ Expire(r)
        PROVE  IInv'
    BY <1>3, MovesKeep DEF Moves
  <1>4. ASSUME NEW r \in Requests, Exhausted(r)
        PROVE  IInv'
    <2>1. CASE r \in Streaming
      BY <1>4, <2>1, MovesKeep DEF Moves
    <2>2. CASE r \notin Streaming
      BY <1>4, <2>2, ReturnKeeps DEF Exhausted
    <2>3. QED
      BY <2>1, <2>2
  <1>5. QED
    BY <1>1, <1>2, <1>3, <1>4, AdmitKeeps, ReportKeeps, ExecutorKeeps DEF Next, HandlerStep

\* So it holds in every reachable state.
LEMMA Invariant == Spec => []IInv
  BY Initially, Inductive, PTL DEF Spec

\* Every value keeps its type; a half-open key never has more probes than its limit,
\* however many requests are at it.
THEOREM TypeCorrect == Spec => []TypeOK
  <1>1. IInv => TypeOK
    BY DEF IInv
  <1>2. QED
    BY <1>1, Invariant, PTL

\* The bill of a request is for its last answer, wherever that answer broke off and
\* whatever failed after it.
THEOREM BillIsRight == Spec => []BillsLastAnswer
  <1>1. IInv => BillsLastAnswer
    BY DEF IInv, Balanced, BillsLastAnswer
  <1>2. QED
    BY <1>1, Invariant, PTL

\* No failure of one key, and no walk through any number of them, opens the breaker of
\* another.
THEOREM OthersUnharmed == Spec => []WellKeysStayClosed
  <1>1. IInv => WellKeysStayClosed
    BY DEF IInv, Blamed
  <1>2. QED
    BY <1>1, Invariant, PTL
------------------------------------------------------------------------------
(* What EveryRequestEnds rests on, besides fairness *)

\* An attempt under way is known to the breaker, under the key it is made with; and
\* a request that makes none holds nothing of the breaker.
Reported ==
    \A r \in Requests :
        /\ pc[r] \in Attempting => walk[r] # <<>> /\ inflight[r] = Candidate(r)
        /\ pc[r] \notin Attempting => inflight[r] = NoKey

\* How far a request is from its end: the part of the handler it is in, then the keys
\* it has left to offer, then the steps that the current one can still take.
Stage(step) == CASE step = "idle" -> 0
                 [] step = "billing" -> 1
                 [] step = "reserving" -> 3
                 [] step = "handling" -> 4
                 [] OTHER -> 2

StepsLeft(r) == CASE pc[r] = "offering" -> 2 * MaxTokens + 4
                  [] pc[r] = "calling" -> 2 * MaxTokens + 3
                  [] pc[r] = "streaming" -> 2 + (MaxTokens - counted[r]) + (MaxTokens - shown[r])
                  [] OTHER -> 1

Unmoved(r) ==
    pc'[r] = pc[r] /\ walk'[r] = walk[r] /\ counted'[r] = counted[r] /\ shown'[r] = shown[r]

\* Each of the three is a natural number.
Nearer(r) ==
    \/ Stage(pc'[r]) < Stage(pc[r])
    \/ Stage(pc'[r]) = Stage(pc[r]) /\ Len(walk'[r]) < Len(walk[r])
    \/ /\ Stage(pc'[r]) = Stage(pc[r])
       /\ walk'[r] = walk[r]
       /\ StepsLeft(r)' \in 0 .. StepsLeft(r) - 1

\* No step takes a request back: each step of its own brings it nearer its end, and
\* the steps of others and of its client leave it where it is.
AdvancesOnly ==
    [][\A r \in Requests :
        /\ HandlerStep(r) => Nearer(r)
        /\ pc[r] # "idle" => Unmoved(r) \/ Nearer(r)]_vars

LEMMA InitReported == Init => Reported
  BY DEF Init, Breaker!Init, Reported, Attempting

\* A request that neither begins nor reports an attempt.
LEMMA ReportedFrame ==
    ASSUME Reported, inflight' = inflight,
           \A r \in Requests : /\ pc'[r] \in Attempting <=> pc[r] \in Attempting
                               /\ pc[r] \in Attempting => walk'[r] = walk[r]
    PROVE  Reported'
  <1>1. ASSUME NEW q \in Requests, pc'[q] \in Attempting
        PROVE  walk'[q] # <<>> /\ inflight'[q] = Candidate(q)'
    <2>1. pc[q] \in Attempting /\ walk'[q] = walk[q]
      BY <1>1
    <2>2. walk[q] # <<>> /\ inflight[q] = Candidate(q)
      BY <2>1 DEF Reported
    <2>3. QED
      BY <2>1, <2>2 DEF Candidate
  <1>2. ASSUME NEW q \in Requests, pc'[q] \notin Attempting
        PROVE  inflight'[q] = NoKey
    BY <1>2 DEF Reported
  <1>3. QED
    BY <1>1, <1>2 DEF Reported

LEMMA ReportedMoves ==
    ASSUME TypeOK, Reported, NEW r \in Requests,
           \/ Arrive(r) \/ TurnAway(r) \/ Dispatch(r) \/ ReserveFails(r) \/ Reserve(r)
           \/ Refuse(r) \/ Exhausted(r) \/ Bill(r) \/ Leave(r) \/ Expire(r)
    PROVE  Reported'
  <1>1. inflight' = inflight
    BY DEF Arrive, TurnAway, Dispatch, ReserveFails, Reserve, Refuse, Exhausted, Bill, Leave,
           Expire, Return, breaker
  <1>2. \/ pc' = pc /\ walk' = walk
        \/ /\ pc[r] \notin Attempting
           /\ \E step \in Steps \ Attempting : pc' = [pc EXCEPT ![r] = step]
           /\ \A q \in Requests \ {r} : walk'[q] = walk[q]
        \/ pc' = pc /\ pc[r] \notin Attempting /\ \A q \in Requests \ {r} : walk'[q] = walk[q]
    <2>1. CASE Leave(r) \/ Expire(r)
      BY <2>1 DEF Leave, Expire
    <2>2. CASE Refuse(r)
      BY <2>2 DEF Refuse, TypeOK, Attempting
    <2>3. CASE Arrive(r) \/ Dispatch(r) \/ Reserve(r)
      BY <2>3 DEF Arrive, Dispatch, Reserve, Walk, GoTo, TypeOK, Steps, Attempting
    <2>4. CASE TurnAway(r) \/ ReserveFails(r) \/ Exhausted(r) \/ Bill(r)
      BY <2>4 DEF TurnAway, ReserveFails, Exhausted, Bill, Return, GoTo, TypeOK, Steps, Attempting
    <2>5. QED
      BY <2>1, <2>2, <2>3, <2>4
  <1>3. pc \in [Requests -> Steps]
    BY DEF TypeOK
  <1>4. QED
    BY <1>1, <1>2, <1>3, ReportedFrame

\* Admit begins one, under the key the attempt will be made with.
LEMMA ReportedAdmit ==
    ASSUME TypeOK, Reported, NEW r \in Requests, Admit(r)
    PROVE  Reported'
  <1>1. /\ pc' = [pc EXCEPT ![r] = "calling"] /\ walk' = walk /\ walk[r] # <<>>
        /\ inflight' = [inflight EXCEPT ![r] = Candidate(r)]
    BY DEF Admit, GoTo, Breaker!Admit
  <1>2. pc \in [Requests -> Steps] /\ inflight \in [Requests -> Keys \union {NoKey}]
    BY DEF TypeOK, Breaker!TypeOK
  <1>3. QED
    BY <1>1, <1>2 DEF Reported, Candidate, Attempting

\* The two reports end one, before the loop moves to another key.
LEMMA ReportedReport ==
    ASSUME TypeOK, Reported, NEW r \in Requests, ReportSuccess(r) \/ ReportFailure(r)
    PROVE  Reported'
  <1>1. /\ \E step \in {"billing", "offering"} : pc' = [pc EXCEPT ![r] = step]
        /\ inflight' = [inflight EXCEPT ![r] = NoKey]
    BY DEF ReportSuccess, ReportFailure, GoTo, Breaker!Succeed, Breaker!Fail
  <1>2. pc \in [Requests -> Steps] /\ inflight \in [Requests -> Keys \union {NoKey}]
    BY DEF TypeOK, Breaker!TypeOK
  <1>3. \A q \in Requests \ {r} : walk'[q] = walk[q]
    BY DEF ReportSuccess, ReportFailure, TypeOK
  <1>4. QED
    BY <1>1, <1>2, <1>3 DEF Reported, Candidate, Attempting

LEMMA ReportedExecutor ==
    ASSUME TypeOK, Reported, NEW r \in Requests,
           \/ CallFails(r) \/ Respond(r) \/ Answer(r) \/ Count(r) \/ Deliver(r)
           \/ StreamEnds(r) \/ StreamBreaks(r)
    PROVE  Reported'
  <1>1. UNCHANGED <<inflight, walk>>
    BY DEF CallFails, Respond, Answer, Count, Deliver, StreamEnds, StreamBreaks, breaker
  <1>2. pc[r] \in Attempting /\ (pc' = pc \/ \E step \in Attempting : pc' = [pc EXCEPT ![r] = step])
    BY DEF CallFails, Respond, Answer, Count, Deliver, StreamEnds, StreamBreaks, FailAttempt, GoTo,
           Attempting
  <1>3. pc \in [Requests -> Steps]
    BY DEF TypeOK
  <1>4. QED
    BY <1>1, <1>2, <1>3, ReportedFrame

LEMMA ReportedStep == TypeOK /\ Reported /\ [Next]_vars => Reported'
  <1> SUFFICES ASSUME TypeOK, Reported, [Next]_vars
               PROVE  Reported'
    OBVIOUS
  <1>1. CASE UNCHANGED vars
    BY <1>1 DEF Reported, Candidate, vars, breaker
  <1>2. QED
    BY <1>1, ReportedMoves, ReportedAdmit, ReportedReport, ReportedExecutor DEF Next, HandlerStep

\* Every attempt the breaker has admitted is reported to it, under its own key, before
\* its request turns to another key or ends: no request that is over holds a probe
\* (the loops of ExecuteWithFailover record one outcome for each AllowRequest).
THEOREM AttemptsAreReported == Spec => []Reported
  <1>1. IInv => TypeOK
    BY DEF IInv
  <1>2. QED
    BY <1>1, Invariant, InitReported, ReportedStep, PTL DEF Spec

\* The end of a request is the last stage.
LEMMA ReturnIsNearer ==
    ASSUME TypeOK, NEW r \in Requests, pc[r] # "idle", Return(r)
    PROVE  Nearer(r)
  <1>1. pc'[r] = "idle" /\ pc[r] \in Steps
    BY DEF Return, GoTo, TypeOK
  <1>2. QED
    BY <1>1 DEF Nearer, Stage, Steps

LEMMA TailIsShorter ==
    ASSUME NEW S, NEW s \in Seq(S), s # <<>>
    PROVE  Len(Tail(s)) < Len(s)
  OBVIOUS

LEMMA HandlerAdvances ==
    ASSUME TypeOK, HasCandidate, NEW r \in Requests, HandlerStep(r)
    PROVE  Nearer(r)
  <1>1. /\ pc \in [Requests -> Steps] /\ walk \in [Requests -> Seq(Keys)]
        /\ counted \in [Requests -> 0..MaxTokens] /\ shown \in [Requests -> 0..MaxTokens]
        /\ MaxTokens \in Nat
    BY GatewayAssumption DEF TypeOK
  <1>2. CASE TurnAway(r) \/ ReserveFails(r) \/ Bill(r) \/ (Exhausted(r) /\ r \notin Streaming)
    BY <1>2, ReturnIsNearer DEF TurnAway, ReserveFails, Bill, Exhausted
  <1>3. CASE Dispatch(r) \/ Reserve(r) \/ ReportSuccess(r) \/ (Exhausted(r) /\ r \in Streaming)
    <2>1. \/ pc[r] = "handling" /\ pc'[r] \in {"reserving", "offering"}
          \/ pc[r] = "reserving" /\ pc'[r] = "offering"
          \/ pc[r] \in {"succeeded", "offering"} /\ pc'[r] = "billing"
      BY <1>1, <1>3 DEF Dispatch, Reserve, ReportSuccess, Exhausted, Walk, GoTo
    <2>2. QED
      BY <2>1 DEF Nearer, Stage
  <1>4. CASE Refuse(r) \/ ReportFailure(r)
    <2>1. walk[r] # <<>> /\ walk[r] \in Seq(Keys)
      BY <1>1, <1>4 DEF Refuse, ReportFailure, HasCandidate, Attempting
    <2>2. walk'[r] = Tail(walk[r])
      BY <1>1, <1>4 DEF Refuse, ReportFailure
    <2>3. pc'[r] = "offering" /\ pc[r] \in {"offering", "failed"}
      BY <1>1, <1>4 DEF Refuse, ReportFailure, GoTo
    <2>4. QED
      BY <2>1, <2>2, <2>3, TailIsShorter DEF Nearer, Stage
  <1>5. CASE Admit(r) \/ CallFails(r) \/ Respond(r) \/ Answer(r) \/ StreamEnds(r) \/ StreamBreaks(r)
    <2>1. walk' = walk
      BY <1>5 DEF Admit, CallFails, Respond, Answer, StreamEnds, StreamBreaks
    <2>2. \/ pc[r] = "offering" /\ pc'[r] = "calling"
          \/ pc[r] \in {"calling", "streaming"} /\ pc'[r] \in {"succeeded", "failed"}
          \/ pc[r] = "calling" /\ pc'[r] = "streaming" /\ counted'[r] = 0 /\ shown'[r] = 0
      BY <1>1, <1>5 DEF Admit, CallFails, Respond, Answer, StreamEnds, StreamBreaks, FailAttempt, GoTo
    <2>3. Stage(pc'[r]) = Stage(pc[r])
      BY <2>2 DEF Stage
    <2>4. StepsLeft(r)' \in 0 .. StepsLeft(r) - 1
      <3>1. CASE pc[r] = "offering" /\ pc'[r] = "calling"
        BY <1>1, <3>1 DEF StepsLeft
      <3>2. CASE pc[r] \in {"calling", "streaming"} /\ pc'[r] \in {"succeeded", "failed"}
        <4>1. counted[r] \in 0..MaxTokens /\ shown[r] \in 0..MaxTokens
          BY <1>1
        <4>2. StepsLeft(r) \in Nat /\ StepsLeft(r) >= 2
          BY <1>1, <3>2, <4>1 DEF StepsLeft
        <4>3. StepsLeft(r)' = 1
          BY <3>2 DEF StepsLeft
        <4>4. QED
          BY <4>2, <4>3
      <3>3. CASE pc[r] = "calling" /\ pc'[r] = "streaming" /\ counted'[r] = 0 /\ shown'[r] = 0
        <4>1. StepsLeft(r) = 2 * MaxTokens + 3
          BY <3>3 DEF StepsLeft
        <4>2. StepsLeft(r)' = 2 + (MaxTokens - 0) + (MaxTokens - 0)
          BY <3>3 DEF StepsLeft
        <4>3. QED
          BY <1>1, <4>1, <4>2
      <3>4. QED
        BY <2>2, <3>1, <3>2, <3>3
    <2>5. QED
      BY <2>1, <2>3, <2>4 DEF Nearer
  <1>6. CASE Count(r) \/ Deliver(r)
    <2>1. /\ walk' = walk /\ pc' = pc /\ pc[r] = "streaming"
          /\ counted[r] \in 0..MaxTokens /\ shown[r] \in 0..MaxTokens
      BY <1>1, <1>6 DEF Count, Deliver
    <2>2. \/ counted[r] < MaxTokens /\ counted'[r] = counted[r] + 1 /\ shown' = shown
          \/ shown[r] < counted[r] /\ shown'[r] = shown[r] + 1 /\ counted' = counted
      BY <1>1, <1>6 DEF Count, Deliver
    <2>3. StepsLeft(r)' \in 0 .. StepsLeft(r) - 1
      <3>1. /\ StepsLeft(r) = 2 + (MaxTokens - counted[r]) + (MaxTokens - shown[r])
            /\ StepsLeft(r)' = 2 + (MaxTokens - counted'[r]) + (MaxTokens - shown'[r])
        BY <2>1 DEF StepsLeft
      <3>2. shown[r] < counted[r] => shown[r] < MaxTokens
        BY <1>1, <2>1
      <3>3. \A m, c, s \in Nat :
              /\ c < m /\ s <= m =>
                    2 + (m - (c + 1)) + (m - s) \in 0 .. (2 + (m - c) + (m - s)) - 1
              /\ c <= m /\ s < m =>
                    2 + (m - c) + (m - (s + 1)) \in 0 .. (2 + (m - c) + (m - s)) - 1
        OBVIOUS
      <3>4. CASE counted[r] < MaxTokens /\ counted'[r] = counted[r] + 1 /\ shown' = shown
        BY <1>1, <2>1, <3>1, <3>3, <3>4
      <3>5. CASE shown[r] < counted[r] /\ shown'[r] = shown[r] + 1 /\ counted' = counted
        BY <1>1, <2>1, <3>1, <3>2, <3>3, <3>5
      <3>6. QED
        BY <2>2, <3>4, <3>5
    <2>4. QED
      BY <2>1, <2>3 DEF Nearer
  <1>7. QED
    BY <1>2, <1>3, <1>4, <1>5, <1>6 DEF HandlerStep

\* A step of a request leaves the others where they are.
LEMMA OthersUnmoved ==
    ASSUME TypeOK, NEW q \in Requests, NEW r \in Requests, q # r, HandlerStep(r) \/ Arrive(r)
    PROVE  Unmoved(q)
  <1> USE DEF TypeOK, Unmoved
  <1>1. CASE \/ Arrive(r) \/ TurnAway(r) \/ Dispatch(r) \/ ReserveFails(r) \/ Reserve(r) \/ Bill(r)
             \/ Exhausted(r)
    BY <1>1 DEF Arrive, TurnAway, Dispatch, ReserveFails, Reserve, Bill, Exhausted, Return, Walk, GoTo,
                answer
  <1>2. CASE Admit(r) \/ Refuse(r) \/ ReportSuccess(r) \/ ReportFailure(r)
    BY <1>2 DEF Admit, Refuse, ReportSuccess, ReportFailure, GoTo, answer
  <1>3. CASE CallFails(r) \/ Respond(r) \/ Answer(r) \/ Count(r) \/ Deliver(r)
    BY <1>3 DEF CallFails, Respond, Answer, Count, Deliver, FailAttempt, GoTo, answer
  <1>4. CASE StreamEnds(r) \/ StreamBreaks(r)
    BY <1>4 DEF StreamEnds, StreamBreaks, FailAttempt, GoTo, answer
  <1>5. QED
    BY <1>1, <1>2, <1>3, <1>4 DEF HandlerStep

\* Every step of a request brings it nearer its end, whatever the breaker, the upstream
\* and the client do, and nothing takes it back: it cannot go round in circles, and
\* for how long it has a bound in each part of the handler.  That it does take its
\* steps is the fairness that EveryRequestEnds is checked under.
THEOREM RequestsAdvance == Spec => AdvancesOnly
  <1>1. ASSUME IInv, [Next]_vars
        PROVE  [\A r \in Requests :
                  /\ HandlerStep(r) => Nearer(r)
                  /\ pc[r] # "idle" => Unmoved(r) \/ Nearer(r)]_vars
    <2>1. SUFFICES ASSUME Next, NEW r \in Requests
                   PROVE  /\ HandlerStep(r) => Nearer(r)
                          /\ pc[r] # "idle" => Unmoved(r) \/ Nearer(r)
      BY <1>1
    <2>2. TypeOK /\ HasCandidate
      BY <1>1 DEF IInv
    <2>3. HandlerStep(r) => Nearer(r)
      BY <2>2, HandlerAdvances
    <2>4. PICK q \in Requests : Arrive(q) \/ HandlerStep(q) \/ Leave(q) \/ Expire(q)
      BY <2>1 DEF Next
    <2>5. CASE Leave(q) \/ Expire(q)
      <3>1. Unmoved(r)
        BY <2>5 DEF Leave, Expire, answer, Unmoved
      <3>2. QED
        BY <2>3, <3>1
    <2>6. CASE (Arrive(q) \/ HandlerStep(q)) /\ q # r
      BY <2>2, <2>3, <2>6, OthersUnmoved
    <2>7. CASE Arrive(q) /\ q = r
      BY <2>3, <2>7 DEF Arrive
    <2>8. CASE HandlerStep(q) /\ q = r
      BY <2>3, <2>8
    <2>9. QED
      BY <2>4, <2>5, <2>6, <2>7, <2>8
  <1>2. QED
    BY <1>1, Invariant, PTL DEF Spec, AdvancesOnly
==============================================================================
