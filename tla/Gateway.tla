-------------------------------- MODULE Gateway --------------------------------
(***************************************************************************)
(* internal/handler/chat.go: requests through Handle, handleStream and     *)
(* handleNonStream, each under one context that ends when its client goes. *)
(*                                                                         *)
(* The parts a request goes through are used by what their own modules     *)
(* show of them: the breaker as AbstractBreaker, the failover loop as a    *)
(* sequence of keys it offers, a call of ProxyStream as chunks that are    *)
(* counted and then written, with the count it returns anywhere between    *)
(* the two when it is interrupted (StreamProxy!CountsDelivered), and the   *)
(* quota as a refusal before a stream and a bill after it.                 *)
(***************************************************************************)
EXTENDS Integers, Sequences

CONSTANTS
    Keys,           \* upstream API keys
    Requests,       \* slots for concurrent requests
    Streaming,      \* those that ask for a stream
    Walks,          \* sequences of keys the failover loop may offer to a request
    NoKey,          \* no attempt runs
    MaxRequests,    \* CircuitBreakerConfig.MaxRequests
    MaxTokens       \* BOUND: tokens in one answer

ASSUME GatewayAssumption ==
    /\ Streaming \subseteq Requests
    /\ Walks \subseteq Seq(Keys)
    /\ NoKey \notin Keys
    /\ MaxRequests \in Nat
    /\ MaxTokens \in Nat

VARIABLES
    state, probes, inflight,    \* the breaker
    pc,             \* where the request is
    client,         \* its client: there, past the write deadline, or gone
    walk,           \* the keys that are left to offer, the current one first
    counted,        \* tokens counted in the last answer of an upstream
    shown,          \* of these, the tokens written to the client
    result,         \* streamResult, or the usage of openaiResp
    earlier,        \* HISTORY: tokens the client was written of earlier answers
    suspect         \* HISTORY: keys with an attempt that their upstream failed, or
                    \* that ended because its client had left

breaker == <<state, probes, inflight>>
answer == <<counted, shown, result, earlier>>
vars == <<breaker, pc, client, walk, answer, suspect>>

Breaker == INSTANCE AbstractBreaker
    WITH Keys <- Keys, Requests <- Requests, NoKey <- NoKey, MaxRequests <- MaxRequests,
         state <- state, probes <- probes, inflight <- inflight

Steps == {"idle", "handling", "reserving", "offering", "calling", "streaming",
          "succeeded", "failed", "billing"}

TypeOK ==
    /\ Breaker!TypeOK
    /\ pc \in [Requests -> Steps]
    /\ client \in [Requests -> {"there", "late", "gone"}]
    /\ walk \in [Requests -> Seq(Keys)]
    /\ counted \in [Requests -> 0..MaxTokens]
    /\ shown \in [Requests -> 0..MaxTokens]
    /\ result \in [Requests -> 0..MaxTokens]
    /\ earlier \in [Requests -> Nat]
    /\ suspect \in SUBSET Keys

Init ==
    /\ Breaker!Init
    /\ pc = [r \in Requests |-> "idle"]
    /\ client = [r \in Requests |-> "there"]
    /\ walk = [r \in Requests |-> <<>>]
    /\ counted = [r \in Requests |-> 0]
    /\ shown = [r \in Requests |-> 0]
    /\ result = [r \in Requests |-> 0]
    /\ earlier = [r \in Requests |-> 0]
    /\ suspect = {}

GoTo(r, step) == pc' = [pc EXCEPT ![r] = step]

\* The handler returns: nothing of the request is left.
Return(r) ==
    /\ GoTo(r, "idle")
    /\ client' = [client EXCEPT ![r] = "there"]
    /\ walk' = [walk EXCEPT ![r] = <<>>]
    /\ counted' = [counted EXCEPT ![r] = 0]
    /\ shown' = [shown EXCEPT ![r] = 0]
    /\ result' = [result EXCEPT ![r] = 0]
    /\ earlier' = [earlier EXCEPT ![r] = 0]
    /\ UNCHANGED <<breaker, suspect>>

------------------------------------------------------------------------------
(* Handle *)

Arrive(r) ==
    /\ pc[r] = "idle"
    /\ GoTo(r, "handling")
    /\ UNCHANGED <<breaker, client, walk, answer, suspect>>

\* 401, 400, 429, 400 or 500: the key, the body, the rate limiter, the rule or the
\* adapter ends the request.
TurnAway(r) ==
    /\ pc[r] = "handling"
    /\ Return(r)

\* ExecuteWithFailover begins; what it will offer is the business of Failover.
Walk(r) ==
    /\ walk' \in {[walk EXCEPT ![r] = w] : w \in Walks}
    /\ GoTo(r, "offering")

Dispatch(r) ==
    /\ pc[r] = "handling"
    /\ \/ r \in Streaming /\ GoTo(r, "reserving") /\ UNCHANGED walk
       \/ r \notin Streaming /\ Walk(r)
    /\ UNCHANGED <<breaker, client, answer, suspect>>

\* ReserveQuota fails, as it does when the client has gone: a 402.
ReserveFails(r) ==
    /\ pc[r] = "reserving"
    /\ Return(r)

\* The reservation is made, and the header of the stream says 200 from here on.
Reserve(r) ==
    /\ pc[r] = "reserving"
    /\ client[r] # "gone"
    /\ Walk(r)
    /\ UNCHANGED <<breaker, client, answer, suspect>>

------------------------------------------------------------------------------
(* The failover loop around the executor *)

Candidate(r) == Head(walk[r])

\* AllowRequest.
Admit(r) ==
    /\ pc[r] = "offering" /\ walk[r] # <<>>
    /\ Breaker!Admit(r, Candidate(r))
    /\ GoTo(r, "calling")
    /\ UNCHANGED <<client, walk, answer, suspect>>

\* Mutant of Refuse: the same key is offered again.
RefuseStays(r) ==
    /\ pc[r] = "offering" /\ walk[r] # <<>>
    /\ \/ state[Candidate(r)] = "open"
       \/ state[Candidate(r)] = "halfOpen" /\ probes[Candidate(r)] > MaxRequests
    /\ UNCHANGED vars

Refuse(r) ==
    /\ pc[r] = "offering" /\ walk[r] # <<>>
    /\ \/ state[Candidate(r)] = "open"
       \/ state[Candidate(r)] = "halfOpen" /\ probes[Candidate(r)] > MaxRequests
    /\ walk' = [walk EXCEPT ![r] = Tail(@)]
    /\ UNCHANGED <<breaker, pc, client, answer, suspect>>

\* RecordSuccess, and ExecuteWithFailover returns nil.
ReportSuccess(r) ==
    /\ pc[r] = "succeeded"
    /\ Breaker!Succeed(r, Candidate(r))
    /\ GoTo(r, "billing")
    /\ UNCHANGED <<client, walk, answer, suspect>>

\* Mutant of ReportFailure: the loop has moved on when the failure is recorded.
ReportFailureAtNext(r) ==
    /\ pc[r] = "failed"
    /\ walk' = [walk EXCEPT ![r] = Tail(@)]
    /\ inflight' = [inflight EXCEPT ![r] = NoKey]
    /\ IF walk'[r] # <<>> /\ state[Head(walk'[r])] = "closed"
       THEN state' = [state EXCEPT ![Head(walk'[r])] = "open"]
       ELSE UNCHANGED state
    /\ GoTo(r, "offering")
    /\ UNCHANGED <<probes, client, answer, suspect>>

\* RecordFailure, whoever was at fault, and the next key.  The loop does not look
\* at the context.
ReportFailure(r) ==
    /\ pc[r] = "failed"
    /\ Breaker!Fail(r, Candidate(r))
    /\ walk' = [walk EXCEPT ![r] = Tail(@)]
    /\ GoTo(r, "offering")
    /\ UNCHANGED <<client, answer, suspect>>

\* No key is left.  A stream is settled all the same, anything else is a 502.
Exhausted(r) ==
    /\ pc[r] = "offering" /\ walk[r] = <<>>
    /\ \/ /\ r \in Streaming
          /\ GoTo(r, "billing")
          /\ UNCHANGED <<breaker, client, walk, answer, suspect>>
       \/ /\ r \notin Streaming
          /\ Return(r)

------------------------------------------------------------------------------
(* The executor *)

\* The executor returns an error.
FailAttempt(r) ==
    /\ GoTo(r, "failed")
    /\ suspect' = suspect \union {Candidate(r)}

\* Mutant of CallFails: the result is assigned although there is no answer.
CallFailsClears(r) ==
    /\ pc[r] = "calling"
    /\ FailAttempt(r)
    /\ result' = [result EXCEPT ![r] = 0]
    /\ UNCHANGED <<breaker, client, walk, counted, shown, earlier>>

\* httpClient.Do fails: the upstream cannot be reached or does not answer in time,
\* or the context of the request, which is the context of the call, is done.
CallFails(r) ==
    /\ pc[r] = "calling"
    /\ FailAttempt(r)
    /\ UNCHANGED <<breaker, client, walk, answer>>

\* A response to a unary request: below 500 and of the adapter's format, perhaps
\* with no usage in it, as the refusals of an upstream are.
Respond(r) ==
    /\ pc[r] = "calling" /\ r \notin Streaming
    /\ client[r] # "gone"
    /\ \E n \in 0..MaxTokens :
        /\ counted' = [counted EXCEPT ![r] = n]
        /\ shown' = [shown EXCEPT ![r] = n]
        /\ result' = [result EXCEPT ![r] = n]
    /\ GoTo(r, "succeeded")
    /\ UNCHANGED <<breaker, client, walk, earlier, suspect>>

\* A response to a streaming request, of any status: ProxyStream begins.  What it
\* writes follows what the client has of the answers before it.
Answer(r) ==
    /\ pc[r] = "calling" /\ r \in Streaming
    /\ client[r] # "gone"
    /\ counted' = [counted EXCEPT ![r] = 0]
    /\ shown' = [shown EXCEPT ![r] = 0]
    /\ earlier' = [earlier EXCEPT ![r] = @ + shown[r]]
    /\ GoTo(r, "streaming")
    /\ UNCHANGED <<breaker, client, walk, result, suspect>>

Count(r) ==
    /\ pc[r] = "streaming"
    /\ counted[r] < MaxTokens
    /\ counted' = [counted EXCEPT ![r] = @ + 1]
    /\ UNCHANGED <<breaker, pc, client, walk, shown, result, earlier, suspect>>

\* A write succeeds, as it may for a while after the client has gone or the deadline
\* has passed: net/http has buffers.
Deliver(r) ==
    /\ pc[r] = "streaming"
    /\ shown[r] < counted[r]
    /\ shown' = [shown EXCEPT ![r] = @ + 1]
    /\ UNCHANGED <<breaker, pc, client, walk, counted, result, earlier, suspect>>

\* ProxyStream returns nil: all that was read has been written, to its end.
StreamEnds(r) ==
    /\ pc[r] = "streaming"
    /\ shown[r] = counted[r]
    /\ result' = [result EXCEPT ![r] = counted[r]]
    /\ GoTo(r, "succeeded")
    /\ UNCHANGED <<breaker, client, walk, counted, shown, earlier, suspect>>

\* ProxyStream returns an error, and a count that was read without a lock: the body
\* breaks off, the context is done, or a write fails: a write past the deadline
\* does, and then net/http ends the context.
StreamBreaks(r) ==
    /\ pc[r] = "streaming"
    /\ \E n \in shown[r]..counted[r] : result' = [result EXCEPT ![r] = n]
    /\ \/ UNCHANGED client
       \/ client[r] = "late" /\ client' = [client EXCEPT ![r] = "gone"]
    /\ FailAttempt(r)
    /\ UNCHANGED <<breaker, walk, counted, shown, earlier>>

------------------------------------------------------------------------------
(* SettleQuota or DeductQuota, Collect, and the end of the handler *)

Bill(r) ==
    /\ pc[r] = "billing"
    /\ Return(r)

------------------------------------------------------------------------------
(* The client *)

\* It disconnects.
Leave(r) ==
    /\ pc[r] # "idle"
    /\ client[r] # "gone"
    /\ client' = [client EXCEPT ![r] = "gone"]
    /\ UNCHANGED <<breaker, pc, walk, answer, suspect>>

\* The server's write timeout, which runs from the request's header on, passes.
Expire(r) ==
    /\ pc[r] # "idle"
    /\ client[r] = "there"
    /\ client' = [client EXCEPT ![r] = "late"]
    /\ UNCHANGED <<breaker, pc, walk, answer, suspect>>

HandlerStep(r) ==
    \/ TurnAway(r) \/ Dispatch(r) \/ ReserveFails(r) \/ Reserve(r)
    \/ Admit(r) \/ Refuse(r) \/ ReportSuccess(r) \/ ReportFailure(r) \/ Exhausted(r)
    \/ CallFails(r) \/ Respond(r) \/ Answer(r) \/ Count(r) \/ Deliver(r)
    \/ StreamEnds(r) \/ StreamBreaks(r)
    \/ Bill(r)

Next == \E r \in Requests : Arrive(r) \/ HandlerStep(r) \/ Leave(r) \/ Expire(r)

Spec == Init /\ [][Next]_vars

\* Handlers are scheduled, and each of their calls ends: Redis and HTTP calls have
\* timeouts, and so has a body that is being read.
Fairness == \A r \in Requests : WF_vars(HandlerStep(r))

FairSpec == Spec /\ Fairness

------------------------------------------------------------------------------
(* Properties *)

\* requirements.md:89, design.md:1933 (property 21): what is settled for a stream is
\* what was consumed.  So it is no less than what the client was written, of every
\* answer that was begun: when one breaks off, the next key's follows it in the
\* same stream.
BillsConsumption ==
    \A r \in Requests : pc[r] = "billing" => result[r] >= earlier[r] + shown[r]

\* What is left of BillsConsumption, which the code breaks: a request is billed for
\* the LAST answer that an upstream gave it, for all that its client was written of
\* it and nothing that was not read, although the call may have been interrupted,
\* and although attempts that got no answer may have followed.
BillsLastAnswer ==
    \A r \in Requests : pc[r] = "billing" => result[r] \in shown[r]..counted[r]

\* A breaker leaves the closed state only for what happened to an attempt on its
\* own key: whatever fails at other keys of a request, before or after.
WellKeysStayClosed == \A k \in Keys : state[k] # "closed" => k \in suspect

\* Every request ends, with every attempt that the breaker admitted reported to it
\* (one that was not would hold a probe of a half-open key for ever).
EveryRequestEnds ==
    \A r \in Requests : pc[r] # "idle" ~> pc[r] = "idle" /\ inflight[r] = NoKey
==============================================================================
