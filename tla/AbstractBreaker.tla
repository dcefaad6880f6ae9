--------------------------- MODULE AbstractBreaker ---------------------------
(***************************************************************************)
(* What the circuit breaker promises to the failover loop, without clocks, *)
(* buckets or error rates: a closed key admits everything, an open key     *)
(* admits nothing until a probe is let through, and a half-open key admits *)
(* a bounded number of probes, whose outcomes may close it.                *)
(*                                                                         *)
(* When a breaker opens, when it lets the first probe through and which    *)
(* outcome closes it are left to the implementation.                       *)
(***************************************************************************)
EXTENDS Integers

CONSTANTS
    Keys,           \* API keys guarded by a breaker
    Requests,       \* slots for attempts in flight
    NoKey,          \* the slot is free
    MaxRequests     \* CircuitBreakerConfig.MaxRequests

VARIABLES
    state,          \* breaker state of each key
    probes,         \* probes admitted in the current half-open period
    inflight        \* the key an attempt holds, admitted and not yet recorded

vars == <<state, probes, inflight>>

CircuitState == {"closed", "open", "halfOpen"}

\* An open key is granted one probe, and a half-open one MaxRequests more.
ProbeLimit == MaxRequests + 1

TypeOK ==
    /\ state \in [Keys -> CircuitState]
    /\ probes \in [Keys -> 0..ProbeLimit]
    /\ inflight \in [Requests -> Keys \union {NoKey}]

Init ==
    /\ state = [k \in Keys |-> "closed"]
    /\ probes = [k \in Keys |-> 0]
    /\ inflight = [r \in Requests |-> NoKey]

\* Mutant of Admit: a half-open key is granted one probe too many.
AdmitOneMore(r, k) ==
    /\ inflight[r] = NoKey
    /\ inflight' = [inflight EXCEPT ![r] = k]
    /\ \/ state[k] = "closed" /\ UNCHANGED <<state, probes>>
       \/ /\ state[k] = "open"
          /\ state' = [state EXCEPT ![k] = "halfOpen"]
          /\ probes' = [probes EXCEPT ![k] = 1]
       \/ /\ state[k] = "halfOpen" /\ probes[k] <= ProbeLimit
          /\ probes' = [probes EXCEPT ![k] = @ + 1]
          /\ UNCHANGED state

Admit(r, k) ==
    /\ inflight[r] = NoKey
    /\ inflight' = [inflight EXCEPT ![r] = k]
    /\ \/ /\ state[k] = "closed"
          /\ UNCHANGED <<state, probes>>
       \/ /\ state[k] = "open"
          /\ state' = [state EXCEPT ![k] = "halfOpen"]
          /\ probes' = [probes EXCEPT ![k] = 1]
       \/ /\ state[k] = "halfOpen"
          /\ probes[k] < ProbeLimit
          /\ probes' = [probes EXCEPT ![k] = @ + 1]
          /\ UNCHANGED state

\* A success may close a half-open key, and nothing else moves.
Succeed(r, k) ==
    /\ inflight[r] = k
    /\ inflight' = [inflight EXCEPT ![r] = NoKey]
    /\ \/ UNCHANGED <<state, probes>>
       \/ /\ state[k] = "halfOpen"
          /\ state' = [state EXCEPT ![k] = "closed"]
          /\ probes' = [probes EXCEPT ![k] = 0]

\* A failure may open a closed key, and nothing else moves.
Fail(r, k) ==
    /\ inflight[r] = k
    /\ inflight' = [inflight EXCEPT ![r] = NoKey]
    /\ UNCHANGED probes
    /\ \/ UNCHANGED state
       \/ /\ state[k] = "closed"
          /\ state' = [state EXCEPT ![k] = "open"]

Next == \E r \in Requests, k \in Keys : Admit(r, k) \/ Succeed(r, k) \/ Fail(r, k)

Spec == Init /\ [][Next]_vars
==============================================================================
