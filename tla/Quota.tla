-------------------------------- MODULE Quota --------------------------------
(***************************************************************************)
(* internal/quota/manager.go as internal/handler/chat.go drives it: token  *)
(* quotas of users, apps and models in Redis hashes, a reservation around  *)
(* every streaming request, and a deduction after every other request.     *)
(*                                                                         *)
(* Each Lua script is atomic and touches the three keys of a request.      *)
(* Between scripts the request does other calls, its client may go away    *)
(* (every later Redis call then fails, because the handler passes the      *)
(* request's context), Redis may fail, and a reply may be lost, after      *)
(* which the Redis client sends the script again.                          *)
(***************************************************************************)
EXTENDS Integers, FiniteSets

CONSTANTS
    Keys,           \* Redis keys "quota:<level>:<identifier>"
    Requests,       \* slots for concurrent requests
    Path,           \* Path[r]: the keys a request is charged to
    Total,          \* Total[k]: hash field "total", 0 if the key is missing
    Estimate,       \* tokens reserved for a stream
    MaxActual,      \* BOUND: tokens one request uses
    MaxRetries      \* BOUND: retries of one script by the Redis client

ASSUME QuotaAssumption ==
    /\ IsFiniteSet(Requests)
    /\ Path \in [Requests -> SUBSET Keys]
    /\ Total \in [Keys -> Nat]
    /\ MaxActual \in Nat
    /\ MaxRetries \in Nat

\* handleStream always reserves an estimate of zero tokens.
ASSUME EstimateAssumption == Estimate = 0

VARIABLES
    used,           \* hash field "used"
    reserved,       \* hash field "reserved"
    pc,             \* where the request is
    cancelled,      \* its context is done: the client has disconnected
    record,         \* "reservation:<id>" is in Redis
    actual,         \* tokens its response used
    retries,        \* retries of the script it is running
    unsettled       \* HISTORY: its last stream used tokens, and could not be settled
                    \* because its client had gone

balances == <<used, reserved>>
vars == <<balances, pc, cancelled, record, actual, retries, unsettled>>

Steps == {"idle", "reserving", "recording", "streaming", "finding", "settling",
          "serving", "deducting"}

\* The steps that are a script running in Redis.
Scripts == {"reserving", "settling", "deducting"}

TypeOK ==
    /\ used \in [Keys -> Nat]
    /\ reserved \in [Keys -> Int]
    /\ pc \in [Requests -> Steps]
    /\ cancelled \in [Requests -> BOOLEAN]
    /\ record \in [Requests -> BOOLEAN]
    /\ actual \in [Requests -> 0..MaxActual]
    /\ retries \in [Requests -> 0..MaxRetries]
    /\ unsettled \in [Requests -> BOOLEAN]

Init ==
    /\ used = [k \in Keys |-> 0]
    /\ reserved = [k \in Keys |-> 0]
    /\ pc = [r \in Requests |-> "idle"]
    /\ cancelled = [r \in Requests |-> FALSE]
    /\ record = [r \in Requests |-> FALSE]
    /\ actual = [r \in Requests |-> 0]
    /\ retries = [r \in Requests |-> 0]
    /\ unsettled = [r \in Requests |-> FALSE]

GoTo(r, step) ==
    /\ pc' = [pc EXCEPT ![r] = step]
    /\ retries' = [retries EXCEPT ![r] = 0]

\* The request is over: what it was doing is forgotten, except how it ended.
End(r, lost) ==
    /\ GoTo(r, "idle")
    /\ cancelled' = [cancelled EXCEPT ![r] = FALSE]
    /\ record' = [record EXCEPT ![r] = FALSE]
    /\ actual' = [actual EXCEPT ![r] = 0]
    /\ unsettled' = [unsettled EXCEPT ![r] = lost]

Charge(r, tokens) ==
    used' = [k \in Keys |-> IF k \in Path[r] THEN used[k] + tokens ELSE used[k]]

Hold(r, tokens) ==
    reserved' = [k \in Keys |-> IF k \in Path[r] THEN reserved[k] + tokens ELSE reserved[k]]

\* The tokens of a stream are lost with its client.
LostWithClient(r) ==
    cancelled[r] /\ pc[r] \in {"finding", "settling"} /\ retries[r] = 0 /\ actual[r] > 0

------------------------------------------------------------------------------
(* handleStream: ReserveQuota, the stream, SettleQuota *)

StartStream(r) ==
    /\ pc[r] = "idle"
    /\ GoTo(r, "reserving")
    /\ unsettled' = [unsettled EXCEPT ![r] = FALSE]
    /\ UNCHANGED <<balances, cancelled, record, actual>>

\* Mutant of CanReserve: one level with enough left is taken to be enough.
CanReserveAtOneLevel(r) == \E k \in Path[r] : Total[k] - used[k] - reserved[k] >= Estimate

\* Mutant of CanReserve: what is already used is not subtracted.
CanReserveIgnoresUsed(r) ==
    \A k \in Path[r] : Total[k] - reserved[k] >= Estimate

CanReserve(r) == \A k \in Path[r] : Total[k] - used[k] - reserved[k] >= Estimate

\* reserveQuotaScript succeeds.
Reserve(r) ==
    /\ pc[r] = "reserving"
    /\ ~cancelled[r]
    /\ CanReserve(r)
    /\ Hold(r, Estimate)
    /\ GoTo(r, "recording")
    /\ UNCHANGED <<used, cancelled, record, actual, unsettled>>

\* "insufficient quota": the handler answers 402.
ReserveRefused(r) ==
    /\ pc[r] = "reserving"
    /\ ~CanReserve(r)
    /\ End(r, FALSE)
    /\ UNCHANGED balances

\* The reservation is written with a TTL; a failure to write it is ignored.
RecordReservation(r) ==
    /\ pc[r] = "recording"
    /\ \/ UNCHANGED record
       \/ ~cancelled[r] /\ record' = [record EXCEPT ![r] = TRUE]
    /\ GoTo(r, "streaming")
    /\ UNCHANGED <<balances, cancelled, actual, unsettled>>

\* The stream outlives the ten minutes of its reservation.
ReservationExpires(r) ==
    /\ pc[r] = "streaming"
    /\ record[r]
    /\ record' = [record EXCEPT ![r] = FALSE]
    /\ UNCHANGED <<balances, pc, cancelled, actual, retries, unsettled>>

\* ExecuteWithFailover returns, with what was streamed by then.
StreamEnds(r) ==
    /\ pc[r] = "streaming"
    /\ \E tokens \in 0..MaxActual : actual' = [actual EXCEPT ![r] = tokens]
    /\ GoTo(r, "finding")
    /\ UNCHANGED <<balances, cancelled, record, unsettled>>

\* SettleQuota reads the reservation back.
FindReservation(r) ==
    /\ pc[r] = "finding"
    /\ ~cancelled[r]
    /\ record[r]
    /\ GoTo(r, "settling")
    /\ UNCHANGED <<balances, cancelled, record, actual, unsettled>>

\* "reservation not found": the handler logs it.
ReservationLost(r) ==
    /\ pc[r] = "finding"
    /\ ~cancelled[r]
    /\ ~record[r]
    /\ End(r, FALSE)
    /\ UNCHANGED balances

\* Mutant of Settle: the difference is taken the wrong way round.
SettleSwapped(r) ==
    /\ pc[r] = "settling"
    /\ ~cancelled[r]
    /\ Hold(r, -Estimate)
    /\ Charge(r, Estimate - actual[r])
    /\ End(r, FALSE)

\* settleQuotaScript, which checks nothing, and the write of the settled
\* reservation, which nothing reads.
Settle(r) ==
    /\ pc[r] = "settling"
    /\ ~cancelled[r]
    /\ Hold(r, -Estimate)
    /\ Charge(r, actual[r])
    /\ End(r, FALSE)

------------------------------------------------------------------------------
(* handleNonStream: the response, then DeductQuota *)

StartUnary(r) ==
    /\ pc[r] = "idle"
    /\ GoTo(r, "serving")
    /\ unsettled' = [unsettled EXCEPT ![r] = FALSE]
    /\ UNCHANGED <<balances, cancelled, record, actual>>

\* The upstream has answered; nothing was asked of the quota before.
Serve(r) ==
    /\ pc[r] = "serving"
    /\ \E tokens \in 0..MaxActual : actual' = [actual EXCEPT ![r] = tokens]
    /\ GoTo(r, "deducting")
    /\ UNCHANGED <<balances, cancelled, record, unsettled>>

\* Every upstream attempt failed: a 502, and nothing to pay for.
ServeFails(r) ==
    /\ pc[r] = "serving"
    /\ End(r, FALSE)
    /\ UNCHANGED balances

\* Mutant of CanDeduct: tokens are deducted while any are left.
CanDeductAnyLeft(r) == \A k \in Path[r] : Total[k] - used[k] > 0

CanDeduct(r) == \A k \in Path[r] : Total[k] - used[k] >= actual[r]

\* deductQuotaScript succeeds.
Deduct(r) ==
    /\ pc[r] = "deducting"
    /\ ~cancelled[r]
    /\ CanDeduct(r)
    /\ Charge(r, actual[r])
    /\ End(r, FALSE)
    /\ UNCHANGED reserved

\* "insufficient quota": the handler logs it and sends the response.
DeductRefused(r) ==
    /\ pc[r] = "deducting"
    /\ ~CanDeduct(r)
    /\ End(r, FALSE)
    /\ UNCHANGED balances

------------------------------------------------------------------------------
(* Faults *)

\* The client disconnects: the context of the request is done from now on.
Disconnect(r) ==
    /\ pc[r] # "idle"
    /\ ~cancelled[r]
    /\ cancelled' = [cancelled EXCEPT ![r] = TRUE]
    /\ UNCHANGED <<balances, pc, record, actual, retries, unsettled>>

\* A Redis call of the request fails for good.  A stream that could not be
\* reserved is refused with a 402; anything else has been served.
RedisFails(r) ==
    /\ pc[r] \in Scripts \union {"finding"}
    /\ End(r, LostWithClient(r))
    /\ UNCHANGED balances

\* A script succeeds, its reply is lost and the Redis client sends it again.
LoseReply(r) ==
    /\ pc[r] \in Scripts
    /\ ~cancelled[r]
    /\ retries[r] < MaxRetries
    /\ retries' = [retries EXCEPT ![r] = @ + 1]
    /\ \/ pc[r] = "reserving" /\ CanReserve(r) /\ Hold(r, Estimate) /\ UNCHANGED used
       \/ pc[r] = "settling" /\ Hold(r, -Estimate) /\ Charge(r, actual[r])
       \/ pc[r] = "deducting" /\ CanDeduct(r) /\ Charge(r, actual[r]) /\ UNCHANGED reserved
    /\ UNCHANGED <<pc, cancelled, record, actual, unsettled>>

Next ==
    \E r \in Requests :
        \/ StartStream(r) \/ Reserve(r) \/ ReserveRefused(r) \/ RecordReservation(r)
        \/ ReservationExpires(r) \/ StreamEnds(r) \/ FindReservation(r) \/ ReservationLost(r)
        \/ Settle(r)
        \/ StartUnary(r) \/ Serve(r) \/ ServeFails(r) \/ Deduct(r) \/ DeductRefused(r)
        \/ Disconnect(r) \/ RedisFails(r) \/ LoseReply(r)

Spec == Init /\ [][Next]_vars

------------------------------------------------------------------------------
(* Properties *)

\* The most a settlement may still charge: every application of the script.
MaxBill == MaxActual * (1 + MaxRetries)

\* The requests that are charged to a key.
Sharers(k) == {r \in Requests : k \in Path[r]}

\* design.md:1939 (property 22): no request makes a quota negative; and
\* requirements.md:88, design.md:1927 (property 20): a stream's estimated tokens are
\* taken from the quota before it starts.  The code reserves an estimate of zero
\* (chat.go:231), so a stream starts on whatever is left, nothing included.
NeverOverdrawn == \A k \in Keys : used[k] <= Total[k]

\* What is left of NeverOverdrawn, which the code breaks: a quota is overdrawn by no
\* more than what the streams of all its requests together could use.  The
\* settlement script checks nothing, but a stream is only admitted while the quota
\* is not overdrawn, and nothing is given back.
OverdraftBounded ==
    \A k \in Keys : used[k] <= Total[k] + Cardinality(Sharers(k)) * MaxBill

\* The settlement script has run for the request in this step, and its reply has
\* arrived or was lost.
SettlementOf(r) == pc[r] = "settling" /\ (pc'[r] = "idle" \/ retries'[r] > retries[r])

\* Only the settlement of a stream takes a quota past its total: a deduction
\* never does, whatever settles, deducts or is sent twice next to it.
OnlyStreamsOverdraw ==
    [][\A k \in Keys : used'[k] > used[k] /\ used'[k] > Total[k] =>
            \E r \in Requests : k \in Path[r] /\ SettlementOf(r)]_vars

\* Charges that a stream has left: one for each time its settlement may be applied.
grant == [r \in Requests |->
    CASE pc[r] \in {"recording", "streaming", "finding"} -> 1 + MaxRetries
      [] pc[r] = "settling" -> 1 + MaxRetries - retries[r]
      [] OTHER -> 0]

Account == INSTANCE AbstractAccount
    WITH Charges <- 1 + MaxRetries, used <- used, grant <- grant

\* The scripts keep the promise made to the owner of the quota, although checks and
\* charges are apart and any of them may be lost, late or repeated: a stream charges
\* only under a grant that it got while nothing was overdrawn, at most once for each
\* run of its settlement, and a deduction always fits.  (The account lets streams
\* overdraw it, as NeverOverdrawn forbids: it is what the code does promise.)
ImplementsAccount == Account!Spec

\* requirements.md:89: when a stream ends its quota is settled with what it
\* used, also when it ends because the client has gone.
DisconnectedIsSettled == \A r \in Requests : ~unsettled[r]
==============================================================================
