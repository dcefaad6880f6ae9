--------------------------- MODULE AbstractAccount ---------------------------
(***************************************************************************)
(* What the quota promises to the owner of an account, without Redis,      *)
(* reservations, contexts or faults: a deduction fits what is left, and a  *)
(* stream is charged only within the grant it was opened with.  A grant is *)
(* a number of charges, and is given only while nothing is overdrawn.  It  *)
(* is not a number of tokens, so that a stream may overdraw the account,   *)
(* which the documents forbid (Quota!NeverOverdrawn).                      *)
(***************************************************************************)
EXTENDS Integers

CONSTANTS
    Keys,           \* accounts: users, apps and models
    Requests,       \* slots for concurrent requests
    Path,           \* Path[r]: the accounts a request is charged to
    Total,          \* Total[k]: what an account may use
    MaxActual,      \* the most a request uses
    Charges         \* charges of a grant

VARIABLES
    used,           \* what each account has used
    grant           \* charges that a request has left

vars == <<used, grant>>

TypeOK ==
    /\ used \in [Keys -> Nat]
    /\ grant \in [Requests -> 0..Charges]

Init ==
    /\ used = [k \in Keys |-> 0]
    /\ grant = [r \in Requests |-> 0]

Add(r, tokens) ==
    used' = [k \in Keys |-> IF k \in Path[r] THEN used[k] + tokens ELSE used[k]]

\* A stream is opened.
Open(r) ==
    /\ grant[r] = 0
    /\ \A k \in Path[r] : used[k] <= Total[k]
    /\ grant' = [grant EXCEPT ![r] = Charges]
    /\ UNCHANGED used

\* It is charged, and may be charged again as long as its grant lasts.
Charge(r) ==
    /\ grant[r] > 0
    /\ \E tokens \in 0..MaxActual : Add(r, tokens)
    /\ grant' \in {[grant EXCEPT ![r] = @ - 1], [grant EXCEPT ![r] = 0]}

\* It is over, charged or not.
Close(r) ==
    /\ grant[r] > 0
    /\ grant' = [grant EXCEPT ![r] = 0]
    /\ UNCHANGED used

\* Any other request is charged for what it has used.
Deduct(r) ==
    /\ \E tokens \in 0..MaxActual :
        /\ \A k \in Path[r] : used[k] + tokens <= Total[k]
        /\ Add(r, tokens)
    /\ UNCHANGED grant

Next == \E r \in Requests : Open(r) \/ Charge(r) \/ Close(r) \/ Deduct(r)

Spec == Init /\ [][Next]_vars
==============================================================================
