----------------------------- MODULE MCAdmission -----------------------------
(***************************************************************************)
(* What decides whether a request is served, and with which key: the rate  *)
(* limiter and, side by side, the failover of MCFailover.  Neither sees    *)
(* the state of the other, so every behaviour moves one of them and leaves *)
(* the other as it was at the start.                                       *)
(*                                                                         *)
(* The limiter runs in two gateways whose clocks differ by a second, and   *)
(* serves one user and one app (two dimensions).  The app's bucket holds a *)
(* single token, so calls that the user's bucket has let pass are refused. *)
(* A bucket charged at the start expires with the last tick of the time    *)
(* explored, and is charged again after it.                                *)
(***************************************************************************)
EXTENDS MCFailover, RateLimiter

CONSTANTS user, app, c1, c2

MCBucketKeys == {user, app}
MCCallers == {c1, c2}
MCBucketsOf == [c \in MCCallers |-> <<user, app>>]
MCCapacity == [k \in MCBucketKeys |-> IF k = user THEN 2 ELSE 1]
MCRate == [k \in MCBucketKeys |-> IF k = user THEN 2 ELSE 1]
MCSkew == [c \in MCCallers |-> IF c = c1 THEN 0 ELSE 1]

VARIABLE part   \* the part that this behaviour moves

AdmissionInit == Init /\ LimiterInit /\ part \in {"limiter", "failover"}

AdmissionNext ==
    /\ \/ part = "limiter" /\ LimiterNext /\ UNCHANGED vars
       \/ part = "failover" /\ Next /\ UNCHANGED limiterVars
    /\ UNCHANGED part

AdmissionSpec == AdmissionInit /\ [][AdmissionNext]_<<vars, limiterVars, part>>
==============================================================================
