------------------------------- MODULE MCQuota -------------------------------
(***************************************************************************)
(* Three concurrent requests of one user, two of them in one app and one   *)
(* in another: every key is shared, and the apps have different totals.    *)
(***************************************************************************)
EXTENDS Quota, TLC

CONSTANTS user, app1, app2, r1, r2, r3

MCKeys == {user, app1, app2}
MCRequests == {r1, r2, r3}
MCPath == [r \in MCRequests |-> IF r = r3 THEN {user, app2} ELSE {user, app1}]
MCSymmetry == Permutations({r1, r2})
MCTotal == [k \in MCKeys |-> IF k = app2 THEN 1 ELSE 2]
==============================================================================
