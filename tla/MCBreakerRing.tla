---------------------------- MODULE MCBreakerRing ----------------------------
(***************************************************************************)
(* The breaker of MCBreaker and, side by side, a ring of buckets of the    *)
(* same size next to its exact log.  Nothing connects the two, so every    *)
(* behaviour moves one of them and leaves the other as it was at the start *)
(* (with its clock at zero).                                               *)
(*                                                                         *)
(* A second has two ticks.  The ring is fed with every order of outcomes   *)
(* and gaps, from every phase of the clock.                                *)
(***************************************************************************)
EXTENDS MCBreaker, WindowAccuracy

VARIABLE part   \* the part that this behaviour moves

BreakerRingInit ==
    /\ Init
    /\ RingInit
    /\ \/ part = "breaker" /\ now = 0
       \/ part = "ring" /\ clock = 0

BreakerRingNext ==
    /\ \/ part = "breaker" /\ Next /\ UNCHANGED ringVars
       \/ part = "ring" /\ RingNext /\ UNCHANGED vars
    /\ UNCHANGED part

BreakerRingSpec ==
    /\ BreakerRingInit
    /\ [][BreakerRingNext]_<<vars, ringVars, part>>
    /\ part = "breaker" => Fairness
==============================================================================
