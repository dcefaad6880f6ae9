----------------------------- MODULE MCRouteTable -----------------------------
(***************************************************************************)
(* A gateway, a model whose rule is stored at the start and one that comes *)
(* later, each with a writer.  Both versions of the first rule have a      *)
(* failed key whose upstream is well, the first also one that may not be.  *)
(***************************************************************************)
EXTENDS RouteTable

CONSTANTS g1, w1, w2, m1, m2, well, unwell

MCWrites == [w \in {w1, w2} |-> IF w = w1 THEN {m1} ELSE {m2}]
MCInitialStore == [m \in {m1, m2} |-> IF m = m1 THEN 1 ELSE 0]
MCFailedIn ==
    [m \in {m1, m2} |->
        [v \in Versions |-> CASE v = 0 \/ m = m2 -> {}
                              [] v = 1 -> {well, unwell}
                              [] OTHER -> {well}]]
==============================================================================
