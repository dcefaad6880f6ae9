------------------------------ MODULE MCFailover ------------------------------
(***************************************************************************)
(* Two requests for a model with three keys, one of which has failed,     *)
(* balanced in turn, that falls back to an alternative model and to a      *)
(* fallback model that has no rule; an update of the model's rule drops a  *)
(* key and balances at random.  The alternative shares a key with it.      *)
(***************************************************************************)
EXTENDS Failover, TLC

CONSTANTS main, alternative, fallback, v1, v2, a1, k1, k2, k3, r1, r2

MCModels == {main, alternative, fallback}
MCRules == {v1, v2, a1}
MCModelOf == [v \in MCRules |-> CASE v = a1 -> alternative [] OTHER -> main]
MCAPIKeys == [v \in MCRules |-> CASE v = v1 -> <<k1, k2, k3>> [] v = v2 -> <<k2, k1>> [] OTHER -> <<k3>>]
MCInitialStatus ==
    [v \in MCRules |-> CASE v = v1 -> <<"active", "failed", "active">>
                         [] v = v2 -> <<"cooldown", "active">>
                         [] OTHER -> <<"active">>]
MCChain == <<[level |-> 1, model |-> main], [level |-> 2, model |-> alternative],
             [level |-> 3, model |-> fallback]>>
MCLoaded == [m \in MCModels |-> CASE m = main -> v1 [] m = alternative -> a1 [] OTHER -> NoRule]
MCSymmetry == Permutations({r1, r2})
MCFallbackChain == [v \in MCRules |-> IF v \in {v1, v2} THEN MCChain ELSE <<>>]
==============================================================================
