------------------------------- MODULE MCStream -------------------------------
(***************************************************************************)
(* A request that two upstreams answer, the second after the first failed, *)
(* with keys that begin alike: both streams have the same session id.  The *)
(* first upstream sends up to three chunks of any kind, so that its reader *)
(* may outlive its call; the second only ends, or fails to.                *)
(***************************************************************************)
EXTENDS StreamProxy

MCSession == [a \in Attempts |-> "request-sk-proj-"]
MCMaxChunks == <<3, 0>>
MCUsage == [prompt |-> 5, completion |-> 1]
==============================================================================
