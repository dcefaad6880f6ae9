------------------------------- MODULE MCReplay -------------------------------
(***************************************************************************)
(* Two calls next to each other and to the clients of the gateway.         *)
(***************************************************************************)
EXTENDS Replay

CONSTANTS run1, run2

MCRuns == {run1, run2}
==============================================================================
