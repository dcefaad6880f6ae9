------------------------------ MODULE MCGateway ------------------------------
(***************************************************************************)
(* A stream and a unary request next to each other.  Both keys of the      *)
(* model may be offered, or only the second if the first is not active.    *)
(***************************************************************************)
EXTENDS Gateway

CONSTANTS k1, k2, stream, unary

MCKeys == {k1, k2}
MCRequests == {stream, unary}
MCStreaming == {stream}
MCWalks == {<<k1, k2>>, <<k2>>}
==============================================================================
