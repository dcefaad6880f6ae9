------------------------------ MODULE MCBreaker ------------------------------
(***************************************************************************)
(* One key (keys share nothing but the clock) and three concurrent         *)
(* attempts: enough for two probes of a half-open period to run beside an  *)
(* attempt admitted before the breaker opened.  As in the shipped          *)
(* configuration the half-open timeout is longer than the window.          *)
(***************************************************************************)
EXTENDS CircuitBreaker

ASSUME OutlastsWindow == HalfOpenTimeout > Window
==============================================================================
