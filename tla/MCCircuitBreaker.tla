---------------------------- MODULE MCCircuitBreaker --------------------------
(***************************************************************************)
(* Model checking of CircuitBreaker: a threshold of 2 with rates on and    *)
(* just above it, a timeout of two ticks and a history of three entries,   *)
(* so that the deque overflows within three openings.                      *)
(***************************************************************************)
EXTENDS CircuitBreaker
===============================================================================
