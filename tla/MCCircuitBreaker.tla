-------------------------- MODULE MCCircuitBreaker --------------------------
(* The circuit breaker instance checked by TLC: the callers are model     *)
(* values given in the .cfg files.                                          *)
EXTENDS CircuitBreaker
=============================================================================
