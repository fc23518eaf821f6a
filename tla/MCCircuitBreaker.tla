-------------------------- MODULE MCCircuitBreaker --------------------------
(* Small instances of the circuit breaker: one provider, whose calls are    *)
(* enough to hold every probe slot and leave one more caller outside.       *)
EXTENDS CircuitBreaker, TLC
=============================================================================
