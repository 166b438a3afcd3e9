-------------------------- MODULE MCCircuitBreaker --------------------------
(***************************************************************************)
(* The module TLC runs for CircuitBreaker: the .cfg files give the         *)
(* constants their values, and nothing more is needed.                     *)
(***************************************************************************)
EXTENDS CircuitBreaker
=============================================================================
