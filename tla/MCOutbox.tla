------------------------------ MODULE MCOutbox ------------------------------
(***************************************************************************)
(* Instances of Outbox for TLC: dispatchers and rows are interchangeable.  *)
(***************************************************************************)
EXTENDS Outbox, TLC

Interchangeable == Permutations(Dispatcher) \cup Permutations(Event)
=============================================================================
