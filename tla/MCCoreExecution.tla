-------------------------- MODULE MCCoreExecution --------------------------
(* Instances of CoreExecution for TLC.                                     *)
EXTENDS CoreExecutionInvariant

=============================================================================
