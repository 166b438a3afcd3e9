---------------------------- MODULE MCCoreEvents ----------------------------
(* Instances of CoreEvents for TLC.                                        *)
EXTENDS CoreEventsInvariant, TLC

Processors == Permutations(Processor)

\* The first event's receipt may get lost; the others keep theirs.
FirstEvent == {1}
=============================================================================
