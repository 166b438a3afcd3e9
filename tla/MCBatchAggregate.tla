-------------------------- MODULE MCBatchAggregate --------------------------
(***************************************************************************)
(* Instances of BatchAggregate for TLC.                                    *)
(***************************************************************************)
EXTENDS BatchAggregate, TLC

\* Ids do not follow the batches: the first and the last child share one.
TwoBatches == [c \in 1..4 |-> IF c \in {1, 4} THEN 1 ELSE 2]

Sessions == Permutations(Transaction)
=============================================================================
