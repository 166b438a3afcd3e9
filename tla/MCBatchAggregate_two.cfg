CONSTANTS
  Batch = {1, 2}
  Child = {1, 2, 3, 4}
  BatchOf <- TwoBatches
  Transaction = {t1, t2}
  Free = Free
SPECIFICATION Spec
CHECK_DEADLOCK FALSE
SYMMETRY Sessions
INVARIANTS
  BatchInv
  BatchAgreesWithChildren
  NoDeadlock
PROPERTIES
  BatchVerdictIsFinal
