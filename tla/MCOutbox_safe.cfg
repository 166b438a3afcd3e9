CONSTANTS
  Job = {j1}
  Event = {e1, e2}
  Dispatcher = {d1, d2}
  None = None
  MaxAttempts = 2
  Capacity = 2
  MaxDeliveries = 0
  MaxCopies = 1
SYMMETRY Interchangeable
SPECIFICATION Spec
CHECK_DEADLOCK FALSE
INVARIANTS
  OutboxInv
  PublishedMeansConfirmed
PROPERTIES
  KeptClaimIsRecorded
