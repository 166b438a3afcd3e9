CONSTANTS
  Task = {t1}
  Worker = {w1, w2}
  None = None
  Quote = 2
  Costs = {1, 3}
  MaxGrant = 2
  Limit = 2
  MaxRetries = 1
  MaxFaults = 1
SPECIFICATION Spec
CHECK_DEADLOCK FALSE
INVARIANTS
  ExecInv
  BillMatchesVerdict
  PublishedAsPromised
PROPERTIES
  CancelledIsNotSent
  ImplementsTaskContract
