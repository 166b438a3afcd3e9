CONSTANTS
  Job = {j1}
  Event = {e1}
  Dispatcher = {d1}
  None = None
  MaxAttempts = 2
  Capacity = 1
  MaxDeliveries = 1
  MaxCopies = 1
SPECIFICATION FairSpec
CHECK_DEADLOCK FALSE
PROPERTIES
  EveryDueJobIsWoken
  EveryEventSettles
