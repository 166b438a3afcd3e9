CONSTANTS
  Task = {t1}
  Worker = {w1}
  None = None
  Quote = 2
  Costs = {1, 3}
  MaxGrant = 2
  Limit = 2
  MaxRetries = 1
  MaxFaults = 2
SPECIFICATION FairSpec
CHECK_DEADLOCK FALSE
PROPERTIES
  EveryTaskSettles
