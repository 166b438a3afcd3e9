CONSTANTS
  Caller = {c1, c2}
  None = None
  Budget = 1
  Slack = 2
  Cooldown = 2
  MaxRetryAfter = 1
  Recovery = 2
  RampStep = 1
  WindowLength = 2
  MinCalls = 2
  Threshold = 50
  MaxWindow = 3
SPECIFICATION FairSpec
CHECK_DEADLOCK FALSE
INVARIANTS
  BreakerInv
  OneProbeInFlight
PROPERTIES
  StaleOutcomesAreIgnored
  TripsOnRecentCalls
  EveryOpenCircuitIsProbed
