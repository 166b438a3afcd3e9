CONSTANTS
  j1 = j1
  j2 = j2
  None = None
  Job = {j1, j2}
  Worker = {w1}
  Kind <- ImageAndVideo
  SlotLimit = 1
  MaxRetries = 1
  MaxEpoch = 3
SPECIFICATION Spec
CHECK_DEADLOCK FALSE
INVARIANTS
  UpstreamWithinCapacity
  IInv
PROPERTIES
  ImplementsContract
