CONSTANTS
  j1 = j1
  j2 = j2
  None = None
  Job = {j1}
  Worker = {w1, w2}
  Kind <- Video
  SlotLimit = 1
  MaxRetries = 1
  MaxEpoch = 6
SPECIFICATION FairSpec
CHECK_DEADLOCK FALSE
INVARIANTS
  AtMostOneGeneration
  FailedMeansStopped
  OneAssetPerCompletedJob
PROPERTIES
  NoSubmissionAfterCancel
  UnknownNeedsEvidence
  EveryJobSettles
