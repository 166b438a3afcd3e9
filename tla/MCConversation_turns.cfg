CONSTANTS
  MaxMessages = 3
  Dispatcher = {d1, d2}
  None = None
  ReviewRetries = 1
  MaxFaults = 1
  Contents <- ThreeMessages
SPECIFICATION FairSpec
CHECK_DEADLOCK FALSE
INVARIANTS
  ConversationInv
  PlannedWithEverythingSaid
  TerminalMeansSettled
PROPERTIES
  NothingIsSubmittedAfterStop
  EveryMessageIsTaken
  EveryRunComesToRest
