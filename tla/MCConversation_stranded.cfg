CONSTANTS
  MaxMessages = 2
  Dispatcher = {d1}
  None = None
  ReviewRetries = 0
  MaxFaults = 0
  Contents <- PlainMessages
SPECIFICATION FairSpec
CHECK_DEADLOCK FALSE
PROPERTIES
  NoRunIsStranded
