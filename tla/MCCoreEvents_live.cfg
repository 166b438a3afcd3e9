CONSTANTS
  Processor = {p1, p2}
  Version = {v1}
  None = None
  MaxAttempts = 2
  MaxEvents = 2
  MaxGeneration = 0
  Losable <- FirstEvent
SPECIFICATION FairSpec
PROPERTIES
  EveryEventIsAnswered
