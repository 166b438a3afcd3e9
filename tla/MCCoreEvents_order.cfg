CONSTANTS
  Processor = {p1, p2}
  Version = {v1}
  None = None
  MaxAttempts = 2
  MaxEvents = 2
  MaxGeneration = 1
  Losable <- FirstEvent
SYMMETRY Processors
SPECIFICATION Spec
INVARIANTS
  EInv
  QuarantineNeedsDamage
PROPERTIES
  DeadLetterHoldsTheRun
  ImplementsOrderedDelivery
