SPECIFICATION Spec
CONSTANTS
  MaxRetries = 2
  QueueBound = 2
  StallTicks = 1
  MaxChunks = 3
INVARIANTS
  SilenceIsExplained
  AbortIsHeard
PROPERTIES
  ImplementsDelivery
  StreamEnds
  ReadersEnd
CHECK_DEADLOCK FALSE
