SPECIFICATION Spec
CONSTANTS
  MaxTurns = 2
  MaxBatch = 2
  MaxRuns = 2
  KeepRecent = 3
  Strategy = "summarise"
  Escapes = TRUE
INVARIANTS
  RequestPaired
  AbortIsPrompt
  RequestsPerTurn
  DoneOnce
PROPERTIES
  ImplementsExchange
