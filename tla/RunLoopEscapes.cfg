SPECIFICATION Spec
CONSTANTS
  MaxTurns = 2
  MaxBatch = 1
  MaxRuns = 2
  KeepRecent = 3
  Strategy = "summarise"
  Escapes = TRUE
INVARIANTS
  NotRunIsTrue
