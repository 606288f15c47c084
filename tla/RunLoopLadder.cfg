SPECIFICATION Spec
CONSTANTS
  MaxTurns = 3
  MaxBatch = 2
  MaxRuns = 1
  KeepRecent = 3
  Strategy = "ladder"
  Escapes = FALSE
INVARIANTS
  NotRunIsTrue
PROPERTIES
  RunEnds
  AbortEndsRun
