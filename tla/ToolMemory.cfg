SPECIFICATION Spec
CONSTANTS
  Calls <- MCCalls
  Tools <- MCTools
  Targets <- MCTargets
  ToolOf <- MCToolOf
  TargetOf <- MCTargetOf
  ToolAt <- MCToolAt
  Role <- MCRole
  Forgets <- MCForgets
  DupLookback = 2
  CycleLookback = 1
  ErrStreakLimit = 1
  ConsecutiveErrorLimit = 2
  MaxApprovedRepeats = 1
  FailureBound = 2
  Files <- MCFiles
  Values = {"old", "x", "torn"}
  Torn = "torn"
  FileOf <- MCFileOf
  PathOf <- MCPathOf
  Writes <- MCWrites
  Keyed <- MCKeyed
  Strategy = "ladder"
  Escapes = TRUE
INVARIANTS
  ChangedFileIsReread
  CachedIsKept
