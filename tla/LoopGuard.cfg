SPECIFICATION GuardSpec
CONSTANTS
  Calls <- MCCalls
  Tools <- MCTools
  Targets <- MCTargets
  ToolOf <- MCToolOf
  TargetOf <- MCTargetOf
  ToolAt <- MCToolAt
  Role <- MCRole
  Forgets <- MCForgets
  DupLookback = 1
  CycleLookback = 3
  ErrStreakLimit = 1
  ConsecutiveErrorLimit = 2
  MaxApprovedRepeats = 2
  FailureBound = 2
INVARIANTS
  ErrorMemoryIsLive
  OverridesAreBounded
PROPERTIES
  StuckUntilCleared
