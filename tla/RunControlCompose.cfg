SPECIFICATION Spec
CONSTANTS
  Threads = {t1, t2}
  NoThread = NoThread
  Calls <- MCCalls
  MaxRuns = 2
  MaxUses = 1
INVARIANTS
  ComposedBetweenRuns
