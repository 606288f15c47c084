SPECIFICATION Spec
CONSTANTS
  Threads = {t1, t2, t3}
  NoThread = NoThread
  Calls <- MCCalls
  MaxRuns = 2
  MaxUses = 1
SYMMETRY ThreadSymmetry
INVARIANTS
  LeaseIsExclusive
  OwnOutputs
  AbortIsScoped
  LateChangesCleared
