CONSTANTS
  config = config
  deployment = deployment
  check = check
  NoTarget = NoTarget
  Target <- MCTarget
  Checked <- MCChecked
  Documents <- MCDocuments
  Observed <- MCObserved
  Probe = check
  MaxRuns = 2
  MaxOutside = 2
SPECIFICATION FairSpec
INVARIANTS
  OwnsOnlyItsOwn
  CleanupLeavesOnlyLate
  SuccessLeavesNothing
PROPERTIES
  DeletesOnlyItsOwn
  RunEnds
CHECK_DEADLOCK FALSE
