SPECIFICATION Spec
CONSTANTS
  World = 2
  Epochs = 2
  MaxAttempts = 2
  MaxJobs = 2
  MaxFaults = 2
INVARIANTS
  MarkedIsLoadable
  CommittedEpochIsWhole
  PlainErrorMeansUnpublished
  NoRankIsStuck
  CompletedIsFinalAndUnretried
PROPERTIES
  CheckpointsFormChain
CHECK_DEADLOCK FALSE
