CONSTANTS
  NoJob = NoJob
  j1 = j1
  j2 = j2
  j3 = j3
  Job <- MCJob
  MaxTerminal = 1
  MaxInstance = 2
  Profile = "k8s-kind"
SPECIFICATION WorkerFairSpec
INVARIANTS
  TypeOK
  OneVisibleOperation
PROPERTIES
  OldestResultGoesFirst
  ResultIsFinal
  OperationEnds
  CloseWaitsForExecutor
CHECK_DEADLOCK FALSE
