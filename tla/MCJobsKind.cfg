CONSTANTS
  Nobody = Nobody
  NoJob = NoJob
  u1 = u1
  u2 = u2
  closer = closer
  Job <- OneJob
  Caller <- OneCaller
  Closer = closer
  Operation = {"get", "cancel"}
  MaxTerminal = 2
  MaxInstance = 2
  MaxFaults = 2
  Profile = "k8s-kind"
SPECIFICATION Spec
INVARIANTS
  StopReachesOperation
