CONSTANTS
  Nobody = Nobody
  NoJob = NoJob
  u1 = u1
  u2 = u2
  closer = closer
  Job <- OneJob
  Caller <- OneCaller
  Closer = closer
  Operation = {"get"}
  MaxTerminal = 2
  MaxInstance = 1
  MaxFaults = 1
  Profile = "plain"
SPECIFICATION Spec
INVARIANTS
  RunningIsMonitored
