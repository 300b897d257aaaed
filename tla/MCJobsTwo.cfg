CONSTANTS
  Nobody = Nobody
  NoJob = NoJob
  u1 = u1
  u2 = u2
  closer = closer
  Job <- TwoJobs
  Caller <- OneCaller
  Closer = closer
  Operation = {"recover"}
  MaxTerminal = 2
  MaxInstance = 2
  MaxFaults = 1
  Profile = "plain"
SPECIFICATION Spec
INVARIANTS
  OneUnresolved
PROPERTIES
  QuarantineHolds
