CONSTANTS
  Nobody = Nobody
  NoJob = NoJob
  u1 = u1
  u2 = u2
  closer = closer
  Job <- OneJob
  Caller <- TwoCallers
  Closer = closer
  Operation = {"get", "recover", "cancel"}
  MaxTerminal = 2
  MaxInstance = 2
  MaxFaults = 1
  Profile = "plain"
SPECIFICATION Spec
INVARIANTS
  JobsTypeOK
  UnresolvedReserved
  ReceiptTellsTheTruth
  ResolvedMeansOver
PROPERTIES
  ResolvedIsFinal
SYMMETRY CallerSymmetry
