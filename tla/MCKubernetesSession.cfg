SPECIFICATION FairSpec
CONSTANTS
  Id = {n1, n2, n3}
  NoId = NoId
  MaxOutside = 4
  MaxFaults = 4
INVARIANTS
  CleanedMeansNothingLeft
PROPERTIES
  RemovesOnlyOwnNode
  CredentialsOutliveNode
  ReleaseConverges
CHECK_DEADLOCK FALSE
