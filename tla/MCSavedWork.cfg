SPECIFICATION FairSpec
CONSTANTS
  Client = {c1, c2}
  Text = {t1, t2}
  Lesson = {l1, l2}
  Limit = 2
  MaxOps = 3
  MaxFaults = 1
  None = None
INVARIANTS
  GroupIsGone
  ReportedIsWhole
PROPERTIES
  UnstoppedIsWithinLimits
  FilesAreAtomic
  UpdatesAreKept
  PrunesOldest
  RunEnds
CHECK_DEADLOCK FALSE
