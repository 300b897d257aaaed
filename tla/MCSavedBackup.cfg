SPECIFICATION Spec
CONSTANTS
  Client = {c1, c2}
  Text = {t1, t2}
  Lesson = {l1}
  Limit = 2
  MaxOps = 2
  MaxFaults = 1
  None = None
INVARIANTS
  BackupsAreWhole
CHECK_DEADLOCK FALSE
