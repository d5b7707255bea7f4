SPECIFICATION Spec
CONSTANTS
  Starts = {s1, s2, s3}
  First = s1
  Rounds = {report, collect}
  MaxInits = 2
INVARIANTS
  BindSucceeds
CHECK_DEADLOCK FALSE
