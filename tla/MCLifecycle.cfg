SPECIFICATION FairSpec
CONSTANTS
  Starts = {s1, s2, s3}
  First = s1
  Rounds = {report, collect}
  MaxInits = 2
INVARIANTS
  OneLoop
  Drained
  StopHeard
PROPERTIES
  DrainTerminates
  StopEnds
CHECK_DEADLOCK FALSE
