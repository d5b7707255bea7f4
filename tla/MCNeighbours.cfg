SPECIFICATION Spec
CONSTANTS
  Servers = {1, 2, 3}
  Self = 2
  Full = "full"
  Single = "single"
  ReportCounts = {0, 1, 3}
  ForwardCounts = {1}
  MaxChanges = 1
  MaxSize = 3
  None = None
INVARIANTS
  TypeOK
  Chosen
  InTurn
  ThrowsOnlyIfEmptied
PROPERTIES
  SelectionEnds
  EveryoneReported
CHECK_DEADLOCK FALSE
