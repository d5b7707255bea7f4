SPECIFICATION Spec
CONSTANTS
  Nodes = {"a", "b", "c"}
  Names = {"a", "b", "c"}
  Host <- MCHost
  Self <- MCSelf
  Forwarders = {"f1", "f2"}
  Quarrels <- MCQuarrels
  NumForwards = 1
  MaxRounds = 2
  MaxFaults = 1
  None = None
INVARIANTS
  TypeOK
  
  NoFaultNoSuspicion
  AckMeansHandled
PROPERTIES
  OnlyItselfListsItself
  CallsEnd
  Refutes
CHECK_DEADLOCK FALSE
