SPECIFICATION Spec
CONSTANTS
  Clients = {c1}
  MaxEvents = 2
INVARIANTS
  TypeOK
  OneOutcome
  OnlyWriteFollows
  AnswerIsTrue
  NoCallAfterJoin
PROPERTIES
  OutcomeComes
  LoopEnds
  RequestAnswered
  ShutdownEnds
CHECK_DEADLOCK FALSE
