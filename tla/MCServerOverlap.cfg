CONSTANTS
  self = self
  a = a
  b = client
  client = client
  Absent = Absent
  Loop = loop
  Self = self
  Servers = {self, a, client}
  PortZero = {client}
  Workers = {worker}
  Collector = collector
  Messages = {"ping", "a_alive", "a_suspected"}
  Content <- MCContent
  GracePeriod = 0
  Overlap = TRUE
  MaxTime = 1
  MaxLamport = 2
  TickMsec = 60000
SPECIFICATION Spec
INVARIANTS SelfNeverSuspected StampsInThePast
PROPERTIES AliveRecordsGrow SuspicionKept
