CONSTANTS
  self = self
  a = a
  b = client
  client = client
  Absent = Absent
  Loop = loop
  Self = self
  Servers = {self, a, client}
  PortZero = {client}
  Workers = {worker}
  Collector = collector
  Messages = {"ping"}
  Content <- MCContent
  GracePeriod = 3
  Overlap = TRUE
  MaxTime = 4
  MaxLamport = 2
  TickMsec = 60000
SPECIFICATION FairSpec
PROPERTY EvictionHappens
