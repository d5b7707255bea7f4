CONSTANTS
  self = self
  a = a
  b = b
  client = client
  Absent = Absent
  Loop = loop
  Self = self
  Servers = {self, a, b, client}
  PortZero = {client}
  Workers = {}
  Collector = collector
  Messages = {"ping", "a_alive", "a_suspected", "a_both"}
  Content <- MCContent
  GracePeriod = 1
  Overlap = TRUE
  MaxTime = 2
  MaxLamport = 3
  TickMsec = 60000
SPECIFICATION FairSpec
PROPERTIES EvictionHappens
