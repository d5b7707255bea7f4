CONSTANTS
  self = self
  a = a
  b = b
  client = client
  Absent = Absent
  Loop = loop
  Self = self
  Servers = {self, a, b, client}
  PortZero = {client}
  Workers = {worker}
  Collector = collector
  Messages = {"ping", "client_ping", "forward", "a_alive", "a_suspected", "a_both"}
  Content <- MCContent
  GracePeriod = 1
  Overlap = FALSE
  MaxTime = 2
  MaxLamport = 2
  TickMsec = 60000
SPECIFICATION Spec
INVARIANTS TypeOK Exclusive ToldIsCurrent ReportsNewestAffordable
PROPERTIES StaleNewsIgnored EvictsOnlyExpired ImplementsMembership
