CONSTANTS
  self = self
  a = a
  b = b
  client = client
  Absent = Absent
  Loop = loop
  Self = self
  Servers = {self, a, b, client}
  PortZero = {client}
  Workers = {worker}
  Collector = collector
  Messages = {"ping", "a_alive"}
  Content <- MCContent
  GracePeriod = 1
  Overlap = FALSE
  MaxTime = 2
  MaxLamport = 2
  TickMsec = 80000
SPECIFICATION Spec
INVARIANT ReportsMostRecent
