SPECIFICATION Spec
CONSTANTS
  Clients = {c1}
  NoClient = NoClient
  Foreign = Foreign
  NoQuote = NoQuote
  Probes = {p1, p2}
  MaxBoots = 1
  MaxForeign = 0
  Backlog = 1
  MaxProbeConnections = 1
  MaxHeaderLines = 2
  RuntimeSeconds = 2
  MaxStarts = 1
INVARIANTS
  AdmissionClosesTheDoor
PROPERTIES
  ProbesEnd
CHECK_DEADLOCK FALSE
