SPECIFICATION Spec
CONSTANTS
  Clients = {c1, c2}
  NoClient = NoClient
  Foreign = Foreign
  NoQuote = NoQuote
  Probes = {}
  MaxBoots = 2
  MaxForeign = 1
  Backlog = 2
  MaxProbeConnections = 1
  MaxHeaderLines = 2
  RuntimeSeconds = 2
  MaxStarts = 2
INVARIANTS
  FirstToConnect
  NothingBeforeReservation
  AdvertisedIsReachable
  ListenerIsConfigured
PROPERTIES
  ImplementsReservation
  ReservationSettles
CHECK_DEADLOCK FALSE
