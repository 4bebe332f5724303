SPECIFICATION Spec
CONSTANTS
  MaxSent = 8
  Capacity = 2
INVARIANTS
  StreamsIntact
  ZeroMeansComplete
PROPERTIES
  RelayGoesOn
  AnswersAndEndsArrive
CHECK_DEADLOCK FALSE
