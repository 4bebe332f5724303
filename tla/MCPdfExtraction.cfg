SPECIFICATION Spec
CONSTANTS
  PageCount = 5
  ScanWorkers = 3
  MaxConcurrency = 2
  BackendLimit = 3
INVARIANTS
  ImagesBounded
  NothingRunsAfter
PROPERTIES
  ImplementsPageOcr
  WorkGoesOn
  EveryExtractionEnds
CHECK_DEADLOCK FALSE
