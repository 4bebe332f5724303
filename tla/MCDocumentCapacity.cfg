SPECIFICATION Spec
CONSTANTS
  d1 = d1
  d2 = d2
  d3 = d3
  Documents = {d1, d2, d3}
  Messages <- ValidOpenings
  MaxDocuments = 3
  Descriptors = 5
  MaxSent = 4
  Pipelined = 1
INVARIANTS
  ValidArtifactsOpenBelowCapacity
CHECK_DEADLOCK FALSE
