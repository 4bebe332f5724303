SPECIFICATION Spec
CONSTANTS
  d1 = d1
  d2 = d2
  d3 = d3
  Documents = {d1, d2, d3}
  Messages <- AllMessages
  MaxDocuments = 1
  Descriptors = 7
  MaxSent = 3
  Pipelined = 2
INVARIANTS
  ResponsesFollowMessages
  NothingLeaks
  SessionMatchesAnswers
PROPERTIES
  EveryMessageSettles
CHECK_DEADLOCK FALSE
