SPECIFICATION Spec
CONSTANTS
  Messages <- MCMessages
  Roles = {"source", "text", "image"}
  LengthBytes = 2
  MaxHeader = 4
  MaxPayload = 2
  MaxTotal = 3
  MaxSent = 2
  Exceptions = {1, 2, 3}
  Failures <- MCFailures
  MaxExceptions = 2
  MaxFrames = 2
  Failing = 1
INVARIANTS
  FramesStayAligned
  SpoolsAreClosed
  ChainIsReportedOnce
CHECK_DEADLOCK FALSE
