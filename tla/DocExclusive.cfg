CONSTANTS
  Threads = {t1, t2}
  RingLen = 2
  Block = 1
  Page = 1
  Sizes = {1}
  Options <- NoStore
  PollOnSealed = TRUE
  SqDepth = 8
  MaxMsgs = 4
  MaxIoFaults = 0
  MaxSubmitFaults = 0
  OffsetSpan = 8
  WriterSpan = 4
SPECIFICATION Spec
INVARIANT ExclusiveRegions
