CONSTANTS
  Threads = {t1}
  RingLen = 2
  Block = 2
  Page = 2
  Sizes = {1, 2}
  Options <- AutoOptions
  PollOnSealed = TRUE
  SqDepth = 1
  MaxMsgs = 6
  MaxIoFaults = 1
  MaxSubmitFaults = 2
  OffsetSpan = 8
  WriterSpan = 4
SPECIFICATION ShutdownFairSpec
INVARIANTS TypeOK AckedSurvives ReportsSettled DisjointRanges ShutdownComplete
PROPERTY MessageReturns
