CONSTANTS
  Threads = {t1}
  RingLen = 2
  Block = 2
  Page = 2
  Sizes = {1, 2}
  Options <- LoggerOptions
  PollOnSealed = TRUE
  SqDepth = 8
  MaxMsgs = 3
  MaxIoFaults = 0
  MaxSubmitFaults = 0
  OffsetSpan = 8
  WriterSpan = 4
SPECIFICATION Spec
INVARIANT AckedMeansWritten
