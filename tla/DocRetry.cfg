CONSTANTS
  Threads = {t1}
  RingLen = 2
  Block = 2
  Page = 2
  Sizes = {1}
  Options <- LoggerOptions
  PollOnSealed = FALSE
  SqDepth = 8
  MaxMsgs = 7
  MaxIoFaults = 0
  MaxSubmitFaults = 0
  OffsetSpan = 8
  WriterSpan = 4
SPECIFICATION FairSpec
PROPERTY MessageReturns
