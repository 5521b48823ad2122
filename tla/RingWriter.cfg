CONSTANTS
  Writers = {w1, w2}
  RingLen = 3
  Batch = 2
  Sizes = {1, 2}
  SqDepth = 1
  MaxBytes = 4
  MaxFaults = 1
SPECIFICATION FairSpec
CHECK_DEADLOCK FALSE
INVARIANTS TypeOK PendingIsInFlight FinishedStream FileTiled
PROPERTIES InFlightUntouched ImplementsRangeLog CallsReturn
