CONSTANTS
  Threads = {t1, t2, t3}
  Block = 3
  Sizes = {1, 2}
  OffsetSpan = 8
  WriterSpan = 2
  FlagSpan = 16
SPECIFICATION Spec
INVARIANTS TypeOK ReservedBitsZero
PROPERTY ImplementsFlushBuffer
