CONSTANTS
  Threads = {t1, t2, t3}
  Block = 3
  Sizes = {1, 2}
  OffsetSpan = 8
  WriterSpan = 4
SPECIFICATION Spec
SYMMETRY Symmetry
INVARIANTS TypeOK ExclusiveRegions WrittenOnce DrainedMeansCopied
PROPERTY ReopenedOnlyWhenIdle
