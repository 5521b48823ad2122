CONSTANTS
  Threads = {t1, t2}
  NumBuffers = 1
  Page = 2
  Reads <- ReadArgs
  Setups <- CodeSetups
  MaxCalls = 2
  MaxFaults = 1
SPECIFICATION Spec
SYMMETRY Symmetry
CHECK_DEADLOCK FALSE
PROPERTY ResetAfterIO
