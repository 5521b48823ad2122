CONSTANTS
  Threads = {t1}
  NumBuffers = 2
  Page = 2
  Reads <- ReadArgs
  Setups <- CodeSetups
  MaxCalls = 3
  MaxFaults = 0
SPECIFICATION Spec
CHECK_DEADLOCK FALSE
PROPERTY SyncMeansDurable
