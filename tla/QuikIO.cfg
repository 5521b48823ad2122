CONSTANTS
  Threads = {t1, t2}
  NumBuffers = 2
  Page = 2
  Reads <- ReadArgs
  Setups <- SmallSetups
  MaxCalls = 3
  MaxFaults = 2
SPECIFICATION Spec
SYMMETRY Symmetry
CHECK_DEADLOCK FALSE
INVARIANTS TypeOK BlockedIsServed
PROPERTIES QuietSyncDurable QuietResetSafe QuietReadCorrect
