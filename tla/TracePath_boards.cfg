SPECIFICATION FairSpec
CONSTANTS
  Platforms = {"JUNOR2", "HIKEY970"}
  FifoWords = 2
  RamWords = 2
  LockGates = TRUE
  OsLockStops = FALSE
INVARIANTS TypeOK PathReady TraceComplete QuietConfig PmuBeforeEtm EnabledBetweenCalls
PROPERTIES ReadBeforeDisable CallsReturn
