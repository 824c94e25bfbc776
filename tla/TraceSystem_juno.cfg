SPECIFICATION FairSpec
CONSTANTS
  r1 = r1
  r2 = r2
  Readers = {r1}
  CPUs = {0, 1, 2}
  CpuOf <- Away
  PmiCpu = 0
  BufWords = 4
  MaxPmi = 2
  MaxWords = 4
  FifoWords = 1
  RamWords = 2
  OsLockStops = FALSE
  End = End
  Zero = Zero
  Foreign = Foreign
  Free = Free
  Handler = Handler
INVARIANTS TypeOK SinkStopped EachWordOnce PathDrained
PROPERTIES CallsReturn ReadsReturn
