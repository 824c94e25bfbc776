SPECIFICATION FairSpec
CONSTANTS
  r1 = r1
  r2 = r2
  Readers = {r1}
  CPUs = {0, 1, 2}
  CpuOf <- Shared
  PmiCpu = 0
  BufWords = 6
  EtfWords = 2
  MaxPmi = 2
  End = End
  Zero = Zero
  Foreign = Foreign
  Free = Free
  Handler = Handler
PROPERTY HandlerReturns
CHECK_DEADLOCK FALSE
