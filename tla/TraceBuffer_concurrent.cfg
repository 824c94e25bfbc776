SPECIFICATION FairSpec
CONSTANTS
  r1 = r1
  r2 = r2
  Readers = {r1, r2}
  CPUs = {0, 1, 2}
  CpuOf <- Away
  PmiCpu = 0
  BufWords = 4
  EtfWords = 2
  MaxPmi = 2
  End = End
  Zero = Zero
  Foreign = Foreign
  Free = Free
  Handler = Handler
INVARIANTS TypeOK LockInv CursorInv WholeDumps FillBound
PROPERTIES ResetLosesNothing ImplementsLog ReadReturns HandlerReturns
