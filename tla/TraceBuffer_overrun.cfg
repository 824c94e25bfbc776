SPECIFICATION Spec
CONSTANTS
  r1 = r1
  r2 = r2
  Readers = {r1}
  CPUs = {0, 1, 2}
  CpuOf <- Away
  PmiCpu = 0
  BufWords = 4
  EtfWords = 4
  MaxPmi = 1
  End = End
  Zero = Zero
  Foreign = Foreign
  Free = Free
  Handler = Handler
INVARIANT StoresInBounds
