SPECIFICATION Spec
CONSTANTS
  Tasks = {1, 2}
  BufWords = 2
  MaxWrites = 4
  Careful = TRUE
  Zero = Zero
  Torn = Torn
  Foreign = Foreign
INVARIANT TypeOK
PROPERTY ImplementsQueue
