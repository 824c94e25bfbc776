SPECIFICATION Spec
CONSTANTS
  Tasks = {1, 2}
  BufWords = 4
  MaxWrites = 4
  Careful = FALSE
  Zero = Zero
  Torn = Torn
  Foreign = Foreign
PROPERTY ZeroMeansNoData
