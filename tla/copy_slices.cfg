SPECIFICATION SpecCopies
CONSTANTS
  Int64Bits = 5
  Mantissa = 3
  Platforms = {4, 5}
  Alias = {"a"}
  Token <- AllTokens
  Documents = {}
  Scalars = {}
  Handmade = {}
  Graphs <- AllGraphs
  Paths <- AllPaths
INVARIANTS
  CopyKeepsEveryShape
CHECK_DEADLOCK FALSE
