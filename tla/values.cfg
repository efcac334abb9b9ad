SPECIFICATION SpecCopies
CONSTANTS
  Int64Bits = 5
  Mantissa = 3
  Platforms = {4, 5}
  Alias = {"a"}
  Token <- AllTokens
  Documents <- AllDocuments
  Scalars <- AllScalars
  Handmade <- AllHandmade
  Graphs <- AllGraphs
  Paths <- AllPaths
INVARIANTS
  KeysOrderFree
  CopyKeepsShape
  TypedReadsExact
  ReferenceRoundTrip
CHECK_DEADLOCK FALSE
