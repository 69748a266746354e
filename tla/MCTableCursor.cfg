SPECIFICATION ScanSpec
CONSTANTS
  a = a
  ab = ab
  NoVal = NoVal
  Live = Live
  MaxId = 3
  InitialRows = 2
  PageSizes = {1, 2}
  Vals <- MCVals
  Misread <- MCMisread
  WriteOutcomes <- MCOutcomes
INVARIANTS ScanInv ThrowsOnlyBesideAChange
PROPERTY ScanIsASnapshot
