SPECIFICATION Spec
CONSTANTS
  a = a
  ab = ab
  NoVal = NoVal
  MaxId = 4
  InitialRows = 2
  Vals <- MCVals
  Misread <- MCMisread
  WriteOutcomes <- AllOutcomes
INVARIANTS IInv NeverLockedOut ReservesFreshId SuccessIsStored
PROPERTIES CounterNeverLowered RowsChangeOnlyByTheirCall
