SPECIFICATION Spec
CONSTANTS
  TableNames = {}
  ColumnNames = {"__vrdb_row_id", "v", "t", "i"}
  Characters <- MCCharacters
  MaxId = 2
  Rows <- MCRows
  OldFiles <- MCOldFiles
PROPERTIES AppendReadsBack PartReadsAs GluedIsNoRow RewriteKeepsRows
CHECK_DEADLOCK FALSE
