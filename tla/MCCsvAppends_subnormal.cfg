SPECIFICATION Spec
CONSTANTS
  TableNames = {}
  ColumnNames = {"__vrdb_row_id", "v", "t", "i"}
  Characters <- MCCharacters
  MaxId = 2
  Rows <- SubnormalRows
  OldFiles <- MCOldFiles
PROPERTIES AppendReadsBack
CHECK_DEADLOCK FALSE
