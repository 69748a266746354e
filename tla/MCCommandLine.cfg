SPECIFICATION Spec
CONSTANTS
  TableNames <- MCTableNames
  ColumnNames = {"a", "i", "v", "__vrdb_row_id"}
  Characters <- MCCharacters
  Arguments <- MCArguments
  OldTables <- MCOldTables
  MaxId = 2
INVARIANTS TypeOK StaysReadable CellsCanBeTyped DescribedCanBeDeclared
PROPERTIES InsertedIdsAreNew ExportReadsBack TerminalTellsNull
