SPECIFICATION Spec
CONSTANTS
  None = None
  Partial = Partial
  Managers = {m1, m2}
  TableNames = {"t"}
  ColumnNames = {"a", "v", "__vrdb_row_id"}
  Requested = {"t", "../t"}
  NewSchemas <- MCNewSchemas
  OldSchemas <- MCOldSchemas
PROPERTY FailedCreateLeavesNoFile
