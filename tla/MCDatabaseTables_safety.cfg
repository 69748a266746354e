SPECIFICATION Spec
CONSTANTS
  None = None
  Partial = Partial
  Managers = {m1, m2, m3}
  TableNames = {"t"}
  ColumnNames = {"a", "v", "__vrdb_row_id"}
  Requested = {"t", "../t"}
  NewSchemas <- MCNewSchemas
  OldSchemas <- MCOldSchemas
INVARIANTS IInv CatalogInStep AlwaysLoads StorageMatchesCatalog NeverRegisteredOverForeignStorage RowsFitTheirSchema
PROPERTIES CreateKeepsForeignStorage RegistrySpec
