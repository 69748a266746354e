-------------------------- MODULE MCDatabaseTables --------------------------
(***************************************************************************)
(* Managers; one table name and one that is not allowed.  A database       *)
(* of an earlier version can have a table whose columns have the names of  *)
(* a new schema, but are NOT NULL.                                         *)
(***************************************************************************)
EXTENDS DatabaseTables

Column(name, type, dimension, nullable) ==
  [name |-> name, type |-> type, dimension |-> dimension, nullable |-> nullable]

MCNewSchemas == {<<Column("a", "TEXT", 0, TRUE)>>,
                 <<Column("a", "INTEGER", 0, FALSE), Column("v", "VECTOR", 2, TRUE)>>,
                 <<Column("__vrdb_row_id", "TEXT", 0, TRUE)>>}
MCOldSchemas == {<<Column("a", "TEXT", 0, FALSE)>>}
=============================================================================
