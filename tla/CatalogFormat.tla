---------------------------- MODULE CatalogFormat ----------------------------
(***************************************************************************)
(* Columns, schemas and the catalog files they are kept in: what Column    *)
(* and Schema accept, and CsvFormat::writeSchema and readSchema.  A schema *)
(* is a sequence of columns [name, type, dimension, nullable]; a catalog   *)
(* file is its header and a sequence of records.  Of the characters of a   *)
(* name only matters whether they are allowed; a number in a field is that *)
(* number.                                                                 *)
(***************************************************************************)
EXTENDS Integers, Sequences

CONSTANTS TableNames,   \* the names that Catalog::validateString lets pass
          ColumnNames   \* the names that Column::validate lets pass

PhysicalNames == {"__vrdb_row_id", "__vrdb_null_bitmap"}

-----------------------------------------------------------------------------
(* Columns and schemas. *)

ColumnValues == [name : ColumnNames, type : {"INTEGER", "TEXT", "VECTOR"},
                 dimension : Nat, nullable : BOOLEAN]

validate(column) == /\ column.type \in {"INTEGER", "TEXT", "VECTOR"}
                    /\ column.type = "VECTOR" <=> column.dimension > 0
                    /\ column.name \in ColumnNames

IsSchema(columns) ==
  /\ columns # <<>>
  /\ \A i \in DOMAIN columns :
       /\ validate(columns[i])
       /\ \A j \in 1 .. i - 1 : columns[j].name # columns[i].name

HeaderOf(schema) == [i \in DOMAIN schema |-> schema[i].name]

UsesReservedName(schema) == \E i \in DOMAIN schema : schema[i].name \in PhysicalNames

-----------------------------------------------------------------------------
(* Catalog files.  The dimension field is empty or holds one number; records *)
(* under the old header have no nullability, "absent" here.                  *)

(* Mutant: no column has a dimension. *)
NoDimension(column) == <<>>
serializeTypeDimension(column) ==
  IF column.type = "VECTOR" THEN <<column.dimension>> ELSE <<>>

Record(tableName, i, column, nullable) ==
  [table |-> tableName, index |-> i - 1, name |-> column.name, type |-> column.type,
   dimension |-> serializeTypeDimension(column), nullable |-> nullable]

writeSchema(tableName, schema) ==
  [header |-> "current",
   records |-> [i \in DOMAIN schema |->
                  Record(tableName, i, schema[i], IF schema[i].nullable THEN "true" ELSE "false")]]

(* What versions without NULL wrote. *)
OldCatalog(tableName, schema) ==
  [header |-> "old",
   records |-> [i \in DOMAIN schema |-> Record(tableName, i, schema[i], "absent")]]

(* Mutant: a column without a nullability is a new column's, nullable. *)
NullableUnlessFalse(file, r) == r.nullable # "false"
Nullable(file, r) == file.header = "current" /\ r.nullable = "true"

deserializeColumn(r, nullable) ==
  [name |-> r.name, type |-> r.type,
   dimension |-> IF r.dimension = <<>> THEN 0 ELSE Head(r.dimension), nullable |-> nullable]

readSchema(file) ==
  [i \in DOMAIN file.records |->
     deserializeColumn(file.records[i], Nullable(file, file.records[i]))]

IsRecord(file, i, tableName) ==
  LET r == file.records[i]
  IN  /\ r.table = tableName
      /\ r.index = i - 1
      /\ r.nullable \in (IF file.header = "old" THEN {"absent"} ELSE {"true", "false"})
      /\ r.type # "VECTOR" <=> r.dimension = <<>>

(* Whether readSchema returns: otherwise it throws. *)
IsCatalog(file, tableName) ==
  /\ file.header \in {"current", "old"}
  /\ \A i \in DOMAIN file.records : IsRecord(file, i, tableName)
  /\ IsSchema(readSchema(file))
=============================================================================
