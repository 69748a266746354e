---------------------------- MODULE FormatProofs ----------------------------
(***************************************************************************)
(* What is written to a catalog file is read back, for every schema; and   *)
(* how a row and the fields of its record belong together.                 *)
(***************************************************************************)
EXTENDS CatalogFormat, CsvFormat, FiniteSetTheorems, SequenceTheorems, TLAPS

(* The dimension field of a record is empty unless the column is a vector.   *)
LEMMA DimensionField ==
  ASSUME NEW column \in ColumnValues
  PROVE  column.type # "VECTOR" <=> serializeTypeDimension(column) = <<>>
<1>1. \A x : <<x>> # <<>>
  OBVIOUS
<1> QED BY <1>1 DEF serializeTypeDimension

(* What a record says of its column. *)
LEMMA RecordFields ==
  ASSUME NEW t, NEW i, NEW column, NEW flag
  PROVE  LET r == Record(t, i, column, flag)
         IN  /\ r.table = t /\ r.index = i - 1 /\ r.name = column.name
             /\ r.type = column.type /\ r.dimension = serializeTypeDimension(column)
             /\ r.nullable = flag
  BY DEF Record

(* A column comes back from its record, once the reader knows whether it is  *)
(* nullable.                                                                 *)
LEMMA ColumnReadsBack ==
  ASSUME NEW column \in ColumnValues, validate(column), NEW t, NEW i, NEW flag
  PROVE  deserializeColumn(Record(t, i, column, flag), column.nullable) = column
<1> DEFINE r == Record(t, i, column, flag)
<1>1. /\ r.name = column.name /\ r.type = column.type
      /\ r.dimension = serializeTypeDimension(column)
  BY RecordFields
<1> HIDE DEF r
<1>2. (IF r.dimension = <<>> THEN 0 ELSE Head(r.dimension)) = column.dimension
  <2>1. CASE column.type = "VECTOR"
    BY <1>1, <2>1 DEF serializeTypeDimension, ColumnValues
  <2>2. CASE column.type # "VECTOR"
    <3>1. column.dimension = 0
      BY <2>2 DEF validate, ColumnValues
    <3> QED BY <1>1, <2>2, <3>1 DEF serializeTypeDimension
  <2> QED BY <2>1, <2>2
<1>3. deserializeColumn(r, column.nullable)
        = [name |-> column.name, type |-> column.type, dimension |-> column.dimension,
           nullable |-> column.nullable]
  BY <1>1, <1>2 DEF deserializeColumn
<1> QED BY <1>3 DEF ColumnValues, r

(* CsvFormat::readSchema returns the schema that CsvFormat::writeSchema was  *)
(* given, and does not throw.                                                *)
THEOREM SchemaReadsBack ==
  ASSUME NEW schema \in Seq(ColumnValues), IsSchema(schema), NEW t
  PROVE  /\ readSchema(writeSchema(t, schema)) = schema
         /\ IsCatalog(writeSchema(t, schema), t)
<1> DEFINE file == writeSchema(t, schema)
<1>1. /\ file.header = "current" /\ DOMAIN file.records = DOMAIN schema
      /\ \A i \in DOMAIN schema :
           file.records[i] = Record(t, i, schema[i], IF schema[i].nullable THEN "true" ELSE "false")
  BY DEF writeSchema
<1> HIDE DEF file
<1>2. ASSUME NEW i \in DOMAIN schema
      PROVE  /\ schema[i] \in ColumnValues /\ validate(schema[i])
             /\ Nullable(file, file.records[i]) = schema[i].nullable
             /\ IsRecord(file, i, t)
  <2>1. schema[i] \in ColumnValues /\ validate(schema[i])
    BY DEF IsSchema
  <2>2. /\ file.records[i].table = t /\ file.records[i].index = i - 1
        /\ file.records[i].type = schema[i].type
        /\ file.records[i].dimension = serializeTypeDimension(schema[i])
        /\ file.records[i].nullable = IF schema[i].nullable THEN "true" ELSE "false"
    BY <1>1, RecordFields
  <2>3. Nullable(file, file.records[i]) = schema[i].nullable
    <3>1. CASE schema[i].nullable = TRUE
      BY <1>1, <2>2, <3>1 DEF Nullable
    <3>2. CASE schema[i].nullable = FALSE
      BY <1>1, <2>2, <3>2 DEF Nullable
    <3> QED BY <2>1, <3>1, <3>2 DEF ColumnValues
  <2>4. IsRecord(file, i, t)
    BY <1>1, <2>1, <2>2, DimensionField DEF IsRecord
  <2> QED BY <2>1, <2>3, <2>4
<1>3. ASSUME NEW i \in DOMAIN schema
      PROVE  deserializeColumn(file.records[i], Nullable(file, file.records[i])) = schema[i]
  BY <1>1, <1>2, ColumnReadsBack
<1>4. readSchema(file) = schema
  BY <1>1, <1>3 DEF readSchema
<1>5. IsCatalog(file, t)
  BY <1>1, <1>2, <1>4 DEF IsCatalog
<1> QED BY <1>4, <1>5 DEF file

(* A catalog file of a version without NULL reads as a schema without NULL. *)
THEOREM OldSchemaReadsBack ==
  ASSUME NEW schema \in Seq(ColumnValues), IsSchema(schema),
         \A i \in DOMAIN schema : ~schema[i].nullable, NEW t
  PROVE  /\ readSchema(OldCatalog(t, schema)) = schema
         /\ IsCatalog(OldCatalog(t, schema), t)
<1> DEFINE file == OldCatalog(t, schema)
<1>1. /\ file.header = "old" /\ DOMAIN file.records = DOMAIN schema
      /\ \A i \in DOMAIN schema : file.records[i] = Record(t, i, schema[i], "absent")
  BY DEF OldCatalog
<1> HIDE DEF file
<1>2. ASSUME NEW i \in DOMAIN schema
      PROVE  /\ schema[i] \in ColumnValues /\ validate(schema[i])
             /\ Nullable(file, file.records[i]) = schema[i].nullable
             /\ IsRecord(file, i, t)
  <2>1. schema[i] \in ColumnValues /\ validate(schema[i])
    BY DEF IsSchema
  <2>2. /\ file.records[i].table = t /\ file.records[i].index = i - 1
        /\ file.records[i].type = schema[i].type
        /\ file.records[i].dimension = serializeTypeDimension(schema[i])
        /\ file.records[i].nullable = "absent"
    BY <1>1, RecordFields
  <2>3. IsRecord(file, i, t)
    BY <1>1, <2>1, <2>2, DimensionField DEF IsRecord
  <2>4. schema[i].nullable = FALSE
    BY <2>1 DEF ColumnValues
  <2>5. Nullable(file, file.records[i]) = FALSE
    BY <1>1 DEF Nullable
  <2> QED BY <2>1, <2>3, <2>4, <2>5
<1>3. ASSUME NEW i \in DOMAIN schema
      PROVE  deserializeColumn(file.records[i], Nullable(file, file.records[i])) = schema[i]
  BY <1>1, <1>2, ColumnReadsBack
<1>4. readSchema(file) = schema
  BY <1>1, <1>3 DEF readSchema
<1>5. IsCatalog(file, t)
  BY <1>1, <1>2, <1>4 DEF IsCatalog
<1> QED BY <1>4, <1>5 DEF file

-----------------------------------------------------------------------------
(* Rows and their records. *)

Cells == [null : BOOLEAN, payload : Seq(Characters)]
StoredRows == [id : DOMAIN Digits, cells : Seq(Cells)]
SchemaValues == Seq(ColumnValues)

CellFits(cell, column) == /\ cell.null => column.nullable /\ cell.payload = <<>>
                          /\ ~cell.null => deserializes(cell.payload, column)
RowFits(row, schema) == /\ DOMAIN row.cells = DOMAIN schema
                        /\ \A i \in DOMAIN schema : CellFits(row.cells[i], schema[i])
RowsFit(rows, schema) == /\ rows \in Seq(StoredRows)
                         /\ \A i \in DOMAIN rows : RowFits(rows[i], schema)
                         /\ \A i, j \in DOMAIN rows : rows[i].id = rows[j].id => i = j

(* The digits of row IDs are told apart.                                     *)
LEMMA DigitsDiffer ==
  /\ DOMAIN Digits = 1..9 /\ Len(Digits) = 9 /\ Digits \in Seq(Characters)
  /\ \A i \in DOMAIN Digits : Digits[i] \in Characters
  /\ \A i, j \in DOMAIN Digits : Digits[i] = Digits[j] => i = j
<1>1. DOMAIN Digits = 1..9 /\ (\A i, j \in DOMAIN Digits : Digits[i] = Digits[j] => i = j)
  BY DEF Digits
<1>2. \A i \in 1..9 : Digits[i] \in Characters
  BY <1>1, CharactersAssumption DEF Range
<1>3. Digits \in Seq(Characters)
  <2>1. Len(Digits) = 9 /\ Digits = [i \in 1..9 |-> Digits[i]]
    BY DEF Digits
  <2> QED BY <1>2, <2>1
<1> QED BY <1>1, <1>2, <1>3 DEF Digits

(* Elements of concatenations, and functions as sequences.                   *)
LEMMA JoinedSecond ==
  ASSUME NEW S, NEW f \in Seq(S), NEW p \in Seq(S), NEW i \in 1 .. Len(p)
  PROVE  (f \o p)[Len(f) + i] = p[i]
<1> DEFINE whole == f \o p
<1>1. \A k \in 1 .. Len(f) + Len(p) : whole[k] = IF k <= Len(f) THEN f[k] ELSE p[k - Len(f)]
  BY ConcatProperties, Zenon
<1> HIDE DEF whole
<1>2. /\ Len(f) + i \in 1 .. Len(f) + Len(p) /\ ~(Len(f) + i <= Len(f))
      /\ Len(f) + i - Len(f) = i
  OBVIOUS
<1>3. whole[Len(f) + i] = p[i]
  BY <1>1, <1>2
<1> QED BY <1>3 DEF whole

(* The length of a concatenation, and its first elements.                    *)
LEMMA Joined ==
  ASSUME NEW S, NEW f \in Seq(S), NEW p \in Seq(S)
  PROVE  /\ f \o p \in Seq(S) /\ Len(f \o p) = Len(f) + Len(p)
         /\ \A i \in 1 .. Len(f) : (f \o p)[i] = f[i]
<1> DEFINE whole == f \o p
<1>1. /\ whole \in Seq(S) /\ Len(whole) = Len(f) + Len(p)
      /\ \A i \in 1 .. Len(f) + Len(p) :
           whole[i] = IF i <= Len(f) THEN f[i] ELSE p[i - Len(f)]
  BY ConcatProperties, Zenon
<1> HIDE DEF whole
<1>2. \A i \in 1 .. Len(f) : whole[i] = f[i]
  BY <1>1
<1> QED BY <1>1, <1>2 DEF whole

(* A sequence with the elements of both is their concatenation.              *)
LEMMA JoinIs ==
  ASSUME NEW S, NEW f \in Seq(S), NEW p \in Seq(S), NEW whole \in Seq(S)
  PROVE  /\ Len(whole) = Len(f) + Len(p)
         /\ \A i \in 1 .. Len(f) : whole[i] = f[i]
         /\ \A i \in 1 .. Len(p) : whole[Len(f) + i] = p[i]
         => f \o p = whole
<1> DEFINE joined == f \o p
<1>1. /\ joined \in Seq(S) /\ Len(joined) = Len(f) + Len(p)
      /\ \A i \in 1 .. Len(f) : joined[i] = f[i]
  BY Joined, Zenon
<1>2. \A i \in 1 .. Len(p) : joined[Len(f) + i] = p[i]
  BY JoinedSecond, Zenon
<1> HIDE DEF joined
<1> SUFFICES ASSUME Len(whole) = Len(f) + Len(p), \A i \in 1 .. Len(f) : whole[i] = f[i],
                    \A i \in 1 .. Len(p) : whole[Len(f) + i] = p[i]
             PROVE  joined = whole
  BY DEF joined
<1>3. Len(f) \in Nat /\ Len(p) \in Nat
  OBVIOUS
<1>4. ASSUME NEW i \in 1 .. Len(f) + Len(p) PROVE joined[i] = whole[i]
  <2>1. CASE i \in 1 .. Len(f)
    BY <1>1, <2>1
  <2>2. CASE i \notin 1 .. Len(f)
    <3>1. PICK k \in 1 .. Len(p) : i = Len(f) + k
      <4>1. i - Len(f) \in 1 .. Len(p) /\ i = Len(f) + (i - Len(f))
        BY <1>3, <2>2
      <4> QED BY <4>1
    <3> QED BY <1>2, <3>1
  <2> QED BY <2>1, <2>2
<1> QED BY <1>1, <1>3, <1>4

(* A function on 1..n is a sequence.                                         *)
LEMMA FunctionIsSeq ==
  ASSUME NEW S, NEW n \in Nat, NEW f \in [1..n -> S]
  PROVE  f \in Seq(S) /\ Len(f) = n /\ DOMAIN f = 1..n
  OBVIOUS

(* The columns of a schema.                                                  *)
LEMMA SchemaParts ==
  ASSUME NEW schema \in SchemaValues
  PROVE  /\ Len(schema) \in Nat /\ DOMAIN schema = 1 .. Len(schema)
         /\ \A i \in DOMAIN schema : schema[i] \in ColumnValues /\ schema[i].name \in ColumnNames
<1>1. Len(schema) \in Nat /\ DOMAIN schema = 1 .. Len(schema)
  BY DEF SchemaValues
<1>2. \A i \in DOMAIN schema : schema[i] \in ColumnValues
  BY DEF SchemaValues
<1> QED BY <1>1, <1>2 DEF ColumnValues

(* The elements of a sequence of rows.                                       *)
LEMMA RowsParts ==
  ASSUME NEW rows \in Seq(StoredRows)
  PROVE  /\ Len(rows) \in Nat /\ DOMAIN rows = 1 .. Len(rows)
         /\ \A i \in DOMAIN rows : rows[i] \in StoredRows /\ rows[i].id \in DOMAIN Digits
<1>1. Len(rows) \in Nat /\ DOMAIN rows = 1 .. Len(rows)
  OBVIOUS
<1>2. \A i \in DOMAIN rows : rows[i] \in StoredRows
  OBVIOUS
<1> QED BY <1>1, <1>2 DEF StoredRows

(* The record that is written for a row, part by part.                       *)
LEMMA FieldsOfRow ==
  ASSUME NEW schema \in SchemaValues, NEW row \in StoredRows, DOMAIN row.cells = DOMAIN schema
  PROVE  /\ Fields(row) \in Seq(Seq(Characters)) /\ Len(Fields(row)) = Len(schema) + 2
         /\ Fields(row)[1] = <<Digits[row.id]>>
         /\ Len(Fields(row)[2]) = Len(schema)
         /\ \A i \in DOMAIN schema :
              /\ Fields(row)[2][i] = IF row.cells[i].null THEN "1" ELSE "0"
              /\ Fields(row)[i + 2] = row.cells[i].payload
<1> DEFINE n == Len(schema)
           bitmap == serializeNullBitmap(row.cells)
           payloads == Payloads(row.cells)
<1>1. row.id \in DOMAIN Digits /\ row.cells \in Seq(Cells) /\ DOMAIN row.cells = 1..n /\ n \in Nat
  BY DEF StoredRows, SchemaValues
<1>2. \A i \in 1..n : row.cells[i] \in Cells
  BY <1>1
<1>3. /\ bitmap = [i \in 1..n |-> IF row.cells[i].null THEN "1" ELSE "0"]
      /\ payloads = [i \in 1..n |-> row.cells[i].payload]
  BY <1>1 DEF serializeNullBitmap, Payloads
<1> HIDE DEF bitmap, payloads
<1>4. bitmap \in Seq(Characters) /\ Len(bitmap) = n
  <2>1. \A i \in 1..n : (IF row.cells[i].null THEN "1" ELSE "0") \in Characters
    <3>1. "0" \in Characters /\ Digits[1] \in Characters /\ Digits[1] = "1"
      BY DigitsDiffer, CharactersAssumption DEF Digits
    <3> QED BY <3>1
  <2>2. bitmap \in [1..n -> Characters]
    BY <1>3, <2>1
  <2> QED BY <1>1, <2>2
<1>5. payloads \in Seq(Seq(Characters)) /\ Len(payloads) = n
  <2>1. payloads \in [1..n -> Seq(Characters)]
    BY <1>2, <1>3 DEF Cells
  <2> QED BY <1>1, <2>1
<1>6. Digits[row.id] \in Characters
  BY <1>1, DigitsDiffer
<1>7. Fields(row) = <<<<Digits[row.id]>>, bitmap>> \o payloads
  BY DEF Fields, bitmap, payloads
<1> DEFINE front == <<<<Digits[row.id]>>, bitmap>>
<1>8. front \in Seq(Seq(Characters)) /\ Len(front) = 2 /\ front[1] = <<Digits[row.id]>> /\ front[2] = bitmap
  BY <1>4, <1>6
<1> HIDE DEF front
<1> HIDE DEF n
<1>9. /\ Fields(row) \in Seq(Seq(Characters)) /\ Len(Fields(row)) = Len(front) + Len(payloads)
      /\ \A i \in 1 .. Len(front) : Fields(row)[i] = front[i]
      /\ \A i \in 1 .. Len(payloads) : Fields(row)[Len(front) + i] = payloads[i]
  <2>1. Fields(row) = front \o payloads
    BY <1>7 DEF front
  <2> DEFINE whole == front \o payloads
  <2>2. front \in Seq(Seq(Characters)) /\ payloads \in Seq(Seq(Characters))
    BY <1>5, <1>8
  <2>3. /\ whole \in Seq(Seq(Characters)) /\ Len(whole) = Len(front) + Len(payloads)
        /\ \A i \in 1 .. Len(front) : whole[i] = front[i]
    BY <2>2, Joined, Zenon
  <2>4. \A i \in 1 .. Len(payloads) : whole[Len(front) + i] = payloads[i]
    BY <2>2, JoinedSecond, Zenon
  <2> HIDE DEF whole
  <2> QED BY <2>1, <2>3, <2>4 DEF whole
<1>11. DOMAIN schema = 1..n
  BY DEF SchemaValues, n
<1>12. /\ Fields(row) \in Seq(Seq(Characters)) /\ Len(Fields(row)) = n + 2
       /\ Fields(row)[1] = <<Digits[row.id]>> /\ Len(Fields(row)[2]) = n
       /\ \A i \in 1..n : Fields(row)[i + 2] = row.cells[i].payload
  BY <1>1, <1>3, <1>4, <1>5, <1>8, <1>9
<1>13. \A i \in 1..n : Fields(row)[2][i] = IF row.cells[i].null THEN "1" ELSE "0"
  <2>1. Fields(row)[2] = bitmap
    BY <1>8, <1>9
  <2> QED BY <1>3, <2>1
<1> QED BY <1>11, <1>12, <1>13 DEF n

(* The row that a record is written for is the one that it says.             *)
LEMMA RowOfFields ==
  ASSUME NEW schema \in SchemaValues, NEW row \in StoredRows, DOMAIN row.cells = DOMAIN schema,
         \A i \in DOMAIN schema : row.cells[i].null => row.cells[i].payload = <<>>,
         NEW n
  PROVE  RowOf("bitmap", schema, Fields(row), n) = row
<1> DEFINE fields == Fields(row)
<1>1. /\ fields[1] = <<Digits[row.id]>>
      /\ \A i \in DOMAIN schema :
           /\ fields[2][i] = IF row.cells[i].null THEN "1" ELSE "0"
           /\ fields[i + 2] = row.cells[i].payload
  BY FieldsOfRow
<1> HIDE DEF fields
<1>2. row.id \in DOMAIN Digits /\ row.cells \in Seq(Cells)
  BY DEF StoredRows
<1>3. Offset("bitmap") = 2 /\ Bitmap("bitmap", fields, schema) = fields[2]
      /\ IdField("bitmap", fields, n) = fields[1]
  BY DEF Offset, Bitmap, IdField
<1>4. ASSUME NEW i \in DOMAIN schema
      PROVE  (IF fields[2][i] = "1" THEN NullCell ELSE Value(fields[i + 2])) = row.cells[i]
  <2>1. row.cells[i] \in Cells
    BY <1>2
  <2>2. CASE row.cells[i].null
    BY <1>1, <2>1, <2>2 DEF NullCell, Cells
  <2>3. CASE ~row.cells[i].null
    BY <1>1, <2>1, <2>3 DEF Value, Cells
  <2> QED BY <2>2, <2>3
<1>5. (CHOOSE d \in DOMAIN Digits : <<Digits[d]>> = fields[1]) = row.id
  <2>1. \A d \in DOMAIN Digits : <<Digits[d]>> = fields[1] <=> d = row.id
    <3>1. \A x, y : <<x>> = <<y>> <=> x = y
      OBVIOUS
    <3>2. \A d \in DOMAIN Digits : Digits[d] = Digits[row.id] <=> d = row.id
      BY <1>2, DigitsDiffer, Zenon
    <3>3. \A d \in DOMAIN Digits : <<Digits[d]>> = <<Digits[row.id]>> <=> d = row.id
      BY <3>1, <3>2, Zenon
    <3> QED BY <1>1, <3>3, Zenon
  <2> QED BY <1>2, <2>1
<1>6. [i \in DOMAIN schema |-> IF fields[2][i] = "1" THEN NullCell ELSE Value(fields[i + 2])] = row.cells
  BY <1>2, <1>4
<1>7. RowOf("bitmap", schema, fields, n) = [id |-> row.id, cells |-> row.cells]
  BY <1>3, <1>5, <1>6 DEF RowOf
<1> QED BY <1>7 DEF StoredRows, fields

(* The record of a row that fits the schema is taken for that row, unless    *)
(* its ID is that of a row before it.                                        *)
LEMMA RowReads ==
  ASSUME NEW schema \in SchemaValues, NEW row \in StoredRows, RowFits(row, schema),
         NEW before, \A j \in DOMAIN before : /\ before[j].id \in DOMAIN Digits
                                              /\ before[j].id # row.id,
         NEW n
  PROVE  /\ IsRow("bitmap", schema, Fields(row), before)
         /\ RowOf("bitmap", schema, Fields(row), n) = row
<1> DEFINE fields == Fields(row)
<1>1. /\ fields \in Seq(Seq(Characters)) /\ Len(fields) = Len(schema) + 2
      /\ fields[1] = <<Digits[row.id]>> /\ Len(fields[2]) = Len(schema)
      /\ \A i \in DOMAIN schema :
           /\ fields[2][i] = IF row.cells[i].null THEN "1" ELSE "0"
           /\ fields[i + 2] = row.cells[i].payload
  BY FieldsOfRow DEF RowFits
<1> HIDE DEF fields
<1>2. row.id \in DOMAIN Digits /\ row.cells \in Seq(Cells) /\ DOMAIN row.cells = DOMAIN schema
  BY DEF StoredRows, RowFits
<1>3. Offset("bitmap") = 2 /\ Bitmap("bitmap", fields, schema) = fields[2]
  BY DEF Offset, Bitmap
<1>4. ASSUME NEW i \in DOMAIN schema PROVE CellReads(schema[i], fields[2][i], fields[i + 2])
  <2>1. row.cells[i] \in Cells /\ CellFits(row.cells[i], schema[i])
    BY <1>2 DEF RowFits
  <2> QED BY <1>1, <2>1 DEF CellReads, CellFits, Cells
<1>5. IsRow("bitmap", schema, fields, before)
  <2>1. Len(fields[1]) = 1 /\ fields[1][1] = Digits[row.id] /\ fields[1][1] \in Range(Digits)
    BY <1>1, <1>2 DEF Range
  <2>2. \A j \in DOMAIN before : Digits[before[j].id] # fields[1][1]
    BY <1>2, <2>1, DigitsDiffer
  <2>3. RightWidth(fields, Len(schema) + 2)
    BY <1>1 DEF RightWidth
  <2> QED BY <1>1, <1>3, <1>4, <2>1, <2>2, <2>3 DEF IsRow
<1>6. \A i \in DOMAIN schema : row.cells[i].null => row.cells[i].payload = <<>>
  BY DEF RowFits, CellFits
<1>7. RowOf("bitmap", schema, Fields(row), n) = row
  BY <1>2, <1>6, RowOfFields
<1> QED BY <1>5, <1>7 DEF fields

(* A record that is taken for a row is one that fits the schema, with the ID *)
(* that it has or, where records have none, that its place gives it.         *)
TakenForRow(layout, schema, fields, before, n) ==
  /\ schema \in SchemaValues /\ layout \in {"noid", "nobitmap", "bitmap"}
  /\ fields \in Seq(Seq(Characters)) /\ IsRow(layout, schema, fields, before)
  /\ layout = "noid" => n \in DOMAIN Digits
FitsAsRead(row, schema, layout, before, n) ==
  /\ row \in StoredRows /\ RowFits(row, schema)
  /\ layout = "noid" => row.id = n
  /\ layout # "noid" => \A j \in DOMAIN before : before[j].id # row.id
LEMMA RecordFits ==
  ASSUME NEW schema, NEW layout, NEW fields, NEW before, NEW n,
         TakenForRow(layout, schema, fields, before, n)
  PROVE  FitsAsRead(RowOf(layout, schema, fields, n), schema, layout, before, n)
<1> DEFINE row == RowOf(layout, schema, fields, n)
           bitmap == Bitmap(layout, fields, schema)
           off == Offset(layout)
<1>0. /\ schema \in SchemaValues /\ layout \in {"noid", "nobitmap", "bitmap"}
      /\ fields \in Seq(Seq(Characters)) /\ IsRow(layout, schema, fields, before)
      /\ layout = "noid" => n \in DOMAIN Digits
  BY DEF TakenForRow
<1>1. off \in {0, 1, 2} /\ Len(fields) = Len(schema) + off /\ Len(schema) \in Nat
      /\ DOMAIN schema = 1 .. Len(schema) /\ (layout # "noid" => off # 0)
  BY <1>0 DEF Offset, IsRow, RightWidth, SchemaValues
<1>2. \A i \in DOMAIN schema : fields[i + off] \in Seq(Characters)
  BY <1>0, <1>1
<1>3. \E d \in DOMAIN Digits : <<Digits[d]>> = IdField(layout, fields, n)
  <2>1. CASE layout = "noid"
    BY <1>0, <2>1 DEF IdField
  <2>2. CASE layout # "noid"
    <3>1. Len(fields[1]) = 1 /\ fields[1][1] \in Range(Digits) /\ IdField(layout, fields, n) = fields[1]
      BY <1>0, <2>2 DEF IsRow, IdField
    <3>2. fields[1] \in Seq(Characters)
      BY <1>0, <1>1, <2>2
    <3>3. PICK d \in DOMAIN Digits : fields[1][1] = Digits[d]
      BY <3>1 DEF Range
    <3>4. fields[1] = <<Digits[d]>>
      BY <3>1, <3>2, <3>3
    <3> QED BY <3>1, <3>4
  <2> QED BY <2>1, <2>2
<1>4. /\ row.id \in DOMAIN Digits /\ <<Digits[row.id]>> = IdField(layout, fields, n)
      /\ row.cells = [i \in DOMAIN schema |-> IF bitmap[i] = "1" THEN NullCell
                                              ELSE Value(fields[i + off])]
      /\ row = [id |-> row.id, cells |-> row.cells]
  BY <1>3 DEF RowOf
<1>5. \A x, y : <<x>> = <<y>> => x = y
  OBVIOUS
<1>6. layout = "noid" => row.id = n
  BY <1>0, <1>4, <1>5, DigitsDiffer DEF IdField
<1>7. layout # "noid" => \A j \in DOMAIN before : before[j].id # row.id
  <2>1. SUFFICES ASSUME layout # "noid", NEW j \in DOMAIN before PROVE before[j].id # row.id
    OBVIOUS
  <2>2. fields[1] = <<Digits[row.id]>> /\ Digits[before[j].id] # fields[1][1]
    BY <1>0, <1>4, <2>1 DEF IdField, IsRow
  <2>3. Digits[before[j].id] # Digits[row.id]
    BY <2>2
  <2> QED BY <2>3
<1>8. ASSUME NEW i \in DOMAIN schema
      PROVE  row.cells[i] \in Cells /\ CellFits(row.cells[i], schema[i])
  <2>1. CellReads(schema[i], bitmap[i], fields[i + off])
    BY <1>0 DEF IsRow
  <2>2. CASE bitmap[i] = "1"
    <3>1. row.cells[i] = NullCell /\ schema[i].nullable
      BY <1>4, <2>1, <2>2 DEF CellReads
    <3>2. <<>> \in Seq(Characters)
      OBVIOUS
    <3> QED BY <3>1, <3>2 DEF NullCell, Cells, CellFits
  <2>3. CASE bitmap[i] # "1"
    <3>1. row.cells[i] = Value(fields[i + off]) /\ deserializes(fields[i + off], schema[i])
      BY <1>4, <2>1, <2>3 DEF CellReads
    <3> QED BY <1>2, <3>1 DEF Value, Cells, CellFits
  <2> QED BY <2>2, <2>3
<1>9. row.cells \in [1 .. Len(schema) -> Cells] /\ DOMAIN row.cells = DOMAIN schema
  BY <1>1, <1>4, <1>8
<1> HIDE DEF row
<1>10. row.cells \in Seq(Cells)
  BY <1>1, <1>9, FunctionIsSeq, Zenon
<1>11. row \in StoredRows
  BY <1>4, <1>10 DEF StoredRows
<1>12. RowFits(row, schema)
  BY <1>8, <1>9 DEF RowFits
<1>13. FitsAsRead(row, schema, layout, before, n)
  BY <1>6, <1>7, <1>11, <1>12 DEF FitsAsRead
<1> QED BY <1>13 DEF row

(* A row with a new ID fits after the others.                                *)
LEMMA RowsFitAppended ==
  ASSUME NEW schema, NEW rows, RowsFit(rows, schema), NEW row \in StoredRows,
         RowFits(row, schema), \A i \in DOMAIN rows : rows[i].id # row.id
  PROVE  /\ RowsFit(Append(rows, row), schema)
         /\ \A i \in DOMAIN Append(rows, row) :
              Append(rows, row)[i] = row \/ \E j \in DOMAIN rows : Append(rows, row)[i] = rows[j]
<1> DEFINE longer == Append(rows, row)
           n == Len(rows)
<1>1. /\ rows \in Seq(StoredRows) /\ n \in Nat /\ DOMAIN rows = 1..n
      /\ \A k \in DOMAIN rows : rows[k] \in StoredRows /\ RowFits(rows[k], schema)
      /\ \A k, j \in DOMAIN rows : rows[k].id = rows[j].id => k = j
  BY RowsParts DEF RowsFit
<1>2. /\ longer \in Seq(StoredRows) /\ Len(longer) = n + 1
      /\ \A i \in 1..n : longer[i] = rows[i]
      /\ longer[n + 1] = row
  BY <1>1, AppendProperties
<1> HIDE DEF longer, n
<1>3. DOMAIN longer = 1 .. n + 1 /\ \A i \in 1 .. n + 1 : i \in 1..n \/ i = n + 1
  BY <1>1, <1>2
<1>4. \A i \in 1 .. n + 1 : RowFits(longer[i], schema)
  BY <1>1, <1>2, <1>3
<1>5. \A i, j \in 1 .. n + 1 : longer[i].id = longer[j].id => i = j
  BY <1>1, <1>2, <1>3
<1>6. RowsFit(longer, schema)
  BY <1>2, <1>3, <1>4, <1>5 DEF RowsFit
<1>7. \A i \in DOMAIN longer : longer[i] = row \/ \E j \in DOMAIN rows : longer[i] = rows[j]
  BY <1>1, <1>2, <1>3
<1> QED BY <1>6, <1>7 DEF longer

(* The rows without one of them.                                             *)
LEMMA RowRemoved ==
  ASSUME NEW schema \in SchemaValues, NEW rows, RowsFit(rows, schema), NEW i \in DOMAIN rows
  PROVE  LET new == RemoveAt(rows, i)
         IN  /\ RowsFit(new, schema)
             /\ \A k \in DOMAIN new : \E j \in DOMAIN rows : new[k] = rows[j]
<1> DEFINE new == RemoveAt(rows, i)
           front == SubSeq(rows, 1, i - 1)
           back == SubSeq(rows, i + 1, Len(rows))
           n == Len(rows)
           From(k) == IF k < i THEN k ELSE k + 1
<1>1. /\ rows \in Seq(StoredRows) /\ n \in Nat /\ DOMAIN rows = 1..n
      /\ \A k \in DOMAIN rows : rows[k] \in StoredRows /\ RowFits(rows[k], schema)
      /\ \A k, j \in DOMAIN rows : rows[k].id = rows[j].id => k = j
  BY RowsParts DEF RowsFit
<1>2. /\ front \in Seq(StoredRows) /\ Len(front) = i - 1
      /\ \A k \in 1 .. i - 1 : front[k] = rows[k]
  BY <1>1
<1>3. /\ back \in Seq(StoredRows) /\ Len(back) = n - i
      /\ \A k \in 1 .. n - i : back[k] = rows[i + k]
  BY <1>1
<1> HIDE DEF front, back, n
<1>4. new = front \o back
  BY DEF RemoveAt, front, back, n
<1>5. new \in Seq(StoredRows) /\ Len(new) = n - 1 /\ \A k \in 1 .. i - 1 : new[k] = rows[k]
  <2> DEFINE whole == front \o back
  <2>1. /\ whole \in Seq(StoredRows) /\ Len(whole) = Len(front) + Len(back)
        /\ \A k \in 1 .. Len(front) : whole[k] = front[k]
    BY <1>2, <1>3, Joined, Zenon
  <2> HIDE DEF whole
  <2>2. new = whole
    BY <1>4 DEF whole
  <2> HIDE DEF new
  <2> QED BY <1>1, <1>2, <1>3, <2>1, <2>2
<1>6. \A k \in i .. n - 1 : new[k] = rows[k + 1]
  <2> SUFFICES ASSUME NEW k \in i .. n - 1 PROVE new[k] = rows[k + 1]
    OBVIOUS
  <2>1. PICK m \in 1 .. Len(back) : Len(front) + m = k /\ i + m = k + 1 /\ m \in 1 .. n - i
    <3>1. /\ k - i + 1 \in 1 .. Len(back) /\ Len(front) + (k - i + 1) = k
          /\ i + (k - i + 1) = k + 1 /\ k - i + 1 \in 1 .. n - i
      <4>1. i \in 1..n /\ n \in Nat /\ Len(front) = i - 1 /\ Len(back) = n - i
        BY <1>1, <1>2, <1>3
      <4> QED BY <4>1
    <3> QED BY <3>1
  <2>2. (front \o back)[Len(front) + m] = back[m]
    <3>1. front \in Seq(StoredRows) /\ back \in Seq(StoredRows) /\ m \in 1 .. Len(back)
      BY <1>2, <1>3
    <3> QED BY <3>1, JoinedSecond, Zenon
  <2>3. new[Len(front) + m] = back[m]
    BY <1>4, <2>2, Zenon
  <2> HIDE DEF new
  <2> QED BY <1>3, <2>1, <2>3
<1> HIDE DEF new
<1>7. \A k \in 1 .. n - 1 : From(k) \in 1..n /\ new[k] = rows[From(k)]
  BY <1>1, <1>5, <1>6
<1>8. DOMAIN new = 1 .. n - 1 /\ n - 1 \in Nat
  BY <1>1, <1>5
<1>9. \A k, j \in 1 .. n - 1 : From(k) = From(j) => k = j
  BY <1>1
<1> HIDE DEF From
<1>10. RowsFit(new, schema)
  <2>1. \A k \in DOMAIN new : RowFits(new[k], schema)
    BY <1>1, <1>7, <1>8
  <2>2. \A k, j \in DOMAIN new : new[k].id = new[j].id => k = j
    BY <1>1, <1>7, <1>8, <1>9
  <2> QED BY <1>5, <2>1, <2>2 DEF RowsFit
<1>11. \A k \in DOMAIN new : \E j \in DOMAIN rows : new[k] = rows[j]
  BY <1>1, <1>7, <1>8
<1> QED BY <1>10, <1>11 DEF new
=============================================================================
