-------------------------- MODULE CommandLineProofs --------------------------
(***************************************************************************)
(* The command line program, for any words, tables and columns: tables     *)
(* stay usable, row IDs fresh, exports complete, and what is shown can be  *)
(* typed again.                                                            *)
(***************************************************************************)
EXTENDS CommandLine, FormatProofs

-----------------------------------------------------------------------------
(* What the bounds are.                                                      *)
LEMMA MaxIdIsDigit == MaxId \in 1..9 /\ MaxDimension = 9
  BY CommandsAssumption, DigitsDiffer DEF MaxDimension, Digits

-----------------------------------------------------------------------------
(* Table files. *)

Headers(schema) == {Header(schema), [Header(schema) EXCEPT ![1] = "row_id"]}
Files == [header : Seq(Characters), records : Seq(Seq(Seq(Characters)))]

(* Both headers, of tables and of exports, are those of the current layout.  *)
LEMMA HeadersFit ==
  ASSUME NEW schema \in SchemaValues, NEW h \in Headers(schema)
  PROVE  h \in Seq(Characters) /\ Layout(h, schema) = "bitmap" /\ HeaderFits(h, schema)
<1> DEFINE n == Len(schema)
           front == <<"__vrdb_row_id", "__vrdb_null_bitmap">>
           names == Columns(schema)
           header == Header(schema)
<1>1. n \in Nat /\ DOMAIN schema = 1..n /\ \A i \in 1..n : schema[i].name \in ColumnNames
  BY SchemaParts
<1>2. names = [i \in 1..n |-> schema[i].name]
  BY <1>1 DEF Columns
<1>3. names \in [1..n -> Characters]
  BY <1>1, <1>2, CommandsAssumption
<1>4. names \in Seq(Characters) /\ Len(names) = n
  BY <1>1, <1>3, FunctionIsSeq, Zenon
<1>5. /\ front \in Seq(Characters) /\ Len(front) = 2
      /\ front[1] = "__vrdb_row_id" /\ front[2] = "__vrdb_null_bitmap"
  BY CommandsAssumption DEF PhysicalNames
<1> HIDE DEF front, names, n
<1>6. header = front \o names
  BY DEF Header, front, names
<1>7. header \in Seq(Characters) /\ Len(header) = 2 + n /\ header[1] = front[1] /\ header[2] = front[2]
  <2> DEFINE whole == front \o names
  <2>1. whole \in Seq(Characters) /\ Len(whole) = Len(front) + Len(names)
        /\ \A i \in 1 .. Len(front) : whole[i] = front[i]
    BY <1>4, <1>5, Joined, Zenon
  <2> HIDE DEF whole
  <2>2. header = whole
    BY <1>6 DEF whole
  <2> HIDE DEF header
  <2> QED BY <1>1, <1>4, <1>5, <2>1, <2>2
<1>8. \A i \in 1..n : header[i + 2] = schema[i].name
  <2> SUFFICES ASSUME NEW i \in 1..n PROVE header[i + 2] = schema[i].name
    OBVIOUS
  <2>1. i \in 1 .. Len(names) /\ Len(front) + i = i + 2
    BY <1>1, <1>4, <1>5
  <2>2. (front \o names)[Len(front) + i] = names[i]
    <3>1. front \in Seq(Characters) /\ names \in Seq(Characters) /\ i \in 1 .. Len(names)
      BY <1>4, <1>5, <2>1
    <3> QED BY <3>1, JoinedSecond, Zenon
  <2>3. header[Len(front) + i] = schema[i].name
    BY <1>2, <1>6, <2>2, Zenon
  <2> HIDE DEF header
  <2> QED BY <2>1, <2>3
<1> HIDE DEF header
<1>9. /\ h \in Seq(Characters) /\ Len(h) = n + 2 /\ h[1] \in {"__vrdb_row_id", "row_id"}
      /\ h[2] = "__vrdb_null_bitmap" /\ \A i \in 1..n : h[i + 2] = schema[i].name
  <2>1. CASE h = header
    BY <1>1, <1>5, <1>7, <1>8, <2>1
  <2>2. CASE h = [header EXCEPT ![1] = "row_id"]
    <3>1. "row_id" \in Characters /\ DOMAIN header = 1 .. n + 2
      BY <1>1, <1>7, CommandsAssumption
    <3>2. h \in Seq(Characters) /\ Len(h) = n + 2 /\ h[1] = "row_id"
      BY <1>1, <1>7, <2>2, <3>1
    <3>3. \A i \in 2 .. n + 2 : h[i] = header[i]
      BY <1>1, <1>7, <2>2, <3>1
    <3>4. \A i \in 1..n : i + 2 \in 2 .. n + 2
      BY <1>1
    <3> QED BY <1>1, <1>5, <1>7, <1>8, <3>2, <3>3, <3>4
  <2> QED BY <2>1, <2>2 DEF Headers, header
<1>10. Layout(h, schema) = "bitmap"
  BY <1>1, <1>9 DEF Layout, n
<1>11. HeaderFits(h, schema)
  BY <1>1, <1>9, <1>10 DEF HeaderFits, Offset, IdNames, n
<1> QED BY <1>9, <1>10, <1>11

(* The records of rows that fit are read as these rows.                      *)
LEMMA RowsRead ==
  ASSUME NEW schema \in SchemaValues, NEW rows, RowsFit(rows, schema), NEW h \in Headers(schema)
  PROVE  LET file == [header |-> h, records |-> Records(rows)]
         IN  file \in Files /\ ReadRecords(file, schema) = [ok |-> TRUE, rows |-> rows]
<1> DEFINE file == [header |-> h, records |-> Records(rows)]
<1>1. /\ rows \in Seq(StoredRows) /\ \A i, j \in DOMAIN rows : rows[i].id = rows[j].id => i = j
      /\ \A i \in DOMAIN rows : RowFits(rows[i], schema)
  BY DEF RowsFit
<1>2. /\ DOMAIN rows = 1 .. Len(rows) /\ Len(rows) \in Nat
      /\ \A i \in DOMAIN rows : rows[i] \in StoredRows /\ rows[i].id \in DOMAIN Digits
  BY <1>1, RowsParts
<1>3. file.records = [i \in 1 .. Len(rows) |-> Fields(rows[i])] /\ file.header = h
  BY <1>2 DEF Records
<1>4. file \in Files
  <2>1. \A i \in 1 .. Len(rows) : Fields(rows[i]) \in Seq(Seq(Characters))
    BY <1>1, <1>2, FieldsOfRow DEF RowFits
  <2>2. file.records \in [1 .. Len(rows) -> Seq(Seq(Characters))]
    BY <1>3, <2>1
  <2>3. file.records \in Seq(Seq(Seq(Characters)))
    BY <1>2, <2>2, FunctionIsSeq, Zenon
  <2>4. h \in Seq(Characters)
    BY HeadersFit
  <2> QED BY <2>3, <2>4 DEF Files
<1> HIDE DEF file
<1>5. Layout(file.header, schema) = "bitmap" /\ HeaderFits(file.header, schema)
  BY <1>3, HeadersFit
<1>6. \A i \in 1 .. Len(rows) : RowOf("bitmap", schema, file.records[i], i) = rows[i]
  <2> SUFFICES ASSUME NEW i \in 1 .. Len(rows)
               PROVE  RowOf("bitmap", schema, Fields(rows[i]), i) = rows[i]
    BY <1>3
  <2>1. rows[i] \in StoredRows /\ RowFits(rows[i], schema)
    BY <1>1, <1>2
  <2>2. /\ DOMAIN rows[i].cells = DOMAIN schema
        /\ \A j \in DOMAIN schema : rows[i].cells[j].null => rows[i].cells[j].payload = <<>>
    BY <2>1 DEF RowFits, CellFits
  <2> QED BY <2>1, <2>2, RowOfFields, Zenon
<1>7. ASSUME NEW i \in 1 .. Len(rows)
      PROVE  IsRow("bitmap", schema, file.records[i],
                   [j \in 1 .. i - 1 |-> RowOf("bitmap", schema, file.records[j], j)])
  <2> DEFINE before == [j \in 1 .. i - 1 |-> RowOf("bitmap", schema, file.records[j], j)]
  <2>1. rows[i] \in StoredRows /\ RowFits(rows[i], schema)
    BY <1>1, <1>2
  <2>2. \A j \in DOMAIN before : before[j].id \in DOMAIN Digits /\ before[j].id # rows[i].id
    <3> SUFFICES ASSUME NEW j \in DOMAIN before
                 PROVE  before[j].id \in DOMAIN Digits /\ before[j].id # rows[i].id
      OBVIOUS
    <3>1. j \in 1 .. Len(rows) /\ j # i
      BY <1>2
    <3>2. before[j] = rows[j]
      BY <1>6, <3>1
    <3> HIDE DEF before
    <3> QED BY <1>1, <1>2, <3>1, <3>2
  <2> HIDE DEF before
  <2>3. IsRow("bitmap", schema, Fields(rows[i]), before)
    BY <2>1, <2>2, RowReads
  <2>4. file.records[i] = Fields(rows[i])
    BY <1>3
  <2> QED BY <2>3, <2>4 DEF before
<1>8. DOMAIN file.records = 1 .. Len(rows)
  BY <1>3
<1>9. [i \in 1 .. Len(rows) |-> RowOf("bitmap", schema, file.records[i], i)] = rows
  BY <1>1, <1>2, <1>6
<1>10. ReadRecords(file, schema) = [ok |-> TRUE, rows |-> rows]
  BY <1>5, <1>7, <1>8, <1>9 DEF ReadRecords
<1> QED BY <1>4, <1>10 DEF file

(* Whatever is read fits the schema, and rows without an ID are numbered.    *)
LEMMA ReadRowsFit ==
  ASSUME NEW schema \in SchemaValues, NEW file \in Files, ReadRecords(file, schema).ok,
         Layout(file.header, schema) = "noid" => Len(file.records) <= 9
  PROVE  LET data == ReadRecords(file, schema)
         IN  /\ RowsFit(data.rows, schema) /\ Len(data.rows) = Len(file.records)
             /\ data = [ok |-> TRUE, rows |-> data.rows]
             /\ Layout(file.header, schema) = "noid" =>
                  \A i \in DOMAIN data.rows : data.rows[i].id = i
<1> DEFINE layout == Layout(file.header, schema)
           TheRow(i) == RowOf(layout, schema, file.records[i], i)
           n == Len(file.records)
           rows == [i \in 1..n |-> TheRow(i)]
<1>1. n \in Nat /\ DOMAIN file.records = 1..n /\ \A i \in 1..n : file.records[i] \in Seq(Seq(Characters))
  BY DEF Files
<1>2. layout \in {"noid", "nobitmap", "bitmap"}
  BY DEF Layout
<1>3. /\ ReadRecords(file, schema) = [ok |-> TRUE, rows |-> rows]
      /\ \A i \in 1..n : IsRow(layout, schema, file.records[i], [j \in 1 .. i - 1 |-> TheRow(j)])
  BY <1>1 DEF ReadRecords, Refused
<1> HIDE DEF layout
<1>4. ASSUME NEW i \in 1..n
      PROVE  /\ rows[i] \in StoredRows /\ RowFits(rows[i], schema)
             /\ layout = "noid" => rows[i].id = i
             /\ layout # "noid" => \A j \in 1 .. i - 1 : rows[j].id # rows[i].id
  <2> DEFINE before == [j \in 1 .. i - 1 |-> TheRow(j)]
             fields == file.records[i]
  <2>1. layout = "noid" => i \in DOMAIN Digits
    BY <1>1, DigitsDiffer DEF layout
  <2>2. fields \in Seq(Seq(Characters)) /\ IsRow(layout, schema, fields, before)
    BY <1>1, <1>3
  <2> HIDE DEF before, fields
  <2>3. TakenForRow(layout, schema, fields, before, i)
    BY <1>2, <2>1, <2>2 DEF TakenForRow
  <2>4. FitsAsRead(RowOf(layout, schema, fields, i), schema, layout, before, i)
    BY <2>3, RecordFits, Zenon
  <2>5. rows[i] = RowOf(layout, schema, fields, i)
    BY DEF fields
  <2>6. FitsAsRead(rows[i], schema, layout, before, i)
    BY <2>4, <2>5
  <2>7. DOMAIN before = 1 .. i - 1 /\ \A j \in 1 .. i - 1 : before[j] = rows[j]
    BY <1>1 DEF before
  <2> HIDE DEF rows
  <2> QED BY <2>6, <2>7 DEF FitsAsRead
<1>5. rows \in Seq(StoredRows) /\ DOMAIN rows = 1..n /\ Len(rows) = n
  <2>1. rows \in [1..n -> StoredRows]
    BY <1>4
  <2> HIDE DEF rows
  <2> QED BY <1>1, <2>1, FunctionIsSeq, Zenon
<1> HIDE DEF rows
<1>6. ASSUME NEW i \in 1..n, NEW j \in 1..n, rows[i].id = rows[j].id PROVE i = j
  <2>1. CASE layout = "noid"
    BY <1>4, <1>6, <2>1
  <2>2. CASE layout # "noid"
    <3>1. ASSUME NEW k \in 1..n, NEW m \in 1..n, k < m PROVE rows[k].id # rows[m].id
      <4>1. k \in 1 .. m - 1
        BY <1>1, <3>1
      <4> QED BY <1>4, <2>2, <4>1
    <3>2. i < j \/ j < i \/ i = j
      BY <1>1
    <3> QED BY <1>6, <3>1, <3>2
  <2> QED BY <2>1, <2>2
<1>7. RowsFit(rows, schema)
  BY <1>4, <1>5, <1>6 DEF RowsFit
<1> QED BY <1>3, <1>4, <1>5, <1>7 DEF layout

(* A row is appended in the current layout: it is read after the others.     *)
LEMMA RowAppended ==
  ASSUME NEW schema \in SchemaValues, NEW file \in Files, ReadRecords(file, schema).ok,
         Layout(file.header, schema) = "bitmap", NEW row \in StoredRows, RowFits(row, schema),
         \A i \in DOMAIN ReadRecords(file, schema).rows :
           ReadRecords(file, schema).rows[i].id # row.id
  PROVE  LET g == [file EXCEPT !.records = Append(@, Fields(row))]
         IN  /\ g \in Files /\ g.header = file.header
             /\ ReadRecords(g, schema)
                  = [ok |-> TRUE, rows |-> Append(ReadRecords(file, schema).rows, row)]
<1> DEFINE g == [file EXCEPT !.records = Append(@, Fields(row))]
           TheRow(f, i) == RowOf("bitmap", schema, f.records[i], i)
           n == Len(file.records)
           rows == ReadRecords(file, schema).rows
<1>1. /\ RowsFit(rows, schema) /\ Len(rows) = n
  BY ReadRowsFit
<1>2. /\ file.records \in Seq(Seq(Seq(Characters))) /\ n \in Nat
      /\ DOMAIN file.records = 1..n
  BY DEF Files
<1>3. rows = [i \in 1..n |-> TheRow(file, i)]
  BY <1>2 DEF ReadRecords, Refused
<1>4. /\ HeaderFits(file.header, schema)
      /\ \A i \in 1..n : IsRow("bitmap", schema, file.records[i],
                               [j \in 1 .. i - 1 |-> TheRow(file, j)])
  BY <1>2 DEF ReadRecords, Refused
<1>5. Fields(row) \in Seq(Seq(Characters))
  BY FieldsOfRow DEF RowFits
<1>6. g.records = Append(file.records, Fields(row)) /\ g.header = file.header
  BY DEF Files
<1>7. /\ g.records \in Seq(Seq(Seq(Characters))) /\ Len(g.records) = n + 1
      /\ \A i \in 1..n : g.records[i] = file.records[i]
      /\ g.records[n + 1] = Fields(row)
  <2> DEFINE longer == Append(file.records, Fields(row))
  <2>1. /\ longer \in Seq(Seq(Seq(Characters))) /\ Len(longer) = n + 1
        /\ \A i \in 1..n : longer[i] = file.records[i]
        /\ longer[n + 1] = Fields(row)
    BY <1>2, <1>5, AppendProperties
  <2> HIDE DEF longer
  <2>2. g.records = longer
    BY <1>6 DEF longer
  <2> QED BY <2>1, <2>2
<1>8. g \in Files
  BY <1>7 DEF Files
<1> HIDE DEF g, n, rows
<1>9. \A i \in 1..n : TheRow(g, i) = rows[i] /\ TheRow(g, i) = TheRow(file, i)
  BY <1>3, <1>7
<1>10. rows \in Seq(StoredRows) /\ DOMAIN rows = 1..n
       /\ \A i \in 1..n : rows[i].id \in DOMAIN Digits /\ rows[i].id # row.id
  BY <1>1, RowsParts DEF RowsFit, rows
<1> DEFINE before == [j \in 1..n |-> TheRow(g, j)]
<1>11. \A j \in DOMAIN before : before[j].id \in DOMAIN Digits /\ before[j].id # row.id
  <2> SUFFICES ASSUME NEW j \in 1..n PROVE before[j].id \in DOMAIN Digits /\ before[j].id # row.id
    OBVIOUS
  <2>1. before[j] = rows[j]
    BY <1>9
  <2> HIDE DEF before
  <2> QED BY <1>10, <2>1
<1> HIDE DEF before
<1>12. IsRow("bitmap", schema, g.records[n + 1], before) /\ TheRow(g, n + 1) = row
  <2>1. IsRow("bitmap", schema, Fields(row), before)
    BY <1>11, RowReads
  <2>2. RowOf("bitmap", schema, Fields(row), n + 1) = row
    BY <1>11, RowReads
  <2> QED BY <1>7, <2>1, <2>2
<1>13. ASSUME NEW i \in 1 .. n + 1
       PROVE  IsRow("bitmap", schema, g.records[i], [j \in 1 .. i - 1 |-> TheRow(g, j)])
  <2>1. CASE i = n + 1
    <3>1. [j \in 1 .. i - 1 |-> TheRow(g, j)] = before
      BY <1>2, <2>1 DEF before
    <3> QED BY <1>12, <2>1, <3>1
  <2>2. CASE i \in 1..n
    <3>1. \A j \in 1 .. i - 1 : TheRow(g, j) = TheRow(file, j)
      BY <1>2, <1>9, <2>2
    <3>2. [j \in 1 .. i - 1 |-> TheRow(g, j)] = [j \in 1 .. i - 1 |-> TheRow(file, j)]
      BY <3>1
    <3> HIDE DEF TheRow
    <3> QED BY <1>4, <1>7, <2>2, <3>2 DEF TheRow
  <2> QED BY <1>2, <2>1, <2>2
<1>14. DOMAIN g.records = 1 .. n + 1
  BY <1>2, <1>7
<1>15. [i \in 1 .. n + 1 |-> TheRow(g, i)] = Append(rows, row)
  <2> DEFINE longer == Append(rows, row)
             all == [i \in 1 .. n + 1 |-> TheRow(g, i)]
  <2> SUFFICES all = longer
    OBVIOUS
  <2>1. /\ longer \in Seq(StoredRows) /\ Len(longer) = Len(rows) + 1
        /\ \A i \in 1 .. Len(rows) : longer[i] = rows[i]
        /\ longer[Len(rows) + 1] = row
    BY <1>10, AppendProperties
  <2>2. Len(rows) = n
    BY <1>2, <1>10
  <2> HIDE DEF longer, TheRow
  <2> DEFINE same == [i \in 1 .. n + 1 |-> longer[i]]
  <2>3. longer = same
    BY <1>2, <2>1, <2>2
  <2>4. \A i \in 1 .. n + 1 : TheRow(g, i) = longer[i]
    BY <1>2, <1>9, <1>12, <2>1, <2>2
  <2>5. all = same
    BY <2>4
  <2> HIDE DEF all, same
  <2> QED BY <2>3, <2>5
<1>16. ReadRecords(g, schema) = [ok |-> TRUE, rows |-> Append(rows, row)]
  <2> DEFINE all == [i \in DOMAIN g.records |-> TheRow(g, i)]
  <2>1. ReadRecords(g, schema) = [ok |-> TRUE, rows |-> all]
    BY <1>4, <1>6, <1>13, <1>14 DEF ReadRecords
  <2>2. all = [i \in 1 .. n + 1 |-> TheRow(g, i)]
    BY <1>14
  <2> HIDE DEF all, TheRow
  <2>3. all = Append(rows, row)
    BY <1>15, <2>2
  <2> QED BY <2>1, <2>3
<1> QED BY <1>6, <1>8, <1>16 DEF g, rows

(* One row with other cells.                                                 *)
LEMMA RowReplaced ==
  ASSUME NEW schema \in SchemaValues, NEW rows, RowsFit(rows, schema), NEW i \in DOMAIN rows,
         NEW cells, [id |-> rows[i].id, cells |-> cells] \in StoredRows,
         RowFits([id |-> rows[i].id, cells |-> cells], schema)
  PROVE  LET new == [rows EXCEPT ![i].cells = cells]
         IN  /\ RowsFit(new, schema) /\ Len(new) = Len(rows)
             /\ \A k \in DOMAIN new : new[k].id = rows[k].id
<1> DEFINE new == [rows EXCEPT ![i].cells = cells]
           other == [id |-> rows[i].id, cells |-> cells]
<1>1. /\ rows \in Seq(StoredRows) /\ Len(rows) \in Nat /\ DOMAIN rows = 1 .. Len(rows)
      /\ \A k \in DOMAIN rows : rows[k] \in StoredRows /\ RowFits(rows[k], schema)
      /\ \A k, j \in DOMAIN rows : rows[k].id = rows[j].id => k = j
  BY RowsParts DEF RowsFit
<1>2. new = [k \in DOMAIN rows |-> IF k = i THEN other ELSE rows[k]]
  <2>1. [rows[i] EXCEPT !.cells = cells] = other
    BY <1>1 DEF StoredRows
  <2> QED BY <2>1
<1>3. other.id = rows[i].id /\ other \in StoredRows /\ RowFits(other, schema)
  OBVIOUS
<1> HIDE DEF new, other
<1>4. \A k \in DOMAIN rows : /\ new[k] \in StoredRows /\ RowFits(new[k], schema)
                             /\ new[k].id = rows[k].id
  BY <1>1, <1>2, <1>3
<1>5. new \in Seq(StoredRows) /\ Len(new) = Len(rows) /\ DOMAIN new = DOMAIN rows
  <2>1. new \in [1 .. Len(rows) -> StoredRows]
    BY <1>1, <1>2, <1>4
  <2> QED BY <1>1, <2>1, FunctionIsSeq, Zenon
<1>6. RowsFit(new, schema)
  BY <1>1, <1>4, <1>5 DEF RowsFit
<1> QED BY <1>4, <1>5, <1>6 DEF new

-----------------------------------------------------------------------------
(* Words. *)

(* Digits are none of the tokens that mean something else.                   *)
LEMMA DigitTokens ==
  \A i \in DOMAIN Digits : Digits[i] \notin {"0", "+", "N", Backslash, ":"} /\ Upper(Digits[i]) = Digits[i]
  BY DEF Digits, Backslash, Upper

(* Words that begin with a token.                                            *)
LEMMA StartsWith ==
  ASSUME NEW word \in Seq(Characters), NEW c
  PROVE  IsPrefix(<<c>>, word) <=> Len(word) > 0 /\ word[1] = c
<1> DEFINE one == <<c>>
           front == SubSeq(word, 1, 1)
<1>1. Len(word) \in Nat /\ Len(one) = 1 /\ one[1] = c /\ one = [i \in 1..1 |-> one[i]]
  OBVIOUS
<1>2. SubSeq(one, 1, 1) = one
  <2>1. SubSeq(one, 1, 1) = [i \in 1..1 |-> one[i]]
    OBVIOUS
  <2> QED BY <1>1, <2>1
<1>3. ASSUME Len(word) > 0
      PROVE  Len(front) = 1 /\ front[1] = word[1] /\ front = [i \in 1..1 |-> front[i]]
  <2>1. front = [i \in 1..1 |-> word[i]]
    BY <1>3
  <2> QED BY <2>1
<1> HIDE DEF one, front
<1>4. Len(word) > 0 => (one = front <=> word[1] = c)
  BY <1>1, <1>3
<1>5. IsPrefix(one, word) <=> Len(word) > 0 /\ one = front
  BY <1>1, <1>2 DEF IsPrefix, front
<1> QED BY <1>4, <1>5 DEF one

(* Words that begin with a token twice.                                      *)
LEMMA StartsWithTwo ==
  ASSUME NEW word \in Seq(Characters), NEW c, Len(word) > 1, word[1] = c, word[2] = c
  PROVE  IsPrefix(<<c, c>>, word)
<1> DEFINE two == <<c, c>>
           front == SubSeq(word, 1, 2)
<1>1. Len(word) \in Nat /\ Len(two) = 2 /\ two = [i \in 1..2 |-> c]
  OBVIOUS
<1>2. SubSeq(two, 1, 2) = two
  <2>1. SubSeq(two, 1, 2) = [i \in 1..2 |-> two[i]]
    OBVIOUS
  <2> QED BY <1>1, <2>1
<1>3. front = [i \in 1..2 |-> c]
  <2>1. \A i \in 1..2 : word[i] = c
    OBVIOUS
  <2>2. Len(front) = 2 /\ front \in Seq(Characters) /\ \A i \in 1..2 : front[i] = word[i]
    BY <1>1
  <2> HIDE DEF front
  <2> QED BY <2>1, <2>2
<1> HIDE DEF two, front
<1> QED BY <1>1, <1>2, <1>3 DEF IsPrefix, two, front

(* What is left of a word without its sign or its escape.                    *)
LEMMA Unescaped ==
  ASSUME NEW word \in Seq(Characters)
  PROVE  Unsigned(word) \in Seq(Characters) /\ Text(word) \in Seq(Characters)
<1>1. word # <<>> => Tail(word) \in Seq(Characters)
  OBVIOUS
<1>2. IsPrefix(<<Backslash>>, word) => word # <<>>
  BY StartsWith
<1> QED BY <1>1, <1>2 DEF Unsigned, Text

(* A word that parseCell takes gives a cell that fits its column, once       *)
(* Schema::validateRow has passed it.                                        *)
LEMMA CellParsed ==
  ASSUME NEW column \in ColumnValues, NEW word \in Seq(Characters), IsCell(word, column),
         NEW cell, cell = parseCell(word, column),
         IF cell.null THEN column.nullable
         ELSE column.type = "VECTOR" => cell.payload = <<"vec">>
  PROVE  cell \in Cells /\ CellFits(cell, column)
<1>1. column.type \in {"INTEGER", "TEXT", "VECTOR"}
  BY DEF ColumnValues
<1>2. <<>> \in Seq(Characters) /\ <<"vec">> \in Seq(Characters) /\ <<"vec3">> \in Seq(Characters)
  BY CommandsAssumption
<1>3. CASE word = NullWord
  BY <1>2, <1>3 DEF parseCell, NullCell, Cells, CellFits
<1>4. CASE word # NullWord
  <2> DEFINE payload == CASE column.type = "INTEGER" -> Unsigned(word)
                          [] column.type = "TEXT" -> Text(word)
                          [] column.type = "VECTOR" ->
                               IF Coordinates(word) = column.dimension THEN <<"vec">> ELSE <<"vec3">>
  <2>1. cell = Value(payload)
    BY <1>4 DEF parseCell
  <2>2. payload \in Seq(Characters) /\ (column.type = "INTEGER" => IsNumber(payload))
    <3>1. CASE column.type = "INTEGER"
      <4>1. payload = Unsigned(word)
        BY <3>1
      <4> HIDE DEF payload
      <4>2. IsNumber(Unsigned(word))
        BY <1>4, <3>1 DEF IsCell
      <4> QED BY <4>1, <4>2, Unescaped
    <3>2. CASE column.type = "TEXT"
      <4>1. payload = Text(word)
        BY <3>2
      <4> HIDE DEF payload
      <4> QED BY <3>2, <4>1, Unescaped
    <3>3. CASE column.type = "VECTOR"
      <4>1. payload \in {<<"vec">>, <<"vec3">>}
        BY <3>3
      <4> HIDE DEF payload
      <4> QED BY <1>2, <3>3, <4>1
    <3> HIDE DEF payload
    <3> QED BY <1>1, <3>1, <3>2, <3>3
  <2> HIDE DEF payload
  <2>3. cell.null = FALSE /\ cell.payload = payload /\ cell = [null |-> FALSE, payload |-> payload]
    BY <2>1 DEF Value
  <2>4. deserializes(payload, column)
    BY <1>1, <2>2, <2>3 DEF deserializes
  <2> QED BY <2>2, <2>3, <2>4 DEF Cells, CellFits
<1> QED BY <1>3, <1>4

(* The words of an insert or update, once validated, make a row that fits.   *)
LEMMA RowParsed ==
  ASSUME NEW schema \in SchemaValues, NEW words \in Seq(Seq(Characters)), AreCells(words, schema),
         validateRow(parseRowValues(words, schema), schema), NEW id \in DOMAIN Digits
  PROVE  LET row == [id |-> id, cells |-> parseRowValues(words, schema)]
         IN  row \in StoredRows /\ RowFits(row, schema)
<1> DEFINE cells == parseRowValues(words, schema)
           row == [id |-> id, cells |-> cells]
<1>1. /\ Len(schema) \in Nat /\ DOMAIN schema = 1 .. Len(schema)
      /\ \A i \in DOMAIN schema : schema[i] \in ColumnValues
  BY SchemaParts
<1>2. \A i \in DOMAIN schema : words[i] \in Seq(Characters) /\ IsCell(words[i], schema[i])
  BY <1>1 DEF AreCells
<1>3. cells = [i \in DOMAIN schema |-> parseCell(words[i], schema[i])]
  BY DEF parseRowValues
<1> HIDE DEF cells
<1>4. ASSUME NEW i \in DOMAIN schema
      PROVE  cells[i] \in Cells /\ CellFits(cells[i], schema[i])
  <2>1. cells[i] = parseCell(words[i], schema[i])
    BY <1>3
  <2>2. IF cells[i].null THEN schema[i].nullable
        ELSE schema[i].type = "VECTOR" => cells[i].payload = <<"vec">>
    BY DEF validateRow, cells
  <2> QED BY <1>1, <1>2, <2>1, <2>2, CellParsed
<1>5. cells \in Seq(Cells) /\ DOMAIN cells = DOMAIN schema
  <2>1. cells \in [1 .. Len(schema) -> Cells]
    BY <1>1, <1>3, <1>4
  <2> QED BY <1>1, <2>1, FunctionIsSeq, Zenon
<1>6. row.id = id /\ row.cells = cells /\ row \in StoredRows
  BY <1>5 DEF StoredRows
<1> HIDE DEF row
<1>7. RowFits(row, schema)
  BY <1>4, <1>5, <1>6 DEF RowFits
<1> QED BY <1>6, <1>7 DEF row, cells

-----------------------------------------------------------------------------
(* Words for cells. *)

(* The tokens of the word for vectors of a dimension.                        *)
LEMMA VectorWordTokens ==
  ASSUME NEW n \in Nat \ {0}
  PROVE  LET word == VectorWord(n)
         IN  /\ DOMAIN word = 1 .. 2 * n + 1 /\ Len(word) = 2 * n + 1
             /\ word[1] = "[" /\ word[2 * n + 1] = "]" /\ Last(word) = "]" /\ Head(word) = "["
             /\ \A k \in 1..n : word[2 * k] = "1"
             /\ \A k \in 1 .. n - 1 : word[2 * k + 1] = Comma
<1> DEFINE word == VectorWord(n)
<1>1. \A k \in 1..n : 2 * k \in 1 .. 2 * n + 1 /\ 2 * k # 1 /\ 2 * k # 2 * n + 1 /\ (2 * k) % 2 = 0
  OBVIOUS
<1>2. \A k \in 1 .. n - 1 : /\ 2 * k + 1 \in 1 .. 2 * n + 1 /\ 2 * k + 1 # 1 /\ 2 * k + 1 # 2 * n + 1
                            /\ (2 * k + 1) % 2 # 0
  OBVIOUS
<1>3. 2 * n + 1 \in Nat /\ 2 * n + 1 # 1 /\ 1 \in 1 .. 2 * n + 1 /\ 2 * n + 1 \in 1 .. 2 * n + 1
  OBVIOUS
<1>4. word = [i \in 1 .. 2 * n + 1 |-> CASE i = 1 -> "["
                                         [] i = 2 * n + 1 -> "]"
                                         [] i \notin {1, 2 * n + 1} /\ i % 2 = 0 -> "1"
                                         [] OTHER -> Comma]
  BY DEF VectorWord
<1> HIDE DEF word
<1>5. DOMAIN word = 1 .. 2 * n + 1 /\ word[1] = "[" /\ word[2 * n + 1] = "]"
  BY <1>3, <1>4
<1>6. \A k \in 1..n : word[2 * k] = "1"
  BY <1>1, <1>4
<1>7. \A k \in 1 .. n - 1 : word[2 * k + 1] = Comma
  BY <1>2, <1>4
<1>8. Len(word) = 2 * n + 1
  BY <1>3, <1>4
<1>9. Last(word) = "]" /\ Head(word) = "["
  BY <1>5, <1>8 DEF Last
<1> QED BY <1>5, <1>6, <1>7, <1>8, <1>9 DEF word

(* That word is a vector of that dimension.                                  *)
LEMMA VectorCanBeTyped ==
  ASSUME NEW n \in Nat \ {0}
  PROVE  /\ IsVector(VectorWord(n)) /\ Coordinates(VectorWord(n)) = n
         /\ VectorWord(n) # NullWord
<1> DEFINE word == VectorWord(n)
<1>1. /\ DOMAIN word = 1 .. 2 * n + 1 /\ Len(word) = 2 * n + 1
      /\ word[1] = "[" /\ word[2 * n + 1] = "]" /\ Last(word) = "]" /\ Head(word) = "["
      /\ \A k \in 1..n : word[2 * k] = "1"
      /\ \A k \in 1 .. n - 1 : word[2 * k + 1] = Comma
  BY VectorWordTokens
<1> HIDE DEF word
<1>2. "1" \in Range(Digits) /\ "1" # Comma /\ Comma # "[" /\ Comma # "]"
  <2>1. Digits[1] = "1" /\ 1 \in DOMAIN Digits
    BY DEF Digits
  <2> QED BY <2>1 DEF Range, Comma
<1>3. ASSUME NEW i \in 2 .. 2 * n
      PROVE  \/ \E k \in 1..n : i = 2 * k
             \/ \E k \in 1 .. n - 1 : i = 2 * k + 1 /\ i - 1 = 2 * k /\ i + 1 = 2 * (k + 1)
  <2>1. PICK k \in Int : i = 2 * k \/ i = 2 * k + 1
    <3>1. i = 2 * (i \div 2) + (i % 2) /\ i % 2 \in {0, 1} /\ i \div 2 \in Int
      OBVIOUS
    <3> QED BY <3>1
  <2>2. CASE i = 2 * k
    <3>1. k \in 1..n
      BY <2>1, <2>2
    <3> QED BY <2>2, <3>1
  <2>3. CASE i = 2 * k + 1
    <3>1. k \in 1 .. n - 1 /\ i - 1 = 2 * k /\ i + 1 = 2 * (k + 1)
      BY <2>1, <2>3
    <3> QED BY <2>3, <3>1
  <2> QED BY <2>1, <2>2, <2>3
<1>4. IsVector(word)
  <2>1. ASSUME NEW i \in 2 .. Len(word) - 1
        PROVE  IF word[i] = Comma THEN {word[i - 1], word[i + 1]} \subseteq Range(Digits)
               ELSE word[i] \in Range(Digits)
    <3>1. i \in 2 .. 2 * n
      BY <1>1
    <3>2. CASE \E k \in 1..n : i = 2 * k
      BY <1>1, <1>2, <3>2
    <3>3. CASE \E k \in 1 .. n - 1 : i = 2 * k + 1 /\ i - 1 = 2 * k /\ i + 1 = 2 * (k + 1)
      <4>1. PICK k \in 1 .. n - 1 : i = 2 * k + 1 /\ i - 1 = 2 * k /\ i + 1 = 2 * (k + 1)
        BY <3>3
      <4>2. word[i - 1] = "1" /\ word[i + 1] = "1"
        <5>1. k \in 1..n /\ k + 1 \in 1..n
          OBVIOUS
        <5>2. word[2 * k] = "1" /\ word[2 * (k + 1)] = "1"
          BY <1>1, <5>1
        <5> QED BY <4>1, <5>2
      <4> QED BY <1>1, <1>2, <4>1, <4>2
    <3> QED BY <1>3, <3>1, <3>2, <3>3
  <2> QED BY <1>1, <2>1 DEF IsVector
<1> DEFINE commas == {i \in DOMAIN word : word[i] = Comma}
           Place == [k \in 1 .. n - 1 |-> 2 * k + 1]
<1>5. ASSUME NEW i \in commas PROVE \E k \in 1 .. n - 1 : i = 2 * k + 1
  <2>1. i \in 2 .. 2 * n
    <3>1. i \in 1 .. 2 * n + 1 /\ word[i] = Comma
      BY <1>1
    <3>2. i # 1 /\ i # 2 * n + 1
      BY <1>1, <1>2, <3>1
    <3> QED BY <3>1, <3>2
  <2>2. ~ \E k \in 1..n : i = 2 * k
    BY <1>1, <1>2
  <2> QED BY <1>3, <2>1, <2>2
<1>6. Cardinality(commas) = n - 1
  <2>1. \A k \in 1 .. n - 1 : Place[k] = 2 * k + 1 /\ Place[k] \in commas
    <3>1. \A k \in 1 .. n - 1 : 2 * k + 1 \in 1 .. 2 * n + 1
      OBVIOUS
    <3> QED BY <1>1, <3>1
  <2>2. Place \in [1 .. n - 1 -> commas]
    BY <2>1
  <2>3. \A k, m \in 1 .. n - 1 : Place[k] = Place[m] => k = m
    BY <2>1
  <2>4. \A i \in commas : \E k \in 1 .. n - 1 : Place[k] = i
    BY <1>5, <2>1
  <2> HIDE DEF Place, commas
  <2>5. Place \in Bijection(1 .. n - 1, commas)
    BY <2>2, <2>3, <2>4 DEF Bijection, Injection, Surjection, IsInjective
  <2>6. ExistsBijection(1 .. n - 1, commas)
    BY <2>5 DEF ExistsBijection
  <2>7. n - 1 \in Nat
    OBVIOUS
  <2> QED BY <2>6, <2>7, FS_CountingElements
<1>7. Coordinates(word) = n
  <2>1. Len(word) # 2
    BY <1>1
  <2>2. Coordinates(word) = 1 + Cardinality(commas)
    BY <2>1 DEF Coordinates
  <2> HIDE DEF commas
  <2> QED BY <1>6, <2>2
<1>8. word # NullWord
  <2>1. NullWord[1] # "["
    BY DEF NullWord, Backslash
  <2> QED BY <1>1, <2>1
<1> QED BY <1>4, <1>7, <1>8 DEF word

(* A text that begins with a backslash can be typed with one more.           *)
LEMMA BackslashedText ==
  ASSUME NEW text \in Seq(Characters), IsPrefix(<<Backslash>>, text)
  PROVE  LET word == <<Backslash>> \o text
         IN  /\ IsPrefix(<<Backslash>>, word) /\ IsPrefix(<<Backslash, Backslash>>, word)
             /\ word # NullWord /\ Tail(word) = text
<1> DEFINE one == <<Backslash>>
           word == <<Backslash>> \o text
<1>1. Len(text) \in Nat /\ Len(text) > 0 /\ text[1] = Backslash
  BY StartsWith
<1>2. one \in Seq(Characters) /\ Len(one) = 1 /\ one[1] = Backslash
  <2>1. text[1] \in Characters
    BY <1>1
  <2> QED BY <1>1, <2>1
<1> HIDE DEF one
<1>3. /\ word \in Seq(Characters) /\ Len(word) = 1 + Len(text) /\ word[1] = Backslash
      /\ \A i \in 1 .. Len(text) : word[i + 1] = text[i]
  <2> DEFINE whole == one \o text
  <2>1. /\ whole \in Seq(Characters) /\ Len(whole) = Len(one) + Len(text)
        /\ \A i \in 1 .. Len(one) : whole[i] = one[i]
    BY <1>2, Joined, Zenon
  <2>2. \A i \in 1 .. Len(text) : whole[Len(one) + i] = text[i]
    <3>1. one \in Seq(Characters)
      BY <1>2
    <3> QED BY <3>1, JoinedSecond, Zenon
  <2> HIDE DEF whole
  <2>3. word = whole
    BY DEF whole, one
  <2> HIDE DEF word
  <2> QED BY <1>1, <1>2, <2>1, <2>2, <2>3
<1> HIDE DEF word
<1>4. word[2] = Backslash /\ Len(word) > 1
  BY <1>1, <1>3
<1>5. IsPrefix(<<Backslash>>, word) /\ IsPrefix(<<Backslash, Backslash>>, word)
  BY <1>1, <1>3, <1>4, StartsWith, StartsWithTwo
<1>6. word # NullWord
  <2>1. NullWord[2] # Backslash
    BY DEF NullWord, Backslash
  <2> QED BY <1>4, <2>1
<1>7. Tail(word) = text
  BY <1>1, <1>3
<1> QED BY <1>5, <1>6, <1>7 DEF word

(* A cell that fits its column has a word that is read as this cell.         *)
LEMMA CellCanBeTyped ==
  ASSUME NEW column \in ColumnValues, validate(column), NEW cell \in Cells,
         CellFits(cell, column)
  PROVE  /\ IsCell(Typed(cell, column), column)
         /\ parseCell(Typed(cell, column), column) = cell
<1> DEFINE word == Typed(cell, column)
<1>1. /\ cell = [null |-> cell.null, payload |-> cell.payload] /\ cell.null \in BOOLEAN
      /\ cell.payload \in Seq(Characters) /\ column.type \in {"INTEGER", "TEXT", "VECTOR"}
  BY DEF Cells, ColumnValues
<1>2. NullWord[1] = Backslash /\ NullWord # <<>>
  BY DEF NullWord
<1>3. CASE cell.null
  <2>1. word = NullWord
    BY <1>3 DEF Typed
  <2>2. cell = NullCell
    <3>1. cell.null = TRUE /\ cell.payload = <<>>
      BY <1>1, <1>3 DEF CellFits
    <3> QED BY <1>1, <3>1 DEF NullCell
  <2> HIDE DEF word
  <2> QED BY <2>1, <2>2 DEF IsCell, parseCell, word
<1>4. ASSUME ~cell.null PROVE cell = Value(cell.payload) /\ deserializes(cell.payload, column)
  <2>1. cell.null = FALSE
    BY <1>1, <1>4
  <2> QED BY <1>1, <1>4, <2>1 DEF Value, CellFits
<1>5. CASE ~cell.null /\ column.type = "VECTOR"
  <2>1. word = VectorWord(column.dimension)
    BY <1>5 DEF Typed
  <2>2. column.dimension \in Nat \ {0}
    BY <1>5 DEF validate, ColumnValues
  <2>3. IsVector(word) /\ Coordinates(word) = column.dimension /\ word # NullWord
    BY <2>1, <2>2, VectorCanBeTyped
  <2>4. cell.payload = <<"vec">>
    BY <1>4, <1>5 DEF deserializes
  <2> HIDE DEF word
  <2>5. IsCell(word, column) /\ parseCell(word, column) = Value(<<"vec">>)
    BY <1>5, <2>3 DEF IsCell, parseCell
  <2> QED BY <1>4, <1>5, <2>4, <2>5 DEF word
<1>6. CASE ~cell.null /\ column.type = "INTEGER"
  <2>1. word = cell.payload
    BY <1>6 DEF Typed
  <2>2. IsNumber(cell.payload)
    BY <1>4, <1>6 DEF deserializes
  <2>3. Len(word) \in Nat /\ Len(word) > 0 /\ Head(word) = word[1]
    BY <1>1, <2>1, <2>2 DEF IsNumber
  <2>4. word[1] \in Range(Digits)
    BY <1>1, <2>1, <2>2, <2>3 DEF IsNumber
  <2>5. word[1] # "+" /\ word[1] # Backslash
    <3>1. PICK d \in DOMAIN Digits : word[1] = Digits[d]
      BY <2>4 DEF Range
    <3> QED BY <3>1, DigitTokens
  <2> HIDE DEF word
  <2>6. word # NullWord /\ Unsigned(word) = word
    BY <1>2, <2>3, <2>5 DEF Unsigned
  <2>7. IsCell(word, column) /\ parseCell(word, column) = Value(word)
    BY <1>6, <2>1, <2>2, <2>6 DEF IsCell, parseCell
  <2> QED BY <1>4, <1>6, <2>1, <2>7 DEF word
<1>7. CASE ~cell.null /\ column.type = "TEXT"
  <2> DEFINE text == cell.payload
  <2>1. word = IF IsPrefix(<<Backslash>>, text) THEN <<Backslash>> \o text ELSE text
    BY <1>7 DEF Typed
  <2>2. CASE IsPrefix(<<Backslash>>, text)
    <3>1. /\ IsPrefix(<<Backslash>>, word) /\ IsPrefix(<<Backslash, Backslash>>, word)
          /\ word # NullWord /\ Tail(word) = text
      BY <1>1, <2>1, <2>2, BackslashedText
    <3> HIDE DEF word, text
    <3>2. IsCell(word, column) /\ parseCell(word, column) = Value(text)
      BY <1>7, <3>1 DEF IsCell, parseCell, Text
    <3> QED BY <1>4, <1>7, <3>2 DEF word, text
  <2>3. CASE ~IsPrefix(<<Backslash>>, text)
    <3>1. word = text /\ text # NullWord
      <4>1. IsPrefix(<<Backslash>>, NullWord)
        BY DEF NullWord, IsPrefix
      <4> QED BY <2>1, <2>3, <4>1
    <3> HIDE DEF word
    <3>2. IsCell(word, column) /\ parseCell(word, column) = Value(text)
      BY <1>7, <2>3, <3>1 DEF IsCell, parseCell, Text
    <3> QED BY <1>4, <1>7, <3>2 DEF word
  <2> QED BY <2>2, <2>3
<1> QED BY <1>1, <1>3, <1>5, <1>6, <1>7

(* A digit is the number that it is in row IDs.                              *)
LEMMA DigitIsItsValue ==
  ASSUME NEW d \in DOMAIN Digits
  PROVE  DigitValue(Digits[d]) = d
<1>1. Digits[d] # "0"
  BY DigitTokens
<1>2. \A k \in DOMAIN Digits : Digits[k] = Digits[d] <=> k = d
  BY DigitsDiffer, Zenon
<1>3. (CHOOSE k \in DOMAIN Digits : Digits[k] = Digits[d]) = d
  BY <1>2
<1> QED BY <1>1, <1>3 DEF DigitValue

(* One digit is a size, its value.                                           *)
LEMMA SizeOfDigit ==
  ASSUME NEW d \in DOMAIN Digits
  PROVE  IsSize(<<Digits[d]>>) /\ parseSize(<<Digits[d]>>) = d
<1> DEFINE word == <<Digits[d]>>
           Step(g) == [i \in 0 .. Len(word) |->
                         IF i = 0 THEN 0 ELSE 10 * g[i - 1] + DigitValue(word[i])]
           value == CHOOSE g : g = Step(g)
           answer == [i \in 0..1 |-> IF i = 0 THEN 0 ELSE d]
<1>1. Len(word) = 1 /\ word[1] = Digits[d] /\ word # <<>> /\ Range(word) = {Digits[d]}
  BY DEF Range
<1>2. Digits[d] \in Range(Digits)
  BY DEF Range
<1>3. IsSize(word)
  BY <1>1, <1>2 DEF IsSize
<1>4. parseSize(word) = value[Len(word)]
  BY DEF parseSize
<1> HIDE DEF word
<1>5. d \in Nat /\ DigitValue(word[1]) = d
  BY <1>1, DigitsDiffer, DigitIsItsValue
<1>6. answer = Step(answer)
  <2>1. \A i \in 0..1 : answer[i] = IF i = 0 THEN 0 ELSE 10 * answer[i - 1] + DigitValue(word[i])
    BY <1>5
  <2> QED BY <1>1, <2>1
<1>7. value = Step(value)
  <2> HIDE DEF Step, answer
  <2> QED BY <1>6
<1> HIDE DEF value
<1>8. value[1] = 10 * value[0] + DigitValue(word[1]) /\ value[0] = 0
  BY <1>1, <1>7
<1> QED BY <1>1, <1>3, <1>4, <1>5, <1>8 DEF word

(* The words that describe a column, one after the other.                    *)
LEMMA LineOfColumn ==
  ASSUME NEW name, NEW t, NEW d
  PROVE  /\ AsDescribed(<<<<name>>, <<t>>, <<"YES">>>>) = <<name, ":", t>>
         /\ AsDescribed(<<<<name>>, <<t>>, <<"NO">>>>) = <<name, ":", t, ":", "NOT_NULL">>
         /\ AsDescribed(<<<<name>>, <<"VECTOR(", d, ")">>, <<"YES">>>>)
              = <<name, ":", "VECTOR(", d, ")">>
         /\ AsDescribed(<<<<name>>, <<"VECTOR(", d, ")">>, <<"NO">>>>)
              = <<name, ":", "VECTOR(", d, ")", ":", "NOT_NULL">>
<1> DEFINE S == {name, t, d, ":", "VECTOR(", ")", "NOT_NULL"}
<1>1. <<name>> \o <<":">>
        = <<name, ":">>
  <2> DEFINE f == <<name>>
             p == <<":">>
             whole == <<name, ":">>
  <2>1. f \in Seq(S) /\ p \in Seq(S) /\ whole \in Seq(S)
    OBVIOUS
  <2>2. /\ Len(whole) = Len(f) + Len(p) /\ \A i \in 1 .. Len(f) : whole[i] = f[i]
        /\ \A i \in 1 .. Len(p) : whole[Len(f) + i] = p[i]
    OBVIOUS
  <2> HIDE DEF f, p, whole, S
  <2>3. f \o p = whole
    BY <2>1, <2>2, JoinIs, Zenon
  <2> QED BY <2>3 DEF f, p, whole
<1>2. <<name, ":">> \o <<t>>
        = <<name, ":", t>>
  <2> DEFINE f == <<name, ":">>
             p == <<t>>
             whole == <<name, ":", t>>
  <2>1. f \in Seq(S) /\ p \in Seq(S) /\ whole \in Seq(S)
    OBVIOUS
  <2>2. /\ Len(whole) = Len(f) + Len(p) /\ \A i \in 1 .. Len(f) : whole[i] = f[i]
        /\ \A i \in 1 .. Len(p) : whole[Len(f) + i] = p[i]
    OBVIOUS
  <2> HIDE DEF f, p, whole, S
  <2>3. f \o p = whole
    BY <2>1, <2>2, JoinIs, Zenon
  <2> QED BY <2>3 DEF f, p, whole
<1>3. <<name, ":">> \o <<"VECTOR(", d, ")">>
        = <<name, ":", "VECTOR(", d, ")">>
  <2> DEFINE f == <<name, ":">>
             p == <<"VECTOR(", d, ")">>
             whole == <<name, ":", "VECTOR(", d, ")">>
  <2>1. f \in Seq(S) /\ p \in Seq(S) /\ whole \in Seq(S)
    OBVIOUS
  <2>2. /\ Len(whole) = Len(f) + Len(p) /\ \A i \in 1 .. Len(f) : whole[i] = f[i]
        /\ \A i \in 1 .. Len(p) : whole[Len(f) + i] = p[i]
    OBVIOUS
  <2> HIDE DEF f, p, whole, S
  <2>3. f \o p = whole
    BY <2>1, <2>2, JoinIs, Zenon
  <2> QED BY <2>3 DEF f, p, whole
<1>4. <<name, ":", t>> \o <<>> = <<name, ":", t>> /\ <<name, ":", "VECTOR(", d, ")">> \o <<>> = <<name, ":", "VECTOR(", d, ")">>
  OBVIOUS
<1>5. <<name, ":", t>> \o <<":", "NOT_NULL">>
        = <<name, ":", t, ":", "NOT_NULL">>
  <2> DEFINE f == <<name, ":", t>>
             p == <<":", "NOT_NULL">>
             whole == <<name, ":", t, ":", "NOT_NULL">>
  <2>1. f \in Seq(S) /\ p \in Seq(S) /\ whole \in Seq(S)
    OBVIOUS
  <2>2. /\ Len(whole) = Len(f) + Len(p) /\ \A i \in 1 .. Len(f) : whole[i] = f[i]
        /\ \A i \in 1 .. Len(p) : whole[Len(f) + i] = p[i]
    OBVIOUS
  <2> HIDE DEF f, p, whole, S
  <2>3. f \o p = whole
    BY <2>1, <2>2, JoinIs, Zenon
  <2> QED BY <2>3 DEF f, p, whole
<1>6. <<name, ":", "VECTOR(", d, ")">> \o <<":", "NOT_NULL">>
        = <<name, ":", "VECTOR(", d, ")", ":", "NOT_NULL">>
  <2> DEFINE f == <<name, ":", "VECTOR(", d, ")">>
             p == <<":", "NOT_NULL">>
             whole == <<name, ":", "VECTOR(", d, ")", ":", "NOT_NULL">>
  <2>1. f \in Seq(S) /\ p \in Seq(S) /\ whole \in Seq(S)
    OBVIOUS
  <2>2. /\ Len(whole) = Len(f) + Len(p) /\ \A i \in 1 .. Len(f) : whole[i] = f[i]
        /\ \A i \in 1 .. Len(p) : whole[Len(f) + i] = p[i]
    OBVIOUS
  <2> HIDE DEF f, p, whole, S
  <2>3. f \o p = whole
    BY <2>1, <2>2, JoinIs, Zenon
  <2> QED BY <2>3 DEF f, p, whole
<1>7. <<"YES">> # <<"NO">>
  OBVIOUS
<1> QED BY <1>1, <1>2, <1>3, <1>4, <1>5, <1>6, <1>7, Zenon DEF AsDescribed

(* The names of types are told apart. *)
LEMMA TypeWords ==
  ASSUME NEW plain
  PROVE  /\ plain = <<"INTEGER">> => plain # <<"TEXT">> /\ ~(Len(plain) > 2) /\ plain[1] = "INTEGER"
         /\ plain = <<"TEXT">> => plain # <<"INTEGER">> /\ ~(Len(plain) > 2) /\ plain[1] = "TEXT"
         /\ \A d : plain = <<"VECTOR(", d, ")">> =>
              /\ plain # <<"INTEGER">> /\ plain # <<"TEXT">> /\ Len(plain) > 2
              /\ plain[1] = "VECTOR(" /\ Last(plain) = ")"
              /\ SubSeq(plain, 2, Len(plain) - 1) = <<d>>
<1>0. ASSUME NEW d PROVE SubSeq(<<"VECTOR(", d, ")">>, 2, 2) = <<d>>
  <2> DEFINE type == <<"VECTOR(", d, ")">>
             middle == SubSeq(type, 2, 2)
  <2>1. middle = [i \in 1..1 |-> type[i + 1]]
    OBVIOUS
  <2>2. type[2] = d
    OBVIOUS
  <2> HIDE DEF type, middle
  <2>3. middle = [i \in 1..1 |-> d]
    BY <2>1, <2>2
  <2>4. <<d>> = [i \in 1..1 |-> d]
    OBVIOUS
  <2> QED BY <2>3, <2>4 DEF middle, type
<1>1. plain = <<"INTEGER">> => plain # <<"TEXT">> /\ ~(Len(plain) > 2) /\ plain[1] = "INTEGER"
  OBVIOUS
<1>2. plain = <<"TEXT">> => plain # <<"INTEGER">> /\ ~(Len(plain) > 2) /\ plain[1] = "TEXT"
  OBVIOUS
<1>3. ASSUME NEW d, plain = <<"VECTOR(", d, ")">>
      PROVE  /\ plain # <<"INTEGER">> /\ plain # <<"TEXT">> /\ Len(plain) > 2
             /\ plain[1] = "VECTOR(" /\ Last(plain) = ")"
             /\ SubSeq(plain, 2, Len(plain) - 1) = <<d>>
  <2>1. Len(plain) = 3 /\ plain[1] = "VECTOR(" /\ plain[3] = ")"
    BY <1>3
  <2>2. plain # <<"INTEGER">> /\ plain # <<"TEXT">>
    BY <1>3
  <2>3. SubSeq(plain, 2, Len(plain) - 1) = <<d>>
    BY <1>0, <1>3, <2>1
  <2> QED BY <2>1, <2>2, <2>3 DEF Last
<1> QED BY <1>1, <1>2, <1>3

(* What parseColumn makes of a type, with or without ":not_null" after it.   *)
LEMMA TypeParsed ==
  ASSUME NEW specification, Len(specification) \in Nat, Len(specification) >= 3,
         specification[1] # ":", specification[2] = ":",
         NEW type, type = uppercase(SubSeq(specification, 3, Len(specification))),
         NEW nullable \in BOOLEAN, nullable <=> ~IsSuffix(<<":", "NOT_NULL">>, type),
         NEW plain, plain = IF nullable THEN type ELSE SubSeq(type, 1, Len(type) - 2)
  PROVE  /\ plain \in {<<"INTEGER">>, <<"TEXT">>} =>
              parseColumn(specification) = [name |-> specification[1], type |-> plain[1],
                                            dimension |-> 0, nullable |-> nullable]
         /\ \A d \in DOMAIN Digits : plain = <<"VECTOR(", Digits[d], ")">> =>
              parseColumn(specification) = [name |-> specification[1], type |-> "VECTOR",
                                            dimension |-> d, nullable |-> nullable]
<1> DEFINE Column(dataType, dimension) == [name |-> specification[1], type |-> dataType,
                                           dimension |-> dimension, nullable |-> nullable]
           size == SubSeq(plain, 2, Len(plain) - 1)
<1>1. nullable = ~IsSuffix(<<":", "NOT_NULL">>, type)
  BY Zenon DEF IsSuffix, IsPrefix
<1>2. parseColumn(specification) =
        CASE plain = <<"INTEGER">> -> Column("INTEGER", 0)
          [] plain = <<"TEXT">> -> Column("TEXT", 0)
          [] Len(plain) > 2 /\ plain[1] = "VECTOR(" /\ Last(plain) = ")" /\ IsSize(size) ->
               Column("VECTOR", parseSize(size))
          [] OTHER -> NoColumn
  BY <1>1 DEF parseColumn
<1> HIDE DEF size, Column
<1>3. ASSUME plain = <<"INTEGER">>
      PROVE  parseColumn(specification) = Column("INTEGER", 0) /\ plain[1] = "INTEGER"
  <2>1. plain # <<"TEXT">> /\ ~(Len(plain) > 2) /\ plain[1] = "INTEGER"
    BY <1>3, TypeWords, Zenon
  <2> QED BY <1>2, <1>3, <2>1, Zenon
<1>4. ASSUME plain = <<"TEXT">>
      PROVE  parseColumn(specification) = Column("TEXT", 0) /\ plain[1] = "TEXT"
  <2>1. plain # <<"INTEGER">> /\ ~(Len(plain) > 2) /\ plain[1] = "TEXT"
    BY <1>4, TypeWords, Zenon
  <2> QED BY <1>2, <1>4, <2>1, Zenon
<1>5. ASSUME NEW d \in DOMAIN Digits, plain = <<"VECTOR(", Digits[d], ")">>
      PROVE  parseColumn(specification) = Column("VECTOR", d)
  <2>1. /\ plain # <<"INTEGER">> /\ plain # <<"TEXT">> /\ Len(plain) > 2
        /\ plain[1] = "VECTOR(" /\ Last(plain) = ")" /\ size = <<Digits[d]>>
    BY <1>5, TypeWords, Zenon DEF size
  <2>2. IsSize(size) /\ parseSize(size) = d
    BY <2>1, SizeOfDigit, Zenon
  <2> QED BY <1>2, <2>1, <2>2, Zenon
<1>6. ASSUME plain \in {<<"INTEGER">>, <<"TEXT">>}
      PROVE  parseColumn(specification) = Column(plain[1], 0)
  BY <1>3, <1>4, <1>6, Zenon
<1> QED BY <1>5, <1>6, Zenon DEF Column

(* Which types end with ":not_null".                                         *)
LEMMA NotNullSuffix ==
  ASSUME NEW t, NEW d
  PROVE  /\ ~IsSuffix(<<":", "NOT_NULL">>, <<t>>)
         /\ ~IsSuffix(<<":", "NOT_NULL">>, <<"VECTOR(", d, ")">>)
         /\ IsSuffix(<<":", "NOT_NULL">>, <<t, ":", "NOT_NULL">>)
         /\ IsSuffix(<<":", "NOT_NULL">>, <<"VECTOR(", d, ")", ":", "NOT_NULL">>)
<1>1. ~IsSuffix(<<":", "NOT_NULL">>, <<t>>)
  BY DEF IsSuffix, IsPrefix, Reverse
<1>2. ~IsSuffix(<<":", "NOT_NULL">>, <<"VECTOR(", d, ")">>)
  BY DEF IsSuffix, IsPrefix, Reverse
<1>3. IsSuffix(<<":", "NOT_NULL">>, <<t, ":", "NOT_NULL">>)
  BY DEF IsSuffix, IsPrefix, Reverse
<1>4. IsSuffix(<<":", "NOT_NULL">>, <<"VECTOR(", d, ")", ":", "NOT_NULL">>)
  BY DEF IsSuffix, IsPrefix, Reverse
<1> QED BY <1>1, <1>2, <1>3, <1>4

(* The type in each of the two forms of a declaration of an integer or a     *)
(* text.                                                                     *)
LEMMA LineOfScalar ==
  ASSUME NEW name, NEW t, Upper(t) = t
  PROVE  /\ uppercase(SubSeq(<<name, ":", t>>, 3, 3)) = <<t>>
         /\ uppercase(SubSeq(<<name, ":", t, ":", "NOT_NULL">>, 3, 5)) = <<t, ":", "NOT_NULL">>
         /\ SubSeq(<<t, ":", "NOT_NULL">>, 1, 1) = <<t>>
<1>1. Upper(":") = ":" /\ Upper("NOT_NULL") = "NOT_NULL"
  BY DEF Upper
<1>2. uppercase(SubSeq(<<name, ":", t>>, 3, 3)) = <<t>>
  BY <1>1 DEF uppercase
<1>3. uppercase(SubSeq(<<name, ":", t, ":", "NOT_NULL">>, 3, 5)) = <<t, ":", "NOT_NULL">>
  BY <1>1 DEF uppercase
<1>4. SubSeq(<<t, ":", "NOT_NULL">>, 1, 1) = <<t>>
  <2> DEFINE type == <<t, ":", "NOT_NULL">>
             front == SubSeq(type, 1, 1)
  <2>1. front = [i \in 1..1 |-> type[i]]
    OBVIOUS
  <2>2. <<t>> = [i \in 1..1 |-> type[i]]
    OBVIOUS
  <2> HIDE DEF type, front
  <2>3. front = <<t>>
    BY <2>1, <2>2
  <2> QED BY <2>3 DEF front, type
<1> QED BY <1>2, <1>3, <1>4

(* And in those of a vector. *)
LEMMA LineOfVector ==
  ASSUME NEW name, NEW d, Upper(d) = d
  PROVE  /\ uppercase(SubSeq(<<name, ":", "VECTOR(", d, ")">>, 3, 5)) = <<"VECTOR(", d, ")">>
         /\ uppercase(SubSeq(<<name, ":", "VECTOR(", d, ")", ":", "NOT_NULL">>, 3, 7))
              = <<"VECTOR(", d, ")", ":", "NOT_NULL">>
         /\ SubSeq(<<"VECTOR(", d, ")", ":", "NOT_NULL">>, 1, 3) = <<"VECTOR(", d, ")">>
<1>1. Upper(":") = ":" /\ Upper("NOT_NULL") = "NOT_NULL" /\ Upper("VECTOR(") = "VECTOR("
      /\ Upper(")") = ")"
  BY DEF Upper
<1>2. uppercase(SubSeq(<<name, ":", "VECTOR(", d, ")">>, 3, 5)) = <<"VECTOR(", d, ")">>
  BY <1>1 DEF uppercase
<1>3. uppercase(SubSeq(<<name, ":", "VECTOR(", d, ")", ":", "NOT_NULL">>, 3, 7))
        = <<"VECTOR(", d, ")", ":", "NOT_NULL">>
  BY <1>1 DEF uppercase
<1>4. SubSeq(<<"VECTOR(", d, ")", ":", "NOT_NULL">>, 1, 3) = <<"VECTOR(", d, ")">>
  <2> DEFINE type == <<"VECTOR(", d, ")", ":", "NOT_NULL">>
             front == SubSeq(type, 1, 3)
  <2>1. front = [i \in 1..3 |-> type[i]]
    OBVIOUS
  <2>2. <<"VECTOR(", d, ")">> = [i \in 1..3 |-> type[i]]
    OBVIOUS
  <2> HIDE DEF type, front
  <2>3. front = <<"VECTOR(", d, ")">>
    BY <2>1, <2>2
  <2> QED BY <2>3 DEF front, type
<1> QED BY <1>2, <1>3, <1>4

(* Declarations of integers and texts.                                       *)
LEMMA ScalarDeclared ==
  ASSUME NEW name, name # ":", NEW t \in {"INTEGER", "TEXT"}
  PROVE  /\ parseColumn(<<name, ":", t>>)
              = [name |-> name, type |-> t, dimension |-> 0, nullable |-> TRUE]
         /\ parseColumn(<<name, ":", t, ":", "NOT_NULL">>)
              = [name |-> name, type |-> t, dimension |-> 0, nullable |-> FALSE]
<1>1. Upper(t) = t
  BY DEF Upper
<1>2. <<t>> \in {<<"INTEGER">>, <<"TEXT">>} /\ <<t>>[1] = t
  OBVIOUS
<1>3. parseColumn(<<name, ":", t>>)
        = [name |-> name, type |-> t, dimension |-> 0, nullable |-> TRUE]
  <2> DEFINE specification == <<name, ":", t>>
  <2>1. /\ Len(specification) = 3 /\ specification[1] = name /\ specification[2] = ":"
        /\ Len(specification) \in Nat /\ Len(specification) >= 3
    OBVIOUS
  <2> DEFINE type == <<t>>
  <2>2. type = uppercase(SubSeq(specification, 3, Len(specification)))
    <3>1. uppercase(SubSeq(specification, 3, 3)) = type
      BY <1>1, LineOfScalar, Zenon
    <3> HIDE DEF specification, type
    <3> QED BY <2>1, <3>1
  <2>3. ~IsSuffix(<<":", "NOT_NULL">>, type)
    BY NotNullSuffix
  <2>4. type \in {<<"INTEGER">>, <<"TEXT">>} /\ type[1] = t
    BY <1>2
  <2> HIDE DEF specification, type
  <2>5. parseColumn(specification) = [name |-> specification[1], type |-> type[1],
                                      dimension |-> 0, nullable |-> TRUE]
    <3> DEFINE nullable == TRUE
    <3>1. /\ nullable \in BOOLEAN /\ (nullable <=> ~IsSuffix(<<":", "NOT_NULL">>, type))
          /\ type = IF nullable THEN type ELSE SubSeq(type, 1, Len(type) - 2)
      BY <2>3
    <3>2. specification[1] # ":" /\ specification[2] = ":" /\ Len(specification) \in Nat
          /\ Len(specification) >= 3
      BY <2>1
    <3> HIDE DEF nullable
    <3>3. type \in {<<"INTEGER">>, <<"TEXT">>} =>
              parseColumn(specification) = [name |-> specification[1], type |-> type[1],
                                            dimension |-> 0, nullable |-> nullable]
      BY <2>2, <3>1, <3>2, TypeParsed, Zenon
    <3> QED BY <2>4, <3>3, Zenon DEF nullable
  <2> QED BY <2>1, <2>4, <2>5, Zenon DEF specification
<1>4. parseColumn(<<name, ":", t, ":", "NOT_NULL">>)
        = [name |-> name, type |-> t, dimension |-> 0, nullable |-> FALSE]
  <2> DEFINE specification == <<name, ":", t, ":", "NOT_NULL">>
             type == <<t, ":", "NOT_NULL">>
             plain == <<t>>
  <2>1. /\ Len(specification) = 5 /\ specification[1] = name /\ specification[2] = ":"
        /\ Len(specification) \in Nat /\ Len(specification) >= 3
    OBVIOUS
  <2>2. type = uppercase(SubSeq(specification, 3, Len(specification)))
    <3>1. uppercase(SubSeq(specification, 3, 5)) = type
      BY <1>1, LineOfScalar, Zenon
    <3> HIDE DEF specification, type
    <3> QED BY <2>1, <3>1
  <2>3. IsSuffix(<<":", "NOT_NULL">>, type)
    BY NotNullSuffix
  <2>4. plain \in {<<"INTEGER">>, <<"TEXT">>} /\ plain[1] = t
    BY <1>2
  <2>5. plain = SubSeq(type, 1, Len(type) - 2)
    <3>1. Len(type) - 2 = 1
      OBVIOUS
    <3>2. plain = SubSeq(type, 1, 1)
      BY <1>1, LineOfScalar, Zenon
    <3> HIDE DEF type, plain
    <3> QED BY <3>1, <3>2
  <2> HIDE DEF specification, type, plain
  <2>6. parseColumn(specification) = [name |-> specification[1], type |-> plain[1],
                                      dimension |-> 0, nullable |-> FALSE]
    <3> DEFINE nullable == FALSE
    <3>1. /\ nullable \in BOOLEAN /\ (nullable <=> ~IsSuffix(<<":", "NOT_NULL">>, type))
          /\ plain = IF nullable THEN type ELSE SubSeq(type, 1, Len(type) - 2)
      BY <2>3, <2>5
    <3>2. specification[1] # ":" /\ specification[2] = ":" /\ Len(specification) \in Nat
          /\ Len(specification) >= 3
      BY <2>1
    <3> HIDE DEF nullable
    <3>3. plain \in {<<"INTEGER">>, <<"TEXT">>} =>
              parseColumn(specification) = [name |-> specification[1], type |-> plain[1],
                                            dimension |-> 0, nullable |-> nullable]
      BY <2>2, <3>1, <3>2, TypeParsed, Zenon
    <3> QED BY <2>4, <3>3, Zenon DEF nullable
  <2> QED BY <2>1, <2>4, <2>6, Zenon DEF specification
<1> QED BY <1>3, <1>4

(* Declarations of vectors.                                                  *)
LEMMA VectorDeclared ==
  ASSUME NEW name, name # ":", NEW k \in DOMAIN Digits
  PROVE  /\ parseColumn(<<name, ":", "VECTOR(", Digits[k], ")">>)
              = [name |-> name, type |-> "VECTOR", dimension |-> k, nullable |-> TRUE]
         /\ parseColumn(<<name, ":", "VECTOR(", Digits[k], ")", ":", "NOT_NULL">>)
              = [name |-> name, type |-> "VECTOR", dimension |-> k, nullable |-> FALSE]
<1>1. Upper(Digits[k]) = Digits[k]
  BY DigitTokens DEF Upper
<1>2. parseColumn(<<name, ":", "VECTOR(", Digits[k], ")">>)
        = [name |-> name, type |-> "VECTOR", dimension |-> k, nullable |-> TRUE]
  <2> DEFINE specification == <<name, ":", "VECTOR(", Digits[k], ")">>
             type == <<"VECTOR(", Digits[k], ")">>
             plain == <<"VECTOR(", Digits[k], ")">>
  <2>1. /\ Len(specification) = 5 /\ specification[1] = name /\ specification[2] = ":"
        /\ Len(specification) \in Nat /\ Len(specification) >= 3
    OBVIOUS
  <2>2. type = uppercase(SubSeq(specification, 3, Len(specification)))
    <3>1. uppercase(SubSeq(specification, 3, 5)) = type
      BY <1>1, LineOfVector, Zenon
    <3> HIDE DEF specification, type
    <3> QED BY <2>1, <3>1
  <2>3. ~IsSuffix(<<":", "NOT_NULL">>, type)
    BY NotNullSuffix
  <2>4. plain = type
    OBVIOUS
  <2> HIDE DEF specification, type
  <2>5. parseColumn(specification) = [name |-> specification[1], type |-> "VECTOR",
                                      dimension |-> k, nullable |-> TRUE]
    <3> DEFINE nullable == TRUE
    <3> HIDE DEF plain
    <3>1. /\ nullable \in BOOLEAN /\ (nullable <=> ~IsSuffix(<<":", "NOT_NULL">>, type))
          /\ plain = IF nullable THEN type ELSE SubSeq(type, 1, Len(type) - 2)
      BY <2>3, <2>4
    <3>2. specification[1] # ":" /\ specification[2] = ":" /\ Len(specification) \in Nat
          /\ Len(specification) >= 3
      BY <2>1
    <3> HIDE DEF nullable
    <3>3. plain = <<"VECTOR(", Digits[k], ")">> =>
              parseColumn(specification) = [name |-> specification[1], type |-> "VECTOR",
                                            dimension |-> k, nullable |-> nullable]
      BY <2>2, <3>1, <3>2, TypeParsed, Zenon
    <3> QED BY <3>3, Zenon DEF nullable, plain
  <2> QED BY <2>1, <2>5, Zenon DEF specification
<1>3. parseColumn(<<name, ":", "VECTOR(", Digits[k], ")", ":", "NOT_NULL">>)
        = [name |-> name, type |-> "VECTOR", dimension |-> k, nullable |-> FALSE]
  <2> DEFINE specification == <<name, ":", "VECTOR(", Digits[k], ")", ":", "NOT_NULL">>
             type == <<"VECTOR(", Digits[k], ")", ":", "NOT_NULL">>
             plain == <<"VECTOR(", Digits[k], ")">>
  <2>1. /\ Len(specification) = 7 /\ specification[1] = name /\ specification[2] = ":"
        /\ Len(specification) \in Nat /\ Len(specification) >= 3
    OBVIOUS
  <2>2. type = uppercase(SubSeq(specification, 3, Len(specification)))
    <3>1. uppercase(SubSeq(specification, 3, 7)) = type
      BY <1>1, LineOfVector, Zenon
    <3> HIDE DEF specification, type
    <3> QED BY <2>1, <3>1
  <2>3. IsSuffix(<<":", "NOT_NULL">>, type)
    BY NotNullSuffix
  <2>4. plain = SubSeq(type, 1, Len(type) - 2)
    <3>1. Len(type) - 2 = 3
      OBVIOUS
    <3>2. plain = SubSeq(type, 1, 3)
      BY <1>1, LineOfVector, Zenon
    <3> HIDE DEF type, plain
    <3> QED BY <3>1, <3>2
  <2> HIDE DEF specification, type
  <2>5. parseColumn(specification) = [name |-> specification[1], type |-> "VECTOR",
                                      dimension |-> k, nullable |-> FALSE]
    <3> DEFINE nullable == FALSE
    <3> HIDE DEF plain
    <3>1. /\ nullable \in BOOLEAN /\ (nullable <=> ~IsSuffix(<<":", "NOT_NULL">>, type))
          /\ plain = IF nullable THEN type ELSE SubSeq(type, 1, Len(type) - 2)
      BY <2>3, <2>4
    <3>2. specification[1] # ":" /\ specification[2] = ":" /\ Len(specification) \in Nat
          /\ Len(specification) >= 3
      BY <2>1
    <3> HIDE DEF nullable
    <3>3. plain = <<"VECTOR(", Digits[k], ")">> =>
              parseColumn(specification) = [name |-> specification[1], type |-> "VECTOR",
                                            dimension |-> k, nullable |-> nullable]
      BY <2>2, <3>1, <3>2, TypeParsed, Zenon
    <3> QED BY <3>3, Zenon DEF nullable, plain
  <2> QED BY <2>1, <2>5, Zenon DEF specification
<1> QED BY <1>2, <1>3

(* What describe shows of a column declares this column.                     *)
Line(column) == <<<<column.name>>, TypeName(column),
                  IF column.nullable THEN <<"YES">> ELSE <<"NO">>>>

LEMMA ColumnCanBeDeclared ==
  ASSUME NEW column \in ColumnValues, validate(column), column.dimension <= MaxDimension
  PROVE  parseColumn(AsDescribed(Line(column))) = column
<1>1. /\ column.name # ":" /\ column.type \in {"INTEGER", "TEXT", "VECTOR"}
      /\ column.dimension \in Nat
  BY CommandsAssumption DEF ColumnValues
<1>2. column.nullable = TRUE \/ column.nullable = FALSE
  BY DEF ColumnValues
<1>3. column = [name |-> column.name, type |-> column.type, dimension |-> column.dimension,
                nullable |-> column.nullable]
  BY DEF ColumnValues
<1>4. CASE column.type = "VECTOR"
  <2> DEFINE k == column.dimension
  <2>1. column.dimension \in DOMAIN Digits
    BY <1>1, <1>4, MaxIdIsDigit, DigitsDiffer DEF validate
  <2>2. TypeName(column) = <<"VECTOR(", Digits[k], ")">>
    BY <1>4 DEF TypeName
  <2>3. CASE column.nullable = TRUE
    <3>1. Line(column) = <<<<column.name>>, <<"VECTOR(", Digits[k], ")">>, <<"YES">>>>
      BY <2>2, <2>3 DEF Line
    <3>2. AsDescribed(Line(column)) = <<column.name, ":", "VECTOR(", Digits[k], ")">>
      BY <3>1, LineOfColumn, Zenon
    <3> QED BY <1>1, <1>3, <1>4, <2>1, <2>3, <3>2, VectorDeclared
  <2>4. CASE column.nullable = FALSE
    <3>1. Line(column) = <<<<column.name>>, <<"VECTOR(", Digits[k], ")">>, <<"NO">>>>
      BY <2>2, <2>4 DEF Line
    <3>2. AsDescribed(Line(column))
            = <<column.name, ":", "VECTOR(", Digits[k], ")", ":", "NOT_NULL">>
      BY <3>1, LineOfColumn, Zenon
    <3> QED BY <1>1, <1>3, <1>4, <2>1, <2>4, <3>2, VectorDeclared
  <2> QED BY <1>2, <2>3, <2>4
<1>5. CASE column.type # "VECTOR"
  <2>1. column.type \in {"INTEGER", "TEXT"} /\ column.dimension = 0
    BY <1>1, <1>5 DEF validate
  <2>2. TypeName(column) = <<column.type>>
    BY <1>5 DEF TypeName
  <2>3. CASE column.nullable = TRUE
    <3>1. Line(column) = <<<<column.name>>, <<column.type>>, <<"YES">>>>
      BY <2>2, <2>3 DEF Line
    <3>2. AsDescribed(Line(column)) = <<column.name, ":", column.type>>
      BY <3>1, LineOfColumn, Zenon
    <3> QED BY <1>1, <1>3, <2>1, <2>3, <3>2, ScalarDeclared
  <2>4. CASE column.nullable = FALSE
    <3>1. Line(column) = <<<<column.name>>, <<column.type>>, <<"NO">>>>
      BY <2>2, <2>4 DEF Line
    <3>2. AsDescribed(Line(column)) = <<column.name, ":", column.type, ":", "NOT_NULL">>
      BY <3>1, LineOfColumn, Zenon
    <3> QED BY <1>1, <1>3, <2>1, <2>4, <3>2, ScalarDeclared
  <2> QED BY <1>2, <2>3, <2>4
<1> QED BY <1>4, <1>5

-----------------------------------------------------------------------------
(* The inductive invariant: tables are ones that the program can use, and    *)
(* the exports that the user holds are of rows of theirs, whose IDs are      *)
(* below the counter of the table or, as long as there is none, those that   *)
(* the rows are numbered by.                                                 *)

GoodExport(t) ==
  LET rows == ReadRecords(exports[t], SchemaOf(t)).rows
  IN  /\ RowsFit(rows, SchemaOf(t)) /\ exports[t] = printCsv(SchemaOf(t), rows)
      /\ IF tables[t].nextId = NoCounter THEN rows = Rows(t)
         ELSE \A i \in DOMAIN rows : rows[i].id < tables[t].nextId

Described == last.command = "describe" =>
               /\ last.table \in DOMAIN tables
               /\ last.output = printSchema(SchemaOf(last.table))

TablesUsable == /\ DOMAIN exports \subseteq DOMAIN tables /\ DOMAIN tables \subseteq TableNames
                /\ \A t \in DOMAIN tables : IsTable(t, tables[t])
                /\ \A t \in DOMAIN exports : GoodExport(t)

CInv == /\ initialized \in BOOLEAN /\ (tables # <<>> => initialized) /\ last.code \in 0..2
        /\ TablesUsable
        /\ Described

(* What there is to know of a table.                                         *)
LEMMA TableParts ==
  ASSUME NEW t, NEW table, IsTable(t, table)
  PROVE  LET schema == readSchema(table.catalog)
             data == ReadRecords(table.file, schema)
         IN  /\ table = [catalog |-> table.catalog, file |-> table.file, nextId |-> table.nextId]
             /\ schema \in SchemaValues /\ table.file \in Files /\ IsCatalog(table.catalog, t)
             /\ data = [ok |-> TRUE, rows |-> data.rows] /\ RowsFit(data.rows, schema)
             /\ Len(data.rows) = Len(table.file.records)
             /\ Layout(table.file.header, schema) = "noid" =>
                  /\ Len(data.rows) <= MaxId
                  /\ \A i \in DOMAIN data.rows : data.rows[i].id = i
             /\ table.nextId \in 0 .. MaxId + 1
             /\ table.nextId # NoCounter =>
                  \A i \in DOMAIN data.rows : data.rows[i].id < table.nextId
<1> DEFINE schema == readSchema(table.catalog)
           data == ReadRecords(table.file, schema)
<1>1. /\ table = [catalog |-> table.catalog, file |-> table.file, nextId |-> table.nextId]
      /\ schema \in SchemaValues /\ table.file \in Files /\ IsCatalog(table.catalog, t) /\ data.ok
      /\ Layout(table.file.header, schema) = "noid" => Len(table.file.records) <= MaxId
      /\ table.nextId \in 0 .. MaxId + 1
      /\ table.nextId # NoCounter => \A row \in Range(data.rows) : row.id < table.nextId
  BY Zenon DEF IsTable, SchemaValues, Files, NoCounter
<1> HIDE DEF schema
<1>2. Layout(table.file.header, schema) = "noid" => Len(table.file.records) <= 9
  <2>1. Len(table.file.records) \in Nat
    BY <1>1 DEF Files
  <2> QED BY <1>1, <2>1, MaxIdIsDigit
<1>3. /\ RowsFit(data.rows, schema) /\ Len(data.rows) = Len(table.file.records)
      /\ data = [ok |-> TRUE, rows |-> data.rows]
      /\ Layout(table.file.header, schema) = "noid" =>
           \A i \in DOMAIN data.rows : data.rows[i].id = i
  BY <1>1, <1>2, ReadRowsFit, Zenon
<1> HIDE DEF data
<1>4. table.nextId # NoCounter => \A i \in DOMAIN data.rows : data.rows[i].id < table.nextId
  BY <1>1 DEF Range
<1> QED BY <1>1, <1>3, <1>4, Zenon DEF data, schema

(* The columns of a table's schema.                                          *)
LEMMA SchemaOfTable ==
  ASSUME NEW t, NEW table, IsTable(t, table)
  PROVE  LET schema == readSchema(table.catalog)
         IN  \A c \in DOMAIN schema : /\ schema[c] \in ColumnValues /\ validate(schema[c])
                                      /\ schema[c].dimension <= MaxDimension
<1> DEFINE schema == readSchema(table.catalog)
<1>1. /\ schema \in Seq(ColumnValues) /\ IsCatalog(table.catalog, t)
      /\ \A c \in DOMAIN schema : schema[c].dimension <= MaxDimension
  BY Zenon DEF IsTable
<1>2. IsSchema(schema)
  BY <1>1 DEF IsCatalog
<1> HIDE DEF schema
<1>3. \A c \in DOMAIN schema : schema[c] \in ColumnValues /\ validate(schema[c])
  BY <1>1, <1>2 DEF IsSchema
<1> QED BY <1>1, <1>3 DEF schema

(* A table with another file and counter is one that the program can use, if *)
(* the file has rows that fit, below the counter.                            *)
LEMMA TableWithRows ==
  ASSUME NEW t, NEW table, IsTable(t, table), NEW file \in Files, NEW rows,
         RowsFit(rows, readSchema(table.catalog)),
         Layout(file.header, readSchema(table.catalog)) = "bitmap",
         ReadRecords(file, readSchema(table.catalog)) = [ok |-> TRUE, rows |-> rows],
         NEW n \in 0 .. MaxId + 1, n # NoCounter => \A i \in DOMAIN rows : rows[i].id < n
  PROVE  IsTable(t, [catalog |-> table.catalog, file |-> file, nextId |-> n])
<1> DEFINE schema == readSchema(table.catalog)
           new == [catalog |-> table.catalog, file |-> file, nextId |-> n]
<1>1. /\ schema \in Seq(ColumnValues) /\ IsCatalog(table.catalog, t)
      /\ \A c \in DOMAIN schema : schema[c].dimension <= MaxDimension
  BY Zenon DEF IsTable
<1>2. new.catalog = table.catalog /\ new.file = file /\ new.nextId = n
      /\ new = [catalog |-> new.catalog, file |-> new.file, nextId |-> new.nextId]
  OBVIOUS
<1> DEFINE data == ReadRecords(file, schema)
<1>3. data.ok = TRUE /\ data.rows = rows
  OBVIOUS
<1>4. /\ Layout(file.header, schema) # "noid"
      /\ file \in [header : Seq(Characters), records : Seq(Seq(Seq(Characters)))]
  BY DEF Files
<1>5. n # NoCounter => \A row \in Range(rows) : row.id < n
  BY DEF Range
<1>6. n \in NoCounter .. MaxId + 1
  BY DEF NoCounter
<1> HIDE DEF new, schema, data
<1>7. IsTable(t, new)
  BY <1>1, <1>2, <1>3, <1>4, <1>5, <1>6 DEF IsTable, schema, data
<1> QED BY <1>7 DEF new

(* A table with another file and counter, the others as they were.           *)
LEMMA FieldsUpdated ==
  ASSUME NEW f, NEW t \in DOMAIN f, NEW file, NEW n,
         f[t] = [catalog |-> f[t].catalog, file |-> f[t].file, nextId |-> f[t].nextId]
  PROVE  LET g == [f EXCEPT ![t].file = file, ![t].nextId = n]
         IN  /\ DOMAIN g = DOMAIN f
             /\ g[t] = [catalog |-> f[t].catalog, file |-> file, nextId |-> n]
             /\ \A u \in DOMAIN f : u # t => g[u] = f[u]
<1> DEFINE g == [f EXCEPT ![t].file = file, ![t].nextId = n]
<1>1. PICK table : table = f[t]
  OBVIOUS
<1>2. DOMAIN g = DOMAIN f /\ \A u \in DOMAIN f : u # t => g[u] = f[u]
  OBVIOUS
<1>3. g[t] = [[f[t] EXCEPT !.file = file] EXCEPT !.nextId = n]
  OBVIOUS
<1> HIDE DEF g
<1>4. g[t] = [catalog |-> f[t].catalog, file |-> file, nextId |-> n]
  BY <1>1, <1>3
<1> QED BY <1>2, <1>4 DEF g

(* A table with another file, the others as they were.                       *)
LEMMA FileUpdated ==
  ASSUME NEW f, NEW t \in DOMAIN f, NEW file,
         f[t] = [catalog |-> f[t].catalog, file |-> f[t].file, nextId |-> f[t].nextId]
  PROVE  LET g == [f EXCEPT ![t].file = file]
         IN  /\ DOMAIN g = DOMAIN f
             /\ g[t] = [catalog |-> f[t].catalog, file |-> file, nextId |-> f[t].nextId]
             /\ \A u \in DOMAIN f : u # t => g[u] = f[u]
  OBVIOUS

(* The counter that a command works with has passed the rows of the table.   *)
LEMMA NextIdPassesRows ==
  ASSUME CInv, NEW t \in DOMAIN tables, Readable(t)
  PROVE  /\ NextId(t) \in 1 .. MaxId + 1 /\ tables[t].nextId <= NextId(t)
         /\ \A i \in DOMAIN Rows(t) : Rows(t)[i].id < NextId(t)
<1> DEFINE rows == Rows(t)
           next == tables[t].nextId
<1>1. IsTable(t, tables[t])
  BY DEF CInv, TablesUsable
<1>2. /\ RowsFit(rows, SchemaOf(t)) /\ next \in 0 .. MaxId + 1
      /\ Legacy(t) => Len(rows) <= MaxId /\ \A i \in DOMAIN rows : rows[i].id = i
      /\ next # NoCounter => \A i \in DOMAIN rows : rows[i].id < next
  BY <1>1, TableParts, Zenon DEF Rows, Read, SchemaOf, Legacy
<1>3. Len(rows) \in Nat /\ DOMAIN rows = 1 .. Len(rows)
  BY <1>2, RowsParts DEF RowsFit
<1>4. NextId(t) = IF Legacy(t) /\ next <= Len(rows) THEN Len(rows) + 1 ELSE next
  BY DEF NextId
<1>5. Legacy(t) \/ next # NoCounter
  BY DEF Readable
<1> HIDE DEF rows, next
<1>6. CASE Legacy(t) /\ next <= Len(rows)
  <2>1. \A i \in DOMAIN rows : rows[i].id < Len(rows) + 1
    BY <1>2, <1>3, <1>6
  <2>2. Len(rows) + 1 \in 1 .. MaxId + 1 /\ next <= Len(rows) + 1
    BY <1>2, <1>3, <1>6, MaxIdIsDigit
  <2> QED BY <1>4, <1>6, <2>1, <2>2 DEF rows, next
<1>7. CASE ~(Legacy(t) /\ next <= Len(rows))
  <2>1. NextId(t) = next /\ next # NoCounter
    <3>1. Legacy(t) => next > Len(rows)
      BY <1>2, <1>3, <1>7, MaxIdIsDigit
    <3> QED BY <1>2, <1>3, <1>4, <1>5, <1>7, <3>1 DEF NoCounter
  <2>2. next \in 1 .. MaxId + 1 /\ next <= next
    BY <1>2, <2>1, MaxIdIsDigit DEF NoCounter
  <2> QED BY <1>2, <2>1, <2>2 DEF rows, next
<1> QED BY <1>6, <1>7

(* A table gets other rows, below a counter that does not go back.           *)
LEMMA RowsWritten ==
  ASSUME CInv, NEW t \in DOMAIN tables, NEW file \in Files, NEW rows, NEW n \in 1 .. MaxId + 1,
         RowsFit(rows, SchemaOf(t)), Layout(file.header, SchemaOf(t)) = "bitmap",
         ReadRecords(file, SchemaOf(t)) = [ok |-> TRUE, rows |-> rows],
         \A i \in DOMAIN rows : rows[i].id < n, tables[t].nextId <= n,
         \A i \in DOMAIN Rows(t) : Rows(t)[i].id < n,
         tables' = [tables EXCEPT ![t].file = file, ![t].nextId = n], UNCHANGED exports
  PROVE  /\ DOMAIN tables' = DOMAIN tables
         /\ \A u \in DOMAIN tables : SchemaOf(u)' = SchemaOf(u) /\ IsTable(u, tables'[u])
         /\ \A u \in DOMAIN exports : GoodExport(u)'
<1>1. IsTable(t, tables[t])
  BY DEF CInv, TablesUsable
<1>2. tables[t] = [catalog |-> tables[t].catalog, file |-> tables[t].file,
                   nextId |-> tables[t].nextId]
      /\ tables[t].nextId \in 0 .. MaxId + 1
  BY <1>1, TableParts, Zenon
<1>3. /\ DOMAIN tables' = DOMAIN tables
      /\ tables'[t] = [catalog |-> tables[t].catalog, file |-> file, nextId |-> n]
      /\ \A u \in DOMAIN tables : u # t => tables'[u] = tables[u]
  <2> DEFINE g == [tables EXCEPT ![t].file = file, ![t].nextId = n]
  <2>1. /\ DOMAIN g = DOMAIN tables
        /\ g[t] = [catalog |-> tables[t].catalog, file |-> file, nextId |-> n]
        /\ \A u \in DOMAIN tables : u # t => g[u] = tables[u]
    BY <1>2, FieldsUpdated, Zenon
  <2> QED BY <2>1, Zenon
<1>4. \A u \in DOMAIN tables : SchemaOf(u)' = SchemaOf(u)
  BY <1>3 DEF SchemaOf
<1>5. IsTable(t, tables'[t])
  <2>1. n \in 0 .. MaxId + 1
    BY MaxIdIsDigit
  <2>2. IsTable(t, [catalog |-> tables[t].catalog, file |-> file, nextId |-> n])
    BY <1>1, <2>1, TableWithRows, Zenon DEF SchemaOf
  <2> QED BY <1>3, <2>2, Zenon
<1>6. ASSUME NEW u \in DOMAIN tables PROVE IsTable(u, tables'[u])
  BY <1>3, <1>5, Zenon DEF CInv, TablesUsable
<1>7. ASSUME NEW u \in DOMAIN exports PROVE GoodExport(u)'
  <2>1. GoodExport(u) /\ u \in DOMAIN tables
    BY DEF CInv, TablesUsable
  <2>2. CASE u # t
    BY <1>3, <2>1, <2>2 DEF GoodExport, SchemaOf, Rows, Read
  <2>3. CASE u = t
    <3> DEFINE saved == ReadRecords(exports[u], SchemaOf(u)).rows
    <3>1. /\ RowsFit(saved, SchemaOf(u)) /\ exports[u] = printCsv(SchemaOf(u), saved)
          /\ IF tables[u].nextId = NoCounter THEN saved = Rows(u)
             ELSE \A i \in DOMAIN saved : saved[i].id < tables[u].nextId
      BY <2>1, Zenon DEF GoodExport
    <3> HIDE DEF saved
    <3>2. \A i \in DOMAIN saved : saved[i].id \in DOMAIN Digits
      BY <3>1, RowsParts DEF RowsFit
    <3>3. \A i \in DOMAIN saved : saved[i].id < n
      <4>1. CASE tables[u].nextId = NoCounter
        BY <2>3, <3>1, <4>1
      <4>2. CASE tables[u].nextId # NoCounter
        <5> SUFFICES ASSUME NEW i \in DOMAIN saved PROVE saved[i].id < n
          OBVIOUS
        <5>1. saved[i].id < tables[t].nextId
          BY <2>3, <3>1, <4>2
        <5>2. saved[i].id \in Int /\ tables[t].nextId \in Int /\ n \in Int
          BY <1>2, <3>2, DigitsDiffer, MaxIdIsDigit
        <5> QED BY <5>1, <5>2
      <4> QED BY <4>1, <4>2
    <3>4. tables'[u].nextId = n /\ n # NoCounter
      <4>1. n # 0
        BY MaxIdIsDigit
      <4> QED BY <1>3, <2>3, <4>1 DEF NoCounter
    <3>5. ReadRecords(exports[u], SchemaOf(u)).rows' = saved /\ SchemaOf(u)' = SchemaOf(u)
      BY <1>4, <2>1 DEF saved
    <3> QED BY <3>1, <3>3, <3>4, <3>5 DEF GoodExport
  <2> QED BY <2>2, <2>3
<1> QED BY <1>3, <1>4, <1>6, <1>7

(* The words from some argument on.                                          *)
LEMMA ValuesAreWords ==
  ASSUME NEW argv \in Arguments, NEW first \in 1 .. Len(argv) + 1
  PROVE  Values(argv, first) \in Seq(Seq(Characters))
<1>1. argv \in Seq(Seq(Characters))
  BY CommandsAssumption
<1>2. Len(argv) \in Nat
  BY <1>1
<1>3. \A i \in first .. Len(argv) : argv[i] \in Seq(Characters)
  BY <1>1, <1>2
<1> QED BY <1>1, <1>2, <1>3, SubSeqProperties DEF Values

(* The rows and the schema of a table.                                       *)
LEMMA RowsOfTable ==
  ASSUME CInv, NEW t \in DOMAIN tables
  PROVE  /\ SchemaOf(t) \in SchemaValues /\ RowsFit(Rows(t), SchemaOf(t)) /\ tables[t].file \in Files
         /\ Read(t) = [ok |-> TRUE, rows |-> Rows(t)]
         /\ Len(Rows(t)) \in Nat /\ DOMAIN Rows(t) = 1 .. Len(Rows(t))
         /\ \A i \in DOMAIN Rows(t) : Rows(t)[i] \in StoredRows /\ RowFits(Rows(t)[i], SchemaOf(t))
         /\ tables[t].nextId \in 0 .. MaxId + 1
         /\ tables[t].nextId # NoCounter =>
              \A i \in DOMAIN Rows(t) : Rows(t)[i].id < tables[t].nextId
<1>1. IsTable(t, tables[t])
  BY DEF CInv, TablesUsable
<1>2. /\ SchemaOf(t) \in SchemaValues /\ tables[t].file \in Files
      /\ Read(t) = [ok |-> TRUE, rows |-> Rows(t)] /\ RowsFit(Rows(t), SchemaOf(t))
      /\ tables[t].nextId \in 0 .. MaxId + 1
      /\ tables[t].nextId # NoCounter =>
           \A i \in DOMAIN Rows(t) : Rows(t)[i].id < tables[t].nextId
  BY <1>1, TableParts, Zenon DEF Rows, Read, SchemaOf
<1>3. /\ Len(Rows(t)) \in Nat /\ DOMAIN Rows(t) = 1 .. Len(Rows(t))
      /\ \A i \in DOMAIN Rows(t) : Rows(t)[i] \in StoredRows /\ RowFits(Rows(t)[i], SchemaOf(t))
  BY <1>2, RowsParts DEF RowsFit
<1> QED BY <1>2, <1>3, Zenon

(* The row of an insert or update fits the schema of its table.              *)
LEMMA RowCanBeStored ==
  ASSUME CInv, NEW argv \in Arguments, NEW first \in 1 .. Len(argv) + 1, CanStore(argv, first),
         NEW id \in DOMAIN Digits
  PROVE  LET row == [id |-> id, cells |-> parseRowValues(Values(argv, first), SchemaOf(argv[3]))]
         IN  row \in StoredRows /\ RowFits(row, SchemaOf(argv[3]))
<1>1. SchemaOf(argv[3]) \in SchemaValues
  BY RowsOfTable DEF CanStore, OfTable
<1>2. Values(argv, first) \in Seq(Seq(Characters))
  BY ValuesAreWords
<1> QED BY <1>1, <1>2, RowParsed DEF CanStore

(* Insert appends a row with a new ID.                                       *)
LEMMA InsertStep ==
  ASSUME CInv, NEW argv \in Arguments, Insert(argv)
  PROVE  /\ TablesUsable'
         /\ argv[3] \in DOMAIN tables /\ last'.command = "insert" /\ last'.table = argv[3]
         /\ last'.output = <<NextId(argv[3])>> /\ Readable(argv[3])
<1> DEFINE t == argv[3]
           schema == SchemaOf(t)
           rows == Rows(t)
           row == [id |-> NextId(t), cells |-> parseRowValues(Values(argv, 4), schema)]
<1>1. /\ CanStore(argv, 4) /\ NextId(t) <= MaxId /\ Len(argv) >= 3 /\ t \in DOMAIN tables
      /\ tables' = Appended(t, row) /\ UNCHANGED exports /\ Readable(t)
      /\ last' = [command |-> "insert", table |-> t, code |-> 0, output |-> <<row.id>>]
  BY DEF Insert, CanInsert, CanStore, OfTable, Exit
<1>2. 4 \in 1 .. Len(argv) + 1 /\ argv \in Seq(Seq(Characters))
  BY <1>1, CommandsAssumption
<1>3. /\ NextId(t) \in 1 .. MaxId + 1 /\ tables[t].nextId <= NextId(t)
      /\ \A i \in DOMAIN rows : rows[i].id < NextId(t)
  BY <1>1, NextIdPassesRows
<1>4. NextId(t) \in DOMAIN Digits /\ NextId(t) \in Nat
  BY <1>1, <1>3, MaxIdIsDigit, DigitsDiffer
<1>5. row \in StoredRows /\ RowFits(row, schema) /\ row.id = NextId(t)
  BY <1>1, <1>2, <1>4, RowCanBeStored
<1>6. /\ schema \in SchemaValues /\ RowsFit(rows, schema) /\ tables[t].file \in Files
      /\ Read(t) = [ok |-> TRUE, rows |-> rows]
      /\ \A i \in DOMAIN rows : rows[i] \in StoredRows
      /\ tables[t].nextId \in 0 .. MaxId + 1
  BY <1>1, RowsOfTable
<1>7. TablesUsable /\ DOMAIN tables \subseteq TableNames /\ DOMAIN exports \subseteq DOMAIN tables
  BY DEF CInv, TablesUsable
<1> DEFINE longer == Append(rows, row)
           n == row.id + 1
           file == IF NeedsUpgrade(t) THEN [header |-> Header(schema), records |-> Records(longer)]
                   ELSE [tables[t].file EXCEPT !.records = Append(@, Fields(row))]
<1>8. tables' = [tables EXCEPT ![t].file = file, ![t].nextId = n]
  BY <1>1 DEF Appended
<1> HIDE DEF schema, rows, row, t
<1>9. \A i \in DOMAIN rows : rows[i].id \in Nat /\ rows[i].id # row.id /\ rows[i].id < n
  <2> SUFFICES ASSUME NEW i \in DOMAIN rows
               PROVE  rows[i].id \in Nat /\ rows[i].id # row.id /\ rows[i].id < n
    OBVIOUS
  <2>1. rows[i].id \in DOMAIN Digits
    BY <1>6 DEF StoredRows
  <2>2. rows[i].id \in Nat
    BY <2>1, DigitsDiffer
  <2>3. rows[i].id < row.id /\ row.id \in Nat
    BY <1>3, <1>4, <1>5 DEF rows, t
  <2> QED BY <2>2, <2>3
<1>10. /\ RowsFit(longer, schema)
       /\ \A i \in DOMAIN longer : longer[i] = row \/ \E j \in DOMAIN rows : longer[i] = rows[j]
  BY <1>5, <1>6, <1>9, RowsFitAppended
<1> HIDE DEF longer
<1>11. \A i \in DOMAIN longer : longer[i].id < n
  BY <1>4, <1>5, <1>9, <1>10
<1>12. /\ file \in Files /\ Layout(file.header, schema) = "bitmap"
       /\ ReadRecords(file, schema) = [ok |-> TRUE, rows |-> longer]
  <2>1. CASE NeedsUpgrade(t)
    <3>1. Header(schema) \in Headers(schema)
      BY DEF Headers
    <3>2. file = [header |-> Header(schema), records |-> Records(longer)]
      BY <2>1
    <3> HIDE DEF file
    <3>3. file \in Files /\ ReadRecords(file, schema) = [ok |-> TRUE, rows |-> longer]
      BY <1>6, <1>10, <3>1, <3>2, RowsRead
    <3>4. Layout(file.header, schema) = "bitmap"
      BY <1>6, <3>1, <3>2, HeadersFit
    <3> QED BY <3>3, <3>4
  <2>2. CASE ~NeedsUpgrade(t)
    <3> DEFINE old == tables[t].file
               g == [old EXCEPT !.records = Append(@, Fields(row))]
    <3>1. Layout(old.header, schema) = "bitmap"
      BY <2>2 DEF NeedsUpgrade, schema
    <3>2. file = g
      BY <2>2
    <3>3. ReadRecords(old, schema) = [ok |-> TRUE, rows |-> rows]
      BY <1>6 DEF Read, schema
    <3> HIDE DEF old, file
    <3>4. old \in Files
      BY <1>6 DEF old
    <3>5. ReadRecords(old, schema).ok /\ ReadRecords(old, schema).rows = rows
      BY <3>3
    <3>6. /\ g \in Files /\ g.header = old.header
          /\ ReadRecords(g, schema)
               = [ok |-> TRUE, rows |-> Append(ReadRecords(old, schema).rows, row)]
      BY <1>5, <1>6, <1>9, <3>1, <3>4, <3>5, RowAppended
    <3> QED BY <3>1, <3>2, <3>5, <3>6 DEF longer
  <2> QED BY <2>1, <2>2
<1> HIDE DEF file
<1>13. n \in 1 .. MaxId + 1 /\ tables[t].nextId <= n
  <2>1. NextId(t) \in 1 .. MaxId
    BY <1>1, <1>3, MaxIdIsDigit DEF t
  <2> QED BY <1>3, <1>5, <1>6, <2>1, MaxIdIsDigit DEF t
<1> HIDE DEF n
<1>14. /\ DOMAIN tables' = DOMAIN tables
       /\ \A u \in DOMAIN tables : SchemaOf(u)' = SchemaOf(u) /\ IsTable(u, tables'[u])
       /\ \A u \in DOMAIN exports : GoodExport(u)'
  <2>1. t \in DOMAIN tables /\ UNCHANGED exports
    BY <1>1 DEF t
  <2>2. /\ RowsFit(longer, SchemaOf(t)) /\ Layout(file.header, SchemaOf(t)) = "bitmap"
        /\ ReadRecords(file, SchemaOf(t)) = [ok |-> TRUE, rows |-> longer]
        /\ \A i \in DOMAIN Rows(t) : Rows(t)[i].id < n
    BY <1>9, <1>10, <1>12 DEF schema, rows
  <2> QED BY <1>8, <1>11, <1>12, <1>13, <2>1, <2>2, RowsWritten, Zenon
<1>15. TablesUsable'
  BY <1>1, <1>7, <1>14 DEF TablesUsable
<1>16. last'.output = <<NextId(t)>> /\ last'.command = "insert" /\ last'.table = t
  BY <1>1, <1>5
<1> QED BY <1>1, <1>15, <1>16 DEF t

(* Update and delete write the file anew, with rows that have IDs of before. *)
LEMMA RewriteStep ==
  ASSUME CInv, NEW t \in DOMAIN tables, Readable(t), NEW new, RowsFit(new, SchemaOf(t)),
         \A k \in DOMAIN new : \E j \in DOMAIN Rows(t) : new[k].id = Rows(t)[j].id,
         tables' = Rewritten(t, new), UNCHANGED exports
  PROVE  TablesUsable'
<1> DEFINE schema == SchemaOf(t)
           n == NextId(t)
           file == [header |-> Header(schema), records |-> Records(new)]
<1>1. /\ n \in 1 .. MaxId + 1 /\ tables[t].nextId <= n
      /\ \A i \in DOMAIN Rows(t) : Rows(t)[i].id < n
  BY NextIdPassesRows
<1>2. tables' = [tables EXCEPT ![t].file = file, ![t].nextId = n]
  BY DEF Rewritten
<1>3. schema \in SchemaValues
  BY RowsOfTable
<1>4. Header(schema) \in Headers(schema)
  BY DEF Headers
<1> HIDE DEF n
<1>5. file \in Files /\ ReadRecords(file, schema) = [ok |-> TRUE, rows |-> new]
  BY <1>3, <1>4, RowsRead
<1>6. Layout(file.header, schema) = "bitmap"
  BY <1>3, <1>4, HeadersFit
<1> HIDE DEF file
<1>7. \A i \in DOMAIN new : new[i].id < n
  BY <1>1
<1>8. /\ DOMAIN tables' = DOMAIN tables
      /\ \A u \in DOMAIN tables : SchemaOf(u)' = SchemaOf(u) /\ IsTable(u, tables'[u])
      /\ \A u \in DOMAIN exports : GoodExport(u)'
  BY <1>1, <1>2, <1>5, <1>6, <1>7, RowsWritten, Zenon
<1> QED BY <1>8 DEF CInv, TablesUsable

(* Update changes the cells of one row.                                      *)
LEMMA UpdateStep ==
  ASSUME CInv, NEW argv \in Arguments, Update(argv)
  PROVE  TablesUsable'
<1> DEFINE t == argv[3]
           schema == SchemaOf(t)
           rows == Rows(t)
           cells == parseRowValues(Values(argv, 5), schema)
<1>1. /\ CanStore(argv, 5) /\ Len(argv) >= 4 /\ t \in DOMAIN tables /\ Readable(t)
      /\ UNCHANGED exports
  BY DEF Update, CanUpdate, NamesRow, OfTable, CanStore
<1>2. PICK i \in DOMAIN rows : tables' = Rewritten(t, [rows EXCEPT ![i].cells = cells])
  BY DEF Update, Indexes
<1>3. 5 \in 1 .. Len(argv) + 1
  <2>1. argv \in Seq(Seq(Characters))
    BY CommandsAssumption
  <2> QED BY <1>1, <2>1
<1>4. schema \in SchemaValues /\ RowsFit(rows, schema) /\ rows[i] \in StoredRows
  BY <1>1, RowsOfTable
<1>5. rows[i].id \in DOMAIN Digits
  BY <1>4 DEF StoredRows
<1> DEFINE other == [id |-> rows[i].id, cells |-> cells]
<1>6. other \in StoredRows /\ RowFits(other, schema)
  BY <1>1, <1>3, <1>5, RowCanBeStored
<1> DEFINE new == [rows EXCEPT ![i].cells = cells]
<1> HIDE DEF cells, rows, schema, t
<1>7. RowsFit(new, schema) /\ Len(new) = Len(rows) /\ \A k \in DOMAIN new : new[k].id = rows[k].id
  BY <1>4, <1>6, RowReplaced
<1>8. \A k \in DOMAIN new : \E j \in DOMAIN rows : new[k].id = rows[j].id
  <2>1. DOMAIN new = DOMAIN rows
    OBVIOUS
  <2> HIDE DEF new
  <2> QED BY <1>7, <2>1
<1>9. tables' = Rewritten(t, new)
  BY <1>2
<1> HIDE DEF new
<1>10. /\ RowsFit(new, SchemaOf(t))
       /\ \A k \in DOMAIN new : \E j \in DOMAIN Rows(t) : new[k].id = Rows(t)[j].id
  BY <1>7, <1>8 DEF rows, schema
<1> QED BY <1>1, <1>9, <1>10, RewriteStep

(* Delete removes one row.                                                   *)
LEMMA DeleteStep ==
  ASSUME CInv, NEW argv \in Arguments, Delete(argv)
  PROVE  TablesUsable'
<1> DEFINE t == argv[3]
           schema == SchemaOf(t)
           rows == Rows(t)
<1>1. t \in DOMAIN tables /\ Readable(t) /\ UNCHANGED exports
  BY DEF Delete, CanDelete, NamesRow, OfTable
<1>2. PICK i \in DOMAIN rows : tables' = Rewritten(t, RemoveAt(rows, i))
  BY DEF Delete, Indexes
<1>3. schema \in SchemaValues /\ RowsFit(rows, schema)
  BY <1>1, RowsOfTable
<1> DEFINE new == RemoveAt(rows, i)
<1> HIDE DEF rows, schema, t
<1>4. RowsFit(new, schema) /\ \A k \in DOMAIN new : \E j \in DOMAIN rows : new[k] = rows[j]
  BY <1>3, RowRemoved
<1> HIDE DEF new
<1>5. \A k \in DOMAIN new : \E j \in DOMAIN rows : new[k].id = rows[j].id
  BY <1>4
<1> QED BY <1>1, <1>2, <1>4, <1>5, RewriteStep DEF new, rows, schema

(* A column that is declared and passes Column::validate.                    *)
LEMMA DeclaredColumn ==
  ASSUME NEW specification, validate(parseColumn(specification)),
         parseColumn(specification).dimension \in 0 .. MaxDimension
  PROVE  parseColumn(specification) \in ColumnValues
<1> DEFINE column == parseColumn(specification)
           Fielded(c) == /\ c = [name |-> c.name, type |-> c.type, dimension |-> c.dimension,
                                 nullable |-> c.nullable]
                         /\ c.nullable \in BOOLEAN
<1>1. Fielded(column)
  <2> DEFINE type == uppercase(SubSeq(specification, 3, Len(specification)))
             nullable == ~IsSuffix(<<":", "NOT_NULL">>, type)
             plain == IF nullable THEN type ELSE SubSeq(type, 1, Len(type) - 2)
             size == SubSeq(plain, 2, Len(plain) - 1)
             Column(dataType, dimension) == [name |-> specification[1], type |-> dataType,
                                             dimension |-> dimension, nullable |-> nullable]
  <2>1. column = IF Len(specification) < 3 \/ specification[1] = ":" \/ specification[2] # ":"
                 THEN NoColumn
                 ELSE CASE plain = <<"INTEGER">> -> Column("INTEGER", 0)
                        [] plain = <<"TEXT">> -> Column("TEXT", 0)
                        [] Len(plain) > 2 /\ plain[1] = "VECTOR(" /\ Last(plain) = ")" /\ IsSize(size) ->
                             Column("VECTOR", parseSize(size))
                        [] OTHER -> NoColumn
    BY DEF parseColumn
  <2>2. nullable \in BOOLEAN
    OBVIOUS
  <2> HIDE DEF nullable, type, plain, size
  <2>3. Fielded(NoColumn)
    BY DEF NoColumn
  <2>4. ASSUME NEW dataType, NEW dimension PROVE Fielded(Column(dataType, dimension))
    BY <2>2
  <2> HIDE DEF Fielded, Column, column
  <2>5. \/ column = NoColumn \/ column = Column("INTEGER", 0) \/ column = Column("TEXT", 0)
        \/ column = Column("VECTOR", parseSize(size))
    BY <2>1
  <2> QED BY <2>3, <2>4, <2>5
<1> HIDE DEF column
<1>2. column.dimension \in Nat
  BY MaxIdIsDigit DEF column
<1> QED BY <1>1, <1>2 DEF validate, ColumnValues, column

(* Create adds a table without rows, beside the others.                      *)
LEMMA CreateStep ==
  ASSUME CInv, NEW argv \in Arguments, Create(argv)
  PROVE  /\ TablesUsable' /\ DOMAIN tables \subseteq DOMAIN tables'
         /\ \A u \in DOMAIN tables : tables'[u] = tables[u]
<1> DEFINE t == argv[3]
           schema == Declared(argv)
           table == [catalog |-> writeSchema(t, schema),
                     file |-> [header |-> Header(schema), records |-> <<>>],
                     nextId |-> 1]
<1>1. /\ IsSchema(schema) /\ t \in TableNames \ DOMAIN tables /\ Len(argv) >= 4
      /\ \A i \in DOMAIN schema : schema[i].dimension \in 0 .. MaxDimension
      /\ tables' = With(tables, t, table) /\ UNCHANGED exports
  BY DEF Create, CanCreate, FitsBound
<1>2. schema \in SchemaValues
  <2>1. argv \in Seq(Seq(Characters)) /\ Len(argv) - 3 \in Nat
    <3>1. argv \in Seq(Seq(Characters))
      BY CommandsAssumption
    <3> QED BY <1>1, <3>1
  <2>2. schema = [i \in 1 .. Len(argv) - 3 |-> parseColumn(argv[i + 3])]
    BY DEF Declared
  <2>3. \A i \in 1 .. Len(argv) - 3 : parseColumn(argv[i + 3]) \in ColumnValues
    <3> SUFFICES ASSUME NEW i \in 1 .. Len(argv) - 3
                 PROVE  parseColumn(argv[i + 3]) \in ColumnValues
      OBVIOUS
    <3>1. schema[i] = parseColumn(argv[i + 3]) /\ i \in DOMAIN schema
      BY <2>2
    <3> HIDE DEF schema
    <3>2. validate(schema[i]) /\ schema[i].dimension \in 0 .. MaxDimension
      BY <1>1, <3>1 DEF IsSchema
    <3> QED BY <3>1, <3>2, DeclaredColumn
  <2>4. schema \in [1 .. Len(argv) - 3 -> ColumnValues]
    BY <2>2, <2>3
  <2> HIDE DEF schema
  <2> QED BY <2>1, <2>4, FunctionIsSeq, Zenon DEF SchemaValues
<1> HIDE DEF schema, t
<1>3. /\ readSchema(table.catalog) = schema /\ IsCatalog(table.catalog, t)
  <2>1. schema \in Seq(ColumnValues)
    BY <1>2 DEF SchemaValues
  <2>2. readSchema(writeSchema(t, schema)) = schema /\ IsCatalog(writeSchema(t, schema), t)
    BY <1>1, <2>1, SchemaReadsBack, Zenon
  <2> QED BY <2>2
<1>4. PICK none : none = <<>>
  OBVIOUS
<1>5. RowsFit(none, schema) /\ Records(none) = <<>> /\ DOMAIN none = {}
  <2>1. none \in Seq(StoredRows) /\ DOMAIN none = {}
    BY <1>4
  <2>2. Records(none) = <<>>
    BY <1>4 DEF Records
  <2> QED BY <2>1, <2>2 DEF RowsFit
<1>6. /\ table.file \in Files /\ ReadRecords(table.file, schema) = [ok |-> TRUE, rows |-> none]
      /\ Layout(table.file.header, schema) = "bitmap"
  <2>1. Header(schema) \in Headers(schema)
    BY DEF Headers
  <2> DEFINE file == [header |-> Header(schema), records |-> Records(none)]
  <2>2. file \in Files /\ ReadRecords(file, schema) = [ok |-> TRUE, rows |-> none]
    BY <1>2, <1>5, <2>1, RowsRead
  <2>3. Layout(Header(schema), schema) = "bitmap"
    BY <1>2, <2>1, HeadersFit
  <2>4. table.file = file /\ table.file.header = Header(schema)
    BY <1>5
  <2> HIDE DEF file, table
  <2> QED BY <2>2, <2>3, <2>4
<1>7. /\ table = [catalog |-> table.catalog, file |-> table.file, nextId |-> table.nextId]
      /\ table.nextId \in NoCounter .. MaxId + 1
  BY MaxIdIsDigit DEF NoCounter
<1> HIDE DEF table
<1>8. IsTable(t, table)
  <2> DEFINE data == ReadRecords(table.file, schema)
  <2>1. data.ok /\ Range(data.rows) = {} /\ Layout(table.file.header, schema) # "noid"
    BY <1>5, <1>6 DEF Range
  <2>2. \A c \in DOMAIN schema : schema[c].dimension <= MaxDimension
    BY <1>1, MaxIdIsDigit
  <2>3. /\ schema \in Seq(ColumnValues)
        /\ table.file \in [header : Seq(Characters), records : Seq(Seq(Seq(Characters)))]
    BY <1>2, <1>6 DEF SchemaValues, Files
  <2> HIDE DEF data
  <2> QED BY <1>3, <1>7, <2>1, <2>2, <2>3 DEF IsTable, data
<1>9. DOMAIN tables' = DOMAIN tables \cup {t} /\ tables'[t] = table
      /\ \A u \in DOMAIN tables : tables'[u] = tables[u]
  BY <1>1 DEF With
<1>10. \A u \in DOMAIN exports : GoodExport(u)'
  BY <1>1, <1>9 DEF CInv, TablesUsable, GoodExport, SchemaOf, Rows, Read
<1>11. TablesUsable'
  BY <1>1, <1>8, <1>9, <1>10 DEF CInv, TablesUsable
<1> QED BY <1>9, <1>11

(* The rows that an export is made of are read from it.                      *)
LEMMA ExportReads ==
  ASSUME NEW schema \in SchemaValues, NEW rows, RowsFit(rows, schema)
  PROVE  LET file == printCsv(schema, rows)
         IN  /\ file \in Files /\ ReadRecords(file, schema) = [ok |-> TRUE, rows |-> rows]
             /\ Layout(file.header, schema) = "bitmap"
<1> DEFINE header == [Header(schema) EXCEPT ![1] = "row_id"]
<1>1. header \in Headers(schema)
  BY DEF Headers
<1> HIDE DEF header
<1> DEFINE file == [header |-> header, records |-> Records(rows)]
<1>2. file \in Files /\ ReadRecords(file, schema) = [ok |-> TRUE, rows |-> rows]
  BY <1>1, RowsRead
<1>3. Layout(header, schema) = "bitmap"
  BY <1>1, HeadersFit
<1>4. printCsv(schema, rows) = file /\ file.header = header
  BY DEF printCsv, header
<1> HIDE DEF file
<1> QED BY <1>2, <1>3, <1>4

(* The user gets an export of the rows that there are.                       *)
LEMMA SelectCsvStep ==
  ASSUME CInv, NEW argv \in Arguments, SelectCsv(argv)
  PROVE  /\ TablesUsable' /\ UNCHANGED tables /\ argv[3] \in DOMAIN tables
         /\ last' = [command |-> "select --csv", table |-> argv[3], code |-> 0,
                     output |-> printCsv(SchemaOf(argv[3]), Rows(argv[3]))]
<1> DEFINE t == argv[3]
           csv == printCsv(SchemaOf(t), Rows(t))
<1>1. /\ t \in DOMAIN tables /\ UNCHANGED tables /\ exports' = With(exports, t, csv)
      /\ last' = [command |-> "select --csv", table |-> t, code |-> 0, output |-> csv]
  BY DEF SelectCsv, CanSelect, OfTable, Exit
<1>2. /\ SchemaOf(t) \in SchemaValues /\ RowsFit(Rows(t), SchemaOf(t))
      /\ tables[t].nextId # NoCounter => \A i \in DOMAIN Rows(t) : Rows(t)[i].id < tables[t].nextId
  BY <1>1, RowsOfTable
<1>3. ReadRecords(csv, SchemaOf(t)) = [ok |-> TRUE, rows |-> Rows(t)]
  BY <1>2, ExportReads
<1> HIDE DEF csv, t
<1>4. /\ DOMAIN exports' = DOMAIN exports \cup {t} /\ exports'[t] = csv
      /\ \A u \in DOMAIN exports : u # t => exports'[u] = exports[u]
  BY <1>1 DEF With
<1>5. GoodExport(t)'
  <2>1. ReadRecords(exports'[t], SchemaOf(t)).rows = Rows(t)
    BY <1>3, <1>4
  <2>2. SchemaOf(t)' = SchemaOf(t) /\ Rows(t)' = Rows(t)
    BY <1>1 DEF SchemaOf, Rows, Read
  <2> QED BY <1>1, <1>2, <1>4, <2>1, <2>2 DEF GoodExport, csv
<1>6. ASSUME NEW u \in DOMAIN exports, u # t PROVE GoodExport(u)'
  <2>1. GoodExport(u)
    BY DEF CInv, TablesUsable
  <2> QED BY <1>1, <1>4, <1>6, <2>1 DEF GoodExport, SchemaOf, Rows, Read
<1>7. \A u \in DOMAIN exports' : GoodExport(u)'
  BY <1>4, <1>5, <1>6
<1>8. TablesUsable'
  BY <1>1, <1>4, <1>7 DEF CInv, TablesUsable
<1> QED BY <1>1, <1>8 DEF t, csv

(* An export comes back over its table: its rows fit, and the counter passes them. *)
LEMMA RestoreStep ==
  ASSUME CInv, Restore
  PROVE  /\ TablesUsable' /\ DOMAIN tables' = DOMAIN tables
         /\ \A u \in DOMAIN tables : SchemaOf(u)' = SchemaOf(u)
<1>1. PICK t \in DOMAIN exports : /\ tables' = [tables EXCEPT ![t].file = exports[t]]
                                  /\ UNCHANGED <<initialized, exports, last>>
  BY DEF Restore
<1>2. t \in DOMAIN tables /\ IsTable(t, tables[t]) /\ GoodExport(t)
  BY DEF CInv, TablesUsable
<1> DEFINE saved == ReadRecords(exports[t], SchemaOf(t)).rows
           n == tables[t].nextId
<1>3. /\ RowsFit(saved, SchemaOf(t)) /\ exports[t] = printCsv(SchemaOf(t), saved)
      /\ IF n = NoCounter THEN saved = Rows(t) ELSE \A i \in DOMAIN saved : saved[i].id < n
  BY <1>2 DEF GoodExport
<1> HIDE DEF saved
<1>4. SchemaOf(t) \in SchemaValues /\ n \in 0 .. MaxId + 1
  BY <1>2, RowsOfTable
<1>5. /\ exports[t] \in Files /\ ReadRecords(exports[t], SchemaOf(t)) = [ok |-> TRUE, rows |-> saved]
      /\ Layout(exports[t].header, SchemaOf(t)) = "bitmap"
  BY <1>3, <1>4, ExportReads
<1>6. tables[t] = [catalog |-> tables[t].catalog, file |-> tables[t].file, nextId |-> n]
  BY <1>2, TableParts, Zenon
<1> HIDE DEF n
<1>7. /\ DOMAIN tables' = DOMAIN tables
      /\ tables'[t] = [catalog |-> tables[t].catalog, file |-> exports[t], nextId |-> n]
      /\ \A u \in DOMAIN tables : u # t => tables'[u] = tables[u]
  <2> DEFINE g == [tables EXCEPT ![t].file = exports[t]]
  <2>1. /\ DOMAIN g = DOMAIN tables
        /\ g[t] = [catalog |-> tables[t].catalog, file |-> exports[t], nextId |-> tables[t].nextId]
        /\ \A u \in DOMAIN tables : u # t => g[u] = tables[u]
    BY <1>2, <1>6, FileUpdated, Zenon DEF n
  <2>2. tables' = g
    BY <1>1
  <2> HIDE DEF g
  <2> QED BY <2>1, <2>2 DEF n
<1>8. IsTable(t, tables'[t])
  <2>1. n # NoCounter => \A i \in DOMAIN saved : saved[i].id < n
    BY <1>3
  <2>2. IsTable(t, [catalog |-> tables[t].catalog, file |-> exports[t], nextId |-> n])
    BY <1>2, <1>3, <1>4, <1>5, <2>1, TableWithRows, Zenon DEF SchemaOf
  <2> QED BY <1>7, <2>2, Zenon
<1>9. \A u \in DOMAIN tables : SchemaOf(u)' = SchemaOf(u)
  BY <1>7 DEF SchemaOf
<1>10. ASSUME NEW u \in DOMAIN exports PROVE GoodExport(u)'
  <2>1. GoodExport(u) /\ u \in DOMAIN tables
    BY DEF CInv, TablesUsable
  <2>2. CASE u # t
    BY <1>1, <1>7, <2>1, <2>2 DEF GoodExport, SchemaOf, Rows, Read
  <2>3. CASE u = t
    <3>1. Rows(t)' = saved /\ SchemaOf(t)' = SchemaOf(t)
      <4>1. Rows(t)' = ReadRecords(tables'[t].file, SchemaOf(t)').rows
        BY DEF Rows, Read
      <4> QED BY <1>2, <1>5, <1>7, <1>9, <4>1
    <3>2. tables'[t].nextId = n /\ exports' = exports
      BY <1>1, <1>7
    <3>3. ReadRecords(exports'[t], SchemaOf(t)').rows = saved
      BY <1>5, <3>1, <3>2
    <3> QED BY <1>3, <2>3, <3>1, <3>2, <3>3 DEF GoodExport
  <2> QED BY <2>2, <2>3
<1>11. ASSUME NEW u \in DOMAIN tables PROVE IsTable(u, tables'[u])
  BY <1>7, <1>8, Zenon DEF CInv, TablesUsable
<1>12. TablesUsable'
  BY <1>1, <1>7, <1>10, <1>11 DEF CInv, TablesUsable
<1> QED BY <1>7, <1>9, <1>12

(* Commands that only read leave everything usable.                          *)
LEMMA TablesKept ==
  ASSUME CInv, UNCHANGED <<tables, exports>>
  PROVE  TablesUsable'
  BY DEF CInv, TablesUsable, GoodExport, SchemaOf, Rows, Read

(* The invariant holds of the tables of earlier versions.                    *)
LEMMA CInvInitially == Init => CInv
<1> SUFFICES ASSUME Init PROVE CInv
  OBVIOUS
<1>1. /\ initialized \in BOOLEAN /\ tables \in IF initialized THEN OldTables ELSE {<<>>}
      /\ exports = <<>> /\ last.command = "none" /\ last.code = 0
  BY DEF Init
<1>2. DOMAIN exports = {}
  BY <1>1
<1>3. /\ tables # <<>> => initialized
      /\ DOMAIN tables \subseteq TableNames /\ \A t \in DOMAIN tables : IsTable(t, tables[t])
  <2>1. CASE initialized = TRUE
    BY <1>1, <2>1, OldTablesAssumption
  <2>2. CASE initialized = FALSE
    <3>1. tables = <<>> /\ DOMAIN tables = {}
      BY <1>1, <2>2
    <3> QED BY <3>1
  <2> QED BY <1>1, <2>1, <2>2
<1> QED BY <1>1, <1>2, <1>3 DEF CInv, TablesUsable, Described

(* No step breaks the invariant.                                             *)
LEMMA NextKeepsCInv == CInv /\ [Next]_vars => CInv'
<1> SUFFICES ASSUME CInv, [Next]_vars PROVE CInv'
  OBVIOUS
<1>1. /\ initialized \in BOOLEAN /\ (tables # <<>> => initialized) /\ last.code \in 0..2
      /\ TablesUsable /\ Described
  BY DEF CInv
<1>2. ASSUME TablesUsable', initialized' = TRUE, last'.code = 0, last'.command # "describe"
      PROVE  CInv'
  BY <1>2 DEF CInv, Described
<1>3. ASSUME NEW argv \in Arguments, Usage(argv) PROVE CInv'
  <2>1. /\ UNCHANGED <<initialized, tables, exports>> /\ last'.code = 2 /\ last'.command = "none"
    BY <1>3 DEF Usage
  <2>2. TablesUsable'
    BY <2>1, TablesKept
  <2> QED BY <1>1, <2>1, <2>2 DEF CInv, Described
<1>4. ASSUME NEW argv \in Arguments, Fail(argv) PROVE CInv'
  <2>1. /\ UNCHANGED <<tables, exports>> /\ last'.code = 1 /\ last'.command = "none"
        /\ initialized' = TRUE
    BY <1>4 DEF Fail
  <2>2. TablesUsable'
    BY <2>1, TablesKept
  <2> QED BY <1>1, <2>1, <2>2 DEF CInv, Described
<1>5. ASSUME NEW argv \in Arguments, List(argv) PROVE CInv'
  <2>1. /\ UNCHANGED <<tables, exports>> /\ last'.code = 0 /\ last'.command = argv[2][1]
        /\ initialized' = TRUE
    BY <1>5 DEF List, Exit
  <2>2. argv[2] = <<"init">> \/ argv[2] = <<"list">>
    BY <1>5 DEF List, CanList, Is
  <2>3. last'.command # "describe"
    BY <2>1, <2>2
  <2>4. TablesUsable'
    BY <2>1, TablesKept
  <2> QED BY <1>2, <2>1, <2>3, <2>4
<1>6. ASSUME NEW argv \in Arguments, Describe(argv) PROVE CInv'
  <2>1. /\ UNCHANGED <<tables, exports>> /\ initialized' = TRUE /\ argv[3] \in DOMAIN tables
        /\ last'.code = 0 /\ last'.table = argv[3] /\ last'.output = printSchema(SchemaOf(argv[3]))
    BY <1>6 DEF Describe, CanDescribe, OfTable, Exit
  <2>2. TablesUsable'
    BY <2>1, TablesKept
  <2>3. Described'
    BY <2>1 DEF Described, SchemaOf
  <2> QED BY <2>1, <2>2, <2>3 DEF CInv
<1>7. ASSUME NEW argv \in Arguments, Create(argv) PROVE CInv'
  <2>1. initialized' = TRUE /\ last'.code = 0 /\ last'.command = "create"
    BY <1>7 DEF Create, Exit
  <2> QED BY <1>2, <1>7, <2>1, CreateStep
<1>8. ASSUME NEW argv \in Arguments, Insert(argv) PROVE CInv'
  <2>1. initialized' = TRUE /\ last'.code = 0 /\ last'.command = "insert"
    BY <1>8 DEF Insert, Exit
  <2>2. TablesUsable'
    BY <1>8, InsertStep
  <2> QED BY <1>2, <2>1, <2>2
<1>9. ASSUME NEW argv \in Arguments, Update(argv) PROVE CInv'
  <2>1. initialized' = TRUE /\ last'.code = 0 /\ last'.command = "update"
    BY <1>9 DEF Update, Exit
  <2> QED BY <1>2, <1>9, <2>1, UpdateStep
<1>10. ASSUME NEW argv \in Arguments, Delete(argv) PROVE CInv'
  <2>1. initialized' = TRUE /\ last'.code = 0 /\ last'.command = "delete"
    BY <1>10 DEF Delete, Exit
  <2> QED BY <1>2, <1>10, <2>1, DeleteStep
<1>11. ASSUME NEW argv \in Arguments, Select(argv) PROVE CInv'
  <2>1. /\ UNCHANGED <<tables, exports>> /\ initialized' = TRUE /\ last'.code = 0
        /\ last'.command = "select"
    BY <1>11 DEF Select, Exit
  <2>2. TablesUsable'
    BY <2>1, TablesKept
  <2> QED BY <1>2, <2>1, <2>2
<1>12. ASSUME NEW argv \in Arguments, SelectCsv(argv) PROVE CInv'
  <2>1. initialized' = TRUE /\ last'.code = 0 /\ last'.command = "select --csv"
    BY <1>12 DEF SelectCsv, Exit
  <2> QED BY <1>2, <1>12, <2>1, SelectCsvStep
<1>13. ASSUME Restore PROVE CInv'
  <2>1. UNCHANGED <<initialized, last>>
    BY <1>13 DEF Restore
  <2>2. /\ TablesUsable' /\ DOMAIN tables' = DOMAIN tables
        /\ \A u \in DOMAIN tables : SchemaOf(u)' = SchemaOf(u)
    BY <1>13, RestoreStep
  <2>3. Described'
    BY <1>1, <2>1, <2>2 DEF Described
  <2>4. initialized
    <3>1. DOMAIN tables # {}
      BY <1>1, <1>13 DEF Restore, TablesUsable
    <3>2. tables # <<>>
      BY <3>1
    <3> QED BY <1>1, <3>2
  <2> QED BY <1>1, <2>1, <2>2, <2>3, <2>4 DEF CInv
<1>14. ASSUME UNCHANGED vars PROVE CInv'
  <2>1. UNCHANGED <<initialized, tables, exports, last>>
    BY <1>14 DEF vars
  <2>2. TablesUsable'
    BY <2>1, TablesKept
  <2> QED BY <1>1, <2>1, <2>2 DEF CInv, Described, SchemaOf
<1> QED BY <1>3, <1>4, <1>5, <1>6, <1>7, <1>8, <1>9, <1>10, <1>11, <1>12, <1>13, <1>14, Zenon DEF Next

(* The invariant is inductive.                                               *)
THEOREM Inductive == Spec => []CInv
<1>1. Init => CInv
  BY CInvInitially
<1>2. CInv /\ [Next]_vars => CInv'
  BY NextKeepsCInv
<1> QED BY <1>1, <1>2, PTL DEF Spec

-----------------------------------------------------------------------------
(* The properties that the run command_line checks. *)

(* Tables have a catalog file that reads as theirs, and the database exists  *)
(* whenever there is a table.                                                *)
THEOREM TypeCorrect == Spec => []TypeOK
<1>1. CInv => TypeOK
  <2> SUFFICES ASSUME CInv PROVE TypeOK
    OBVIOUS
  <2>1. ASSUME NEW t \in DOMAIN tables
        PROVE  IsCatalog(tables[t].catalog, t) /\ tables[t].nextId \in NoCounter .. MaxId + 1
    BY DEF CInv, TablesUsable, IsTable
  <2>2. ASSUME NEW t \in DOMAIN tables PROVE Read(t).ok
    <3>1. Read(t) = [ok |-> TRUE, rows |-> Rows(t)]
      BY RowsOfTable
    <3> QED BY <3>1
  <2>3. ASSUME NEW t \in DOMAIN tables, NEW row \in Range(Rows(t))
        PROVE  validateRow(row.cells, SchemaOf(t))
    <3>1. row \in StoredRows /\ RowFits(row, SchemaOf(t))
      BY RowsOfTable DEF Range
    <3>2. ASSUME NEW i \in DOMAIN SchemaOf(t)
          PROVE  IF row.cells[i].null THEN SchemaOf(t)[i].nullable
                 ELSE SchemaOf(t)[i].type = "VECTOR" => row.cells[i].payload = <<"vec">>
      <4>1. CellFits(row.cells[i], SchemaOf(t)[i])
        BY <3>1 DEF RowFits
      <4> QED BY <4>1 DEF CellFits, deserializes
    <3> QED BY <3>2 DEF validateRow
  <2> QED BY <2>1, <2>2, <2>3 DEF TypeOK, CInv, TablesUsable
<1> QED BY <1>1, Inductive, PTL

(* No commands and restored exports make a table that commands refuse.       *)
THEOREM Readability == Spec => []StaysReadable
<1>1. CInv => StaysReadable
  <2> SUFFICES ASSUME CInv, NEW t \in DOMAIN tables, tables[t].nextId # NoCounter
               PROVE  Readable(t)
    BY DEF StaysReadable
  <2>1. /\ Read(t) = [ok |-> TRUE, rows |-> Rows(t)]
        /\ \A i \in DOMAIN Rows(t) : Rows(t)[i].id < tables[t].nextId
    BY RowsOfTable
  <2>2. Read(t).ok /\ Read(t).rows = Rows(t)
    BY <2>1
  <2>3. \A row \in Range(Read(t).rows) : row.id < tables[t].nextId
    BY <2>1, <2>2 DEF Range
  <2> QED BY <2>2, <2>3 DEF Readable
<1> QED BY <1>1, Inductive, PTL

(* Each cell of each row has a word that gives this cell.                    *)
THEOREM CellsTyped == Spec => []CellsCanBeTyped
<1>1. CInv => CellsCanBeTyped
  <2> SUFFICES ASSUME CInv, NEW t \in DOMAIN tables, NEW row \in Range(Rows(t)),
                      NEW i \in DOMAIN SchemaOf(t)
               PROVE  LET column == SchemaOf(t)[i]
                      IN  /\ IsCell(Typed(row.cells[i], column), column)
                          /\ parseCell(Typed(row.cells[i], column), column) = row.cells[i]
    BY Zenon DEF CellsCanBeTyped
  <2> DEFINE column == SchemaOf(t)[i]
  <2>1. IsTable(t, tables[t])
    BY DEF CInv, TablesUsable
  <2>2. column \in ColumnValues /\ validate(column)
    BY <2>1, SchemaOfTable DEF SchemaOf
  <2>3. row \in StoredRows /\ RowFits(row, SchemaOf(t))
    BY RowsOfTable DEF Range
  <2>4. row.cells[i] \in Cells /\ CellFits(row.cells[i], column)
    BY <2>3 DEF StoredRows, RowFits
  <2> QED BY <2>2, <2>4, CellCanBeTyped
<1> QED BY <1>1, Inductive, PTL

(* What describe shows of a table declares its schema.                       *)
THEOREM DescriptionsDeclare == Spec => []DescribedCanBeDeclared
<1>1. CInv => DescribedCanBeDeclared
  <2> SUFFICES ASSUME CInv, last.command = "describe"
               PROVE  [i \in DOMAIN last.output |-> parseColumn(AsDescribed(last.output[i]))]
                        = SchemaOf(last.table)
    BY DEF DescribedCanBeDeclared
  <2> DEFINE t == last.table
             schema == SchemaOf(t)
  <2>1. t \in DOMAIN tables /\ last.output = printSchema(schema) /\ IsTable(t, tables[t])
    BY DEF CInv, TablesUsable, Described
  <2>2. /\ schema \in SchemaValues
        /\ \A c \in DOMAIN schema : /\ schema[c] \in ColumnValues /\ validate(schema[c])
                                    /\ schema[c].dimension <= MaxDimension
    BY <2>1, RowsOfTable, SchemaOfTable DEF SchemaOf
  <2> HIDE DEF schema
  <2>3. last.output = [c \in DOMAIN schema |-> Line(schema[c])]
    BY <2>1 DEF printSchema, Line
  <2>4. \A c \in DOMAIN schema : parseColumn(AsDescribed(Line(schema[c]))) = schema[c]
    BY <2>2, ColumnCanBeDeclared
  <2>5. schema = [c \in DOMAIN schema |-> schema[c]]
    BY <2>2 DEF SchemaValues
  <2> QED BY <2>3, <2>4, <2>5 DEF schema
<1> QED BY <1>1, Inductive, PTL

(* Which action it was, by the command that it left in last.                 *)
LEMMA WhichCommand ==
  ASSUME [Next]_vars, last' # last
  PROVE  /\ last'.command = "insert" => \E argv \in Arguments : Insert(argv)
         /\ last'.command = "select" => \E argv \in Arguments : Select(argv)
         /\ last'.command = "select --csv" => \E argv \in Arguments : SelectCsv(argv)
<1>1. ASSUME NEW argv \in Arguments, Usage(argv) \/ Fail(argv) PROVE last'.command = "none"
  BY <1>1 DEF Usage, Fail
<1>2. ASSUME NEW argv \in Arguments, List(argv) PROVE last'.command \in {"init", "list"}
  <2>1. argv[2] = <<"init">> \/ argv[2] = <<"list">>
    BY <1>2 DEF List, CanList, Is
  <2>2. last'.command = argv[2][1]
    BY <1>2 DEF List, Exit
  <2> QED BY <2>1, <2>2
<1>3. ASSUME NEW argv \in Arguments, Describe(argv) PROVE last'.command = "describe"
  BY <1>3 DEF Describe, Exit
<1>4. ASSUME NEW argv \in Arguments, Create(argv) PROVE last'.command = "create"
  BY <1>4 DEF Create, Exit
<1>5. ASSUME NEW argv \in Arguments, Insert(argv) PROVE last'.command = "insert"
  BY <1>5 DEF Insert, Exit
<1>6. ASSUME NEW argv \in Arguments, Update(argv) PROVE last'.command = "update"
  BY <1>6 DEF Update, Exit
<1>7. ASSUME NEW argv \in Arguments, Delete(argv) PROVE last'.command = "delete"
  BY <1>7 DEF Delete, Exit
<1>8. ASSUME NEW argv \in Arguments, Select(argv) PROVE last'.command = "select"
  BY <1>8 DEF Select, Exit
<1>9. ASSUME NEW argv \in Arguments, SelectCsv(argv) PROVE last'.command = "select --csv"
  BY <1>9 DEF SelectCsv, Exit
<1>10. ~Restore /\ ~UNCHANGED vars
  BY DEF Restore, vars
<1>11. PICK argv \in Arguments :
          \/ Usage(argv) \/ Fail(argv) \/ List(argv) \/ Describe(argv) \/ Create(argv)
          \/ Insert(argv) \/ Update(argv) \/ Delete(argv) \/ Select(argv) \/ SelectCsv(argv)
  BY <1>10 DEF Next
<1> QED BY <1>1, <1>2, <1>3, <1>4, <1>5, <1>6, <1>7, <1>8, <1>9, <1>11

(* The counter of one table is set, and the others are left alone.           *)
LEMMA CounterSet ==
  ASSUME CInv, NEW t \in DOMAIN tables, NEW file, NEW n,
         tables' = [tables EXCEPT ![t].file = file, ![t].nextId = n]
  PROVE  /\ tables'[t].nextId = n
         /\ \A u \in DOMAIN tables : u # t => tables'[u] = tables[u]
<1> DEFINE g == [tables EXCEPT ![t].file = file, ![t].nextId = n]
<1>1. tables[t] = [catalog |-> tables[t].catalog, file |-> tables[t].file,
                   nextId |-> tables[t].nextId]
  BY TableParts, Zenon DEF CInv, TablesUsable
<1>2. /\ g[t] = [catalog |-> tables[t].catalog, file |-> file, nextId |-> n]
      /\ \A u \in DOMAIN tables : u # t => g[u] = tables[u]
  BY <1>1, FieldsUpdated, Zenon
<1>3. tables' = g
  OBVIOUS
<1> HIDE DEF g
<1> QED BY <1>2, <1>3

(* After an insert the counter has passed its row ID.                        *)
LEMMA CounterAfterInsert ==
  ASSUME CInv, NEW argv \in Arguments, Insert(argv)
  PROVE  /\ argv[3] \in DOMAIN tables /\ tables'[argv[3]].nextId = NextId(argv[3]) + 1
         /\ \A u \in DOMAIN tables : u # argv[3] => tables'[u] = tables[u]
<1> DEFINE t == argv[3]
           row == [id |-> NextId(t), cells |-> parseRowValues(Values(argv, 4), SchemaOf(t))]
           file == IF NeedsUpgrade(t)
                   THEN [header |-> Header(SchemaOf(t)), records |-> Records(Append(Rows(t), row))]
                   ELSE [tables[t].file EXCEPT !.records = Append(@, Fields(row))]
           n == row.id + 1
<1>1. t \in DOMAIN tables /\ tables' = Appended(t, row)
  BY DEF Insert, CanInsert, CanStore, OfTable
<1>2. tables' = [tables EXCEPT ![t].file = file, ![t].nextId = n]
  BY <1>1 DEF Appended
<1>3. n = NextId(t) + 1
  OBVIOUS
<1> HIDE DEF t, file, n
<1>4. /\ tables'[t].nextId = n
      /\ \A u \in DOMAIN tables : u # t => tables'[u] = tables[u]
  BY <1>1, <1>2, CounterSet, ZenonT(30)
<1> QED BY <1>1, <1>3, <1>4 DEF t

(* No command, nor an export that is copied back, lowers a counter.          *)
LEMMA CountersGrow ==
  CInv /\ [Next]_vars => \A t \in DOMAIN tables : tables'[t].nextId >= tables[t].nextId
<1> SUFFICES ASSUME CInv, [Next]_vars, NEW u \in DOMAIN tables
             PROVE  tables'[u].nextId >= tables[u].nextId
  OBVIOUS
<1>1. tables[u].nextId \in Int
  <2>1. tables[u].nextId \in 0 .. MaxId + 1
    BY RowsOfTable
  <2> QED BY <2>1, MaxIdIsDigit
<1>2. CASE tables'[u].nextId = tables[u].nextId
  BY <1>1, <1>2
<1>3. ASSUME NEW argv \in Arguments, Insert(argv) PROVE tables'[u].nextId >= tables[u].nextId
  <2>1. CASE u = argv[3]
    <3>1. /\ NextId(u) \in 1 .. MaxId + 1 /\ tables[u].nextId <= NextId(u)
          /\ tables'[u].nextId = NextId(u) + 1
      <4>1. Readable(u)
        BY <1>3, <2>1, InsertStep
      <4> QED BY <1>3, <2>1, <4>1, NextIdPassesRows, CounterAfterInsert
    <3> QED BY <1>1, <3>1, MaxIdIsDigit
  <2>2. CASE u # argv[3]
    BY <1>2, <1>3, <2>2, CounterAfterInsert
  <2> QED BY <2>1, <2>2
<1>4. ASSUME NEW t \in DOMAIN tables, Readable(t), NEW new, tables' = Rewritten(t, new)
      PROVE  tables'[u].nextId >= tables[u].nextId
  <2> DEFINE file == [header |-> Header(SchemaOf(t)), records |-> Records(new)]
             n == NextId(t)
  <2>1. tables' = [tables EXCEPT ![t].file = file, ![t].nextId = n]
    BY <1>4 DEF Rewritten
  <2>2. n \in 1 .. MaxId + 1 /\ tables[t].nextId <= n
    BY <1>4, NextIdPassesRows
  <2> HIDE DEF file, n
  <2>3. tables'[t].nextId = n /\ \A v \in DOMAIN tables : v # t => tables'[v] = tables[v]
    BY <1>4, <2>1, CounterSet, ZenonT(30)
  <2>4. CASE u = t
    BY <1>1, <2>2, <2>3, <2>4, MaxIdIsDigit
  <2>5. CASE u # t
    BY <1>2, <2>3, <2>5
  <2> QED BY <2>4, <2>5
<1>5. ASSUME NEW argv \in Arguments, Update(argv) \/ Delete(argv)
      PROVE  tables'[u].nextId >= tables[u].nextId
  <2>1. argv[3] \in DOMAIN tables /\ Readable(argv[3])
    BY <1>5 DEF Update, Delete, CanUpdate, CanDelete, NamesRow, OfTable
  <2>2. \E new : tables' = Rewritten(argv[3], new)
    BY <1>5 DEF Update, Delete
  <2> QED BY <1>4, <2>1, <2>2
<1>6. ASSUME NEW argv \in Arguments, Create(argv) PROVE tables'[u].nextId >= tables[u].nextId
  BY <1>2, <1>6, CreateStep
<1>7. CASE Restore
  <2>1. PICK t \in DOMAIN exports : tables' = [tables EXCEPT ![t].file = exports[t]]
    BY <1>7 DEF Restore
  <2>2. tables'[u].nextId = tables[u].nextId
    BY <2>1
  <2> QED BY <1>2, <2>2
<1>8. CASE UNCHANGED tables
  BY <1>2, <1>8
<1>9. ASSUME NEW argv \in Arguments,
             \/ Usage(argv) \/ Fail(argv) \/ List(argv) \/ Describe(argv)
             \/ Select(argv) \/ SelectCsv(argv)
      PROVE  UNCHANGED tables
  BY <1>9 DEF Usage, Fail, List, Describe, Select, SelectCsv
<1>10. CASE UNCHANGED vars
  BY <1>8, <1>10 DEF vars
<1> QED BY <1>3, <1>5, <1>6, <1>7, <1>8, <1>9, <1>10 DEF Next

(* The row ID of an insert is above those of all rows, of the table and of   *)
(* its export, and no counter, now or before, has reached it.                *)
THEOREM InsertedIdsNew == Spec => InsertedIdsAreNew
<1> DEFINE New ==
      last' # last /\ last'.command = "insert" =>
        LET t == last'.table
            id == last'.output[1]
            held == IF t \in DOMAIN exports THEN ReadRecords(exports[t], SchemaOf(t)).rows
                    ELSE <<>>
        IN  /\ \A row \in Range(Rows(t)) \cup Range(held) : row.id < id
            /\ tables[t].nextId <= id /\ id < tables'[t].nextId
<1>1. CInv /\ [Next]_vars => New
  <2> SUFFICES ASSUME CInv, [Next]_vars, last' # last, last'.command = "insert" PROVE New
    OBVIOUS
  <2>1. PICK argv \in Arguments : Insert(argv)
    BY WhichCommand
  <2> DEFINE t == argv[3]
             held == IF t \in DOMAIN exports THEN ReadRecords(exports[t], SchemaOf(t)).rows ELSE <<>>
  <2>2. /\ t \in DOMAIN tables /\ last'.table = t /\ last'.output = <<NextId(t)>> /\ Readable(t)
    BY <2>1, InsertStep
  <2> HIDE DEF t
  <2>3. /\ NextId(t) \in 1 .. MaxId + 1 /\ tables[t].nextId <= NextId(t)
        /\ \A i \in DOMAIN Rows(t) : Rows(t)[i].id < NextId(t)
        /\ tables[t].nextId \in 0 .. MaxId + 1
    BY <2>2, NextIdPassesRows, RowsOfTable
  <2>4. NextId(t) \in Int /\ tables[t].nextId \in Int
    BY <2>3, MaxIdIsDigit
  <2>6. ASSUME NEW i \in DOMAIN held PROVE held[i].id < NextId(t)
    <3>1. t \in DOMAIN exports
      BY <2>6
    <3>2. GoodExport(t) /\ held = ReadRecords(exports[t], SchemaOf(t)).rows
      BY <3>1 DEF CInv, TablesUsable
    <3> HIDE DEF held
    <3>3. /\ RowsFit(held, SchemaOf(t))
          /\ IF tables[t].nextId = NoCounter THEN held = Rows(t)
             ELSE \A k \in DOMAIN held : held[k].id < tables[t].nextId
      BY <3>2 DEF GoodExport
    <3>4. held[i].id \in Int
      <4>1. held[i].id \in DOMAIN Digits
        BY <2>6, <3>3, RowsParts DEF RowsFit, held
      <4> QED BY <4>1, DigitsDiffer
    <3>5. CASE tables[t].nextId = NoCounter
      BY <2>3, <2>6, <3>3, <3>5 DEF held
    <3>6. CASE tables[t].nextId # NoCounter
      <4>1. held[i].id < tables[t].nextId
        BY <2>6, <3>3, <3>6 DEF held
      <4> QED BY <2>3, <2>4, <3>4, <4>1
    <3> QED BY <3>5, <3>6
  <2> HIDE DEF held
  <2>7. \A row \in Range(Rows(t)) \cup Range(held) : row.id < NextId(t)
    BY <2>3, <2>6 DEF Range
  <2>8. last'.output[1] = NextId(t)
    BY <2>2
  <2>9. NextId(t) < tables'[t].nextId
    BY <2>1, <2>4, CounterAfterInsert DEF t
  <2> QED BY <2>2, <2>3, <2>7, <2>8, <2>9 DEF held
<1>2. CInv /\ [Next]_vars => \A t \in DOMAIN tables : tables'[t].nextId >= tables[t].nextId
  BY CountersGrow
<1> QED BY <1>1, <1>2, Inductive, PTL DEF Spec, InsertedIdsAreNew

(* A table's rows are read from what "select --csv" prints.                  *)
THEOREM ExportsAreLossless == Spec => ExportReadsBack
<1> DEFINE Lossless ==
      last' # last /\ last'.command = "select --csv" =>
        ReadRecords(last'.output, SchemaOf(last'.table)) = [ok |-> TRUE, rows |-> Rows(last'.table)]
<1>1. CInv /\ [Next]_vars => Lossless
  <2> SUFFICES ASSUME CInv, [Next]_vars, last' # last, last'.command = "select --csv" PROVE Lossless
    OBVIOUS
  <2>1. PICK argv \in Arguments : SelectCsv(argv)
    BY WhichCommand
  <2> DEFINE t == argv[3]
  <2>2. /\ t \in DOMAIN tables /\ last'.table = t
        /\ last'.output = printCsv(SchemaOf(t), Rows(t))
    <3>1. /\ t \in DOMAIN tables
          /\ last' = [command |-> "select --csv", table |-> t, code |-> 0,
                      output |-> printCsv(SchemaOf(t), Rows(t))]
      BY <2>1, SelectCsvStep
    <3> QED BY <3>1
  <2> HIDE DEF t
  <2>3. SchemaOf(t) \in SchemaValues /\ RowsFit(Rows(t), SchemaOf(t))
    BY <2>2, RowsOfTable
  <2>4. ReadRecords(printCsv(SchemaOf(t), Rows(t)), SchemaOf(t)) = [ok |-> TRUE, rows |-> Rows(t)]
    BY <2>3, ExportReads
  <2> QED BY <2>2, <2>4
<1> QED BY <1>1, Inductive, PTL DEF Spec, ExportReadsBack

(* Of the cells that select shows, those that are NULL are shown as NULL.    *)
THEOREM NullIsTold == Spec => TerminalTellsNull
<1> DEFINE Told ==
      last' # last /\ last'.command = "select" =>
        LET rows == Rows(last'.table)
        IN  \A i \in DOMAIN rows : \A j \in DOMAIN rows[i].cells :
              rows[i].cells[j].null <=> last'.output[i].cells[j] = <<"NULL">>
<1>1. CInv /\ [Next]_vars => Told
  <2> SUFFICES ASSUME CInv, [Next]_vars, last' # last, last'.command = "select" PROVE Told
    OBVIOUS
  <2>1. PICK argv \in Arguments : Select(argv)
    BY WhichCommand
  <2> DEFINE t == argv[3]
             rows == Rows(t)
  <2>2. t \in DOMAIN tables /\ last'.table = t /\ last'.output = printRows(rows)
    BY <2>1 DEF Select, CanSelect, OfTable, Exit
  <2> HIDE DEF t
  <2>3. \A i \in DOMAIN rows : rows[i].cells \in Seq(Cells)
    BY <2>2, RowsOfTable DEF StoredRows
  <2> HIDE DEF rows
  <2>4. ASSUME NEW i \in DOMAIN rows, NEW j \in DOMAIN rows[i].cells
        PROVE  rows[i].cells[j].null <=> last'.output[i].cells[j] = <<"NULL">>
    <3> DEFINE cell == rows[i].cells[j]
    <3>1. last'.output[i].cells[j] = Shown(cell)
      BY <2>2, <2>4 DEF printRows
    <3>2. cell \in Cells
      BY <2>3, <2>4
    <3> HIDE DEF cell
    <3>3. cell = [null |-> cell.null, payload |-> cell.payload] /\ cell.null \in BOOLEAN
      BY <3>2 DEF Cells
    <3>4. CASE cell.null = TRUE
      <4>1. Shown(cell) = <<"NULL">>
        <5>1. Value(<<"NULL">>).null = FALSE
          BY DEF Value
        <5>2. cell # Value(<<"NULL">>)
          BY <3>4, <5>1
        <5> QED BY <3>4, <5>2 DEF Shown
      <4>2. rows[i].cells[j].null
        BY <3>4 DEF cell
      <4> QED BY <3>1, <4>1, <4>2
    <3>5. CASE cell.null = FALSE
      <4>1. cell.payload = <<"NULL">> => cell = Value(<<"NULL">>)
        BY <3>3, <3>5 DEF Value
      <4>2. <<Quote, "NULL", Quote>> # <<"NULL">>
        OBVIOUS
      <4>3. Shown(cell) # <<"NULL">>
        BY <3>5, <4>1, <4>2 DEF Shown
      <4>4. ~rows[i].cells[j].null
        BY <3>5 DEF cell
      <4> QED BY <3>1, <4>3, <4>4
    <3> QED BY <3>3, <3>4, <3>5
  <2> QED BY <2>2, <2>4 DEF rows
<1> QED BY <1>1, Inductive, PTL DEF Spec, TerminalTellsNull
=============================================================================
