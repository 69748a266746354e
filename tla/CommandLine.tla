---------------------------- MODULE CommandLine ----------------------------
(***************************************************************************)
(* The command line program: every command is a process of its own that    *)
(* opens the database, does one thing, prints and exits.  Commands do not  *)
(* overlap and no file operation fails (TableStorage and DatabaseTables    *)
(* are about failures), so that a command is one step here.                *)
(*                                                                         *)
(* A word of the command line is a sequence of tokens: a name, a digit, a  *)
(* keyword of a type, a backslash, and so on; a name is one token.  A table *)
(* file is a record [header, records], each record the fields that it has, *)
(* whose characters are the subject of CsvAppends.                         *)
(* Drawing of tables, colours and messages are left out.                   *)
(***************************************************************************)
EXTENDS CsvFormat, CatalogFormat, FiniteSets

CONSTANTS Arguments,  \* argument vectors, from the database path on
          OldTables,  \* tables made by earlier versions
          MaxId       \* bound: the largest row ID

Backslash == "backslash"
NoCounter == 0   \* nextId of a table that has no counter file

MaxDimension == Len(Digits)   \* bound: the largest dimension of a vector

ASSUME CommandsAssumption ==
  /\ MaxId \in DOMAIN Digits
  /\ {"vec", "vec3"} \subseteq Characters
  /\ PhysicalNames \cup {"row_id"} \subseteq Characters
  /\ Arguments \subseteq Seq(Seq(Characters))
  /\ ColumnNames \subseteq Characters \ {":"}

(* Reading a table file takes one record after the other.                    *)
ReadRecords(file, schema) ==
  LET layout == Layout(file.header, schema)
      TheRow(i) == RowOf(layout, schema, file.records[i], i)
  IN  IF /\ HeaderFits(file.header, schema)
         /\ \A i \in DOMAIN file.records :
              IsRow(layout, schema, file.records[i], [j \in 1 .. i - 1 |-> TheRow(j)])
      THEN [ok |-> TRUE, rows |-> [i \in DOMAIN file.records |-> TheRow(i)]]
      ELSE Refused

(* A table that the program can use, under its name.                         *)
IsTable(name, table) ==
  LET schema == readSchema(table.catalog)
      file == table.file
      data == ReadRecords(file, schema)
  IN  /\ table = [catalog |-> table.catalog, file |-> file, nextId |-> table.nextId]
      /\ IsCatalog(table.catalog, name) /\ schema \in Seq(ColumnValues)
      /\ \A c \in DOMAIN schema : schema[c].dimension <= MaxDimension
      /\ file \in [header : Seq(Characters), records : Seq(Seq(Seq(Characters)))]
      /\ data.ok
      /\ Layout(file.header, schema) = "noid" => Len(file.records) <= MaxId
      /\ table.nextId \in NoCounter .. MaxId + 1
      /\ table.nextId # NoCounter => \A row \in Range(data.rows) : row.id < table.nextId

ASSUME OldTablesAssumption ==
  \A old \in OldTables : /\ DOMAIN old \subseteq TableNames
                         /\ \A t \in DOMAIN old : IsTable(t, old[t])

VARIABLES initialized,  \* whether the database directory exists
          tables,       \* the tables: [catalog, file, nextId]
          exports,      \* the tables' latest exports, saved by the user
          last          \* the last command: what it was, its exit code, its output

vars == <<initialized, tables, exports, last>>

With(f, key, value) == [k \in DOMAIN f \cup {key} |-> IF k = key THEN value ELSE f[k]]

Records(rows) == [i \in DOMAIN rows |-> Fields(rows[i])]

SchemaOf(t) == readSchema(tables[t].catalog)
Read(t) == ReadRecords(tables[t].file, SchemaOf(t))
Rows(t) == Read(t).rows

-----------------------------------------------------------------------------
(* What words mean. *)

IsSize(word) == word # <<>> /\ Range(word) \subseteq Range(Digits) \cup {"0"}
DigitValue(d) == IF d = "0" THEN 0 ELSE CHOOSE k \in DOMAIN Digits : Digits[k] = d
parseSize(word) ==
  LET value[i \in 0 .. Len(word)] ==
        IF i = 0 THEN 0 ELSE 10 * value[i - 1] + DigitValue(word[i])
  IN  value[Len(word)]

IsRowId(word) == IsSize(word) /\ parseSize(word) > 0

Upper(token) == CASE token = "integer"  -> "INTEGER"
                  [] token = "text"     -> "TEXT"
                  [] token = "vector("  -> "VECTOR("
                  [] token = "not_null" -> "NOT_NULL"
                  [] OTHER              -> token
uppercase(word) == [i \in DOMAIN word |-> Upper(word[i])]

(* What parseColumn refuses, validate refuses here. *)
NoColumn == [name |-> "", type |-> "none", dimension |-> 0, nullable |-> TRUE]

parseColumn(specification) ==
  LET type == uppercase(SubSeq(specification, 3, Len(specification)))
      nullable == ~IsSuffix(<<":", "NOT_NULL">>, type)
      plain == IF nullable THEN type ELSE SubSeq(type, 1, Len(type) - 2)
      size == SubSeq(plain, 2, Len(plain) - 1)
      Column(dataType, dimension) == [name |-> specification[1], type |-> dataType,
                                      dimension |-> dimension, nullable |-> nullable]
  IN  IF Len(specification) < 3 \/ specification[1] = ":" \/ specification[2] # ":"
      THEN NoColumn
      ELSE CASE plain = <<"INTEGER">> -> Column("INTEGER", 0)
             [] plain = <<"TEXT">> -> Column("TEXT", 0)
             [] Len(plain) > 2 /\ plain[1] = "VECTOR(" /\ Last(plain) = ")" /\ IsSize(size) ->
                  Column("VECTOR", parseSize(size))
             [] OTHER -> NoColumn

NullWord == <<Backslash, "N">>
Unsigned(word) == IF word # <<>> /\ Head(word) = "+" THEN Tail(word) ELSE word

(* Numbers between brackets, with a comma between any two. *)
IsVector(word) ==
  /\ Len(word) >= 2 /\ Head(word) = "[" /\ Last(word) = "]"
  /\ \A i \in 2 .. Len(word) - 1 :
       IF word[i] = Comma THEN {word[i - 1], word[i + 1]} \subseteq Range(Digits)
       ELSE word[i] \in Range(Digits)
Coordinates(word) == IF Len(word) = 2 THEN 0
                     ELSE 1 + Cardinality({i \in DOMAIN word : word[i] = Comma})

IsCell(word, column) ==
  \/ word = NullWord
  \/ column.type = "INTEGER" /\ IsNumber(Unsigned(word))
  \/ column.type = "TEXT" /\ (IsPrefix(<<Backslash>>, word) =>
                                IsPrefix(<<Backslash, Backslash>>, word))
  \/ column.type = "VECTOR" /\ IsVector(word)

(* Mutant: the extra backslash of a text is kept. *)
TextAsTyped(word) == word
Text(word) == IF IsPrefix(<<Backslash>>, word) THEN Tail(word) ELSE word

parseCell(word, column) ==
  IF word = NullWord THEN NullCell
  ELSE Value(CASE column.type = "INTEGER" -> Unsigned(word)
               [] column.type = "TEXT" -> Text(word)
               [] column.type = "VECTOR" ->
                    IF Coordinates(word) = column.dimension THEN <<"vec">> ELSE <<"vec3">>)

Values(argv, first) == SubSeq(argv, first, Len(argv))
AreCells(words, schema) == /\ Len(words) = Len(schema)
                           /\ \A i \in DOMAIN schema : IsCell(words[i], schema[i])
parseRowValues(words, schema) == [i \in DOMAIN schema |-> parseCell(words[i], schema[i])]

(* Mutant: any vector will do, and NULL anywhere. *)
AnyRow(cells, schema) == TRUE
validateRow(cells, schema) ==
  \A i \in DOMAIN schema :
    IF cells[i].null THEN schema[i].nullable
    ELSE schema[i].type = "VECTOR" => cells[i].payload = <<"vec">>

-----------------------------------------------------------------------------
(* What is printed. *)

TypeName(column) == IF column.type = "VECTOR"
                    THEN <<"VECTOR(", Digits[column.dimension], ")">> ELSE <<column.type>>

(* Mutant: without the dimension of vectors. *)
printTypes(schema) ==
  [i \in DOMAIN schema |->
     <<<<schema[i].name>>, <<schema[i].type>>, IF schema[i].nullable THEN <<"YES">> ELSE <<"NO">>>>]
printSchema(schema) ==
  [i \in DOMAIN schema |->
     <<<<schema[i].name>>, TypeName(schema[i]), IF schema[i].nullable THEN <<"YES">> ELSE <<"NO">>>>]

(* Mutant: a text is shown as it is. *)
ShownPlain(cell) == IF cell.null THEN <<"NULL">> ELSE cell.payload
Shown(cell) == CASE cell.null -> <<"NULL">>
                 [] cell = Value(<<"NULL">>) -> <<Quote, "NULL", Quote>>
                 [] OTHER -> cell.payload

printRows(rows) == [i \in DOMAIN rows |-> [id |-> rows[i].id,
                      cells |-> [j \in DOMAIN rows[i].cells |-> Shown(rows[i].cells[j])]]]
printCsv(schema, rows) ==
  [header |-> [Header(schema) EXCEPT ![1] = "row_id"], records |-> Records(rows)]

-----------------------------------------------------------------------------
(* The storage engine: what it makes of a table, and an insert's row ID.     *)

NeedsUpgrade(t) == Layout(tables[t].file.header, SchemaOf(t)) # "bitmap"
Legacy(t) == Layout(tables[t].file.header, SchemaOf(t)) = "noid"

Readable(t) ==
  LET data == Read(t)
  IN  /\ data.ok
      /\ \/ Legacy(t)
         \/ /\ tables[t].nextId # NoCounter
            /\ \A row \in Range(data.rows) : row.id < tables[t].nextId

(* Mutant: row IDs follow the rows that there are. *)
NextOfRows(t) == Len(Rows(t)) + 1
NextId(t) == IF Legacy(t) /\ tables[t].nextId <= Len(Rows(t)) THEN Len(Rows(t)) + 1
             ELSE tables[t].nextId

Indexes(t, id) == LET rows == Rows(t) IN {i \in DOMAIN rows : rows[i].id = id}

Rewritten(t, rows) ==
  [tables EXCEPT ![t].file = [header |-> Header(SchemaOf(t)), records |-> Records(rows)],
                 ![t].nextId = NextId(t)]
Appended(t, row) ==
  [tables EXCEPT ![t].file =
                   IF NeedsUpgrade(t)
                   THEN [header |-> Header(SchemaOf(t)), records |-> Records(Append(Rows(t), row))]
                   ELSE [tables[t].file EXCEPT !.records = Append(@, Fields(row))],
                 ![t].nextId = row.id + 1]

-----------------------------------------------------------------------------
(* The commands, and when each gets to its end. *)

Is(argv, command) == Len(argv) >= 2 /\ argv[2] = <<command>>
OfTable(argv) == Len(argv) >= 3 /\ argv[3] \in DOMAIN tables

Declared(argv) == [i \in 1 .. Len(argv) - 3 |-> parseColumn(argv[i + 3])]
CanCreate(argv) ==
  /\ Is(argv, "create") /\ Len(argv) >= 4
  /\ IsSchema(Declared(argv)) /\ ~UsesReservedName(Declared(argv))
  /\ argv[3] \in TableNames \ DOMAIN tables
FitsBound(argv) == \A i \in DOMAIN Declared(argv) : Declared(argv)[i].dimension \in 0 .. MaxDimension

CanStore(argv, first) ==
  /\ OfTable(argv)
  /\ AreCells(Values(argv, first), SchemaOf(argv[3]))
  /\ validateRow(parseRowValues(Values(argv, first), SchemaOf(argv[3])), SchemaOf(argv[3]))
  /\ Readable(argv[3])
CanInsert(argv) == Is(argv, "insert") /\ CanStore(argv, 4)

NamesRow(argv) == /\ Len(argv) >= 4 /\ OfTable(argv) /\ IsRowId(argv[4])
                  /\ Readable(argv[3]) /\ Indexes(argv[3], parseSize(argv[4])) # {}
CanUpdate(argv) == Is(argv, "update") /\ NamesRow(argv) /\ CanStore(argv, 5)
CanDelete(argv) == Is(argv, "delete") /\ Len(argv) = 4 /\ NamesRow(argv)

CanList(argv) == Len(argv) = 2 /\ (Is(argv, "init") \/ Is(argv, "list"))
CanDescribe(argv) == Is(argv, "describe") /\ Len(argv) = 3 /\ OfTable(argv)
CanSelect(argv) == /\ Is(argv, "select") /\ OfTable(argv) /\ Readable(argv[3])
                   /\ Len(argv) = 3 \/ (Len(argv) = 4 /\ argv[4] = <<"--csv">>)

Succeeds(argv) == \/ CanList(argv) \/ CanDescribe(argv) \/ CanSelect(argv)
                  \/ CanCreate(argv) \/ CanInsert(argv) \/ CanUpdate(argv) \/ CanDelete(argv)

(* The database is opened, and made where there is none, before anything     *)
(* else is looked at.                                                        *)
Exit(command, t, output) ==
  /\ last' = [command |-> command, table |-> t, code |-> 0, output |-> output]
  /\ initialized' = TRUE

Usage(argv) == /\ Len(argv) < 2
               /\ last' = [command |-> "none", table |-> <<>>, code |-> 2, output |-> <<>>]
               /\ UNCHANGED <<initialized, tables, exports>>

Fail(argv) == /\ Len(argv) >= 2 /\ ~Succeeds(argv)
              /\ last' = [command |-> "none", table |-> <<>>, code |-> 1, output |-> <<>>]
              /\ initialized' = TRUE
              /\ UNCHANGED <<tables, exports>>

List(argv) == /\ CanList(argv)
              /\ Exit(argv[2][1], <<>>, DOMAIN tables)
              /\ UNCHANGED <<tables, exports>>

Describe(argv) == /\ CanDescribe(argv)
                  /\ Exit("describe", argv[3], printSchema(SchemaOf(argv[3])))
                  /\ UNCHANGED <<tables, exports>>

Create(argv) ==
  /\ CanCreate(argv) /\ FitsBound(argv)
  /\ tables' = With(tables, argv[3],
                    [catalog |-> writeSchema(argv[3], Declared(argv)),
                     file |-> [header |-> Header(Declared(argv)), records |-> <<>>],
                     nextId |-> 1])
  /\ Exit("create", argv[3], <<>>)
  /\ UNCHANGED exports

Insert(argv) ==
  /\ CanInsert(argv) /\ NextId(argv[3]) <= MaxId
  /\ LET row == [id |-> NextId(argv[3]),
                 cells |-> parseRowValues(Values(argv, 4), SchemaOf(argv[3]))]
     IN  /\ tables' = Appended(argv[3], row)
         /\ Exit("insert", argv[3], <<row.id>>)
  /\ UNCHANGED exports

Update(argv) ==
  /\ CanUpdate(argv)
  /\ \E i \in Indexes(argv[3], parseSize(argv[4])) :
       tables' = Rewritten(argv[3], [Rows(argv[3]) EXCEPT ![i].cells =
                                       parseRowValues(Values(argv, 5), SchemaOf(argv[3]))])
  /\ Exit("update", argv[3], <<>>)
  /\ UNCHANGED exports

Delete(argv) ==
  /\ CanDelete(argv)
  /\ \E i \in Indexes(argv[3], parseSize(argv[4])) :
       tables' = Rewritten(argv[3], RemoveAt(Rows(argv[3]), i))
  /\ Exit("delete", argv[3], <<>>)
  /\ UNCHANGED exports

Select(argv) == /\ CanSelect(argv) /\ Len(argv) = 3
                /\ Exit("select", argv[3], printRows(Rows(argv[3])))
                /\ UNCHANGED <<tables, exports>>

(* The user redirects the CSV to a file. *)
SelectCsv(argv) ==
  /\ CanSelect(argv) /\ Len(argv) = 4
  /\ LET csv == printCsv(SchemaOf(argv[3]), Rows(argv[3]))
     IN  /\ Exit("select --csv", argv[3], csv)
         /\ exports' = With(exports, argv[3], csv)
  /\ UNCHANGED tables

(* The user copies an export over the table file it was made from, at any    *)
(* time later (as tests/test_null_cli.py does at once).                      *)
Restore == \E t \in DOMAIN exports :
             /\ tables' = [tables EXCEPT ![t].file = exports[t]]
             /\ UNCHANGED <<initialized, exports, last>>

Init == /\ initialized \in BOOLEAN
        /\ tables \in IF initialized THEN OldTables ELSE {<<>>}
        /\ exports = <<>>
        /\ last = [command |-> "none", table |-> <<>>, code |-> 0, output |-> <<>>]

Next == \/ \E argv \in Arguments :
             \/ Usage(argv) \/ Fail(argv) \/ List(argv) \/ Describe(argv) \/ Create(argv)
             \/ Insert(argv) \/ Update(argv) \/ Delete(argv) \/ Select(argv) \/ SelectCsv(argv)
        \/ Restore

Spec == Init /\ [][Next]_vars

-----------------------------------------------------------------------------
(* Properties. *)

(* Every catalog loads, every table file reads, with the schema that its     *)
(* catalog has, as rows that are valid for it, and counters are in range.    *)
TypeOK == /\ initialized \in BOOLEAN
          /\ DOMAIN exports \subseteq DOMAIN tables /\ DOMAIN tables \subseteq TableNames
          /\ tables # <<>> => initialized
          /\ \A t \in DOMAIN tables :
               /\ IsCatalog(tables[t].catalog, t)
               /\ tables[t].nextId \in NoCounter .. MaxId + 1
               /\ Read(t).ok /\ \A row \in Range(Rows(t)) : validateRow(row.cells, SchemaOf(t))
          /\ last.code \in 0..2

(* Commands, in any order and with any arguments, and exports that are       *)
(* copied back later never make a table that later commands refuse: not by   *)
(* a row that cannot be read, and not by an ID that the counter has not      *)
(* passed.  The exception is an export copied over a table that has no       *)
(* counter yet, as its rows had no IDs: that file has IDs.                   *)
StaysReadable ==
  \A t \in DOMAIN tables : tables[t].nextId # NoCounter => Readable(t)

(* A row ID that insert prints is above those of all rows of the table and   *)
(* of the export that the user still holds, whether that was copied back or  *)
(* not.  It is not below the counter, which passes it and is never lowered   *)
(* by any command, so that it was not given out before either, to a row that *)
(* is gone ("deleting the newest row cannot cause ID reuse", README.md).     *)
InsertedIdsAreNew ==
  [][/\ \A t \in DOMAIN tables : tables'[t].nextId >= tables[t].nextId
     /\ last' # last /\ last'.command = "insert" =>
          LET t == last'.table
              id == last'.output[1]
              held == IF t \in DOMAIN exports THEN ReadRecords(exports[t], SchemaOf(t)).rows
                      ELSE <<>>
          IN  /\ \A row \in Range(Rows(t)) \cup Range(held) : row.id < id
              /\ tables[t].nextId <= id /\ id < tables'[t].nextId]_vars

(* What "select --csv" prints reads, with the table's schema, as the rows of *)
(* the table, IDs, NULLs and empty texts included ("lossless database CSV",  *)
(* "The table reader accepts this export", README.md).                       *)
ExportReadsBack ==
  [][last' # last /\ last'.command = "select --csv" =>
       ReadRecords(last'.output, SchemaOf(last'.table)) = [ok |-> TRUE, rows |-> Rows(last'.table)]]_vars

(* "Terminal output distinguishes NULL from literal text "NULL"" (README.md). *)
TerminalTellsNull ==
  [][last' # last /\ last'.command = "select" =>
       LET rows == Rows(last'.table)
       IN  \A i \in DOMAIN rows : \A j \in DOMAIN rows[i].cells :
             rows[i].cells[j].null <=> last'.output[i].cells[j] = <<"NULL">>]_vars

(* Whatever is in a row can be typed: with the escapes of README.md, each of *)
(* its cells has a word that insert and update take and that gives that cell *)
(* again.  A vector stands for all vectors of its dimension.                 *)
VectorWord(n) == [i \in 1 .. 2 * n + 1 |-> CASE i = 1 -> "["
                                            [] i = 2 * n + 1 -> "]"
                                            [] i \notin {1, 2 * n + 1} /\ i % 2 = 0 -> "1"
                                            [] OTHER -> Comma]
Typed(cell, column) ==
  CASE cell.null -> NullWord
    [] ~cell.null /\ column.type = "VECTOR" -> VectorWord(column.dimension)
    [] ~cell.null /\ column.type = "INTEGER" -> cell.payload
    [] ~cell.null /\ column.type = "TEXT" ->
         IF IsPrefix(<<Backslash>>, cell.payload) THEN <<Backslash>> \o cell.payload
         ELSE cell.payload
CellsCanBeTyped ==
  \A t \in DOMAIN tables : \A row \in Range(Rows(t)) : \A i \in DOMAIN SchemaOf(t) :
    /\ IsCell(Typed(row.cells[i], SchemaOf(t)[i]), SchemaOf(t)[i])
    /\ parseCell(Typed(row.cells[i], SchemaOf(t)[i]), SchemaOf(t)[i]) = row.cells[i]

(* A table that is declared as describe shows it has the same schema: an     *)
(* export "does not contain catalog metadata" (README.md), describe does.    *)
AsDescribed(line) ==
  line[1] \o <<":">> \o line[2] \o (IF line[3] = <<"NO">> THEN <<":", "NOT_NULL">> ELSE <<>>)
DescribedCanBeDeclared ==
  last.command = "describe" =>
    [i \in DOMAIN last.output |-> parseColumn(AsDescribed(last.output[i]))] = SchemaOf(last.table)
=============================================================================
