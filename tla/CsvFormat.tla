------------------------------ MODULE CsvFormat ------------------------------
(***************************************************************************)
(* The table files of CsvFormat: records, headers, and rows in each of the *)
(* three layouts.  A file is a record [header, body]: the fields of its    *)
(* first record and the characters after it.  It is read with a schema, a  *)
(* sequence of columns [name, type, dimension, nullable].                  *)
(*                                                                         *)
(* The characters that matter are told apart, any other is a token: the    *)
(* digits of numbers and of the NULL bitmap, "x" in a text, and a whole    *)
(* bracketed vector, which has no quotes in it: "vec" with ordinary        *)
(* coordinates, "vec3" with too many, "sub" when one is subnormal.          *)
(***************************************************************************)
EXTENDS Integers, Sequences, SequencesExt

CONSTANT Characters   \* the characters, or tokens, that fields are made of

Quote == "quote"
Comma == "comma"
NL == "nl"
CR == "cr"
Eof == "eof"

Digits == <<"1", "2", "3", "4", "5", "6", "7", "8", "9">>   \* bound: IDs below 10

ASSUME CharactersAssumption == Range(Digits) \cup {"0"} \subseteq Characters

NullCell == [null |-> TRUE, payload |-> <<>>]
Value(payload) == [null |-> FALSE, payload |-> payload]

-----------------------------------------------------------------------------
(* Writing. *)

(* Mutant: quotes are not doubled. *)
NotEscaped(field) == field
Escaped(field) == FlattenSeq([i \in DOMAIN field |->
                    IF field[i] = Quote THEN <<Quote, Quote>> ELSE <<field[i]>>])

writeCsvRecord(fields) ==
  FlattenSeq([i \in DOMAIN fields |->
    (IF i = 1 THEN <<>> ELSE <<Comma>>) \o <<Quote>> \o Escaped(fields[i]) \o <<Quote>>])
  \o <<NL>>

(* Mutant: NULL is only an empty field. *)
BitmapOfZeros(cells) == [i \in DOMAIN cells |-> "0"]
serializeNullBitmap(cells) == [i \in DOMAIN cells |-> IF cells[i].null THEN "1" ELSE "0"]
Payloads(cells) == [i \in DOMAIN cells |-> cells[i].payload]

(* A row is a record [id, cells]; earlier versions wrote the two other layouts. *)
Fields(row) == <<<<Digits[row.id]>>, serializeNullBitmap(row.cells)>> \o Payloads(row.cells)
OldFields(layout, row) ==
  (IF layout = "noid" THEN <<>> ELSE <<<<Digits[row.id]>>>>) \o Payloads(row.cells)
writeRow(row) == writeCsvRecord(Fields(row))
OldRow(layout, row) == writeCsvRecord(OldFields(layout, row))

Columns(schema) == [i \in DOMAIN schema |-> schema[i].name]
Header(schema) == <<"__vrdb_row_id", "__vrdb_null_bitmap">> \o Columns(schema)
OldHeader(layout, schema) ==
  (IF layout = "noid" THEN <<>> ELSE <<"__vrdb_row_id">>) \o Columns(schema)

(* Mutant: the new header over records in the layout before it. *)
writeTableOldRecords(schema, rows) ==
  [header |-> Header(schema),
   body |-> FlattenSeq([i \in DOMAIN rows |-> OldRow("nobitmap", rows[i])])]
writeTable(schema, rows) ==
  [header |-> Header(schema),
   body |-> FlattenSeq([i \in DOMAIN rows |-> writeRow(rows[i])])]

-----------------------------------------------------------------------------
(* Reading a record, character by character, with one of lookahead.          *)

Peek(input, pos) == IF pos <= Len(input) THEN input[pos] ELSE Eof

More(input, r) == /\ ~r.bad
                  /\ Peek(input, r.pos) # Eof
                  /\ r.insideQuotes \/ Peek(input, r.pos) \notin {NL, CR}

ReadChar(input, r) ==
  LET c == Peek(input, r.pos)
      next == Peek(input, r.pos + 1)
      Take(char, n) == [r EXCEPT !.field = Append(@, char), !.pos = @ + n]
      CloseField(n) == [r EXCEPT !.fields = Append(@, r.field), !.field = <<>>,
                                 !.insideQuotes = FALSE, !.pos = @ + n]
      Malformed == [r EXCEPT !.bad = TRUE]
  IN  CASE ~r.insideQuotes /\ c = Quote -> [r EXCEPT !.insideQuotes = TRUE, !.pos = @ + 1]
        [] ~r.insideQuotes /\ c # Quote -> Malformed
        [] r.insideQuotes /\ c # Quote  -> Take(c, 1)
        [] r.insideQuotes /\ c = Quote /\ next = Quote -> Take(Quote, 2)
        [] r.insideQuotes /\ c = Quote /\ next = Comma ->
             IF Peek(input, r.pos + 2) = Quote THEN CloseField(2) ELSE Malformed
        [] r.insideQuotes /\ c = Quote /\ next \in {NL, CR, Eof} -> CloseField(1)
        [] OTHER -> Malformed

(* The loop over the characters; each round takes one at least, or throws.   *)
readCsvRecord(input, pos) ==
  LET after[n \in 0 .. Len(input)] ==
        IF n = 0 THEN [pos |-> pos, insideQuotes |-> FALSE, field |-> <<>>,
                       fields |-> <<>>, bad |-> FALSE]
        ELSE LET r == after[n - 1] IN IF More(input, r) THEN ReadChar(input, r) ELSE r
      r == after[Len(input)]
      afterCR == IF Peek(input, r.pos) = CR THEN r.pos + 1 ELSE r.pos
      afterNL == IF Peek(input, afterCR) = NL THEN afterCR + 1 ELSE afterCR
  IN  [r EXCEPT !.pos = afterNL, !.bad = r.bad \/ r.insideQuotes]

-----------------------------------------------------------------------------
(* Reading rows. *)

Layout(header, schema) == CASE Len(header) = Len(schema)     -> "noid"
                            [] Len(header) = Len(schema) + 2 -> "bitmap"
                            [] OTHER                         -> "nobitmap"
Offset(layout) == CASE layout = "noid" -> 0 [] layout = "nobitmap" -> 1 [] OTHER -> 2

(* Exports call the row IDs "row_id".  Mutant: table files only are read.    *)
StoredIdName(layout) == {"__vrdb_row_id"}
IdNames(layout) == {"__vrdb_row_id"} \cup (IF layout = "bitmap" THEN {"row_id"} ELSE {})

HeaderFits(header, schema) ==
  LET layout == Layout(header, schema)
  IN  /\ Len(header) = Len(schema) + Offset(layout)
      /\ layout # "noid" => header[1] \in IdNames(layout)
      /\ layout = "bitmap" => header[2] = "__vrdb_null_bitmap"
      /\ \A i \in DOMAIN schema : header[i + Offset(layout)] = schema[i].name

(* std::stof has no value for a subnormal coordinate: it throws. *)
IsNumber(payload) == payload # <<>> /\ \A i \in DOMAIN payload : payload[i] \in Range(Digits)
deserializes(payload, column) == CASE column.type = "TEXT"    -> TRUE
                                   [] column.type = "INTEGER" -> IsNumber(payload)
                                   [] column.type = "VECTOR"  -> payload = <<"vec">>

(* Mutant: what a record has beyond the width of a row is ignored. *)
AtLeastWidth(fields, width) == Len(fields) >= width
RightWidth(fields, width) == Len(fields) = width

(* The parts of the n-th record in each layout.                              *)
IdField(layout, fields, n) == IF layout = "noid" THEN <<Digits[n]>> ELSE fields[1]
Bitmap(layout, fields, schema) ==
  IF layout = "bitmap" THEN fields[2] ELSE [i \in DOMAIN schema |-> "0"]

CellReads(column, flag, payload) ==
  CASE flag = "1" -> column.nullable /\ payload = <<>>
    [] flag = "0" -> deserializes(payload, column)
    [] OTHER -> FALSE

(* Whether a record is a row, after the rows that were read before it.       *)
IsRow(layout, schema, fields, rows) ==
  /\ RightWidth(fields, Len(schema) + Offset(layout))
  /\ layout # "noid" => /\ Len(fields[1]) = 1 /\ fields[1][1] \in Range(Digits)
                        /\ \A i \in DOMAIN rows : Digits[rows[i].id] # fields[1][1]
  /\ Len(Bitmap(layout, fields, schema)) = Len(schema)
  /\ \A i \in DOMAIN schema :
       CellReads(schema[i], Bitmap(layout, fields, schema)[i], fields[i + Offset(layout)])

RowOf(layout, schema, fields, n) ==
  [id |-> CHOOSE d \in DOMAIN Digits : <<Digits[d]>> = IdField(layout, fields, n),
   cells |-> [i \in DOMAIN schema |->
                IF Bitmap(layout, fields, schema)[i] = "1" THEN NullCell
                ELSE Value(fields[i + Offset(layout)])]]

Refused == [ok |-> FALSE, rows |-> <<>>]

(* One round of readNext: a record, if there is one.                         *)
ReadRow(file, schema, data) ==
  LET layout == Layout(file.header, schema)
      r == readCsvRecord(file.body, data.pos)
  IN  IF ~data.ok \/ Peek(file.body, data.pos) = Eof THEN data
      ELSE IF r.bad \/ ~IsRow(layout, schema, r.fields, data.rows)
      THEN [data EXCEPT !.ok = FALSE, !.rows = <<>>]
      ELSE [pos |-> r.pos, ok |-> TRUE,
            rows |-> Append(data.rows, RowOf(layout, schema, r.fields, Len(data.rows) + 1))]

readTable(file, schema) ==
  LET after[n \in 0 .. Len(file.body)] ==
        IF n = 0 THEN [pos |-> 1, ok |-> HeaderFits(file.header, schema), rows |-> <<>>]
        ELSE ReadRow(file, schema, after[n - 1])
      data == after[Len(file.body)]
  IN  [ok |-> data.ok, rows |-> data.rows]
=============================================================================
