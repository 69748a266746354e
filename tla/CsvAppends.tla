----------------------------- MODULE CsvAppends -----------------------------
(***************************************************************************)
(* What the bytes of a table file read as, after records were appended to  *)
(* it whole or in part and after it was rewritten.  This is what lies      *)
(* under TableStorage: its Appended says which tables a reader can find    *)
(* after a write of a record, the properties below say it of the bytes.    *)
(***************************************************************************)
EXTENDS CsvFormat, CatalogFormat

CONSTANTS Rows,      \* for every schema, the rows it is given, as their cells
          OldFiles,  \* for every schema, table files at the start
          MaxId      \* bound: the largest row ID

(* The file ends with a whole record. *)
EndsClean(f) == f.body = <<>> \/ Last(f.body) = NL

(* Rows have been validated, and the files are those of tables: whole, with  *)
(* row IDs that were given one after the other.                              *)
ASSUME CsvAssumption ==
  /\ {Quote, Comma, NL, CR} \subseteq Characters /\ Eof \notin Characters
  /\ MaxId \in DOMAIN Digits
  /\ DOMAIN OldFiles = DOMAIN Rows /\ DOMAIN Rows \subseteq Seq(ColumnValues) \ {<<>>}
  /\ \A s \in DOMAIN Rows : \A cells \in Rows[s] :
       /\ cells \in Seq([null : BOOLEAN, payload : Seq(Characters)])
       /\ DOMAIN cells = DOMAIN s
       /\ \A i \in DOMAIN s : cells[i].null => s[i].nullable /\ cells[i].payload = <<>>
  /\ \A s \in DOMAIN Rows : \A f \in OldFiles[s] :
       LET rows == readTable(f, s).rows
       IN  /\ f = [header |-> f.header, body |-> f.body] /\ f.body \in Seq(Characters)
           /\ EndsClean(f) /\ Len(rows) <= MaxId
           /\ \A i \in DOMAIN rows : rows[i].id <= Len(rows)

VARIABLES schema,   \* the table's schema
          file,     \* the table file
          nextId,   \* the counter
          written   \* history: the last write: the row of an append and how
                    \* many of its characters, or the rows of a rewrite

vars == <<schema, file, nextId, written>>

Read(f) == readTable(f, schema)
InCurrentLayout == Layout(file.header, schema) = "bitmap"

Init == /\ schema \in DOMAIN Rows
        /\ file \in OldFiles[schema]
        /\ nextId = Len(Read(file).rows) + 1
        /\ written = [kind |-> "none", rows |-> <<>>]

(* appendRow, once it has read the table and taken an ID: all of the record  *)
(* reaches the file, or its first characters do, at least one.               *)
AppendWhole ==
  /\ nextId <= MaxId
  /\ InCurrentLayout /\ Read(file).ok
  /\ \E cells \in Rows[schema] :
       LET row == [id |-> nextId, cells |-> cells]
       IN  /\ file' = [file EXCEPT !.body = @ \o writeRow(row)]
           /\ written' = [kind |-> "whole", rows |-> <<row>>]
  /\ nextId' = nextId + 1
  /\ UNCHANGED schema

AppendPart ==
  /\ nextId <= MaxId
  /\ InCurrentLayout /\ Read(file).ok
  /\ \E cells \in Rows[schema] :
       LET row == [id |-> nextId, cells |-> cells]
       IN  \E n \in 1 .. Len(writeRow(row)) - 1 :
             /\ file' = [file EXCEPT !.body = @ \o SubSeq(writeRow(row), 1, n)]
             /\ written' = [kind |-> "part", rows |-> <<row>>]
  /\ nextId' = nextId + 1
  /\ UNCHANGED schema

(* deleteRow and updateRow: the rows that were read, without one of them or  *)
(* all of them, in the current layout.                                       *)
Rewrite ==
  /\ Read(file).ok
  /\ \E gone \in 0 .. Len(Read(file).rows) :
       LET kept == IF gone = 0 THEN Read(file).rows
                   ELSE RemoveAt(Read(file).rows, gone)
       IN  /\ file' = writeTable(schema, kept)
           /\ written' = [kind |-> "rewrite", rows |-> kept]
  /\ UNCHANGED <<schema, nextId>>

Next == AppendWhole \/ AppendPart \/ Rewrite

Spec == Init /\ [][Next]_vars

-----------------------------------------------------------------------------
(* Properties. *)

SameButLast(r, s) == /\ r.id = s.id
                     /\ Front(r.cells) = Front(s.cells)
SameButLastRow(rows, others) == /\ Len(rows) = Len(others)
                                /\ Front(rows) = Front(others)
                                /\ SameButLast(Last(rows), Last(others))

(* A row appended whole to a file that ends with a whole record is read back *)
(* as it was given, after the rows that were there: quotes, commas and       *)
(* newlines in texts, empty texts, NULLs and floats ("CSV writers use        *)
(* max_digits10 precision for float round trips", docs/storage-format.md).   *)
AppendReadsBack ==
  [][written'.kind = "whole" /\ EndsClean(file) =>
       Read(file') = [ok |-> TRUE, rows |-> Read(file).rows \o written'.rows]]_vars

(* A record that reached such a file in part makes it unreadable, or it      *)
(* reads as the row with its ID whose last cell is cut short, or whole; rows *)
(* before it are never affected (the "torn" and "unterminated" outcomes of   *)
(* TableStorage and its Misread).                                            *)
PartReadsAs ==
  [][written'.kind = "part" /\ EndsClean(file) /\ Read(file').ok =>
       LET rows == Read(file').rows
       IN  /\ Front(rows) = Read(file).rows
           /\ SameButLast(Last(rows), Last(written'.rows))
           /\ IsPrefix(Last(Last(rows).cells).payload,
                       Last(Last(written'.rows).cells).payload)]_vars

(* A record that follows one without its newline is never taken for a row:   *)
(* whole, the file becomes unreadable; in part, it can only lengthen the     *)
(* last cell of the row before it (Glued in TableStorage).                   *)
GluedIsNoRow ==
  [][/\ written'.kind \in {"whole", "part"}
     /\ ~EndsClean(file)
     /\ Read(file').ok
     => LET before == Read(file).rows
            rows == Read(file').rows
        IN  /\ written'.kind = "part"
            /\ SameButLastRow(rows, before)
            /\ IsPrefix(Last(Last(before).cells).payload,
                        Last(Last(rows).cells).payload)]_vars

(* A rewrite, which upgrades older layouts, keeps every row that was read,   *)
(* its ID and its cells, NULLs and empty texts apart.                        *)
RewriteKeepsRows ==
  [][written'.kind = "rewrite" =>
       Read(file') = [ok |-> TRUE, rows |-> written'.rows]]_vars
=============================================================================
