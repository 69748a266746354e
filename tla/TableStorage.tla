---------------------------- MODULE TableStorage ----------------------------
(***************************************************************************)
(* FileStorageEngine for one table: appendRow, updateRow and deleteRow as  *)
(* the sequence of file operations they perform, on the table's CSV file,  *)
(* its .nextid counter and the two temporary files, with an I/O error or   *)
(* the death of the process possible between any two of them.              *)
(*                                                                         *)
(* A table file is a layout, the rows it can be read as and the state of   *)
(* its last record.  Rows stand in the file in the order of their IDs, so  *)
(* they are a function from IDs to values.  The layouts are the three that *)
(* CsvFormat::TableReader accepts.  Calls whose row fails validateRow      *)
(* return before they touch a file and are left out.  What the bytes of a  *)
(* record, whole or cut, read as is the subject of CsvAppends; the rows    *)
(* here are those that read back as they were written.                     *)
(***************************************************************************)
EXTENDS Naturals, FiniteSets

CONSTANTS
  MaxId,          \* numeric_limits<RowId>::max()
  Vals,           \* valid rows of the table's schema
  NoVal,          \* the row argument of deleteRow
  InitialRows,    \* how many rows the table may hold at the start
  WriteOutcomes,  \* what a write of one record to the end of a file may leave
  Misread         \* Misread[v]: the rows that v's record reads as when it is
                  \* cut inside its last cell or runs into the next record

Outcomes == {"absent", "torn", "unterminated", "complete"}

ASSUME StorageAssumption ==
  /\ MaxId \in Nat \ {0, 1}
  /\ NoVal \notin Vals
  /\ InitialRows \in Nat
  /\ WriteOutcomes \subseteq Outcomes
  /\ Misread \in [Vals -> SUBSET Vals]

VARIABLES
  table,      \* tables/<t>.csv
  tableTmp,   \* tables/<t>.csv.tmp; whole = FALSE also when there is none
  nextId,     \* tables/<t>.nextid; 0 when there is none
  nextIdTmp,  \* tables/<t>.nextid.tmp; 0 when there is none or it is partial
  pc,         \* the next file operation of the call in progress
  op,         \* the call in progress; op.id is appendRow's local id as well
  data,       \* the rows that readTable returned to the call
  reply,      \* what the last call returned
  issued      \* history: the IDs reserved so far, and those of initial rows

files == <<table, tableTmp, nextId, nextIdTmp>>
vars == <<table, tableTmp, nextId, nextIdTmp, pc, op, data, reply, issued>>

Ids == 1..MaxId
Layouts == {"noid", "nobitmap", "bitmap"}
Contents == UNION {[S -> Vals] : S \in SUBSET Ids}
NoRows == [i \in {} |-> NoVal]
NoCall == [kind |-> "none", id |-> 0, val |-> NoVal]
NoReply == [status |-> "none", id |-> 0]

Calls == [kind : {"insert"}, id : {0}, val : Vals]
         \cup [kind : {"update"}, id : Ids, val : Vals]
         \cup [kind : {"erase"}, id : Ids, val : {NoVal}]

(* Mutant: std::min for std::max. *)
LargerSwapped(a, b) == IF a < b THEN a ELSE b
Larger(a, b) == IF a < b THEN b ELSE a
Put(rows, i, v) == [j \in DOMAIN rows \cup {i} |-> IF j = i THEN v ELSE rows[j]]
Without(rows, i) == [j \in DOMAIN rows \ {i} |-> rows[j]]

-----------------------------------------------------------------------------
(* Reading. *)

Legacy == table.layout = "noid"
NeedsUpgrade == table.layout # "bitmap"

(* Whether readTable returns rows: every record has the width of the header  *)
(* and, unless IDs are positions, the counter exists and exceeds them all.   *)
Readable == /\ table.tail # "torn"
            /\ ~Legacy => /\ nextId # 0
                          /\ \A i \in DOMAIN table.rows : i < nextId

(* The rows of a table with no ID column are numbered by position: the ID    *)
(* after the last, unless an earlier, unfinished upgrade reserved more.      *)
(* Mutant: a reservation that survived an interrupted upgrade is ignored. *)
LegacyHighWaterOfRows == Cardinality(DOMAIN table.rows) + 1
LegacyHighWater == Larger(Cardinality(DOMAIN table.rows) + 1, nextId)
LegacyExhausted == Cardinality(DOMAIN table.rows) >= MaxId - 1

(* appendRow's choice of the row ID. *)
NextRowId == IF Legacy THEN LegacyHighWater ELSE nextId

(* The check for the largest RowId. *)
IdLeft == NextRowId < MaxId

-----------------------------------------------------------------------------
(* The end of a call. *)

Finish(status, id) == /\ pc' = "idle"
                      /\ op' = NoCall
                      /\ data' = NoRows
                      /\ reply' = [status |-> status, id |-> id]

Call == /\ pc = "idle"
        /\ pc' = "read"
        /\ op' \in Calls
        /\ reply' = NoReply
        /\ UNCHANGED <<files, data, issued>>

(* A StorageError, for an I/O error or for a check that failed. *)
Throw == /\ pc \notin {"idle", "return"}
         /\ Finish("error", 0)
         /\ UNCHANGED <<files, issued>>

(* The process dies.  What it has in memory is gone, what it has handed to  *)
(* the file system stays; the next process reads the same files.            *)
Crash == /\ pc # "idle"
         /\ Finish("none", 0)
         /\ UNCHANGED <<files, issued>>

Return == /\ pc = "return"
          /\ Finish("ok", op.id)
          /\ UNCHANGED <<files, issued>>

-----------------------------------------------------------------------------
(* Reading the table, the first thing every call does. *)

ReadForInsert == /\ pc = "read" /\ op.kind = "insert"
                 /\ Readable
                 /\ Legacy => ~LegacyExhausted
                 /\ IdLeft
                 /\ op' = [op EXCEPT !.id = NextRowId]
                 /\ data' = table.rows
                 /\ pc' = "counter"
                 /\ UNCHANGED <<files, reply, issued>>

(* A table without IDs gets its counter before it gets its IDs. *)
(* Mutant: it does not. *)
RewriteAtOnce == "rewrite"
AfterRead == IF Legacy THEN "counter" ELSE "rewrite"

ReadForChange == /\ pc = "read" /\ op.kind # "insert"
                 /\ Readable
                 /\ op.id \in DOMAIN table.rows
                 /\ Legacy => ~LegacyExhausted
                 /\ data' = table.rows
                 /\ pc' = AfterRead
                 /\ UNCHANGED <<files, op, reply, issued>>

ReadMissing == /\ pc = "read" /\ op.kind # "insert"
               /\ Readable
               /\ op.id \notin DOMAIN table.rows
               /\ Finish("missing", op.id)
               /\ UNCHANGED <<files, issued>>

-----------------------------------------------------------------------------
(* writeNextId: never below the counter that is there, temporary file first. *)

(* Mutant: the counter is the ID just taken. *)
CounterNotAdvanced == IF op.kind = "insert" THEN op.id ELSE LegacyHighWater
CounterWanted == IF op.kind = "insert" THEN op.id + 1 ELSE LegacyHighWater

WriteCounter == /\ pc = "counter"
                /\ nextIdTmp' \in {0, Larger(CounterWanted, nextId)}
                /\ pc' = "publishCounter"
                /\ UNCHANGED <<table, tableTmp, nextId, op, data, reply, issued>>

PublishCounter ==
  /\ pc = "publishCounter"
  /\ nextIdTmp # 0
  /\ nextId' = nextIdTmp
  /\ nextIdTmp' = 0
  /\ pc' = IF op.kind = "insert" /\ ~NeedsUpgrade THEN "append" ELSE "rewrite"
  /\ issued' = IF op.kind = "insert" THEN issued \cup {op.id} ELSE issued
  /\ UNCHANGED <<table, tableTmp, op, data, reply>>

-----------------------------------------------------------------------------
(* writeTable: the whole table to a temporary file, then a rename. *)

(* Mutant: rows.erase(found, rows.end()). *)
NewRowsEraseToEnd ==
  CASE op.kind = "insert" -> Put(data, op.id, op.val)
    [] op.kind = "update" -> [data EXCEPT ![op.id] = op.val]
    [] op.kind = "erase"  -> [i \in {j \in DOMAIN data : j < op.id} |-> data[i]]
NewRows == CASE op.kind = "insert" -> Put(data, op.id, op.val)
             [] op.kind = "update" -> [data EXCEPT ![op.id] = op.val]
             [] op.kind = "erase"  -> Without(data, op.id)

WriteTable == /\ pc = "rewrite"
              /\ tableTmp' \in {[whole |-> FALSE, rows |-> NoRows],
                                [whole |-> TRUE, rows |-> NewRows]}
              /\ pc' = "publishTable"
              /\ UNCHANGED <<table, nextId, nextIdTmp, op, data, reply, issued>>

PublishTable == /\ pc = "publishTable"
                /\ tableTmp.whole
                /\ table' = [layout |-> "bitmap", rows |-> tableTmp.rows,
                             tail |-> "clean"]
                /\ tableTmp' = [whole |-> FALSE, rows |-> NoRows]
                /\ pc' = "return"
                /\ UNCHANGED <<nextId, nextIdTmp, op, data, reply, issued>>

-----------------------------------------------------------------------------
(* appendRow on a table in the current layout: the record goes to the end    *)
(* of the live file.                                                         *)

LastIds == {i \in DOMAIN table.rows : \A j \in DOMAIN table.rows : j <= i}

(* The file when the record of row v with ID i is written to it with the     *)
(* given outcome.  A record written after one that lacks its newline runs    *)
(* into it, and a second record with the same ID is refused by every reader: *)
(* the file can be read no more.  When only a first few bytes run into it,   *)
(* they can read as the rest of its last cell.                               *)
Unreadable == [table EXCEPT !.tail = "torn"]
WithRow(i, v, tail) == [table EXCEPT !.rows = Put(table.rows, i, v), !.tail = tail]
Glued == UNION {{WithRow(i, w, "unterminated") : w \in Misread[table.rows[i]]} :
                i \in LastIds}

Appended(i, v, outcome) ==
  CASE outcome = "absent" -> {table}
    [] outcome = "torn" ->
         {Unreadable} \cup (IF table.tail = "unterminated" THEN Glued ELSE {})
    [] OTHER ->
         IF table.tail # "clean" \/ i \in DOMAIN table.rows THEN {Unreadable}
         ELSE IF outcome = "complete" THEN {WithRow(i, v, "clean")}
         ELSE {WithRow(i, w, "unterminated") : w \in {v} \cup Misread[v]}

(* The stream remembers whether every byte was written.                      *)
(* Mutant: nobody asks it.                                                   *)
StreamNotChecked(outcome) == "close"
StreamState(outcome) == IF outcome = "complete" THEN "close" ELSE "closeBad"

AppendRecord ==
  /\ pc = "append"
  /\ \E outcome \in WriteOutcomes :
       /\ table' \in Appended(op.id, op.val, outcome)
       /\ pc' = StreamState(outcome)
  /\ UNCHANGED <<tableTmp, nextId, nextIdTmp, op, data, reply, issued>>

(* close() can still fail after a complete write, then the call throws. *)
CloseAppend == /\ pc = "close"
               /\ pc' = "return"
               /\ UNCHANGED <<files, op, data, reply, issued>>

-----------------------------------------------------------------------------
(* The table at the start: any layout, its rows numbered by position (IDs    *)
(* 1..n, as far as a table with deletions goes it is reached by erase), and  *)
(* a counter above them, which only a table without IDs can lack.            *)
Init == /\ \E layout \in Layouts, n \in 0..InitialRows :
             /\ n < MaxId
             /\ table \in [layout : {layout}, rows : [1..n -> Vals], tail : {"clean"}]
             /\ nextId \in (IF layout = "noid" THEN {0} ELSE {}) \cup (n + 1 .. MaxId)
             /\ issued = 1 .. (IF nextId = 0 THEN n ELSE nextId - 1)
        /\ tableTmp = [whole |-> FALSE, rows |-> NoRows]
        /\ nextIdTmp = 0
        /\ pc = "idle"
        /\ op = NoCall
        /\ data = NoRows
        /\ reply = NoReply

Next == \/ Call \/ Throw \/ Crash \/ Return
        \/ ReadForInsert \/ ReadForChange \/ ReadMissing
        \/ WriteCounter \/ PublishCounter
        \/ WriteTable \/ PublishTable
        \/ AppendRecord \/ CloseAppend

Spec == Init /\ [][Next]_vars

-----------------------------------------------------------------------------
(* Properties. *)

TableFile == [layout : Layouts, rows : Contents,
              tail : {"clean", "unterminated", "torn"}]

Points == {"idle", "read", "counter", "publishCounter", "rewrite",
           "publishTable", "append", "close", "closeBad", "return"}

(* The values every variable takes; the rows of a file have IDs and values   *)
(* of the schema, and a call in progress is one of the public calls.         *)
TypeOK == /\ table \in TableFile
          /\ tableTmp \in [whole : BOOLEAN, rows : Contents]
          /\ nextId \in 0..MaxId
          /\ nextIdTmp \in 0..MaxId
          /\ pc \in Points
          /\ op \in [kind : {"none", "insert", "update", "erase"},
                     id : 0..MaxId, val : Vals \cup {NoVal}]
          /\ data \in Contents
          /\ reply \in [status : {"none", "ok", "missing", "error"}, id : 0..MaxId]
          /\ issued \in SUBSET Ids

(* No failure or crash, at whatever step of an insert, a rewrite or an       *)
(* upgrade, leaves rows that the engine refuses to read because the counter  *)
(* file is missing or does not exceed them: the counter is always published  *)
(* before the rows it covers.                                                *)
NeverLockedOut == table.tail # "torn" => Readable

(* The ID an insert is about to reserve was never reserved before, by a call *)
(* that succeeded, failed or died, and never belonged to a row.              *)
ReservesFreshId ==
  pc = "publishCounter" /\ op.kind = "insert" => op.id \notin issued

(* "Updates, deletes, retries, and upgrades never lower the established      *)
(* counter" (docs/storage-format.md): a step changes the counter upwards.    *)
CounterNeverLowered == [][nextId' >= nextId]_vars

(* A stored row appears only in the insert that took its ID, disappears only *)
(* in its own erase, and changes only in its own update -- unless it is the  *)
(* last row of an insert that failed before its newline was written, which   *)
(* the next write may run into.                                              *)
RowsChangeOnlyByTheirCall ==
  [][/\ \A i \in DOMAIN table'.rows \ DOMAIN table.rows :
          op.kind = "insert" /\ op.id = i /\ i \in issued
     /\ \A i \in DOMAIN table.rows \ DOMAIN table'.rows :
          op.kind = "erase" /\ op.id = i
     /\ \A i \in DOMAIN table.rows \cap DOMAIN table'.rows :
          table'.rows[i] # table.rows[i] =>
             \/ op.kind = "update" /\ op.id = i
             \/ table.tail = "unterminated" /\ i \in LastIds]_vars

(* A call that is about to report success has its effect in the table file,  *)
(* if the file can be read at all.                                           *)
Stored == IF op.kind = "erase" THEN op.id \notin DOMAIN table.rows
          ELSE op.id \in DOMAIN table.rows /\ table.rows[op.id] = op.val

SuccessIsStored == pc = "return" /\ table.tail # "torn" => Stored

(* The inductive invariant behind NeverLockedOut and ReservesFreshId.  Every *)
(* ID ever used lies below the high-water mark that the files determine,     *)
(* and the call in progress works on the rows that are in the file.          *)
HighWater == IF nextId = 0 THEN Cardinality(DOMAIN table.rows) + 1 ELSE nextId

UsedBelowHighWater == /\ DOMAIN table.rows \subseteq issued
                      /\ \A i \in issued : i < HighWater
                      /\ nextId = 0 => Legacy

CallInProgress ==
  /\ pc = "idle" => op = NoCall
  /\ pc = "read" /\ op.kind = "insert" => op.id = 0
  /\ pc # "idle" => /\ op.kind # "none"
                    /\ op.kind # "erase" => op.val \in Vals
                    /\ op.kind # "insert" => op.id \in Ids
  /\ pc \in {"counter", "publishCounter", "rewrite", "publishTable"} =>
       /\ data = table.rows
       /\ op.kind # "insert" => op.id \in DOMAIN data
  /\ pc \in {"counter", "publishCounter"} =>
       /\ Legacy => ~LegacyExhausted
       /\ op.kind = "insert" => op.id \in HighWater .. MaxId - 1
       /\ op.kind # "insert" => Legacy
  /\ pc = "publishCounter" => nextIdTmp \in {0, Larger(CounterWanted, nextId)}
  /\ pc \in {"rewrite", "publishTable", "append"} =>
       /\ nextId # 0
       /\ op.kind = "insert" => op.id \in issued \ DOMAIN table.rows
  /\ pc = "append" => \A i \in DOMAIN table.rows : i < op.id
  /\ pc = "publishTable" /\ tableTmp.whole => tableTmp.rows = NewRows
  /\ pc \in {"append", "close", "closeBad"} => op.kind = "insert" /\ ~NeedsUpgrade
  /\ pc \in {"close", "return"} /\ table.tail # "torn" => Stored

IInv == TypeOK /\ UsedBelowHighWater /\ CallInProgress

(* Failed and interrupted operations leave a table that can be read and      *)
(* written again ("Failed operations can consume IDs; gaps are expected" and *)
(* "These paths cover process interruption and checked I/O failures",        *)
(* docs/storage-format.md).                                                  *)
TableStaysReadable == table.tail # "torn"

(* With appends that happen entirely or not at all, the engine implements    *)
(* the map from IDs to rows of RowStore: the live file is the table, and a   *)
(* call takes effect when its record or its rewritten file reaches it.       *)
Store == INSTANCE RowStore
           WITH rows <- table.rows, call <- op, done <- pc \in {"close", "return"}
StoreSpec == Store!Spec
=============================================================================
