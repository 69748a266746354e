----------------------------- MODULE TableCursor -----------------------------
(***************************************************************************)
(* A scan (openTableCursor, then readNextPage until finished) while rows of *)
(* the same table are inserted, updated and erased, by the program that    *)
(* scans, between two pages, or by another process at any time.  The       *)
(* writer is TableStorage.  The scan opens the table file to look at its   *)
(* header, reads the counter, opens the table file again and reads it page *)
(* by page, a page in one step; a rename that replaces the file leaves the *)
(* scan on the old one, and so does a drop.  A table that was dropped may  *)
(* be created again, with the same columns.  Any file may fail to open,    *)
(* and any read may fail.                                                  *)
(***************************************************************************)
EXTENDS TableStorage

CONSTANTS PageSizes,  \* values of readNextPage's maxRows
          Live        \* the scan's file when it is the one at tables/<t>.csv

ASSUME ScanAssumption == PageSizes \subseteq Nat \ {0} /\ Live \notin TableFile

VARIABLES
  at,       \* the next step of the scan
  counted,  \* Impl::nextId; 0 when the first look found no ID column
  file,     \* the file that is open: Live, or the one that was replaced
  got,      \* the rows that have been returned
  atEof,    \* a read has met the end of the file: the stream's eofbit
  ioError,  \* history: a file that is there was not opened, or not read
  present,  \* whether the table exists
  changed   \* history: the table was changed since the scan was begun

cursor == <<at, counted, got, atEof, ioError>>
allVars == <<vars, cursor, file, present, changed>>

-----------------------------------------------------------------------------
(* The scan. *)

Closed == /\ at = "closed" /\ counted = 0 /\ file = Live
          /\ got = NoRows /\ atEof = FALSE /\ ioError = FALSE
          /\ present = TRUE /\ changed = FALSE

Open == /\ at = "closed" /\ present
        /\ at' = IF Legacy THEN "reopen" ELSE "counter"
        /\ UNCHANGED <<counted, file, got, atEof, ioError, changed, vars>>

ReadCounter == /\ at = "counter"
               /\ present /\ nextId # 0
               /\ counted' = nextId
               /\ at' = "reopen"
               /\ UNCHANGED <<file, got, atEof, ioError, changed, vars>>

Reopen == /\ at = "reopen" /\ present
          /\ at' = "read"
          /\ UNCHANGED <<counted, file, got, atEof, ioError, changed, vars>>

(* The file of the next step is not there, or is not opened or read: the     *)
(* header of the table and the counter are read by the step that opens them. *)
Missing == ~present \/ (at = "counter" /\ nextId = 0)
OpenFails == /\ at \in {"closed", "counter", "reopen"}
             /\ \E broken \in BOOLEAN : (broken \/ Missing) /\ ioError' = broken
             /\ at' = "failed"
             /\ UNCHANGED <<counted, file, got, atEof, changed, vars>>

(* What the scan has open.  Mutant: each page is read from the path anew. *)
PathNow == table
Opened == IF file = Live THEN table ELSE file

(* The rows after those that were returned, which stand in the order of      *)
(* their IDs, and the page made of them.                                     *)
Rest == {i \in DOMAIN Opened.rows : \A j \in DOMAIN got : j < i}
PageIds(maxRows) == {i \in Rest : Cardinality({j \in Rest : j < i}) < maxRows}
Filled(maxRows) == Cardinality(Rest) >= maxRows

(* A page that is not filled has met the end, and so has one whose last row  *)
(* lacks its newline.  Mutant: the end of that row is forgotten.             *)
MeetsEndUnfilled(maxRows) == ~Filled(maxRows)
MeetsEnd(maxRows) == \/ ~Filled(maxRows)
                     \/ Opened.tail = "unterminated" /\ PageIds(maxRows) = Rest

(* Mutant: the counter has to exceed the IDs by more than one.               *)
CounterExceedsByTwo(maxRows) == counted # 0 => \A i \in PageIds(maxRows) : i + 1 < counted
CounterExceeds(maxRows) == counted # 0 => \A i \in PageIds(maxRows) : i < counted

MeetsTorn(maxRows) == Opened.tail = "torn" /\ ~Filled(maxRows)

ReadPage ==
  /\ at = "read" /\ ~atEof
  /\ \E maxRows \in PageSizes :
       /\ ~MeetsTorn(maxRows) /\ CounterExceeds(maxRows)
       /\ got' = [i \in DOMAIN got \cup PageIds(maxRows) |->
                    IF i \in DOMAIN got THEN got[i] ELSE Opened.rows[i]]
       /\ atEof' = MeetsEnd(maxRows)
       /\ at' = IF Filled(maxRows) THEN "read" ELSE "done"
  /\ UNCHANGED <<counted, file, ioError, changed, vars>>

(* A record or an ID is refused, or a read fails.  To the reader, that is    *)
(* the end of the file, so that the stream is asked whether it is bad.       *)
(* Mutant: it is not.                                                        *)
BadIsTheEnd(broken) == IF broken THEN "done" ELSE "failed"
AfterFailure(broken) == "failed"

ReadPageFails ==
  /\ at = "read" /\ ~atEof
  /\ \E broken \in BOOLEAN, maxRows \in PageSizes :
       /\ broken \/ MeetsTorn(maxRows) \/ ~CounterExceeds(maxRows)
       /\ ioError' = broken
       /\ at' = AfterFailure(broken)
  /\ UNCHANGED <<counted, file, got, atEof, changed, vars>>

(* A stream that has met the end of its file says so again.                  *)
ReadAtEof == /\ at = "read" /\ atEof
             /\ at' = "done"
             /\ UNCHANGED <<counted, file, got, atEof, ioError, changed, vars>>

(* The caller destroys the cursor, at the end or when it has enough rows. *)
Close == /\ at \in {"read", "done", "failed"}
         /\ at' = "closed" /\ counted' = 0 /\ file' = Live
         /\ got' = NoRows /\ atEof' = FALSE /\ ioError' = FALSE /\ changed' = FALSE
         /\ UNCHANGED vars

Scan == /\ \/ Open \/ ReadCounter \/ Reopen \/ OpenFails
           \/ ReadPage \/ ReadPageFails \/ ReadAtEof \/ Close
        /\ UNCHANGED present

-----------------------------------------------------------------------------
(* The writer.  Renaming a table file into place, or removing it, leaves the *)
(* old one to the scan that has it open.  (What is written after the scan    *)
(* has ended does not concern it and is left out.)                           *)
Replaced == IF at = "read" /\ file = Live THEN table ELSE file

Write == /\ present /\ Next
         /\ at \notin {"done", "failed"}
         /\ file' = IF PublishTable THEN Replaced ELSE file
         /\ changed' = (at # "closed" /\ (changed \/ table' # table))
         /\ UNCHANGED <<cursor, present>>

(* dropTable and createTable, whose file operations are in DatabaseTables:   *)
(* at a point between them the scan finds what it finds before or after, or  *)
(* throws.                                                                   *)
Drop == /\ present /\ pc = "idle" /\ at \in {"counter", "reopen", "read"}
        /\ present' = FALSE
        /\ file' = Replaced
        /\ changed' = TRUE
        /\ UNCHANGED <<vars, cursor>>

(* The replies of calls that had ended, and their IDs, are forgotten; so are *)
(* temporary files, which are written anew before they are renamed.          *)
Create == /\ ~present /\ at \notin {"done", "failed"}
          /\ present' = TRUE
          /\ table' = [layout |-> "bitmap", rows |-> NoRows, tail |-> "clean"]
          /\ nextId' = 1
          /\ tableTmp' = [whole |-> FALSE, rows |-> NoRows]
          /\ nextIdTmp' = 0
          /\ issued' = {}
          /\ reply' = NoReply
          /\ UNCHANGED <<pc, op, data, cursor, file, changed>>

ScanInit == Init /\ Closed
ScanNext == Scan \/ Write \/ Drop \/ Create
ScanSpec == ScanInit /\ [][ScanNext]_allVars

-----------------------------------------------------------------------------
(* Properties. *)

(* A scan that ends without an error has returned the rows of one moment:    *)
(* those of its file when it met the end of it, which is the table then, or  *)
(* the table just before it was replaced, whatever was inserted, updated,    *)
(* erased or upgraded while it read page after page.                         *)
Ended == at = "done" \/ atEof
ScanIsASnapshot ==
  [][~Ended /\ Ended' => got' = (IF file = Live THEN table ELSE file).rows]_allVars

(* A scan to which every file opens and every read succeeds throws only when *)
(* the table was changed while it ran, is not there, or was torn by an       *)
(* append that failed: no other state that calls leave, ones that failed or  *)
(* were interrupted included, makes it throw.                                *)
ThrowsOnlyBesideAChange ==
  at = "failed" => ioError \/ changed \/ ~present \/ table.tail = "torn"

(* The inductive invariant behind these: the one of the writer, what the     *)
(* scan has open, what it knows while nobody has changed the table, and that *)
(* it has returned the first rows of its file, as they still stand there.    *)
WriterInv == IInv /\ (~present => pc = "idle")

ScanTypeOK ==
  /\ at \in {"closed", "counter", "reopen", "read", "done", "failed"}
  /\ counted \in 0..MaxId
  /\ file \in TableFile \cup {Live}
  /\ got \in Contents
  /\ {atEof, ioError, present, changed} \subseteq BOOLEAN

FileOfScan == /\ at \in {"closed", "counter", "reopen"} =>
                   file = Live /\ got = NoRows /\ ~atEof
              /\ at \in {"closed", "counter"} => counted = 0
              /\ at = "counter" => ~Legacy
              /\ at = "read" /\ ~present => file # Live

WhileUnchanged ==
  at \in {"counter", "reopen", "read"} /\ ~changed =>
    /\ present /\ Opened = table
    /\ counted # 0 => \A i \in DOMAIN table.rows : i < counted

(* A last row without its newline can still change; it has not been read,    *)
(* or the read has met the end.                                              *)
FirstRowsReturned ==
  at = "read" /\ ~atEof =>
    /\ DOMAIN got \subseteq DOMAIN Opened.rows
    /\ \A i \in DOMAIN got :
         /\ got[i] = Opened.rows[i]
         /\ \A j \in DOMAIN Opened.rows : j < i => j \in DOMAIN got
         /\ Opened.tail = "unterminated" => \E j \in DOMAIN Opened.rows : i < j

ScanInv == /\ WriterInv /\ ScanTypeOK /\ FileOfScan
           /\ WhileUnchanged /\ FirstRowsReturned
=============================================================================
