------------------------ MODULE FileStorageEngineProofs ------------------------
(***************************************************************************)
(* Proofs about the file storage engine, for every value of the constants: *)
(* of TableStorage, its type and safety invariants and what a step never   *)
(* does; with appends that happen entirely or not at all, that it          *)
(* implements RowStore; of TableCursor, that a scan returns the rows of    *)
(* one moment, and throws only when the table was changed, is gone or      *)
(* torn, or when a file is not opened or not read.                         *)
(***************************************************************************)
EXTENDS TableCursor, FiniteSetTheorems, TLAPS

(* A set of row IDs is finite, so the number of rows of a table is a natural *)
(* number.                                                                   *)
LEMMA RowCount == ASSUME NEW S \in SUBSET Ids
                  PROVE  Cardinality(S) \in Nat
<1>1. IsFiniteSet(Ids)
  BY StorageAssumption, FS_Interval DEF Ids
<1>2. IsFiniteSet(S)
  BY <1>1, FS_Subset
<1> QED BY <1>2, FS_CardinalityType

(* What the functions called table contents are. *)
LEMMA ContentsDomain == ASSUME NEW f \in Contents
                        PROVE  /\ DOMAIN f \in SUBSET Ids
                               /\ f \in [DOMAIN f -> Vals]
  BY DEF Contents

LEMMA ContentsIntro == ASSUME NEW S \in SUBSET Ids, NEW f \in [S -> Vals]
                       PROVE  f \in Contents
  BY DEF Contents

LEMMA EmptyContents == NoRows \in Contents /\ DOMAIN NoRows = {}
<1>1. NoRows \in [{} -> Vals]
  BY DEF NoRows
<1> QED BY <1>1, ContentsIntro DEF NoRows

(* Without removes one row and leaves the others alone. *)
LEMMA WithoutContents ==
  ASSUME NEW f \in Contents, NEW i
  PROVE  /\ Without(f, i) \in Contents
         /\ DOMAIN Without(f, i) = DOMAIN f \ {i}
         /\ \A j \in DOMAIN f \ {i} : Without(f, i)[j] = f[j]
<1>1. DOMAIN f \in SUBSET Ids /\ f \in [DOMAIN f -> Vals]
  BY ContentsDomain
<1>2. Without(f, i) \in [DOMAIN f \ {i} -> Vals]
  BY <1>1 DEF Without
<1>3. Without(f, i) \in Contents
  BY <1>1, <1>2, ContentsIntro
<1> QED BY <1>1, <1>3 DEF Without

-----------------------------------------------------------------------------
(* The inductive invariant. *)

(* The high-water mark is a possible counter value, and at least 1. *)
LEMMA HighWaterNat == ASSUME TypeOK
                      PROVE  /\ Cardinality(DOMAIN table.rows) \in Nat
                             /\ HighWater \in Nat \ {0}
                             /\ LegacyHighWater \in Nat \ {0}
                             /\ LegacyHighWater >= HighWater
                             /\ LegacyHighWater >= nextId
<1>1. DOMAIN table.rows \in SUBSET Ids
  BY ContentsDomain DEF TypeOK, TableFile
<1>2. Cardinality(DOMAIN table.rows) \in Nat
  BY <1>1, RowCount
<1> QED BY <1>2, StorageAssumption DEF TypeOK, HighWater, LegacyHighWater, Larger

LEMMA InitInv == Init => IInv
<1> SUFFICES ASSUME Init PROVE IInv
  OBVIOUS
<1>1. PICK layout \in Layouts, n \in 0..InitialRows :
         /\ n < MaxId
         /\ table \in [layout : {layout}, rows : [1..n -> Vals], tail : {"clean"}]
         /\ nextId \in (IF layout = "noid" THEN {0} ELSE {}) \cup (n + 1 .. MaxId)
         /\ issued = 1 .. (IF nextId = 0 THEN n ELSE nextId - 1)
  BY DEF Init
<1>2. n \in Nat /\ n < MaxId /\ MaxId \in Nat /\ MaxId > 1
  BY <1>1, StorageAssumption
<1>3. 1..n \in SUBSET Ids /\ table.rows \in [1..n -> Vals] /\ DOMAIN table.rows = 1..n
  BY <1>1, <1>2 DEF Ids
<1>4. table.rows \in Contents
  BY <1>3, ContentsIntro
<1>5. table \in TableFile /\ table.layout = layout /\ table.tail = "clean"
  BY <1>1, <1>4 DEF TableFile
<1>6. Cardinality(1..n) = n
  BY <1>2, FS_Interval
<1>7. nextId \in 0..MaxId /\ issued \in SUBSET Ids
  BY <1>1, <1>2 DEF Ids
<1>8. TypeOK
  BY <1>2, <1>5, <1>7, EmptyContents DEF Init, TypeOK, Points, NoCall, NoReply
<1>9. UsedBelowHighWater
  <2>1. CASE nextId = 0
    <3>1. layout = "noid"
      BY <1>1, <1>2, <2>1
    <3>2. HighWater = n + 1 /\ issued = 1..n
      BY <1>1, <1>3, <1>6, <2>1 DEF HighWater
    <3> QED BY <3>1, <3>2, <1>2, <1>3, <1>5 DEF UsedBelowHighWater, Legacy
  <2>2. CASE nextId # 0
    <3>1. nextId \in n + 1 .. MaxId /\ issued = 1 .. nextId - 1 /\ HighWater = nextId
      BY <1>1, <2>2 DEF HighWater
    <3> QED BY <3>1, <2>2, <1>2, <1>3 DEF UsedBelowHighWater
  <2> QED BY <2>1, <2>2
<1>10. CallInProgress
  <2>1. pc = "idle" /\ op = NoCall
    BY DEF Init
  <2> QED BY <2>1 DEF CallInProgress
<1> QED BY <1>8, <1>9, <1>10 DEF IInv

(* A step that leaves the files alone keeps the marks they determine. *)
LEMMA SameFiles == ASSUME UsedBelowHighWater, UNCHANGED <<files, issued>>
                   PROVE  UsedBelowHighWater'
  BY DEF UsedBelowHighWater, HighWater, Legacy, files

(* The end of a call, in any way that leaves the files alone. *)
LEMMA FinishInv == ASSUME IInv, UNCHANGED <<files, issued>>,
                          NEW status \in {"none", "ok", "missing", "error"},
                          NEW id \in 0..MaxId, Finish(status, id)
                   PROVE  IInv'
<1>1. TypeOK'
  <2>1. op' \in [kind : {"none", "insert", "update", "erase"},
                 id : 0..MaxId, val : Vals \cup {NoVal}]
    BY StorageAssumption DEF Finish, NoCall
  <2>2. reply' \in [status : {"none", "ok", "missing", "error"}, id : 0..MaxId]
    BY DEF Finish
  <2>3. data' \in Contents /\ pc' \in Points
    BY EmptyContents DEF Finish, Points
  <2> QED BY <2>1, <2>2, <2>3 DEF IInv, TypeOK, files
<1>2. UsedBelowHighWater'
  BY SameFiles DEF IInv
<1>3. CallInProgress'
  BY DEF CallInProgress, Finish
<1> QED BY <1>1, <1>2, <1>3 DEF IInv

LEMMA CallInv == IInv /\ Call => IInv'
<1> SUFFICES ASSUME IInv, Call PROVE IInv'
  OBVIOUS
<1>1. /\ op'.kind \in {"insert", "update", "erase"} /\ op'.id \in 0..MaxId
      /\ op'.val \in Vals \cup {NoVal}
      /\ op'.kind # "erase" => op'.val \in Vals
      /\ op'.kind # "insert" => op'.id \in Ids
      /\ op'.kind = "insert" => op'.id = 0
      /\ op' \in [kind : {"none", "insert", "update", "erase"},
                  id : 0..MaxId, val : Vals \cup {NoVal}]
  BY StorageAssumption DEF Call, Calls, Ids
<1>2. TypeOK'
  BY <1>1, StorageAssumption DEF IInv, TypeOK, Call, files, Points, NoReply
<1>3. UsedBelowHighWater'
  BY SameFiles DEF IInv, Call
<1>4. CallInProgress'
  BY <1>1 DEF CallInProgress, Call
<1> QED BY <1>2, <1>3, <1>4 DEF IInv

LEMMA EndInv == IInv /\ (Throw \/ Crash \/ Return \/ ReadMissing) => IInv'
<1> SUFFICES ASSUME IInv, Throw \/ Crash \/ Return \/ ReadMissing PROVE IInv'
  OBVIOUS
<1>1. op.id \in 0..MaxId /\ 0 \in 0..MaxId
  BY StorageAssumption DEF IInv, TypeOK
<1>2. CASE Throw
  BY <1>1, <1>2, FinishInv DEF Throw
<1>3. CASE Crash
  BY <1>1, <1>3, FinishInv DEF Crash
<1>4. CASE Return
  BY <1>1, <1>4, FinishInv DEF Return
<1>5. CASE ReadMissing
  BY <1>1, <1>5, FinishInv DEF ReadMissing
<1> QED BY <1>2, <1>3, <1>4, <1>5

LEMMA ReadForInsertInv == IInv /\ ReadForInsert => IInv'
<1> SUFFICES ASSUME IInv, ReadForInsert PROVE IInv'
  OBVIOUS
<1>1. TypeOK /\ UsedBelowHighWater /\ CallInProgress
  BY DEF IInv
<1>2. NextRowId \in HighWater .. MaxId - 1 /\ HighWater \in Nat \ {0}
  BY <1>1, HighWaterNat, StorageAssumption
     DEF ReadForInsert, IdLeft, NextRowId, HighWater, UsedBelowHighWater, TypeOK
<1>3. /\ op' = [op EXCEPT !.id = NextRowId]
      /\ op'.id = NextRowId /\ op'.kind = op.kind /\ op'.val = op.val
      /\ op' \in [kind : {"none", "insert", "update", "erase"},
                  id : 0..MaxId, val : Vals \cup {NoVal}]
  BY <1>1, <1>2, StorageAssumption DEF ReadForInsert, TypeOK
<1>4. data' \in Contents
  BY <1>1 DEF ReadForInsert, TypeOK, TableFile
<1>5. TypeOK'
  BY <1>1, <1>3, <1>4 DEF ReadForInsert, TypeOK, files, Points
<1>6. UsedBelowHighWater'
  BY <1>1, SameFiles DEF ReadForInsert
<1>7. HighWater' = HighWater /\ Legacy' = Legacy /\ LegacyExhausted' = LegacyExhausted
  BY DEF ReadForInsert, files, HighWater, Legacy, LegacyExhausted
<1>8. CallInProgress'
  BY <1>1, <1>2, <1>3, <1>7 DEF ReadForInsert, CallInProgress, files
<1> QED BY <1>5, <1>6, <1>8 DEF IInv

LEMMA ReadForChangeInv == IInv /\ ReadForChange => IInv'
<1> SUFFICES ASSUME IInv, ReadForChange PROVE IInv'
  OBVIOUS
<1>1. TypeOK /\ UsedBelowHighWater /\ CallInProgress
  BY DEF IInv
<1>2. data' \in Contents
  BY <1>1 DEF ReadForChange, TypeOK, TableFile
<1>3. TypeOK'
  BY <1>1, <1>2 DEF ReadForChange, AfterRead, TypeOK, files, Points
<1>4. UsedBelowHighWater'
  BY <1>1, SameFiles DEF ReadForChange
<1>5. HighWater' = HighWater /\ Legacy' = Legacy /\ LegacyExhausted' = LegacyExhausted
  BY DEF ReadForChange, files, HighWater, Legacy, LegacyExhausted
<1>6. CallInProgress'
  BY <1>1, <1>5 DEF ReadForChange, AfterRead, CallInProgress, UsedBelowHighWater, files
<1> QED BY <1>3, <1>4, <1>6 DEF IInv

LEMMA WriteCounterInv == IInv /\ WriteCounter => IInv'
<1> SUFFICES ASSUME IInv, WriteCounter PROVE IInv'
  OBVIOUS
<1>1. TypeOK /\ UsedBelowHighWater /\ CallInProgress
  BY DEF IInv
<1>2. /\ Cardinality(DOMAIN table.rows) \in Nat
      /\ nextId \in 0..MaxId /\ MaxId \in Nat
  BY <1>1, HighWaterNat, StorageAssumption DEF TypeOK
<1>3. Larger(CounterWanted, nextId) \in 0..MaxId
  <2>1. CASE op.kind = "insert"
    <3>1. op.id \in HighWater .. MaxId - 1
      BY <1>1, <2>1 DEF WriteCounter, CallInProgress
    <3> QED BY <1>1, <1>2, <2>1, <3>1, HighWaterNat DEF CounterWanted, Larger
  <2>2. CASE op.kind # "insert"
    <3>1. ~LegacyExhausted
      BY <1>1, <2>2 DEF WriteCounter, CallInProgress
    <3> QED BY <1>2, <2>2, <3>1
            DEF CounterWanted, Larger, LegacyHighWater, LegacyExhausted
  <2> QED BY <2>1, <2>2
<1>4. TypeOK'
  BY <1>1, <1>3, StorageAssumption DEF WriteCounter, TypeOK, Points
<1>5. UsedBelowHighWater'
  BY <1>1 DEF WriteCounter, UsedBelowHighWater, HighWater, Legacy
<1>6. /\ HighWater' = HighWater /\ Legacy' = Legacy
      /\ LegacyExhausted' = LegacyExhausted
      /\ Larger(CounterWanted, nextId)' = Larger(CounterWanted, nextId)
  BY DEF WriteCounter, HighWater, Legacy, LegacyExhausted, CounterWanted,
         LegacyHighWater, Larger
<1>7. CallInProgress'
  BY <1>1, <1>6 DEF WriteCounter, CallInProgress
<1> QED BY <1>4, <1>5, <1>7 DEF IInv

(* The counter that an insert publishes exceeds every ID used so far and the *)
(* one it takes; the counter of a legacy upgrade exceeds every row.          *)
LEMMA PublishCounterInv == IInv /\ PublishCounter => IInv'
<1> SUFFICES ASSUME IInv, PublishCounter PROVE IInv'
  OBVIOUS
<1>1. TypeOK /\ UsedBelowHighWater /\ CallInProgress
  BY DEF IInv
<1>2. /\ HighWater \in Nat \ {0} /\ LegacyHighWater >= HighWater
      /\ LegacyHighWater \in Nat /\ nextId \in 0..MaxId /\ nextIdTmp \in 0..MaxId
      /\ MaxId \in Nat
  BY <1>1, HighWaterNat, StorageAssumption DEF TypeOK
<1>3. nextId' = Larger(CounterWanted, nextId) /\ nextId' # 0 /\ nextIdTmp' = 0
  BY <1>1 DEF PublishCounter, CallInProgress
<1>4. op.kind = "insert" => /\ op.id \in HighWater .. MaxId - 1
                            /\ op.id \in Ids /\ nextId' > op.id
  BY <1>1, <1>2, <1>3 DEF PublishCounter, CallInProgress, CounterWanted, Larger, Ids
<1>5. nextId' >= HighWater /\ nextId' \in 0..MaxId
  BY <1>1, <1>2, <1>3, <1>4 DEF PublishCounter, CounterWanted, Larger
<1>6. op.kind = "insert" => op.id \notin issued
  BY <1>1, <1>2, <1>4 DEF UsedBelowHighWater, TypeOK, Ids
<1>7. TypeOK'
  <2>1. issued' \in SUBSET Ids
    BY <1>1, <1>4 DEF PublishCounter, TypeOK
  <2>2. pc' \in Points /\ nextIdTmp' \in 0..MaxId
    BY <1>2, <1>3 DEF PublishCounter, Points
  <2> QED BY <1>1, <1>5, <2>1, <2>2 DEF PublishCounter, TypeOK
<1>8. HighWater' = nextId'
  BY <1>3 DEF HighWater
<1>9. issued' = IF op.kind = "insert" THEN issued \cup {op.id} ELSE issued
  BY DEF PublishCounter
<1>10. ASSUME NEW i \in issued' PROVE i < nextId'
  <2>1. CASE i \in issued
    BY <1>1, <1>2, <1>5, <2>1 DEF UsedBelowHighWater, TypeOK, Ids
  <2>2. CASE i \notin issued
    BY <1>4, <1>9, <2>2
  <2> QED BY <2>1, <2>2
<1>11. UsedBelowHighWater'
  BY <1>1, <1>3, <1>8, <1>9, <1>10 DEF PublishCounter, UsedBelowHighWater
<1>12. CallInProgress'
  <2>1. pc' \in {"append", "rewrite"} /\ op' = op /\ data' = data /\ table' = table
    BY DEF PublishCounter
  <2>2. op.kind = "insert" => op.id \in issued' \ DOMAIN table'.rows
    BY <1>1, <1>6, <1>9, <2>1 DEF UsedBelowHighWater
  <2>3. pc' = "append" => op.kind = "insert" /\ ~NeedsUpgrade'
    BY <2>1 DEF PublishCounter, NeedsUpgrade
  <2>4. /\ data = table.rows /\ op.kind # "none"
        /\ op.kind # "erase" => op.val \in Vals
        /\ op.kind # "insert" => op.id \in Ids /\ op.id \in DOMAIN data
    BY <1>1 DEF PublishCounter, CallInProgress
  <2>5. ASSUME pc' = "append", NEW i \in DOMAIN table.rows PROVE i < op.id
    <3>1. i \in issued /\ i < HighWater
      BY <1>1 DEF UsedBelowHighWater
    <3>2. issued \in SUBSET (1..MaxId)
      BY <1>1 DEF TypeOK, Ids
    <3>3. i \in Nat
      BY <3>1, <3>2
    <3> QED BY <1>2, <1>4, <2>3, <2>5, <3>1, <3>3
  <2> QED BY <1>3, <2>1, <2>2, <2>3, <2>4, <2>5 DEF CallInProgress
<1> QED BY <1>7, <1>11, <1>12 DEF IInv

(* The rewritten table is a table, its rows are the old ones except for the  *)
(* row of the call, and that row is as the call wants it.                    *)
LEMMA NewRowsContents ==
  ASSUME TypeOK, CallInProgress, pc \in {"rewrite", "publishTable"}
  PROVE  /\ NewRows \in Contents
         /\ DOMAIN NewRows \subseteq DOMAIN table.rows
                \cup (IF op.kind = "insert" THEN {op.id} ELSE {})
         /\ \A i \in DOMAIN table.rows \ {op.id} :
               i \in DOMAIN NewRows /\ NewRows[i] = table.rows[i]
         /\ op.kind # "erase" => op.id \in DOMAIN NewRows /\ NewRows[op.id] = op.val
         /\ op.kind = "erase" => op.id \notin DOMAIN NewRows
<1>1. data \in Contents /\ data = table.rows
  BY DEF TypeOK, CallInProgress
<1>2. CASE op.kind = "insert"
  <2>1. op.id \in Ids /\ op.val \in Vals /\ NewRows = Put(data, op.id, op.val)
    BY <1>2 DEF TypeOK, CallInProgress, NewRows
  <2>2. DOMAIN data \in SUBSET Ids /\ data \in [DOMAIN data -> Vals]
    BY <1>1, ContentsDomain
  <2>3. NewRows \in [DOMAIN data \cup {op.id} -> Vals]
    BY <2>1, <2>2 DEF Put
  <2>4. NewRows \in Contents
    BY <2>1, <2>2, <2>3, ContentsIntro
  <2>5. /\ NewRows[op.id] = op.val
        /\ \A j \in DOMAIN data \ {op.id} : NewRows[j] = data[j]
    BY <2>1, <2>2 DEF Put
  <2> QED BY <1>1, <1>2, <2>1, <2>3, <2>4, <2>5
<1>3. CASE op.kind = "update"
  <2>1. /\ op.id \in DOMAIN data /\ op.val \in Vals
        /\ NewRows = [data EXCEPT ![op.id] = op.val]
    BY <1>3 DEF TypeOK, CallInProgress, NewRows
  <2>2. DOMAIN data \in SUBSET Ids /\ data \in [DOMAIN data -> Vals]
    BY <1>1, ContentsDomain
  <2>3. NewRows \in [DOMAIN data -> Vals]
    BY <2>1, <2>2
  <2>4. NewRows \in Contents
    BY <2>2, <2>3, ContentsIntro
  <2> QED BY <1>1, <1>3, <2>1, <2>2, <2>3, <2>4
<1>4. CASE op.kind = "erase"
  <2>1. NewRows = Without(data, op.id)
    BY <1>4 DEF NewRows
  <2>2. /\ NewRows \in Contents /\ DOMAIN NewRows = DOMAIN data \ {op.id}
        /\ \A j \in DOMAIN data \ {op.id} : NewRows[j] = data[j]
    BY <1>1, <2>1, WithoutContents, ZenonT(60)
  <2> QED BY <1>1, <1>4, <2>2
<1>5. op.kind \in {"insert", "update", "erase"}
  BY DEF TypeOK, CallInProgress
<1> QED BY <1>2, <1>3, <1>4, <1>5

LEMMA WriteTableInv == IInv /\ WriteTable => IInv'
<1> SUFFICES ASSUME IInv, WriteTable PROVE IInv'
  OBVIOUS
<1>1. TypeOK /\ UsedBelowHighWater /\ CallInProgress /\ pc = "rewrite"
  BY DEF IInv, WriteTable
<1>2. tableTmp' \in [whole : BOOLEAN, rows : Contents]
  <2>1. NewRows \in Contents /\ NoRows \in Contents
    BY <1>1, EmptyContents, NewRowsContents
  <2>2. /\ [whole |-> FALSE, rows |-> NoRows] \in [whole : BOOLEAN, rows : Contents]
        /\ [whole |-> TRUE, rows |-> NewRows] \in [whole : BOOLEAN, rows : Contents]
    BY <2>1
  <2> QED BY <2>2 DEF WriteTable
<1>3. TypeOK'
  BY <1>1, <1>2 DEF WriteTable, TypeOK, Points
<1>4. UsedBelowHighWater'
  BY <1>1 DEF WriteTable, UsedBelowHighWater, HighWater, Legacy
<1>5. tableTmp'.whole => tableTmp'.rows = NewRows
  BY DEF WriteTable
<1>6. NewRows' = NewRows
  BY DEF WriteTable, NewRows
<1>7. CallInProgress'
  BY <1>1, <1>5, <1>6 DEF WriteTable, CallInProgress
<1> QED BY <1>3, <1>4, <1>7 DEF IInv

LEMMA PublishTableInv == IInv /\ PublishTable => IInv'
<1> SUFFICES ASSUME IInv, PublishTable PROVE IInv'
  OBVIOUS
<1>1. /\ TypeOK /\ UsedBelowHighWater /\ CallInProgress
      /\ pc = "publishTable" /\ tableTmp.whole
  BY DEF IInv, PublishTable
<1>2. tableTmp.rows = NewRows /\ nextId # 0
  BY <1>1 DEF CallInProgress
<1>3. /\ table' \in TableFile /\ table'.rows = NewRows
      /\ table'.layout = "bitmap" /\ table'.tail = "clean"
  BY <1>1, <1>2, NewRowsContents DEF PublishTable, TableFile, Layouts
<1>4. TypeOK'
  BY <1>1, <1>3, EmptyContents DEF PublishTable, TypeOK, Points
<1>5. op.kind = "insert" => op.id \in issued
  BY <1>1 DEF CallInProgress
<1>6. DOMAIN table'.rows \subseteq issued
  BY <1>1, <1>3, <1>5, NewRowsContents DEF UsedBelowHighWater
<1>7. UsedBelowHighWater'
  BY <1>1, <1>2, <1>6 DEF PublishTable, UsedBelowHighWater, HighWater
<1>8. Stored'
  BY <1>1, <1>3, NewRowsContents DEF PublishTable, Stored
<1>9. CallInProgress'
  BY <1>1, <1>8 DEF PublishTable, CallInProgress
<1> QED BY <1>4, <1>7, <1>9 DEF IInv

(* Whatever a write to the end of the file leaves there, the file is still a *)
(* table file in the same layout; it has gained at most the new row, and has *)
(* lost none; a row that changed was the last one, without its newline; and  *)
(* a complete record is there for as long as the file can be read.           *)
LEMMA AppendedFile ==
  ASSUME TypeOK, NEW i \in Ids, NEW v \in Vals, NEW outcome \in Outcomes,
         NEW t \in Appended(i, v, outcome)
  PROVE  /\ t \in TableFile /\ t.layout = table.layout
         /\ DOMAIN table.rows \subseteq DOMAIN t.rows
         /\ DOMAIN t.rows \subseteq DOMAIN table.rows \cup {i}
         /\ \A j \in DOMAIN table.rows :
               t.rows[j] # table.rows[j] => table.tail = "unterminated" /\ j \in LastIds
         /\ outcome = "complete" /\ t.tail # "torn" =>
               i \in DOMAIN t.rows /\ t.rows[i] = v
         /\ t.tail = "unterminated" => table.tail = "unterminated" \/ i \in DOMAIN t.rows
<1>1. /\ table \in TableFile /\ table.rows \in Contents
      /\ DOMAIN table.rows \in SUBSET Ids /\ table.rows \in [DOMAIN table.rows -> Vals]
  BY ContentsDomain DEF TypeOK, TableFile
<1>2. \A j \in Ids, w \in Vals, tail \in {"clean", "unterminated"} :
         /\ WithRow(j, w, tail) \in TableFile
         /\ WithRow(j, w, tail).layout = table.layout
         /\ WithRow(j, w, tail).tail = tail
         /\ WithRow(j, w, tail).rows \in Contents
         /\ DOMAIN WithRow(j, w, tail).rows = DOMAIN table.rows \cup {j}
         /\ WithRow(j, w, tail).rows[j] = w
         /\ \A k \in DOMAIN table.rows \ {j} :
               WithRow(j, w, tail).rows[k] = table.rows[k]
  <2> TAKE j \in Ids, w \in Vals, tail \in {"clean", "unterminated"}
  <2> DEFINE u == WithRow(j, w, tail)
  <2>1. /\ u = [table EXCEPT !.rows = Put(table.rows, j, w), !.tail = tail]
        /\ u.rows = Put(table.rows, j, w)
        /\ u.layout = table.layout /\ u.tail = tail
    BY <1>1 DEF WithRow, TableFile
  <2> HIDE DEF u
  <2>2. /\ u.rows \in Contents /\ DOMAIN u.rows = DOMAIN table.rows \cup {j}
        /\ u.rows[j] = w /\ \A k \in DOMAIN table.rows \ {j} : u.rows[k] = table.rows[k]
    <3>1. u.rows \in [DOMAIN table.rows \cup {j} -> Vals]
      BY <1>1, <2>1 DEF Put
    <3>2. u.rows \in Contents
      BY <1>1, <3>1, ContentsIntro
    <3> QED BY <1>1, <2>1, <3>1, <3>2 DEF Put
  <2>3. u \in TableFile
    BY <1>1, <2>1, <2>2 DEF TableFile
  <2> QED BY <2>1, <2>2, <2>3 DEF u
<1>3. CASE t = table /\ outcome # "complete"
  BY <1>1, <1>3
<1>4. CASE t = Unreadable
  BY <1>1, <1>4 DEF Unreadable, TableFile
<1>5. CASE t \in Glued /\ table.tail = "unterminated" /\ outcome = "torn"
  <2>1. PICK j \in LastIds : \E w \in Misread[table.rows[j]] :
               t = WithRow(j, w, "unterminated")
    BY <1>5 DEF Glued
  <2>2. PICK w \in Misread[table.rows[j]] : t = WithRow(j, w, "unterminated")
    BY <2>1
  <2>3. j \in DOMAIN table.rows /\ j \in Ids /\ table.rows[j] \in Vals
    BY <1>1, <2>1 DEF LastIds
  <2>4. w \in Vals
    BY <2>2, <2>3, StorageAssumption
  <2> QED BY <1>2, <1>5, <2>2, <2>3, <2>4
<1>6. CASE /\ i \notin DOMAIN table.rows
           /\ t = WithRow(i, v, "clean")
  BY <1>2, <1>6
<1>7. CASE /\ i \notin DOMAIN table.rows /\ outcome # "complete"
           /\ \E w \in {v} \cup Misread[v] : t = WithRow(i, w, "unterminated")
  <2>1. PICK w \in {v} \cup Misread[v] : t = WithRow(i, w, "unterminated")
    BY <1>7
  <2>2. w \in Vals
    BY <2>1, StorageAssumption
  <2> QED BY <1>2, <1>7, <2>1, <2>2
<1>8. CASE outcome = "absent"
  BY <1>3, <1>8 DEF Appended
<1>9. CASE outcome = "torn"
  BY <1>4, <1>5, <1>9 DEF Appended
<1>10. CASE outcome = "unterminated" \/ outcome = "complete"
  BY <1>4, <1>6, <1>7, <1>10 DEF Appended
<1> QED BY <1>8, <1>9, <1>10 DEF Outcomes

LEMMA AppendRecordInv == IInv /\ AppendRecord => IInv'
<1> SUFFICES ASSUME IInv, AppendRecord PROVE IInv'
  OBVIOUS
<1>1. TypeOK /\ UsedBelowHighWater /\ CallInProgress /\ pc = "append"
  BY DEF IInv, AppendRecord
<1>2. PICK outcome \in WriteOutcomes :
         /\ table' \in Appended(op.id, op.val, outcome)
         /\ pc' = IF outcome = "complete" THEN "close" ELSE "closeBad"
  BY DEF AppendRecord, StreamState
<1>3. /\ op.kind = "insert" /\ op.val \in Vals /\ op.id \in issued /\ op.id \in Ids
      /\ nextId # 0 /\ outcome \in Outcomes /\ ~NeedsUpgrade
  BY <1>1, StorageAssumption DEF CallInProgress, TypeOK
<1>4. /\ table' \in TableFile /\ table'.layout = table.layout
      /\ DOMAIN table'.rows \subseteq DOMAIN table.rows \cup {op.id}
      /\ outcome = "complete" /\ table'.tail # "torn" =>
            op.id \in DOMAIN table'.rows /\ table'.rows[op.id] = op.val
  BY <1>1, <1>2, <1>3, AppendedFile
<1>5. TypeOK'
  BY <1>1, <1>2, <1>4 DEF AppendRecord, TypeOK, Points
<1>6. UsedBelowHighWater'
  BY <1>1, <1>3, <1>4 DEF AppendRecord, UsedBelowHighWater, HighWater
<1>7. NeedsUpgrade' = NeedsUpgrade
  BY <1>4 DEF NeedsUpgrade
<1>8. CallInProgress'
  BY <1>1, <1>2, <1>3, <1>4, <1>7 DEF AppendRecord, CallInProgress, Stored
<1> QED BY <1>5, <1>6, <1>8 DEF IInv

LEMMA CloseAppendInv == IInv /\ CloseAppend => IInv'
<1> SUFFICES ASSUME IInv, CloseAppend PROVE IInv'
  OBVIOUS
<1>1. TypeOK'
  BY DEF IInv, CloseAppend, TypeOK, files, Points
<1>2. UsedBelowHighWater'
  BY SameFiles DEF IInv, CloseAppend
<1>3. CallInProgress'
  BY DEF IInv, CloseAppend, CallInProgress, files, Stored
<1> QED BY <1>1, <1>2, <1>3 DEF IInv

LEMMA NextInv == IInv /\ [Next]_vars => IInv'
<1> SUFFICES ASSUME IInv, [Next]_vars PROVE IInv'
  OBVIOUS
<1>1. CASE UNCHANGED vars
  BY <1>1 DEF vars, IInv, TypeOK, UsedBelowHighWater, CallInProgress, HighWater, Legacy,
              LegacyExhausted, LegacyHighWater, CounterWanted, NewRows, NeedsUpgrade, Stored
<1>2. CASE Next
  BY <1>2, CallInv, EndInv, ReadForInsertInv, ReadForChangeInv, WriteCounterInv,
     PublishCounterInv, WriteTableInv, PublishTableInv, AppendRecordInv, CloseAppendInv
     DEF Next
<1> QED BY <1>1, <1>2

-----------------------------------------------------------------------------
(* The theorems. *)

(* The inductive invariant holds in every state the engine can reach. *)
THEOREM Inductive == Spec => []IInv
  BY InitInv, NextInv, PTL DEF Spec

(* Every variable keeps its type: whatever fails on the way, appendRow,      *)
(* updateRow and deleteRow leave files of the kinds they started from.       *)
THEOREM TypeCorrect == Spec => []TypeOK
<1>1. IInv => TypeOK
  BY DEF IInv
<1> QED BY <1>1, Inductive, PTL

(* No failure and no crash leaves the counter missing or at or below a       *)
(* stored ID, which readTable would refuse.                                  *)
THEOREM NotLockedOut == Spec => []NeverLockedOut
<1>1. IInv => NeverLockedOut
  <2> SUFFICES ASSUME IInv, table.tail # "torn", ~Legacy
               PROVE  nextId # 0 /\ \A i \in DOMAIN table.rows : i < nextId
    BY DEF NeverLockedOut, Readable
  <2> QED BY DEF IInv, UsedBelowHighWater, HighWater
<1> QED BY <1>1, Inductive, PTL

(* An insert never reserves an ID that was reserved, or stored, before.      *)
THEOREM FreshIds == Spec => []ReservesFreshId
<1>1. IInv => ReservesFreshId
  <2> SUFFICES ASSUME IInv, pc = "publishCounter", op.kind = "insert", op.id \in issued
               PROVE  FALSE
    BY DEF ReservesFreshId
  <2>1. op.id \in HighWater .. MaxId - 1 /\ HighWater \in Nat /\ op.id < HighWater
    BY HighWaterNat DEF IInv, CallInProgress, UsedBelowHighWater
  <2> QED BY <2>1, StorageAssumption
<1> QED BY <1>1, Inductive, PTL

(* A call reports success only with its effect in the table file.            *)
THEOREM SuccessStored == Spec => []SuccessIsStored
<1>1. IInv => SuccessIsStored
  BY DEF IInv, CallInProgress, SuccessIsStored
<1> QED BY <1>1, Inductive, PTL

(* The counter only grows.  Only PublishCounter changes it, to a value that  *)
(* writeNextId has raised to at least the one that was there.                *)
THEOREM CounterGrows == Spec => CounterNeverLowered
<1>1. IInv /\ [Next]_vars => nextId' >= nextId
  <2> SUFFICES ASSUME IInv, [Next]_vars PROVE nextId' >= nextId
    OBVIOUS
  <2>1. nextId \in 0..MaxId /\ MaxId \in Nat
    BY StorageAssumption DEF IInv, TypeOK
  <2>2. CASE PublishCounter
    <3>1. nextId' = Larger(CounterWanted, nextId)
      BY <2>2 DEF IInv, CallInProgress, PublishCounter
    <3>2. CounterWanted \in Nat
      BY <2>1, HighWaterNat DEF IInv, TypeOK, CounterWanted
    <3> QED BY <2>1, <3>1, <3>2 DEF Larger
  <2>3. ~PublishCounter => nextId' = nextId
    BY DEF Next, vars, files, Call, Throw, Crash, Return, ReadForInsert, ReadForChange,
           ReadMissing, WriteCounter, WriteTable, PublishTable, AppendRecord, CloseAppend
  <2> QED BY <2>1, <2>2, <2>3
<1> QED BY <1>1, Inductive, PTL DEF Spec, CounterNeverLowered

(* The rows of the table change only as the call in progress says: a row     *)
(* appears by the insert that has reserved its ID, disappears by its own     *)
(* erase and changes by its own update, or was a last row left incomplete.   *)
THEOREM RowsChange == Spec => RowsChangeOnlyByTheirCall
<1> DEFINE Change ==
      /\ \A i \in DOMAIN table'.rows \ DOMAIN table.rows :
            op.kind = "insert" /\ op.id = i /\ i \in issued
      /\ \A i \in DOMAIN table.rows \ DOMAIN table'.rows :
            op.kind = "erase" /\ op.id = i
      /\ \A i \in DOMAIN table.rows \cap DOMAIN table'.rows :
            table'.rows[i] # table.rows[i] =>
               \/ op.kind = "update" /\ op.id = i
               \/ table.tail = "unterminated" /\ i \in LastIds
<1>1. IInv /\ [Next]_vars => Change
  <2> SUFFICES ASSUME IInv, [Next]_vars PROVE Change
    OBVIOUS
  <2>1. CASE table' = table
    BY <2>1
  <2>2. CASE PublishTable
    <3>1. /\ TypeOK /\ CallInProgress /\ pc = "publishTable"
          /\ table'.rows = NewRows
      BY <2>2 DEF IInv, CallInProgress, PublishTable
    <3>2. /\ op.kind \in {"insert", "update", "erase"}
          /\ op.kind = "insert" => op.id \in issued \ DOMAIN table.rows
          /\ op.kind # "insert" => op.id \in DOMAIN table.rows
      BY <3>1 DEF TypeOK, CallInProgress
    <3> QED BY <3>1, <3>2, NewRowsContents
  <2>3. CASE AppendRecord
    <3>1. PICK outcome \in WriteOutcomes : table' \in Appended(op.id, op.val, outcome)
      BY <2>3 DEF AppendRecord
    <3>2. /\ TypeOK /\ op.kind = "insert" /\ op.val \in Vals /\ op.id \in issued
          /\ op.id \in Ids /\ outcome \in Outcomes
      BY <2>3, StorageAssumption DEF IInv, TypeOK, CallInProgress, AppendRecord
    <3> QED BY <3>1, <3>2, AppendedFile
  <2>4. ~PublishTable /\ ~AppendRecord => table' = table
    BY DEF Next, vars, files, Call, Throw, Crash, Return, ReadForInsert, ReadForChange,
           ReadMissing, WriteCounter, PublishCounter, WriteTable, CloseAppend
  <2> QED BY <2>1, <2>2, <2>3, <2>4
<1> QED BY <1>1, Inductive, PTL DEF Spec, RowsChangeOnlyByTheirCall

-----------------------------------------------------------------------------
(***************************************************************************)
(* TableStorage implements RowStore when appends are atomic.               *)
(***************************************************************************)

AtomicAppends == WriteOutcomes \subseteq {"absent", "complete"}

(* With such appends the file is never left with a partial last record.      *)
Clean == table.tail = "clean"

LEMMA CleanInit == Init => Clean
  BY DEF Init, Clean

(* What an append does to a clean file. *)
LEMMA AtomicAppend ==
  ASSUME AtomicAppends, IInv, Clean, AppendRecord
  PROVE  \/ table' = table /\ pc' = "closeBad"
         \/ /\ table' = [table EXCEPT !.rows = Put(table.rows, op.id, op.val), !.tail = "clean"]
            /\ pc' = "close" /\ op.kind = "insert" /\ op.id \in issued \ DOMAIN table.rows
<1>1. PICK outcome \in WriteOutcomes : table' \in Appended(op.id, op.val, outcome)
                                       /\ pc' = StreamState(outcome)
  BY DEF AppendRecord
<1>2. outcome \in {"absent", "complete"}
  BY DEF AtomicAppends
<1>3. op.kind = "insert" /\ op.id \in issued \ DOMAIN table.rows
  BY DEF IInv, CallInProgress, AppendRecord
<1>4. CASE outcome = "absent"
  BY <1>1, <1>4 DEF Appended, StreamState
<1>5. CASE outcome = "complete"
  <2>1. Appended(op.id, op.val, outcome) = {WithRow(op.id, op.val, "clean")}
    BY <1>3, <1>5 DEF Appended, Clean
  <2> QED BY <1>1, <1>3, <1>5, <2>1 DEF WithRow, StreamState
<1> QED BY <1>2, <1>4, <1>5

LEMMA CleanStep == AtomicAppends /\ IInv /\ Clean /\ [Next]_vars => Clean'
<1> SUFFICES ASSUME AtomicAppends, IInv, Clean, [Next]_vars PROVE Clean'
  OBVIOUS
<1>1. CASE AppendRecord
  <2>1. table \in TableFile
    BY DEF IInv, TypeOK
  <2> QED BY <1>1, <2>1, AtomicAppend DEF Clean, TableFile
<1>2. CASE PublishTable
  BY <1>2 DEF PublishTable, Clean
<1>3. CASE ~AppendRecord /\ ~PublishTable
  <2>1. table' = table
    BY <1>3 DEF Next, vars, files, Call, Throw, Crash, Return, ReadForInsert, ReadForChange,
       ReadMissing, WriteCounter, PublishCounter, WriteTable, CloseAppend
  <2> QED BY <2>1 DEF Clean
<1> QED BY <1>1, <1>2, <1>3

-----------------------------------------------------------------------------
(* Every step is a step of RowStore, or none of it. *)

LEMMA StoreInit == Init => Store!Init
<1> SUFFICES ASSUME Init PROVE Store!Init
  OBVIOUS
<1>1. IInv
  BY InitInv
<1>2. table.rows \in Store!Tables
  BY <1>1 DEF IInv, TypeOK, TableFile, Contents, Store!Tables
<1>3. DOMAIN table.rows \subseteq issued /\ issued \in SUBSET Ids
  BY <1>1 DEF IInv, UsedBelowHighWater, TypeOK
<1> QED BY <1>2, <1>3 DEF Init, Store!Init, Store!NoCall, NoCall, Store!NoReply, NoReply

(* The ends of a call. *)
LEMMA StoreEnds ==
  ASSUME IInv, Throw \/ Crash \/ Return \/ ReadMissing
  PROVE  Store!Next
<1>1. UNCHANGED <<table, issued>>
  BY DEF Throw, Crash, Return, ReadMissing, files
<1>2. op' = NoCall /\ pc' = "idle" /\ (pc # "idle" => op # NoCall)
  BY DEF Throw, Crash, Return, ReadMissing, Finish, IInv, CallInProgress, NoCall
<1>3. CASE Throw
  BY <1>1, <1>2, <1>3 DEF Throw, Finish, Store!Throw, Store!Finish, Store!NoCall, NoCall,
     Store!Next
<1>4. CASE Crash
  BY <1>1, <1>2, <1>4 DEF Crash, Finish, Store!Crash, Store!Finish, Store!NoCall, NoCall,
     Store!Next
<1>5. CASE Return
  BY <1>1, <1>2, <1>5 DEF Return, Finish, Store!Succeed, Store!Finish, Store!NoCall, NoCall,
     Store!Next
<1>6. CASE ReadMissing
  <2>1. op.kind \in {"update", "erase"} /\ pc \notin {"close", "return"}
    BY <1>6 DEF ReadMissing, IInv, TypeOK, CallInProgress
  <2> QED BY <1>1, <1>2, <1>6, <2>1 DEF ReadMissing, Finish, Store!Missing, Store!Finish,
     Store!NoCall, NoCall, Store!Next
<1> QED BY <1>3, <1>4, <1>5, <1>6

(* An insert chooses an ID when it reads, and reserves it with the counter.  *)
LEMMA StoreChooses ==
  ASSUME IInv, ReadForInsert
  PROVE  Store!Choose
<1>1. TypeOK /\ UsedBelowHighWater /\ CallInProgress
  BY DEF IInv
<1>2. NextRowId \in HighWater .. MaxId - 1 /\ HighWater \in Nat \ {0}
  BY <1>1, HighWaterNat, StorageAssumption
     DEF ReadForInsert, IdLeft, NextRowId, HighWater, UsedBelowHighWater, TypeOK
<1>3. NextRowId \in Ids \ issued
  <2>1. NextRowId \in Ids
    BY <1>2, StorageAssumption DEF Ids
  <2>2. \A i \in issued : i \in Nat /\ i < HighWater
    BY <1>1 DEF UsedBelowHighWater, TypeOK, Ids
  <2> QED BY <1>2, <2>1, <2>2
<1>4. op.kind = "insert" /\ op.id = 0
  BY <1>1 DEF ReadForInsert, CallInProgress
<1>5. UNCHANGED <<table, issued, reply>> /\ pc = "read" /\ pc' = "counter"
      /\ op' = [op EXCEPT !.id = NextRowId]
  BY DEF ReadForInsert, files
<1> QED BY <1>3, <1>4, <1>5 DEF Store!Choose

LEMMA StoreReserves ==
  ASSUME IInv, PublishCounter
  PROVE  Store!Reserve \/ UNCHANGED Store!vars
<1>1. TypeOK /\ UsedBelowHighWater /\ CallInProgress
  BY DEF IInv
<1>2. /\ UNCHANGED <<table, op, reply>> /\ pc = "publishCounter" /\ pc' \in {"append", "rewrite"}
      /\ issued' = IF op.kind = "insert" THEN issued \cup {op.id} ELSE issued
  BY DEF PublishCounter
<1>3. CASE op.kind = "insert"
  <2>1. op.id \in HighWater .. MaxId - 1 /\ HighWater \in Nat \ {0}
    BY <1>1, <1>2, <1>3, HighWaterNat DEF CallInProgress
  <2>2. \A i \in issued : i \in Nat /\ i < HighWater
    BY <1>1 DEF UsedBelowHighWater, TypeOK, Ids
  <2>3. op.id \in Ids
    BY <2>1, StorageAssumption DEF Ids
  <2>4. op.id \notin issued
    BY <2>1, <2>2
  <2> QED BY <1>2, <1>3, <2>3, <2>4 DEF Store!Reserve
<1>4. CASE op.kind # "insert"
  BY <1>2, <1>4 DEF Store!vars
<1> QED BY <1>3, <1>4

(* The call takes effect when the new file, or the record, reaches the live  *)
(* file.                                                                     *)
LEMMA StoreTakesEffect ==
  ASSUME AtomicAppends, IInv, Clean, PublishTable \/ AppendRecord
  PROVE  Store!TakeEffect \/ UNCHANGED Store!vars
<1>1. TypeOK /\ CallInProgress
  BY DEF IInv
<1>2. /\ UNCHANGED <<op, issued, reply>> /\ pc \in {"publishTable", "append"}
      /\ op.kind \in {"insert", "update", "erase"} /\ op # NoCall
  BY <1>1 DEF PublishTable, AppendRecord, TypeOK, CallInProgress, NoCall
<1>3. CASE PublishTable
  <2>1. /\ pc = "publishTable" /\ pc' = "return" /\ table'.rows = NewRows /\ data = table.rows
        /\ op.kind = "insert" => op.id \in issued \ DOMAIN table.rows
        /\ op.kind # "insert" => op.id \in DOMAIN table.rows
    BY <1>1, <1>3 DEF PublishTable, CallInProgress
  <2>2. CASE op.kind = "insert"
    BY <1>2, <2>1, <2>2 DEF NewRows, Put, Store!TakeEffect, Store!NoCall, NoCall
  <2>3. CASE op.kind = "update"
    BY <1>2, <2>1, <2>3 DEF NewRows, Store!TakeEffect, Store!NoCall, NoCall
  <2>4. CASE op.kind = "erase"
    BY <1>2, <2>1, <2>4 DEF NewRows, Without, Store!TakeEffect, Store!NoCall, NoCall
  <2> QED BY <1>2, <2>2, <2>3, <2>4
<1>4. CASE AppendRecord
  <2>1. CASE table' = table /\ pc' = "closeBad"
    BY <1>2, <2>1, <1>4 DEF AppendRecord, Store!vars
  <2>2. CASE /\ table' = [table EXCEPT !.rows = Put(table.rows, op.id, op.val), !.tail = "clean"]
             /\ pc' = "close" /\ op.kind = "insert" /\ op.id \in issued \ DOMAIN table.rows
    <3>1. table'.rows = Put(table.rows, op.id, op.val)
      BY <1>1, <2>2 DEF TypeOK, TableFile
    <3> QED BY <1>2, <1>4, <2>2, <3>1
         DEF AppendRecord, Put, Store!TakeEffect, Store!NoCall, NoCall
  <2> QED BY <1>4, <2>1, <2>2, AtomicAppend
<1> QED BY <1>3, <1>4

LEMMA StoreStep ==
  AtomicAppends /\ IInv /\ Clean /\ [Next]_vars => [Store!Next]_Store!vars
<1> SUFFICES ASSUME AtomicAppends, IInv, Clean, [Next]_vars PROVE [Store!Next]_Store!vars
  OBVIOUS
<1>1. CASE Call
  <2>1. op = NoCall /\ pc = "idle" /\ pc' = "read" /\ op' \in Calls /\ reply' = NoReply
        /\ UNCHANGED <<table, issued>>
    BY <1>1 DEF IInv, CallInProgress, Call, files
  <2> QED BY <2>1 DEF Store!Begin, Store!NoCall, NoCall, Store!NoReply, NoReply, Calls, Store!Next
<1>2. CASE Throw \/ Crash \/ Return \/ ReadMissing
  BY <1>2, StoreEnds
<1>3. CASE ReadForInsert
  BY <1>3, StoreChooses DEF Store!Next
<1>4. CASE PublishCounter
  BY <1>4, StoreReserves DEF Store!Next
<1>5. CASE PublishTable \/ AppendRecord
  BY <1>5, StoreTakesEffect DEF Store!Next
<1>6. CASE ReadForChange \/ WriteCounter \/ WriteTable \/ CloseAppend \/ UNCHANGED vars
  <2>1. /\ UNCHANGED <<table, issued, op, reply>>
        /\ pc' \in {"close", "return"} <=> pc \in {"close", "return"}
    BY <1>6 DEF ReadForChange, AfterRead, WriteCounter, WriteTable, CloseAppend, files, vars
  <2> QED BY <2>1 DEF Store!vars
<1> QED BY <1>1, <1>2, <1>3, <1>4, <1>5, <1>6 DEF Next

(* With appends that happen entirely or not at all, every call of the engine *)
(* takes effect on the rows in one step, completely or not at all, whatever  *)
(* fails and wherever the process dies, and no ID is used twice.             *)
THEOREM ImplementsRowStore == AtomicAppends => (Spec => StoreSpec)
<1> SUFFICES ASSUME AtomicAppends PROVE Spec => StoreSpec
  OBVIOUS
<1>1. Init => Clean /\ Store!Init
  BY CleanInit, StoreInit
<1>2. IInv /\ Clean /\ [Next]_vars => Clean' /\ [Store!Next]_Store!vars
  BY CleanStep, StoreStep
<1> QED BY <1>1, <1>2, Inductive, PTL DEF Spec, StoreSpec, Store!Spec

-----------------------------------------------------------------------------
(***************************************************************************)
(* A scan beside the writer.                                               *)
(***************************************************************************)

LEMMA IdsAreNat == Ids \subseteq Nat
  BY StorageAssumption DEF Ids

(* What the scan has open is a table file. *)
LEMMA OpenedFile == ASSUME TypeOK, ScanTypeOK
                    PROVE  /\ Opened \in TableFile /\ Opened.rows \in Contents
                           /\ DOMAIN Opened.rows \in SUBSET Ids
                           /\ Opened.rows \in [DOMAIN Opened.rows -> Vals]
<1>1. Opened \in TableFile
  BY DEF TypeOK, ScanTypeOK, Opened
<1>2. Opened.rows \in Contents
  BY <1>1 DEF TableFile
<1> QED BY <1>1, <1>2, ContentsDomain

(* A page is a first part of the rest, and all of it when it is not filled.  *)
LEMMA PageOfRest ==
  ASSUME DOMAIN Opened.rows \in SUBSET Ids, NEW maxRows \in Nat \ {0}
  PROVE  /\ PageIds(maxRows) \subseteq Rest
         /\ ~Filled(maxRows) => PageIds(maxRows) = Rest
         /\ \A i \in PageIds(maxRows), k \in Rest : k < i => k \in PageIds(maxRows)
<1> DEFINE Before(i) == {j \in Rest : j < i}
<1>1. Rest \in SUBSET Ids /\ MaxId \in Nat
  BY StorageAssumption DEF Rest
<1>2. IsFiniteSet(Rest)
  <2>1. IsFiniteSet(Ids)
    BY StorageAssumption, FS_Interval DEF Ids
  <2> QED BY <1>1, <2>1, FS_Subset
<1>3. ASSUME NEW S \in SUBSET Rest, NEW T \in SUBSET S
      PROVE  /\ Cardinality(S) \in Nat /\ Cardinality(T) \in Nat
             /\ Cardinality(T) <= Cardinality(S)
  <2>1. IsFiniteSet(S) /\ IsFiniteSet(T)
    BY <1>2, FS_Subset
  <2> QED BY <2>1, FS_Subset, FS_CardinalityType
<1>4. PageIds(maxRows) = {i \in Rest : Cardinality(Before(i)) < maxRows}
  BY DEF PageIds
<1>5. ASSUME ~Filled(maxRows), NEW i \in Rest PROVE i \in PageIds(maxRows)
  <2>1. /\ Cardinality(Rest) \in Nat /\ Cardinality(Before(i)) \in Nat
        /\ Cardinality(Before(i)) <= Cardinality(Rest)
    BY <1>3
  <2>2. Cardinality(Rest) < maxRows
    BY <1>5, <2>1 DEF Filled
  <2>3. Cardinality(Before(i)) < maxRows
    BY <2>1, <2>2
  <2> QED BY <1>4, <1>5, <2>3
<1>6. ASSUME NEW i \in PageIds(maxRows), NEW k \in Rest, k < i
      PROVE  k \in PageIds(maxRows)
  <2>1. i \in Rest /\ i \in Nat /\ k \in Nat /\ Cardinality(Before(i)) < maxRows
    BY <1>1, <1>4, IdsAreNat
  <2>2. Before(k) \in SUBSET Before(i)
    <3> SUFFICES ASSUME NEW j \in Rest, j < k PROVE j < i
      OBVIOUS
    <3>1. j \in Nat
      BY <1>1, IdsAreNat
    <3> QED BY <1>6, <2>1, <3>1
  <2>3. /\ Cardinality(Before(i)) \in Nat /\ Cardinality(Before(k)) \in Nat
        /\ Cardinality(Before(k)) <= Cardinality(Before(i))
    BY <1>3, <2>2
  <2>4. Cardinality(Before(k)) < maxRows
    BY <2>1, <2>3
  <2> QED BY <1>4, <2>4
<1>7. PageIds(maxRows) \subseteq Rest
  BY <1>4
<1> QED BY <1>5, <1>6, <1>7

-----------------------------------------------------------------------------
(* The writer beside the scan. *)

LEMMA WriterStep == WriterInv /\ [ScanNext]_allVars => WriterInv'
<1> SUFFICES ASSUME WriterInv, [ScanNext]_allVars PROVE WriterInv'
  OBVIOUS
<1>1. IInv /\ (~present => pc = "idle")
  BY DEF WriterInv
<1>2. ASSUME UNCHANGED vars PROVE IInv'
  BY <1>1, <1>2, NextInv
<1>3. CASE UNCHANGED allVars
  <2>1. UNCHANGED vars /\ present' = present
    BY <1>3 DEF allVars
  <2>2. pc' = pc
    BY <2>1 DEF vars
  <2> QED BY <1>1, <1>2, <2>1, <2>2 DEF WriterInv
<1>4. CASE Scan
  <2>1. UNCHANGED vars /\ present' = present
    BY <1>4 DEF Scan, Open, ReadCounter, Reopen, OpenFails, ReadPage, ReadPageFails, ReadAtEof,
       Close
  <2>2. pc' = pc
    BY <2>1 DEF vars
  <2> QED BY <1>1, <1>2, <2>1, <2>2 DEF WriterInv
<1>5. CASE Write
  <2>1. Next /\ present' = present /\ present
    BY <1>5 DEF Write
  <2>2. IInv'
    BY <1>1, <2>1, NextInv
  <2> QED BY <2>1, <2>2 DEF WriterInv
<1>6. CASE Drop
  <2>1. UNCHANGED vars /\ pc = "idle"
    BY <1>6 DEF Drop
  <2>2. pc' = pc
    BY <2>1 DEF vars
  <2> QED BY <1>2, <2>1, <2>2 DEF WriterInv
<1>7. CASE Create
  <2>1. /\ table' = [layout |-> "bitmap", rows |-> NoRows, tail |-> "clean"]
        /\ nextId' = 1 /\ nextIdTmp' = 0 /\ issued' = {} /\ reply' = NoReply
        /\ tableTmp' = [whole |-> FALSE, rows |-> NoRows]
        /\ pc' = pc /\ op' = op /\ data' = data /\ present' /\ pc = "idle"
    BY <1>1, <1>7 DEF Create
  <2>2. table' \in TableFile /\ table'.rows = NoRows /\ DOMAIN table'.rows = {}
    BY <2>1, EmptyContents DEF TableFile, Layouts
  <2>3. TypeOK'
    <3>1. nextId' \in 0..MaxId /\ nextIdTmp' \in 0..MaxId /\ reply'.id \in 0..MaxId
      BY <2>1, StorageAssumption DEF NoReply
    <3>2. tableTmp' \in [whole : BOOLEAN, rows : Contents]
      BY <2>1, EmptyContents
    <3>3. reply' \in [status : {"none", "ok", "missing", "error"}, id : 0..MaxId]
      BY <2>1, <3>1 DEF NoReply
    <3> QED BY <1>1, <2>1, <2>2, <3>1, <3>2, <3>3 DEF IInv, TypeOK
  <2>4. UsedBelowHighWater'
    BY <2>1, <2>2 DEF UsedBelowHighWater
  <2>5. CallInProgress'
    BY <1>1, <2>1 DEF IInv, CallInProgress
  <2> QED BY <2>1, <2>3, <2>4, <2>5 DEF IInv, WriterInv
<1> QED BY <1>3, <1>4, <1>5, <1>6, <1>7 DEF ScanNext

(* What a step of the writer makes of the table file. *)
LEMMA TableWritten ==
  ASSUME IInv, Next, ~PublishTable
  PROVE  /\ DOMAIN table.rows \subseteq DOMAIN table'.rows
         /\ \A i \in DOMAIN table.rows :
              /\ table'.rows[i] # table.rows[i] =>
                   table.tail = "unterminated" /\ i \in LastIds
              /\ \A j \in DOMAIN table'.rows : j < i => j \in DOMAIN table.rows
              /\ table'.tail = "unterminated" =>
                   \/ table.tail = "unterminated"
                   \/ \E j \in DOMAIN table'.rows : i < j
<1>1. TypeOK /\ CallInProgress
  BY DEF IInv
<1>2. CASE AppendRecord
  <2>1. PICK outcome \in WriteOutcomes : table' \in Appended(op.id, op.val, outcome)
    BY <1>2 DEF AppendRecord
  <2>2. /\ op.val \in Vals /\ op.id \in Ids /\ outcome \in Outcomes
        /\ \A i \in DOMAIN table.rows : i < op.id
    BY <1>1, <1>2, StorageAssumption DEF CallInProgress, TypeOK, AppendRecord
  <2>3. /\ DOMAIN table.rows \subseteq DOMAIN table'.rows
        /\ DOMAIN table'.rows \subseteq DOMAIN table.rows \cup {op.id}
        /\ \A i \in DOMAIN table.rows :
              table'.rows[i] # table.rows[i] => table.tail = "unterminated" /\ i \in LastIds
        /\ table'.tail = "unterminated" =>
              table.tail = "unterminated" \/ op.id \in DOMAIN table'.rows
    BY <1>1, <2>1, <2>2, AppendedFile
  <2>4. DOMAIN table.rows \in SUBSET Ids
    BY <1>1, ContentsDomain DEF TypeOK, TableFile
  <2>5. ASSUME NEW i \in DOMAIN table.rows, NEW j \in DOMAIN table'.rows, j < i
        PROVE  j \in DOMAIN table.rows
    <3>1. i < op.id /\ i \in Nat /\ op.id \in Nat
      BY <2>2, <2>4 DEF Ids
    <3>2. j # op.id
      BY <2>5, <3>1
    <3> QED BY <2>3, <3>2
  <2> QED BY <2>2, <2>3, <2>5
<1>3. CASE ~AppendRecord
  <2>1. table' = table
    BY <1>3 DEF Next, files, Call, Throw, Crash, Return, ReadForInsert, ReadForChange,
       ReadMissing, WriteCounter, PublishCounter, WriteTable, CloseAppend
  <2> QED BY <2>1
<1> QED BY <1>2, <1>3

(* No step of the writer takes the IDs out of a table. *)
LEMMA LayoutKept == IInv /\ Next => (~Legacy => ~Legacy')
<1> SUFFICES ASSUME IInv, Next, ~Legacy PROVE ~Legacy'
  OBVIOUS
<1>1. CASE AppendRecord
  <2>1. PICK outcome \in WriteOutcomes : table' \in Appended(op.id, op.val, outcome)
    BY <1>1 DEF AppendRecord
  <2>2. TypeOK /\ op.val \in Vals /\ op.id \in Ids /\ outcome \in Outcomes
    BY <1>1, StorageAssumption DEF IInv, CallInProgress, TypeOK, AppendRecord
  <2>3. table'.layout = table.layout
    BY <2>1, <2>2, AppendedFile
  <2> QED BY <2>3 DEF Legacy
<1>2. CASE PublishTable
  BY <1>2 DEF PublishTable, Legacy
<1>3. CASE ~AppendRecord /\ ~PublishTable
  <2>1. table' = table
    BY <1>3 DEF Next, files, Call, Throw, Crash, Return, ReadForInsert, ReadForChange,
       ReadMissing, WriteCounter, PublishCounter, WriteTable, CloseAppend
  <2> QED BY <2>1 DEF Legacy
<1> QED BY <1>1, <1>2, <1>3

-----------------------------------------------------------------------------
(* The scan. *)

(* A page brings the scan the next rows of its file, and all that are left   *)
(* when it meets the end.                                                    *)
LEMMA PageRead ==
  ASSUME ScanInv, NEW maxRows \in PageSizes, at = "read", ~atEof,
         got' = [i \in DOMAIN got \cup PageIds(maxRows) |->
                   IF i \in DOMAIN got THEN got[i] ELSE Opened.rows[i]]
  PROVE  /\ got' \in Contents
         /\ DOMAIN got' \subseteq DOMAIN Opened.rows
         /\ \A i \in DOMAIN got' :
              /\ got'[i] = Opened.rows[i]
              /\ \A j \in DOMAIN Opened.rows : j < i => j \in DOMAIN got'
              /\ Opened.tail = "unterminated" /\ ~MeetsEnd(maxRows) =>
                   \E j \in DOMAIN Opened.rows : i < j
         /\ MeetsEnd(maxRows) => got' = Opened.rows
<1> DEFINE D == DOMAIN Opened.rows
           page == PageIds(maxRows)
<1>1. /\ Opened.rows \in [D -> Vals] /\ D \in SUBSET Ids /\ D \subseteq Nat
      /\ maxRows \in Nat \ {0}
  BY OpenedFile, IdsAreNat, ScanAssumption DEF ScanInv, WriterInv, IInv
<1>2. /\ DOMAIN got \subseteq D
      /\ \A i \in DOMAIN got :
           /\ got[i] = Opened.rows[i]
           /\ \A j \in D : j < i => j \in DOMAIN got
           /\ Opened.tail = "unterminated" => \E j \in D : i < j
  BY DEF ScanInv, FirstRowsReturned
<1>3. /\ page \subseteq Rest
      /\ ~Filled(maxRows) => page = Rest
      /\ \A i \in page, k \in Rest : k < i => k \in page
  BY <1>1, PageOfRest
<1>4. Rest \subseteq D /\ \A i \in Rest, j \in DOMAIN got : j < i
  BY DEF Rest
<1>5. ASSUME NEW j \in D, j \notin Rest PROVE j \in DOMAIN got
  <2>1. PICK g \in DOMAIN got : ~(g < j)
    BY <1>5 DEF Rest
  <2>2. g \in Nat /\ j \in Nat
    BY <1>1, <1>2
  <2>3. j = g \/ j < g
    BY <2>1, <2>2
  <2> QED BY <1>2, <2>3
<1>6. /\ MeetsEnd(maxRows) => page = Rest
      /\ Opened.tail = "unterminated" /\ ~MeetsEnd(maxRows) => page # Rest
  BY <1>3 DEF MeetsEnd
<1> HIDE DEF D, page
<1>7. /\ DOMAIN got' = DOMAIN got \cup page /\ DOMAIN got' \subseteq D
      /\ \A i \in DOMAIN got' : got'[i] = Opened.rows[i]
  BY <1>2, <1>3, <1>4 DEF page
<1>8. got' \in Contents
  <2>1. got' \in [DOMAIN got' -> Vals] /\ DOMAIN got' \in SUBSET Ids
    BY <1>1, <1>7
  <2> QED BY <2>1, ContentsIntro
<1>9. ASSUME NEW i \in DOMAIN got', NEW j \in D, j < i PROVE j \in DOMAIN got'
  <2>1. CASE i \in DOMAIN got
    BY <1>2, <1>7, <1>9, <2>1
  <2>2. CASE i \in page
    BY <1>3, <1>5, <1>7, <1>9, <2>2
  <2> QED BY <1>7, <2>1, <2>2
<1>10. ASSUME NEW i \in DOMAIN got', Opened.tail = "unterminated", ~MeetsEnd(maxRows)
       PROVE  \E j \in D : i < j
  <2>1. PICK k \in Rest : k \notin page
    BY <1>3, <1>6, <1>10
  <2>2. k \in D /\ k \in Nat /\ i \in Nat
    BY <1>1, <1>4, <1>7, <2>1
  <2>3. CASE i \in DOMAIN got
    BY <1>4, <2>1, <2>2, <2>3
  <2>4. CASE i \in page
    <3>1. ~(k < i) /\ k # i
      BY <1>3, <2>1, <2>4
    <3> QED BY <2>2, <3>1
  <2> QED BY <1>7, <2>3, <2>4
<1>11. ASSUME MeetsEnd(maxRows) PROVE got' = Opened.rows
  <2>1. DOMAIN got' = D
    BY <1>5, <1>6, <1>7, <1>11
  <2>2. got' = [i \in D |-> got'[i]] /\ Opened.rows = [i \in D |-> Opened.rows[i]]
    BY <1>1, <2>1
  <2> QED BY <1>7, <2>1, <2>2
<1> QED BY <1>7, <1>8, <1>9, <1>10, <1>11 DEF D

(* What the scan knows, when it takes a step itself. *)
LEMMA ScanStep == ScanInv /\ Scan => ScanInv'
<1> SUFFICES ASSUME ScanInv, Scan PROVE ScanInv'
  OBVIOUS
<1>1. /\ WriterInv /\ ScanTypeOK /\ FileOfScan
      /\ WhileUnchanged /\ FirstRowsReturned
      /\ TypeOK /\ UsedBelowHighWater
  BY DEF ScanInv, WriterInv, IInv
<1>2. UNCHANGED vars /\ present' = present /\ WriterInv'
  <2>1. UNCHANGED vars /\ present' = present
    BY DEF Scan, Open, ReadCounter, Reopen, OpenFails, ReadPage, ReadPageFails, ReadAtEof,
       Close
  <2> QED BY <1>1, <2>1, WriterStep DEF ScanNext
<1>3. table' = table /\ nextId' = nextId /\ nextId \in 0..MaxId /\ Readable' = Readable
  BY <1>1, <1>2 DEF vars, TypeOK, Readable, Legacy
<1>4. CASE ReadPage
  <2>1. PICK maxRows \in PageSizes :
          /\ ~MeetsTorn(maxRows) /\ CounterExceeds(maxRows)
          /\ got' = [i \in DOMAIN got \cup PageIds(maxRows) |->
                       IF i \in DOMAIN got THEN got[i] ELSE Opened.rows[i]]
          /\ atEof' = MeetsEnd(maxRows)
          /\ at' = IF Filled(maxRows) THEN "read" ELSE "done"
    BY <1>4 DEF ReadPage
  <2>2. /\ at = "read" /\ ~atEof /\ at' \in {"read", "done"}
        /\ UNCHANGED <<counted, file, ioError, changed, present>>
    BY <1>2, <1>4, <2>1 DEF ReadPage
  <2>3. /\ got' \in Contents
        /\ DOMAIN got' \subseteq DOMAIN Opened.rows
        /\ \A i \in DOMAIN got' :
             /\ got'[i] = Opened.rows[i]
             /\ \A j \in DOMAIN Opened.rows : j < i => j \in DOMAIN got'
             /\ Opened.tail = "unterminated" /\ ~MeetsEnd(maxRows) =>
                  \E j \in DOMAIN Opened.rows : i < j
    BY <2>1, <2>2, PageRead
  <2>4. Opened' = Opened
    BY <1>3, <2>2 DEF Opened
  <2>5. ScanTypeOK'
    BY <1>1, <2>1, <2>2, <2>3 DEF ScanTypeOK, MeetsEnd
  <2>6. FileOfScan' /\ WhileUnchanged'
    BY <1>1, <1>3, <2>2, <2>4 DEF FileOfScan, WhileUnchanged
  <2>7. FirstRowsReturned'
    BY <2>1, <2>3, <2>4 DEF FirstRowsReturned
  <2> QED BY <1>2, <2>5, <2>6, <2>7 DEF ScanInv
<1>5. CASE ReadPageFails
  <2>1. /\ at = "read" /\ at' = "failed" /\ ioError' \in BOOLEAN
        /\ UNCHANGED <<counted, file, got, atEof, changed, present>>
    BY <1>2, <1>5 DEF ReadPageFails, AfterFailure
  <2>2. ScanTypeOK'
    BY <1>1, <1>3, <2>1 DEF ScanTypeOK
  <2> QED BY <1>2, <2>1, <2>2 DEF ScanInv, FileOfScan, WhileUnchanged, FirstRowsReturned
<1>6. CASE Open \/ ReadCounter \/ Reopen \/ OpenFails
  <2>1. /\ at \in {"closed", "counter", "reopen"} /\ file = Live /\ got = NoRows /\ ~atEof
        /\ UNCHANGED <<file, got, atEof, changed>> /\ Opened' = Opened /\ Opened = table
        /\ ioError' \in BOOLEAN
    BY <1>1, <1>3, <1>6 DEF Open, ReadCounter, Reopen, OpenFails, FileOfScan, Opened,
       ScanTypeOK
  <2>2. \/ /\ at = "closed" /\ present /\ at' \in {"counter", "reopen"}
           /\ counted' = counted /\ counted = 0 /\ (at' = "counter" => ~Legacy)
        \/ /\ at = "counter" /\ present /\ at' = "reopen" /\ nextId # 0
           /\ counted' = nextId
        \/ at = "reopen" /\ present /\ at' = "read" /\ counted' = counted
        \/ at' = "failed" /\ counted' = counted
    BY <1>1, <1>6 DEF Open, ReadCounter, Reopen, OpenFails, FileOfScan
  <2>3. nextId # 0 => \A i \in DOMAIN table.rows : i < nextId
    BY <1>1 DEF UsedBelowHighWater, HighWater
  <2>4. ScanTypeOK'
    BY <1>1, <1>2, <1>3, <2>1, <2>2 DEF ScanTypeOK
  <2>5. FileOfScan'
    BY <1>1, <1>2, <1>3, <2>1, <2>2 DEF FileOfScan, Legacy
  <2>6. WhileUnchanged'
    BY <1>1, <1>2, <1>3, <2>1, <2>2, <2>3 DEF WhileUnchanged
  <2>7. FirstRowsReturned'
    BY <2>1, EmptyContents DEF FirstRowsReturned
  <2> QED BY <1>2, <2>4, <2>5, <2>6, <2>7 DEF ScanInv
<1>7. CASE ReadAtEof \/ Close
  <2>1. /\ at' \in {"done", "closed"}
        /\ \/ UNCHANGED <<counted, file, got, atEof, ioError, changed>> /\ at' = "done"
           \/ /\ counted' = 0 /\ file' = Live /\ got' = NoRows
              /\ atEof' = FALSE /\ ioError' = FALSE /\ changed' = FALSE
    BY <1>7 DEF ReadAtEof, Close
  <2>2. ScanTypeOK'
    <3>1. 0 \in 0..MaxId
      BY StorageAssumption
    <3> QED BY <1>1, <1>2, <2>1, <3>1, EmptyContents DEF ScanTypeOK
  <2> QED BY <1>2, <2>1, <2>2 DEF ScanInv, FileOfScan, WhileUnchanged, FirstRowsReturned
<1> QED BY <1>4, <1>5, <1>6, <1>7 DEF Scan

(* When the writer takes a step: a rename leaves the scan its file, and an   *)
(* append adds to it behind the rows that were returned.                     *)
LEMMA WriteStep == ScanInv /\ Write => ScanInv'
<1> SUFFICES ASSUME ScanInv, Write PROVE ScanInv'
  OBVIOUS
<1>1. /\ WriterInv /\ ScanTypeOK /\ FileOfScan
      /\ WhileUnchanged /\ FirstRowsReturned
      /\ IInv /\ TypeOK
  BY DEF ScanInv, WriterInv, IInv
<1>2. /\ Next /\ present /\ at \notin {"done", "failed"}
      /\ file' = IF PublishTable THEN Replaced ELSE file
      /\ changed' = (at # "closed" /\ (changed \/ table' # table))
      /\ UNCHANGED <<at, counted, got, atEof, ioError, present>>
  BY DEF Write, cursor
<1>3. WriterInv'
  BY <1>1, WriterStep DEF ScanNext
<1>4. table \in TableFile /\ table # Live /\ table' \in TableFile
  BY <1>1, <1>3, ScanAssumption DEF TypeOK, WriterInv, IInv
<1>5. ScanTypeOK'
  BY <1>1, <1>2, <1>4 DEF ScanTypeOK, Replaced
<1>6. FileOfScan'
  <2>1. ~Legacy => ~Legacy'
    BY <1>1, <1>2, LayoutKept
  <2> QED BY <1>1, <1>2, <2>1 DEF FileOfScan, Replaced
<1>7. WhileUnchanged'
  <2> SUFFICES ASSUME at \in {"counter", "reopen", "read"}, ~changed, table' = table
               PROVE  WhileUnchanged'
    BY <1>2 DEF WhileUnchanged
  <2>1. Opened = table /\ (counted # 0 => \A i \in DOMAIN table.rows : i < counted)
    BY <1>1 DEF WhileUnchanged
  <2>2. Opened' = table
    BY <1>2, <2>1 DEF Opened, Replaced
  <2> QED BY <1>2, <2>1, <2>2 DEF WhileUnchanged
<1>8. FirstRowsReturned'
  <2> SUFFICES ASSUME at = "read", ~atEof PROVE FirstRowsReturned'
    BY <1>2 DEF FirstRowsReturned
  <2>1. CASE Opened' = Opened
    BY <1>1, <1>2, <2>1 DEF FirstRowsReturned
  <2>2. CASE Opened' # Opened
    <3>1. file = Live /\ ~PublishTable /\ Opened = table /\ Opened' = table'
      BY <1>2, <1>4, <2>2 DEF Opened, Replaced
    <3>2. /\ DOMAIN got \subseteq DOMAIN table.rows
          /\ \A i \in DOMAIN got :
               /\ got[i] = table.rows[i]
               /\ \A j \in DOMAIN table.rows : j < i => j \in DOMAIN got
               /\ table.tail = "unterminated" => \E j \in DOMAIN table.rows : i < j
      BY <1>1, <3>1 DEF FirstRowsReturned
    <3>3. /\ DOMAIN table.rows \subseteq DOMAIN table'.rows
          /\ \A i \in DOMAIN table.rows :
               /\ table'.rows[i] # table.rows[i] =>
                    table.tail = "unterminated" /\ i \in LastIds
               /\ \A j \in DOMAIN table'.rows : j < i => j \in DOMAIN table.rows
               /\ table'.tail = "unterminated" =>
                    \/ table.tail = "unterminated"
                    \/ \E j \in DOMAIN table'.rows : i < j
      BY <1>1, <1>2, <3>1, TableWritten
    <3>4. DOMAIN table.rows \subseteq Nat
      BY <1>1, ContentsDomain, IdsAreNat DEF TypeOK, TableFile
    <3>5. ASSUME NEW i \in DOMAIN got PROVE table'.rows[i] = got[i]
      <4>1. CASE table.tail = "unterminated"
        <5>1. PICK j \in DOMAIN table.rows : i < j
          BY <3>2, <3>5, <4>1
        <5>2. ~(j <= i)
          BY <3>2, <3>4, <3>5, <5>1
        <5>3. i \notin LastIds
          BY <5>2 DEF LastIds
        <5> QED BY <3>2, <3>3, <3>5, <5>3
      <4>2. CASE table.tail # "unterminated"
        BY <3>2, <3>3, <3>5, <4>2
      <4> QED BY <4>1, <4>2
    <3> QED BY <1>2, <3>1, <3>2, <3>3, <3>5 DEF FirstRowsReturned
  <2> QED BY <2>1, <2>2
<1> QED BY <1>3, <1>5, <1>6, <1>7, <1>8 DEF ScanInv

(* When the table is dropped, or created again: a scan that reads keeps the  *)
(* removed file.                                                             *)
LEMMA DropCreateStep == ScanInv /\ (Drop \/ Create) => ScanInv'
<1> SUFFICES ASSUME ScanInv, Drop \/ Create PROVE ScanInv'
  OBVIOUS
<1>1. /\ WriterInv /\ ScanTypeOK /\ FileOfScan
      /\ WhileUnchanged /\ FirstRowsReturned /\ TypeOK
  BY DEF ScanInv, WriterInv, IInv
<1>2. WriterInv'
  BY <1>1, WriterStep DEF ScanNext
<1>3. table \in TableFile /\ table # Live
  BY <1>1, ScanAssumption DEF TypeOK
<1>4. CASE Drop
  <2>1. /\ at \in {"counter", "reopen", "read"} /\ present' = FALSE /\ changed' = TRUE
        /\ file' = Replaced /\ table' = table /\ UNCHANGED <<at, counted, got, atEof, ioError>>
    BY <1>4 DEF Drop, cursor, vars
  <2>2. Opened' = Opened
    BY <1>3, <2>1 DEF Opened, Replaced
  <2>3. ScanTypeOK'
    BY <1>1, <1>3, <2>1 DEF ScanTypeOK, Replaced
  <2>4. FileOfScan'
    BY <1>1, <1>3, <2>1 DEF FileOfScan, Replaced, Legacy
  <2> QED BY <1>1, <1>2, <2>1, <2>2, <2>3, <2>4
       DEF ScanInv, WhileUnchanged, FirstRowsReturned
<1>5. CASE Create
  <2>1. /\ ~present /\ at \notin {"done", "failed"} /\ present' = TRUE
        /\ UNCHANGED <<at, counted, got, atEof, ioError, file, changed>>
        /\ table' = [layout |-> "bitmap", rows |-> NoRows, tail |-> "clean"]
    BY <1>5 DEF Create, cursor
  <2>2. at = "read" => Opened' = Opened
    BY <1>1, <2>1 DEF FileOfScan, Opened
  <2>3. at \in {"counter", "reopen", "read"} => changed
    BY <1>1, <2>1 DEF WhileUnchanged
  <2>4. ScanTypeOK'
    BY <1>1, <2>1 DEF ScanTypeOK
  <2>5. FileOfScan' /\ WhileUnchanged'
    BY <1>1, <2>1, <2>3 DEF FileOfScan, WhileUnchanged, Legacy
  <2>6. FirstRowsReturned'
    BY <1>1, <2>1, <2>2 DEF FirstRowsReturned
  <2> QED BY <1>2, <2>4, <2>5, <2>6 DEF ScanInv
<1> QED BY <1>4, <1>5

LEMMA ScanNextInv == ScanInv /\ [ScanNext]_allVars => ScanInv'
<1> SUFFICES ASSUME ScanInv, UNCHANGED allVars PROVE ScanInv'
  BY ScanStep, WriteStep, DropCreateStep DEF ScanNext
<1>1. WriterInv'
  BY WriterStep DEF ScanInv
<1>2. UNCHANGED <<at, counted, got, atEof, ioError, file, present, changed, table>>
  BY DEF allVars, cursor, vars
<1>3. Opened' = Opened /\ Legacy' = Legacy
  BY <1>2 DEF Opened, Legacy
<1> QED BY <1>1, <1>2, <1>3 DEF ScanInv, ScanTypeOK, FileOfScan, WhileUnchanged,
     FirstRowsReturned

(* What a scan throws for, when the files are opened and read.  A counter    *)
(* that is missing would be that of a table without IDs, whose counter no    *)
(* scan opens; one that is too low would be so in a changed table.           *)
LEMMA ThrowsStep ==
  ScanInv /\ ThrowsOnlyBesideAChange /\ [ScanNext]_allVars => ThrowsOnlyBesideAChange'
<1> SUFFICES ASSUME ScanInv, ThrowsOnlyBesideAChange, [ScanNext]_allVars, at' = "failed",
                    ~ioError', ~changed', present', table'.tail # "torn"
             PROVE  FALSE
  BY DEF ThrowsOnlyBesideAChange
<1>1. FileOfScan /\ WhileUnchanged /\ UsedBelowHighWater
  BY DEF ScanInv, WriterInv, IInv
<1>2. CASE UNCHANGED allVars
  BY <1>2 DEF allVars, cursor, vars, ThrowsOnlyBesideAChange
<1>3. CASE (ReadPageFails \/ OpenFails) /\ present' = present
  <2>1. /\ ~changed /\ present /\ table.tail # "torn"
    BY <1>3 DEF ReadPageFails, OpenFails, vars
  <2>2. CASE OpenFails
    <3>1. at = "counter" /\ nextId = 0
      BY <2>1, <2>2 DEF OpenFails, Missing
    <3> QED BY <1>1, <3>1 DEF FileOfScan, UsedBelowHighWater
  <2>3. CASE ReadPageFails
    <3>1. at = "read" /\ \E maxRows \in PageSizes : MeetsTorn(maxRows) \/ ~CounterExceeds(maxRows)
      BY <2>3 DEF ReadPageFails
    <3>2. Opened = table /\ (counted # 0 => \A i \in DOMAIN table.rows : i < counted)
      BY <1>1, <2>1, <3>1 DEF WhileUnchanged
    <3>3. \A maxRows \in PageSizes : CounterExceeds(maxRows)
      BY <3>2 DEF CounterExceeds, PageIds, Rest
    <3> QED BY <2>1, <3>1, <3>2, <3>3 DEF MeetsTorn
  <2> QED BY <1>3, <2>2, <2>3
<1>4. CASE Write \/ Drop \/ Create
  BY <1>4 DEF Write, Drop, Create, cursor
<1>5. CASE Open \/ ReadCounter \/ Reopen \/ ReadPage \/ ReadAtEof \/ Close
  BY <1>5 DEF Open, ReadCounter, Reopen, ReadPage, ReadAtEof, Close
<1> QED BY <1>2, <1>3, <1>4, <1>5 DEF ScanNext, Scan

LEMMA ScanInitInv == ScanInit => ScanInv
<1> SUFFICES ASSUME Init, Closed PROVE ScanInv
  BY DEF ScanInit
<1>1. WriterInv
  BY InitInv DEF WriterInv, Closed
<1>2. ScanTypeOK
  <2>1. 0 \in 0..MaxId
    BY StorageAssumption
  <2> QED BY <2>1, EmptyContents DEF Closed, ScanTypeOK
<1> QED BY <1>1, <1>2 DEF ScanInv, Closed, FileOfScan, WhileUnchanged,
     FirstRowsReturned

(* The invariant of a scan beside a writer, whatever calls the writer makes, *)
(* and whichever of them fail or are cut short.                              *)
THEOREM ScanInductive == ScanSpec => []ScanInv
  BY ScanInitInv, ScanNextInv, PTL DEF ScanSpec

(* A scan that throws, with no file left unopened and no read that failed,   *)
(* did so beside a change, or there is no table, or a torn one.              *)
THEOREM ScanThrowsOnlyBesideAChange == ScanSpec => []ThrowsOnlyBesideAChange
<1>1. ScanInit => ThrowsOnlyBesideAChange
  BY DEF ScanInit, Closed, ThrowsOnlyBesideAChange
<1>2. ScanInv /\ ThrowsOnlyBesideAChange /\ [ScanNext]_allVars => ThrowsOnlyBesideAChange'
  BY ThrowsStep
<1> QED BY <1>1, <1>2, ScanInductive, PTL DEF ScanSpec

(* The rows that a scan has returned when it meets the end of its file are   *)
(* those of the file: of one moment, whatever was written between its pages. *)
THEOREM SnapshotScan == ScanSpec => ScanIsASnapshot
<1> DEFINE Snapshot == ~Ended /\ Ended' => got' = (IF file = Live THEN table ELSE file).rows
<1>1. ScanInv /\ [ScanNext]_allVars => Snapshot
  <2> SUFFICES ASSUME ScanInv, [ScanNext]_allVars, ~Ended, Ended' PROVE got' = Opened.rows
    BY DEF Opened
  <2>1. ReadPage
    BY DEF Ended, allVars, cursor, ScanNext, Scan, Open, ReadCounter, Reopen, OpenFails,
       ReadPageFails, AfterFailure, ReadAtEof, Close, Write, Drop, Create
  <2>2. PICK maxRows \in PageSizes :
          /\ got' = [i \in DOMAIN got \cup PageIds(maxRows) |->
                       IF i \in DOMAIN got THEN got[i] ELSE Opened.rows[i]]
          /\ atEof' = MeetsEnd(maxRows)
          /\ at' = IF Filled(maxRows) THEN "read" ELSE "done"
    BY <2>1 DEF ReadPage
  <2>3. MeetsEnd(maxRows)
    BY <2>2 DEF Ended, MeetsEnd
  <2> QED BY <2>1, <2>2, <2>3, PageRead DEF ReadPage
<1> QED BY <1>1, ScanInductive, PTL DEF ScanSpec, ScanIsASnapshot
=============================================================================
