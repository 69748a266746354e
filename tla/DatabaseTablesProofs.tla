------------------------ MODULE DatabaseTablesProofs ------------------------
(***************************************************************************)
(* Proofs, for every set of managers, names and schemas, of the invariants *)
(* of DatabaseTables and of its refinement of TableRegistry.               *)
(***************************************************************************)
EXTENDS DatabaseTables, FormatProofs

(* Every catalog file that is ever written can be loaded, and as the schema  *)
(* it was written for.                                                       *)
LEMMA NewCatalog ==
  ASSUME NEW n \in Requested, NEW schema \in NewSchemas
  PROVE  LET file == writeSchema(n, schema)
         IN  /\ file \in CatalogFiles(n) /\ file # None
             /\ readSchema(file) = schema /\ IsCatalog(file, n)
<1>1. schema \in Schemas
  BY DEF Schemas
<1>2. schema \in Seq(ColumnValues) /\ IsSchema(schema)
  BY <1>1, TablesAssumption
<1>3. writeSchema(n, schema) \in CatalogFiles(n)
  BY DEF CatalogFiles
<1> QED BY <1>2, <1>3, SchemaReadsBack, NoneAssumption

LEMMA OldCatalogLoads ==
  ASSUME NEW n \in Requested, NEW schema \in OldSchemas
  PROVE  LET file == OldCatalog(n, schema)
         IN  /\ file \in CatalogFiles(n) /\ file # None
             /\ readSchema(file) = schema /\ IsCatalog(file, n)
<1>1. schema \in Schemas
  BY DEF Schemas
<1>2. schema \in Seq(ColumnValues) /\ IsSchema(schema)
  BY <1>1, TablesAssumption
<1>3. OldCatalog(n, schema) \in CatalogFiles(n)
  BY DEF CatalogFiles
<1> QED BY <1>2, <1>3, OldSchemaReadsBack, NoneAssumption, TablesAssumption

LEMMA CatalogLoads ==
  ASSUME NEW n \in Requested, NEW file \in CatalogFiles(n)
  PROVE  /\ readSchema(file) \in Schemas /\ readSchema(file) # None
         /\ IsCatalog(file, n) /\ file # None
<1>1. CASE \E schema \in NewSchemas : file = writeSchema(n, schema)
  BY <1>1, NewCatalog, NoneAssumption DEF Schemas
<1>2. CASE \E schema \in OldSchemas : file = OldCatalog(n, schema)
  BY <1>2, OldCatalogLoads, NoneAssumption DEF Schemas
<1> QED BY <1>1, <1>2 DEF CatalogFiles

(* A table is registered when it has a catalog file. *)
LEMMA RegisteredFiles ==
  ASSUME CatalogsInPlace, NEW n \in Requested
  PROVE  /\ registered[n] \in Schemas \cup {None}
         /\ registered[n] = None <=> catalogFile[n] = None
  BY CatalogLoads DEF CatalogsInPlace, registered

LEMMA Loadable == CatalogsInPlace => CanLoad
  BY CatalogLoads DEF CatalogsInPlace, CanLoad

(* A new table file. *)
LEMMA NewTableFile ==
  ASSUME NEW schema \in NewSchemas
  PROVE  LET file == TableFile(HeaderOf(schema), {}, FALSE)
         IN  /\ file \in TableFiles /\ file # None /\ file # Partial
             /\ file.columns = HeaderOf(schema) /\ file.rows = {}
<1>1. schema \in Schemas /\ {} \in SUBSET Schemas /\ FALSE \in BOOLEAN
  BY DEF Schemas
<1>2. TableFile(HeaderOf(schema), {}, FALSE) \in TableFiles
  BY <1>1 DEF TableFiles, TableFile
<1> QED BY <1>2, NoneAssumption DEF TableFile

(* The calls have the fields that they are read by. *)
LEMMA CallFields ==
  ASSUME NEW c \in Calls
  PROVE  /\ c.name \in Requested /\ c # NoCall
         /\ c.kind \in {"create", "drop"}
         /\ c.kind = "create" => c.schema \in NewSchemas
         /\ c.kind = "drop" => c.schema = None
  BY DEF Calls, NoCall

-----------------------------------------------------------------------------
(* The inductive invariant. *)

LEMMA InitInv == Init => IInv
<1> SUFFICES ASSUME Init PROVE IInv
  OBVIOUS
<1>1. PICK old \in [Requested -> OldSchemas \cup {None}] :
        /\ \A n \in Requested \ TableNames : old[n] = None
        /\ tableFile = [n \in Requested |->
                         IF old[n] = None THEN None
                         ELSE TableFile(HeaderOf(old[n]), {old[n]}, TRUE)]
        /\ catalogFile = [n \in Requested |->
                           IF old[n] = None THEN None ELSE OldCatalog(n, old[n])]
  BY DEF Init
<1>2. ASSUME NEW n \in Requested
      PROVE  IF old[n] = None
             THEN tableFile[n] = None /\ catalogFile[n] = None /\ registered[n] = None
             ELSE /\ n \in TableNames
                  /\ catalogFile[n] \in CatalogFiles(n) /\ registered[n] = old[n]
                  /\ tableFile[n] \in TableFiles /\ tableFile[n] \notin {None, Partial}
                  /\ tableFile[n].columns = HeaderOf(registered[n])
                  /\ tableFile[n].rows \subseteq {registered[n]} /\ tableFile[n].legacy
  <2>1. CASE old[n] = None
    BY <1>1, <2>1 DEF registered
  <2>2. CASE old[n] # None
    <3>1. old[n] \in OldSchemas /\ old[n] \in Schemas /\ {old[n]} \in SUBSET Schemas
      BY <2>2 DEF Schemas
    <3>2. /\ catalogFile[n] = OldCatalog(n, old[n]) /\ n \in TableNames
          /\ tableFile[n] = TableFile(HeaderOf(old[n]), {old[n]}, TRUE)
      BY <1>1, <2>2
    <3>3. catalogFile[n] \in CatalogFiles(n) /\ registered[n] = old[n]
      BY <3>1, <3>2, OldCatalogLoads DEF registered
    <3>4. tableFile[n] \in TableFiles
      BY <3>1, <3>2 DEF TableFiles, TableFile
    <3>5. /\ tableFile[n].columns = HeaderOf(old[n]) /\ tableFile[n].rows = {old[n]}
          /\ tableFile[n].legacy
      BY <3>2 DEF TableFile
    <3> QED BY <2>2, <3>2, <3>3, <3>4, <3>5, NoneAssumption
  <2> QED BY <2>1, <2>2
<1>3. /\ counterFile = [n \in Requested |-> FALSE]
      /\ tables = [m \in Managers |-> registered]
      /\ pc = "idle" /\ op = NoCall /\ caller = None /\ reply = "none" /\ mine = FALSE
      /\ disturbed = {} /\ elsewhere = [m \in Managers |-> {}] /\ clashed = {}
  BY DEF Init
<1>4. CatalogsInPlace
  BY <1>2 DEF CatalogsInPlace
<1>5. TypeOK
  <2>1. registered \in [Requested -> Schemas \cup {None}]
    BY <1>4, RegisteredFiles DEF registered
  <2>2. tableFile \in [Requested -> TableFiles \cup {None, Partial}]
    BY <1>1, <1>2
  <2>3. catalogFile \in [Requested -> {None} \cup UNION {CatalogFiles(n) : n \in TableNames}]
    BY <1>1, <1>2
  <2>4. tables \in [Managers -> [Requested -> Schemas \cup {None}]]
    BY <1>3, <2>1
  <2> QED BY <1>3, <2>1, <2>2, <2>3, <2>4 DEF TypeOK, Points
<1>6. CallInProgress /\ StorageOfCall
  BY <1>3 DEF CallInProgress, StorageOfCall, CreatePoints, DropPoints
<1>7. ManagersInStep
  BY <1>3 DEF ManagersInStep, CreatePoints
<1>8. StorageInStep
  BY <1>2, <1>3 DEF StorageInStep, Undisturbed, CreatePoints
<1>9. OwnStorage
  BY <1>2, <1>3 DEF OwnStorage
<1> QED BY <1>4, <1>5, <1>6, <1>7, <1>8, <1>9 DEF IInv

(* A step that leaves the catalog files alone leaves what a load finds.      *)
LEMMA SameCatalogs ==
  ASSUME CatalogsInPlace, UNCHANGED catalogFile
  PROVE  registered' = registered /\ CatalogsInPlace'
  BY DEF registered, CatalogsInPlace

LEMMA CallInv == IInv /\ Call => IInv'
<1> SUFFICES ASSUME IInv, Call PROVE IInv'
  OBVIOUS
<1> USE DEF IInv
<1>1. /\ registered' = registered /\ CatalogsInPlace'
      /\ UNCHANGED <<tableFile, counterFile, catalogFile, tables, mine>>
      /\ UNCHANGED <<disturbed, elsewhere, clashed>>
      /\ pc = "idle" /\ pc' = "check" /\ op' \in Calls /\ caller' \in Managers /\ reply' = "none"
  BY SameCatalogs DEF Call, files, history
<1>2. TypeOK'
  BY <1>1 DEF TypeOK, Points, CleanPoints
<1>3. CallInProgress'
  BY <1>1, CallFields DEF CallInProgress, CreatePoints, DropPoints
<1>4. StorageOfCall'
  BY <1>1 DEF StorageOfCall
<1>5. ManagersInStep'
  BY <1>1 DEF ManagersInStep, Unwritten, CreatePoints
<1>6. StorageInStep'
  BY <1>1 DEF StorageInStep, Undisturbed, CreatePoints
<1>7. OwnStorage'
  BY <1>1 DEF OwnStorage, Unwritten, hasTable
<1> QED BY <1>1, <1>2, <1>3, <1>4, <1>5, <1>6, <1>7

(* The checks that a call passes before it touches a file. *)
LEMMA CheckInv == IInv /\ (CheckCreate \/ CheckDrop) => IInv'
<1> SUFFICES ASSUME IInv, CheckCreate \/ CheckDrop PROVE IInv'
  OBVIOUS
<1> USE DEF IInv
<1>1. /\ registered' = registered /\ CatalogsInPlace'
      /\ UNCHANGED <<tableFile, counterFile, catalogFile, tables, mine>>
      /\ UNCHANGED <<disturbed, elsewhere, clashed, op, caller, reply>>
      /\ pc = "check"
      /\ \/ /\ pc' = "createFile" /\ op.kind = "create" /\ op.name \in TableNames
            /\ ~hasTable(caller, op.name) /\ NoStorage(op.name)
         \/ pc' = "dropFile" /\ op.kind = "drop"
  BY SameCatalogs DEF CheckCreate, CheckDrop, GoTo, validateString, files, history
<1>2. op.name \in Requested /\ caller \in Managers /\ op \in Calls
  BY <1>1, CallFields DEF CallInProgress
<1>3. TypeOK'
  BY <1>1 DEF TypeOK, Points, CleanPoints
<1>4. CallInProgress'
  BY <1>1 DEF CallInProgress, CreatePoints, DropPoints
<1>5. StorageOfCall'
  BY <1>1 DEF StorageOfCall, NoStorage
<1>6. ManagersInStep'
  BY <1>1, <1>2 DEF ManagersInStep, Unwritten, CreatePoints, hasTable
<1>7. StorageInStep'
  BY <1>1, <1>2 DEF StorageInStep, Undisturbed, CreatePoints, NoStorage
<1>8. OwnStorage'
  BY <1>1 DEF OwnStorage, Unwritten, hasTable
<1> QED BY <1>1, <1>3, <1>4, <1>5, <1>6, <1>7, <1>8

LEMMA CloseHeaderInv == IInv /\ CloseHeader => IInv'
<1> SUFFICES ASSUME IInv, CloseHeader PROVE IInv'
  OBVIOUS
<1> USE DEF IInv
<1>1. /\ registered' = registered /\ CatalogsInPlace'
      /\ UNCHANGED <<tableFile, counterFile, catalogFile, tables, mine>>
      /\ UNCHANGED <<disturbed, elsewhere, clashed, op, caller, reply>>
      /\ pc = "closeHeader" /\ pc' = "createCounter" /\ tableFile[op.name] # Partial
  BY SameCatalogs DEF CloseHeader, HeaderWritten, GoTo, files, history
<1>2. TypeOK'
  BY <1>1 DEF TypeOK, Points
<1>3. CallInProgress'
  BY <1>1 DEF CallInProgress, CreatePoints, DropPoints
<1>4. StorageOfCall'
  BY <1>1 DEF StorageOfCall
<1>5. ManagersInStep'
  BY <1>1 DEF ManagersInStep, Unwritten, CreatePoints
<1>6. StorageInStep'
  BY <1>1 DEF StorageInStep, Undisturbed, CreatePoints
<1>7. OwnStorage'
  BY <1>1 DEF OwnStorage, Unwritten, hasTable
<1> QED BY <1>1, <1>2, <1>3, <1>4, <1>5, <1>6, <1>7

(* The end of a call that leaves the catalogs alone: the names it has        *)
(* disturbed are known, and its storage is in step or disturbed.             *)
LEMMA FinishInv ==
  ASSUME IInv, NEW status \in {"none", "ok", "error"}, Finish(status), pc # "idle",
         pc # "writeCatalog",
         UNCHANGED <<catalogFile, tables, elsewhere, clashed>>,
         tableFile' \in [Requested -> TableFiles \cup {None, Partial}],
         counterFile' \in [Requested -> BOOLEAN],
         disturbed' \in SUBSET Requested, disturbed \subseteq disturbed',
         \A n \in Requested : n # op.name => /\ tableFile'[n] = tableFile[n]
                                            /\ counterFile'[n] = counterFile[n],
         tableFile'[op.name] \in {tableFile[op.name], None},
         \A n \in Requested : n = op.name => n \in disturbed' \/ Undisturbed(n)'
  PROVE  IInv'
<1> USE DEF IInv
<1>1. /\ registered' = registered /\ CatalogsInPlace'
      /\ pc' = "idle" /\ op' = NoCall /\ caller' = None /\ ~mine' /\ reply' = status
  BY SameCatalogs DEF Finish
<1>2. op \in Calls /\ op.name \in Requested
  BY CallFields DEF CallInProgress
<1>3. TypeOK'
  BY <1>1 DEF TypeOK, Points, Finish
<1>4. CallInProgress'
  BY <1>1 DEF CallInProgress, NoCall, CreatePoints, DropPoints
<1>5. StorageOfCall'
  BY <1>1 DEF StorageOfCall
<1>6. ManagersInStep'
  BY <1>1 DEF ManagersInStep, Unwritten, CreatePoints
<1>7. StorageInStep'
  <2> SUFFICES ASSUME NEW n \in Requested, n \notin disturbed' PROVE Undisturbed(n)'
    BY <1>1 DEF StorageInStep, CreatePoints
  <2>1. CASE n = op.name
    BY <2>1
  <2>2. CASE n # op.name
    <3>1. Undisturbed(n)
      BY <2>2 DEF StorageInStep
    <3>2. tableFile'[n] = tableFile[n] /\ counterFile'[n] = counterFile[n]
      BY <2>2
    <3> QED BY <1>1, <3>1, <3>2 DEF Undisturbed
  <2> QED BY <2>1, <2>2
<1>8. OwnStorage'
  BY <1>1, <1>2 DEF OwnStorage, Unwritten, hasTable
<1> QED BY <1>1, <1>3, <1>4, <1>5, <1>6, <1>7, <1>8

LEMMA ReturnInv == IInv /\ Return => IInv'
<1> SUFFICES ASSUME IInv, Return PROVE IInv'
  OBVIOUS
<1>1. /\ pc = "return" /\ Finish("ok")
      /\ UNCHANGED <<tableFile, counterFile, catalogFile, tables>>
      /\ UNCHANGED <<disturbed, elsewhere, clashed>>
  BY DEF Return, files, history
<1>2. TypeOK /\ CatalogsInPlace /\ StorageInStep
  BY DEF IInv
<1>3. registered' = registered
  BY <1>1, <1>2, SameCatalogs
<1>4. ASSUME NEW n \in Requested, n = op.name
      PROVE  n \in disturbed' \/ Undisturbed(n)'
  <2>1. n \in disturbed \/ Undisturbed(n)
    BY <1>1, <1>2 DEF StorageInStep, CreatePoints
  <2> QED BY <1>1, <1>3, <2>1 DEF Undisturbed
<1> QED BY <1>1, <1>2, <1>4, FinishInv DEF TypeOK

(* An error leaves the storage as it was where nothing has been done, and    *)
(* the name among the disturbed ones elsewhere.                              *)
LEMMA ThrowInv == IInv /\ Throw => IInv'
<1> SUFFICES ASSUME IInv, Throw PROVE IInv'
  OBVIOUS
<1>1. /\ pc \in CleanPoints \cup DirtyPoints /\ Finish("error")
      /\ UNCHANGED <<tableFile, counterFile, catalogFile, tables, elsewhere, clashed>>
      /\ disturbed' = IF pc \in DirtyPoints THEN disturbed \cup {op.name} ELSE disturbed
  BY DEF Throw, files
<1>2. /\ TypeOK /\ CatalogsInPlace /\ StorageInStep
      /\ StorageOfCall /\ CallInProgress
  BY DEF IInv
<1>3. registered' = registered
  BY <1>1, <1>2, SameCatalogs
<1>4. op.name \in Requested /\ pc # "idle" /\ pc # "writeCatalog"
  BY <1>1, <1>2, CallFields DEF CallInProgress, CleanPoints, DirtyPoints
<1>5. ASSUME NEW n \in Requested, n = op.name
      PROVE  n \in disturbed' \/ Undisturbed(n)'
  <2>1. CASE pc \in DirtyPoints
    BY <1>1, <1>5, <2>1
  <2>2. CASE pc = "createFile"
    <3>1. n \in disturbed \/ Undisturbed(n)
      BY <1>2, <1>5, <2>2 DEF StorageInStep, StorageOfCall, NoStorage, Undisturbed, CreatePoints
    <3> QED BY <1>1, <1>3, <2>2, <3>1 DEF Undisturbed, DirtyPoints
  <2>3. CASE pc \in {"check", "dropFile"}
    <3>1. n \in disturbed \/ Undisturbed(n)
      BY <1>2, <2>3 DEF StorageInStep, CreatePoints
    <3> QED BY <1>1, <1>3, <2>3, <3>1 DEF Undisturbed, DirtyPoints
  <2> QED BY <1>1, <2>1, <2>2, <2>3 DEF CleanPoints
<1>6. disturbed' \in SUBSET Requested /\ disturbed \subseteq disturbed'
  BY <1>1, <1>2, <1>4 DEF TypeOK
<1> QED BY <1>1, <1>2, <1>4, <1>5, <1>6, FinishInv DEF TypeOK

(* Without a counter the create is undone, or its name is disturbed. *)
LEMMA CreateCounterFailsInv == IInv /\ CreateCounterFails => IInv'
<1> SUFFICES ASSUME IInv, CreateCounterFails PROVE IInv'
  OBVIOUS
<1>1. /\ pc = "createCounter" /\ Finish("error")
      /\ UNCHANGED <<counterFile, catalogFile, tables, elsewhere, clashed>>
      /\ \/ tableFile' = [tableFile EXCEPT ![op.name] = None] /\ disturbed' = disturbed
         \/ disturbed' = disturbed \cup {op.name} /\ tableFile' = tableFile
  BY DEF CreateCounterFails
<1>2. /\ TypeOK /\ CatalogsInPlace /\ StorageInStep
      /\ StorageOfCall /\ CallInProgress
  BY DEF IInv
<1>3. registered' = registered
  BY <1>1, <1>2, SameCatalogs
<1>4. op.name \in Requested
  BY <1>1, <1>2, CallFields DEF CallInProgress
<1>5. ASSUME NEW n \in Requested, n = op.name
      PROVE  n \in disturbed' \/ Undisturbed(n)'
  <2>1. ~counterFile[n] /\ ~tableFile[n].legacy /\ tableFile[n] # None
    <3>1. tableFile[n] = TableFile(HeaderOf(op.schema), {}, FALSE) /\ ~counterFile[n]
      BY <1>1, <1>2, <1>5 DEF StorageOfCall
    <3>2. op.schema \in NewSchemas
      BY <1>1, <1>2, CallFields DEF CallInProgress, CreatePoints
    <3> QED BY <3>1, <3>2, NewTableFile DEF TableFile
  <2>2. CASE n \notin disturbed /\ tableFile' = [tableFile EXCEPT ![op.name] = None]
    <3>1. registered[n] = None
      BY <1>1, <1>2, <2>1, <2>2 DEF StorageInStep, Undisturbed, CreatePoints
    <3>2. tableFile'[n] = None
      BY <1>2, <1>5, <2>2 DEF TypeOK
    <3>3. ~counterFile'[n]
      BY <1>1, <2>1
    <3> QED BY <1>3, <3>1, <3>2, <3>3 DEF Undisturbed
  <2> QED BY <1>1, <1>5, <2>2
<1>6. disturbed' \in SUBSET Requested /\ disturbed \subseteq disturbed'
  BY <1>1, <1>2, <1>4 DEF TypeOK
<1>7. /\ tableFile' \in [Requested -> TableFiles \cup {None, Partial}]
      /\ tableFile'[op.name] \in {tableFile[op.name], None}
      /\ \A n \in Requested : n # op.name => tableFile'[n] = tableFile[n]
  BY <1>1, <1>2, <1>4 DEF TypeOK
<1> QED BY <1>1, <1>2, <1>4, <1>5, <1>6, <1>7, FinishInv DEF TypeOK

LEMMA RollbackCounterInv == IInv /\ RollbackCounter => IInv'
<1> SUFFICES ASSUME IInv, RollbackCounter PROVE IInv'
  OBVIOUS
<1>1. /\ pc = "rollbackCounter" /\ Finish("error")
      /\ UNCHANGED <<tableFile, catalogFile, tables, disturbed, elsewhere, clashed>>
      /\ counterFile' = [counterFile EXCEPT ![op.name] = FALSE]
  BY DEF RollbackCounter, history
<1>2. /\ TypeOK /\ CatalogsInPlace /\ StorageInStep
      /\ StorageOfCall /\ CallInProgress
  BY DEF IInv
<1>3. registered' = registered
  BY <1>1, <1>2, SameCatalogs
<1>4. op.name \in Requested
  BY <1>1, <1>2, CallFields DEF CallInProgress
<1>5. ASSUME NEW n \in Requested, n = op.name
      PROVE  n \in disturbed' \/ Undisturbed(n)'
  <2>1. tableFile[n] = None /\ ~counterFile'[n]
    BY <1>1, <1>2, <1>5 DEF StorageOfCall, TypeOK
  <2>2. n \in disturbed \/ registered[n] = None
    BY <1>1, <1>2, <2>1 DEF StorageInStep, Undisturbed, CreatePoints
  <2> QED BY <1>1, <1>3, <2>1, <2>2 DEF Undisturbed
<1>6. /\ counterFile' \in [Requested -> BOOLEAN]
      /\ \A n \in Requested : n # op.name => counterFile'[n] = counterFile[n]
  BY <1>1, <1>2, <1>4 DEF TypeOK
<1> QED BY <1>1, <1>2, <1>4, <1>5, <1>6, FinishInv DEF TypeOK

(* A process that dies leaves the files, and the others' catalogs.           *)
LEMMA CrashInv == ASSUME NEW m \in Managers PROVE IInv /\ Crash(m) => IInv'
<1> SUFFICES ASSUME IInv, Crash(m) PROVE IInv'
  OBVIOUS
<1>1. /\ UNCHANGED <<tableFile, counterFile, catalogFile, clashed>>
      /\ tables' = [tables EXCEPT ![m] = registered]
      /\ elsewhere' = [elsewhere EXCEPT ![m] = {}]
      /\ \/ /\ m = caller /\ Finish("none")
            /\ disturbed' = IF pc \in {"check", "return"} THEN disturbed
                            ELSE disturbed \cup {op.name}
         \/ m # caller /\ UNCHANGED <<pc, op, caller, reply, mine, disturbed>>
  BY DEF Crash, call, files
<1>2. /\ TypeOK /\ CatalogsInPlace /\ CallInProgress /\ StorageOfCall
      /\ ManagersInStep /\ StorageInStep /\ OwnStorage
  BY DEF IInv
<1>3. registered' = registered /\ CatalogsInPlace'
  BY <1>1, <1>2, SameCatalogs
<1>4. /\ tables' \in [Managers -> [Requested -> Schemas \cup {None}]]
      /\ elsewhere' \in [Managers -> SUBSET Requested]
      /\ tables'[m] = registered
      /\ \A k \in Managers \ {m} : tables'[k] = tables[k] /\ elsewhere'[k] = elsewhere[k]
  BY <1>1, <1>2 DEF TypeOK
<1>5. CASE m = caller
  <2>1. /\ pc # "idle" /\ op.name \in Requested
        /\ pc' = "idle" /\ op' = NoCall /\ caller' = None /\ ~mine' /\ reply' = "none"
    BY <1>1, <1>2, <1>5, CallFields, NoneAssumption DEF CallInProgress, Finish
  <2>2. disturbed' = IF pc \in {"check", "return"} THEN disturbed ELSE disturbed \cup {op.name}
    BY <1>1, <1>5
  <2>3. TypeOK'
    BY <1>1, <1>2, <1>3, <1>4, <1>5, <2>1, <2>2 DEF TypeOK, Points, Finish
  <2>4. CallInProgress' /\ StorageOfCall'
    BY <2>1 DEF CallInProgress, NoCall, CreatePoints, DropPoints, StorageOfCall
  <2>5. ManagersInStep'
    BY <1>2, <1>3, <1>4, <1>5, <2>1 DEF ManagersInStep, Unwritten, CreatePoints
  <2>6. StorageInStep'
    <3> SUFFICES ASSUME NEW n \in Requested, n \notin disturbed' PROVE Undisturbed(n)'
      BY <2>1 DEF StorageInStep, CreatePoints
    <3>1. Undisturbed(n)
      BY <1>2, <2>2 DEF StorageInStep, CreatePoints
    <3> QED BY <1>1, <1>3, <3>1 DEF Undisturbed
  <2>7. OwnStorage'
    BY <1>1, <1>2, <1>3, <1>4, <1>5, <2>1 DEF OwnStorage, Unwritten, hasTable
  <2> QED BY <1>3, <2>3, <2>4, <2>5, <2>6, <2>7 DEF IInv
<1>6. CASE m # caller
  <2>1. UNCHANGED <<pc, op, caller, reply, mine, disturbed>>
    BY <1>1, <1>6
  <2>2. TypeOK'
    BY <1>1, <1>2, <1>3, <1>4, <2>1 DEF TypeOK
  <2>3. CallInProgress' /\ StorageOfCall'
    BY <1>1, <1>2, <2>1 DEF CallInProgress, StorageOfCall, NoStorage
  <2>4. ManagersInStep'
    <3>1. pc \in CreatePoints => caller \in Managers \ {m}
      BY <1>2, <1>6 DEF CallInProgress, CreatePoints
    <3>2. pc = "writeCatalog" => pc \in CreatePoints
      BY DEF CreatePoints
    <3> QED BY <1>2, <1>3, <1>4, <2>1, <3>1, <3>2 DEF ManagersInStep, Unwritten
  <2>5. StorageInStep'
    BY <1>1, <1>2, <1>3, <2>1 DEF StorageInStep, Undisturbed
  <2>6. OwnStorage'
    BY <1>1, <1>2, <1>3, <1>4, <2>1 DEF OwnStorage, Unwritten, hasTable
  <2> QED BY <1>3, <2>2, <2>3, <2>4, <2>5, <2>6 DEF IInv
<1> QED BY <1>5, <1>6

(* Storage is created where there is none: nobody has the table, or the name *)
(* is among the clashed ones.                                                *)
LEMMA CreateFileInv == IInv /\ CreateFile => IInv'
<1> SUFFICES ASSUME IInv, CreateFile PROVE IInv'
  OBVIOUS
<1>1. /\ pc = "createFile" /\ pc' = "writeHeader" /\ mine' = TRUE
      /\ tableFile' = [tableFile EXCEPT ![op.name] = Partial]
      /\ clashed' = IF registered[op.name] # None \/ \E m \in Managers : hasTable(m, op.name)
                    THEN clashed \cup {op.name} ELSE clashed
      /\ UNCHANGED <<counterFile, catalogFile, tables, op, caller, reply, disturbed, elsewhere>>
  BY DEF CreateFile
<1>2. /\ TypeOK /\ CatalogsInPlace /\ CallInProgress /\ StorageOfCall
      /\ ManagersInStep /\ StorageInStep /\ OwnStorage
  BY DEF IInv
<1>3. registered' = registered /\ CatalogsInPlace'
  BY <1>1, <1>2, SameCatalogs
<1>4. op.name \in Requested /\ ~counterFile[op.name] /\ tableFile'[op.name] = Partial
  BY <1>1, <1>2, CallFields DEF CallInProgress, StorageOfCall, NoStorage, TypeOK
<1>5. \A n \in Requested : n # op.name => tableFile'[n] = tableFile[n]
  BY <1>1, <1>2 DEF TypeOK
<1>6. TypeOK'
  <2>1. tableFile' \in [Requested -> TableFiles \cup {None, Partial}]
    BY <1>1, <1>2 DEF TypeOK
  <2> QED BY <1>1, <1>2, <1>3, <1>4, <2>1 DEF TypeOK, Points, DirtyPoints
<1>7. CallInProgress'
  BY <1>1, <1>2 DEF CallInProgress, CreatePoints, DropPoints
<1>8. StorageOfCall'
  BY <1>1, <1>4 DEF StorageOfCall
<1>9. ManagersInStep'
  BY <1>1, <1>2, <1>3 DEF ManagersInStep, Unwritten, CreatePoints
<1>10. StorageInStep'
  BY <1>1, <1>2, <1>3, <1>5 DEF StorageInStep, Undisturbed, CreatePoints
<1>11. OwnStorage'
  BY <1>1, <1>2, <1>3, <1>4, <1>5 DEF OwnStorage, Unwritten, hasTable
<1> QED BY <1>3, <1>6, <1>7, <1>8, <1>9, <1>10, <1>11 DEF IInv

LEMMA WriteHeaderInv == IInv /\ WriteHeader => IInv'
<1> SUFFICES ASSUME IInv, WriteHeader PROVE IInv'
  OBVIOUS
<1>1. PICK header \in {Partial, TableFile(HeaderOf(op.schema), {}, FALSE)} :
        tableFile' = [tableFile EXCEPT ![op.name] = header]
  BY DEF WriteHeader
<1>2. /\ pc = "writeHeader" /\ pc' = "closeHeader"
      /\ UNCHANGED <<counterFile, catalogFile, tables, op, caller, reply, mine>>
      /\ UNCHANGED <<disturbed, elsewhere, clashed>>
  BY DEF WriteHeader, GoTo, history
<1>3. /\ TypeOK /\ CatalogsInPlace /\ CallInProgress /\ StorageOfCall
      /\ ManagersInStep /\ StorageInStep /\ OwnStorage
  BY DEF IInv
<1>4. registered' = registered /\ CatalogsInPlace'
  BY <1>2, <1>3, SameCatalogs
<1>5. /\ op.name \in Requested /\ op.schema \in NewSchemas
      /\ tableFile[op.name] = Partial /\ ~counterFile[op.name]
  BY <1>2, <1>3, CallFields DEF CallInProgress, StorageOfCall, CreatePoints
<1>6. /\ tableFile'[op.name] = header
      /\ \A n \in Requested : n # op.name => tableFile'[n] = tableFile[n]
  BY <1>1, <1>3, <1>5 DEF TypeOK
<1>7. TypeOK'
  <2>1. header \in TableFiles \cup {None, Partial}
    BY <1>5, NewTableFile
  <2>2. tableFile' \in [Requested -> TableFiles \cup {None, Partial}]
    BY <1>1, <1>3, <2>1 DEF TypeOK
  <2> QED BY <1>2, <1>3, <1>4, <2>2 DEF TypeOK, Points, DirtyPoints
<1>8. CallInProgress'
  BY <1>2, <1>3 DEF CallInProgress, CreatePoints, DropPoints
<1>9. StorageOfCall'
  BY <1>2, <1>5, <1>6 DEF StorageOfCall
<1>10. ManagersInStep'
  BY <1>2, <1>3, <1>4 DEF ManagersInStep, Unwritten, CreatePoints
<1>11. StorageInStep'
  BY <1>2, <1>3, <1>4, <1>6 DEF StorageInStep, Undisturbed, CreatePoints
<1>12. OwnStorage'
  <2> SUFFICES ASSUME NEW n \in Requested, n \notin clashed PROVE
        /\ registered[n] # None /\ tableFile'[n] # None =>
             /\ tableFile'[n] # Partial
             /\ tableFile'[n].columns = HeaderOf(registered[n])
             /\ tableFile'[n].rows \subseteq {registered[n]}
        /\ tableFile'[n] # None =>
             \A m \in Managers : hasTable(m, n) /\ ~Unwritten(m, n) =>
                                   tables[m][n] = registered[n]
        /\ n = op.name => registered[n] = None
    BY <1>2, <1>4 DEF OwnStorage, Unwritten, hasTable
  <2>1. CASE n = op.name
    BY <1>2, <1>3, <1>5, <2>1, NoneAssumption DEF OwnStorage
  <2>2. CASE n # op.name
    BY <1>3, <1>6, <2>2 DEF OwnStorage
  <2> QED BY <2>1, <2>2
<1> QED BY <1>4, <1>7, <1>8, <1>9, <1>10, <1>11, <1>12 DEF IInv

LEMMA CreateCounterInv == IInv /\ CreateCounter => IInv'
<1> SUFFICES ASSUME IInv, CreateCounter PROVE IInv'
  OBVIOUS
<1>1. /\ pc = "createCounter" /\ pc' = "register"
      /\ counterFile' = [counterFile EXCEPT ![op.name] = TRUE]
      /\ UNCHANGED <<tableFile, catalogFile, tables, op, caller, reply, mine>>
      /\ UNCHANGED <<disturbed, elsewhere, clashed>>
  BY DEF CreateCounter, GoTo, history
<1>2. /\ TypeOK /\ CatalogsInPlace /\ CallInProgress /\ StorageOfCall
      /\ ManagersInStep /\ StorageInStep /\ OwnStorage
  BY DEF IInv
<1>3. registered' = registered /\ CatalogsInPlace'
  BY <1>1, <1>2, SameCatalogs
<1>4. /\ op.name \in Requested /\ counterFile'[op.name]
      /\ \A n \in Requested : n # op.name => counterFile'[n] = counterFile[n]
      /\ counterFile' \in [Requested -> BOOLEAN]
  BY <1>1, <1>2, CallFields DEF CallInProgress, TypeOK
<1>5. TypeOK'
  BY <1>1, <1>2, <1>3, <1>4 DEF TypeOK, Points
<1>6. CallInProgress' /\ StorageOfCall'
  BY <1>1, <1>2, <1>4 DEF CallInProgress, StorageOfCall, CreatePoints, DropPoints
<1>7. ManagersInStep'
  BY <1>1, <1>2, <1>3 DEF ManagersInStep, Unwritten, CreatePoints
<1>8. StorageInStep'
  BY <1>1, <1>2, <1>3, <1>4 DEF StorageInStep, Undisturbed, CreatePoints
<1>9. OwnStorage'
  BY <1>1, <1>2, <1>3 DEF OwnStorage, Unwritten, hasTable
<1> QED BY <1>3, <1>5, <1>6, <1>7, <1>8, <1>9 DEF IInv

(* One entry of one manager's catalog changes. *)
LEMMA OneEntry ==
  ASSUME TypeOK, NEW m \in Managers, NEW n \in Requested, NEW entry \in Schemas \cup {None},
         tables' = [tables EXCEPT ![m][n] = entry]
  PROVE  /\ tables' \in [Managers -> [Requested -> Schemas \cup {None}]]
         /\ tables'[m][n] = entry
         /\ \A k \in Managers, r \in Requested :
              ~(k = m /\ r = n) => tables'[k][r] = tables[k][r]
<1>1. tables \in [Managers -> [Requested -> Schemas \cup {None}]]
  BY DEF TypeOK
<1>2. /\ tables' = [tables EXCEPT ![m] = [tables[m] EXCEPT ![n] = entry]]
      /\ tables[m] \in [Requested -> Schemas \cup {None}]
  BY <1>1
<1>3. [tables[m] EXCEPT ![n] = entry] \in [Requested -> Schemas \cup {None}]
  BY <1>2
<1>4. tables' \in [Managers -> [Requested -> Schemas \cup {None}]]
  BY <1>1, <1>2, <1>3
<1>5. tables'[m] = [tables[m] EXCEPT ![n] = entry]
  BY <1>1, <1>2
<1>6. \A k \in Managers : k # m => tables'[k] = tables[k]
  BY <1>1, <1>2
<1> QED BY <1>2, <1>4, <1>5, <1>6

(* The entry goes into memory before its file is written, and out again when *)
(* that fails.                                                               *)
LEMMA RegisterInv == IInv /\ (Register \/ WriteCatalogFails) => IInv'
<1> SUFFICES ASSUME IInv, Register \/ WriteCatalogFails PROVE IInv'
  OBVIOUS
<1>1. /\ UNCHANGED <<tableFile, counterFile, catalogFile, op, caller, reply, mine>>
      /\ UNCHANGED <<disturbed, elsewhere, clashed>>
      /\ \/ /\ pc = "register" /\ pc' = "writeCatalog"
            /\ tables' = [tables EXCEPT ![caller][op.name] = op.schema]
         \/ /\ pc = "writeCatalog" /\ pc' = "rollbackFile"
            /\ tables' = [tables EXCEPT ![caller][op.name] = None]
  BY DEF Register, WriteCatalogFails, Unregistered, GoTo, files, history
<1>2. /\ TypeOK /\ CatalogsInPlace /\ CallInProgress /\ StorageOfCall
      /\ ManagersInStep /\ StorageInStep /\ OwnStorage
  BY DEF IInv
<1>3. registered' = registered /\ CatalogsInPlace'
  BY <1>1, <1>2, SameCatalogs
<1>4. op.name \in Requested /\ caller \in Managers /\ op.schema \in Schemas
  BY <1>1, <1>2, CallFields DEF CallInProgress, CreatePoints, Schemas
<1>5. /\ tables' \in [Managers -> [Requested -> Schemas \cup {None}]]
      /\ \A m \in Managers, n \in Requested :
           ~(m = caller /\ n = op.name) => tables'[m][n] = tables[m][n]
      /\ pc = "register" => tables'[caller][op.name] = op.schema
      /\ pc = "writeCatalog" => tables'[caller][op.name] = None
  BY <1>1, <1>2, <1>4, OneEntry
<1>6. TypeOK'
  BY <1>1, <1>2, <1>3, <1>5 DEF TypeOK, Points, DirtyPoints
<1>7. CallInProgress' /\ StorageOfCall'
  BY <1>1, <1>2 DEF CallInProgress, StorageOfCall, CreatePoints, DropPoints
<1>8. ManagersInStep'
  BY <1>1, <1>2, <1>3, <1>4, <1>5 DEF ManagersInStep, Unwritten, CreatePoints
<1>9. StorageInStep'
  BY <1>1, <1>2, <1>3 DEF StorageInStep, Undisturbed, CreatePoints
<1>10. OwnStorage'
  BY <1>1, <1>2, <1>3, <1>4, <1>5 DEF OwnStorage, Unwritten, hasTable
<1> QED BY <1>3, <1>6, <1>7, <1>8, <1>9, <1>10 DEF IInv

(* Once the catalog file is written, the call's table has complete storage,  *)
(* and nobody but the caller has a table of that name.                       *)
LEMMA WriteCatalogInv == IInv /\ WriteCatalog => IInv'
<1> SUFFICES ASSUME IInv, WriteCatalog PROVE IInv'
  OBVIOUS
<1>1. /\ pc = "writeCatalog" /\ pc' = "return" /\ catalogFile[op.name] = None
      /\ catalogFile' = [catalogFile EXCEPT ![op.name] = writeSchema(op.name, op.schema)]
      /\ elsewhere' = [m \in Managers |-> IF m = caller THEN elsewhere[m]
                                          ELSE elsewhere[m] \cup {op.name}]
      /\ UNCHANGED <<tableFile, counterFile, tables, op, caller, reply, mine>>
      /\ UNCHANGED <<disturbed, clashed>>
  BY DEF WriteCatalog, NoCatalog, OthersOutdated, GoTo
<1>2. /\ TypeOK /\ CatalogsInPlace /\ CallInProgress /\ StorageOfCall
      /\ ManagersInStep /\ StorageInStep /\ OwnStorage
  BY DEF IInv
<1>3. /\ op.name \in Requested /\ op.name \in TableNames /\ caller \in Managers
      /\ op.schema \in NewSchemas /\ op.schema \in Schemas /\ op.schema # None
  BY <1>1, <1>2, CallFields, NoneAssumption DEF CallInProgress, CreatePoints, Schemas
<1>4. /\ catalogFile' \in [Requested -> {None} \cup UNION {CatalogFiles(n) : n \in TableNames}]
      /\ catalogFile'[op.name] = writeSchema(op.name, op.schema)
      /\ \A n \in Requested : n # op.name => catalogFile'[n] = catalogFile[n]
  <2>1. writeSchema(op.name, op.schema) \in UNION {CatalogFiles(n) : n \in TableNames}
    BY <1>3, NewCatalog
  <2> QED BY <1>1, <1>2, <1>3, <2>1 DEF TypeOK
<1>5. /\ registered[op.name] = None /\ registered'[op.name] = op.schema
      /\ \A n \in Requested : n # op.name => registered'[n] = registered[n]
      /\ registered' \in [Requested -> Schemas \cup {None}]
  <2>1. registered[op.name] = None
    BY <1>1, <1>3 DEF registered
  <2>2. registered'[op.name] = op.schema
    <3>1. ASSUME NEW n \in Requested, n = op.name PROVE registered'[n] = op.schema
      BY <1>3, <1>4, <3>1, NewCatalog DEF registered
    <3> QED BY <1>3, <3>1
  <2>3. \A n \in Requested : n # op.name => registered'[n] = registered[n]
    BY <1>4 DEF registered
  <2>4. DOMAIN registered' = Requested /\ registered' = [n \in Requested |-> registered'[n]]
    BY DEF registered
  <2> QED BY <1>2, <1>3, <2>1, <2>2, <2>3, <2>4 DEF TypeOK
<1>6. CatalogsInPlace'
  <2> SUFFICES ASSUME NEW n \in Requested, catalogFile'[n] # None
               PROVE  n \in TableNames /\ catalogFile'[n] \in CatalogFiles(n)
    BY DEF CatalogsInPlace
  <2>1. CASE n = op.name
    BY <1>3, <1>4, <2>1, NewCatalog
  <2>2. CASE n # op.name
    BY <1>2, <1>4, <2>2 DEF CatalogsInPlace
  <2> QED BY <2>1, <2>2
<1>7. elsewhere' \in [Managers -> SUBSET Requested]
  BY <1>1, <1>2, <1>3 DEF TypeOK
<1>8. TypeOK'
  BY <1>1, <1>2, <1>4, <1>5, <1>7 DEF TypeOK, Points
<1>9. CallInProgress' /\ StorageOfCall'
  BY <1>1, <1>2 DEF CallInProgress, StorageOfCall, CreatePoints, DropPoints
<1>10. tables[caller][op.name] = op.schema
  BY <1>1, <1>2 DEF ManagersInStep
<1>11. ManagersInStep'
  <2> SUFFICES ASSUME NEW m \in Managers, NEW n \in Requested, n \notin elsewhere'[m]
               PROVE  tables[m][n] = registered'[n]
    BY <1>1 DEF ManagersInStep, CreatePoints
  <2>1. n \notin elsewhere[m] /\ (n = op.name => m = caller)
    BY <1>1
  <2>2. CASE n = op.name
    BY <1>5, <1>10, <2>1, <2>2
  <2>3. CASE n # op.name
    BY <1>2, <1>5, <2>1, <2>3 DEF ManagersInStep, Unwritten
  <2> QED BY <2>2, <2>3
<1>12. /\ tableFile[op.name] # None /\ tableFile[op.name] # Partial /\ counterFile[op.name]
       /\ tableFile[op.name].columns = HeaderOf(op.schema) /\ tableFile[op.name].rows = {}
  BY <1>1, <1>2, <1>3, NewTableFile DEF StorageOfCall
<1>13. StorageInStep'
  <2> SUFFICES ASSUME NEW n \in Requested, n \notin disturbed PROVE Undisturbed(n)'
    BY <1>1 DEF StorageInStep, CreatePoints
  <2>1. CASE n = op.name
    BY <1>1, <1>3, <1>5, <1>12, <2>1 DEF Undisturbed
  <2>2. CASE n # op.name
    BY <1>1, <1>2, <1>5, <2>2 DEF StorageInStep, Undisturbed
  <2> QED BY <2>1, <2>2
<1>14. OwnStorage'
  <2> SUFFICES ASSUME NEW n \in Requested, n \notin clashed, tableFile[n] # None PROVE
        /\ registered'[n] # None =>
             /\ tableFile[n] # Partial
             /\ tableFile[n].columns = HeaderOf(registered'[n])
             /\ tableFile[n].rows \subseteq {registered'[n]}
        /\ \A m \in Managers : hasTable(m, n) => tables[m][n] = registered'[n]
    BY <1>1 DEF OwnStorage, Unwritten, hasTable
  <2>1. CASE n = op.name
    <3>1. ASSUME NEW m \in Managers, m # caller PROVE ~hasTable(m, n)
      BY <1>2, <1>5, <2>1, <3>1 DEF OwnStorage, Unwritten, hasTable
    <3> QED BY <1>5, <1>10, <1>12, <2>1, <3>1
  <2>2. CASE n # op.name
    BY <1>2, <1>5, <2>2 DEF OwnStorage, Unwritten
  <2> QED BY <2>1, <2>2
<1> QED BY <1>6, <1>8, <1>9, <1>11, <1>13, <1>14 DEF IInv

(* The table file goes, in a drop or in the rollback of a create. *)
LEMMA RemoveFileInv == IInv /\ (RollbackFile \/ DropFile) => IInv'
<1> SUFFICES ASSUME IInv, RollbackFile \/ DropFile PROVE IInv'
  OBVIOUS
<1>1. /\ \/ pc = "rollbackFile" /\ pc' = "rollbackCounter"
         \/ pc = "dropFile" /\ pc' = "dropCounter"
      /\ tableFile' = [tableFile EXCEPT ![op.name] = None]
      /\ UNCHANGED <<counterFile, catalogFile, tables, op, caller, reply, mine>>
      /\ UNCHANGED <<disturbed, elsewhere, clashed>>
  BY DEF RollbackFile, DropFile, GoTo, history
<1>2. /\ TypeOK /\ CatalogsInPlace /\ CallInProgress /\ StorageOfCall
      /\ ManagersInStep /\ StorageInStep /\ OwnStorage
  BY DEF IInv
<1>3. registered' = registered /\ CatalogsInPlace'
  BY <1>1, <1>2, SameCatalogs
<1>4. op.name \in Requested
  BY <1>1, <1>2, CallFields DEF CallInProgress
<1>5. /\ tableFile' \in [Requested -> TableFiles \cup {None, Partial}]
      /\ tableFile'[op.name] = None
      /\ \A n \in Requested : n # op.name => tableFile'[n] = tableFile[n]
  BY <1>1, <1>2, <1>4 DEF TypeOK
<1>6. TypeOK'
  BY <1>1, <1>2, <1>3, <1>5 DEF TypeOK, Points, DirtyPoints
<1>7. CallInProgress' /\ StorageOfCall'
  BY <1>1, <1>2, <1>5 DEF CallInProgress, StorageOfCall, CreatePoints, DropPoints
<1>8. ManagersInStep'
  BY <1>1, <1>2, <1>3 DEF ManagersInStep, Unwritten, CreatePoints
<1>9. StorageInStep'
  BY <1>1, <1>2, <1>3, <1>5 DEF StorageInStep, Undisturbed, CreatePoints
<1>10. OwnStorage'
  BY <1>1, <1>2, <1>3, <1>4, <1>5 DEF OwnStorage, Unwritten, hasTable
<1> QED BY <1>3, <1>6, <1>7, <1>8, <1>9, <1>10 DEF IInv

LEMMA DropCounterInv == IInv /\ DropCounter => IInv'
<1> SUFFICES ASSUME IInv, DropCounter PROVE IInv'
  OBVIOUS
<1>1. /\ pc = "dropCounter" /\ pc' = "dropCatalog"
      /\ counterFile' = [counterFile EXCEPT ![op.name] = FALSE]
      /\ UNCHANGED <<tableFile, catalogFile, tables, op, caller, reply, mine>>
      /\ UNCHANGED <<disturbed, elsewhere, clashed>>
  BY DEF DropCounter, GoTo, history
<1>2. /\ TypeOK /\ CatalogsInPlace /\ CallInProgress /\ StorageOfCall
      /\ ManagersInStep /\ StorageInStep /\ OwnStorage
  BY DEF IInv
<1>3. registered' = registered /\ CatalogsInPlace'
  BY <1>1, <1>2, SameCatalogs
<1>4. /\ op.name \in Requested /\ ~counterFile'[op.name]
      /\ \A n \in Requested : n # op.name => counterFile'[n] = counterFile[n]
      /\ counterFile' \in [Requested -> BOOLEAN]
  BY <1>1, <1>2, CallFields DEF CallInProgress, TypeOK
<1>5. TypeOK'
  BY <1>1, <1>2, <1>3, <1>4 DEF TypeOK, Points, DirtyPoints
<1>6. CallInProgress' /\ StorageOfCall'
  BY <1>1, <1>2, <1>4 DEF CallInProgress, StorageOfCall, CreatePoints, DropPoints
<1>7. ManagersInStep'
  BY <1>1, <1>2, <1>3 DEF ManagersInStep, Unwritten, CreatePoints
<1>8. StorageInStep'
  BY <1>1, <1>2, <1>3, <1>4 DEF StorageInStep, Undisturbed, CreatePoints
<1>9. OwnStorage'
  BY <1>1, <1>2, <1>3 DEF OwnStorage, Unwritten, hasTable
<1> QED BY <1>3, <1>5, <1>6, <1>7, <1>8, <1>9 DEF IInv

(* The catalog file goes last: nothing is left of the table.                 *)
LEMMA DropCatalogInv == IInv /\ DropCatalog => IInv'
<1> SUFFICES ASSUME IInv, DropCatalog PROVE IInv'
  OBVIOUS
<1>1. /\ pc = "dropCatalog" /\ pc' = "return"
      /\ catalogFile' = [catalogFile EXCEPT ![op.name] = None]
      /\ tables' = [tables EXCEPT ![caller][op.name] = None]
      /\ elsewhere' = [m \in Managers |-> IF m = caller THEN elsewhere[m]
                                          ELSE elsewhere[m] \cup {op.name}]
      /\ UNCHANGED <<tableFile, counterFile, op, caller, reply, mine, disturbed, clashed>>
  BY DEF DropCatalog, Unregistered, OthersOutdated, GoTo
<1>2. /\ TypeOK /\ CatalogsInPlace /\ CallInProgress /\ StorageOfCall
      /\ ManagersInStep /\ StorageInStep /\ OwnStorage
  BY DEF IInv
<1>3. /\ op.name \in Requested /\ caller \in Managers /\ op.kind = "drop"
      /\ tableFile[op.name] = None /\ ~counterFile[op.name]
  BY <1>1, <1>2, CallFields DEF CallInProgress, StorageOfCall, DropPoints
<1>4. /\ catalogFile' \in [Requested -> {None} \cup UNION {CatalogFiles(n) : n \in TableNames}]
      /\ catalogFile'[op.name] = None
      /\ \A n \in Requested : n # op.name => catalogFile'[n] = catalogFile[n]
  BY <1>1, <1>2, <1>3 DEF TypeOK
<1>5. CatalogsInPlace'
  BY <1>2, <1>4 DEF CatalogsInPlace
<1>6. /\ registered'[op.name] = None
      /\ \A n \in Requested : n # op.name => registered'[n] = registered[n]
      /\ registered' \in [Requested -> Schemas \cup {None}]
  <2>1. registered'[op.name] = None
    <3>1. ASSUME NEW n \in Requested, n = op.name PROVE registered'[n] = None
      BY <1>4, <3>1 DEF registered
    <3> QED BY <1>3, <3>1
  <2>2. \A n \in Requested : n # op.name => registered'[n] = registered[n]
    BY <1>4 DEF registered
  <2>3. DOMAIN registered' = Requested /\ registered' = [n \in Requested |-> registered'[n]]
    BY DEF registered
  <2> QED BY <1>2, <1>3, <2>1, <2>2, <2>3 DEF TypeOK
<1>7. /\ tables' \in [Managers -> [Requested -> Schemas \cup {None}]]
      /\ tables'[caller][op.name] = None
      /\ \A m \in Managers, n \in Requested :
           ~(m = caller /\ n = op.name) => tables'[m][n] = tables[m][n]
  <2>1. TypeOK /\ tables' = [tables EXCEPT ![caller][op.name] = None]
    BY <1>1, <1>2
  <2>2. op.name \in Requested /\ caller \in Managers /\ None \in Schemas \cup {None}
    BY <1>3
  <2> QED BY <2>1, <2>2, OneEntry, ZenonT(60)
<1>8. elsewhere' \in [Managers -> SUBSET Requested]
  BY <1>1, <1>2, <1>3 DEF TypeOK
<1>9. TypeOK'
  BY <1>1, <1>2, <1>4, <1>6, <1>7, <1>8 DEF TypeOK, Points
<1>10. CallInProgress' /\ StorageOfCall'
  BY <1>1, <1>2, <1>3 DEF CallInProgress, StorageOfCall, CreatePoints, DropPoints
<1>11. ManagersInStep'
  <2> SUFFICES ASSUME NEW m \in Managers, NEW n \in Requested, n \notin elsewhere'[m]
               PROVE  tables'[m][n] = registered'[n]
    BY <1>1 DEF ManagersInStep, CreatePoints
  <2>1. n \notin elsewhere[m] /\ (n = op.name => m = caller)
    BY <1>1
  <2> QED BY <1>1, <1>2, <1>6, <1>7, <2>1 DEF ManagersInStep, Unwritten
<1>12. StorageInStep'
  BY <1>1, <1>2, <1>3, <1>6 DEF StorageInStep, Undisturbed, CreatePoints
<1>13. OwnStorage'
  BY <1>1, <1>2, <1>3, <1>6, <1>7 DEF OwnStorage, Unwritten, hasTable
<1> QED BY <1>5, <1>9, <1>10, <1>11, <1>12, <1>13 DEF IInv

(* A manager that has a table which is in the catalog has it with the        *)
(* catalog's schema, unless the name is clashed.                             *)
LEMMA InsertInv ==
  ASSUME NEW m \in Managers, NEW n \in Requested
  PROVE  IInv /\ Insert(m, n) => IInv'
<1> SUFFICES ASSUME IInv, Insert(m, n) PROVE IInv'
  OBVIOUS
<1> DEFINE old == tableFile[n]
<1>1. /\ pc = "idle" /\ tables[m][n] # None
      /\ old \notin {None, Partial} /\ old.columns = HeaderOf(tables[m][n])
      /\ tableFile' = [tableFile EXCEPT ![n] =
                         TableFile(old.columns, old.rows \cup {tables[m][n]}, FALSE)]
      /\ counterFile' = [counterFile EXCEPT ![n] = TRUE]
      /\ UNCHANGED <<catalogFile, tables, pc, op, caller, reply, mine>>
      /\ UNCHANGED <<disturbed, elsewhere, clashed>>
  BY DEF Insert, hasTable, call, history
<1>2. /\ TypeOK /\ CatalogsInPlace /\ CallInProgress /\ StorageOfCall
      /\ ManagersInStep /\ StorageInStep /\ OwnStorage
  BY DEF IInv
<1>3. registered' = registered /\ CatalogsInPlace'
  BY <1>1, <1>2, SameCatalogs
<1>4. old \in TableFiles /\ tables[m][n] \in Schemas
  BY <1>1, <1>2 DEF TypeOK
<1>5. /\ tableFile'[n] = [columns |-> old.columns, rows |-> old.rows \cup {tables[m][n]},
                          legacy |-> FALSE]
      /\ tableFile'[n] \in TableFiles
      /\ \A r \in Requested : r # n => tableFile'[r] = tableFile[r]
      /\ tableFile' \in [Requested -> TableFiles \cup {None, Partial}]
  <2>1. [columns |-> old.columns, rows |-> old.rows \cup {tables[m][n]}, legacy |-> FALSE]
          \in TableFiles
    BY <1>4 DEF TableFiles
  <2> QED BY <1>1, <1>2, <2>1 DEF TypeOK, TableFile
<1>6. /\ counterFile'[n] /\ counterFile' \in [Requested -> BOOLEAN]
      /\ \A r \in Requested : r # n => counterFile'[r] = counterFile[r]
  BY <1>1, <1>2 DEF TypeOK
<1>7. tableFile'[n] \notin {None, Partial}
  BY <1>5, NoneAssumption
<1>8. /\ tableFile'[n].columns = old.columns
      /\ tableFile'[n].rows = old.rows \cup {tables[m][n]}
  BY <1>5
<1>9. TypeOK'
  BY <1>1, <1>2, <1>3, <1>5, <1>6 DEF TypeOK
<1>10. CallInProgress' /\ StorageOfCall'
  BY <1>1, <1>2 DEF CallInProgress, StorageOfCall, CreatePoints, DropPoints
<1>11. ManagersInStep'
  BY <1>1, <1>2, <1>3 DEF ManagersInStep, Unwritten, CreatePoints
<1>12. StorageInStep'
  <2> SUFFICES ASSUME NEW r \in Requested, r \notin disturbed PROVE Undisturbed(r)'
    BY <1>1 DEF StorageInStep, CreatePoints
  <2>1. Undisturbed(r)
    BY <1>1, <1>2 DEF StorageInStep, CreatePoints
  <2>2. CASE r = n
    BY <1>1, <1>3, <1>6, <1>7, <1>8, <2>1, <2>2 DEF Undisturbed
  <2>3. CASE r # n
    BY <1>3, <1>5, <1>6, <2>1, <2>3 DEF Undisturbed
  <2> QED BY <2>2, <2>3
<1>13. OwnStorage'
  <2> SUFFICES ASSUME NEW r \in Requested, r \notin clashed PROVE
        /\ registered[r] # None /\ tableFile'[r] # None =>
             /\ tableFile'[r] # Partial
             /\ tableFile'[r].columns = HeaderOf(registered[r])
             /\ tableFile'[r].rows \subseteq {registered[r]}
        /\ tableFile'[r] # None =>
             \A k \in Managers : hasTable(k, r) => tables[k][r] = registered[r]
    BY <1>1, <1>3 DEF OwnStorage, Unwritten, hasTable
  <2>1. /\ registered[r] # None /\ tableFile[r] # None =>
             /\ tableFile[r].columns = HeaderOf(registered[r])
             /\ tableFile[r].rows \subseteq {registered[r]}
             /\ tableFile[r] # Partial
        /\ tableFile[r] # None =>
             \A k \in Managers : hasTable(k, r) => tables[k][r] = registered[r]
    BY <1>1, <1>2 DEF OwnStorage, Unwritten
  <2>2. CASE r = n
    <3>1. tables[m][n] = registered[n]
      BY <1>1, <2>1, <2>2 DEF hasTable
    <3> QED BY <1>1, <1>7, <1>8, <2>1, <2>2, <3>1
  <2>3. CASE r # n
    BY <1>5, <2>1, <2>3
  <2> QED BY <2>2, <2>3
<1> QED BY <1>3, <1>9, <1>10, <1>11, <1>12, <1>13 DEF IInv

LEMMA NextInv == IInv /\ [Next]_vars => IInv'
<1> SUFFICES ASSUME IInv, [Next]_vars PROVE IInv'
  OBVIOUS
<1>1. ASSUME Next PROVE IInv'
  BY <1>1, CallInv, ReturnInv, ThrowInv, CheckInv, CreateFileInv, WriteHeaderInv,
     CloseHeaderInv, CreateCounterInv, CreateCounterFailsInv, RegisterInv,
     WriteCatalogInv, RemoveFileInv, RollbackCounterInv, DropCounterInv,
     DropCatalogInv, CrashInv, InsertInv DEF Next
<1>2. ASSUME UNCHANGED vars PROVE IInv'
  <2>1. /\ UNCHANGED <<tableFile, counterFile, catalogFile, tables, pc, op, caller, reply, mine>>
        /\ UNCHANGED <<disturbed, elsewhere, clashed>>
    BY <1>2 DEF vars, files, call, history
  <2>2. /\ TypeOK /\ CatalogsInPlace /\ CallInProgress /\ StorageOfCall
      /\ ManagersInStep /\ StorageInStep /\ OwnStorage
  BY DEF IInv
  <2>3. registered' = registered /\ CatalogsInPlace'
    BY <2>1, <2>2, SameCatalogs
  <2>4. TypeOK' /\ CallInProgress' /\ StorageOfCall'
    BY <2>1, <2>2, <2>3, ZenonT(60) DEF TypeOK, CallInProgress, StorageOfCall, NoStorage
  <2>5. ManagersInStep' /\ StorageInStep' /\ OwnStorage'
    BY <2>1, <2>2, <2>3
       DEF ManagersInStep, StorageInStep, OwnStorage, Unwritten, Undisturbed, hasTable
  <2> QED BY <2>3, <2>4, <2>5 DEF IInv
<1> QED BY <1>1, <1>2

(* The inductive invariant holds for every set of managers, names and        *)
(* schemas: after every file operation of a call, whichever fail and         *)
(* whenever a process dies.                                                  *)
THEOREM Inductive == Spec => []IInv
  BY InitInv, NextInv, PTL DEF Spec

(* The state keeps its type: what a load finds is a schema, and what stands  *)
(* in the directories a table file, a counter or a catalog file.             *)
THEOREM TypeCorrect == Spec => []TypeOK
<1>1. IInv => TypeOK
  BY DEF IInv
<1> QED BY <1>1, Inductive, PTL

(* Between calls, a manager's catalog in memory is what a restart would load *)
(* except for the names that other managers have created or dropped.         *)
THEOREM InStepWithFiles == Spec => []CatalogInStep
<1>1. IInv => CatalogInStep
  BY DEF IInv, ManagersInStep, CatalogInStep, Unwritten
<1> QED BY <1>1, Inductive, PTL

(* A manager can be constructed after any failure or crash.                  *)
THEOREM Loads == Spec => []AlwaysLoads
<1>1. IInv => AlwaysLoads
  BY Loadable DEF IInv, AlwaysLoads
<1> QED BY <1>1, Inductive, PTL

(* Between calls, the registered tables have complete storage and the others *)
(* none, except at names for which a call died half-way or failed where the  *)
(* code does not undo what it has done.                                      *)
THEOREM StorageMatches == Spec => []StorageMatchesCatalog
<1>1. IInv => StorageMatchesCatalog
  BY DEF IInv, StorageInStep, Undisturbed, CreatePoints, StorageMatchesCatalog
<1> QED BY <1>1, Inductive, PTL

(* No table is registered over storage that is partial or has other columns, *)
(* unless storage was created by a manager that did not know of the table.   *)
THEOREM OwnStorageOnly == Spec => []NeverRegisteredOverForeignStorage
<1>1. IInv => NeverRegisteredOverForeignStorage
  BY DEF IInv, OwnStorage, NeverRegisteredOverForeignStorage
<1> QED BY <1>1, Inductive, PTL

(* Nor was a row of a registered table validated against another schema than *)
(* the one it is registered with, again but for such a table.                *)
THEOREM StoredRowsFit == Spec => []RowsFitTheirSchema
<1>1. IInv => RowsFitTheirSchema
  BY DEF IInv, OwnStorage, RowsFitTheirSchema
<1> QED BY <1>1, Inductive, PTL

(* A create changes no table file but the one it has made: there is none     *)
(* when it makes its own, and every later change is to that.                 *)
THEOREM KeepsForeignStorage == Spec => CreateKeepsForeignStorage
<1> DEFINE Kept == op.kind = "create" /\ ~mine =>
                     \A n \in Requested : tableFile[n] # None => tableFile'[n] = tableFile[n]
<1>1. IInv /\ [Next]_vars => Kept
  <2> SUFFICES ASSUME IInv, [Next]_vars, op.kind = "create", ~mine PROVE Kept
    OBVIOUS
  <2>1. TypeOK /\ CallInProgress /\ StorageOfCall
    BY DEF IInv
  <2>2. CASE CreateFile
    BY <2>1, <2>2 DEF CreateFile, TypeOK, StorageOfCall, NoStorage
  <2>3. pc \notin CreatePoints \ {"createFile"} /\ pc \notin DropPoints /\ pc # "idle"
    BY <2>1 DEF CallInProgress, NoCall
  <2>4. ~CreateFile => tableFile' = tableFile
    BY <2>3 DEF Next, vars, files, CreatePoints, DropPoints, Call, Return, Throw, CheckCreate,
       WriteHeader, CloseHeader, CreateCounter, CreateCounterFails, Register, WriteCatalog,
       WriteCatalogFails, RollbackFile, RollbackCounter, CheckDrop, DropFile, DropCounter,
       DropCatalog, Crash, Insert
  <2> QED BY <2>2, <2>4
<1> QED BY <1>1, Inductive, PTL DEF Spec, CreateKeepsForeignStorage

-----------------------------------------------------------------------------
(* The refinement: of the steps of a call only WriteCatalog and DropCatalog  *)
(* change what is registered; the others are steps of the registry that      *)
(* begin or end a call, or no steps of it.                                   *)

LEMMA RegistryInit == Init => Registry!Init
<1> SUFFICES ASSUME Init PROVE Registry!Init
  OBVIOUS
<1>1. IInv
  BY InitInv
<1> QED BY <1>1 DEF Init, IInv, TypeOK, Registry!Init, Registry!NoCall, NoCall

LEMMA RegistryTakesEffect ==
  IInv /\ (WriteCatalog \/ DropCatalog) => Registry!TakeEffect
<1> SUFFICES ASSUME IInv, WriteCatalog \/ DropCatalog PROVE Registry!TakeEffect
  OBVIOUS
<1>1. /\ TypeOK /\ CatalogsInPlace /\ CallInProgress
      /\ UNCHANGED <<op, reply>> /\ pc' = "return" /\ pc # "return"
  BY DEF IInv, WriteCatalog, DropCatalog, GoTo
<1>2. /\ op \in Calls /\ op.name \in Requested /\ op # NoCall
      /\ catalogFile \in [Requested -> {None} \cup UNION {CatalogFiles(n) : n \in TableNames}]
  BY <1>1, CallFields DEF CallInProgress, WriteCatalog, DropCatalog, TypeOK
<1>3. ASSUME NEW file, NEW schema,
             catalogFile' = [catalogFile EXCEPT ![op.name] = file],
             schema = IF file = None THEN None ELSE readSchema(file)
      PROVE  registered' = [registered EXCEPT ![op.name] = schema]
  BY <1>2, <1>3 DEF registered
<1>4. CASE WriteCatalog
  <2>1. /\ catalogFile' = [catalogFile EXCEPT ![op.name] = writeSchema(op.name, op.schema)]
        /\ catalogFile[op.name] = None /\ op.kind = "create" /\ op.schema \in NewSchemas
    BY <1>1, <1>2, <1>4, CallFields DEF WriteCatalog, NoCatalog, CallInProgress, CreatePoints
  <2>2. registered' = [registered EXCEPT ![op.name] = op.schema]
    BY <1>2, <1>3, <2>1, NewCatalog
  <2>3. registered[op.name] = None
    BY <1>2, <2>1 DEF registered
  <2> QED BY <1>1, <1>2, <2>1, <2>2, <2>3 DEF Registry!TakeEffect, Registry!NoCall, NoCall
<1>5. CASE DropCatalog
  <2>1. /\ catalogFile' = [catalogFile EXCEPT ![op.name] = None]
        /\ catalogFile[op.name] # None /\ op.kind = "drop" /\ op.schema = None
    BY <1>1, <1>2, <1>5, CallFields DEF DropCatalog, CallInProgress, DropPoints
  <2>2. registered' = [registered EXCEPT ![op.name] = op.schema]
    BY <1>3, <2>1
  <2>3. registered[op.name] # None
    BY <1>1, <1>2, <2>1, RegisteredFiles
  <2> QED BY <1>1, <1>2, <2>1, <2>2, <2>3 DEF Registry!TakeEffect, Registry!NoCall, NoCall
<1> QED BY <1>4, <1>5

LEMMA RegistryStep == IInv /\ [Next]_vars => [Registry!Next]_Registry!vars
<1> SUFFICES ASSUME IInv, [Next]_vars PROVE [Registry!Next]_Registry!vars
  OBVIOUS
<1>1. TypeOK /\ CatalogsInPlace /\ CallInProgress
  BY DEF IInv
<1>2. CASE WriteCatalog \/ DropCatalog
  BY <1>2, RegistryTakesEffect DEF Registry!Next
<1>3. CASE ~WriteCatalog /\ ~DropCatalog
  <2>1. catalogFile' = catalogFile
    BY <1>3 DEF Next, vars, files, Call, Return, Throw, CheckCreate, CreateFile,
       WriteHeader, CloseHeader, CreateCounter, CreateCounterFails, Register,
       WriteCatalogFails, RollbackFile, RollbackCounter, CheckDrop, DropFile, DropCounter,
       Crash, Insert
  <2>2. registered' = registered
    BY <1>1, <2>1, SameCatalogs
  <2>3. pc # "idle" => op # NoCall
    BY <1>1, CallFields DEF CallInProgress
  <2>4. CASE Call
    <3>1. op = NoCall /\ op' \in Registry!Calls /\ reply' = "none"
      BY <1>1, <2>4 DEF Call, CallInProgress, Calls, Registry!Calls, Schemas
    <3>2. pc # "return" /\ pc' # "return"
      BY <2>4 DEF Call
    <3> QED BY <2>2, <3>1, <3>2 DEF Registry!Begin, Registry!Next, Registry!NoCall, NoCall
  <2>5. CASE Return
    BY <2>2, <2>5 DEF Return, Finish, Registry!Succeed, Registry!Finish, Registry!Next,
       Registry!NoCall, NoCall
  <2>6. CASE Throw \/ CreateCounterFails \/ RollbackCounter
    <3>1. /\ pc # "return" /\ pc # "idle"
          /\ op' = NoCall /\ pc' = "idle" /\ reply' = "error"
      BY <2>6 DEF Throw, CreateCounterFails, RollbackCounter, Finish, CleanPoints, DirtyPoints
    <3> QED BY <2>2, <2>3, <3>1 DEF Registry!Throw, Registry!Finish, Registry!Next,
       Registry!NoCall, NoCall
  <2>7. CASE \E m \in Managers : Crash(m)
    <3>1. PICK m \in Managers : Crash(m)
      BY <2>7
    <3>2. CASE m = caller
      BY <2>2, <3>1, <3>2 DEF Crash, Finish, Registry!Crash, Registry!Finish, Registry!Next,
         Registry!NoCall, NoCall
    <3>3. CASE m # caller
      BY <2>2, <3>1, <3>3 DEF Crash, call, Registry!vars
    <3> QED BY <3>2, <3>3
  <2>8. CASE ~Call /\ ~Return /\ ~Throw /\ ~CreateCounterFails /\ ~RollbackCounter
             /\ ~\E m \in Managers : Crash(m)
    <3>1. /\ op' = op /\ reply' = reply
          /\ pc' = "return" <=> pc = "return"
      BY <1>3, <2>8 DEF Next, vars, call, GoTo, CheckCreate, CreateFile,
         WriteHeader, CloseHeader, CreateCounter, Register,
         WriteCatalogFails, RollbackFile, CheckDrop, DropFile, DropCounter, Insert
    <3> QED BY <2>2, <3>1 DEF Registry!vars
  <2> QED BY <2>4, <2>5, <2>6, <2>7, <2>8
<1> QED BY <1>2, <1>3

(* createTable and dropTable implement the registry: each call takes effect  *)
(* on the registered tables in one step or not at all, whichever of its file *)
(* operations fail and wherever a process dies.                              *)
THEOREM ImplementsRegistry == Spec => RegistrySpec
  BY RegistryInit, RegistryStep, Inductive, PTL DEF Spec, RegistrySpec, Registry!Spec
=============================================================================
