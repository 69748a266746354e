--------------------------- MODULE DatabaseTables ---------------------------
(***************************************************************************)
(* DatabaseManager::createTable and dropTable, with the Catalog and the    *)
(* FileStorageEngine calls they make, one file operation at a time, on     *)
(* the three files of a table: tables/<t>.csv, tables/<t>.nextid and       *)
(* catalogs/<t>.csv.  Any of the operations can fail, and a process can    *)
(* die between any two and be started again.  The counter and the catalog  *)
(* are written to a temporary file, which no reader looks at, and renamed: *)
(* one step here, which happens or fails.                                  *)
(*                                                                         *)
(* Several managers can be open on the directory, each with the catalog it *)
(* loaded when it was constructed.  Their calls do not overlap; a manager  *)
(* may be constructed at any time.  An insert is one step here: its file   *)
(* operations are those of TableStorage.                                   *)
(***************************************************************************)
EXTENDS CatalogFormat, FiniteSets

CONSTANTS Managers,  \* the DatabaseManager objects
          Requested, \* the names that createTable and dropTable are given
          NewSchemas,  \* the schemas that createTable is given
          OldSchemas,  \* schemas of tables made by a version without NULL
          None,      \* no file, no table, no schema, no manager
          Partial    \* a table file whose header has not been written whole

Schemas == NewSchemas \cup OldSchemas

(* A table file: the column names of its header, the schemas that its rows   *)
(* were validated against, and whether it is still in the layout without IDs. *)
TableFile(columns, rows, legacy) == [columns |-> columns, rows |-> rows, legacy |-> legacy]
TableFiles == [columns : {HeaderOf(schema) : schema \in Schemas},
               rows : SUBSET Schemas, legacy : BOOLEAN]

(* The catalog files of a table. *)
CatalogFiles(n) == {writeSchema(n, schema) : schema \in NewSchemas}
                   \cup {OldCatalog(n, schema) : schema \in OldSchemas}

ASSUME TablesAssumption ==
  /\ \A schema \in Schemas : schema \in Seq(ColumnValues) /\ IsSchema(schema)
  /\ \A schema \in OldSchemas : \A i \in DOMAIN schema : ~schema[i].nullable
  /\ TableNames \subseteq Requested

(* What is not there is told from what is. *)
ASSUME NoneAssumption ==
  /\ None \notin Schemas \cup Managers \cup TableFiles
  /\ \A n \in Requested : None \notin CatalogFiles(n)
  /\ Partial \notin TableFiles \cup {None}

VARIABLES
  tableFile,    \* tables/<t>.csv: None, Partial or a table file
  counterFile,  \* whether tables/<t>.nextid exists
  catalogFile,  \* catalogs/<t>.csv: None or a catalog file
  tables,       \* for every manager, its Catalog::tables_
  pc,           \* the next step of the call in progress
  op,           \* the call in progress
  caller,       \* the manager it was made on
  reply,        \* what the last call returned
  mine,         \* history: the call in progress has created the table file
  disturbed,    \* history: names for which a call died half-way, or failed
                \* where the code does not undo what it has done
  elsewhere,    \* history: for every manager, the names whose catalog file
                \* another one has written or removed since it loaded its own
  clashed       \* history: names at which storage was created while the
                \* catalog or another manager still had an older table

files == <<tableFile, counterFile, catalogFile>>
call == <<pc, op, caller, reply, mine>>
history == <<disturbed, elsewhere, clashed>>
vars == <<files, tables, call, history>>

NoCall == [kind |-> "none", name |-> None, schema |-> None]
Calls == [kind : {"create"}, name : Requested, schema : NewSchemas]
         \cup [kind : {"drop"}, name : Requested, schema : {None}]

hasTable(m, n) == tables[m][n] # None

(* What a load finds, and whether it gets to the end. *)
registered == [n \in Requested |-> IF catalogFile[n] = None THEN None
                                   ELSE readSchema(catalogFile[n])]
CanLoad == \A n \in Requested : catalogFile[n] # None =>
                                  n \in TableNames /\ IsCatalog(catalogFile[n], n)

-----------------------------------------------------------------------------
Finish(status) == /\ pc' = "idle"
                  /\ op' = NoCall
                  /\ caller' = None
                  /\ mine' = FALSE
                  /\ reply' = status

(* The call goes on. *)
GoTo(point) == pc' = point /\ UNCHANGED <<op, caller, reply, mine>>

Call == /\ pc = "idle"
        /\ op' \in Calls
        /\ caller' \in Managers
        /\ pc' = "check"
        /\ reply' = "none"
        /\ UNCHANGED <<files, tables, mine, history>>

Return == /\ pc = "return"
          /\ Finish("ok")
          /\ UNCHANGED <<files, tables, history>>

(* The process of a manager dies, with the call in progress if that is its   *)
(* own, and a manager is constructed again.                                  *)
Crash(m) ==
  /\ CanLoad
  /\ tables' = [tables EXCEPT ![m] = registered]
  /\ elsewhere' = [elsewhere EXCEPT ![m] = {}]
  /\ IF m = caller
     THEN /\ Finish("none")
          /\ disturbed' = IF pc \in {"check", "return"} THEN disturbed
                          ELSE disturbed \cup {op.name}
     ELSE UNCHANGED <<call, disturbed>>
  /\ UNCHANGED <<files, clashed>>

(* Points at which an error propagates to the caller as it is: before        *)
(* anything is done, and where what has been done is left as it is.          *)
CleanPoints == {"check", "createFile", "dropFile"}
DirtyPoints == {"writeHeader", "closeHeader", "rollbackFile", "rollbackCounter",
                "dropCounter", "dropCatalog"}

Throw == /\ pc \in CleanPoints \cup DirtyPoints
         /\ Finish("error")
         /\ disturbed' = IF pc \in DirtyPoints THEN disturbed \cup {op.name}
                         ELSE disturbed
         /\ UNCHANGED <<files, tables, elsewhere, clashed>>

-----------------------------------------------------------------------------
(* createTable: the name is allowed, free in the manager's catalog and has   *)
(* no storage; the schema does without the names of the physical columns.    *)
(* Mutants: only the counter is looked for; names are not validated.         *)
NoCounter(n) == ~counterFile[n]
NoStorage(n) == tableFile[n] = None /\ ~counterFile[n]
AnyName(n) == TRUE
validateString(n) == n \in TableNames

CheckCreate == /\ pc = "check" /\ op.kind = "create"
               /\ validateString(op.name)
               /\ ~hasTable(caller, op.name)
               /\ ~UsesReservedName(op.schema)
               /\ NoStorage(op.name)
               /\ GoTo("createFile")
               /\ UNCHANGED <<files, tables, history>>

(* Opening the table file creates it, empty; the header follows.             *)
CreateFile ==
  /\ pc = "createFile"
  /\ tableFile' = [tableFile EXCEPT ![op.name] = Partial]
  /\ mine' = TRUE
  /\ pc' = "writeHeader"
  /\ clashed' = IF registered[op.name] # None \/ \E m \in Managers : hasTable(m, op.name)
                THEN clashed \cup {op.name} ELSE clashed
  /\ UNCHANGED <<counterFile, catalogFile, tables, op, caller, reply, disturbed, elsewhere>>

WriteHeader == /\ pc = "writeHeader"
               /\ \E header \in {Partial, TableFile(HeaderOf(op.schema), {}, FALSE)} :
                    tableFile' = [tableFile EXCEPT ![op.name] = header]
               /\ GoTo("closeHeader")
               /\ UNCHANGED <<counterFile, catalogFile, tables, history>>

(* Mutant: the stream is not asked whether the header was written. *)
HeaderNotChecked == TRUE
HeaderWritten == tableFile[op.name] # Partial

CloseHeader == /\ pc = "closeHeader"
               /\ HeaderWritten
               /\ GoTo("createCounter")
               /\ UNCHANGED <<files, tables, history>>

CreateCounter == /\ pc = "createCounter"
                 /\ counterFile' = [counterFile EXCEPT ![op.name] = TRUE]
                 /\ GoTo("register")
                 /\ UNCHANGED <<tableFile, catalogFile, tables, history>>

(* Without a counter the table file is removed again; should that fail, the  *)
(* failure is ignored.                                                       *)
CreateCounterFails ==
  /\ pc = "createCounter"
  /\ \/ /\ tableFile' = [tableFile EXCEPT ![op.name] = None]
        /\ UNCHANGED disturbed
     \/ /\ disturbed' = disturbed \cup {op.name}
        /\ UNCHANGED tableFile
  /\ Finish("error")
  /\ UNCHANGED <<counterFile, catalogFile, tables, elsewhere, clashed>>

(* Catalog::createTable: first in memory, then its file, which must be new.  *)
Register == /\ pc = "register"
            /\ tables' = [tables EXCEPT ![caller][op.name] = op.schema]
            /\ GoTo("writeCatalog")
            /\ UNCHANGED <<files, history>>

(* The other managers do not hear of a catalog file that changes.            *)
OthersOutdated == elsewhere' = [m \in Managers |-> IF m = caller THEN elsewhere[m]
                                                  ELSE elsewhere[m] \cup {op.name}]

(* Mutant: the file is replaced. *)
OverAnyCatalog(n) == TRUE
NoCatalog(n) == catalogFile[n] = None

WriteCatalog ==
  /\ pc = "writeCatalog"
  /\ NoCatalog(op.name)
  /\ catalogFile' = [catalogFile EXCEPT ![op.name] = writeSchema(op.name, op.schema)]
  /\ OthersOutdated
  /\ GoTo("return")
  /\ UNCHANGED <<tableFile, counterFile, tables, disturbed, clashed>>

(* Mutant: the entry stays in memory. *)
StillRegistered == tables
Unregistered == [tables EXCEPT ![caller][op.name] = None]

WriteCatalogFails == /\ pc = "writeCatalog"
                     /\ tables' = Unregistered
                     /\ GoTo("rollbackFile")
                     /\ UNCHANGED <<files, history>>

(* The storage that was created is dropped, and the call throws. *)
RollbackFile == /\ pc = "rollbackFile"
                /\ tableFile[op.name] # None
                /\ tableFile' = [tableFile EXCEPT ![op.name] = None]
                /\ GoTo("rollbackCounter")
                /\ UNCHANGED <<counterFile, catalogFile, tables, history>>

(* Mutant: the counter stays behind. *)
RollbackTableOnly == /\ pc = "rollbackCounter"
                     /\ Finish("error")
                     /\ UNCHANGED <<files, tables, history>>

RollbackCounter == /\ pc = "rollbackCounter"
                   /\ counterFile' = [counterFile EXCEPT ![op.name] = FALSE]
                   /\ Finish("error")
                   /\ UNCHANGED <<tableFile, catalogFile, tables, history>>

-----------------------------------------------------------------------------
(* dropTable: the table file first, which must be there, then the counter,   *)
(* which need not be, then the catalog file and the entry in memory.         *)
CheckDrop == /\ pc = "check" /\ op.kind = "drop"
             /\ hasTable(caller, op.name)
             /\ GoTo("dropFile")
             /\ UNCHANGED <<files, tables, history>>

DropFile == /\ pc = "dropFile"
            /\ tableFile[op.name] # None
            /\ tableFile' = [tableFile EXCEPT ![op.name] = None]
            /\ GoTo("dropCounter")
            /\ UNCHANGED <<counterFile, catalogFile, tables, history>>

DropCounter == /\ pc = "dropCounter"
               /\ counterFile' = [counterFile EXCEPT ![op.name] = FALSE]
               /\ GoTo("dropCatalog")
               /\ UNCHANGED <<tableFile, catalogFile, tables, history>>

DropCatalog == /\ pc = "dropCatalog"
               /\ catalogFile[op.name] # None
               /\ catalogFile' = [catalogFile EXCEPT ![op.name] = None]
               /\ tables' = Unregistered
               /\ OthersOutdated
               /\ GoTo("return")
               /\ UNCHANGED <<tableFile, counterFile, disturbed, clashed>>

-----------------------------------------------------------------------------
(* insert, from beginning to end: the row is validated against the schema    *)
(* that the manager has, the columns of the file are compared with it, and   *)
(* the counter is read, or written for the first time.                       *)
Insert(m, n) ==
  /\ pc = "idle"
  /\ hasTable(m, n)
  /\ tableFile[n] \notin {None, Partial}
  /\ tableFile[n].columns = HeaderOf(tables[m][n])
  /\ counterFile[n] \/ tableFile[n].legacy
  /\ tableFile' = [tableFile EXCEPT ![n] =
                     TableFile(@.columns, @.rows \cup {tables[m][n]}, FALSE)]
  /\ counterFile' = [counterFile EXCEPT ![n] = TRUE]
  /\ UNCHANGED <<catalogFile, tables, call, history>>

-----------------------------------------------------------------------------
(* A database directory with tables of an earlier version, or empty. *)
Init == /\ \E old \in [Requested -> OldSchemas \cup {None}] :
             /\ \A n \in Requested \ TableNames : old[n] = None
             /\ tableFile = [n \in Requested |->
                              IF old[n] = None THEN None
                              ELSE TableFile(HeaderOf(old[n]), {old[n]}, TRUE)]
             /\ catalogFile = [n \in Requested |->
                                IF old[n] = None THEN None ELSE OldCatalog(n, old[n])]
        /\ counterFile = [n \in Requested |-> FALSE]
        /\ tables = [m \in Managers |-> registered]
        /\ pc = "idle" /\ op = NoCall /\ caller = None /\ reply = "none" /\ mine = FALSE
        /\ disturbed = {} /\ elsewhere = [m \in Managers |-> {}] /\ clashed = {}

Next == \/ Call \/ Return \/ Throw
        \/ CheckCreate \/ CreateFile \/ WriteHeader \/ CloseHeader
        \/ CreateCounter \/ CreateCounterFails
        \/ Register \/ WriteCatalog \/ WriteCatalogFails
        \/ RollbackFile \/ RollbackCounter
        \/ CheckDrop \/ DropFile \/ DropCounter \/ DropCatalog
        \/ \E m \in Managers : Crash(m) \/ \E n \in Requested : Insert(m, n)

Spec == Init /\ [][Next]_vars

-----------------------------------------------------------------------------
(* Properties. *)

Points == {"idle", "check", "return", "createCounter", "register", "writeCatalog"}
          \cup CleanPoints \cup DirtyPoints

TypeOK == /\ tableFile \in [Requested -> TableFiles \cup {None, Partial}]
          /\ counterFile \in [Requested -> BOOLEAN]
          /\ catalogFile \in [Requested -> {None} \cup UNION {CatalogFiles(n) : n \in TableNames}]
          /\ registered \in [Requested -> Schemas \cup {None}]
          /\ tables \in [Managers -> [Requested -> Schemas \cup {None}]]
          /\ pc \in Points
          /\ op \in Calls \cup {NoCall}
          /\ caller \in Managers \cup {None}
          /\ reply \in {"none", "ok", "error"}
          /\ mine \in BOOLEAN
          /\ disturbed \subseteq Requested /\ clashed \subseteq Requested
          /\ elsewhere \in [Managers -> SUBSET Requested]

(* Between calls, a manager knows the tables that a restart would find, with *)
(* their schemas, except those that another manager has created or dropped   *)
(* since: also after calls that failed, and whatever the other managers do   *)
(* to the tables beside it.                                                  *)
CatalogInStep ==
  pc = "idle" => \A m \in Managers, n \in Requested :
                   n \notin elsewhere[m] => tables[m][n] = registered[n]

(* A manager can always be constructed: no call, however it ends, leaves a   *)
(* catalog file that the load refuses for its name, its records or its       *)
(* columns.                                                                  *)
AlwaysLoads == CanLoad

(* Between calls, a table that is registered has a table file with its       *)
(* columns and a counter, unless it is a legacy table without one, and       *)
(* storage that nobody registered does not exist -- except for names at      *)
(* which a call died half-way or failed where the code leaves what it has    *)
(* done.  In particular a create that cannot write the counter or the        *)
(* catalog is undone, and a manager that does not know of the others'        *)
(* creates and drops does no harm.                                           *)
StorageMatchesCatalog ==
  pc = "idle" => \A n \in Requested \ disturbed :
    IF registered[n] = None THEN tableFile[n] = None /\ ~counterFile[n]
    ELSE /\ tableFile[n] \notin {None, Partial}
         /\ tableFile[n].columns = HeaderOf(registered[n])
         /\ counterFile[n] \/ tableFile[n].legacy

(* Whatever happened before, a registered table has complete storage with    *)
(* its own columns, or its table file is gone because a drop was             *)
(* interrupted: a table is never registered over storage that is partial or  *)
(* another's -- unless storage was created by a manager that did not know of *)
(* the table.                                                                *)
NeverRegisteredOverForeignStorage ==
  \A n \in Requested \ clashed :
    registered[n] # None =>
      \/ tableFile[n] = None
      \/ tableFile[n] # Partial /\ tableFile[n].columns = HeaderOf(registered[n])

(* The rows of a registered table were validated against its schema, over    *)
(* restarts and upgrades, so that a NOT NULL column has no NULL and no       *)
(* column has a value of another type ("existing tables always use their     *)
(* catalog-owned schema", docs/storage-format.md) -- unless the table was    *)
(* created while another manager still had an older one of that name.        *)
RowsFitTheirSchema ==
  \A n \in Requested \ clashed :
    registered[n] # None /\ tableFile[n] \notin {None, Partial} =>
      tableFile[n].rows \subseteq {registered[n]}

(* The inductive invariant behind these.  Each part says of the table of the  *)
(* call in progress what the steps before have left, and of every other what *)
(* holds between calls.                                                      *)
CreatePoints == {"createFile", "writeHeader", "closeHeader", "createCounter", "register",
                 "writeCatalog", "rollbackFile", "rollbackCounter"}
DropPoints == {"dropFile", "dropCounter", "dropCatalog"}

CallInProgress ==
  /\ pc = "idle" => op = NoCall /\ caller = None
  /\ pc # "idle" => op \in Calls /\ caller \in Managers
  /\ pc \in CreatePoints => op.kind = "create" /\ op.name \in TableNames
  /\ pc \in DropPoints => op.kind = "drop"
  /\ pc \in {"idle", "check", "createFile"} => ~mine
  /\ pc \in CreatePoints \ {"createFile"} => mine
  /\ pc = "return" /\ op.kind = "create" => mine

(* What the call has made of the storage of its table. *)
StorageOfCall ==
  LET n == op.name
      created == TableFile(HeaderOf(op.schema), {}, FALSE)
  IN  /\ pc = "createFile" => NoStorage(n)
      /\ pc = "writeHeader" => tableFile[n] = Partial /\ ~counterFile[n]
      /\ pc = "closeHeader" => tableFile[n] \in {Partial, created} /\ ~counterFile[n]
      /\ pc = "createCounter" => tableFile[n] = created /\ ~counterFile[n]
      /\ pc \in {"register", "writeCatalog", "rollbackFile"} =>
           tableFile[n] = created /\ counterFile[n]
      /\ pc \in {"rollbackCounter", "dropCounter", "dropCatalog"} => tableFile[n] = None
      /\ pc = "dropCatalog" => ~counterFile[n]

(* A catalog file stands under the name of its table. *)
CatalogsInPlace ==
  \A n \in Requested : catalogFile[n] # None => /\ n \in TableNames
                                               /\ catalogFile[n] \in CatalogFiles(n)

(* The entry that Register has made, before its catalog file is written. *)
Unwritten(m, n) == pc = "writeCatalog" /\ m = caller /\ n = op.name

ManagersInStep ==
  /\ \A m \in Managers, n \in Requested :
       n \notin elsewhere[m] /\ ~Unwritten(m, n) => tables[m][n] = registered[n]
  /\ pc \in CreatePoints /\ op.name \notin elsewhere[caller] => registered[op.name] = None
  /\ pc = "writeCatalog" => tables[caller][op.name] = op.schema

Undisturbed(n) ==
  IF registered[n] = None THEN tableFile[n] = None /\ ~counterFile[n]
  ELSE /\ tableFile[n] \notin {None, Partial}
       /\ tableFile[n].columns = HeaderOf(registered[n])
       /\ counterFile[n] \/ tableFile[n].legacy

StorageInStep ==
  \A n \in Requested \ disturbed :
    /\ \/ Undisturbed(n)
       \/ n = op.name /\ pc \in CreatePoints \cup {"dropCounter", "dropCatalog"}
    /\ n = op.name /\ pc \in CreatePoints => registered[n] = None

(* No row was validated against another schema than that of the catalog. *)
OwnStorage ==
  \A n \in Requested \ clashed :
    /\ registered[n] # None /\ tableFile[n] # None =>
         /\ tableFile[n] # Partial
         /\ tableFile[n].columns = HeaderOf(registered[n])
         /\ tableFile[n].rows \subseteq {registered[n]}
    /\ tableFile[n] # None =>
         \A m \in Managers : hasTable(m, n) /\ ~Unwritten(m, n) => tables[m][n] = registered[n]
    /\ n = op.name /\ pc \in {"writeHeader", "closeHeader"} => registered[n] = None

IInv == /\ TypeOK
        /\ CatalogsInPlace
        /\ CallInProgress /\ StorageOfCall
        /\ ManagersInStep /\ StorageInStep /\ OwnStorage

(* createTable, its rollback included, changes no table file that it has not *)
(* created itself, also when the manager has not heard of the table.         *)
CreateKeepsForeignStorage ==
  [][op.kind = "create" /\ ~mine =>
       \A n \in Requested : tableFile[n] # None => tableFile'[n] = tableFile[n]]_vars

(* A createTable that throws leaves no table file behind                     *)
(* ("assert(!std::filesystem::exists(root / "tables" /                       *)
(* "catalog_blocked.csv"))" after a failed create, tests/test_storage.cpp).  *)
FailedCreateLeavesNoFile ==
  [][op.kind = "create" /\ mine /\ reply' = "error" =>
       tableFile'[op.name] = None]_vars

(* createTable and dropTable implement the registry: the registered tables   *)
(* are the catalog files, whichever manager the calls are made on.           *)
Registry == INSTANCE TableRegistry
              WITH Names <- Requested, registered <- registered,
                   call <- op, done <- pc = "return"
RegistrySpec == Registry!Spec
=============================================================================
