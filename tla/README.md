# A TLA+ verification of the vector row database

The repository is a small embedded database in C++: typed tables (integers,
text, float vectors), stored as CSV files, queried by a sequential scan that can
be spread over a thread pool.  This directory holds TLA+ models of its core, the
TLC configurations that check them on small instances, and proofs, checked by
TLAPS, for every instance: of the storage engine, creating and dropping tables, a
scan beside a writer, the query executor, what a select answers, with one worker and
with several, what the characters of a table file read as, and the command line program.

Paths below are relative to the repository (`src/...` is the library's source,
`include/...` its headers).

## 1. The system

| component | state it keeps | operations | who calls it |
|---|---|---|---|
| `DatabaseManager` (`src/db/database_manager.cpp`) | owns the catalog and the engine | `createTable`, `dropTable`, `insert`, `update`, `erase`, `select` | the CLI, programs |
| `Catalog` (`src/db/catalog.cpp`) | `tables_`, the schemas in memory | `load`, `createTable`, `dropTable`, `hasTable`, `schemaFor` | `DatabaseManager` |
| `FileStorageEngine` (`src/storage/file_storage_engine.cpp`) | four files per table: rows, row-ID counter, catalog, and the temporary files they are published from | `createTable`, `dropTable`, `appendRow`, `updateRow`, `deleteRow`, `openCursor`, `writeSchema`, `removeSchema`, ... | `DatabaseManager`, `Catalog` |
| `TableCursor` (same file) | an open stream, the IDs seen, the counter read at opening | `readNextPage`, `finished` | `select` |
| `CsvFormat` (`src/storage/csv_format.cpp`), `serialization.cpp` | none | table, catalog and counter files to rows and back; three table layouts, two catalog headers | the engine, the cursor |
| `Page` (`src/storage/page.cpp`) | a bounded vector of rows under a mutex | `addRow`, `takeRow`, `snapshot`, ... | cursor, executor, engine |
| `QueryExecutor` (`src/query/executor.cpp`) | `State`: rows so far, matches skipped, complete | `begin`, `executeBatch`, `execute` | `select`, the pool's workers |
| `ThreadPool` (in `database_manager.cpp`) | task queue, mutex, condition variable, `stopping_`, threads | `submit`, destructor | `select` |
| types, predicates, distances | none | validation, comparison, arithmetic | the above |
| command line (`src/cli.cpp`) | none between processes | `init`, `list`, `describe`, `create`, `insert`, `update`, `delete`, `select [--csv]` | users, scripts |
| demo, benchmark, generator | none | calls of the library | users |

How they interact.  A data-changing call reads the whole table through
`CsvFormat`, and then performs a fixed sequence of file operations; there is no
log and no recovery procedure, so whatever sequence prefix a failure or a crash
leaves is what the next call reads.  `createTable` spans two components, storage
first, catalog second, with a rollback of each by the other.  `select` reads pages
with a cursor, gives them to workers that share the schema and the executor by
reference, and merges the results in page order.

What is hard in it:

* **partial failure and crash** between any two file operations of an insert, a
  rewrite, a layout upgrade, a create or a drop;
* the **row-ID counter**, which must be ahead of the rows in every state a failure
  can leave, in three layouts, one of which stores no IDs at all;
* **stale catalogs**: every `DatabaseManager` has loaded its own, and nothing tells it
  of tables that another one creates or drops;
* **files from elsewhere**: tables and catalogs of two earlier versions, exports that
  a user copies over a table file;
* **interleavings** of the calling thread and the workers over a queue, a condition
  variable and futures, with exceptions thrown by either side and a destructor
  that has to stop and drain what is running;
* **boundaries**: the largest row ID; offset and limit across pages; a table
  that ends exactly with a page; read-ahead at its bound.

What makes each component correct:

* *engine*: no row ID is ever given twice; a table the engine wrote can be read by
  the engine; a reported success is in the file; rows of other IDs are not touched;
  each call is atomic with respect to failure;
* *create and drop*: catalog, memory and storage agree between calls; a failed call
  leaves nothing; one table's storage is never taken for another's; rows fit the
  schema that the catalog has for them; a database can always be opened;
* *command line*: what is printed tells what is stored, and can be given back: as a
  row's words, as a declaration, as a table file;
* *select*: the rows returned are the meaning of the query, in table order, for
  every page size, worker count and schedule; memory is bounded; the call ends, and
  when it has ended nothing of it runs any more.

The full list of hazards, each at the line where it bites and with the properties
that cover it, is in `PROJECT.json`.

## 2. The modules

```
RowStore          what an engine promises for one table        (abstract)
TableStorage      FileStorageEngine on the files of one table  implements RowStore
TableCursor       a scan beside a writer          EXTENDS TableStorage
FileStorageEngineProofs                           theorems of these, and that refinement
TableRegistry     what createTable/dropTable promise           (abstract)
CatalogFormat     columns, schemas, catalog files  (operators)
DatabaseTables    DatabaseManagers + Catalogs + engine          implements TableRegistry, EXTENDS CatalogFormat
DatabaseTablesProofs                              its theorems, and that refinement
SelectQuery       query semantics, pages, executor steps       (operators)
SelectQueryProofs                                 lemmas about queries, matches and pages
SequentialSelect  select with one worker          EXTENDS SelectQuery
QueryExecutor     predicates, projection, batches implements SequentialSelect
QueryExecutorProofs                               their theorems, and that refinement
ParallelSelect    select with a ThreadPool        EXTENDS SelectQuery
ParallelSelectProofs                              its theorems
CsvFormat         records and rows as characters  (operators)
CsvAppends        table files as characters       EXTENDS CsvFormat, CatalogFormat
FormatProofs                                      what catalogs and the fields of a row read as
CsvAppendsProofs                                  what characters read as: its theorems
CommandLine       the program of cli.cpp          EXTENDS CsvFormat, CatalogFormat
CommandLineProofs                                 its theorems
MC*               instances for TLC
```

### TableStorage: insert, update and erase, one file operation at a time

`appendRow`, `updateRow` and `deleteRow` share their steps, so the model has a
program counter and one action per file operation:

```
read --> [counter --> publishCounter] --> append --> close --> return         insert
                                     \--> rewrite --> publishTable --> return insert with
                                                                  upgrade, update, erase
```

* `ReadForInsert`, `ReadForChange`, `ReadMissing` are `readTable` with all its
  checks (`Readable`) and the choice of the ID; `WriteCounter` and
  `PublishCounter` are `writeNextId`; `WriteTable` and `PublishTable` are
  `writeTable`; `AppendRecord` and `CloseAppend` are the append to the live file
  that `appendRow` uses when the table is in the current layout.
* `Throw` is a `StorageError` at any point, `Crash` the death of the process at any
  point.  A temporary file can be partial (then it is never published).
* A table file is `[layout, rows, tail]`.  `layout` is one of the three
  `TableReader` accepts: `noid` (IDs are positions), `nobitmap` (IDs, no NULL
  bitmap) and `bitmap` (current).  `rows` is what the file reads as.  `tail` is
  `clean`, `unterminated` (the last record lacks its newline, and still reads) or
  `torn` (the reader throws).
* `WriteOutcomes` says what an append may leave: nothing, part of the record, all of
  it but the newline, all of it.  A cut inside the last cell can read as another
  valid row, and a few bytes of the next record can run into that cell:
  `Misread` says which.
* Not in the model: a call whose row `validateRow` refuses (it returns before any
  file is touched), and what the three file formats look like character by
  character.

`RowStore` is the promise: a map from IDs to rows; a call takes effect at most
once, in one step; success means it has; an ID reserved is never chosen again.
The refinement (`Store` in `TableStorage`) maps the abstract table to the rows of
the *live* file, the reserved IDs to the history variable `issued`, and "has taken
effect" to the control points after the append or the rename.

### DatabaseTables, CatalogFormat: create and drop

`DatabaseManager::createTable` is: check the name, the catalog in memory, the columns
and the two storage files; create the table file; write and close the header; write
the counter (on failure remove the table file); register in memory; write the
catalog file, which must be new (on failure unregister, then drop the storage, then
throw).  `dropTable` removes table file, counter and catalog file, and forgets the
table.  Every file operation is an action that can also fail where it stands.

There are several managers, each with the catalog it loaded when it was constructed
(`tables[m]`); a call is made on one of them (`caller`), and calls do not overlap, but
any manager may have outdated its neighbours.  `Crash(m)` is the end of a manager, in
the middle of its call if it has one, and the construction of another with
`Catalog::load`.  `Insert` is one step: the row is validated against the schema in
memory, the file's header is compared with it.  A table file is its column names, the
schemas its rows were validated against and whether it has IDs; a catalog file is
what `CatalogFormat` writes and reads, in the current form or in the one without
nullability, which databases of earlier versions have at the start.

Three history variables say where promises end: `disturbed` has the names at which a
call died half-way or failed where the code leaves what it has done; `elsewhere[m]` the
names whose catalog file another manager has changed since `m` loaded; `clashed` the
names at which storage was created while the catalog or another manager still had a
table.  `mine` says whether the running call created the table file.  `TableRegistry` is
the promise, on the catalog files alone; the refinement takes effect at the write or
the removal of the catalog file, whichever manager does it.

`CatalogFormat` is `Column::validate`, the constructor of `Schema`, `writeSchema` and
`readSchema`, with all the reasons for which the latter throws.

### SelectQuery, SequentialSelect, ParallelSelect

A row is reduced to what the predicates make of it: it matches, it does not, its
evaluation throws (cosine distance of a zero vector), or its record cannot be read.
`SelectQuery` has the cursor's paging, the executor's `State` with offset and
limit, and what they are to compute: `StateOf` says what is left of all the matches
of a range of rows for an offset and a limit.  There are two declarative outcomes:
`SequentialOutcome` says what a query means over the whole table, `ParallelOutcome` what read-ahead and page-wise evaluation
add to it: errors, never rows.  A worker evaluates its page without the limit, and the
cursor reads ahead of it, so a row that one worker never looks at can make several
workers throw where one answers.

`ParallelSelect` is the pipeline of `select`: the calling thread (`Main`, one action
per step between two critical sections) and the workers (`Take`, `Wait`, `Exit`,
`Run`), the queue, the condition variable (`waiting` workers; `NotifyOne` wakes an
arbitrary one, or nobody when nobody waits), the futures, the exceptions of a
worker's page, of the cursor, and of a thread that cannot be created, and the
pool's destructor.  Spurious wake-ups are not an action: a worker that wakes with
an empty queue waits again without any visible change.

### QueryExecutor: what a row is worth

`QueryExecutor` opens up what `SelectQuery` leaves abstract: a schema, rows of cells,
predicates (integer, text, vector, NULL) and projections.  `begin` validates
(`Accepts`), `executeBatch` takes the rows of a page one after the other (`TakeRow` is
one round of the code's loop), and `Verdict` evaluates the predicates of a row up to
the first that is not true, with the code's throws.  It implements `SequentialSelect`:
a row is mapped to its kind by what its predicates *mean* (`KindOf`, which does not use
`Verdict`), a query that `begin` refuses to one that never proceeds.  `executeBatch` of
the code validates the query again for every page, with the same result; that is left
out.  Values are sequences of numbers.  Distances, of vectors of any dimension, are
compared with the threshold 1, for which `distance` needs no root and no quotient.

### TableCursor: a scan beside a writer

The scan's steps are the file operations of `openTableCursor` (a look at the header,
the counter, the second open) and the pages of `readNextPage`; the writer's are those
of `TableStorage`, with their failures and crashes, in between.  The scan keeps the
file it has open when a rename replaces it (`file`), and sees appends to the live
one.  The code sets no lock, so that any order is possible.  `Drop` removes the table
at any point of the scan and `Create` makes an empty one with the same columns, each in
one step (their file operations are `DatabaseTables`' subject); a scan that has the old
file open reads it to its end, one that has not fails or scans the new table.  Any file
may fail to open and any read may fail (`OpenFails` and `ReadPageFails`, with the history
`ioError`); a read that fails looks like the end of the file to the reader, so that
`readNextPage` asks the stream whether it is bad (`AfterFailure`).  The caller may close
the cursor before the end, as a query with a limit does.

### CsvFormat, CsvAppends: what the bytes read as

`TableStorage` assumes what a record that was cut short, or that follows one without
its newline, can read as.  `CsvFormat` has the writer's escaping, the reader's loop
character by character, the NULL bitmap, and the header, from whose number of fields
the reader tells the layout, with the other name that exports give the ID column.
`CsvAppends` appends records whole and cut at every character to a table file,
rewrites it, and states those assumptions about the characters.  Row IDs have one
digit; an integer is a sequence of digits; a vector is one token, which the reader
accepts or not.

### CommandLine: the program

Each command is a process that opens the database, so that a command is one step.
An argument is a word, a sequence of tokens; `parseColumn`, `parseCell`, `parseSize` and
`parseVector` are modelled by which words they take and what they make of them, `main`
by one action for each command and `Usage` and `Fail` for exit codes 2 and 1.  `describe`,
`select` and `select --csv` put what they print into `last`; the latter is a table file,
which the user may keep (`exports`) and copy over the table later (`Restore`).
A table file is its header and its records, each a sequence of fields; what happens
between fields and characters is in `CsvAppends`.  Tables
of earlier versions may be there at the start, with a counter or without one
(`OldTablesAssumption`: they are tables that the program can use).  `MaxDimension`
bounds the dimension that a `create` may declare (`FitsBound`).

## 3. What TLC checks

| run | shows | bounds |
|---|---|---|
| `storage_faults` | row IDs, counter and rows stay sound under any sequence of errors, torn writes and crashes; `IInv` is the invariant that section 4 proves | IDs up to 4, initially up to 2 rows in any layout, two row values |
| `storage_refines` | with appends that happen entirely or not at all, the engine implements `RowStore` | the same |
| `storage_torn_insert` | *violation*: a torn append makes the table unreadable for ever | the same |
| `tables_safety` | catalogs, memory, storage and rows agree through failures, rollbacks, restarts, outdated managers and old catalogs; `TableRegistry` is implemented | three managers, one allowed and one refused name, three schemas, one of them with a reserved column, and tables of an earlier version |
| `tables_leftover` | *violation*: a failed create leaves its table file | the same, two managers |
| `executor` | the one-worker select answers every query as its declarative meaning says; the executor's loop implements the abstract scan, throws only where a record or a distance makes it, returns rows that fit their schema | every table of up to 4 rows of four kinds, pages of 1 and 2, offsets 0..2, limits 0..2 or none; three columns, one of them of vectors with two coordinates, valid predicates in pairs, odd ones, and projections, over tables of up to 3 rows |
| `cursor_scan` | a scan returns the table of one moment, also when reads fail and when the table is dropped and created again; it throws only if the table changed, is gone or is torn, or if a file is not opened or not read | IDs up to 3, two values, pages of 1 and 2 rows, chosen anew for each page |
| `csv_appends` | records and tables, whole, cut and glued, read as `TableStorage` says | all texts of up to two characters out of quote, comma, LF, CR and a letter, NULL, integers; four schemas, one with a column named like the IDs'; two records at most |
| `csv_subnormal` | *violation*: a vector with a subnormal coordinate is written and not read back | the same, and such a vector |
| `command_line` | commands in any order, with exports copied back, keep the table usable and its IDs fresh; what is printed is what is stored | one table declared in three ways or old, 50 command lines, well-formed and not, IDs up to 2 |
| `select_parallel` | no schedule changes the answer, loses or repeats a page, reads too far ahead or leaves a worker behind; every select ends | 3 workers, 1 or 2 pages in flight, 9 tables of 4 rows and 2 short ones, all limits; 3 pages in flight for three of the tables |
| `select_spawn_failure` | *violation*: it does not end when a thread cannot be created | 2 workers, 3 pages in flight, 4 pages |

Why the bounds are enough.  *IDs up to 4*: two initial rows, one insert, and the
exhausted counter; every control path of the three calls, in all layouts, is
taken with the counter absent, just above the rows, ahead of them, and at its
maximum; two values suffice to tell an old row from a new and a misread one.  All
write outcomes are allowed in `storage_faults`; `storage_refines` restricts them to
`absent` and `complete`, which is what a record no longer than the stream's buffer
gets from the single `write` that `close` issues when the process may die but the
write itself is not cut short.  *Three managers, one
name*: one manager drops and creates a name again, with another schema, while a second
still has the old table and a third has none; every call touches only the files of
its own name and its own entry in memory, so that a second allowed name adds states
(over two million) and no behaviour; the refused name is there for what a load makes
of it.  *Two IDs in `command_line`*: a row is deleted and another inserted while an
export has both.  *Four rows
with pages of one or two*: a limit met inside a page, at its last row, and not at
all; an offset that ends inside a page; a table that ends with a full page (so that
the last page read is empty).  *Three workers, one or two pages in flight*: some worker is
waiting while two are running, the bound on read-ahead is met, and with one page in
flight the last, empty page is read when nothing is left to collect.

*Two characters of text*: an escaped quote is two characters, and the reader looks two
characters ahead.  *Three IDs in the cursor's run*: two rows that are read page by page
and one that is inserted meanwhile, with a page boundary before, between or after the
rows that change.

Deadlock is checked in the storage, table, cursor and command-line runs.  It is not in the select
runs: a select is one call, which ends; that it does is `Terminates`.  Nor is it in
`CsvAppends`, where an unreadable table or the last ID stops every operation.

Type invariants are part of the inductive invariants `IInv` and `ScanInv`, which the
runs check before section 4 proves them; `command_line` has its own `TypeOK`.

Fairness.  Only `select_parallel` and `select_spawn_failure` use it: weak fairness
of the calling thread and of each worker, that is, a thread that can go on will be
scheduled.  Nothing is assumed about which waiter `notify_one` wakes, in which order
workers get the mutex, or that file operations succeed.

No module uses RECURSIVE: loops are recursive functions over positions, of which the
proofs show by induction that they are defined.

Each property has, in `PROJECT.json`, a mutant: a plausible mistake in one
definition of a model under which TLC finds the property violated.  The mutated
definitions stand beside the originals, marked `Mutant`.

## 4. What TLAPS proves

Every theorem holds for all values of the constants that the named assumptions admit.
None is taken from a bounded instance, and none is conditional but where it says so.

### The engine: FileStorageEngineProofs

For every `MaxId`, every set of rows `Vals`, every number of initial rows, all write
outcomes and every `Misread`, from `StorageAssumption`: there are at least two row IDs,
the placeholder for "no row" is not a row, and the constants are sets of what they
should be.

| theorem | states |
|---|---|
| `Inductive`, `TypeCorrect` | `Spec => []IInv`, `Spec => []TypeOK` |
| `NotLockedOut` | `Spec => []NeverLockedOut` |
| `FreshIds` | `Spec => []ReservesFreshId` |
| `SuccessStored` | `Spec => []SuccessIsStored` |
| `CounterGrows` | `Spec => CounterNeverLowered` |
| `RowsChange` | `Spec => RowsChangeOnlyByTheirCall` |
| `ImplementsRowStore` | `AtomicAppends => (Spec => StoreSpec)` |

None of the invariants is inductive by itself: that an insert reserves a fresh ID
depends on the counter being above every ID ever reserved, and in a table without an
ID column the counter may not exist yet.  `IInv` therefore adds to `TypeOK`

* `UsedBelowHighWater`: the rows' IDs have all been issued, and every issued ID is
  below the *high-water mark*, which is the counter where there is one and one more
  than the number of rows where there is none - and there is none only in the layout
  without IDs;
* `CallInProgress`: what the call in progress relies on at each point of its
  control: the rows it read are the rows in the file (it is alone), the ID it chose
  is at or above the high-water mark until it is published and issued but unused
  from then on, the temporary counter is the larger of the wanted and the old one,
  the temporary table is the table it means to write, and at the end the effect is
  in the file.

Its preservation is proved action by action; the action properties follow from it.
The facts about cardinality (a layout without IDs is numbered by position, so its
rows are below the count plus one) come from the library's theorems on finite sets.

The refinement has one hypothesis, `AtomicAppends`: an append leaves all of the record
or nothing of it (`WriteOutcomes` is within `absent` and `complete`).  It is false of a
full disk, and then the refinement is false too: `storage_torn_insert` shows it.
With it, a record that is cut never occurs (`Clean` is the additional invariant),
`PublishCounter` is the abstract reservation, `PublishTable` and `AppendRecord` are
where a call takes effect, and all other steps are stutters.

### Create and drop: FormatProofs, DatabaseTablesProofs

For any managers, names, schemas, and catalogs of an earlier version, from
`TablesAssumption` (schemas are what the constructor of `Schema` accepts, those of
the earlier version have no nullable column) and `NoneAssumption` (the placeholders
for an absent and for a partial file are not files).

| theorem | states |
|---|---|
| `SchemaReadsBack` | a catalog file written for any schema is accepted for that table, and read back as that schema |
| `OldSchemaReadsBack` | so is one without nullability, for a schema without NULL |
| `Inductive`, `TypeCorrect` | `Spec => []IInv`, `Spec => []TypeOK` |
| `InStepWithFiles` | `Spec => []CatalogInStep` |
| `Loads` | `Spec => []AlwaysLoads` |
| `StorageMatches` | `Spec => []StorageMatchesCatalog` |
| `OwnStorageOnly` | `Spec => []NeverRegisteredOverForeignStorage` |
| `StoredRowsFit` | `Spec => []RowsFitTheirSchema` |
| `KeepsForeignStorage` | `Spec => CreateKeepsForeignStorage` |
| `ImplementsRegistry` | `Spec => RegistrySpec` |

The invariant says of the name of the call in progress what the steps before have
left (`CallInProgress`, `StorageOfCall`), and of every other name and manager what
holds between calls: `CatalogsInPlace` (a catalog file is one of its own table, in
one of the two forms, so that it loads: here `SchemaReadsBack` is used),
`ManagersInStep` (a manager knows of what the files have, but for the names in
`elsewhere`), `StorageInStep` (complete storage or none, but for the names in
`disturbed`), `OwnStorage` (but for the names in `clashed`: the file of a registered
table is whole and has its header and rows of its schema only, and a manager that has
the table has that schema).  The last one is stronger than the properties it implies,
`OwnStorageOnly` and `StoredRowsFit`; `StorageOfCall` is what makes a rollback remove what
the call made and nothing else.

### A scan beside a writer: FileStorageEngineProofs

From `StorageAssumption` and `ScanAssumption` (pages have at least one row).

| theorem | states |
|---|---|
| `ScanInductive` | `ScanSpec => []ScanInv` |
| `ScanThrowsOnlyBesideAChange` | `ScanSpec => []ThrowsOnlyBesideAChange` |
| `SnapshotScan` | `ScanSpec => ScanIsASnapshot` |

`ScanInv` has the writer's `IInv`, whose proof is reused: a `Write` is a step of
`TableStorage`, and `Create` and `Drop` re-establish it.  `FirstRowsReturned` is the
core: the rows returned so far are the first rows of the file that is open, as they
still stand there; an append changes only what follows them, because IDs are fresh
and above all others, and every other write replaces the file, which the scan keeps.

`ThrowsOnlyBesideAChange` says of each throw that has no I/O error behind it where it comes
from (`ThrowsStep`): a scan that asks for a counter has seen a table with IDs, whose counter
`IInv` says is there, and a counter that is too low for the rows was read before the table
was changed (`WhileUnchanged`).  So neither failed nor interrupted calls leave a state, but
for a torn append, in which a table cannot be scanned.

### Selects: SelectQueryProofs, ParallelSelectProofs, QueryExecutorProofs

For any table, offset, limit, page size, and for `ParallelSelect` any number of
workers above one, any `maxInFlight` and either value of `SpawnMayFail`, from
`PoolAssumption` (the queries are queries, the workers are finitely many) and
`NoLimitAssumption`.  The theorems about `SequentialSelect` are in `QueryExecutorProofs`,
where its instance `Single` is over any set `Selects`, with the one hypothesis that its
members are queries: they hold whether or not an executor is behind the queries.

| theorem | states |
|---|---|
| `SequentialAnswer` | `Single!Spec => []Single!AnswersTheQuery`, one worker |
| `SequentialPrefix` | `Single!Spec => []Single!PrefixAnswered` |
| `PoolInductive` | `Spec => []PoolInv` |
| `Inductive`, `TypeCorrect` | `Spec => []IInv`, `Spec => []TypeOK` |
| `ReadAheadIsBounded` | `Spec => []BoundedReadAhead` |
| `OneRunner` | `Spec => []OneRunnerPerPage` |
| `QuietWhenDone` | `Spec => []QuietAfterReturn` |
| `Answers` | `Spec => []AnswersTheQuery`, several workers |

*The query.*  The heart is that taking in page after page makes the state that all
their matches make at once (`CollectJoins`, `PageCollects`): the matches of adjacent
ranges are those of the whole (`MatchingJoins`), and skipping and cutting commute with
concatenation (`SubSeqJoins`).  When the limit is reached, the last row that is needed
is among those seen, and rows beyond it change nothing (`CompleteState`); before, some
row further on is needed (`IncompleteState`).  From these two follows in which cases a
select must throw and may not (`SequentialThrows`, `SequentialAnswers`,
`ParallelThrows`, `ParallelAnswers`).

`Matching` is a recursive function over the rows.  The provers do not know that such
a recursion has a solution, nor induction as a rule; both are proved here:
`Least` (a set of numbers has a least one) from the library's theorem that strict
inclusion of finite sets is well-founded, `Induction` for sets of numbers from that,
and `MatchingDefined` by induction over the functions that follow the recursion up
to a row.

*The pool.*  `PoolInv` says that pages are submitted once, in the order in which they
are read (`PagesInOrder`); that a queued page is in the queue once or with one worker
(`RunnerOfPage`); and which threads exist at which step of the calling thread, and that
a worker has ended only when the pool is stopping and its queue is empty
(`PoolOfSelect`).  The cardinalities in the properties follow from these.

*The answer.*  `AnswerInv` ties this to the query: the state is `StateAfter` the pages
collected, whose number is the last page submitted less those pending
(`PagesAccountedFor`); no page collected has raised, no page read was malformed; and
select does not collect before it has read ahead as far as it may, which is why the
errors of read-ahead depend on no schedule: `ParallelOutcome` is one value.

### The executor: QueryExecutorProofs

For any schema, tables of rows that are valid for it, and queries with any predicates and
projections, from `SchemaAssumption` (column names are unique), `QueriesAssumption`
(queries are queries, and every row of the table was validated or cannot be read) and
`NoLimitAssumption`.  Queries that `begin` refuses are among them.

| theorem | states |
|---|---|
| `ExecutorAnswers` | `Spec => []AnswersTheQuery` |
| `ExecutorPrefix` | `Spec => []PrefixAnswered` |
| `ExecutorThrows` | `Spec => []ThrowsOnlyForZeroVectors` |
| `ExecutorFits` | `Spec => []ResultFitsItsSchema` |
| `ExecutorImplements` | `Spec => SequentialSpec` |

The argument has three layers.  *One predicate*: what `evaluatePredicate` returns for a
cell that is valid for the column, and a predicate that `validatePredicate` passed, is
what the predicate means (`PredicateMeans`); the only throw left is the undefined
distance.  *One row*: the first predicate that is not true decides, for the code's loop
and for the meaning alike (`VerdictIsKind`).  *One page*: taking the rows of a page one
after the other makes of the state what `ExecuteBatch` of `SelectQuery` makes of it at
once (`PageTaken`), by induction over the rows: as long as nothing was thrown, the state
after row *i* is `StateOf` the matches up to *i* (`RowTaken`, `BatchRows`), and it throws
only at a row that is needed (`RaisesNeeded`).  `ExecInv` then says between the steps
that the state is the answer over the rows read, that no needed row has thrown, and
that a query that is refused has not begun.  `ResultFitsItsSchema` follows from an
invariant of its own, about what projection copies (`ProjectionFits`).

### Sequences of commands: CommandLineProofs

For any argument vectors, names, tokens (`Characters`) and tables of earlier versions,
with the bounds `MaxId` on row IDs and `MaxDimension` on the dimensions of vectors, from
`CommandsAssumption` (words are made of the characters, digits among them; a colon
is no name) and `OldTablesAssumption` (the tables at the start are ones that the program
can use, `IsTable`).

| theorem | states |
|---|---|
| `Inductive` | `Spec => []CInv` |
| `TypeCorrect` | `Spec => []TypeOK` |
| `Readability` | `Spec => []StaysReadable` |
| `CellsTyped` | `Spec => []CellsCanBeTyped` |
| `DescriptionsDeclare` | `Spec => []DescribedCanBeDeclared` |
| `InsertedIdsNew` | `Spec => InsertedIdsAreNew` |
| `ExportsAreLossless` | `Spec => ExportReadsBack` |
| `NullIsTold` | `Spec => TerminalTellsNull` |

`CInv` says that every table satisfies `IsTable`: its catalog loads, its file is read with
the schema of the catalog, and its counter, if it has one, has passed the rows.  That is
not inductive without the exports, because a user may copy one back after any number of
other commands: `GoodExport` says that an export is that of rows that still fit the
table's schema, below its counter or, while the table has none, that they are the rows
the table has.

`TypeOK` includes that every row read from the file passes `validateRow` with the schema.
`InsertedIdsAreNew` compares the ID of a new row with those of all rows, in the table and in
the export that is held, and with the counter: it is above the former, at or above what the
counter was, and below what the counter is; and no command lowers a
counter (`CountersGrow`), so that an ID that insert has given out is not given out again.

*Rows.*  The record written for a row that fits the schema is taken for this row
(`RowReads`), a record that is taken for a row is one that fits (`RecordFits`); so,
record by record, a file is read as the rows it was written from (`RowsRead`) and
whatever is read fits (`ReadRowsFit`).  Insert, update, delete and restore are then
about sequences of rows.  *Words.*  A word that `parseCell` takes, and `validateRow`
passes, gives a cell that fits (`CellParsed`); each cell that fits has a word
(`CellCanBeTyped`: the escape of a leading backslash, and the bracketed vectors of any
dimension, whose commas are counted); and what `describe` prints of a column that
`validate` passes is parsed as this column (`ColumnCanBeDeclared`).

### Table files as characters: CsvAppendsProofs

For any schemas, any texts over any set of `Characters`, any table files at the start
that an earlier version or this one could have written, and IDs up to nine, from
`CharactersAssumption` (the digits are characters), `CsvAssumption` (so are quote, comma
and line ends, while the end of a file is none; rows were validated by their schema; the
files at the start are whole and have IDs no larger than their number of rows).

| theorem | states |
|---|---|
| `AppendsReadBack` | `ReadableRows => (Spec => AppendReadsBack)` |
| `PartsReadAs` | `Spec => PartReadsAs` |
| `GluedRecordsAreNoRows` | `Spec => GluedIsNoRow` |
| `RewritesKeepRows` | `Spec => RewriteKeepsRows` |

`ReadableRows` says that what is stored for a cell can be read as the column's type.  It
fails for a subnormal coordinate, and then so does the conclusion: `csv_subnormal`.

The reader's loops (over characters, over the fields of a record, over the records of a
file) are recursive functions on their states, of which it is proved that each has one
end and reaches it (`ReachUnique`, `ReachToEnd`).  The rest goes up from there:

* *one field*: the characters of an escaped text, between quotes, are read as that text,
  two characters at a time where a quote is doubled (`CharReads`, `ContentReads`);
* *one record*: the fields written are the fields read, and the reader stops at the
  newline (`FieldsRead`, `RecordReads`); what follows the place where the reader stands
  does not change what it has read (`RecordKept`, `Grows`), so that a record cut anywhere
  is malformed, or is read with its last field cut short or whole (`CutReads`);
* *one file*: a file that is read to its end is a beginning and one more record
  (`TableCut`, `FileEnds`), which gives what a whole record, a part of one, and either of
  them behind a record without its newline read as (`WholeAppended`, `PartAppended`,
  `GluedWhole`, `GluedPart`); and a file written row by row reads as the rows
  (`RewrittenReads`), since those read from any layout fit the schema (`TableFits`).

The inductive invariant is `Inv`: the file is a table's, and if it can be read then it is
empty or ends with a newline or a quote (no last field is open, so that what follows can
only lengthen it), and the IDs in it are below the counter.  Without the last part, the
ID of an appended record could be one that the file has, and the reader refuses it.  TLC
found `Inv` invariant on the instance of `csv_appends`, before it was proved.

### What is only model-checked

* Liveness: `Terminates`, under fairness, and with it `ENABLED`, is beyond the prover.
* The refutations of section 5.

## 5. Where the code and its documents disagree

* **A torn insert locks the table** (`storage_torn_insert`).  Inserts into a table in
  the current layout are appended to the live file.  When only part of the record
  reaches it (full disk, file size limit, process killed during a long record), the
  call throws, the part stays, and every later call on the table throws `malformed
  CSV record`.  `docs/storage-format.md` promises temporary-file publication for the
  counter only, but says that these paths cover process interruption and checked I/O
  failures.
* **A failed create leaves its file** (`tables_leftover`).  If the header cannot be
  written, the table file stays: the name can then be neither created nor dropped.
* **A refused thread hangs select** (`select_spawn_failure`).  The pool's destructor
  does not run when its constructor throws; the threads already created are joined
  while they wait.
* **A subnormal coordinate locks the table** (`csv_subnormal`).  `std::stof` throws for
  it, so that the row, once inserted, makes every call on its table throw.

## 6. What is not modelled, and the plan

Not modelled: calls of two processes or managers that overlap in time (the design
proposal excludes concurrency control; two writers can lose updates), power loss (the
documentation excludes it: there is no `fsync`), floating-point arithmetic, the drawing
of tables on a terminal, Windows file sharing.

I/O errors: every operation of the storage and catalog calls, and of a scan, may fail in
its run, but not in `command_line`, where each file operation succeeds (what failures leave
is the subject of `storage_faults`, `tables_safety` and `cursor_scan`), nor in the selects,
where a page that cannot be read stands for every failure of a scan.  Exhausted memory is
not modelled, except that a thread may be refused.

`RowsFitTheirSchema` excepts a name where a call through an outdated manager met another
manager's create: that insert writes a row of the schema it has loaded.  `RewriteKeepsRows`
is about the rows that a rewrite keeps; what an update puts in their place, or an insert
adds behind them, is written by the same function, and read back in `AppendReadsBack`.

`Page` is not modelled: each of its operations is one critical section, and each page
has one owner at a time.

An export has IDs and a table of the oldest version has neither IDs nor, before its
first change, a counter.  Its export copied over it needs one, so that every command
then fails with `missing RowId counter`; no document promises otherwise, and
`StaysReadable` excepts it.

All modules of section 2 are written, with their runs and, but for what section 4 names
as only model-checked, with their proofs.  What a further step would be: row IDs of more
than one digit and the digits of numbers in `CsvFormat`, and several processes that
overlap.
