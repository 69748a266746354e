---------------------------- MODULE QueryExecutor ----------------------------
(***************************************************************************)
(* QueryExecutor under a one-worker select: begin, which validates the     *)
(* query, and executeBatch for one page after the other.  Rows have cells  *)
(* here, queries have predicates and projections; SequentialSelect, which  *)
(* knows only what the predicates make of a row, is what it implements.    *)
(*                                                                         *)
(* A query is a record [rows, projection, predicates, offset, limit,       *)
(* batchSize], its table included; the row at position i has the RowId i,  *)
(* and is Malformed when its record cannot be read.                        *)
(* A predicate is [kind, column, op, value, metric], a cell [type, value]: *)
(* a value is a sequence of numbers, of one for an integer and for a text  *)
(* (its place among the texts); the threshold of a distance is Threshold.  *)
(* Enumerators out of range, which only a cast produces, are left out.     *)
(***************************************************************************)
EXTENDS SelectQuery

CONSTANTS Schema,   \* a sequence of columns [name, type, dimension, nullable]
          Queries

Types == {"integer", "text", "vector"}
Comparisons == {"EQUAL", "NOT_EQUAL", "LESS_THAN", "LESS_THAN_OR_EQUAL",
                "GREATER_THAN", "GREATER_THAN_OR_EQUAL"}
Metrics == {"EUCLIDEAN", "COSINE"}
Threshold == 1
Malformed == <<>>

NullCell == [type |-> "null", value |-> <<>>]

Numbers == [1..1 -> Int]
Columns == [name : STRING, type : Types, dimension : Nat, nullable : BOOLEAN]
Cells == {NullCell} \cup [type : {"integer", "text"}, value : Numbers]
                    \cup [type : {"vector"}, value : Seq(Int)]
Predicates ==
  [kind : {"null"}, op : {"IS_NULL", "IS_NOT_NULL"},
   column : STRING, value : Seq(Int), metric : Metrics]
  \cup [kind : {"integer", "text"}, op : Comparisons,
        column : STRING, value : Numbers, metric : Metrics]
  \cup [kind : {"vector"}, op : Comparisons,
        column : STRING, value : Seq(Int), metric : Metrics]

(* Schema::validateRow, by which an inserted or updated row is judged.       *)
validateCell(column, cell) ==
  IF cell = NullCell THEN column.nullable
  ELSE /\ cell.type = column.type
       /\ column.type = "vector" => Len(cell.value) = column.dimension
validateRow(schema, row) == /\ DOMAIN row = DOMAIN schema
                            /\ \A c \in DOMAIN schema : validateCell(schema[c], row[c])

(* A schema has been validated, and so have the rows that are stored.        *)
ASSUME SchemaAssumption ==
  /\ Schema \in Seq(Columns)
  /\ \A c, d \in DOMAIN Schema : Schema[c].name = Schema[d].name => c = d

ASSUME QueriesAssumption ==
  \A qu \in Queries :
    /\ qu \in [rows : Seq(Seq(Cells)), projection : Seq(STRING), predicates : Seq(Predicates),
              offset : Nat, limit : Nat \cup {NoLimit}, batchSize : Nat \ {0}]
    /\ \A i \in DOMAIN qu.rows : qu.rows[i] = Malformed \/ validateRow(Schema, qu.rows[i])

VARIABLES query,    \* the query, with the table it runs over
          begun,    \* begin has returned
          read,     \* how many pages the cursor has returned
          finished, \* TableCursor::finished()
          state,    \* QueryExecutor::State
          outcome   \* what select has returned or thrown

vars == <<query, begun, read, finished, state, outcome>>

-----------------------------------------------------------------------------
(* Columns and their names. *)

hasColumn(name) == \E c \in DOMAIN Schema : Schema[c].name = name
columnId(name) == CHOOSE c \in DOMAIN Schema : Schema[c].name = name

(* Mutant: any vector fits a vector column. *)
DimensionUnchecked(p, column) == p.kind = "null" \/ column.type = p.kind
validatePredicate(p, column) ==
  \/ p.kind = "null"
  \/ /\ column.type = p.kind
     /\ p.kind = "vector" => Len(p.value) = column.dimension

Accepts(qu) ==
  /\ \A c \in DOMAIN qu.projection : hasColumn(qu.projection[c])
  /\ \A c, d \in DOMAIN qu.projection : qu.projection[c] = qu.projection[d] => c = d
  /\ \A j \in DOMAIN qu.predicates :
       LET p == qu.predicates[j]
       IN  hasColumn(p.column) /\ validatePredicate(p, Schema[columnId(p.column)])

-----------------------------------------------------------------------------
(* Predicates: "true", "false", or "raise" when the evaluation throws.       *)

compare(left, op, right) ==
  CASE op = "EQUAL"                 -> left = right
    [] op = "NOT_EQUAL"             -> left # right
    [] op = "LESS_THAN"             -> left < right
    [] op = "LESS_THAN_OR_EQUAL"    -> left <= right
    [] op = "GREATER_THAN"          -> left > right
    [] op = "GREATER_THAN_OR_EQUAL" -> left >= right

IsZero(v) == \A i \in DOMAIN v : v[i] = 0
HasDistance(v, w, metric) == /\ Len(v) = Len(w)
                             /\ metric = "COSINE" => ~IsZero(v) /\ ~IsZero(w)

Dot(v, w) ==
  LET sum[i \in 0 .. Len(v)] == IF i = 0 THEN 0 ELSE sum[i - 1] + v[i] * w[i]
  IN  sum[Len(v)]

(* Distances are compared with Threshold, which is 1: a Euclidean distance   *)
(* is on the same side of it as its square is, and the cosine distance,      *)
(* 1 - Dot(v, w) / (|v| |w|), as 1 - Dot(v, w) is.                           *)
distance(v, w, metric) ==
  IF metric = "COSINE" THEN Threshold - Dot(v, w)
  ELSE LET delta == [i \in DOMAIN v |-> v[i] - w[i]] IN Dot(delta, delta)

Truth(b) == IF b THEN "true" ELSE "false"

evaluatePredicate(p, cell) ==
  CASE p.kind = "null" -> Truth((p.op = "IS_NULL") = (cell = NullCell))
    [] p.kind # "null" /\ cell = NullCell -> "false"
    [] p.kind \in {"integer", "text"} /\ cell.type = p.kind ->
         Truth(compare(cell.value[1], p.op, p.value[1]))
    [] p.kind = "vector" /\ cell.type = "vector" /\ HasDistance(cell.value, p.value, p.metric) ->
         Truth(compare(distance(cell.value, p.value, p.metric), p.op, Threshold))
    [] OTHER -> "raise"

(* The predicates of a query are evaluated in their order, up to the first   *)
(* that is not true, which decides.  Mutant: the last one does.              *)
Evaluated(qu, row, j) ==
  LET p == qu.predicates[j] IN evaluatePredicate(p, row[columnId(p.column)])
Stopping(qu, row) == {j \in DOMAIN qu.predicates : Evaluated(qu, row, j) # "true"}
VerdictOfLast(qu, row) ==
  LET last == CHOOSE j \in Stopping(qu, row) : \A k \in Stopping(qu, row) : j >= k
  IN  IF Stopping(qu, row) = {} THEN "true" ELSE Evaluated(qu, row, last)
Verdict(qu, row) ==
  LET first == CHOOSE j \in Stopping(qu, row) : \A k \in Stopping(qu, row) : j <= k
  IN  IF Stopping(qu, row) = {} THEN "true" ELSE Evaluated(qu, row, first)

-----------------------------------------------------------------------------
(* Batches. *)

(* Query::projection as columns; all of them when it is empty. *)
AllColumns == [c \in DOMAIN Schema |-> c]
Projected(qu) == IF qu.projection = <<>> THEN AllColumns
                 ELSE [c \in DOMAIN qu.projection |-> columnId(qu.projection[c])]

projectSchema(columns) == [c \in DOMAIN columns |-> Schema[columns[c]]]

(* Mutant: the first cells of the row. *)
FirstCells(row, columns) == [c \in DOMAIN columns |-> row[c]]
projectRow(row, columns) == [c \in DOMAIN columns |-> row[columns[c]]]

StateOver(qu, columns) ==
  [schema |-> projectSchema(columns), rows |-> <<>>, rowIds |-> <<>>,
   skipped |-> 0, complete |-> qu.limit = 0, raised |-> FALSE]

(* Mutants: the boundaries off by one. *)
SkipsOneMore(qu, st) == st.skipped <= qu.offset
Skips(qu, st) == st.skipped < qu.offset
IsFullLate(qu, n) == qu.limit # NoLimit /\ n > qu.limit
IsFull(qu, n) == qu.limit # NoLimit /\ n >= qu.limit

(* One round of executeBatch's loop over the rows. *)
TakeRow(qu, st, i) ==
  LET verdict == Verdict(qu, qu.rows[i])
  IN  IF st.complete \/ st.raised \/ verdict = "false" THEN st
      ELSE IF verdict = "raise" THEN [st EXCEPT !.raised = TRUE]
      ELSE IF Skips(qu, st) THEN [st EXCEPT !.skipped = @ + 1]
      ELSE [st EXCEPT !.rows = Append(@, projectRow(qu.rows[i], Projected(qu))),
                      !.rowIds = Append(@, i),
                      !.complete = IsFull(qu, Len(st.rows) + 1)]

(* The loop over the rows of page p, from state st on.                       *)
executeBatch(qu, st, p) ==
  LET after[i \in 0 .. LastOf(qu, p)] ==
        IF i < FirstOf(qu, p) THEN st ELSE TakeRow(qu, after[i - 1], i)
  IN  after[LastOf(qu, p)]

-----------------------------------------------------------------------------
(* DatabaseManager::select with one worker. *)

Refused == [kind |-> "refused", rows |-> <<>>]

Init == /\ query \in Queries
        /\ begun = FALSE /\ read = 0 /\ finished = FALSE
        /\ state = StateOver(query, AllColumns)
        /\ outcome = Running

begin ==
  /\ outcome = Running /\ ~begun
  /\ IF Accepts(query)
     THEN begun' = TRUE /\ state' = StateOver(query, Projected(query)) /\ UNCHANGED outcome
     ELSE outcome' = Refused /\ UNCHANGED <<begun, state>>
  /\ UNCHANGED <<query, read, finished>>

Unreadable(qu, p) == \E i \in FirstOf(qu, p) .. LastOf(qu, p) : qu.rows[i] = Malformed
After == executeBatch(query, state, read + 1)

Throws == IF Unreadable(query, read + 1) THEN TRUE ELSE After.raised

(* When reading or executing the page throws, select is left: its state goes *)
(* with it.                                                                  *)
Scan == /\ outcome = Running /\ begun /\ ~finished /\ ~state.complete
        /\ ~Throws
        /\ read' = read + 1
        /\ finished' = ReachesEnd(query, read + 1)
        /\ state' = After
        /\ UNCHANGED <<query, begun, outcome>>

ScanThrows == /\ outcome = Running /\ begun /\ ~finished /\ ~state.complete
              /\ Throws
              /\ outcome' = Error
              /\ UNCHANGED <<query, begun, read, finished, state>>

Return == /\ outcome = Running /\ begun /\ (finished \/ state.complete)
          /\ outcome' = Rows(state.rowIds)
          /\ UNCHANGED <<query, begun, read, finished, state>>

Next == begin \/ Scan \/ ScanThrows \/ Return

Spec == Init /\ [][Next]_vars

-----------------------------------------------------------------------------
(* Properties. *)

(* What a predicate means for a cell: nothing is true of NULL but that it is *)
(* NULL; a comparison is a set of signs of the difference; the cosine        *)
(* distance of a zero vector is undefined.                                   *)
Signs == [EQUAL |-> {0}, NOT_EQUAL |-> {-1, 1},
          LESS_THAN |-> {-1}, LESS_THAN_OR_EQUAL |-> {-1, 0},
          GREATER_THAN |-> {1}, GREATER_THAN_OR_EQUAL |-> {0, 1}]
Sign(n) == IF n < 0 THEN -1 ELSE IF n = 0 THEN 0 ELSE 1

Undefined(p, cell) == /\ p.kind = "vector" /\ cell # NullCell
                      /\ p.metric = "COSINE" /\ (IsZero(cell.value) \/ IsZero(p.value))
Measured(p, cell) == IF p.kind = "vector"
                     THEN distance(cell.value, p.value, p.metric) - Threshold
                     ELSE cell.value[1] - p.value[1]
Satisfied(p, cell) ==
  CASE p.kind = "null" -> (p.op = "IS_NULL") = (cell = NullCell)
    [] p.kind # "null" /\ cell = NullCell -> FALSE
    [] OTHER -> ~Undefined(p, cell) /\ Sign(Measured(p, cell)) \in Signs[p.op]

(* What the query makes of a row, where the first predicate that is not      *)
(* satisfied decides.                                                        *)
KindOf(qu, row) ==
  LET CellOf(j) == row[columnId(qu.predicates[j].column)]
      failing == {j \in DOMAIN qu.predicates : ~Satisfied(qu.predicates[j], CellOf(j))}
      first == CHOOSE j \in failing : \A k \in failing : j <= k
  IN  IF row = Malformed THEN "malformed"
      ELSE IF failing = {} THEN "match"
      ELSE IF Undefined(qu.predicates[first], CellOf(first)) THEN "raise" ELSE "other"

AbstractQuery(qu) ==
  [rows |-> IF Accepts(qu) THEN [i \in DOMAIN qu.rows |-> KindOf(qu, qu.rows[i])] ELSE <<>>,
   offset |-> qu.offset, limit |-> qu.limit, batchSize |-> qu.batchSize]
AbstractState(st) == [skipped |-> st.skipped, rows |-> st.rowIds, complete |-> st.complete]

Sequential == INSTANCE SequentialSelect WITH
  Queries <- [rows : Seq(Kinds), offset : Nat, limit : Nat \cup {NoLimit},
              batchSize : Nat \ {0}],
  q <- AbstractQuery(query),
  state <- AbstractState(state),
  outcome <- IF outcome = Refused THEN Running ELSE outcome

(* The executor's loop, with its counters, its break and its evaluation of   *)
(* predicates up to the first that fails, takes and throws what              *)
(* SequentialSelect says of rows of these kinds.                             *)
SequentialSpec == Sequential!Spec

(* The page-at-a-time scan, which carries the offset and the limit from page *)
(* to page, answers what the query means over the whole table, and throws    *)
(* exactly when a row it had to read or evaluate makes it.                   *)
AnswersTheQuery ==
  Accepts(query) /\ outcome # Running => outcome = SequentialOutcome(AbstractQuery(query))

(* At every page boundary the result is the answer to the query over the     *)
(* rows read so far.                                                         *)
PrefixAnswered ==
  Accepts(query) => AbstractState(state) = StateAfter(AbstractQuery(query), read)

(* A query that begin has accepted throws over a table of readable rows only *)
(* when it asks for the cosine distance of a zero vector: what begin         *)
(* validates excludes every other throw of the evaluation ("row cell is not  *)
(* an integer", "vectors must have matching dimensions").                    *)
ThrowsOnlyForZeroVectors ==
  outcome = Error =>
    \E i \in DOMAIN query.rows :
      \/ query.rows[i] = Malformed
      \/ \E j \in DOMAIN query.predicates :
           LET p == query.predicates[j]
           IN  Undefined(p, query.rows[i][columnId(p.column)])

(* The rows of a result are valid rows of the schema that comes with it, and *)
(* hold under each of its names the cell of that name in the row with that   *)
(* RowId; the RowIds ascend.                                                 *)
ResultFitsItsSchema ==
  /\ \A k \in DOMAIN state.rows :
       /\ validateRow(state.schema, state.rows[k])
       /\ \A c \in DOMAIN state.schema :
            state.rows[k][c] = query.rows[state.rowIds[k]][columnId(state.schema[c].name)]
  /\ \A k \in DOMAIN state.rowIds : k > 1 => state.rowIds[k - 1] < state.rowIds[k]
=============================================================================
