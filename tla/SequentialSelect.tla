-------------------------- MODULE SequentialSelect --------------------------
(***************************************************************************)
(* DatabaseManager::select with one worker: read a page, execute it, until *)
(* the cursor has met the end of the file or the limit is reached.         *)
(***************************************************************************)
EXTENDS SelectQuery

CONSTANT Queries   \* the queries, with the tables they run over

VARIABLES q,        \* the query
          read,     \* how many pages the cursor has returned
          finished, \* TableCursor::finished()
          state,    \* QueryExecutor::State
          outcome   \* what select has returned or thrown

vars == <<q, read, finished, state, outcome>>

Init == /\ q \in Queries
        /\ read = 0
        /\ finished = FALSE
        /\ state = BeginState(q)
        /\ outcome = Running

(* When reading or executing the page throws, select is left: its state goes *)
(* with it.                                                                  *)
Throws == \/ ReadFails(q, read + 1)
          \/ ExecuteRaises(q, state, read + 1)

ScanThrows == /\ outcome = Running /\ ~finished /\ ~state.complete
              /\ Throws
              /\ outcome' = Error
              /\ UNCHANGED <<q, read, finished, state>>

Scan == /\ outcome = Running /\ ~finished /\ ~state.complete
        /\ ~Throws
        /\ read' = read + 1
        /\ finished' = ReachesEnd(q, read + 1)
        /\ state' = ExecuteBatch(q, state, read + 1)
        /\ UNCHANGED <<q, outcome>>

Return == /\ outcome = Running /\ (finished \/ state.complete)
          /\ outcome' = Rows(state.rows)
          /\ UNCHANGED <<q, read, finished, state>>

Next == Scan \/ ScanThrows \/ Return

Spec == Init /\ [][Next]_vars

(* The page-at-a-time scan, which carries the offset and the limit from page *)
(* to page, answers what the query means over the whole table, and throws    *)
(* exactly when a row it had to read or evaluate makes it.                   *)
AnswersTheQuery == outcome # Running => outcome = SequentialOutcome(q)

(* At every page boundary the state is what the rows read so far make of the *)
(* query.                                                                    *)
PrefixAnswered == state = StateAfter(q, read)
=============================================================================
