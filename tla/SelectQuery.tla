----------------------------- MODULE SelectQuery -----------------------------
(***************************************************************************)
(* A select over one table as its executor sees it.  What the predicates   *)
(* make of a row is all that matters of the row: "match", "other" (a       *)
(* predicate is false), "raise" (evaluating a predicate throws, as the     *)
(* cosine distance of a zero vector does) or "malformed" (its record       *)
(* cannot be read).  A row is denoted by its position in the table.        *)
(*                                                                         *)
(* A query q is a record [rows, offset, limit, batchSize]: the kinds of    *)
(* the table's rows, Query::offset, Query::limit (NoLimit when absent) and *)
(* QueryExecutionOptions::batchSize.                                       *)
(***************************************************************************)
EXTENDS Integers, Sequences

CONSTANT NoLimit

ASSUME NoLimitAssumption == NoLimit \notin Nat

Kinds == {"match", "other", "raise", "malformed"}

IsQuery(q) == /\ q.rows \in Seq(Kinds) /\ q.offset \in Nat
              /\ q.limit \in Nat \cup {NoLimit} /\ q.batchSize \in Nat \ {0}

Smaller(a, b) == IF a < b THEN a ELSE b

(* The rows from..to for which every predicate holds, in table order. *)
Matching(q, from, to) ==
  LET found[i \in Nat] == IF i < from THEN <<>>
                          ELSE IF q.rows[i] = "match" THEN Append(found[i - 1], i)
                          ELSE found[i - 1]
  IN  found[to]

HasKind(q, kind, from, to) == \E i \in from..to : q.rows[i] = kind

-----------------------------------------------------------------------------
(* Pages: page p holds rows FirstOf(p) .. LastOf(p); it is empty when the    *)
(* rows before it are all there are.  A page that is not full has met the    *)
(* end of the file.                                                          *)
FirstOf(q, p) == (p - 1) * q.batchSize + 1
LastOf(q, p) == Smaller(p * q.batchSize, Len(q.rows))
IsEmptyPage(q, p) == FirstOf(q, p) > Len(q.rows)
ReachesEnd(q, p) == p * q.batchSize > Len(q.rows)
ReadFails(q, p) == HasKind(q, "malformed", FirstOf(q, p), LastOf(q, p))

(* A worker of a parallel select evaluates a page whole. *)
PageRaises(q, p) == HasKind(q, "raise", FirstOf(q, p), LastOf(q, p))

-----------------------------------------------------------------------------
(* QueryExecutor::State: how many matches were skipped for the offset, the   *)
(* rows of the result, and whether the limit has been reached.               *)
BeginState(q) == [skipped |-> 0, rows |-> <<>>, complete |-> q.limit = 0]

(* What is left of the offset and of the limit for the pages to come.        *)
ToSkip(q, state) == q.offset - state.skipped
Room(q, state) == q.limit - Len(state.rows)

(* Mutant: rows that were not skipped are counted as skipped. *)
SkippedAll(q, state, matches) == state.skipped + Len(matches)
SkippedAfter(q, state, matches) == Smaller(q.offset, state.skipped + Len(matches))

(* Take matches into the state: skip up to the offset, stop at the limit.    *)
Collect(q, state, matches) ==
  LET toSkip == ToSkip(q, state)
      last == IF q.limit = NoLimit THEN Len(matches)
              ELSE Smaller(Len(matches), toSkip + Room(q, state))
      rows == state.rows \o SubSeq(matches, toSkip + 1, last)
  IN  [skipped |-> SkippedAfter(q, state, matches),
       rows |-> rows,
       complete |-> q.limit # NoLimit /\ Len(rows) >= q.limit]

(* executeBatch evaluates a page row by row and stops at the limit, so a row *)
(* after the one that completes the result is not evaluated.                 *)
ExecuteBatch(q, state, p) == Collect(q, state, Matching(q, FirstOf(q, p), LastOf(q, p)))
ExecuteRaises(q, state, p) ==
  LET after == ExecuteBatch(q, state, p)
      last == IF after.complete THEN after.rows[Len(after.rows)] ELSE LastOf(q, p)
  IN  HasKind(q, "raise", FirstOf(q, p), last)

-----------------------------------------------------------------------------
(* What a select answers. *)

Rows(rows) == [kind |-> "rows", rows |-> rows]
Error == [kind |-> "error", rows |-> <<>>]
Running == [kind |-> "running", rows |-> <<>>]

(* What is left when all of these matches have been found: not the first     *)
(* offset of them, and no more than the limit.                               *)
StateOf(q, matches) ==
  LET end == IF q.limit = NoLimit THEN Len(matches)
             ELSE Smaller(Len(matches), q.offset + q.limit)
      rows == SubSeq(matches, q.offset + 1, end)
  IN  [skipped |-> Smaller(q.offset, Len(matches)), rows |-> rows,
       complete |-> q.limit # NoLimit /\ Len(rows) >= q.limit]

(* The state when the first c pages have been taken in. *)
StateAfter(q, c) == StateOf(q, Matching(q, 1, LastOf(q, c)))

(* The answer when nothing throws. *)
Answer(q) == StateOf(q, Matching(q, 1, Len(q.rows))).rows

(* The last row that has to be evaluated for it. *)
LimitReached(q) == q.limit # NoLimit /\ Len(Answer(q)) = q.limit
LastNeeded(q) == IF LimitReached(q) THEN Answer(q)[q.limit] ELSE Len(q.rows)

(* One worker: the pages up to the one of the last needed row are read, the  *)
(* rows up to that row are evaluated.                                        *)
SequentialOutcome(q) ==
  IF q.limit = 0 THEN Rows(<<>>)
  ELSE IF \/ HasKind(q, "raise", 1, LastNeeded(q))
          \/ \E p \in 1 .. Len(q.rows) : ReadFails(q, p) /\ FirstOf(q, p) <= LastNeeded(q)
       THEN Error
       ELSE Rows(Answer(q))

(* Several workers: up to ahead pages are read beyond the page of the last   *)
(* needed row, and that page is evaluated whole -- unless the table fits     *)
(* into one page, which is executed as with one worker.                      *)
ParallelOutcome(q, ahead) ==
  IF q.limit = 0 \/ ReachesEnd(q, 1) THEN SequentialOutcome(q)
  ELSE IF \E p \in 1 .. Len(q.rows) :
            \/ PageRaises(q, p) /\ FirstOf(q, p) <= LastNeeded(q)
            \/ ReadFails(q, p) /\ FirstOf(q, p - ahead) <= LastNeeded(q)
       THEN Error
       ELSE Rows(Answer(q))
=============================================================================
