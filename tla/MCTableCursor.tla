---------------------------- MODULE MCTableCursor ----------------------------
(***************************************************************************)
(* Up to two rows at the start and three IDs, pages of one and two rows.   *)
(***************************************************************************)
EXTENDS TableCursor

CONSTANTS a, ab

MCVals == {a, ab}
MCMisread == [v \in MCVals |-> IF v = ab THEN {a} ELSE {ab}]
MCOutcomes == Outcomes
=============================================================================
