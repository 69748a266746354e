--------------------------- MODULE MCTableStorage ---------------------------
(***************************************************************************)
(* TLC instances of TableStorage: two rows a and ab, where the record of   *)
(* ab can be cut to read as a (a text cell cut after the first of two      *)
(* doubled quotes) and the record of a can absorb the start of the next    *)
(* record (and then read as ab).                                           *)
(***************************************************************************)
EXTENDS TableStorage

CONSTANTS a, ab

MCVals == {a, ab}
MCMisread == [v \in MCVals |-> IF v = ab THEN {a} ELSE {ab}]
AllOutcomes == Outcomes
AtomicOutcomes == {"absent", "complete"}
=============================================================================
