-------------------------- MODULE MCParallelSelect --------------------------
(***************************************************************************)
(* A table of four rows, three of them matches, and the tables that it     *)
(* becomes when one of its rows raises or is malformed; pages of one and   *)
(* of two rows, with and without an offset, with every limit that is       *)
(* reached inside the table and with none, and with one or two pages in    *)
(* flight; and some of them with three.                                    *)
(***************************************************************************)
EXTENDS ParallelSelect

Sound == <<"match", "other", "match", "match">>
Tables == {Sound} \cup {[Sound EXCEPT ![i] = kind] :
                          i \in 1..4, kind \in {"raise", "malformed"}}

(* One page per row, and nearly all of them in flight. *)
DeepQueries == {[rows |-> t, offset |-> 0, limit |-> l, batchSize |-> 1, maxInFlight |-> 3] :
                  t \in {Sound, [Sound EXCEPT ![3] = "raise"],
                         [Sound EXCEPT ![4] = "malformed"]}, l \in {1, NoLimit}}

MCQueries == [rows : Tables \cup {<<>>, <<"match">>}, offset : {0, 1},
              limit : 0..2 \cup {NoLimit}, batchSize : 1..2, maxInFlight : 1..2]
             \cup DeepQueries
=============================================================================
