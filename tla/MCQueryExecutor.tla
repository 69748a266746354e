--------------------------- MODULE MCQueryExecutor ---------------------------
(***************************************************************************)
(* A table of an integer, a text and a vector column.  Three families of   *)
(* queries: every predicate, alone and before and after others, and        *)
(* projections right and wrong, over tables of up to two rows and one of   *)
(* three; and all tables of up to four rows that match, do not match,      *)
(* throw or are malformed, with all offsets, limits and page sizes.        *)
(***************************************************************************)
EXTENDS QueryExecutor

MCSchema == <<[name |-> "n", type |-> "integer", dimension |-> 0, nullable |-> TRUE],
              [name |-> "t", type |-> "text", dimension |-> 0, nullable |-> FALSE],
              [name |-> "v", type |-> "vector", dimension |-> 2, nullable |-> TRUE]>>

Num(n) == [type |-> "integer", value |-> <<n>>]
Text(n) == [type |-> "text", value |-> <<n>>]
Vec(v) == [type |-> "vector", value |-> v]

TableRows == {<<Num(1), Text(1), Vec(<<1, 1>>)>>, <<Num(2), Text(2), Vec(<<0, 0>>)>>,
              <<NullCell, Text(1), Vec(<<-1, 3>>)>>, <<Num(3), Text(3), NullCell>>}
Tables == UNION {[1..n -> TableRows] : n \in 0..2}
          \cup {<<<<Num(1), Text(1), Vec(<<1, 1>>)>>, <<NullCell, Text(1), Vec(<<-1, 3>>)>>,
                  <<Num(2), Text(2), Vec(<<0, 0>>)>>>>}

(* For a cosine distance from <<1, 1>> below one. *)
MatchOtherRaise == {<<Num(1), Text(1), Vec(<<1, 1>>)>>, <<Num(3), Text(3), NullCell>>,
                    <<Num(2), Text(2), Vec(<<0, 0>>)>>}
LongTables == UNION {[1..n -> MatchOtherRaise \cup {Malformed}] : n \in 0..4}

Pred(kind, column, op, value) ==
  [kind |-> kind, column |-> column, op |-> op, value |-> value, metric |-> "EUCLIDEAN"]
Cosine(column, op, value) ==
  [kind |-> "vector", column |-> column, op |-> op, value |-> value, metric |-> "COSINE"]

Comparing == {Pred("integer", "n", op, <<2>>) : op \in Comparisons}
             \cup {Pred("text", "t", "LESS_THAN", <<2>>), Cosine("v", "LESS_THAN", <<1, 1>>),
                   Pred("vector", "v", "LESS_THAN_OR_EQUAL", <<1, 1>>)}
Testing == {Pred("null", c, op, <<>>) : c \in {"n", "v"}, op \in {"IS_NULL", "IS_NOT_NULL"}}
Odd == {Pred("integer", "t", "EQUAL", <<1>>), Pred("text", "v", "EQUAL", <<1>>),
        Pred("vector", "n", "LESS_THAN", <<1>>), Pred("vector", "v", "LESS_THAN", <<1>>),
        Pred("null", "none", "IS_NULL", <<>>), Cosine("v", "GREATER_THAN", <<0, 0>>)}

Query(tables, projections, predicates, offsets, limits) ==
  [rows : tables, projection : projections, predicates : predicates,
   offset : offsets, limit : limits, batchSize : {1, 2}]

Good == Comparing \cup Testing
MCQueries ==
  Query(Tables, {<<>>}, {<<p>> : p \in Good \cup Odd} \cup {<<p, r>> : p \in Good, r \in Good},
        {0}, {NoLimit, 1})
  \cup Query(Tables, {<<>>, <<"v", "n">>, <<"t", "v", "n">>, <<"n", "n">>, <<"none">>},
             {<<>>} \cup {<<p>> : p \in Good}, 0..1, 0..2 \cup {NoLimit})
  \cup Query(LongTables, {<<>>}, {<<Cosine("v", "LESS_THAN", <<1, 1>>)>>},
             0..2, 0..2 \cup {NoLimit})
=============================================================================
