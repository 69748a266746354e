---------------------------- MODULE MCCsvAppends ----------------------------
(***************************************************************************)
(* A table with one text column, which takes every text of up to two       *)
(* characters, tables with a vector and a short text, in both orders, and  *)
(* one with a NOT NULL integer; at the start they are empty or hold one    *)
(* row in one of the old layouts.  One column has the name that the row    *)
(* IDs have in a header.                                                   *)
(***************************************************************************)
EXTENDS CsvAppends

Column(name, type, nullable) ==
  [name |-> name, type |-> type, dimension |-> IF type = "VECTOR" THEN 1 ELSE 0,
   nullable |-> nullable]
Text == <<Column("__vrdb_row_id", "TEXT", TRUE)>>
VectorText == <<Column("v", "VECTOR", TRUE), Column("t", "TEXT", TRUE)>>
TextVector == <<Column("t", "TEXT", TRUE), Column("v", "VECTOR", TRUE)>>
IntegerOnly == <<Column("i", "INTEGER", FALSE)>>

Texts(n) == {Value(t) : t \in UNION {[1..k -> {Quote, Comma, NL, CR, "x"}] : k \in 0..n}}
ShortTexts == {NullCell, Value(<<>>), Value(<<Quote>>), Value(<<"x">>)}
Vectors == {NullCell, Value(<<"vec">>)}
Integers == {Value(<<"1">>), Value(<<"1", "2">>)}

MCRows == (Text :> {<<c>> : c \in Texts(2) \cup {NullCell}})
       @@ (VectorText :> Vectors \X ShortTexts)
       @@ (TextVector :> ShortTexts \X Vectors)
       @@ (IntegerOnly :> {<<c>> : c \in Integers})

(* The same with a vector that has a subnormal coordinate. *)
SubnormalRows ==
  [MCRows EXCEPT ![VectorText] = @ \cup {<<Value(<<"sub">>), NullCell>>}]

MCCharacters == Range(Digits) \cup {"0", Quote, Comma, NL, CR, "x", "vec", "sub"}

Old(layout, columns, cells) ==
  [header |-> OldHeader(layout, columns), body |-> OldRow(layout, [id |-> 1, cells |-> cells])]

MCOldFiles ==
  [s \in DOMAIN MCRows |->
     {writeTable(s, <<>>)}
     \cup {Old(layout, s, cells) :
             layout \in {"noid", "nobitmap"},
             cells \in {row \in MCRows[s] : \A i \in DOMAIN row :
                                             ~row[i].null /\ Len(row[i].payload) < 2}}]
=============================================================================
