--------------------------- MODULE MCCommandLine ---------------------------
(***************************************************************************)
(* One table, declared in one of three ways or made by an earlier version, *)
(* and what can be said and missaid on the command line about it: words of *)
(* up to three tokens, of those that mean something to the program, the    *)
(* user or the CSV format.                                                 *)
(***************************************************************************)
EXTENDS CommandLine

Table == <<"t">>
MCTableNames == {Table}
MCCharacters == STRING
Command(name, words) == <<<<"db">>, <<name>>>> \o words
OnTable(name, words) == Command(name, <<Table>> \o words)

Texts == {<<>>, <<"NULL">>, <<Backslash, "N">>, <<Backslash, Backslash, "N">>,
          <<Backslash, "x">>, <<Quote, "NULL", Quote>>}

(* Column declarations, some of them wrong. *)
Integer == <<"i", ":", "integer", ":", "not_null">>
Vector == <<"v", ":", "VECTOR(", "1", ")">>
Declarations == {<<<<"a", ":", "TEXT">>>>, <<<<"a", ":", "text", ":", "NOT_NULL">>>>,
                 <<Integer, Vector>>}
Misdeclarations ==
  {<<<<"a">>>>, <<<<":", "TEXT">>>>, <<<<"a", ":", "TEXT">>, <<"a", ":", "TEXT">>>>,
   <<<<"a", ":", "TEXT", ":", "NOT_NULL", ":", "NOT_NULL">>>>, <<<<"a", ":", "VECTOR(", ")">>>>,
   <<<<"a", ":", "VECTOR(", "0", ")">>>>, <<<<"a", ":", "VECTOR(", "x", ")">>>>,
   <<<<"-", ":", "TEXT">>>>, <<<<"__vrdb_row_id", ":", "TEXT">>>>, <<<<>>>>, <<>>}

Integers == {<<"1">>, <<"+", "1">>, <<"x">>, <<>>, NullWord}
Vectors == {<<"[", "1", "]">>, <<"[", "]">>, <<"[", "1", Comma, "1", "]">>,
            <<"[", Comma, "1", "]">>, <<"[">>, NullWord}
Pairs == {<<<<"1">>, v>> : v \in Vectors} \cup {<<i, <<"[", "1", "]">>>> : i \in Integers}
RowWords == {<<text>> : text \in Texts} \cup Pairs
Ids == {<<"1">>, <<"2">>, <<"0">>, <<"x">>}

MCArguments ==
  {<<>>, <<<<"db">>>>, Command("init", <<>>), Command("list", <<>>), Command("list", <<Table>>),
   Command("drop", <<Table>>), OnTable("describe", <<>>), Command("describe", <<>>),
   Command("describe", <<<<"u">>>>), OnTable("select", <<>>), OnTable("select", <<<<"--csv">>>>),
   OnTable("select", <<<<"--json">>>>), Command("create", <<<<"../t">>, <<"a", ":", "TEXT">>>>)}
  \cup {OnTable("create", columns) : columns \in Declarations \cup Misdeclarations}
  \cup {OnTable("insert", row) : row \in RowWords \cup {<<>>}}
  \cup {OnTable("update", <<id>> \o row) : id \in {<<"1">>, <<"3">>}, row \in {<<<<"x">>>>}}
  \cup {OnTable("delete", <<id>>) : id \in Ids}

OldColumns == <<[name |-> "a", type |-> "TEXT", dimension |-> 0, nullable |-> FALSE]>>
Old(layout, nextId) ==
  Table :> [catalog |-> OldCatalog(Table, OldColumns),
            file |-> [header |-> OldHeader(layout, OldColumns),
                      records |-> <<OldFields(layout, [id |-> 1, cells |-> <<Value(<<"NULL">>)>>])>>],
            nextId |-> nextId]
MCOldTables == {<<>>, Old("noid", NoCounter), Old("noid", 3), Old("nobitmap", 2)}
=============================================================================
