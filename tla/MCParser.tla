------------------------------ MODULE MCParser ------------------------------
(***************************************************************************)
(* An instance of Parser for TLC: each kind of statement, a SELECT with up *)
(* to two of its options, a column with up to two of its own.              *)
(***************************************************************************)
EXTENDS Parser

Number(n) == [type |-> "number", text |-> n]
Text(x) == [type |-> "text", text |-> x]
None == [type |-> "null", text |-> "NULL"]

Shown(expr) == [expr |-> expr, alias |-> ""]
Plainly == "kind" :> "Select" @@ "table" :> "t" @@ "columns" :> <<Shown(<<"k">>), Shown(<<"v">>)>>

\* Each option of a SELECT: what it puts into the node.
Options ==
  {"distinct" :> TRUE,
   "columns" :> <<Shown(<<"*">>)>>,
   "columns" :> <<[expr |-> <<"COUNT", "(", "v", ")">>, alias |-> "n"]>>,
   "where" :> <<"k", "=", "1">>,
   "where" :> <<"k", "IN", "(", "SELECT", "k", "FROM", "u", "LIMIT", "1", ")">>,
   "group_by" :> <<"k", ",", "v">>,
   "having" :> <<"COUNT", "(", "*", ")", ">", "1">>,
   "order_by" :> "k",
   "order_by" :> "k" @@ "order_dir" :> "DESC",
   "order_by" :> "k" @@ "further_keys" :> <<",", "v">>,
   "limit" :> "1", "limit" :> "-1", "offset" :> "2",
   "join_type" :> "LEFT" @@ "right_table" :> "u" @@ "left" :> <<"t", ".", "k">> @@ "right" :> <<"k">>,
   "join_type" :> "CROSS" @@ "right_table" :> "u",
   "join_type" :> "CROSS" @@ "right_table" :> "u" @@ "second_join" :> "w"}

Selects ==
  {n \in {o @@ p @@ Plainly : o, p \in Options} : "left" \in DOMAIN n => n.join_type # "CROSS"}

Column == [name |-> "k", type |-> "INT", primary_key |-> FALSE, nullable |-> TRUE, unique |-> FALSE,
           default |-> "", check |-> <<>>, foreign_key |-> <<>>]
ColumnOptions ==
  {"primary_key" :> TRUE @@ "nullable" :> FALSE @@ "unique" :> TRUE,
   "nullable" :> FALSE, "unique" :> TRUE, "default" :> "1", "default" :> "-1", "default" :> "NULL",
   "default" :> "UNIQUE", "default" :> "x y",
   "check" :> <<">", "0">>, "check" :> <<"(", "k", ">", "0", ")">>,
   "foreign_key" :> <<"u", "k">>, "name" :> "CHECKED"}
ColumnDefs == {o @@ p @@ Column : o, p \in ColumnOptions}

Where1 == <<"k", "=", "1">>

Few ==
  {[kind |-> k] : k \in {"BEGIN", "COMMIT", "RECOVER", "VACUUM", "Exit", "Rollback", "ShowTables", "ShowViews"}}
  \cup {[kind |-> k, name |-> "s"] : k \in {"RollbackTo", "Savepoint", "Release"}}
  \cup {[kind |-> k, table |-> "t"] : k \in {"Describe", "ShowIndexes", "Truncate", "Delete"}}
  \cup {[kind |-> "Insert", table |-> "t", rows |-> <<<<Number("1"), Text("x")>>>>],
        [kind |-> "Update", table |-> "t", set |-> <<<<"k", "1">>>>, where |-> Where1],
        [kind |-> "Delete", table |-> "t", where |-> Where1]}

Others ==
  {[kind |-> "Insert", table |-> "t", columns |-> <<"k", "v">>, rows |-> <<<<None, Text("NULL")>>, <<Number("2"), Text("x")>>>>],
   [kind |-> "Insert", table |-> "t", rows |-> <<<<Number("-1"), Text("x")>>>>],
   [kind |-> "Update", table |-> "t", set |-> <<<<"k", "1">>, <<"v", "x">>>>],
   [kind |-> "CreateTable", table |-> "t", columns |-> <<Column, [Column EXCEPT !.name = "v", !.type = "TEXT"]>>],
   [kind |-> "CreateIndex", index |-> "i", table |-> "t", columns |-> <<"k">>],
   [kind |-> "CreateIndex", index |-> "i", table |-> "t", columns |-> <<"k", "v">>, unique |-> TRUE],
   [kind |-> "CreateView", view |-> "w", table |-> "t", columns |-> <<Shown(<<"k">>)>>, where |-> Where1],
   [kind |-> "CreateView", view |-> "w", table |-> "t", columns |-> <<Shown(<<"k">>)>>, limit |-> "1"],
   [kind |-> "DropTable", table |-> "t"], [kind |-> "DropTable", table |-> "t", if_exists |-> TRUE],
   [kind |-> "DropView", view |-> "w"], [kind |-> "DropView", view |-> "w", if_exists |-> TRUE],
   [kind |-> "DropIndex", index |-> "i", table |-> "t"],
   [kind |-> "DropColumn", table |-> "t", column |-> "v"],
   [kind |-> "RenameColumn", table |-> "t", old |-> "v", new |-> "w"],
   [kind |-> "RenameTable", old |-> "t", new |-> "u"]}
  \cup {[kind |-> "CreateTable", table |-> "t", columns |-> <<c>>] : c \in ColumnDefs}
  \cup {[kind |-> "AddColumn", table |-> "t", column |-> c] : c \in ColumnDefs}

Meant == Few \cup Others \cup Selects
Typed == {"WHERE", "k", "(", ")", ",", "=", "1", "TO", "LIMIT", "CROSS", "UNIQUE", "'x'", "-- note"}
=============================================================================
