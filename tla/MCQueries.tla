----------------------------- MODULE MCQueries ------------------------------
(***************************************************************************)
(* An instance of Queries for TLC: two keys and NULL, two values and NULL, *)
(* views with and without a condition or a column list, and the queries    *)
(* that combine the clauses.                                               *)
(***************************************************************************)
EXTENDS Queries

CONSTANT none

Numbers == {1, 2, none}
RowsOfT == [k : Numbers, v : Numbers]
RowsOfU == [k : {1, none}]

ViewsOnT == "all" :> [where |-> "<=", also |-> FALSE, cols |-> <<>>]
         @@ "keys" :> [where |-> ">=", also |-> TRUE, cols |-> <<"k">>]
         @@ "every" :> [where |-> "", also |-> FALSE, cols |-> <<>>]

Froms ==
  {"t"} \X {"=", ">=", "<=", "<>"} \X BOOLEAN \cup {"t", "all", "keys", "every"} \X {""} \X {FALSE}
    \cup {"all", "every"} \X {"="} \X {FALSE}
Cuts == {none, 1, 2} \X {0, 1}

Query(f, cols, group, having, order, desc, cut, distinct) ==
  [from |-> f[1], where |-> f[2], also |-> f[3], cols |-> cols, group |-> group, having |-> having,
   order |-> order, desc |-> desc, limit |-> cut[1], offset |-> cut[2], distinct |-> distinct]

\* ORDER BY names a column of the result when DISTINCT is asked for.
Plain ==
  {Query(f, cols, "", "", order[1], order[2], cut, FALSE) :
     f \in Froms, cols \in {<<>>, <<"v">>},
     order \in {<<"", FALSE>>, <<"k", TRUE>>, <<"v", FALSE>>, <<"v", TRUE>>}, cut \in Cuts}
  \cup {Query(f, <<"v">>, "", "", order, FALSE, cut, TRUE) :
          f \in Froms, order \in {"", "v"}, cut \in Cuts}

Aggregating ==
  {Query(f, cols, "", "", "", FALSE, cut, FALSE) :
     f \in Froms, cols \in {<<"COUNT(*)", "SUM(v)">>, <<"COUNT(v)", "MAX(v)">>}, cut \in Cuts}

Grouping ==
  {Query(f, cols, "k", having, order, FALSE, cut, FALSE) :
     f \in Froms, cols \in {<<"k", "COUNT(*)">>, <<"k", "COUNT(v)">>},
     having \in {"", "k", "COUNT(v)", "COUNT(*)"}, order \in {"", "k"}, cut \in {<<none, 0>>, <<1, 0>>}}

Join(type, swapped, txn, where, cols, group, order, cut, distinct) ==
  [type |-> type, swapped |-> swapped, txn |-> txn, where |-> where, cols |-> cols, group |-> group,
   order |-> order, limit |-> cut[1], offset |-> cut[2], distinct |-> distinct]

Types == {"INNER", "LEFT", "RIGHT", "FULL", "CROSS"}
Joining ==
  {Join(type, swapped, txn, "", cols, "", "", cut, distinct) :
     type \in Types, swapped \in BOOLEAN, txn \in BOOLEAN, cols \in {<<>>, <<"t.k", "u.k">>},
     cut \in {none, 2} \X {0, 1}, distinct \in BOOLEAN}
  \cup {Join(type, FALSE, TRUE, where, cols, group, order, <<2, 0>>, FALSE) :
          type \in Types, where \in {"", "v =", "v <>", "t.v ="}, cols \in {<<>>, <<"v">>, <<"COUNT(*)">>},
          group \in {"", "t.k"}, order \in {"", "v", "t.v"}}

AllSelects == Plain \cup Aggregating \cup Grouping
=============================================================================
