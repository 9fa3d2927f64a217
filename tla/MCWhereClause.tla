--------------------------- MODULE MCWhereClause ---------------------------
(***************************************************************************)
(* An instance of WhereClause for TLC: a number that may be NULL, another  *)
(* that may not, and a text; one condition of each kind.                   *)
(***************************************************************************)
EXTENDS WhereClause

TableColumns == {"a", "b", "t"}

TableRows ==
  {r \in [TableColumns -> {Null} \cup {Literal[w] : w \in DOMAIN Literal}] :
     /\ r["a"] \in {Null, Literal["1"], Literal["3"]}
     /\ r["b"] \in {Literal["1"], Literal["3"]}
     /\ r["t"] \in {Literal["'x"], Literal["'y"]}}

Conditions ==
  {Comparison("a", "=", "1"), Comparison("b", "<", "3"), Comparison("a", "!=", "3"),
   IsNull("a"), IsNotNull("a"), Between("a", "1", "2"), InList("a", "2", "3"), InSubquery("b"),
   QuotedText("t", "AND"), QuotedText("t", "OR")}

Subquery == {Null, Literal["2"], Literal["3"]}
=============================================================================
