------------------------------ MODULE Queries ------------------------------
(***************************************************************************)
(* SELECT, as planner.py, executor.py and Table.select evaluate it over    *)
(* the rows a reader sees: the choice of a plan, WHERE, GROUP BY and       *)
(* HAVING, ORDER BY, OFFSET and LIMIT, the column list and its aggregates, *)
(* DISTINCT, views and joins. Rows are added, an index is created, and a   *)
(* transaction of another session changes rows; in every state, every      *)
(* query of the instance is put to the tables, as the parser gives it.     *)
(***************************************************************************)
EXTENDS Integers, SequencesExt, TLC

CONSTANTS
  Nil,         \* the SQL NULL, and Python's None
  TRows,       \* the rows table t may get, with the columns k and v
  URows,       \* the rows table u may get, with the column k
  MaxRows,     \* bound: rows of the two tables together
  MaxOpen,     \* bound: changes of the other session's transaction
  Views,       \* views on t: from a name to [where, also, cols]
  Selects,     \* the queries on t and on the views
  Joins        \* the queries on t and u

VARIABLES
  t, u,        \* the rows of the tables, in the order of insertion
  indexed,     \* is there an index on t(k)?
  added, gone  \* the places in t of rows that the other session's transaction,
               \* which is open, has inserted and deleted

vars == <<t, u, indexed, added, gone>>

-----------------------------------------------------------------------------
(***************************************************************************)
(* What the code and SQL share.                                            *)
(***************************************************************************)
\* row.get(column)
Get(row, c) == IF c \in DOMAIN row THEN row[c] ELSE Nil

Aggregates == "COUNT(*)" :> <<"COUNT", "*">> @@ "COUNT(v)" :> <<"COUNT", "v">>
           @@ "SUM(v)" :> <<"SUM", "v">> @@ "MAX(v)" :> <<"MAX", "v">>
IsAggregate(c) == c \in DOMAIN Aggregates
OnlyAggregates(cols) == cols # <<>> /\ \A i \in DOMAIN cols : IsAggregate(cols[i])

Map(Op(_), seq) == [i \in DOMAIN seq |-> Op(seq[i])]
Values(rows, c) == SelectSeq(Map(LAMBDA r : r[c], rows), LAMBDA x : x # Nil)
Fold(fn, values) ==
  IF values = <<>> THEN Nil
  ELSE FoldLeft(LAMBDA x, y : IF fn = "SUM" THEN x + y ELSE IF x > y THEN x ELSE y,
                Head(values), Tail(values))

\* The columns of a row, or all of them for "*" (the empty list).
Only(row, cols) == IF cols = <<>> THEN row ELSE [c \in ToSet(cols) |-> Get(row, c)]

\* sorted(): stable both ways, NULL after every value, first when DESC.
Before(x, y) == x # Nil /\ (y = Nil \/ x < y)
Sorted(rows, c, desc) ==
  LET Precedes(i, j) ==
        LET x == Get(rows[i], c)
            y == Get(rows[j], c)
        IN IF desc THEN Before(y, x) ELSE Before(x, y)
      order == SetToSortSeq(DOMAIN rows, LAMBDA i, j : \/ Precedes(i, j)
                                                       \/ ~Precedes(j, i) /\ i < j)
  IN IF c = "" THEN rows ELSE Map(LAMBDA i : rows[i], order)

\* rows[offset:][:limit]
Cut(rows, q) ==
  SubSeq(rows, q.offset + 1,
         IF q.limit = Nil \/ q.offset + q.limit > Len(rows) THEN Len(rows)
                                                            ELSE q.offset + q.limit)

Distinct(rows) ==
  FoldLeft(LAMBDA seen, r : IF Contains(seen, r) THEN seen ELSE Append(seen, r), <<>>, rows)

-----------------------------------------------------------------------------
(***************************************************************************)
(* What the code does.                                                     *)
(***************************************************************************)
\* A snapshot shows the rows that are committed. Without one, visible_rows and the
\* index scans show those that nobody has deleted.
Part(places) == Map(LAMBDA i : t[i], SetToSortSeq(places, <))
Seen == Part(DOMAIN t \ added)
Live == Part(DOMAIN t \ gone)

\* _eval_where on "k OP 1", or on "k OP 1 AND v = 1": NULL is compared as the
\* empty text, below "1".
Holds(row, q) ==
  /\ CASE q.where = ""   -> TRUE
       [] q.where = "="  -> row.k = 1
       [] q.where = ">=" -> row.k # Nil /\ row.k >= 1
       [] q.where = "<=" -> row.k = Nil \/ row.k <= 1
       [] q.where = "<>" -> row.k # 1
  /\ q.also => row.v = 1
Found(rows, q) == SelectSeq(rows, LAMBDA r : Holds(r, q))

\* _query_view joins two conditions in parentheses, which stay with the first column
\* and with the last value: there is no such column, and "1)" is no number.
HoldsInParentheses(q) == q.where \in {"<=", "<>"} /\ ~q.also
ViewHolds(row, view, q) ==
  CASE q.where = ""    -> Holds(row, view)
    [] view.where = "" -> Holds(row, q)
    [] OTHER           -> HoldsInParentheses(view) /\ HoldsInParentheses(q)

\* COUNT counts the rows, whatever its column.
Aggregate(c, rows) ==
  LET fn == Aggregates[c][1]
  IN IF fn = "COUNT" THEN Len(rows) ELSE Fold(fn, Values(rows, Aggregates[c][2]))

OneRow(cols, rows, first) ==
  [c \in ToSet(cols) |-> IF IsAggregate(c) THEN Aggregate(c, rows) ELSE Get(first, c)]

Project(rows, cols) ==
  IF OnlyAggregates(cols) THEN <<OneRow(cols, rows, <<>>)>>
  ELSE IF cols = <<>> THEN rows
  ELSE Map(LAMBDA r : OneRow(cols, rows, r), rows)

\* HAVING is evaluated on the row of the result, if it can be parsed (HavingRaises).
Kept(row, having) == having = "" \/ Get(row, having) = 1

GroupedBy(rows, q) ==
  LET keys == Distinct(Map(LAMBDA r : r[q.group], rows))
      Members(key) == SelectSeq(rows, LAMBDA r : r[q.group] = key)
      out == Map(LAMBDA key : OneRow(q.cols, Members(key), Head(Members(key))), keys)
  IN SelectSeq(out, LAMBDA r : Kept(r, q.having))

\* A mistake to catch: LIMIT comes before ORDER BY.
CutThenSort(found, q) ==
  IF q.group # "" THEN GroupedBy(found, q)
  ELSE Project(Sorted(Cut(found, q), q.order, q.desc), q.cols)

\* Table.select, from the rows that WHERE leaves
TableSelect(found, q) ==
  IF q.group # "" THEN GroupedBy(found, q)
  ELSE Project(Cut(Sorted(found, q.order, q.desc), q), q.cols)

\* StorageEngine.select: a view is its WHERE on the base table; neither its
\* columns nor the query's GROUP BY and HAVING are passed on.
EngineSelect(q) ==
  IF q.from \in DOMAIN Views
  THEN TableSelect(SelectSeq(Seen, LAMBDA r : ViewHolds(r, Views[q.from], q)),
                   [q EXCEPT !.group = "", !.having = ""])
  ELSE TableSelect(Found(Seen, q), q)

\* QueryPlanner.plan: an index is used when WHERE starts with its column; all that
\* follows the operator is the value, "1 AND v = 1" too.
UsesIndex(q) == indexed /\ q.from = "t" /\ q.where # ""

\* _eval_condition does not parse COUNT(*), on the row of any group.
HavingRaises(q) ==
  /\ ~UsesIndex(q) /\ q.from \notin DOMAIN Views
  /\ q.group # "" /\ q.having = "COUNT(*)" /\ Found(Seen, q) # <<>>

\* lookup returns rows in the order of insertion, range_lookup in key order. "<>" is
\* taken for "<" with the value "> 1". No key equals a text, and it cannot be ordered
\* among the numbers.
FromIndex(q) ==
  IF q.also THEN <<>>
  ELSE Found(IF q.where = "=" THEN Live ELSE Sorted(Live, "k", FALSE), q)
RangeRaises(q) ==
  UsesIndex(q) /\ Live # <<>> /\ (q.where = "<>" \/ (q.also /\ q.where # "="))

\* _index_scan and _range_scan
IndexScan(q) ==
  Map(LAMBDA r : Only(r, q.cols), Cut(Sorted(FromIndex(q), q.order, q.desc), q))

\* _exec_select, with the DISTINCT of _apply_post_select
NoAnswer == Nil
Answer(q) ==
  LET rows == IF UsesIndex(q) THEN IndexScan(q) ELSE EngineSelect(q)
  IN IF RangeRaises(q) \/ HavingRaises(q) THEN NoAnswer
     ELSE IF q.distinct THEN Distinct(rows) ELSE rows

\* Table.join: the columns on the two sides of ON, as the rows have them. When ON
\* names the right table first, neither table has its column and both give None.
LeftKey(l, q) == IF q.swapped THEN Nil ELSE l.k
RightKey(r, q) == IF q.swapped THEN Nil ELSE r.k

\* In a transaction the rows of its snapshot, outside one those nobody has deleted.
LeftRows(q) == IF q.txn THEN Seen ELSE Live

\* The columns of a joined row have the name of their table.
NoT == [k |-> Nil, v |-> Nil]
NoU == [k |-> Nil]
Pair(l, r) == "t.k" :> l.k @@ "t.v" :> l.v @@ "u.k" :> r.k

JoinedWith(l, q) ==
  LET matches == IF q.type = "CROSS" THEN u
                 ELSE SelectSeq(u, LAMBDA r : LeftKey(l, q) = RightKey(r, q))
  IN IF matches = <<>> /\ q.type \in {"LEFT", "FULL"} THEN <<Pair(l, NoU)>>
     ELSE Map(LAMBDA r : Pair(l, r), matches)

\* A mistake to catch: a FULL join is a LEFT join.
OnlyIfRight(q) ==
  LET leftKeys == {LeftKey(l, q) : l \in ToSet(LeftRows(q))}
  IN IF q.type = "RIGHT"
     THEN Map(LAMBDA r : Pair(NoT, r), SelectSeq(u, LAMBDA r : RightKey(r, q) \notin leftKeys))
     ELSE <<>>

RightAlone(q) ==
  LET leftKeys == {LeftKey(l, q) : l \in ToSet(LeftRows(q))}
  IN IF q.type \in {"RIGHT", "FULL"}
     THEN Map(LAMBDA r : Pair(NoT, r), SelectSeq(u, LAMBDA r : RightKey(r, q) \notin leftKeys))
     ELSE <<>>

Joined(q) == FlattenSeq(Map(LAMBDA l : JoinedWith(l, q), LeftRows(q))) \o RightAlone(q)

\* StorageEngine.join. WHERE does not parse a column with a table; a column without
\* one no row has, which is the empty text. Nor is there a column to order by, and
\* the parser stops at the dot of one with a table: LIMIT is then lost. GROUP BY,
\* HAVING and OFFSET are not passed on; an aggregate is a column no row has.
JoinRaises(q) == q.where = "t.v =" /\ Joined(q) # <<>>
JoinHolds(q) == q.where \in {"", "v <>"}
JoinAnswer(q) ==
  LET found == IF JoinHolds(q) THEN Joined(q) ELSE <<>>
      cut == IF q.order = "t.v" THEN found ELSE Cut(found, [q EXCEPT !.offset = 0])
      rows == Map(LAMBDA r : Only(r, q.cols), cut)
  IN IF JoinRaises(q) THEN NoAnswer ELSE IF q.distinct THEN Distinct(rows) ELSE rows

-----------------------------------------------------------------------------
Init ==
  /\ t = <<>>
  /\ u = <<>>
  /\ indexed = FALSE
  /\ added = {} /\ gone = {}

HasRoom == Len(t) + Len(u) < MaxRows
HasWork == Cardinality(added) + Cardinality(gone) < MaxOpen

\* A NULL cannot enter an index on numbers: its key is the empty text, which does
\* not compare with them (IndexedTable has what then happens).
Appended(row) ==
  /\ HasRoom
  /\ indexed => row.k # Nil
  /\ t' = Append(t, row)

InsertT(row) == Appended(row) /\ UNCHANGED <<u, indexed, added, gone>>

InsertU(row) ==
  /\ HasRoom
  /\ u' = Append(u, row)
  /\ UNCHANGED <<t, indexed, added, gone>>

CreateIndex ==
  /\ ~indexed
  /\ \A i \in DOMAIN t : t[i].k # Nil
  /\ indexed' = TRUE
  /\ UNCHANGED <<t, u, added, gone>>

\* The other session: INSERT, DELETE, COMMIT and ROLLBACK of its transaction.
OtherInserts(row) ==
  /\ HasWork /\ Appended(row)
  /\ added' = added \cup {Len(t')}
  /\ UNCHANGED <<u, indexed, gone>>

OtherDeletes(i) ==
  /\ HasWork /\ gone' = gone \cup {i}
  /\ UNCHANGED <<t, u, indexed, added>>

OtherEnds(places) ==
  /\ added \cup gone # {}
  /\ t' = Part(places)
  /\ added' = {} /\ gone' = {}
  /\ UNCHANGED <<u, indexed>>

Next ==
  \/ \E row \in TRows : InsertT(row) \/ OtherInserts(row)
  \/ \E row \in URows : InsertU(row)
  \/ CreateIndex
  \/ \E i \in DOMAIN t \ gone : OtherDeletes(i)
  \/ OtherEnds(DOMAIN t \ gone) \/ OtherEnds(DOMAIN t \ added)

Spec == Init /\ [][Next]_vars

-----------------------------------------------------------------------------
(***************************************************************************)
(* What SQL says. The rows of a table have no order: `base` is one         *)
(* arrangement of them.                                                    *)
(***************************************************************************)
SqlHolds(row, q) ==
  /\ q.where # "" =>
       /\ row.k # Nil
       /\ \/ q.where = "=" /\ row.k = 1
          \/ q.where = ">=" /\ row.k >= 1
          \/ q.where = "<=" /\ row.k <= 1
          \/ q.where = "<>" /\ row.k # 1
  /\ q.also => row.v = 1

SqlAggregate(c, rows) ==
  CASE c = "COUNT(*)" -> Len(rows)
    [] c = "COUNT(v)" -> Len(Values(rows, "v"))
    [] OTHER -> Fold(Aggregates[c][1], Values(rows, "v"))

\* A column of a group of rows.
SqlColumn(c, rows) == IF IsAggregate(c) THEN SqlAggregate(c, rows) ELSE Get(Head(rows), c)

Source(q, base) ==
  IF q.from = "t" THEN base
  ELSE Map(LAMBDA r : Only(r, Views[q.from].cols),
           SelectSeq(base, LAMBDA r : SqlHolds(r, Views[q.from])))

Groups(q, rows) ==
  IF q.group = "" THEN <<rows>>
  ELSE Map(LAMBDA key : SelectSeq(rows, LAMBDA r : r[q.group] = key),
           Distinct(Map(LAMBDA r : r[q.group], rows)))

Meaning(q, base) ==
  LET found == SelectSeq(Source(q, base), LAMBDA r : SqlHolds(r, q))
      kept == SelectSeq(Groups(q, found), LAMBDA g : q.having = "" \/ SqlColumn(q.having, g) = 1)
      rows == IF q.group # "" \/ OnlyAggregates(q.cols)
              THEN Sorted(Map(LAMBDA g : [c \in ToSet(q.cols) |-> SqlColumn(c, g)], kept),
                          q.order, q.desc)
              ELSE Map(LAMBDA r : Only(r, q.cols), Sorted(found, q.order, q.desc))
  IN Cut(IF q.distinct THEN Distinct(rows) ELSE rows, q)

Arrangements(rows) ==
  {Map(LAMBDA i : rows[i], order) : order \in SetToSeqs(DOMAIN rows)}

\* The rows of a join, as pairs of positions; 0 is no row.
SqlPairs(q) ==
  LET Matches == {p \in (DOMAIN Seen) \X (DOMAIN u) :
                    q.type = "CROSS" \/ (Seen[p[1]].k # Nil /\ Seen[p[1]].k = u[p[2]].k)}
      Lefts == {<<i, 0>> : i \in DOMAIN Seen \ {p[1] : p \in Matches}}
      Rights == {<<0, j>> : j \in DOMAIN u \ {p[2] : p \in Matches}}
  IN Matches \cup (IF q.type \in {"LEFT", "FULL"} THEN Lefts ELSE {})
             \cup (IF q.type \in {"RIGHT", "FULL"} THEN Rights ELSE {})

SqlJoin(q) ==
  LET rows == Map(LAMBDA p : Only(Pair(IF p[1] = 0 THEN NoT ELSE Seen[p[1]],
                                       IF p[2] = 0 THEN NoU ELSE u[p[2]]), q.cols),
                  SetToSeq(SqlPairs(q)))
  IN Cut(IF q.distinct THEN Distinct(rows) ELSE rows, q)

Count(row, rows) == Cardinality({i \in DOMAIN rows : rows[i] = row})

-----------------------------------------------------------------------------
(***************************************************************************)
(* The queries whose answer is not SQL's, by the part of them the code     *)
(* applies at the wrong moment or not at all.                              *)
(***************************************************************************)
IsCut(q) == q.limit # Nil \/ q.offset > 0
Aggregated(q) == \E c \in ToSet(q.cols) : IsAggregate(c)

\* The rows are cut before they are counted or made distinct.
CutTooSoon(q) == IsCut(q) /\ (q.distinct \/ (Aggregated(q) /\ q.group = ""))
\* GROUP BY returns before ORDER BY, OFFSET and LIMIT.
GroupsNotOrdered(q) == q.group # "" /\ (q.order # "" \/ IsCut(q))
\* HAVING knows the columns of the result only, and COUNT(*) not at all.
HavingUnlisted(q) ==
  q.having # "" /\ (q.having \notin ToSet(q.cols) \/ q.having = "COUNT(*)")
\* COUNT(v) counts the rows without a v.
NullsCounted(q) ==
  "COUNT(v)" \in ToSet(q.cols) \cup {q.having} /\ \E i \in DOMAIN t : t[i].v = Nil
\* NULL is below every number, and another than each.
NullsCompared(q) ==
  /\ q.where \in {"<=", "<>"} \/ (q.from \in DOMAIN Views /\ Views[q.from].where = "<=")
  /\ \E i \in DOMAIN t : t[i].k = Nil
\* A view drops its own column list and the GROUP BY of the query, and understands
\* neither its condition nor that of the query when there are two.
ViewForgets(q) ==
  q.from \in DOMAIN Views /\
    (Views[q.from].cols # <<>> \/ q.group # "" \/ (Views[q.from].where # "" /\ q.where # ""))
\* The index scans know neither aggregates nor GROUP BY, nor a second condition, nor
\* "<>", and show what is not committed (IndexedTable).
IndexForgets(q) ==
  UsesIndex(q) /\
    (Aggregated(q) \/ q.group # "" \/ q.also \/ q.where = "<>" \/ added \cup gone # {})

NotSql(q) ==
  \/ CutTooSoon(q) \/ GroupsNotOrdered(q) \/ HavingUnlisted(q) \/ NullsCounted(q)
  \/ NullsCompared(q) \/ ViewForgets(q) \/ IndexForgets(q)

\* Every query of the instance but these has an answer SQL allows, with an index or
\* without: the committed rows that satisfy WHERE, in the order asked for, cut last,
\* each group with its own aggregates (planner.plan, Table.select, _index_scan,
\* _range_scan, _apply_post_select).
AnswersAreSql ==
  \A q \in Selects :
    NotSql(q) \/ \E base \in Arrangements(Seen) : Answer(q) = Meaning(q, base)

\* A join evaluates no WHERE, orders by no column, groups nothing and drops OFFSET;
\* it finds only columns that are named with their table, and cuts the rows before
\* they are made distinct.
JoinForgets(q) ==
  \/ q.where # "" \/ q.order # "" \/ q.group # "" \/ q.offset > 0
  \/ ~(ToSet(q.cols) \subseteq {"t.k", "t.v", "u.k"})
  \/ q.distinct /\ IsCut(q)
\* Outside a transaction it shows the rows another has inserted and not committed,
\* and not those it has deleted.
JoinReadsDirty(q) == ~q.txn /\ added \cup gone # {}
\* NULL keys match each other, and ON with the right table first matches every pair.
JoinMatchesMore(q) ==
  /\ q.type # "CROSS"
  /\ q.swapped \/ ((\E i \in DOMAIN t : t[i].k = Nil) /\ \E j \in DOMAIN u : u[j].k = Nil)

JoinNotSql(q) == JoinForgets(q) \/ JoinReadsDirty(q) \/ JoinMatchesMore(q)

\* A join without these clauses, of two tables that have not both a NULL key, returns
\* each pair of committed rows with equal keys once, and each row without a partner
\* once where the kind of join keeps it; LIMIT takes some of these rows (Table.join
\* 691-749, StorageEngine.join, planner.py 164-172).
JoinsPairRows ==
  \A q \in Joins :
    LET answer == JoinAnswer(q)
        expected == SqlJoin([q EXCEPT !.limit = Nil])
    IN JoinNotSql(q) \/
       /\ Len(answer) = Len(SqlJoin(q))
       /\ \A row \in ToSet(answer) : Count(row, answer) <= Count(row, expected)
=============================================================================
