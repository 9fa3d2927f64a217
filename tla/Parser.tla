------------------------------- MODULE Parser -------------------------------
(***************************************************************************)
(* From the text of a statement to its node (parser/lexer.py, parser.py).  *)
(*                                                                         *)
(* The parser reads tokens from left to right and keeps no more than it    *)
(* needs: it never asks whether anything is left. A method of the parser   *)
(* is written here as the sequence of its steps. A text is a sequence of   *)
(* words; someone writes one or two statements, and may make slips.        *)
(***************************************************************************)
EXTENDS Integers, SequencesExt, FiniteSetsExt, Folds, TLC

CONSTANTS
  Statements,  \* the statements there are, as the nodes that should come out
  Seconds,     \* those that are also written after another one, behind a semicolon
  Slips,       \* the words that a slip puts in
  MaxSlips     \* bound: slips in a text

VARIABLES
  sql,    \* the text
  meant,  \* the statements that were meant, <<>> after a slip
  slips   \* how many slips there are

vars == <<sql, meant, slips>>

-----------------------------------------------------------------------------
(***************************************************************************)
(* Words. The lexer cuts a sign from its number, and drops semicolons and  *)
(* comments. Quoted words are what stands between quotes.                  *)
(***************************************************************************)
Unquoted == "'x'" :> "x" @@ "'NULL'" :> "NULL" @@ "'DESC'" :> "DESC"
            @@ "'UNIQUE'" :> "UNIQUE" @@ "'x y'" :> "x y"
Bare(w) == IF w \in DOMAIN Unquoted THEN Unquoted[w] ELSE w
Digits == {"0", "1", "2"}
Marks == {"(", ")", ",", "=", ">", ".", "-", "*"}
Types == {"INT", "TEXT"}

TokensOf(w) == CASE w = "-1" -> <<"-", "1">> [] w \in {";", "-- note"} -> <<>> [] OTHER -> <<w>>
Tokenize(words) == FlattenSeq([i \in DOMAIN words |-> TokensOf(words[i])])

\* The parts of s between the commas that are outside parentheses.
Depth(s, i) == Cardinality({j \in 1..i : s[j] = "("}) - Cardinality({j \in 1..i : s[j] = ")"})
CommaParts(s) ==
  LET cuts == SetToSortSeq({0, Len(s) + 1} \cup {i \in DOMAIN s : s[i] = "," /\ Depth(s, i) = 0}, <)
  IN [k \in 1..(Len(cuts) - 1) |-> SubSeq(s, cuts[k] + 1, cuts[k + 1] - 1)]
NoBlanks(parts) == SelectSeq(parts, LAMBDA p : p # <<>>)

-----------------------------------------------------------------------------
(***************************************************************************)
(* The parser's position, and what it has put into the node so far.        *)
(***************************************************************************)
At(tokens) == [node |-> <<>>, rest |-> tokens, ok |-> TRUE]
Raised(st) == [st EXCEPT !.ok = FALSE]
Peek(st) == IF st.rest = <<>> THEN "" ELSE Head(st.rest)
Put(st, field, value) == [st EXCEPT !.node = field :> value @@ @]
Skip(st, n) == [st EXCEPT !.rest = SubSeq(@, n + 1, Len(@))]

\* The tokens before the first one, from position i on, that stops.
Upto(s, Stops(_)) ==
  IF \E i \in DOMAIN s : Stops(i)
  THEN SubSeq(s, 1, Min({i \in DOMAIN s : Stops(i)}) - 1) ELSE s

\* A mistake to catch: the word is not looked at.
Trusting(st, w) == IF st.rest = <<>> THEN Raised(st) ELSE Skip(st, 1)

Expect(st, w) == IF Peek(st) = w THEN Skip(st, 1) ELSE Raised(st)
Advance(st, field) ==
  IF st.rest = <<>> THEN Raised(st) ELSE Put(Skip(st, 1), field, Head(st.rest))

\* A clause with nothing in it is "", which counts as no clause everywhere.
PutClause(st, field, got) == IF got = <<>> THEN st ELSE Put(Skip(st, Len(got)), field, got)

\* _collect_until: parentheses make no difference.
CollectUntil(st, field, words) == PutClause(st, field, Upto(st.rest, LAMBDA i : st.rest[i] \in words))

\* A mistake to catch: a subquery's clauses end the WHERE clause.
CollectShort(st, field, words) == CollectUntil(st, field, words)

\* _collect_where_until: only words outside parentheses stop.
CollectWhere(st, field, words) ==
  PutClause(st, field, Upto(st.rest, LAMBDA i : st.rest[i] \in words /\ Depth(st.rest, i) = 0))

-----------------------------------------------------------------------------
(***************************************************************************)
(* Lists: they take commas where they find them, and need none.            *)
(***************************************************************************)
Value(raw) ==
  IF raw = "NULL" THEN [type |-> "null", text |-> raw]
  ELSE IF raw \in Digits THEN [type |-> "number", text |-> raw]
  ELSE [type |-> "text", text |-> Bare(raw)]

\* Up to a closing parenthesis, without which the tokens run out.
ListInside(st, Item(_)) ==
  LET got == Upto(st.rest, LAMBDA i : st.rest[i] = ")")
      items == SelectSeq(got, LAMBDA w : w # ",")
  IN [items |-> [i \in DOMAIN items |-> Item(items[i])],
      st |-> IF got = st.rest THEN Raised(st) ELSE Skip(st, Len(got))]

NamesInside(st) == LET l == ListInside(st, LAMBDA w : w) IN Put(l.st, "columns", l.items)

\* The rows of an INSERT, one after each comma.
RECURSIVE Rows(_)
Rows(st) ==
  LET open == Expect(st, "(")
      l == ListInside(open, Value)
      closed == Expect(l.st, ")")
      row == [closed EXCEPT !.node.rows = Append(@, l.items)]
  IN IF ~open.ok \/ ~l.st.ok THEN Raised(st)
     ELSE IF Peek(row) = "," THEN Rows(Skip(row, 1)) ELSE row

\* SET fills a dict: a column named twice keeps its first place and its last value.
Assigned(set, c, w) ==
  IF \E i \in DOMAIN set : set[i][1] = c
  THEN [i \in DOMAIN set |-> IF set[i][1] = c THEN <<c, w>> ELSE set[i]]
  ELSE Append(set, <<c, w>>)

RECURSIVE Assignments(_)
Assignments(st) ==
  IF Peek(st) \in {"", "WHERE"} THEN st
  ELSE IF Peek(st) = "," THEN Assignments(Skip(st, 1))
  ELSE IF Len(st.rest) < 3 \/ st.rest[2] # "=" THEN Raised(st)
  ELSE Assignments(Skip([st EXCEPT !.node.set = Assigned(@, st.rest[1], Bare(st.rest[3]))], 3))

\* A column of a SELECT: AS stands before the last word.
SelectColumn(part) ==
  IF Len(part) > 2 /\ part[Len(part) - 1] = "AS"
  THEN [expr |-> SubSeq(part, 1, Len(part) - 2), alias |-> Last(part)]
  ELSE [expr |-> part, alias |-> ""]

SelectColumns(st) ==
  LET got == Upto(st.rest, LAMBDA i : st.rest[i] = "FROM")
      parts == CommaParts(got)
      shown == IF Last(parts) = <<>> THEN Front(parts) ELSE parts
      named == [i \in DOMAIN shown |-> IF shown[i] = <<>> THEN <<"*">> ELSE shown[i]]
  IN Put(Skip(st, Len(got)), "columns",
         IF got = <<>> THEN <<SelectColumn(<<"*">>)>> ELSE [i \in DOMAIN named |-> SelectColumn(named[i])])

-----------------------------------------------------------------------------
(***************************************************************************)
(* Column definitions: patterns looked for in the joined words.            *)
(***************************************************************************)
PlacesOf(pattern, s) ==
  {i \in 1..(Len(s) - Len(pattern) + 1) : SubSeq(s, i, i + Len(pattern) - 1) = pattern}
Has(pattern, s) == PlacesOf(pattern, s) # {}

\* Up to the first blank, within quotes too.
UptoBlank(text) == IF text = "x y" THEN "x" ELSE text

DefaultOf(d) ==
  LET places == {i \in PlacesOf(<<"DEFAULT">>, d) : i < Len(d)}
  IN IF places = {} THEN "" ELSE UptoBlank(Bare(d[Min(places) + 1]))

\* Up to the first closing parenthesis, whatever was opened in between.
CheckOf(d) ==
  LET Inside(i) == Upto(SubSeq(d, i + 2, Len(d)), LAMBDA j : d[i + 1 + j] = ")")
      places == {i \in PlacesOf(<<"CHECK", "(">>, d) :
                   Inside(i) # <<>> /\ i + 2 + Len(Inside(i)) <= Len(d)}
  IN IF places = {} THEN <<>> ELSE Inside(Min(places))

ReferenceOf(d) ==
  LET places == {i \in PlacesOf(<<"REFERENCES">>, d) :
                   /\ i + 4 <= Len(d) /\ d[i + 2] = "(" /\ d[i + 4] = ")"
                   /\ {d[i + 1], d[i + 3]} \cap (Marks \cup DOMAIN Unquoted) = {}}
  IN IF places = {} THEN <<>> ELSE <<d[Min(places) + 1], d[Min(places) + 3]>>

Readable(d) == Len(d) >= 2 /\ d[2] \in Types

\* Options are looked for anywhere in the text, within quotes and names too.
ColumnDef(d) ==
  LET options == [i \in 1..(Len(d) - 2) |-> Bare(d[i + 2])]
      pk == Has(<<"PRIMARY", "KEY">>, options)
  IN [name |-> d[1], type |-> d[2], primary_key |-> pk,
      nullable |-> ~Has(<<"NOT", "NULL">>, options) /\ ~pk,
      unique |-> Has(<<"UNIQUE">>, options) \/ pk,
      default |-> DefaultOf(d), check |-> CheckOf(d), foreign_key |-> ReferenceOf(d)]

\* A definition that starts like CHECK is dropped, be it a constraint or a column.
StartsLikeCheck(d) == Head(d) \in {"CHECK", "CHECKED"}

\* CREATE TABLE reads to the parenthesis that closes the first, or to the end.
TableColumns(st) ==
  LET got == Upto(st.rest, LAMBDA i : Depth(st.rest, i) = -1)
      defs == SelectSeq(NoBlanks(CommaParts(got)), LAMBDA d : ~StartsLikeCheck(d))
  IN IF \E i \in DOMAIN defs : ~Readable(defs[i]) THEN Raised(st)
     ELSE Put(Skip(st, Len(got) + 1), "columns", [i \in DOMAIN defs |-> ColumnDef(defs[i])])

AddedColumn(st) ==
  IF Readable(st.rest) THEN Put(Skip(st, Len(st.rest)), "column", ColumnDef(st.rest)) ELSE Raised(st)

-----------------------------------------------------------------------------
(***************************************************************************)
(* The statements, as steps. If(word, then) reads on when the word is      *)
(* next; Case(cases) needs one of the words to be next, and stays at it.   *)
(***************************************************************************)
Word(w) == [do |-> "expect", word |-> w]
Name(field) == [do |-> "advance", field |-> field]
Const(field, value) == [do |-> "put", field |-> field, value |-> value]
If(w, then) == [do |-> "if", word |-> w, then |-> then]
Maybe(w) == If(w, <<>>)
Until(field, words) == [do |-> "until", field |-> field, words |-> words]
Where(words) == [do |-> "where", words |-> words]
Method(what) == [do |-> "method", what |-> what]
Case(cases) == [do |-> "case", cases |-> cases]
Kind(k) == Const("kind", k)

IfExists == If("IF", <<Word("EXISTS"), Const("if_exists", TRUE)>>)

JoinWords == {"INNER", "LEFT", "RIGHT", "FULL", "CROSS"}
JoinClause ==
  [w \in JoinWords \cup {"JOIN"} |->
     <<Const("join_type", IF w = "JOIN" THEN "INNER" ELSE w), Maybe(IF w = "JOIN" THEN "" ELSE w),
       Word("JOIN"), Name("right_table")>>
       \o IF w = "CROSS" THEN <<>>
          ELSE <<Word("ON"), Method("left"), Word("="), Method("right")>>]

ClauseWords == <<"GROUP", "HAVING", "ORDER", "LIMIT", "OFFSET">>
From(i) == {ClauseWords[j] : j \in i..5}

Select ==
  <<Kind("Select"), Word("SELECT"), If("DISTINCT", <<Const("distinct", TRUE)>>), Method("columns"),
    Word("FROM"), Name("table"), Method("join"),
    If("WHERE", <<Where(From(1))>>),
    If("GROUP", <<Word("BY"), Const("group_by", <<"*">>), Until("group_by", From(2))>>),
    If("HAVING", <<Until("having", From(3))>>),
    If("ORDER", <<Word("BY"), Name("order_by"), Method("direction")>>),
    If("LIMIT", <<Name("limit"), Method("limit")>>),
    If("OFFSET", <<Name("offset"), Method("offset")>>)>>

Insert ==
  <<Kind("Insert"), Word("INSERT"), Word("INTO"), Name("table"),
    If("(", <<Method("names"), Word(")")>>), Word("VALUES"), Const("rows", <<>>), Method("rows")>>

Update ==
  <<Kind("Update"), Word("UPDATE"), Name("table"), Word("SET"), Const("set", <<>>), Method("set"),
    If("WHERE", <<Until("where", {})>>)>>

Delete == <<Kind("Delete"), Word("DELETE"), Word("FROM"), Name("table"), If("WHERE", <<Until("where", {})>>)>>

CreateIndex ==
  <<Kind("CreateIndex"), If("UNIQUE", <<Const("unique", TRUE)>>), Word("INDEX"), Name("index"),
    Word("ON"), Name("table"), Word("("), Method("indexed"), Word(")")>>

Create ==
  <<Word("CREATE"),
    Case("TABLE" :> <<Kind("CreateTable"), Word("TABLE"), Name("table"), Word("("), Method("table_columns")>>
      @@ "INDEX" :> CreateIndex @@ "UNIQUE" :> CreateIndex
      @@ "VIEW" :> <<Word("VIEW"), Name("view"), Word("AS"), Method("view")>>)>>

Drop ==
  <<Word("DROP"),
    Case("TABLE" :> <<Kind("DropTable"), Word("TABLE"), IfExists, Name("table")>>
      @@ "INDEX" :> <<Kind("DropIndex"), Word("INDEX"), Name("index"), Word("ON"), Name("table")>>
      @@ "VIEW" :> <<Kind("DropView"), Word("VIEW"), IfExists, Name("view")>>)>>

Alter ==
  <<Word("ALTER"), Word("TABLE"), Name("table"),
    Case("ADD" :> <<Kind("AddColumn"), Word("ADD"), Maybe("COLUMN"), Method("added")>>
      @@ "DROP" :> <<Kind("DropColumn"), Word("DROP"), Maybe("COLUMN"), Name("column")>>
      @@ "RENAME" :> <<Kind("RenameColumn"), Word("RENAME"), Maybe("COLUMN"),
                       Name("old"), Word("TO"), Name("new")>>)>>

Show ==
  <<Word("SHOW"),
    Case("TABLES" :> <<Kind("ShowTables"), Word("TABLES")>>
      @@ "VIEWS" :> <<Kind("ShowViews"), Word("VIEWS")>>
      @@ "INDEXES" :> <<Kind("ShowIndexes"), Word("INDEXES"), Word("ON"), Name("table")>>)>>

\* _statement: by the first word.
Statement ==
  "SELECT" :> Select @@ "INSERT" :> Insert @@ "UPDATE" :> Update @@ "DELETE" :> Delete
  @@ "CREATE" :> Create @@ "DROP" :> Drop @@ "ALTER" :> Alter @@ "SHOW" :> Show
  @@ "TRUNCATE" :> <<Kind("Truncate"), Word("TRUNCATE"), Maybe("TABLE"), Name("table")>>
  @@ "RENAME" :> <<Kind("RenameTable"), Word("RENAME"), Word("TABLE"), Name("old"), Word("TO"), Name("new")>>
  @@ "ROLLBACK" :> <<Kind("Rollback"), Word("ROLLBACK"),
                     If("TO", <<Maybe("SAVEPOINT"), Kind("RollbackTo"), Name("name")>>)>>
  @@ "SAVEPOINT" :> <<Kind("Savepoint"), Word("SAVEPOINT"), Name("name")>>
  @@ "RELEASE" :> <<Kind("Release"), Word("RELEASE"), Maybe("SAVEPOINT"), Name("name")>>
  @@ [w \in {"DESCRIBE", "DESC"} |-> <<Kind("Describe"), Word(w), Name("table")>>]
  @@ [w \in {"EXIT", "QUIT"} |-> <<Kind("Exit"), Word(w)>>]
  @@ [w \in {"BEGIN", "COMMIT", "RECOVER", "VACUUM"} |-> <<Kind(w), Word(w)>>]

-----------------------------------------------------------------------------
(***************************************************************************)
(* Running the steps.                                                      *)
(***************************************************************************)
\* _read_col_ref: a name, or a table's name, a dot and a name.
ColumnRef(st, field) ==
  LET n == IF Len(st.rest) > 1 /\ st.rest[2] = "." THEN 3 ELSE 1
  IN IF Len(st.rest) < n THEN Raised(st) ELSE Put(Skip(st, n), field, SubSeq(st.rest, 1, n))

\* int() of the word just taken.
ToInt(st, field) == IF st.node[field] \in Digits THEN st ELSE Raised(st)

\* The columns of an index: one, and one more after each comma.
RECURSIVE Indexed(_)
Indexed(st) ==
  IF st.rest = <<>> THEN Raised(st)
  ELSE LET one == Skip([st EXCEPT !.node = "columns" :>
                          Append(IF "columns" \in DOMAIN @ THEN @.columns ELSE <<>>, Head(st.rest)) @@ @], 1)
       IN IF Peek(one) = "," THEN Indexed(Skip(one, 1)) ELSE one

RECURSIVE Run(_, _)

\* CREATE VIEW keeps the table, the columns and the condition of its SELECT.
ViewOf(st) ==
  LET inner == Run([st EXCEPT !.node = <<>>], Select)
      kept == [f \in {"table", "where", "columns"} \cap DOMAIN inner.node |->
                 IF f # "columns" THEN inner.node[f]
                 ELSE [i \in DOMAIN inner.node[f] |-> [inner.node[f][i] EXCEPT !.alias = ""]]]
  IN IF inner.ok THEN [inner EXCEPT !.node = ("kind" :> "CreateView") @@ kept @@ st.node] ELSE inner

CallMethod(st, what) ==
  CASE what = "columns" -> SelectColumns(st)
    [] what = "join" -> IF Peek(st) \in DOMAIN JoinClause THEN Run(st, JoinClause[Peek(st)]) ELSE st
    [] what \in {"left", "right"} -> ColumnRef(st, what)
    [] what \in {"limit", "offset"} -> ToInt(st, what)
    [] what = "direction" -> IF Peek(st) \in {"ASC", "DESC"} THEN Advance(st, "order_dir") ELSE st
    [] what = "names" -> NamesInside(st)
    [] what = "rows" -> Rows(st)
    [] what = "set" -> Assignments(st)
    [] what = "indexed" -> Indexed(st)
    [] what = "table_columns" -> TableColumns(st)
    [] what = "added" -> AddedColumn(st)
    [] what = "view" -> ViewOf(st)

Step(st, step) ==
  IF ~st.ok THEN st
  ELSE CASE step.do = "expect" -> Expect(st, step.word)
         [] step.do = "advance" -> Advance(st, step.field)
         [] step.do = "put" -> Put(st, step.field, step.value)
         [] step.do = "if" -> IF step.word # "" /\ Peek(st) = step.word THEN Run(Skip(st, 1), step.then) ELSE st
         [] step.do = "until" -> CollectUntil(st, step.field, step.words)
         [] step.do = "where" -> CollectWhere(st, "where", step.words)
         [] step.do = "method" -> CallMethod(st, step.what)
         [] step.do = "case" -> IF Peek(st) \in DOMAIN step.cases THEN Run(st, step.cases[Peek(st)]) ELSE Raised(st)

Run(st, steps) == FoldLeft(Step, st, steps)

Parse(tokens) ==
  LET st == At(tokens)
  IN IF Peek(st) \in DOMAIN Statement THEN Run(st, Statement[Peek(st)]) ELSE Raised(st)

-----------------------------------------------------------------------------
(***************************************************************************)
(* How a node is written: the statement that someone who means it types.   *)
(***************************************************************************)
Given(node, field) == field \in DOMAIN node
Part(node, field, words) == IF Given(node, field) THEN words ELSE <<>>
Or(node, field, value) == IF Given(node, field) THEN node[field] ELSE value

Quoted(text) ==
  IF \E w \in DOMAIN Unquoted : Unquoted[w] = text
  THEN CHOOSE w \in DOMAIN Unquoted : Unquoted[w] = text ELSE text
Commas(parts) ==
  FlattenSeq([i \in DOMAIN parts |-> IF i = 1 THEN parts[i] ELSE <<",">> \o parts[i]])
NameList(names) == Commas([i \in DOMAIN names |-> <<names[i]>>])
ValueWord(v) == IF v.type = "text" THEN Quoted(v.text) ELSE v.text
InParentheses(words) == <<"(">> \o words \o <<")">>

ColumnWords(c) ==
  <<c.name, c.type>>
    \o (IF c.primary_key THEN <<"PRIMARY", "KEY">> ELSE <<>>)
    \o (IF ~c.nullable /\ ~c.primary_key THEN <<"NOT", "NULL">> ELSE <<>>)
    \o (IF c.unique /\ ~c.primary_key THEN <<"UNIQUE">> ELSE <<>>)
    \o (IF c.default # "" THEN <<"DEFAULT", Quoted(c.default)>> ELSE <<>>)
    \o (IF c.check # <<>> THEN <<"CHECK">> \o InParentheses(c.check) ELSE <<>>)
    \o (IF c.foreign_key # <<>>
        THEN <<"REFERENCES", c.foreign_key[1], "(", c.foreign_key[2], ")">> ELSE <<>>)

ShownWords(columns) ==
  Commas([i \in DOMAIN columns |->
            columns[i].expr \o IF columns[i].alias = "" THEN <<>> ELSE <<"AS", columns[i].alias>>])

\* A second join, and further sort keys, are written after the first.
JoinWordsOf(n) ==
  Part(n, "join_type",
       <<Or(n, "join_type", ""), "JOIN", Or(n, "right_table", "")>>
         \o Part(n, "left", <<"ON">> \o Or(n, "left", <<>>) \o <<"=">> \o Or(n, "right", <<>>)))
    \o Part(n, "second_join", <<"CROSS", "JOIN", Or(n, "second_join", "")>>)

SelectWords(n) ==
  <<"SELECT">> \o Part(n, "distinct", <<"DISTINCT">>) \o ShownWords(n.columns)
    \o <<"FROM", n.table>> \o JoinWordsOf(n)
    \o Part(n, "where", <<"WHERE">> \o Or(n, "where", <<>>))
    \o Part(n, "group_by", <<"GROUP", "BY">> \o Or(n, "group_by", <<>>))
    \o Part(n, "having", <<"HAVING">> \o Or(n, "having", <<>>))
    \o Part(n, "order_by", <<"ORDER", "BY", Or(n, "order_by", "")>> \o Or(n, "further_keys", <<>>)
                             \o Part(n, "order_dir", <<Or(n, "order_dir", "")>>))
    \o Part(n, "limit", <<"LIMIT", Or(n, "limit", "")>>)
    \o Part(n, "offset", <<"OFFSET", Or(n, "offset", "")>>)

SetWords(set) == Commas([i \in DOMAIN set |-> <<set[i][1], "=", Quoted(set[i][2])>>])
WhereWords(n) == Part(n, "where", <<"WHERE">> \o Or(n, "where", <<>>))
ExistsWords(n) == Part(n, "if_exists", <<"IF", "EXISTS">>)

Words(n) ==
  CASE n.kind = "Select" -> SelectWords(n)
    [] n.kind = "Insert" ->
         <<"INSERT", "INTO", n.table>> \o Part(n, "columns", InParentheses(NameList(Or(n, "columns", <<>>))))
           \o <<"VALUES">>
           \o Commas([i \in DOMAIN n.rows |->
                        InParentheses(NameList([j \in DOMAIN n.rows[i] |-> ValueWord(n.rows[i][j])]))])
    [] n.kind = "Update" -> <<"UPDATE", n.table, "SET">> \o SetWords(n.set) \o WhereWords(n)
    [] n.kind = "Delete" -> <<"DELETE", "FROM", n.table>> \o WhereWords(n)
    [] n.kind = "CreateTable" ->
         <<"CREATE", "TABLE", n.table>>
           \o InParentheses(Commas([i \in DOMAIN n.columns |-> ColumnWords(n.columns[i])]))
    [] n.kind = "CreateIndex" ->
         <<"CREATE">> \o Part(n, "unique", <<"UNIQUE">>) \o <<"INDEX", n.index, "ON", n.table>>
           \o InParentheses(NameList(n.columns))
    [] n.kind = "CreateView" ->
         <<"CREATE", "VIEW", n.view, "AS", "SELECT">> \o ShownWords(n.columns) \o <<"FROM", n.table>> \o WhereWords(n)
           \o Part(n, "limit", <<"LIMIT", Or(n, "limit", "")>>)
    [] n.kind = "DropTable" -> <<"DROP", "TABLE">> \o ExistsWords(n) \o <<n.table>>
    [] n.kind = "DropView" -> <<"DROP", "VIEW">> \o ExistsWords(n) \o <<n.view>>
    [] n.kind = "DropIndex" -> <<"DROP", "INDEX", n.index, "ON", n.table>>
    [] n.kind = "AddColumn" -> <<"ALTER", "TABLE", n.table, "ADD", "COLUMN">> \o ColumnWords(n.column)
    [] n.kind = "DropColumn" -> <<"ALTER", "TABLE", n.table, "DROP", "COLUMN", n.column>>
    [] n.kind = "RenameColumn" -> <<"ALTER", "TABLE", n.table, "RENAME", "COLUMN", n.old, "TO", n.new>>
    [] n.kind = "RenameTable" -> <<"RENAME", "TABLE", n.old, "TO", n.new>>
    [] n.kind = "Truncate" -> <<"TRUNCATE", "TABLE", n.table>>
    [] n.kind = "RollbackTo" -> <<"ROLLBACK", "TO", "SAVEPOINT", n.name>>
    [] n.kind = "Rollback" -> <<"ROLLBACK">>
    [] n.kind = "Savepoint" -> <<"SAVEPOINT", n.name>>
    [] n.kind = "Release" -> <<"RELEASE", "SAVEPOINT", n.name>>
    [] n.kind = "Describe" -> <<"DESCRIBE", n.table>>
    [] n.kind = "ShowTables" -> <<"SHOW", "TABLES">>
    [] n.kind = "ShowViews" -> <<"SHOW", "VIEWS">>
    [] n.kind = "ShowIndexes" -> <<"SHOW", "INDEXES", "ON", n.table>>
    [] n.kind = "Exit" -> <<"EXIT">>
    [] OTHER -> <<n.kind>>

-----------------------------------------------------------------------------
(***************************************************************************)
(* Writing: a statement, or two, and slips in a single one.                *)
(***************************************************************************)
Init ==
  /\ \E s \in Statements : meant = <<s>> /\ sql = Words(s)
  /\ slips = 0

Second(s) ==
  /\ slips = 0 /\ Len(meant) = 1
  /\ meant' = Append(meant, s)
  /\ sql' = sql \o <<";">> \o Words(s)
  /\ UNCHANGED slips

Slip(text) ==
  /\ slips < MaxSlips /\ Len(meant) < 2
  /\ slips' = slips + 1 /\ meant' = <<>> /\ sql' = text

Omit(i) == Slip(RemoveAt(sql, i))
Mistype(i, w) == Slip(ReplaceAt(sql, i, w))
Add(i, w) == Slip(InsertAt(sql, i, w))
Swap(i) == Slip([sql EXCEPT ![i] = sql[i + 1], ![i + 1] = sql[i]])

Next ==
  \/ \E s \in Seconds : Second(s)
  \/ \E i \in DOMAIN sql : Omit(i) \/ \E w \in Slips : Mistype(i, w)
  \/ \E i \in 1..(Len(sql) + 1), w \in Slips : Add(i, w)
  \/ \E i \in 1..(Len(sql) - 1) : Swap(i)

Spec == Init /\ [][Next]_vars

-----------------------------------------------------------------------------
(***************************************************************************)
(* Properties.                                                             *)
(***************************************************************************)
Tokens == Tokenize(sql)
Read == Parse(Tokens)
Taken == SubSeq(Tokens, 1, Len(Tokens) - Len(Read.rest))

\* What the parser does not understand as it is meant: a negative number is two
\* tokens; of joins and sort keys only the first is read, and what follows is left;
\* of a default only the sign; a default is cut at its first blank, and makes its
\* column unique when it is a text with that word; a view keeps no more than columns
\* and condition; a check ends at the first parenthesis that closes; and a column
\* whose name starts with "check" is taken for a constraint.
Beyond(n) ==
  \/ "-1" \in ToSet(Words(n))
  \/ n.kind \in {"CreateTable", "AddColumn"} /\ {"'UNIQUE'", "'x y'"} \cap ToSet(Words(n)) # {}
  \/ Given(n, "second_join") \/ Given(n, "further_keys")
  \/ n.kind = "CreateView" /\ Given(n, "limit")
  \/ n.kind = "CreateTable" /\ \E i \in DOMAIN n.columns : StartsLikeCheck(<<n.columns[i].name>>)
  \/ n.kind \in {"CreateTable", "AddColumn"} /\ Has(<<")", ")">>, Words(n)) /\ Has(<<"CHECK", "(", "(">>, Words(n))

\* The second of two statements is read as a part of the first, and may be refused with
\* it, when the first ends in a clause that takes whatever follows.
OpenEnded(n) ==
  \/ n.kind \in {"AddColumn", "Update"}
  \/ n.kind = "Delete" /\ Given(n, "where")
  \/ n.kind \in {"Select", "CreateView"} /\ {"where", "group_by", "having"} \cap DOMAIN n # {}
       /\ {"order_by", "limit", "offset"} \cap DOMAIN n = {}

\* A statement without a slip comes out as the node that was meant, and of two only
\* the first does; except what Beyond and OpenEnded name
\* (parser.py 48-598, lexer.py 23-51).
StatementsAreUnderstood ==
  meant # <<>> =>
    \/ Read.ok /\ Read.node = meant[1] /\ Read.rest = IF Len(meant) = 2 THEN Tokenize(Words(meant[2])) ELSE <<>>
    \/ Beyond(meant[1])
    \/ OpenEnded(meant[1]) /\ Len(meant) = 2

\* What is taken is looked for in the node without the words that are optional.
Plain(words) ==
  LET kept == SelectSeq(words, LAMBDA w : w \notin {",", "*", "COLUMN", "TABLE", "SAVEPOINT", "INNER"})
      Synonym(w) == CASE w = "DESC" -> "DESCRIBE" [] w = "QUIT" -> "EXIT" [] OTHER -> Bare(w)
  IN [i \in DOMAIN kept |-> Synonym(kept[i])]
EqualSigns(words) == Len(SelectSeq(words, LAMBDA w : w = "="))

\* Whatever slips a text has: when it is accepted, every word the parser has gone past
\* is in the node, at its place. Three kinds of words are read and forgotten: a column's
\* earlier value in a SET, the clauses of a view's SELECT behind its condition, and in
\* a column definition what no pattern looks for. And a WHERE or HAVING with nothing
\* behind it counts as none: DELETE deletes every row (parser.py 48-598).
WordsTakenAreKept ==
  Read.ok =>
    \/ Plain(Tokenize(Words(Read.node))) = Plain(Taken)
    \/ Read.node.kind = "Update" /\ EqualSigns(Taken) > EqualSigns(Words(Read.node))
    \/ Read.node.kind \in {"CreateView", "CreateTable", "AddColumn"}
    \/ Read.rest = <<>> /\ Last(Taken) \in {"WHERE", "HAVING"}
    \/ Read.node.kind = "Select" /\ \E i \in 1..(Len(Taken) - 1) :
          Taken[i] \in {"WHERE", "HAVING"} /\ Taken[i + 1] \in From(1)
=============================================================================
