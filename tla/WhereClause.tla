---------------------------- MODULE WhereClause ----------------------------
(***************************************************************************)
(* How a WHERE clause is evaluated: storage/table.py does not parse it but *)
(* cuts its text, the words joined by blanks, at OR, then at AND, and      *)
(* matches each part with one pattern after another.  executor.py replaces *)
(* subqueries in the text by the list of their values before.              *)
(*                                                                         *)
(* A clause is written by a user who means something by it.  The state is  *)
(* a stack of conditions, each with its text and the rows that it is meant *)
(* to select; AND, OR, NOT and a view's condition combine the topmost.     *)
(***************************************************************************)
EXTENDS Integers, SequencesExt, FiniteSetsExt

CONSTANTS
  Columns,    \* the columns' names
  Rows,       \* the rows a clause is put to: from a column to a value or Null
  Atoms,      \* the conditions a user writes, see below
  Returned,   \* the values a subquery returns
  MaxAtoms    \* bound: conditions in a clause

VARIABLE stack

-----------------------------------------------------------------------------
(***************************************************************************)
(* Values.  Numbers have one digit, so that they compare alike as numbers  *)
(* and as text; NULL compares as the empty text, less than everything.     *)
(* A quoted text of several words stands in the clause as those words.     *)
(***************************************************************************)
Null == 0
Literal == [w \in {"1", "2", "3", "'x", "'y"} |->
              CASE w = "1" -> 1 [] w = "2" -> 2 [] w = "3" -> 3 [] w = "'x" -> 8 [] w = "'y" -> 9]
NumberWords == {"1", "2", "3"}
WordOf(n) == CHOOSE w \in NumberWords : Literal[w] = n

Operators == {"=", "!=", "<", "<=", ">", ">="}
Compare(a, op, b) ==
  CASE op = "=" -> a = b [] op = "!=" -> a # b
    [] op = "<" -> a < b [] op = "<=" -> a <= b
    [] op = ">" -> a > b [] op = ">=" -> a >= b

\* A condition: its words, the rows it is meant for, what its outermost connective
\* is, and what in it is known to go wrong.
Atom(words, rows) == [words |-> words, rows |-> rows, top |-> "atom", size |-> 1, pitfalls |-> {}]

Comparison(c, op, w) == Atom(<<c, op, w>>, {r \in Rows : Compare(r[c], op, Literal[w])})
IsNull(c) == Atom(<<c, "IS", "NULL">>, {r \in Rows : r[c] = Null})
IsNotNull(c) == Atom(<<c, "IS", "NOT", "NULL">>, {r \in Rows : r[c] # Null})
Between(c, v, w) == Atom(<<c, "BETWEEN", v, "AND", w>>,
                         {r \in Rows : Literal[v] <= r[c] /\ r[c] <= Literal[w]})
InList(c, v, w) == Atom(<<c, "IN", "(", v, ",", w, ")">>, {r \in Rows : r[c] \in {Literal[v], Literal[w]}})
InSubquery(c) == Atom(<<c, "IN", "(", "SELECT", "b", "FROM", "s", ")">>, {r \in Rows : r[c] # Null /\ r[c] \in Returned})
\* A text that no row has, with the word AND or OR in it.
QuotedText(c, word) == [Atom(<<c, "=", "'x", word, "y'">>, {}) EXCEPT !.pitfalls = {"quoted " \o word}]

-----------------------------------------------------------------------------
(***************************************************************************)
(* table.py and executor.py.                                               *)
(***************************************************************************)
Cuts(s, word) == SetToSortSeq({0, Len(s) + 1} \cup {i \in DOMAIN s : s[i] = word}, <)
Split(s, word) ==
  LET cuts == Cuts(s, word)
  IN [k \in 1..(Len(cuts) - 1) |-> SubSeq(s, cuts[k] + 1, cuts[k + 1] - 1)]

\* What a part of the clause that is neither empty nor negated says of a row.  An
\* opening parenthesis makes its first word an unknown column, which is NULL; a
\* closing one is taken for a part of the number before it.
EvalCondition(row, part) ==
  LET opened == part[1] = "("
      body == SelectSeq(part, LAMBDA w : w \notin {"(", ")"})
      cell == IF opened THEN Null ELSE row[body[1]]
      closed == Last(part) = ")" /\ Last(body) \in NumberWords
      Truth(b) == IF b THEN "true" ELSE "false"
  IN
  IF body[1] \notin Columns \/ body[2] \notin Operators \cup (IF opened THEN {} ELSE {"IS", "IN"})
  THEN "error"
  ELSE CASE body[2] = "IS" -> Truth((cell = Null) = (body[3] = "NULL"))
         [] body[2] = "IN" -> Truth(\E i \in 3..Len(body) :
                                      body[i] \in NumberWords /\ cell = Literal[body[i]])
         [] OTHER -> Truth(Compare(2 * cell, body[2], 2 * Literal[body[3]] + IF closed THEN 1 ELSE 0))

\* One NOT is taken off.
EvalPart(row, part) ==
  IF Head(part) # "NOT" THEN EvalCondition(row, part)
  ELSE LET value == EvalCondition(row, Tail(part))
       IN CASE value = "true" -> "false" [] value = "false" -> "true" [] OTHER -> "error"

\* All the parts of a group are evaluated, none is skipped.
EvalGroup(row, group) ==
  LET values == {EvalPart(row, part) : part \in ToSet(Split(group, "AND"))}
  IN IF "error" \in values THEN "error" ELSE IF "false" \in values THEN "false" ELSE "true"

\* A mistake to catch: BETWEEN is left as it is.
AsWritten(s) == s

\* c BETWEEN v AND w becomes c >= v AND c <= w, before the text is cut.
RECURSIVE Rewritten(_)
Rewritten(s) ==
  IF ~Contains(s, "BETWEEN") THEN s
  ELSE LET i == SelectInSeq(s, LAMBDA w : w = "BETWEEN") IN
       SubSeq(s, 1, i - 1) \o <<">=", s[i + 1], "AND", s[i - 1], "<=">>
         \o Rewritten(SubSeq(s, i + 3, Len(s)))

\* _eval_where: the groups in order, until one is true or raises.
EvalWhere(row, words) ==
  LET groups == Split(Rewritten(words), "OR")
      decisive == {g \in DOMAIN groups : EvalGroup(row, groups[g]) # "false"}
  IN IF decisive = {} THEN "false" ELSE EvalGroup(row, groups[Min(decisive)])

\* The list that takes a subquery's place; an empty one would not match the pattern.
ListOf(values) ==
  LET Word(v) == IF v = Null THEN "NULL" ELSE CHOOSE w \in NumberWords : Literal[w] = v
  IN IF values = {} THEN <<"NULL">>
     ELSE Tail(FoldSet(LAMBDA v, l : l \o <<",", Word(v)>>, <<>>, values))

\* _resolve_subqueries looks at the first IN only: when it calls itself again, this
\* is the one whose subquery it has just replaced.
Resolved(s) ==
  LET i == SelectInSeq(s, LAMBDA w : w = "IN")
      end == SelectInSubSeq(s, i + 1, Len(s), LAMBDA w : w = ")")
  IN IF i = 0 THEN s
     ELSE IF s[i + 2] # "SELECT" THEN s
     ELSE SubSeq(s, 1, i + 1) \o ListOf(Returned) \o SubSeq(s, end, Len(s))

\* The rows a statement with this clause selects, or the error one of them raises.
Select(words) ==
  LET value == [r \in Rows |-> EvalWhere(r, Resolved(words))]
  IN [ok |-> \A r \in Rows : value[r] # "error", rows |-> {r \in Rows : value[r] = "true"}]

-----------------------------------------------------------------------------
(***************************************************************************)
(* The user.                                                               *)
(***************************************************************************)
Init == stack = <<>>

\* Bound: conditions in a clause.
Size == IF stack = <<>> THEN 0 ELSE FoldSeq(LAMBDA c, n : c.size + n, 0, stack)

Write(atom) ==
  /\ Len(stack) < 2 /\ Size < MaxAtoms
  /\ stack' = Append(stack, atom)

\* A condition in parentheses, and one in those it needs below NOT or AND.
Enclosed(c) == [c EXCEPT !.words = <<"(">> \o @ \o <<")">>, !.pitfalls = @ \cup {"parentheses"}]
Operand(c, looser) == IF c.top \in looser THEN Enclosed(c) ELSE c

Negation(c) ==
  LET d == Operand(c, {"and", "or"})
  IN [d EXCEPT !.words = <<"NOT">> \o @, !.rows = Rows \ @, !.top = "not",
               !.pitfalls = @ \cup (IF c.top = "not" THEN {"not not"} ELSE {})
                              \cup (IF c.top = "atom" /\ c.words[2] = "BETWEEN" THEN {"not between"} ELSE {})]

\* Bound: two NOTs in a row at most.
Negate ==
  /\ stack # <<>> /\ "not not" \notin Head(stack).pitfalls
  /\ stack' = [stack EXCEPT ![1] = Negation(@)]

Joined(c, word, d, top, rows) ==
  [words |-> c.words \o <<word>> \o d.words, rows |-> rows, top |-> top, size |-> c.size + d.size,
   pitfalls |-> c.pitfalls \cup d.pitfalls
                  \cup IF Contains(c.words, "IN") /\ Contains(d.words, "SELECT") THEN {"second IN"} ELSE {}]

Conjunction(c, d) ==
  Joined(Operand(c, {"or"}), "AND", Operand(d, {"or"}), "and", c.rows \cap d.rows)
Disjunction(c, d) == Joined(c, "OR", d, "or", c.rows \cup d.rows)
\* engine.py, _query_view: the view's condition and that of the query.
ViewCondition(v, c) == Joined(Enclosed(v), "AND", Enclosed(c), "and", v.rows \cap c.rows)

Combine(Connective(_, _)) ==
  /\ Len(stack) = 2
  /\ \E i \in 1..2 : stack' = <<Connective(stack[i], stack[3 - i])>>

And == Combine(Conjunction)
Or == Combine(Disjunction)
QueryView == Combine(ViewCondition)

Next == (\E atom \in Atoms : Write(atom)) \/ Negate \/ And \/ Or \/ QueryView

Spec == Init /\ [][Next]_stack

-----------------------------------------------------------------------------
(***************************************************************************)
(* Properties.                                                             *)
(***************************************************************************)
\* These raise, unless an OR has been decided before.
Loud == {"not not", "quoted AND"}

\* A clause selects the rows it is meant for, with NOT before AND before OR and
\* the AND of BETWEEN set apart, when it has no parentheses, no NOT before BETWEEN,
\* no OR in a quoted text and no IN before a subquery; and one with two NOTs in a
\* row or an AND in a quoted text either does, too, or raises (table.py 85-128,
\* executor.py 190-240).
ClausesSelectWhatTheySay ==
  \A c \in ToSet(stack) :
    /\ c.pitfalls = {} => Select(c.words).ok
    /\ c.pitfalls \subseteq Loud /\ Select(c.words).ok => Select(c.words).rows = c.rows

\* Parentheses group: "Parenthesized groups: `(age > 25 OR age < 20) AND ...`" is
\* what docs/02_parser.md 108 says that a WHERE clause may have.
ParenthesesGroup ==
  \A c \in ToSet(stack) : c.pitfalls = {"parentheses"} => Select(c.words).rows = c.rows
=============================================================================
