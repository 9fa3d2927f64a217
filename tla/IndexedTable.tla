---------------------------- MODULE IndexedTable ----------------------------
(***************************************************************************)
(* A table with an index on one column: how storage/table.py keeps the     *)
(* index (storage/index.py) while statements, ROLLBACK and VACUUM change   *)
(* the rows, and the scans the planner chooses when there is an index      *)
(* (executor/planner.py, executor/executor.py).                            *)
(*                                                                         *)
(* A statement is one step here.  The index is the ordered multimap that   *)
(* SortedMultimap promises, with the type errors its comparisons raise.    *)
(* When a leaf is split, hence how many levels the tree has, is left open. *)
(***************************************************************************)
EXTENDS Visibility, Sequences, FiniteSets, FiniteSetsExt

CONSTANTS
  Sessions,   \* the connections' threads
  Values,     \* values of the indexed column
  Text,       \* Text[v]: the place of v in the order WHERE compares by,
              \* which tells any two values of a column apart
  Key,        \* Key[v]: its B+ tree key (Index._to_key), a place in an order
  Numeric,    \* the values whose key is a number, not a text
  Uniques,    \* the kinds of index a session creates: unique or not
  Writes,     \* the values a session inserts and updates to
  MaxTxn,     \* bound: no transaction id above this one
  MaxRows,    \* bound: rows are appended up to this many
  Nil

ASSUME ValuesAssumption ==
  /\ Text \in [Values -> Nat] /\ Key \in [Values -> Nat]
  /\ \A v, w \in Values : Text[v] = Text[w] => v = w
  /\ Numeric \subseteq Values /\ Writes \subseteq Values /\ Uniques \subseteq BOOLEAN
  /\ MaxTxn \in Nat /\ MaxRows \in Nat

VARIABLES
  rows,    \* Table.rows
  index,   \* Table.indexes: Nil, or its entries, separators and whether it is unique
  mvcc,    \* MVCCManager
  txn      \* txn[s]: the transaction of session s (id 0: none)

vars == <<rows, index, mvcc, txn>>

-----------------------------------------------------------------------------
(***************************************************************************)
(* The index.  An entry is a key, its kind and the row's list position;    *)
(* `separators` has the kinds of the keys in the inner nodes, which stay   *)
(* when their entries go; `whole` is history: the last rebuilding has not  *)
(* stopped half-way.                                                       *)
(*                                                                         *)
(* Of a row, `unindexed` is history: the index has refused it, or the last *)
(* rebuilding stopped before it.  So is `suspect`: the index has refused   *)
(* it, or had stopped half-way when the row came, or a ROLLBACK has taken  *)
(* back its deletion, and the index has not been built whole since.        *)
(***************************************************************************)
KeyOf(v) == [place |-> Key[v], number |-> v \in Numeric]
Entry(v, i) == [key |-> KeyOf(v), pos |-> i]
Lookup(entries, v) == {e.pos : e \in {f \in entries : f.key = KeyOf(v)}}

\* Numbers and texts do not compare: an insertion does it with the keys of a leaf,
\* the way down to a leaf with the separators.
Mixed(entries, v) == \E e \in entries : e.key.number # (v \in Numeric)
Apart(separators, v) == \E number \in separators : number # (v \in Numeric)

\* What the leaf says to Index.insert, and to one turn of Index.build.
Refuses(entries, unique, v) == (unique /\ Lookup(entries, v) # {}) \/ Mixed(entries, v)

Done(rs, entries) == [ok |-> TRUE, rows |-> rs, entries |-> entries]
Raised(rs, entries) == [ok |-> FALSE, rows |-> rs, entries |-> entries]

\* History: all rows are in the index, or those before the m-th.
Known(rs) == [i \in DOMAIN rs |-> [rs[i] EXCEPT !.unindexed = FALSE, !.suspect = FALSE]]
KnownBefore(rs, m) == [i \in DOMAIN rs |-> [rs[i] EXCEPT !.unindexed = i >= m]]

\* A mistake to catch: the rows are appended to the entries there are.
BuildOnTop(rs, old, unique) ==
  Done(Known(rs), old \cup {Entry(rs[i].key, i) : i \in DOMAIN rs})

\* Index.build: every version, live or not, until one is refused.
Build(rs, old, unique) ==
  LET before(i) == {Entry(rs[j].key, j) : j \in 1..(i - 1)}
      refused == {i \in DOMAIN rs : Refuses(before(i), unique, rs[i].key)}
  IN IF refused = {} THEN Done(Known(rs), before(Len(rs) + 1))
     ELSE Raised(KnownBefore(rs, Min(refused)), before(Min(refused)))

\* The inner nodes of a tree that has just been built.
Splits(entries) == {{}, {e.key.number : e \in entries}}

\* The columns and stamps of a row, which `==` compares in Python.
Plain(row) == [key |-> row.key, xmin |-> row.xmin, xmax |-> row.xmax]
\* list.index: the first row that is equal to the one at i.
PositionOf(rs, i) == Min({j \in DOMAIN rs : Plain(rs[j]) = Plain(rs[i])})

-----------------------------------------------------------------------------
(***************************************************************************)
(* Table.insert, update and delete, from the rows and entries they find.   *)
(***************************************************************************)
Indexed == index # Nil
Entries == IF Indexed THEN index.entries ELSE {}
Separators == IF Indexed THEN index.separators ELSE {}
Unique == Indexed /\ index.unique

Version(v, id, refused) ==
  [key |-> v, xmin |-> id, xmax |-> NotDeleted, unindexed |-> refused,
   suspect |-> refused \/ (Indexed /\ ~index.whole)]

\* The row first, then its entry.
InsertRow(v, id) ==
  LET refused == Indexed /\ (Apart(Separators, v) \/ Refuses(Entries, Unique, v))
      new == Append(rows, Version(v, id, refused))
  IN IF refused THEN Raised(new, Entries) ELSE Done(new, Entries \cup {Entry(v, Len(new))})

\* The rows a WHERE on this value finds.
Targets(v, id, sn) == {i \in DOMAIN rows : rows[i].key = v /\ IsVisible(rows[i], id, sn)}
UpTo(T, i) == {j \in T : j <= i}

Stamped(T, id) == [i \in DOMAIN rows |-> IF i \in T THEN StampDelete(rows[i], id) ELSE rows[i]]

\* A mistake to catch: the key goes, with the rows of others.
RemovedKey(rs, i) == {Entry(rs[i].key, j) : j \in DOMAIN rs}

\* The entry that goes with row i is that of the first row that looks the same.
Removed(rs, i) == {Entry(rs[i].key, PositionOf(rs, i))}

\* One row after the other: the stamp first, then the entry goes.
Gone(T, id) == UNION {Removed(Stamped(UpTo(T, i), id), i) : i \in T}

\* The rows that are done until the first that raises.
DoneRows(T, refused) == IF refused = {} THEN T ELSE UpTo(T, Min(refused))

\* Index.delete raises on its way down, and has then nothing to remove.
DeleteRows(T, id) ==
  LET refused == {i \in T : Apart(Separators, rows[i].key)}
      done == DoneRows(T, refused)
  IN [ok |-> refused = {}, rows |-> Stamped(done, id), entries |-> Entries \ Gone(done, id)]

\* UPDATE of the rows T: where the new version of i comes, the entries it finds there,
\* and the versions that are refused; the old key can raise, too, and the first new
\* entry can split the leaf, which leaves the separators `seps` for the other rows.
Place(T, i) == Len(rows) + Cardinality(UpTo(T, i))
EntriesAt(T, new, id, i) ==
  (Entries \ Gone(UpTo(T, i), id)) \cup {Entry(new, Place(T, j)) : j \in UpTo(T, i) \ {i}}
Met(T, i, seps) == IF i = Min(T) THEN Separators ELSE seps
RefusedRows(T, new, id, seps) ==
  {i \in T : Indexed /\ \/ \E v \in {rows[i].key, new} : Apart(Met(T, i, seps), v)
                        \/ Refuses(EntriesAt(T, new, id, i), Unique, new)}

UpdatedRows(D, new, id, refused) ==
  [i \in 1..(Len(rows) + Cardinality(D)) |->
     IF i <= Len(rows) THEN Stamped(D, id)[i]
     ELSE Version(new, id, refused /\ i = Len(rows) + Cardinality(D))]

UpdateRows(T, new, id, seps) ==
  LET refused == RefusedRows(T, new, id, seps)
      after == UpdatedRows(DoneRows(T, refused), new, id, refused # {})
  IN IF refused # {} THEN Raised(after, EntriesAt(T, new, id, Min(refused)))
     ELSE Done(after, (Entries \ Gone(T, id)) \cup {Entry(new, Place(T, i)) : i \in T})

-----------------------------------------------------------------------------
(***************************************************************************)
(* Sessions.                                                               *)
(***************************************************************************)
NoTxn == [id |-> AutoCommit, snap |-> Nil]
Fresh == [active |-> mvcc.active, committed |-> mvcc.committed, max |-> mvcc.next - 1]
Busy(s) == txn[s] # NoTxn

Init ==
  /\ rows = <<>> /\ index = Nil
  /\ mvcc = [next |-> 1, active |-> {}, committed |-> {}]
  /\ txn = [s \in Sessions |-> NoTxn]

\* The separators after a statement that inserts v.
AfterInsert(v) == {Separators, {v \in Numeric}}

\* What a statement leaves, complete or not. Only an insertion splits a node.
Leave(result, seps) ==
  /\ rows' = result.rows
  /\ seps = Separators \/ ~(result.entries \subseteq Entries)
  /\ index' = IF Indexed THEN [index EXCEPT !.entries = result.entries, !.separators = seps]
             ELSE index

\* A statement of s; outside a transaction its id is committed before it begins.
IdOf(s) == IF Busy(s) THEN txn[s].id ELSE mvcc.next
SnapOf(s) ==
  IF Busy(s) THEN txn[s].snap
  ELSE [Fresh EXCEPT !.committed = @ \cup {mvcc.next}, !.max = mvcc.next]
Statement(s) ==
  /\ UNCHANGED txn
  /\ IF Busy(s) THEN UNCHANGED mvcc
     ELSE /\ mvcc.next <= MaxTxn
          /\ mvcc' = [mvcc EXCEPT !.next = @ + 1, !.committed = @ \cup {mvcc.next}]

Insert(s, v) ==
  /\ Len(rows) < MaxRows
  /\ Statement(s)
  /\ \E seps \in AfterInsert(v) : Leave(InsertRow(v, IdOf(s)), seps)

Delete(s, v) ==
  /\ Statement(s)
  /\ Leave(DeleteRows(Targets(v, IdOf(s), SnapOf(s)), IdOf(s)), Separators)

Update(s, v, new) ==
  /\ Statement(s)
  /\ \E seps \in AfterInsert(new) :
       Leave(UpdateRows(Targets(v, IdOf(s), SnapOf(s)), new, IdOf(s), seps), seps)
  /\ Len(rows') <= MaxRows

Begin(s) ==
  /\ ~Busy(s) /\ mvcc.next <= MaxTxn
  /\ mvcc' = [mvcc EXCEPT !.next = @ + 1, !.active = @ \cup {mvcc.next}]
  /\ txn' = [txn EXCEPT ![s] = [id |-> mvcc.next,
                                snap |-> [Fresh EXCEPT !.active = @ \cup {mvcc.next}, !.max = mvcc.next]]]
  /\ UNCHANGED <<rows, index>>

Commit(s) ==
  /\ Busy(s)
  /\ mvcc' = [mvcc EXCEPT !.active = @ \ {txn[s].id}, !.committed = @ \cup {txn[s].id}]
  /\ txn' = [txn EXCEPT ![s] = NoTxn]
  /\ UNCHANGED <<rows, index>>

\* The rows at the places in S, in list order.
Nth(S, k) == CHOOSE i \in S : Cardinality({j \in S : j < i}) = k - 1
Keep(rs, S) == [k \in 1..Cardinality(S) |-> rs[Nth(S, k)]]

\* The rows are replaced, then the index is built again, whole or in part.
Rebuilt(rs) == IF Indexed THEN Build(rs, index.entries, index.unique) ELSE Done(rs, {})
Replace(rs) ==
  /\ rows' = Rebuilt(rs).rows
  /\ \E seps \in Splits(Rebuilt(rs).entries) :
       index' = IF Indexed
                THEN [index EXCEPT !.entries = Rebuilt(rs).entries, !.separators = seps,
                                   !.whole = Rebuilt(rs).ok]
                ELSE index

\* rollback_txn: what the transaction deleted is there again, what it created goes.
Revived(row) == [row EXCEPT !.xmax = NotDeleted, !.suspect = TRUE]
Undone(id) ==
  Keep([i \in DOMAIN rows |-> IF rows[i].xmax = id THEN Revived(rows[i]) ELSE rows[i]],
       {i \in DOMAIN rows : rows[i].xmin # id})

\* When the index cannot be built the transaction stays open.
Rollback(s) ==
  LET left == Undone(txn[s].id) IN
  /\ Busy(s)
  /\ Replace(left)
  /\ IF ~Rebuilt(left).ok THEN UNCHANGED <<mvcc, txn>>
     ELSE /\ mvcc' = [mvcc EXCEPT !.active = @ \ {txn[s].id}]
          /\ txn' = [txn EXCEPT ![s] = NoTxn]

Vacuum ==
  LET oldest == IF mvcc.active = {} THEN mvcc.next ELSE Min(mvcc.active)
      kept == Keep(rows, {i \in DOMAIN rows : ~IsDead(rows[i], oldest, mvcc.committed)})
  IN
  /\ Len(kept) < Len(rows)
  /\ Replace(kept)
  /\ UNCHANGED <<mvcc, txn>>

\* TRUNCATE asks no transaction.
Truncate ==
  /\ rows' = <<>>
  /\ index' = IF Indexed THEN [index EXCEPT !.entries = {}, !.separators = {}, !.whole = TRUE]
             ELSE index
  /\ UNCHANGED <<mvcc, txn>>

\* An index that cannot be built is not created.
CreateIndex(unique) ==
  LET built == Build(rows, {}, unique) IN
  /\ ~Indexed
  /\ IF ~built.ok THEN UNCHANGED <<rows, index>>
     ELSE /\ rows' = built.rows
          /\ \E seps \in Splits(built.entries) :
               index' = [entries |-> built.entries, separators |-> seps, unique |-> unique,
                         whole |-> TRUE]
  /\ UNCHANGED <<mvcc, txn>>

DropIndex ==
  /\ Indexed /\ index' = Nil
  /\ UNCHANGED <<rows, mvcc, txn>>

Next ==
  \/ \E s \in Sessions :
       \/ Begin(s) \/ Commit(s) \/ Rollback(s)
       \/ \E v \in Writes : Insert(s, v) \/ Delete(s, v) \/ \E new \in Writes : Update(s, v, new)
  \/ Vacuum \/ Truncate \/ DropIndex
  \/ \E unique \in Uniques : CreateIndex(unique)

Spec == Init /\ [][Next]_vars

-----------------------------------------------------------------------------
(***************************************************************************)
(* SELECT ... WHERE column op value, without the index and with it.        *)
(***************************************************************************)
Compare(a, op, b) == CASE op = "=" -> a = b [] op = "<" -> a < b [] op = ">=" -> a >= b
\* _eval_where on a row.
Where(row, op, v) == Compare(Text[row.key], op, Text[v])

\* engine.select: the snapshot of the transaction, or a fresh one.
FullScan(s, op, v) ==
  {i \in DOMAIN rows : /\ IsVisible(rows[i], txn[s].id, IF Busy(s) THEN txn[s].snap ELSE Fresh)
                       /\ Where(rows[i], op, v)}

\* A mistake to catch: a transaction's snapshot is not asked.
ShownLive(s, row) == row.xmax = NotDeleted

Shown(s, row) ==
  IF Busy(s) THEN IsVisible(row, txn[s].id, txn[s].snap) ELSE row.xmax = NotDeleted

\* _index_scan for "=", _range_scan for the others: the rows at the positions
\* found, in a transaction those it sees, outside one those that nobody has
\* deleted, and the WHERE clause again. "=" and ">=" go down to the leaf of the value;
\* "<" begins at the first leaf; a range compares the keys it meets.
IndexScan(s, op, v) ==
  LET found == IF op = "=" THEN Lookup(Entries, v)
               ELSE {e.pos : e \in {f \in Entries : Compare(f.key.place, op, Key[v])}}
  IN [ok |-> /\ op \in {"=", ">="} => ~Apart(Separators, v)
             /\ op \in {"<", ">="} => ~Mixed(Entries, v),
      rows |-> {i \in found \cap DOMAIN rows : Shown(s, rows[i]) /\ Where(rows[i], op, v)}]

-----------------------------------------------------------------------------
(***************************************************************************)
(* Properties.                                                             *)
(***************************************************************************)
\* An entry stands for the row at its position: no statement, copy of the list or
\* error half-way leaves one that stands for another row or for none (table.py
\* 329-337, 515-523, 547-552, 566-573, 593-597).
EntriesPointAtTheirRows ==
  \A e \in Entries : e.pos \in DOMAIN rows /\ e.key = KeyOf(rows[e.pos].key)

\* The two orders put the row and the literal the same way round.
SameOrder(row, v) == \A op \in {"<", ">="} : Compare(Text[row.key], op, Text[v]) = Compare(Key[row.key], op, Key[v])

\* An index scan returns what a full scan does, except that
\*   - it misses versions somebody has stamped, though the deletion is not
\*     committed or the reader's snapshot is older; rows the index has refused;
\*     undeleted rows, committed ones too, from the place on where a ROLLBACK or
\*     VACUUM has stopped to build the index again; and texts that compare
\*     otherwise in lower case;
\*   - outside a transaction it also returns rows that are not committed;
\*   - it raises for a value of the other kind than the keys: a range always, an
\*     exact lookup in a tree of several levels, which then has no such row
\* (executor.py 319-404, table.py 515-523, 547-552, 566-573, 593-597).
IndexScansAgree ==
  \A s \in Sessions, op \in {"=", "<", ">="}, v \in Values :
    LET full == FullScan(s, op, v)
        scan == IndexScan(s, op, v)
    IN Indexed =>
         /\ scan.ok => \A i \in scan.rows \ full : ~Busy(s) /\ rows[i].xmin \notin mvcc.committed
         /\ scan.ok \/ op = "=" =>
              \A i \in full \ (IF scan.ok THEN scan.rows ELSE {}) :
                rows[i].xmax # NotDeleted \/ rows[i].unindexed \/ ~SameOrder(rows[i], v)
         /\ ~scan.ok => \A e \in Entries : e.key.number # (v \in Numeric)

\* The index can be built again, as ROLLBACK, VACUUM and the next start must do, but
\* for four kinds of rows: old versions, rows that an INSERT or UPDATE left behind
\* with an error, rows that came when the index was built in part only, and rows
\* that a ROLLBACK has revived after others got their keys; the undeleted rows
\* without these never collide (table.py 329-337, 587-597, engine.py 126-129).
LiveRowsCanBeIndexed ==
  Indexed =>
    LET live == {i \in DOMAIN rows : rows[i].xmax = NotDeleted /\ ~rows[i].suspect}
    IN Build(Keep(rows, live), {}, index.unique).ok
=============================================================================
