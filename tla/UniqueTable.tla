---------------------------- MODULE UniqueTable ----------------------------
(***************************************************************************)
(* A table with one UNIQUE column while several sessions change it: the    *)
(* statements of storage/table.py and the locks of storage/engine.py, one  *)
(* step for each access another thread can come between.                   *)
(*                                                                         *)
(* INSERT holds the table's lock.  UPDATE and DELETE hold a lock for each  *)
(* list position they found, and none on the table.  ROLLBACK and VACUUM   *)
(* hold the manager's lock and put a filtered copy in the place of the     *)
(* list Table.rows; a loop that runs over the old list goes on with it.    *)
(*                                                                         *)
(* Rows are appended at the end and filtered out, never moved: every list  *)
(* has its rows in the order they were made in, and is modelled as the set *)
(* of their numbers.                                                       *)
(***************************************************************************)
EXTENDS Visibility, Sequences, FiniteSets, FiniteSetsExt

CONSTANTS
  Sessions,  \* the connections' threads
  Keys,      \* values of the UNIQUE column
  Loaded,    \* the rows found on disk: key, xmin, xmax
  Stmts,     \* Stmts[s]: what session s issues, records op, where, new
  MaxPolls,  \* 100 in the code: how often the check looks again
  MaxStmts,  \* bound: statements in all
  MaxTxn,    \* bound: no BEGIN takes an id above this one
  MaxLists,  \* bound: VACUUM does not start with this many lists
  Nil

ASSUME BoundsAssumption == MaxPolls \in Nat \ {0} /\ MaxStmts \in Nat /\ MaxTxn \in Nat /\ MaxLists \in Nat
ASSUME StmtsAssumption ==
  Stmts \in [Sessions -> SUBSET [op : {"insert", "update", "delete"},
                                where : Keys \cup {Nil}, new : Keys]]

\* The ROLLBACK or VACUUM under way, and the list it is about to put in place.
Copies == [owner : Sessions, kind : {"rollback", "vacuum"}, rows : SUBSET Nat]
ASSUME NilAssumption == Nil \notin Sessions /\ Nil \notin Copies

LoadedStamps ==
  {AutoCommit} \cup {Loaded[i].xmin : i \in DOMAIN Loaded} \cup {Loaded[i].xmax : i \in DOMAIN Loaded}

\* The file is finite, so one of its stamps is the greatest; and no undeleted row
\* of it has the key of a newer one that another transaction made.
ASSUME LoadedAssumption ==
  /\ Loaded \in Seq([key : Keys, xmin : Nat, xmax : Nat])
  /\ \E top \in LoadedStamps : \A n \in LoadedStamps : n <= top
  /\ \A i, j \in DOMAIN Loaded :
       i < j /\ Loaded[i].key = Loaded[j].key =>
         Loaded[i].xmin = Loaded[j].xmin \/ Loaded[i].xmax # NotDeleted

VARIABLES
  heap,       \* all row versions ever made, by number
  lists,      \* the lists Table.rows has been, each the set of its versions
  mvcc,       \* MVCCManager: next, active, committed, aborted
  txn,        \* txn[s]: the transaction of session s (id 0: none)
  op,         \* op[s]: where session s is in a statement
  tableLock,  \* StorageEngine._lock(table)
  copy,       \* the ROLLBACK or VACUUM under way
  left        \* how many statements the sessions may still issue

vars == <<heap, lists, mvcc, txn, op, tableLock, copy, left>>

-----------------------------------------------------------------------------
(***************************************************************************)
(* A version is a row with its stamps.  The other fields are history, read *)
(* by the properties alone: the statement that made it, how many versions  *)
(* there were when that statement began, whether a ROLLBACK took a         *)
(* deletion stamp off it, and whether a copy was being made when it was    *)
(* appended.                                                               *)
(***************************************************************************)
Version(row, by, since, underCopy) ==
  [key |-> row.key, xmin |-> row.xmin, xmax |-> row.xmax,
   by |-> by, since |-> since, restored |-> FALSE, underCopy |-> underCopy]

Rows == lists[Len(lists)]

NoTxn == [id |-> 0, snap |-> Nil]
Idle  == [pc |-> "idle"]

Init ==
  /\ heap = [i \in DOMAIN Loaded |-> Version(Loaded[i], "load", 0, FALSE)]
  /\ lists = <<DOMAIN Loaded>>
  /\ mvcc = [next |-> Max(LoadedStamps) + 1, active |-> {},
             committed |-> {Loaded[i].xmin : i \in DOMAIN Loaded} \ {AutoCommit}, aborted |-> {}]
  /\ txn = [s \in Sessions |-> NoTxn]
  /\ op = [s \in Sessions |-> Idle]
  /\ tableLock = Nil
  /\ copy = Nil
  /\ left = MaxStmts

\* is_committed, which takes id 0 for committed.
IsCommitted(id) == id = AutoCommit \/ id \in mvcc.committed

SnapshotOf(m) == [active |-> m.active, committed |-> m.committed, max |-> m.next - 1]

\* What Table.update, Table.delete and their callers in the engine look for.
IsTarget(v, id, snap, where) ==
  /\ IsVisible(heap[v], id, snap)
  /\ where = Nil \/ heap[v].key = where

-----------------------------------------------------------------------------
(***************************************************************************)
(* Transactions, all under txn_mgr._lock, which is taken while copy is not *)
(* Nil.                                                                    *)
(***************************************************************************)
ManagerFree == copy = Nil

Begin(s) ==
  /\ ManagerFree /\ op[s] = Idle /\ txn[s] = NoTxn /\ mvcc.next <= MaxTxn
  /\ mvcc' = [mvcc EXCEPT !.next = @ + 1, !.active = @ \cup {mvcc.next}]
  /\ txn' = [txn EXCEPT ![s] = [id |-> mvcc.next, snap |-> SnapshotOf(mvcc')]]
  /\ UNCHANGED <<heap, lists, op, tableLock, copy, left>>

Commit(s) ==
  /\ ManagerFree /\ op[s] = Idle /\ txn[s] # NoTxn
  /\ mvcc' = [mvcc EXCEPT !.active = @ \ {txn[s].id}, !.committed = @ \cup {txn[s].id}]
  /\ txn' = [txn EXCEPT ![s] = NoTxn]
  /\ UNCHANGED <<heap, lists, op, tableLock, copy, left>>

\* A mistake to catch: ROLLBACK drops what is newer than the transaction.
NotNewer(row, id) == row.xmin < id

\* rollback_txn: which rows stay.
Stays(row, id) == row.xmin # id

\* rollback_txn up to the copy: take the stamps off, then filter the list.
RollbackCopy(s) ==
  LET id == txn[s].id IN
  /\ ManagerFree /\ op[s] = Idle /\ txn[s] # NoTxn
  /\ heap' = [v \in DOMAIN heap |->
                IF heap[v].xmax = id /\ v \in Rows
                THEN [heap[v] EXCEPT !.xmax = NotDeleted, !.restored = TRUE] ELSE heap[v]]
  /\ copy' = [owner |-> s, kind |-> "rollback",
              rows |-> {v \in Rows : Stays(heap[v], id)}]
  /\ op' = [op EXCEPT ![s] = [pc |-> "copied"]]
  /\ UNCHANGED <<lists, mvcc, txn, tableLock, left>>

OldestActive == IF mvcc.active = {} THEN mvcc.next ELSE Min(mvcc.active)

VacuumCopy(s) ==
  /\ ManagerFree /\ op[s] = Idle /\ Len(lists) < MaxLists
  /\ copy' = [owner |-> s, kind |-> "vacuum",
              rows |-> {v \in Rows : ~IsDead(heap[v], OldestActive, mvcc.committed)}]
  /\ op' = [op EXCEPT ![s] = [pc |-> "copied"]]
  /\ UNCHANGED <<heap, lists, mvcc, txn, tableLock, left>>

\* self.rows = [...]
PutCopy(s) ==
  /\ op[s].pc = "copied" /\ copy.owner = s
  /\ lists' = Append(lists, copy.rows)
  /\ IF copy.kind = "vacuum"
     THEN copy' = Nil /\ op' = [op EXCEPT ![s] = Idle]
     ELSE op' = [op EXCEPT ![s].pc = "put"] /\ UNCHANGED copy
  /\ UNCHANGED <<heap, mvcc, txn, tableLock, left>>

EndRollback(s) ==
  /\ op[s].pc = "put"
  /\ mvcc' = [mvcc EXCEPT !.active = @ \ {txn[s].id}, !.aborted = @ \cup {txn[s].id}]
  /\ txn' = [txn EXCEPT ![s] = NoTxn]
  /\ op' = [op EXCEPT ![s] = Idle]
  /\ copy' = Nil
  /\ UNCHANGED <<heap, lists, tableLock, left>>

-----------------------------------------------------------------------------
(***************************************************************************)
(* Starting and ending a statement.                                        *)
(*   want, held   row locks still to be taken, and taken (list positions)  *)
(*   gen, at      the list the running loop goes over, and the version it  *)
(*                looked at last                                           *)
(*   todo         the versions UPDATE has still to replace                 *)
(*   since        how many versions there were at the start (history)      *)
(*   had          the versions whose positions are locked (history)        *)
(*   scanned      the list they have these positions in (history)          *)
(*   many         whether UPDATE found more than one row (history)         *)
(*   wrote        whether the statement has changed the table (history)    *)
(***************************************************************************)
\* The transaction's id and snapshot, or an auto-commit id, which is marked
\* committed at once, and a snapshot after that.
Marked(s) ==
  IF txn[s] # NoTxn THEN mvcc
  ELSE [mvcc EXCEPT !.next = @ + 1, !.committed = @ \cup {mvcc.next}]
IdOf(s)   == IF txn[s] # NoTxn THEN txn[s].id ELSE mvcc.next
SnapOf(s) == IF txn[s] # NoTxn THEN txn[s].snap ELSE SnapshotOf(Marked(s))

\* enumerate(table.rows): the place of a version in a list.
Position(list, v) == Cardinality({u \in list : u <= v})

Start(s, st, pc, targets) ==
  /\ op[s] = Idle /\ left > 0
  /\ left' = left - 1
  /\ mvcc' = Marked(s)
  /\ op' = [op EXCEPT ![s] =
       [pc |-> pc, stmt |-> st, id |-> IdOf(s), snap |-> SnapOf(s),
        want |-> {Position(Rows, v) : v \in targets}, held |-> {}, todo |-> {},
        gen |-> Len(lists), at |-> 0, polls |-> 0, since |-> Len(heap),
        had |-> targets, scanned |-> Len(lists), many |-> FALSE, wrote |-> FALSE]]
  /\ UNCHANGED <<heap, lists, txn, copy>>

\* `finally` and the end of `with`: every lock is given back.
Finish(s) ==
  /\ op[s].pc \in {"end", "failed", "raised"}
  /\ op' = [op EXCEPT ![s] = Idle]
  /\ tableLock' = IF tableLock = s THEN Nil ELSE tableLock
  /\ UNCHANGED <<heap, lists, mvcc, txn, copy, left>>

\* A mistake to catch: INSERT does not wait for the table's lock.
NotAsked(s)  == TRUE
TableFree(s) == tableLock = Nil

StartInsert(s, st) ==
  /\ st.op = "insert" /\ TableFree(s)
  /\ tableLock' = s
  /\ Start(s, st, "check", {})

\* engine.update and engine.delete up to the row locks; without a target they
\* return at once.
StartChange(s, st) ==
  LET targets == {v \in Rows : IsTarget(v, IdOf(s), SnapOf(s), st.where)} IN
  /\ st.op \in {"update", "delete"}
  /\ Start(s, st, IF targets = {} THEN "end" ELSE "lock", targets)
  /\ UNCHANGED tableLock

\* All steps inside a statement that leave transactions and locks alone.
Inside(s, pc) == op[s].pc = pc /\ UNCHANGED <<mvcc, txn, tableLock, copy, left>>

-----------------------------------------------------------------------------
(***************************************************************************)
(* Row locks.  Positions are taken from the lowest up.                     *)
(***************************************************************************)
\* A mistake to catch: a row lock that is held does not stop anybody.
NeverHeld(s, i) == TRUE
RowFree(s, i) == \A t \in Sessions \ {s} : "held" \in DOMAIN op[t] => i \notin op[t].held

LockRow(s) ==
  /\ Inside(s, "lock") /\ op[s].want # {}
  /\ LET i == Min(op[s].want) IN
     /\ RowFree(s, i)
     /\ op' = [op EXCEPT ![s].want = @ \ {i}, ![s].held = @ \cup {i}]
  /\ UNCHANGED <<heap, lists>>

\* Table.update looks for its rows again and starts with the first; Table.delete
\* looks at one row after the other.
Locked(s) ==
  LET o == op[s]
      todo == {v \in Rows : IsTarget(v, o.id, o.snap, o.stmt.where)}
  IN
  /\ Inside(s, "lock") /\ o.want = {}
  /\ op' = [op EXCEPT ![s] =
       IF o.stmt.op = "delete" THEN [o EXCEPT !.pc = "delete", !.gen = Len(lists), !.at = 0]
       ELSE IF todo = {} THEN [o EXCEPT !.pc = "end"]
       ELSE [o EXCEPT !.pc = "check", !.todo = todo, !.gen = Len(lists), !.at = 0,
                       !.many = \E u, v \in todo : u # v]]
  /\ UNCHANGED <<heap, lists>>

-----------------------------------------------------------------------------
(***************************************************************************)
(* _validate_unique, for the key an INSERT or UPDATE is about to write.    *)
(***************************************************************************)
Old(s) == Min(op[s].todo)

Conflicts(s, v) ==
  /\ heap[v].xmax = NotDeleted
  /\ op[s].stmt.op = "update" => v # Old(s)
  /\ heap[v].key = op[s].stmt.new
  /\ heap[v].xmin # op[s].id

\* What the loop has still before it, and its next row.
Ahead(s) == {v \in lists[op[s].gen] : v > op[s].at}
Look(s)  == Min(Ahead(s))

CheckRow(s) ==
  /\ Inside(s, "check") /\ Ahead(s) # {}
  /\ LET creator == heap[Look(s)].xmin IN
     op' = [op EXCEPT ![s] =
       IF ~Conflicts(s, Look(s)) \/ creator \in mvcc.aborted THEN [@ EXCEPT !.at = Look(s)]
       ELSE IF IsCommitted(creator) THEN [@ EXCEPT !.pc = "failed"]
       ELSE [@ EXCEPT !.pc = "wait", !.polls = 0]]
  /\ UNCHANGED <<heap, lists>>

\* A mistake to catch: the wait has no end.
Patient(s)  == FALSE
TimedOut(s) == op[s].polls + 1 = MaxPolls

\* After a sleep, while the creator was active.
Poll(s) ==
  /\ Inside(s, "wait")
  /\ LET v == Look(s) IN
     op' = [op EXCEPT ![s] =
       IF IsCommitted(heap[v].xmin) THEN [@ EXCEPT !.pc = "failed"]
       ELSE IF heap[v].xmin \in mvcc.aborted \/ heap[v].xmax # NotDeleted
            THEN [@ EXCEPT !.pc = "check", !.at = v]
       ELSE IF TimedOut(s) THEN [@ EXCEPT !.pc = "failed"]
       ELSE [@ EXCEPT !.polls = Min({op[s].polls + 1, MaxPolls})]]
  /\ UNCHANGED <<heap, lists>>

Checked(s) ==
  /\ Inside(s, "check") /\ Ahead(s) = {}
  /\ op' = [op EXCEPT ![s].pc = IF op[s].stmt.op = "insert" THEN "append" ELSE "stamp"]
  /\ UNCHANGED <<heap, lists>>

-----------------------------------------------------------------------------
(***************************************************************************)
(* Writing.                                                                *)
(***************************************************************************)
\* An index is told of a row after the table has changed, and may raise: a unique one
\* has the key already, the keys of a tree are not comparable. Which indexes there
\* are, on this column and on others, is left open.

\* self.rows.append. INSERT is done when the indexes have the row too.
AppendRow(s) ==
  /\ Inside(s, "append")
  /\ heap' = Append(heap, Version(StampInsert(op[s].stmt.new, op[s].id), op[s].stmt.op,
                                  op[s].since, copy # Nil))
  /\ lists' = [lists EXCEPT ![Len(lists)] = @ \cup {Len(heap) + 1}]
  /\ \E pc \in IF op[s].stmt.op = "insert" THEN {"end", "raised"} ELSE {"find"} :
       op' = [op EXCEPT ![s].pc = pc, ![s].wrote = TRUE]

\* stamp_delete(old_row)
Stamp(s) ==
  /\ Inside(s, "stamp")
  /\ heap' = [heap EXCEPT ![Old(s)] = StampDelete(heap[Old(s)], op[s].id)]
  /\ op' = [op EXCEPT ![s].pc = "append", ![s].wrote = TRUE]
  /\ UNCHANGED lists

\* self.rows.index(old_row) compares rows by value and raises without an equal one.
Value(v)  == <<heap[v].key, heap[v].xmin, heap[v].xmax>>
\* A mistake to catch: only rows that are not deleted are looked through.
ListedAlive(v) == v \in Rows /\ heap[v].xmax = NotDeleted
Listed(v) == \E u \in Rows : Value(u) = Value(v)

\* UPDATE, and on to its next row.
Replaced(s) ==
  LET rest == op[s].todo \ {Old(s)} IN
  /\ Inside(s, "find") /\ op[s].stmt.op = "update"
  /\ op' = [op EXCEPT ![s] =
       IF ~Listed(Old(s)) THEN [@ EXCEPT !.pc = "failed"]
       ELSE IF rest = {} THEN [@ EXCEPT !.pc = "end", !.todo = {}]
       ELSE [@ EXCEPT !.pc = "check", !.todo = rest, !.gen = Len(lists), !.at = 0]]
  /\ UNCHANGED <<heap, lists>>

\* Table.delete: the next row of the list.
DeleteRow(s) ==
  /\ Inside(s, "delete")
  /\ IF Ahead(s) = {}
     THEN op' = [op EXCEPT ![s].pc = "end"] /\ UNCHANGED heap
     ELSE IF IsTarget(Look(s), op[s].id, op[s].snap, op[s].stmt.where)
     THEN /\ heap' = [heap EXCEPT ![Look(s)] = StampDelete(heap[Look(s)], op[s].id)]
          /\ op' = [op EXCEPT ![s].pc = "find", ![s].wrote = TRUE]
     ELSE op' = [op EXCEPT ![s].at = Look(s)] /\ UNCHANGED heap
  /\ UNCHANGED lists

Deleted(s) ==
  /\ Inside(s, "find") /\ op[s].stmt.op = "delete"
  /\ op' = [op EXCEPT ![s] = IF Listed(Look(s)) THEN [@ EXCEPT !.pc = "delete", !.at = Look(s)]
                             ELSE [@ EXCEPT !.pc = "failed"]]
  /\ UNCHANGED <<heap, lists>>

\* UPDATE and DELETE, instead of going on to the next row.
IndexRaises(s) ==
  /\ Inside(s, "find")
  /\ Listed(IF op[s].stmt.op = "update" THEN Old(s) ELSE Look(s))
  /\ op' = [op EXCEPT ![s].pc = "raised"]
  /\ UNCHANGED <<heap, lists>>

-----------------------------------------------------------------------------
\* What a session's thread does on its own once a request has arrived.
Step(s) ==
  \/ LockRow(s) \/ Locked(s)
  \/ CheckRow(s) \/ Poll(s) \/ Checked(s)
  \/ AppendRow(s) \/ Stamp(s) \/ Replaced(s)
  \/ DeleteRow(s) \/ Deleted(s) \/ IndexRaises(s)
  \/ PutCopy(s) \/ EndRollback(s)
  \/ Finish(s)

Request(s) ==
  \/ \E st \in Stmts[s] : StartInsert(s, st) \/ StartChange(s, st)
  \/ Begin(s) \/ Commit(s) \/ RollbackCopy(s) \/ VacuumCopy(s)

Next == \E s \in Sessions : Request(s) \/ Step(s)

\* Threads run; clients owe nothing.
Spec == Init /\ [][Next]_vars /\ \A s \in Sessions : WF_vars(Step(s))

-----------------------------------------------------------------------------
(***************************************************************************)
(* Properties.                                                             *)
(***************************************************************************)
Live(v) == v \in Rows /\ heap[v].xmax = NotDeleted /\ IsCommitted(heap[v].xmin)

\* Two committed live rows with one key come about in three ways only: one
\* transaction (or one statement) wrote both, whose own rows the check skips;
\* a ROLLBACK brought the older one back, which the check had taken for deleted;
\* or an UPDATE, which takes no lock on the table, ran while the other one was
\* written (table.py 228-281, engine.py 213, 332).
DuplicatesOnlyThroughGaps ==
  \A u, v \in DOMAIN heap :
    u < v /\ Live(u) /\ Live(v) /\ heap[u].key = heap[v].key =>
      \/ heap[u].xmin = heap[v].xmin
      \/ heap[u].restored
      \/ u > heap[v].since /\ "update" \in {heap[u].by, heap[v].by}

\* A row is never lost from the table unless it was appended while a ROLLBACK or
\* VACUUM was between its copy and its assignment (table.py 566, 593).
RowsAreLostOnlyUnderACopy ==
  \A v \in DOMAIN heap :
    heap[v].xmax = NotDeleted /\ heap[v].xmin \notin mvcc.aborted /\ v \notin Rows =>
      \/ heap[v].underCopy
      \/ \E s \in Sessions : op[s].pc = "put" /\ txn[s].id = heap[v].xmin

\* Two statements are never at work on the same row that both found at the same
\* position of the same list: the row locks keep them apart as long as the list
\* is not replaced under them (engine.py 82, 332).
Working(s) == "todo" \in DOMAIN op[s] /\ op[s].pc \in {"check", "wait", "stamp", "append", "find", "delete"}
RowLocksExclude ==
  \A s, t \in Sessions :
    s # t /\ Working(s) /\ Working(t) /\ op[s].had \cap op[t].had # {} =>
      op[s].scanned # op[t].scanned

\* A statement on one row that answers an error has not changed the table, except
\* where a ROLLBACK or VACUUM took the stamped row away before rows.index looked for
\* it, and where an index raised, which hears of the row when it is in the table
\* (table.py 329-337, 507, 515-523, 547).
FailuresOfOneRowAreClean ==
  \A s \in Sessions :
    op[s].pc \in {"failed", "raised"} /\ op[s].wrote =>
      \/ op[s].many
      \/ op[s].scanned < Len(lists)
      \/ op[s].pc = "raised"

\* Every statement ends: row locks are taken in order, and nobody waits for an
\* open transaction longer than the limit (table.py 264-281, engine.py 332-352).
StatementsEnd == \A s \in Sessions : op[s] # Idle ~> op[s] = Idle
=============================================================================
