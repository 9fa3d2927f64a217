---------------------------- MODULE Transactions ----------------------------
(***************************************************************************)
(* The transactions of MiniDB: TransactionManager (transaction/manager.py) *)
(* and MVCCManager (storage/mvcc.py) over one table without constraints,   *)
(* with the statements StorageEngine runs inside a transaction and outside *)
(* (auto-commit).                                                          *)
(*                                                                         *)
(* A session is a server thread: the current transaction is thread-local.  *)
(* The body of a statement on the in-memory table is one step. What the    *)
(* engine does before that body, without txn_mgr._lock, is a step each:    *)
(* take an id, mark it committed, take a snapshot. A version is named by   *)
(* the order in which it was appended, so the list position the code uses  *)
(* is the number of older versions still in the table.                     *)
(***************************************************************************)
EXTENDS Visibility, FiniteSets, Sequences

CONSTANTS
  Sessions,  \* the connections' threads
  Keys,      \* what a WHERE clause tells apart
  SpNames,   \* savepoint names
  Loaded,    \* the rows _load_tables found on disk, in order
  FirstId,   \* the next transaction id after loading
  Does,      \* Does[s]: the kinds of statement session s issues
  Writes,    \* Writes[s]: the keys session s writes
  MaxTxn,    \* bound: no transaction id above this one is allocated
  MaxVid     \* bound: a transaction inserts no version above this one

Kinds == {"begin", "rollback", "insert", "update", "delete", "savepoint",
          "resave", "vacuum", "truncate", "auto", "recover"}
Row   == [key : Keys, xmin : Nat, xmax : Nat]

\* _load_tables stamps rows that carry no stamps with 0 (auto-commit) and leaves
\* the counter one above the largest stamp.
ASSUME LoadedAssumption ==
  /\ Loaded \in Seq(Row)
  /\ FirstId \in Nat \ {0}
  /\ \A i \in 1..Len(Loaded) : Loaded[i].xmin < FirstId /\ Loaded[i].xmax < FirstId

ASSUME WorkloadAssumption ==
  /\ Does \in [Sessions -> SUBSET Kinds]
  /\ Writes \in [Sessions -> SUBSET Keys]
  /\ MaxTxn \in Nat /\ MaxVid \in Nat

VARIABLES
  nextId, active, committed, aborted,  \* MVCCManager
  rows, nextVid,                       \* Table.rows by version, next version
  pc, id, snap, stmt, sps              \* per session, see below

mvccVars    == <<nextId, active, committed, aborted>>
tableVars   == <<rows, nextVid>>
sessionVars == <<pc, id, snap, stmt, sps>>
vars        == <<mvccVars, tableVars, sessionVars>>

-----------------------------------------------------------------------------
(***************************************************************************)
(* Sessions.  pc[s] is                                                     *)
(*   idle       no transaction, no statement                               *)
(*   begun      in begin(), id taken, snapshot not yet (holds the lock)    *)
(*   open       a transaction is active                                    *)
(*   allocated, marked, ready                                              *)
(*              in an auto-commit statement: id taken, id marked           *)
(*              committed, snapshot taken                                  *)
(***************************************************************************)
PCs   == {"idle", "begun", "open", "allocated", "marked", "ready"}
Ops   == {"insert", "update", "delete"}
NoStmt == [op |-> "none"]
Stmts  == [op : Ops, key : Keys, new : Keys] \cup {NoStmt}
NoSnapshot == [active |-> {}, committed |-> {}, max |-> 0]
Savepoints == [count : Nat, deleted : SUBSET Nat, older : SUBSET SpNames]
NoSavepoints == [n \in {} |-> {}]
NoRows == [v \in {} |-> {}]

Open(s)  == pc[s] = "open"
Ready(s) == pc[s] \in {"idle", "open"}   \* between two statements
InStatement(s) == pc[s] \in {"allocated", "marked", "ready"}
HoldsActive(s) == pc[s] \in {"begun", "open", "allocated"}

\* txn_mgr._lock is held across the two steps of begin().
ManagerFree == \A s \in Sessions : pc[s] # "begun"

\* StorageEngine._lock(table): held by an auto-commit INSERT to its end.
TableFree == \A s \in Sessions : InStatement(s) => stmt[s].op # "insert"

\* A mistake to catch: running transactions are counted as committed.
EagerSnapshot ==
  [active |-> {}, committed |-> committed \cup active, max |-> nextId - 1]

\* MVCCManager.snapshot.
CurrentSnapshot == [active |-> active, committed |-> committed, max |-> nextId - 1]

\* What a SELECT of session s returns inside its transaction, and outside one.
View(s)   == {v \in DOMAIN rows : IsVisible(rows[v], id[s], snap[s])}
FreshView == {v \in DOMAIN rows : IsVisible(rows[v], AutoCommit, CurrentSnapshot)}

\* The position of a version in the list Table.rows.
Position(v) == Cardinality({w \in DOMAIN rows : w < v})

Init ==
  /\ nextId = FirstId
  /\ active = {}
  /\ committed = {Loaded[i].xmin : i \in 1..Len(Loaded)} \ {AutoCommit}
  /\ aborted = {}
  /\ rows = Loaded
  /\ nextVid = Len(Loaded) + 1
  /\ pc   = [s \in Sessions |-> "idle"]
  /\ id   = [s \in Sessions |-> 0]
  /\ snap = [s \in Sessions |-> NoSnapshot]
  /\ stmt = [s \in Sessions |-> NoStmt]
  /\ sps  = [s \in Sessions |-> NoSavepoints]

-----------------------------------------------------------------------------
(***************************************************************************)
(* MVCCManager, as used by its callers.                                    *)
(***************************************************************************)
AllocateTxnId(s) ==
  /\ nextId <= MaxTxn
  /\ id' = [id EXCEPT ![s] = nextId]
  /\ nextId' = nextId + 1
  /\ active' = active \cup {nextId}
  /\ UNCHANGED <<committed, aborted>>

\* A mistake to catch: a committed transaction stays active.
MarkCommittedOnly(txn) ==
  /\ committed' = committed \cup {txn}
  /\ UNCHANGED <<nextId, active, aborted>>

MarkCommitted(txn) ==
  /\ active' = active \ {txn}
  /\ committed' = committed \cup {txn}
  /\ UNCHANGED <<nextId, aborted>>

\* A mistake to catch: the counter is recorded instead of the transaction.
MarkNextAborted(txn) ==
  /\ active' = active \ {txn}
  /\ aborted' = aborted \cup {nextId}
  /\ UNCHANGED <<nextId, committed>>

MarkAborted(txn) ==
  /\ active' = active \ {txn}
  /\ aborted' = aborted \cup {txn}
  /\ UNCHANGED <<nextId, committed>>

OldestActive ==
  IF active = {} THEN nextId ELSE CHOOSE a \in active : \A b \in active : a <= b

(***************************************************************************)
(* Table: the effect of one statement's body.  `targets` get the deletion  *)
(* stamp of `me` and n new versions with this key are appended.            *)
(***************************************************************************)
\* A mistake to catch: every live row is a target, visible or not.
LiveTargets(key, me, sn) ==
  {v \in DOMAIN rows : rows[v].key = key /\ rows[v].xmax = NotDeleted}

Targets(key, me, sn) ==
  {v \in DOMAIN rows : rows[v].key = key /\ IsVisible(rows[v], me, sn)}

Rewrite(targets, n, key, me) ==
  LET new == nextVid .. (nextVid + n - 1) IN
  /\ rows' = [v \in DOMAIN rows \cup new |->
                IF v \in new THEN StampInsert(key, me)
                ELSE IF v \in targets THEN StampDelete(rows[v], me)
                ELSE rows[v]]
  /\ nextVid' = nextVid + n

InsertRow(key, me)      == Rewrite({}, 1, key, me)
DeleteRows(key, me, sn) == Rewrite(Targets(key, me, sn), 0, key, me)
UpdateRows(key, new, me, sn) ==
  LET T == Targets(key, me, sn) IN Rewrite(T, Cardinality(T), new, me)

\* The session has no transaction and no statement any more.
Reset(s) ==
  /\ pc'   = [pc EXCEPT ![s] = "idle"]
  /\ id'   = [id EXCEPT ![s] = 0]
  /\ snap' = [snap EXCEPT ![s] = NoSnapshot]
  /\ stmt' = [stmt EXCEPT ![s] = NoStmt]
  /\ sps'  = [sps EXCEPT ![s] = NoSavepoints]

-----------------------------------------------------------------------------
(***************************************************************************)
(* BEGIN, COMMIT, ROLLBACK, VACUUM: under txn_mgr._lock.                   *)
(***************************************************************************)
BeginAllocate(s) ==
  /\ pc[s] = "idle" /\ "begin" \in Does[s] /\ ManagerFree
  /\ AllocateTxnId(s)
  /\ pc' = [pc EXCEPT ![s] = "begun"]
  /\ UNCHANGED <<tableVars, snap, stmt, sps>>

BeginSnapshot(s) ==
  /\ pc[s] = "begun"
  /\ snap' = [snap EXCEPT ![s] = CurrentSnapshot]
  /\ pc' = [pc EXCEPT ![s] = "open"]
  /\ UNCHANGED <<mvccVars, tableVars, id, stmt, sps>>

Commit(s) ==
  /\ Open(s) /\ ManagerFree
  /\ MarkCommitted(id[s])
  /\ Reset(s)
  /\ UNCHANGED tableVars

\* A mistake to catch: what the transaction deleted is not restored.
DropRowsOnly(txn) == rows' = [v \in {w \in DOMAIN rows : rows[w].xmin # txn} |-> rows[v]]

\* Table.rollback_txn: drop what the transaction made, restore what it deleted.
RollbackRows(txn) ==
  rows' = [v \in {w \in DOMAIN rows : rows[w].xmin # txn} |->
             IF rows[v].xmax = txn THEN StampDelete(rows[v], NotDeleted) ELSE rows[v]]

Rollback(s) ==
  /\ Open(s) /\ "rollback" \in Does[s] /\ ManagerFree
  /\ RollbackRows(id[s])
  /\ MarkAborted(id[s])
  /\ Reset(s)
  /\ UNCHANGED nextVid

\* Table.vacuum under TransactionManager.vacuum.
Vacuum(s) ==
  /\ Ready(s) /\ "vacuum" \in Does[s] /\ ManagerFree
  /\ rows' = [v \in {w \in DOMAIN rows : ~IsDead(rows[w], OldestActive, committed)} |->
                rows[v]]
  /\ UNCHANGED <<mvccVars, nextVid, sessionVars>>

-----------------------------------------------------------------------------
(***************************************************************************)
(* SAVEPOINT, ROLLBACK TO, RELEASE.  A savepoint records the length of the *)
(* row list and the positions the transaction has deleted, so it stands    *)
(* for list positions, not for versions.  A name used again keeps its old  *)
(* place in the order of the dict.                                         *)
(***************************************************************************)
SavepointNow(s, older) ==
  [count   |-> Cardinality(DOMAIN rows),
   deleted |-> {Position(v) : v \in {w \in DOMAIN rows : rows[w].xmax = id[s]}},
   older   |-> older]

With(saved, n, sp) == [m \in DOMAIN saved \cup {n} |-> IF m = n THEN sp ELSE saved[m]]

Savepoint(s, n) ==
  /\ Open(s) /\ ManagerFree
  /\ \/ /\ "savepoint" \in Does[s] /\ n \notin DOMAIN sps[s]
        /\ sps' = [sps EXCEPT ![s] = With(sps[s], n, SavepointNow(s, DOMAIN sps[s]))]
     \/ /\ "resave" \in Does[s] /\ n \in DOMAIN sps[s]
        /\ sps' = [sps EXCEPT ![s] = With(sps[s], n, SavepointNow(s, sps[s][n].older))]
  /\ UNCHANGED <<mvccVars, tableVars, pc, id, snap, stmt>>

\* The savepoints left when those after n, or n itself, are deleted.
UpTo(saved, n)    == [m \in {k \in DOMAIN saved : n \notin saved[k].older} |-> saved[m]]
Without(saved, n) ==
  [m \in DOMAIN saved \ {n} |-> [saved[m] EXCEPT !.older = @ \ {n}]]

\* Mistakes to catch: rows of others are dropped too, the count is off by one.
UndoneOfAll(s, sp) == {v \in DOMAIN rows : Position(v) >= sp.count}
UndoneLate(s, sp)  == {v \in DOMAIN rows : rows[v].xmin = id[s] /\ Position(v) > sp.count}

\* The versions of transaction s that a return to savepoint sp takes away, and
\* those whose deletion it undoes.
Undone(s, sp)   == {v \in DOMAIN rows : rows[v].xmin = id[s] /\ Position(v) >= sp.count}
Restored(s, sp) == {v \in DOMAIN rows : rows[v].xmax = id[s] /\ Position(v) \notin sp.deleted}

RollbackTo(s, n) ==
  /\ Open(s) /\ ManagerFree /\ n \in DOMAIN sps[s]
  /\ rows' = [v \in DOMAIN rows \ Undone(s, sps[s][n]) |->
                IF v \in Restored(s, sps[s][n])
                THEN StampDelete(rows[v], NotDeleted) ELSE rows[v]]
  /\ sps' = [sps EXCEPT ![s] = UpTo(sps[s], n)]
  /\ UNCHANGED <<mvccVars, nextVid, pc, id, snap, stmt>>

ReleaseSavepoint(s, n) ==
  /\ Open(s) /\ ManagerFree /\ n \in DOMAIN sps[s]
  /\ sps' = [sps EXCEPT ![s] = Without(sps[s], n)]
  /\ UNCHANGED <<mvccVars, tableVars, pc, id, snap, stmt>>

-----------------------------------------------------------------------------
(***************************************************************************)
(* Statements inside a transaction.                                        *)
(***************************************************************************)
Insert(s, k) ==
  /\ Open(s) /\ "insert" \in Does[s] /\ TableFree
  /\ nextVid <= MaxVid
  /\ InsertRow(k, id[s])
  /\ UNCHANGED <<mvccVars, sessionVars>>

Update(s, k, new) ==
  /\ Open(s) /\ "update" \in Does[s]
  /\ nextVid + Cardinality(Targets(k, id[s], snap[s])) <= MaxVid + 1
  /\ UpdateRows(k, new, id[s], snap[s])
  /\ UNCHANGED <<mvccVars, sessionVars>>

Delete(s, k) ==
  /\ Open(s) /\ "delete" \in Does[s]
  /\ DeleteRows(k, id[s], snap[s])
  /\ UNCHANGED <<mvccVars, sessionVars>>

(***************************************************************************)
(* Statements outside a transaction.  _auto_commit_txn_id takes an id and  *)
(* marks it committed before the statement has touched the table.  INSERT  *)
(* does all of it under the table's lock, UPDATE and DELETE under none.    *)
(***************************************************************************)
AutoAllocate(s, op, k, new) ==
  /\ pc[s] = "idle" /\ {"auto", op} \subseteq Does[s]
  /\ op = "insert" => TableFree
  /\ op # "update" => new = k
  /\ AllocateTxnId(s)
  /\ pc' = [pc EXCEPT ![s] = "allocated"]
  /\ stmt' = [stmt EXCEPT ![s] = [op |-> op, key |-> k, new |-> new]]
  /\ UNCHANGED <<tableVars, snap, sps>>

AutoMark(s) ==
  /\ pc[s] = "allocated"
  /\ MarkCommitted(id[s])
  /\ pc' = [pc EXCEPT ![s] = "marked"]
  /\ UNCHANGED <<tableVars, id, snap, stmt, sps>>

AutoSnapshot(s) ==
  /\ pc[s] = "marked"
  /\ snap' = [snap EXCEPT ![s] = CurrentSnapshot]
  /\ pc' = [pc EXCEPT ![s] = "ready"]
  /\ UNCHANGED <<mvccVars, tableVars, id, stmt, sps>>

AutoApply(s) ==
  /\ pc[s] = "ready"
  /\ \/ stmt[s].op = "insert" /\ InsertRow(stmt[s].key, id[s])
     \/ stmt[s].op = "update" /\ UpdateRows(stmt[s].key, stmt[s].new, id[s], snap[s])
     \/ stmt[s].op = "delete" /\ DeleteRows(stmt[s].key, id[s], snap[s])
  /\ Reset(s)
  /\ UNCHANGED mvccVars

\* TRUNCATE empties the list, whatever the transactions.
Truncate(s) ==
  /\ Ready(s) /\ "truncate" \in Does[s] /\ TableFree
  /\ rows' = NoRows
  /\ UNCHANGED <<mvccVars, nextVid, sessionVars>>

\* SELECT takes no lock and changes nothing: what it returns is View(s) or
\* FreshView.
Select(s) == Ready(s) /\ UNCHANGED vars

Next == \E s \in Sessions :
  \/ BeginAllocate(s) \/ BeginSnapshot(s) \/ Commit(s) \/ Rollback(s)
  \/ \E n \in SpNames : Savepoint(s, n) \/ RollbackTo(s, n) \/ ReleaseSavepoint(s, n)
  \/ \E k \in Writes[s] :
       \/ Insert(s, k) \/ Delete(s, k)
       \/ \E new \in Writes[s] :
            \/ Update(s, k, new)
            \/ \E op \in Ops : AutoAllocate(s, op, k, new)
  \/ AutoMark(s) \/ AutoSnapshot(s) \/ AutoApply(s)
  \/ Vacuum(s) \/ Truncate(s) \/ Select(s)

Spec == Init /\ [][Next]_vars

-----------------------------------------------------------------------------
(***************************************************************************)
(* Properties.                                                             *)
(***************************************************************************)

\* Every variable holds what the code keeps in it: stamps are ids that were
\* handed out, versions are numbered below nextVid, savepoints hold list
\* positions (manager.py, mvcc.py, table.py).
MvccType ==
  /\ nextId \in Nat \ {0}
  /\ active \in SUBSET (1..(nextId - 1))
  /\ committed \in SUBSET (1..(nextId - 1))
  /\ aborted \in SUBSET (1..(nextId - 1))
TableType ==
  /\ nextVid \in Nat \ {0}
  /\ DOMAIN rows \in SUBSET (1..(nextVid - 1))
  /\ rows \in [DOMAIN rows -> Row]
  /\ \A v \in DOMAIN rows : rows[v].xmin < nextId /\ rows[v].xmax < nextId
SessionType ==
  /\ pc \in [Sessions -> PCs]
  /\ id \in [Sessions -> 0..(nextId - 1)]
  /\ snap \in [Sessions -> Snapshots]
  /\ stmt \in [Sessions -> Stmts]
  /\ DOMAIN sps = Sessions
  /\ \A s \in Sessions : /\ DOMAIN sps[s] \in SUBSET SpNames
                         /\ sps[s] \in [DOMAIN sps[s] -> Savepoints]
                         /\ InStatement(s) => stmt[s] # NoStmt
TypeOK == MvccType /\ TableType /\ SessionType

\* The three sets of MVCCManager never overlap, an id in use belongs to one
\* session, and it is active exactly until its transaction ends or, for an
\* auto-commit statement, until it is marked (mvcc.py 67-85, engine.py 199-206).
IdDiscipline ==
  /\ active \cap committed = {} /\ active \cap aborted = {} /\ committed \cap aborted = {}
  /\ \A a \in active : \E s \in Sessions : HoldsActive(s) /\ id[s] = a
  /\ \A s \in Sessions :
       /\ pc[s] = "idle" <=> id[s] = 0
       /\ HoldsActive(s) => id[s] \in active
       /\ pc[s] \in {"marked", "ready"} => id[s] \in committed
       /\ \A t \in Sessions \ {s} : id[s] = id[t] => id[s] = 0

\* A snapshot, however old, counts as committed only what is committed, for
\* good: nothing a reader relies on is ever withdrawn (mvcc.py 104-115).
SnapshotsAreOld == \A s \in Sessions : snap[s].committed \subseteq committed

\* ROLLBACK leaves nothing behind: no version carries, as creator or as
\* deleter, the id of an aborted transaction, whatever other sessions did to
\* the same rows before or after (Table.rollback_txn).
NoTraceOfAborted ==
  \A v \in DOMAIN rows : rows[v].xmin \notin aborted /\ rows[v].xmax \notin aborted

\* A version is shown to, or hidden from, a reader by committed work and the
\* reader's own only (rows without stamps count as committed): no dirty read
\* of an insertion, no dirty read of a deletion (Snapshot.is_visible with the
\* snapshot of BEGIN). Joins and index scans outside transactions ask no snapshot and
\* are not among these readers (engine.py 495-502, executor.py 334).
ReadsCommitted(view, me, sn) ==
  /\ \A v \in view : rows[v].xmin \in committed \cup {me, AutoCommit}
  /\ \A v \in DOMAIN rows \ view :
       CreatorVisible(rows[v], sn) => rows[v].xmax \in committed \cup {me}

CommittedReads ==
  /\ \A s \in Sessions : Open(s) => ReadsCommitted(View(s), id[s], snap[s])
  /\ ReadsCommitted(FreshView, AutoCommit, CurrentSnapshot)

\* Nobody but its creator deletes or replaces a version that is not committed
\* yet: UPDATE and DELETE reach only what their snapshot shows, however old
\* that snapshot is (engine.py 305-402).
UncommittedUntouched ==
  \A v \in DOMAIN rows :
    rows[v].xmin \in active => rows[v].xmax \in {NotDeleted, rows[v].xmin}

\* VACUUM never takes a row from what a new statement sees, and takes one from
\* an open transaction only if its deleter was running when that transaction
\* began (manager.py 228-241 with mvcc.py 224-243).
VacuumLosesOnlyConcurrentDeletes ==
  [][(\E s \in Sessions : Vacuum(s)) =>
       /\ FreshView' = FreshView
       /\ \A s \in Sessions : Open(s) =>
            \A v \in View(s) \ DOMAIN rows' : rows[v].xmax \in snap[s].active]_vars

\* An open transaction's reads are repeatable except through four gaps. A row
\* leaves them by the transaction's own DELETE or ROLLBACK TO, by TRUNCATE, by
\* VACUUM of a concurrent deletion, or by an auto-commit statement that was
\* marked committed before BEGIN. A row enters them by the transaction's own
\* INSERT or ROLLBACK TO, by such an auto-commit statement, or when somebody
\* with an older snapshot overwrites the deletion stamp that hid it.
RowLeaves(s, v) ==
  \/ v \notin DOMAIN rows' /\ \E n \in SpNames : RollbackTo(s, n)
  \/ \E t \in Sessions : Truncate(t)
  \/ rows[v].xmax \in snap[s].active /\ v \notin DOMAIN rows'
  \/ v \in DOMAIN rows' /\ rows'[v].xmax \in snap[s].committed \cup {id[s]}
RowEnters(s, v) ==
  \/ rows'[v].xmin = id[s]
  \/ v \notin DOMAIN rows /\ rows'[v].xmin \in snap[s].committed
  \/ v \in DOMAIN rows /\ rows[v].xmax \in snap[s].committed \cup {id[s]}

ReadsChangeOnlyThroughKnownGaps ==
  [][\A s \in Sessions : Open(s) /\ Open(s)' =>
       /\ \A v \in View(s) \ View(s)' : RowLeaves(s, v)
       /\ \A v \in View(s)' \ View(s) : RowEnters(s, v)]_vars

(***************************************************************************)
(* What the repository says, and the code does not do.                     *)
(***************************************************************************)

\* mvcc.py 104-109: "so the transaction gets REPEATABLE READ isolation". What
\* an open transaction sees of other transactions' rows does not change.
RepeatableReads ==
  [][\A s \in Sessions : Open(s) /\ Open(s)' =>
       \A v \in DOMAIN rows \cup DOMAIN rows' :
         (v \in View(s)) # (v \in View(s)') =>
           \/ v \in DOMAIN rows /\ id[s] \in {rows[v].xmin, rows[v].xmax}
           \/ v \in DOMAIN rows' /\ id[s] \in {rows'[v].xmin, rows'[v].xmax}]_vars

\* table.py 562: "Remove dead row versions that no active transaction can see."
VacuumSparesVisibleRows ==
  [][(\E s \in Sessions : Vacuum(s)) =>
       \A s \in Sessions : Open(s) => View(s) \subseteq DOMAIN rows']_vars

\* mvcc.py 25-26: when xmax is committed the row is "dead - invisible to all
\* future transactions".
CommittedDeletesAreFinal ==
  [][\A v \in DOMAIN rows :
       rows[v].xmax \in committed => v \notin FreshView']_vars
=============================================================================
