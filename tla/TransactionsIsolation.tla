----------------------- MODULE TransactionsIsolation -----------------------
(***************************************************************************)
(* How the stamps, snapshots and list positions of Transactions stand for  *)
(* the state of SnapshotIsolation.                                         *)
(***************************************************************************)
EXTENDS Transactions

Opened == {s \in Sessions : Open(s)}

\* Own stamps aside, what the snapshot of BEGIN shows.
BaseOf(s) ==
  {v \in DOMAIN rows :
     /\ rows[v].xmin # id[s]
     /\ CreatorVisible(rows[v], snap[s])
     /\ rows[v].xmax = id[s] \/ DeletionUnseen(rows[v], id[s], snap[s])}
OwnMade(s) == {v \in DOMAIN rows : rows[v].xmin = id[s] /\ rows[v].xmax # id[s]}
OwnGone(s) == {v \in DOMAIN rows : rows[v].xmin # id[s] /\ rows[v].xmax = id[s]}

\* The writes a savepoint stands for, read back from its list positions.
SavedWrites(s, n) ==
  LET sp == sps[s][n] IN
  [made  |-> {v \in DOMAIN rows : /\ rows[v].xmin = id[s]
                                  /\ Position(v) < sp.count /\ Position(v) \notin sp.deleted},
   gone  |-> {v \in DOMAIN rows : rows[v].xmin # id[s] /\ Position(v) \in sp.deleted},
   older |-> sp.older]

Bases   == [s \in Sessions |-> IF Open(s) THEN BaseOf(s) ELSE {}]
Made    == [s \in Sessions |-> IF Open(s) THEN OwnMade(s) ELSE {}]
Deleted == [s \in Sessions |-> IF Open(s) THEN OwnGone(s) ELSE {}]
Saved   == [s \in Sessions |-> [n \in DOMAIN sps[s] |-> SavedWrites(s, n)]]

SI == INSTANCE SnapshotIsolation WITH
  Versions <- Nat, store <- FreshView, open <- Opened,
  base <- Bases, made <- Made, gone <- Deleted, saved <- Saved

\* The workloads for which it does: no two transactions write the same rows, nobody
\* else shortens the row list under a savepoint, no VACUUM or TRUNCATE runs beside a
\* transaction, no auto-commit statement is in flight when one begins, no savepoint is
\* taken again, and the rows on disk have a creator.
Apart ==
  /\ \A s \in Sessions : Does[s] \cap {"auto", "truncate", "vacuum", "resave"} = {}
  /\ \A s, t \in Sessions : s # t =>
       /\ Writes[s] \cap Writes[t] = {}
       /\ "savepoint" \in Does[s] => Does[t] \cap {"savepoint", "rollback"} = {}
  /\ \A i \in DOMAIN Loaded : Loaded[i].xmin # AutoCommit

\* Stamps and snapshots give snapshot isolation with savepoints: atomic
\* commit, a frozen view per transaction, ROLLBACK and ROLLBACK TO that undo
\* exactly the writes they should, as long as the sessions keep Apart
\* (manager.py 103-223, mvcc.py 104-200, table.py 300-560).
ImplementsSnapshotIsolation == SI!Spec

\* A savepoint keeps standing for the same writes of its transaction until it
\* is taken again (docs/04_transactions.md 76-77: SAVEPOINT takes a snapshot of
\* the rows, ROLLBACK TO restores them to it).
SavepointsKeepTheirWrites ==
  [][\A s \in Sessions : Open(s) /\ Open(s)' =>
       \A n \in DOMAIN sps[s] \cap DOMAIN sps'[s] :
         sps'[s][n] = sps[s][n] => SavedWrites(s, n)' = SavedWrites(s, n)]_vars
=============================================================================
