------------------------- MODULE TransactionsProofs -------------------------
(***************************************************************************)
(* Theorems about Transactions, for every number of sessions, keys and     *)
(* savepoints and every workload.                                          *)
(***************************************************************************)
EXTENDS TransactionsIsolation, Ranks

-----------------------------------------------------------------------------
(***************************************************************************)
(* Lemmas about the operators.                                             *)
(***************************************************************************)

\* The row list is finite, so its length and its positions are numbers.
LEMMA RowsFinite ==
  ASSUME TableType, NEW D \in SUBSET (DOMAIN rows)
  PROVE  IsFiniteSet(D) /\ Cardinality(D) \in Nat
<1>1. IsFiniteSet(1..(nextVid - 1))
  BY FS_Interval DEF TableType
<1>2. D \subseteq 1..(nextVid - 1)
  BY DEF TableType
<1>3. IsFiniteSet(D)
  BY <1>1, <1>2, FS_Subset
<1> QED
  BY <1>3, FS_CardinalityType

\* A statement's body leaves a well-formed table: stamping and appending with
\* an id that was handed out (Table.insert, update, delete).
LEMMA RewriteType ==
  ASSUME TableType, nextId \in Nat \ {0}, nextId' \in Nat, nextId' >= nextId,
         NEW T \in SUBSET (DOMAIN rows), NEW n \in Nat, NEW key \in Keys,
         NEW me \in 1..(nextId - 1), Rewrite(T, n, key, me)
  PROVE  TableType'
<1> DEFINE new == nextVid .. (nextVid + n - 1)
<1>1. nextVid' \in Nat \ {0} /\ nextVid' = nextVid + n
  BY DEF TableType, Rewrite
<1>2. DOMAIN rows' = DOMAIN rows \cup new
  BY DEF Rewrite
<1>3. DOMAIN rows' \in SUBSET (1..(nextVid' - 1))
  BY <1>1, <1>2 DEF TableType
<1>4. ASSUME NEW v \in DOMAIN rows'
      PROVE  rows'[v] \in Row /\ rows'[v].xmin < nextId' /\ rows'[v].xmax < nextId'
  <2>1. CASE v \in new
    <3>1. rows'[v] = [key |-> key, xmin |-> me, xmax |-> 0]
      BY <2>1, <1>2 DEF Rewrite, StampInsert, NotDeleted
    <3> QED
      BY <3>1 DEF Row
  <2>2. CASE v \notin new
    <3>1. v \in DOMAIN rows /\ rows[v] \in Row
          /\ rows[v].xmin < nextId /\ rows[v].xmax < nextId
      BY <2>2, <1>2 DEF TableType
    <3>2. rows'[v] = IF v \in T THEN [rows[v] EXCEPT !.xmax = me] ELSE rows[v]
      BY <2>2, <1>2, <1>4 DEF Rewrite, StampDelete
    <3> QED
      BY <3>1, <3>2 DEF Row
  <2> QED
    BY <2>1, <2>2
<1>5. rows' \in [DOMAIN rows' -> Row]
  <2>1. rows' = [v \in DOMAIN rows' |-> rows'[v]]
    BY DEF Rewrite
  <2> QED
    BY <2>1, <1>4
<1> QED
  BY <1>1, <1>3, <1>4, <1>5 DEF TableType

\* The rows a statement touches are rows of the table.
LEMMA TargetsAreRows ==
  ASSUME NEW key, NEW me, NEW sn
  PROVE  Targets(key, me, sn) \in SUBSET (DOMAIN rows)
BY DEF Targets

\* Removing versions and clearing deletion stamps leaves a well-formed table
\* (rollback_txn, rollback_to, vacuum).
LEMMA RestoreType ==
  ASSUME TableType, nextId \in Nat \ {0}, nextId' = nextId, nextVid' = nextVid,
         NEW D \in SUBSET (DOMAIN rows), NEW U,
         rows' = [v \in D |-> IF v \in U THEN StampDelete(rows[v], NotDeleted) ELSE rows[v]]
  PROVE  TableType'
<1>1. DOMAIN rows' = D
  OBVIOUS
<1>2. ASSUME NEW v \in D
      PROVE  rows'[v] \in Row /\ rows'[v].xmin < nextId' /\ rows'[v].xmax < nextId'
  <2>1. rows[v] \in Row /\ rows[v].xmin < nextId /\ rows[v].xmax < nextId
    BY <1>2 DEF TableType
  <2>2. rows'[v] = IF v \in U THEN [rows[v] EXCEPT !.xmax = 0] ELSE rows[v]
    BY <1>2 DEF StampDelete, NotDeleted
  <2> QED
    BY <2>1, <2>2 DEF Row
<1>3. rows' \in [DOMAIN rows' -> Row]
  BY <1>1, <1>2
<1> QED
  BY <1>1, <1>2, <1>3 DEF TableType

LEMMA AllocateType ==
  ASSUME MvccType, NEW s \in Sessions, AllocateTxnId(s)
  PROVE  MvccType' /\ nextId' = nextId + 1 /\ nextId' > nextId
BY DEF MvccType, AllocateTxnId

LEMMA MarkCommittedType ==
  ASSUME MvccType, NEW txn \in 0..(nextId - 1), txn # 0, MarkCommitted(txn)
  PROVE  MvccType' /\ nextId' = nextId
BY DEF MvccType, MarkCommitted

LEMMA MarkAbortedType ==
  ASSUME MvccType, NEW txn \in 0..(nextId - 1), txn # 0, MarkAborted(txn)
  PROVE  MvccType' /\ nextId' = nextId
BY DEF MvccType, MarkAborted

LEMMA ResetType ==
  ASSUME SessionType, NEW s \in Sessions, Reset(s), nextId \in Nat \ {0}, nextId' = nextId
  PROVE  SessionType'
<1>1. /\ pc' \in [Sessions -> PCs]
      /\ id' \in [Sessions -> 0..(nextId' - 1)]
      /\ stmt' \in [Sessions -> Stmts]
  BY DEF SessionType, Reset, PCs, Stmts, InStatement
<1>2. snap' \in [Sessions -> Snapshots]
  BY DEF SessionType, Reset, Snapshots, NoSnapshot, InStatement
<1>3. DOMAIN sps' = Sessions
  BY DEF SessionType, Reset, InStatement
<1>4. ASSUME NEW t \in Sessions
      PROVE  /\ DOMAIN sps'[t] \in SUBSET SpNames
             /\ sps'[t] \in [DOMAIN sps'[t] -> Savepoints]
             /\ InStatement(t)' => stmt'[t] # NoStmt
  BY DEF SessionType, Reset, NoSavepoints, InStatement
<1> QED
  BY <1>1, <1>2, <1>3, <1>4 DEF SessionType, InStatement

\* A table nobody touched stays well-formed when ids are handed out.
LEMMA TableKeeps ==
  ASSUME TableType, UNCHANGED tableVars, nextId \in Nat, nextId' \in Nat, nextId' >= nextId
  PROVE  TableType'
<1>1. rows' = rows /\ nextVid' = nextVid
  BY DEF tableVars
<1> QED
  BY <1>1 DEF TableType, Row

-----------------------------------------------------------------------------
(***************************************************************************)
(* Type correctness.                                                       *)
(***************************************************************************)
LEMMA InitType == Init => TypeOK
<1> SUFFICES ASSUME Init PROVE TypeOK
  OBVIOUS
<1>1. /\ Loaded \in Seq(Row) /\ FirstId \in Nat \ {0}
      /\ \A i \in 1..Len(Loaded) : Loaded[i].xmin < FirstId /\ Loaded[i].xmax < FirstId
  BY LoadedAssumption
<1>2. MvccType
  <2>1. \A i \in 1..Len(Loaded) : Loaded[i] \in Row
    BY <1>1
  <2>2. \A i \in 1..Len(Loaded) : Loaded[i].xmin \in 0..(FirstId - 1)
    BY <1>1, <2>1 DEF Row
  <2> QED
    BY <1>1, <2>2 DEF Init, MvccType, AutoCommit
<1>3. TableType
  <2>1. rows = Loaded /\ nextVid = Len(Loaded) + 1 /\ nextId = FirstId
    BY DEF Init
  <2>2. Len(Loaded) \in Nat /\ DOMAIN Loaded = 1..Len(Loaded) /\ Loaded \in [1..Len(Loaded) -> Row]
    BY <1>1
  <2>3. nextVid \in Nat \ {0} /\ DOMAIN rows \in SUBSET (1..(nextVid - 1))
    BY <2>1, <2>2
  <2>4. \A v \in DOMAIN rows : rows[v].xmin < nextId /\ rows[v].xmax < nextId
    BY <1>1, <2>1, <2>2
  <2> QED
    BY <2>1, <2>2, <2>3, <2>4 DEF TableType
<1>4. SessionType
  BY <1>1 DEF Init, SessionType, PCs, Stmts, Snapshots, NoSnapshot, NoSavepoints, InStatement
<1> QED
  BY <1>2, <1>3, <1>4 DEF TypeOK

LEMMA TypeStep == TypeOK /\ IdDiscipline /\ [Next]_vars => TypeOK'
<1> SUFFICES ASSUME TypeOK, IdDiscipline, [Next]_vars PROVE TypeOK'
  OBVIOUS
<1> USE DEF TypeOK
<1>a. nextId \in Nat \ {0} /\ nextVid \in Nat \ {0}
  BY DEF MvccType, TableType
<1>b. \A s \in Sessions : id[s] \in 0..(nextId - 1) /\ (pc[s] = "idle" <=> id[s] = 0)
  BY DEF SessionType, IdDiscipline, InStatement
<1>c. \A s \in Sessions : \A k \in Writes[s] : k \in Keys
  BY WorkloadAssumption
<1>k. UNCHANGED <<nextId, sessionVars>> => SessionType'
  BY DEF SessionType, sessionVars, InStatement
<1>m. UNCHANGED mvccVars => MvccType'
  BY DEF MvccType, mvccVars
<1>1. ASSUME NEW s \in Sessions, BeginAllocate(s) PROVE TypeOK'
  <2>1. MvccType' /\ nextId' = nextId + 1 /\ nextId' > nextId
    BY <1>1, AllocateType DEF BeginAllocate
  <2>2. TableType'
    BY <1>1, <1>a, <2>1, TableKeeps DEF BeginAllocate
  <2>3. SessionType'
    BY <1>1, <1>a, <2>1 DEF BeginAllocate, AllocateTxnId, SessionType, PCs, InStatement
  <2> QED
    BY <2>1, <2>2, <2>3
<1>2. ASSUME NEW s \in Sessions, BeginSnapshot(s) PROVE TypeOK'
  <2>1. CurrentSnapshot \in Snapshots
    BY <1>a DEF CurrentSnapshot, Snapshots, MvccType
  <2>2. MvccType' /\ TableType'
    BY <1>2, <1>a, <1>m, TableKeeps DEF BeginSnapshot, mvccVars
  <2>3. SessionType'
    BY <1>2, <2>1 DEF BeginSnapshot, SessionType, PCs, mvccVars, InStatement
  <2> QED
    BY <2>2, <2>3
<1>3. ASSUME NEW s \in Sessions, Commit(s) PROVE TypeOK'
  <2>1. MvccType' /\ nextId' = nextId
    BY <1>3, <1>b, MarkCommittedType DEF Commit, Open
  <2>2. TableType' /\ SessionType'
    BY <1>3, <1>a, <2>1, TableKeeps, ResetType DEF Commit
  <2> QED
    BY <2>1, <2>2
<1>4. ASSUME NEW s \in Sessions, Rollback(s) PROVE TypeOK'
  <2>1. MvccType' /\ nextId' = nextId
    BY <1>4, <1>b, MarkAbortedType DEF Rollback, Open
  <2>2. TableType'
    <3> DEFINE D == {w \in DOMAIN rows : rows[w].xmin # id[s]}
               U == {w \in DOMAIN rows : rows[w].xmax = id[s]}
    <3>1. rows' = [v \in D |-> IF v \in U THEN StampDelete(rows[v], NotDeleted) ELSE rows[v]]
      BY <1>4 DEF Rollback, RollbackRows
    <3>2. D \in SUBSET (DOMAIN rows) /\ nextVid' = nextVid
      BY <1>4 DEF Rollback
    <3> QED
      BY <3>1, <3>2, <1>a, <2>1, RestoreType
  <2>3. SessionType'
    BY <1>4, <1>a, <2>1, ResetType DEF Rollback
  <2> QED
    BY <2>1, <2>2, <2>3
<1>5. ASSUME NEW s \in Sessions, NEW n \in SpNames, Savepoint(s, n) PROVE TypeOK'
  <2>1. MvccType' /\ TableType'
    BY <1>5, <1>a, <1>m, TableKeeps DEF Savepoint, mvccVars
  <2>2. ASSUME NEW O \in SUBSET SpNames PROVE SavepointNow(s, O) \in Savepoints
    <3>1. \A v : Position(v) \in Nat
      <4> TAKE v
      <4>1. {w \in DOMAIN rows : w < v} \in SUBSET (DOMAIN rows)
        OBVIOUS
      <4> QED
        BY <4>1, RowsFinite DEF Position
    <3>2. Cardinality(DOMAIN rows) \in Nat
      BY RowsFinite
    <3> QED
      BY <3>1, <3>2 DEF SavepointNow, Savepoints
  <2>3. DOMAIN sps' = Sessions /\ \A t \in Sessions :
          DOMAIN sps'[t] \in SUBSET SpNames /\ sps'[t] \in [DOMAIN sps'[t] -> Savepoints]
    <3>1. PICK O \in SUBSET SpNames : sps' = [sps EXCEPT ![s] = With(sps[s], n, SavepointNow(s, O))]
      BY <1>5 DEF Savepoint, SessionType, Savepoints, InStatement
    <3>2. SavepointNow(s, O) \in Savepoints
      BY <2>2
    <3> QED
      BY <3>1, <3>2 DEF With, SessionType, InStatement
  <2>4. SessionType'
    BY <1>5, <2>3 DEF Savepoint, SessionType, mvccVars, InStatement
  <2> QED
    BY <2>1, <2>4
<1>6. ASSUME NEW s \in Sessions, NEW n \in SpNames, RollbackTo(s, n) PROVE TypeOK'
  <2>1. MvccType' /\ nextId' = nextId
    BY <1>6, <1>m DEF RollbackTo, mvccVars
  <2>2. TableType'
    <3> DEFINE D == DOMAIN rows \ Undone(s, sps[s][n])
               U == Restored(s, sps[s][n])
    <3>1. rows' = [v \in D |-> IF v \in U THEN StampDelete(rows[v], NotDeleted) ELSE rows[v]]
      BY <1>6 DEF RollbackTo
    <3>2. D \in SUBSET (DOMAIN rows) /\ nextVid' = nextVid
      BY <1>6 DEF RollbackTo
    <3> HIDE DEF D, U
    <3> QED
      BY <3>1, <3>2, <1>a, <2>1, RestoreType
  <2>3. SessionType'
    BY <1>6, <2>1 DEF RollbackTo, SessionType, UpTo, InStatement
  <2> QED
    BY <2>1, <2>2, <2>3
<1>7. ASSUME NEW s \in Sessions, NEW n \in SpNames, ReleaseSavepoint(s, n) PROVE TypeOK'
  <2>1. MvccType' /\ TableType'
    BY <1>7, <1>a, <1>m, TableKeeps DEF ReleaseSavepoint, mvccVars
  <2>2. sps' = [sps EXCEPT ![s] = Without(sps[s], n)]
    BY <1>7 DEF ReleaseSavepoint
  <2>3. /\ DOMAIN Without(sps[s], n) \in SUBSET SpNames
        /\ Without(sps[s], n) \in [DOMAIN Without(sps[s], n) -> Savepoints]
    <3>1. ASSUME NEW m \in DOMAIN sps[s]
          PROVE  [sps[s][m] EXCEPT !.older = @ \ {n}] \in Savepoints
      <4>1. sps[s][m] \in Savepoints
        BY <3>1 DEF SessionType
      <4> QED
        BY <4>1 DEF Savepoints
    <3> QED
      BY <3>1 DEF SessionType, Without
  <2>4. SessionType'
    BY <1>7, <2>2, <2>3 DEF ReleaseSavepoint, SessionType, mvccVars, InStatement
  <2> QED
    BY <2>1, <2>4
<1>8. ASSUME NEW s \in Sessions, NEW k \in Writes[s], Insert(s, k) PROVE TypeOK'
  <2>1. MvccType' /\ SessionType'
    BY <1>8, <1>k, <1>m DEF Insert, mvccVars
  <2>2. TableType'
    BY <1>8, <1>a, <1>b, <1>c, RewriteType DEF Insert, InsertRow, Open, mvccVars
  <2> QED
    BY <2>1, <2>2
<1>9. ASSUME NEW s \in Sessions, NEW k \in Writes[s], NEW new \in Writes[s], Update(s, k, new)
      PROVE  TypeOK'
  <2>1. MvccType' /\ SessionType'
    BY <1>9, <1>k, <1>m DEF Update, mvccVars
  <2>2. Targets(k, id[s], snap[s]) \in SUBSET (DOMAIN rows)
    BY TargetsAreRows
  <2>3. Cardinality(Targets(k, id[s], snap[s])) \in Nat
    BY <2>2, RowsFinite
  <2>4. TableType'
    BY <1>9, <1>a, <1>b, <1>c, <2>2, <2>3, RewriteType DEF Update, UpdateRows, Open, mvccVars
  <2> QED
    BY <2>1, <2>4
<1>10. ASSUME NEW s \in Sessions, NEW k \in Writes[s], Delete(s, k) PROVE TypeOK'
  <2>1. MvccType' /\ SessionType'
    BY <1>10, <1>k, <1>m DEF Delete, mvccVars
  <2>2. Targets(k, id[s], snap[s]) \in SUBSET (DOMAIN rows)
    BY TargetsAreRows
  <2>3. TableType'
    BY <1>10, <1>a, <1>b, <1>c, <2>2, RewriteType DEF Delete, DeleteRows, Open, mvccVars
  <2> QED
    BY <2>1, <2>3
<1>11. ASSUME NEW s \in Sessions, NEW k \in Writes[s], NEW new \in Writes[s], NEW op \in Ops,
              AutoAllocate(s, op, k, new)
       PROVE  TypeOK'
  <2>1. MvccType' /\ nextId' = nextId + 1 /\ nextId' > nextId
    BY <1>11, AllocateType DEF AutoAllocate
  <2>2. TableType'
    BY <1>11, <1>a, <2>1, TableKeeps DEF AutoAllocate
  <2>3. stmt' \in [Sessions -> Stmts] /\ stmt'[s] # NoStmt
        /\ \A t \in Sessions \ {s} : stmt'[t] = stmt[t]
    <3>1. [op |-> op, key |-> k, new |-> new] \in Stmts
          /\ [op |-> op, key |-> k, new |-> new] # NoStmt
      BY <1>c DEF Stmts, Ops, NoStmt
    <3> QED
      BY <1>11, <3>1 DEF AutoAllocate, SessionType
  <2>4. SessionType'
    BY <1>11, <1>a, <2>1, <2>3 DEF AutoAllocate, AllocateTxnId, SessionType, PCs, InStatement
  <2> QED
    BY <2>1, <2>2, <2>4
<1>12. ASSUME NEW s \in Sessions, AutoMark(s) PROVE TypeOK'
  <2>1. MvccType' /\ nextId' = nextId
    BY <1>12, <1>b, MarkCommittedType DEF AutoMark
  <2>2. TableType'
    BY <1>12, <1>a, <2>1, TableKeeps DEF AutoMark
  <2>3. SessionType'
    BY <1>12, <2>1 DEF AutoMark, SessionType, PCs, InStatement
  <2> QED
    BY <2>1, <2>2, <2>3
<1>13. ASSUME NEW s \in Sessions, AutoSnapshot(s) PROVE TypeOK'
  <2>1. CurrentSnapshot \in Snapshots
    BY <1>a DEF CurrentSnapshot, Snapshots, MvccType
  <2>2. MvccType' /\ TableType'
    BY <1>13, <1>a, <1>m, TableKeeps DEF AutoSnapshot, mvccVars
  <2>3. SessionType'
    BY <1>13, <2>1 DEF AutoSnapshot, SessionType, PCs, mvccVars, InStatement
  <2> QED
    BY <2>2, <2>3
<1>14. ASSUME NEW s \in Sessions, AutoApply(s) PROVE TypeOK'
  <2>1. MvccType' /\ nextId' = nextId
    BY <1>14, <1>m DEF AutoApply, mvccVars
  <2>2. SessionType'
    BY <1>14, <1>a, <2>1, ResetType DEF AutoApply
  <2>3. stmt[s].key \in Keys /\ stmt[s].new \in Keys /\ id[s] \in 1..(nextId - 1)
    BY <1>14, <1>b DEF AutoApply, SessionType, Stmts, Ops, InStatement
  <2> DEFINE T == Targets(stmt[s].key, id[s], snap[s])
  <2>4. T \in SUBSET (DOMAIN rows)
    BY TargetsAreRows
  <2>5. Cardinality(T) \in Nat
    BY <2>4, RowsFinite
  <2>6. TableType'
    <3>1. CASE InsertRow(stmt[s].key, id[s])
      BY <3>1, <1>a, <2>1, <2>3, RewriteType DEF InsertRow
    <3>2. CASE UpdateRows(stmt[s].key, stmt[s].new, id[s], snap[s])
      BY <3>2, <1>a, <2>1, <2>3, <2>4, <2>5, RewriteType DEF UpdateRows
    <3>3. CASE DeleteRows(stmt[s].key, id[s], snap[s])
      BY <3>3, <1>a, <2>1, <2>3, <2>4, RewriteType DEF DeleteRows
    <3> QED
      BY <1>14, <3>1, <3>2, <3>3 DEF AutoApply
  <2> QED
    BY <2>1, <2>2, <2>6
<1>15. ASSUME NEW s \in Sessions, Vacuum(s) PROVE TypeOK'
  <2>1. MvccType' /\ SessionType' /\ nextId' = nextId
    BY <1>15, <1>k, <1>m DEF Vacuum, mvccVars
  <2>2. TableType'
    <3> DEFINE D == {w \in DOMAIN rows : ~IsDead(rows[w], OldestActive, committed)}
               U == {}
    <3>1. rows' = [v \in D |-> IF v \in U THEN StampDelete(rows[v], NotDeleted) ELSE rows[v]]
      BY <1>15 DEF Vacuum
    <3>2. D \in SUBSET (DOMAIN rows) /\ nextVid' = nextVid
      BY <1>15 DEF Vacuum
    <3> HIDE DEF D, U
    <3> QED
      BY <3>1, <3>2, <1>a, <2>1, RestoreType
  <2> QED
    BY <2>1, <2>2
<1>16. ASSUME NEW s \in Sessions, Truncate(s) PROVE TypeOK'
  <2>1. MvccType' /\ SessionType'
    BY <1>16, <1>k, <1>m DEF Truncate, mvccVars
  <2>2. TableType'
    BY <1>16, <1>a DEF Truncate, TableType, NoRows, mvccVars
  <2> QED
    BY <2>1, <2>2
<1>17. CASE UNCHANGED vars
  BY <1>17, <1>a, <1>k, <1>m, TableKeeps DEF vars, mvccVars, tableVars
<1>18. ASSUME NEW s \in Sessions, Select(s) PROVE TypeOK'
  BY <1>17, <1>18 DEF Select
<1> QED
  BY <1>1, <1>2, <1>3, <1>4, <1>5, <1>6, <1>7, <1>8, <1>9, <1>10, <1>11, <1>12, <1>13,
     <1>14, <1>15, <1>16, <1>17, <1>18 DEF Next

-----------------------------------------------------------------------------
(***************************************************************************)
(* Transaction ids.  Only four actions hand out an id or end its life, the *)
(* other ones leave ids, sets and the sessions' places alone.              *)
(***************************************************************************)
LEMMA IdsInit == Init => IdDiscipline
BY DEF Init, IdDiscipline, HoldsActive

\* An id is handed out: it is new, and nobody else's.
LEMMA IdsAllocate ==
  ASSUME TypeOK, IdDiscipline, NEW s \in Sessions, pc[s] = "idle", AllocateTxnId(s),
         NEW place \in {"begun", "allocated"}, pc' = [pc EXCEPT ![s] = place]
  PROVE  IdDiscipline'
<1> USE DEF TypeOK
<1>1. /\ nextId \in Nat \ {0} /\ nextId \notin active /\ nextId \notin committed
      /\ nextId \notin aborted /\ \A t \in Sessions : id[t] # nextId
  BY DEF MvccType, SessionType
<1>2. /\ active' = active \cup {nextId} /\ committed' = committed /\ aborted' = aborted
      /\ id' = [id EXCEPT ![s] = nextId]
  BY DEF AllocateTxnId
<1>3. /\ id'[s] = nextId /\ pc'[s] = place
      /\ \A t \in Sessions \ {s} : id'[t] = id[t] /\ pc'[t] = pc[t]
  BY <1>2 DEF SessionType
<1>4. \A a \in active' : \E t \in Sessions : HoldsActive(t)' /\ id'[t] = a
  BY <1>2, <1>3 DEF IdDiscipline, HoldsActive
<1> QED
  BY <1>1, <1>2, <1>3, <1>4 DEF IdDiscipline, HoldsActive

\* A transaction ends: its id moves to one of the two other sets.
LEMMA IdsEnd ==
  ASSUME TypeOK, IdDiscipline, NEW s \in Sessions, pc[s] = "open",
         MarkCommitted(id[s]) \/ MarkAborted(id[s]), Reset(s)
  PROVE  IdDiscipline'
<1> USE DEF TypeOK
<1>1. id[s] \in active /\ id[s] # 0
  BY DEF IdDiscipline, HoldsActive
<1>2. /\ id'[s] = 0 /\ pc'[s] = "idle"
      /\ \A t \in Sessions \ {s} : id'[t] = id[t] /\ pc'[t] = pc[t] /\ id[t] # id[s]
  BY <1>1 DEF SessionType, Reset, IdDiscipline
<1>3. active' = active \ {id[s]}
  BY DEF MarkCommitted, MarkAborted
<1>4. \A a \in active' : \E t \in Sessions : HoldsActive(t)' /\ id'[t] = a
  BY <1>2, <1>3 DEF IdDiscipline, HoldsActive
<1>5. committed \subseteq committed'
  BY DEF MarkCommitted, MarkAborted
<1>6. active' \cap committed' = {} /\ active' \cap aborted' = {} /\ committed' \cap aborted' = {}
  BY <1>1 DEF IdDiscipline, MarkCommitted, MarkAborted
<1>7. ASSUME NEW t \in Sessions
      PROVE  /\ pc'[t] = "idle" <=> id'[t] = 0
             /\ HoldsActive(t)' => id'[t] \in active'
             /\ pc'[t] \in {"marked", "ready"} => id'[t] \in committed'
             /\ \A u \in Sessions \ {t} : id'[t] = id'[u] => id'[t] = 0
  BY <1>2, <1>3, <1>5 DEF IdDiscipline, HoldsActive
<1> QED
  BY <1>4, <1>6, <1>7 DEF IdDiscipline

LEMMA IdsStep == TypeOK /\ IdDiscipline /\ [Next]_vars => IdDiscipline'
<1> SUFFICES ASSUME TypeOK, IdDiscipline, [Next]_vars PROVE IdDiscipline'
  OBVIOUS
<1>1. ASSUME UNCHANGED <<active, committed, aborted, pc, id>> PROVE IdDiscipline'
  BY <1>1 DEF IdDiscipline, HoldsActive
<1>2. ASSUME NEW s \in Sessions, BeginAllocate(s) PROVE IdDiscipline'
  BY <1>2, IdsAllocate DEF BeginAllocate
<1>3. ASSUME NEW s \in Sessions, BeginSnapshot(s) PROVE IdDiscipline'
  BY <1>3 DEF BeginSnapshot, mvccVars, IdDiscipline, HoldsActive, TypeOK, SessionType
<1>4. ASSUME NEW s \in Sessions, Commit(s) \/ Rollback(s) PROVE IdDiscipline'
  BY <1>4, IdsEnd DEF Commit, Rollback, Open
<1>5. ASSUME NEW s \in Sessions, NEW n \in SpNames,
             Savepoint(s, n) \/ RollbackTo(s, n) \/ ReleaseSavepoint(s, n)
      PROVE  IdDiscipline'
  BY <1>1, <1>5 DEF Savepoint, RollbackTo, ReleaseSavepoint, mvccVars
<1>6. ASSUME NEW s \in Sessions, NEW k \in Writes[s], NEW new \in Writes[s],
             Insert(s, k) \/ Update(s, k, new) \/ Delete(s, k)
      PROVE  IdDiscipline'
  BY <1>1, <1>6 DEF Insert, Update, Delete, mvccVars, sessionVars
<1>7. ASSUME NEW s \in Sessions, NEW k \in Writes[s], NEW new \in Writes[s], NEW op \in Ops,
              AutoAllocate(s, op, k, new)
      PROVE  IdDiscipline'
  BY <1>7, IdsAllocate DEF AutoAllocate
<1>8. ASSUME NEW s \in Sessions, AutoMark(s) PROVE IdDiscipline'
  <2>1. id[s] \in active
    BY <1>8 DEF AutoMark, IdDiscipline, HoldsActive
  <2>2. /\ id' = id /\ pc'[s] = "marked"
        /\ \A t \in Sessions \ {s} : pc'[t] = pc[t] /\ (id[t] = id[s] => id[t] = 0)
    BY <1>8 DEF AutoMark, TypeOK, SessionType, IdDiscipline
  <2>3. active' = active \ {id[s]} /\ committed' = committed \cup {id[s]} /\ aborted' = aborted
    BY <1>8 DEF AutoMark, MarkCommitted
  <2>4. \A a \in active' : \E t \in Sessions : HoldsActive(t)' /\ id'[t] = a
    BY <2>2, <2>3 DEF IdDiscipline, HoldsActive
  <2>5. active' \cap committed' = {} /\ active' \cap aborted' = {} /\ committed' \cap aborted' = {}
    BY <2>1, <2>3 DEF IdDiscipline
  <2>6. \A t \in Sessions : pc[t] = "idle" <=> pc'[t] = "idle"
    BY <1>8, <2>2 DEF AutoMark
  <2>7. \A t \in Sessions : HoldsActive(t)' => id'[t] \in active'
    BY <2>2, <2>3 DEF IdDiscipline, HoldsActive
  <2>8. \A t \in Sessions : pc'[t] \in {"marked", "ready"} => id'[t] \in committed'
    BY <2>2, <2>3 DEF IdDiscipline
  <2> QED
    BY <2>2, <2>4, <2>5, <2>6, <2>7, <2>8 DEF IdDiscipline
<1>9. ASSUME NEW s \in Sessions, AutoSnapshot(s) PROVE IdDiscipline'
  BY <1>9 DEF AutoSnapshot, mvccVars, IdDiscipline, HoldsActive, TypeOK, SessionType
<1>10. ASSUME NEW s \in Sessions, AutoApply(s) PROVE IdDiscipline'
  BY <1>10 DEF AutoApply, Reset, mvccVars, IdDiscipline, HoldsActive, TypeOK, SessionType
<1>11. ASSUME NEW s \in Sessions, Vacuum(s) \/ Truncate(s) \/ Select(s) PROVE IdDiscipline'
  BY <1>1, <1>11 DEF Vacuum, Truncate, Select, vars, mvccVars, sessionVars
<1>12. CASE UNCHANGED vars
  BY <1>1, <1>12 DEF vars, mvccVars, sessionVars
<1> QED
  BY <1>2, <1>3, <1>4, <1>5, <1>6, <1>7, <1>8, <1>9, <1>10, <1>11, <1>12 DEF Next

\* Type correctness: MVCCManager, the table and every session hold well-formed
\* values in every reachable state, and every stamp is an id handed out.
THEOREM TypeCorrect == Spec => [](TypeOK /\ IdDiscipline)
<1>1. Init => TypeOK /\ IdDiscipline
  BY InitType, IdsInit
<1>2. TypeOK /\ IdDiscipline /\ [Next]_vars => (TypeOK /\ IdDiscipline)'
  BY TypeStep, IdsStep
<1> QED
  BY <1>1, <1>2, PTL DEF Spec

-----------------------------------------------------------------------------
(***************************************************************************)
(* The inductive invariant behind the isolation properties.  Commitment is *)
(* final, so what an old snapshot shows is committed still; therefore a    *)
(* statement only stamps committed versions or its own; therefore undoing  *)
(* one transaction never meets the stamp of another on its versions.       *)
(***************************************************************************)
StampInv == NoTraceOfAborted /\ UncommittedUntouched /\ SnapshotsAreOld
IInv == TypeOK /\ IdDiscipline /\ StampInv

\* A statement reaches committed versions and its own only.
LEMMA TargetsCommittedOrOwn ==
  ASSUME TypeOK, NEW key, NEW me, NEW sn, NEW v \in Targets(key, me, sn)
  PROVE  v \in DOMAIN rows /\ rows[v].xmin \in {me, AutoCommit} \cup sn.committed
<1>1. v \in DOMAIN rows /\ IsVisible(rows[v], me, sn)
  BY DEF Targets
<1> QED
  BY <1>1 DEF IsVisible, CreatorVisible

\* Executing a statement with an id that is not aborted keeps StampInv.
LEMMA RewriteStamps ==
  ASSUME TypeOK, IdDiscipline, StampInv, NEW s \in Sessions, id[s] \notin aborted,
         NEW T \in SUBSET (DOMAIN rows), NEW n \in Nat, NEW key \in Keys,
         \A v \in T : rows[v].xmin \in {id[s], AutoCommit} \cup snap[s].committed,
         Rewrite(T, n, key, id[s]), UNCHANGED mvccVars
  PROVE  NoTraceOfAborted' /\ UncommittedUntouched'
<1> DEFINE new == nextVid .. (nextVid + n - 1)
<1>1. active' = active /\ aborted' = aborted /\ DOMAIN rows' = DOMAIN rows \cup new
  BY DEF mvccVars, Rewrite
<1>2. 0 \notin aborted
  BY DEF TypeOK, MvccType
<1>3. ASSUME NEW v \in DOMAIN rows'
      PROVE  /\ rows'[v].xmin \notin aborted /\ rows'[v].xmax \notin aborted
             /\ rows'[v].xmin \in active => rows'[v].xmax \in {0, rows'[v].xmin}
  <2>1. CASE v \in new
    <3>1. rows'[v] = [key |-> key, xmin |-> id[s], xmax |-> 0]
      BY <2>1, <1>1 DEF Rewrite, StampInsert, NotDeleted
    <3> QED
      BY <3>1, <1>2
  <2>2. CASE v \notin new /\ v \in T
    <3>1. v \in DOMAIN rows /\ rows[v] \in Row
      BY <2>2 DEF TypeOK, TableType
    <3>2. rows'[v] = [rows[v] EXCEPT !.xmax = id[s]]
      BY <2>2, <3>1 DEF Rewrite, StampDelete
    <3>3. rows'[v].xmin = rows[v].xmin /\ rows'[v].xmax = id[s]
      BY <3>1, <3>2 DEF Row
    <3>4. rows[v].xmin \in active => rows[v].xmin = id[s]
      <4>1. snap[s].committed \cap active = {}
        BY DEF StampInv, SnapshotsAreOld, IdDiscipline
      <4>2. AutoCommit \notin active
        BY DEF TypeOK, MvccType, AutoCommit
      <4> QED
        BY <2>2, <4>1, <4>2
    <3> QED
      BY <3>1, <3>3, <3>4 DEF StampInv, NoTraceOfAborted
  <2>3. CASE v \notin new /\ v \notin T
    <3>1. v \in DOMAIN rows /\ rows'[v] = rows[v]
      BY <2>3, <1>1 DEF Rewrite
    <3> QED
      BY <3>1 DEF StampInv, NoTraceOfAborted, UncommittedUntouched, NotDeleted
  <2> QED
    BY <2>1, <2>2, <2>3
<1> QED
  BY <1>1, <1>3 DEF NoTraceOfAborted, UncommittedUntouched, NotDeleted

\* Removing versions and clearing deletion stamps keeps the two invariants on
\* stamps, as long as no id becomes active.
LEMMA RestoreStamps ==
  ASSUME TypeOK, StampInv, NEW D \in SUBSET (DOMAIN rows), NEW U,
         rows' = [v \in D |-> IF v \in U THEN StampDelete(rows[v], NotDeleted) ELSE rows[v]],
         active' \subseteq active,
         NEW gone \in SUBSET Nat, aborted' = aborted \cup gone, 0 \notin gone,
         \A v \in D : rows[v].xmin \notin gone /\ (rows[v].xmax \in gone => v \in U)
  PROVE  NoTraceOfAborted' /\ UncommittedUntouched'
<1>1. 0 \notin aborted' /\ DOMAIN rows' = D
  BY DEF TypeOK, MvccType
<1>2. ASSUME NEW v \in D
      PROVE  /\ rows'[v].xmin \notin aborted' /\ rows'[v].xmax \notin aborted'
             /\ rows'[v].xmin \in active' => rows'[v].xmax \in {0, rows'[v].xmin}
  <2>1. v \in DOMAIN rows /\ rows[v] \in Row
    BY DEF TypeOK, TableType
  <2>2. rows'[v] = IF v \in U THEN [rows[v] EXCEPT !.xmax = 0] ELSE rows[v]
    BY DEF StampDelete, NotDeleted
  <2>3. rows'[v].xmin = rows[v].xmin /\ rows'[v].xmax = IF v \in U THEN 0 ELSE rows[v].xmax
    BY <2>1, <2>2 DEF Row
  <2> QED
    BY <1>1, <2>1, <2>3 DEF StampInv, NoTraceOfAborted, UncommittedUntouched, NotDeleted
<1> QED
  BY <1>1, <1>2 DEF NoTraceOfAborted, UncommittedUntouched, NotDeleted

LEMMA StampInit == Init => StampInv
<1> SUFFICES ASSUME Init PROVE StampInv
  OBVIOUS
<1>1. aborted = {} /\ active = {} /\ \A s \in Sessions : snap[s] = NoSnapshot
  BY DEF Init
<1> QED
  BY <1>1 DEF StampInv, NoTraceOfAborted, UncommittedUntouched, SnapshotsAreOld, NoSnapshot

\* Commitment is final.
LEMMA CommittedGrows == [Next]_vars => committed \subseteq committed'
<1> SUFFICES ASSUME [Next]_vars PROVE committed \subseteq committed'
  OBVIOUS
<1> QED
  BY DEF Next, vars, mvccVars, BeginAllocate, BeginSnapshot, Commit, Rollback, Savepoint,
     RollbackTo, ReleaseSavepoint, Insert, Update, Delete, AutoAllocate, AutoMark, AutoSnapshot,
     AutoApply, Vacuum, Truncate, Select, AllocateTxnId, MarkCommitted, MarkAborted

LEMMA StampStep == TypeOK /\ IdDiscipline /\ StampInv /\ [Next]_vars => StampInv'
<1> SUFFICES ASSUME TypeOK, IdDiscipline, StampInv, [Next]_vars PROVE StampInv'
  OBVIOUS
<1>a. committed \subseteq committed'
  BY CommittedGrows
<1>b. ASSUME UNCHANGED snap PROVE SnapshotsAreOld'
  BY <1>a, <1>b DEF StampInv, SnapshotsAreOld
<1>c. ASSUME NEW s \in Sessions, Reset(s) PROVE SnapshotsAreOld'
  BY <1>a, <1>c DEF StampInv, SnapshotsAreOld, Reset, NoSnapshot, TypeOK, SessionType
<1>d. ASSUME UNCHANGED rows, active' \subseteq active, UNCHANGED aborted
      PROVE  NoTraceOfAborted' /\ UncommittedUntouched'
  BY <1>d DEF StampInv, NoTraceOfAborted, UncommittedUntouched
<1>e. \A s \in Sessions : id[s] # 0 => id[s] \notin aborted
  <2>1. \A s \in Sessions : pc[s] \in PCs
    BY DEF TypeOK, SessionType
  <2> QED
    BY <2>1 DEF IdDiscipline, HoldsActive, PCs
<1>f. \A s \in Sessions : \A k \in Writes[s] : k \in Keys
  BY WorkloadAssumption
<1>g. ASSUME NEW s \in Sessions, AllocateTxnId(s), UNCHANGED rows
      PROVE  NoTraceOfAborted' /\ UncommittedUntouched'
  <2>1. \A v \in DOMAIN rows : rows[v].xmin # nextId
    BY DEF TypeOK, MvccType, TableType
  <2> QED
    BY <1>g, <2>1 DEF AllocateTxnId, StampInv, NoTraceOfAborted, UncommittedUntouched
<1>1. ASSUME NEW s \in Sessions, BeginAllocate(s) PROVE StampInv'
  BY <1>1, <1>b, <1>g DEF BeginAllocate, tableVars, StampInv
<1>2. ASSUME NEW s \in Sessions, BeginSnapshot(s) \/ AutoSnapshot(s) PROVE StampInv'
  <2>1. UNCHANGED mvccVars /\ UNCHANGED rows /\ snap' = [snap EXCEPT ![s] = CurrentSnapshot]
    BY <1>2 DEF BeginSnapshot, AutoSnapshot, tableVars
  <2>2. SnapshotsAreOld'
    BY <2>1 DEF StampInv, SnapshotsAreOld, CurrentSnapshot, mvccVars, TypeOK, SessionType
  <2> QED
    BY <2>1, <2>2, <1>d DEF mvccVars, StampInv
<1>3. ASSUME NEW s \in Sessions, Commit(s) PROVE StampInv'
  <2>1. UNCHANGED rows /\ active' \subseteq active /\ UNCHANGED aborted
    BY <1>3 DEF Commit, MarkCommitted, tableVars
  <2> QED
    BY <1>3, <2>1, <1>c, <1>d DEF Commit, StampInv
<1>4. ASSUME NEW s \in Sessions, Rollback(s) PROVE StampInv'
  <2> DEFINE D == {w \in DOMAIN rows : rows[w].xmin # id[s]}
             U == {w \in DOMAIN rows : rows[w].xmax = id[s]}
             gone == {id[s]}
  <2>1. rows' = [v \in D |-> IF v \in U THEN StampDelete(rows[v], NotDeleted) ELSE rows[v]]
    BY <1>4 DEF Rollback, RollbackRows
  <2>2. D \in SUBSET (DOMAIN rows)
        /\ \A v \in D : rows[v].xmin \notin gone /\ (rows[v].xmax \in gone => v \in U)
    OBVIOUS
  <2>3. active' \subseteq active /\ aborted' = aborted \cup gone
    BY <1>4 DEF Rollback, MarkAborted
  <2>4. gone \in SUBSET Nat /\ 0 \notin gone
    BY <1>4 DEF Rollback, Open, TypeOK, SessionType, IdDiscipline
  <2> HIDE DEF D, U, gone
  <2>5. NoTraceOfAborted' /\ UncommittedUntouched'
    BY <2>1, <2>2, <2>3, <2>4, RestoreStamps
  <2> QED
    BY <1>4, <1>c, <2>5 DEF Rollback, StampInv
<1>5. ASSUME NEW s \in Sessions, NEW n \in SpNames, Savepoint(s, n) \/ ReleaseSavepoint(s, n)
      PROVE  StampInv'
  BY <1>5, <1>b, <1>d DEF Savepoint, ReleaseSavepoint, mvccVars, tableVars, StampInv
<1>6. ASSUME NEW s \in Sessions, NEW n \in SpNames, RollbackTo(s, n) PROVE StampInv'
  <2> DEFINE D == DOMAIN rows \ Undone(s, sps[s][n])
             U == Restored(s, sps[s][n])
             gone == {}
  <2>1. rows' = [v \in D |-> IF v \in U THEN StampDelete(rows[v], NotDeleted) ELSE rows[v]]
    BY <1>6 DEF RollbackTo
  <2>2. /\ D \in SUBSET (DOMAIN rows) /\ active' \subseteq active /\ aborted' = aborted \cup gone
        /\ gone \in SUBSET Nat /\ 0 \notin gone
        /\ \A v \in D : rows[v].xmin \notin gone /\ (rows[v].xmax \in gone => v \in U)
    BY <1>6 DEF RollbackTo, mvccVars
  <2> HIDE DEF D, U, gone
  <2>3. NoTraceOfAborted' /\ UncommittedUntouched'
    BY <2>1, <2>2, RestoreStamps
  <2> QED
    BY <1>6, <1>b, <2>3 DEF RollbackTo, StampInv
<1>7. ASSUME NEW s \in Sessions, NEW k \in Writes[s], NEW new \in Writes[s],
             Insert(s, k) \/ Update(s, k, new) \/ Delete(s, k)
      PROVE  StampInv'
  <2> DEFINE T == Targets(k, id[s], snap[s])
  <2>1. /\ T \in SUBSET (DOMAIN rows) /\ Cardinality(T) \in Nat
        /\ \A v \in T : rows[v].xmin \in {id[s], AutoCommit} \cup snap[s].committed
    BY TargetsAreRows, TargetsCommittedOrOwn, RowsFinite DEF TypeOK
  <2>2. {k, new} \subseteq Keys /\ UNCHANGED mvccVars /\ UNCHANGED snap /\ id[s] \notin aborted
    BY <1>7, <1>e, <1>f DEF Insert, Update, Delete, Open, sessionVars, IdDiscipline
  <2>3. \E R \in {T, {}} : \E n \in Nat : \E q \in {k, new} : Rewrite(R, n, q, id[s])
    BY <1>7, <2>1 DEF Insert, Update, Delete, InsertRow, UpdateRows, DeleteRows
  <2> HIDE DEF T
  <2>4. NoTraceOfAborted' /\ UncommittedUntouched'
    <3>1. PICK R \in {T, {}}, n \in Nat, q \in {k, new} : Rewrite(R, n, q, id[s])
      BY <2>3
    <3>2. R \in SUBSET (DOMAIN rows)
          /\ \A v \in R : rows[v].xmin \in {id[s], AutoCommit} \cup snap[s].committed
      BY <2>1
    <3> QED
      BY <2>2, <3>1, <3>2, RewriteStamps
  <2> QED
    BY <1>b, <2>2, <2>4 DEF StampInv
<1>8. ASSUME NEW s \in Sessions, NEW k \in Writes[s], NEW new \in Writes[s], NEW op \in Ops,
              AutoAllocate(s, op, k, new)
      PROVE  StampInv'
  BY <1>8, <1>b, <1>g DEF AutoAllocate, tableVars, StampInv
<1>9. ASSUME NEW s \in Sessions, AutoMark(s) PROVE StampInv'
  BY <1>9, <1>b, <1>d DEF AutoMark, MarkCommitted, tableVars, StampInv
<1>10. ASSUME NEW s \in Sessions, AutoApply(s) PROVE StampInv'
  <2> DEFINE k == stmt[s].key
             new == stmt[s].new
             T == Targets(k, id[s], snap[s])
  <2>1. /\ T \in SUBSET (DOMAIN rows) /\ Cardinality(T) \in Nat
        /\ \A v \in T : rows[v].xmin \in {id[s], AutoCommit} \cup snap[s].committed
    BY TargetsAreRows, TargetsCommittedOrOwn, RowsFinite DEF TypeOK
  <2>2. {k, new} \subseteq Keys /\ UNCHANGED mvccVars /\ id[s] \notin aborted
    BY <1>10, <1>e DEF AutoApply, IdDiscipline, TypeOK, SessionType, InStatement, Stmts, Ops
  <2>3. \E R \in {T, {}} : \E n \in Nat : \E q \in {k, new} : Rewrite(R, n, q, id[s])
    BY <1>10, <2>1 DEF AutoApply, InsertRow, UpdateRows, DeleteRows
  <2> HIDE DEF T, k, new
  <2>4. NoTraceOfAborted' /\ UncommittedUntouched'
    <3>1. PICK R \in {T, {}}, n \in Nat, q \in {k, new} : Rewrite(R, n, q, id[s])
      BY <2>3
    <3>2. R \in SUBSET (DOMAIN rows)
          /\ \A v \in R : rows[v].xmin \in {id[s], AutoCommit} \cup snap[s].committed
      BY <2>1
    <3> QED
      BY <2>2, <3>1, <3>2, RewriteStamps
  <2> QED
    BY <1>10, <1>c, <2>4 DEF AutoApply, StampInv
<1>11. ASSUME NEW s \in Sessions, Vacuum(s) \/ Truncate(s) PROVE StampInv'
  <2> DEFINE gone == {}
             U == {}
  <2>1. \E D \in SUBSET (DOMAIN rows) :
          rows' = [v \in D |-> IF v \in U THEN StampDelete(rows[v], NotDeleted) ELSE rows[v]]
    <3>1. CASE Vacuum(s)
      <4> DEFINE D == {w \in DOMAIN rows : ~IsDead(rows[w], OldestActive, committed)}
      <4>1. rows' = [v \in D |-> IF v \in U THEN StampDelete(rows[v], NotDeleted) ELSE rows[v]]
        BY <3>1 DEF Vacuum
      <4> QED
        BY <4>1
    <3>2. CASE Truncate(s)
      <4>1. rows' = [v \in {} |-> IF v \in U THEN StampDelete(rows[v], NotDeleted) ELSE rows[v]]
        BY <3>2 DEF Truncate, NoRows
      <4> QED
        BY <4>1
    <3> QED
      BY <1>11, <3>1, <3>2
  <2>2. /\ active' \subseteq active /\ aborted' = aborted \cup gone
        /\ gone \in SUBSET Nat /\ 0 \notin gone
        /\ \A v \in DOMAIN rows : rows[v].xmin \notin gone /\ (rows[v].xmax \in gone => v \in U)
    BY <1>11 DEF Vacuum, Truncate, mvccVars
  <2> HIDE DEF U, gone
  <2>3. NoTraceOfAborted' /\ UncommittedUntouched'
    BY <2>1, <2>2, RestoreStamps
  <2> QED
    BY <1>11, <1>b, <2>3 DEF Vacuum, Truncate, sessionVars, StampInv
<1>12. CASE UNCHANGED vars
  BY <1>12, <1>b, <1>d DEF vars, mvccVars, tableVars, sessionVars, StampInv
<1>13. ASSUME NEW s \in Sessions, Select(s) PROVE StampInv'
  BY <1>12, <1>13 DEF Select
<1> QED
  BY <1>1, <1>2, <1>3, <1>4, <1>5, <1>6, <1>7, <1>8, <1>9, <1>10, <1>11, <1>12, <1>13 DEF Next

\* What is visible or hidden follows from committed work and the reader's own.
LEMMA ReadsFollow == IInv => CommittedReads
<1> SUFFICES ASSUME IInv PROVE CommittedReads
  OBVIOUS
<1> USE DEF IInv
<1>1. ASSUME NEW me, NEW sn, me \notin sn.committed, sn.committed \subseteq committed
      PROVE  ReadsCommitted({v \in DOMAIN rows : IsVisible(rows[v], me, sn)}, me, sn)
  <2> QED
    BY <1>1 DEF ReadsCommitted, IsVisible, CreatorVisible, DeletionUnseen, AutoCommit
<1>2. ASSUME NEW s \in Sessions, Open(s) PROVE ReadsCommitted(View(s), id[s], snap[s])
  <2>1. snap[s].committed \subseteq committed /\ id[s] \notin committed
    BY <1>2 DEF StampInv, SnapshotsAreOld, IdDiscipline, Open, HoldsActive
  <2> QED
    BY <1>1, <2>1 DEF View
<1>3. ReadsCommitted(FreshView, AutoCommit, CurrentSnapshot)
  <2>1. CurrentSnapshot.committed = committed /\ 0 \notin committed
    BY DEF CurrentSnapshot, TypeOK, MvccType
  <2> QED
    BY <1>1, <2>1 DEF FreshView, AutoCommit
<1> QED
  BY <1>2, <1>3 DEF CommittedReads

\* IInv holds in every reachable state, whatever the sessions issue.
THEOREM InductiveInvariant == Spec => []IInv
<1>1. Init => IInv
  BY InitType, IdsInit, StampInit DEF IInv
<1>2. IInv /\ [Next]_vars => IInv'
  BY TypeStep, IdsStep, StampStep DEF IInv
<1> QED
  BY <1>1, <1>2, PTL DEF Spec

\* An id in use belongs to one session, and it is active, committed or aborted and
\* never two of them, however BEGIN and auto-commit statements interleave.
THEOREM IdsAreDisciplined == Spec => []IdDiscipline
<1>1. IInv => IdDiscipline
  BY DEF IInv
<1> QED
  BY <1>1, InductiveInvariant, PTL

\* What a snapshot counts as committed (MVCCManager.snapshot) stays committed.
THEOREM SnapshotsHold == Spec => []SnapshotsAreOld
<1>1. IInv => SnapshotsAreOld
  BY DEF IInv, StampInv
<1> QED
  BY <1>1, InductiveInvariant, PTL

\* ROLLBACK (Table.rollback_txn) leaves no version created or deleted by the
\* transaction, now or later.
THEOREM RollbackLeavesNoTrace == Spec => []NoTraceOfAborted
<1>1. IInv => NoTraceOfAborted
  BY DEF IInv, StampInv
<1> QED
  BY <1>1, InductiveInvariant, PTL

\* Only its creator deletes or replaces a version that is not committed.
THEOREM UncommittedIsPrivate == Spec => []UncommittedUntouched
<1>1. IInv => UncommittedUntouched
  BY DEF IInv, StampInv
<1> QED
  BY <1>1, InductiveInvariant, PTL

\* Who reads through Snapshot.is_visible - a full scan in or outside a transaction, and
\* UPDATE and DELETE in one - neither sees nor misses a version through somebody else's
\* unfinished work. Joins and index scans outside a transaction have no snapshot and are
\* not meant (mvcc.py 141-193, engine.py 262-285, 305-402).
THEOREM ViewsAreCommitted == Spec => []CommittedReads
<1> QED
  BY ReadsFollow, InductiveInvariant, PTL

-----------------------------------------------------------------------------
(***************************************************************************)
(* What VACUUM may take from a reader.                                     *)
(***************************************************************************)
\* A set of ids has a least one, so oldest_active_txn_id is defined.
LEMMA HasLeast ==
  ASSUME NEW n \in Nat, NEW S \in SUBSET (1..n), S # {}
  PROVE  \E a \in S : \A b \in S : a <= b
<1> DEFINE Below(a) == {b \in S : b < a}
           T == {Below(a) : a \in S}
           R == StrictSubsetOrdering(S)
<1>1. IsFiniteSet(S)
  <2>1. IsFiniteSet(1..n)
    BY FS_Interval
  <2> QED
    BY <2>1, FS_Subset
<1>2. T \subseteq FiniteSubsetsOf(S) /\ T # {}
  <2>1. \A a \in S : Below(a) \in FiniteSubsetsOf(S)
    BY <1>1, FS_Subset DEF FiniteSubsetsOf
  <2> QED
    BY <2>1
<1>3. IsWellFoundedOn(R, FiniteSubsetsOf(S))
  BY FS_StrictSubsetOrderingWellFounded
<1>4. \E x \in T : \A y \in T : ~ (<<y, x>> \in R)
  <2> HIDE DEF T, R
  <2> QED
    BY <1>2, <1>3, WFMin
<1>5. PICK a \in S : \A b \in S : ~ (<<Below(b), Below(a)>> \in R)
  BY <1>4
<1>6. ASSUME NEW b \in S, ~(a <= b) PROVE FALSE
  <2>1. Below(b) \subseteq Below(a) /\ b \in Below(a) /\ b \notin Below(b)
    <3>1. a \in Int /\ \A c \in S : c \in Int
      OBVIOUS
    <3>2. b < a
      BY <1>6, <3>1
    <3>3. \A c \in S : c < b => c < a
      BY <3>1, <3>2
    <3>4. ~ (b < b)
      BY <3>1
    <3> QED
      BY <3>2, <3>3, <3>4
  <2>2. <<Below(b), Below(a)>> \in R
    BY <2>1 DEF StrictSubsetOrdering
  <2> QED
    BY <2>2, <1>5
<1> QED
  BY <1>6

\* OldestActive is a lower bound of the active ids.
LEMMA OldestIsLeast ==
  ASSUME TypeOK, NEW a \in active
  PROVE  OldestActive \in active /\ OldestActive <= a
<1>1. nextId - 1 \in Nat /\ active \in SUBSET (1..(nextId - 1))
  BY DEF TypeOK, MvccType
<1>2. \E x \in active : \A y \in active : x <= y
  BY <1>1, HasLeast
<1> QED
  BY <1>2 DEF OldestActive

-----------------------------------------------------------------------------
(***************************************************************************)
(* A snapshot knows every id below its limit that is running or committed  *)
(* now: what has been committed since was running when it was taken. This  *)
(* needs the ids to grow and a transaction to be active until it ends.     *)
(***************************************************************************)
SnapInv ==
  \A s \in Sessions :
    /\ snap[s].max < nextId
    /\ \A t \in active : t <= snap[s].max => t \in snap[s].active
    /\ \A t \in committed : t <= snap[s].max => t \in snap[s].active \cup snap[s].committed
    /\ Open(s) => id[s] <= snap[s].max

LEMMA SnapInit == Init => SnapInv
<1> SUFFICES ASSUME Init PROVE SnapInv
  OBVIOUS
<1>1. nextId \in Nat \ {0} /\ active = {} /\ committed \in SUBSET (1..(nextId - 1))
  BY InitType DEF Init, TypeOK, MvccType
<1>2. \A s \in Sessions : snap[s].max = 0 /\ ~Open(s)
  BY DEF Init, NoSnapshot, Open
<1> QED
  BY <1>1, <1>2 DEF SnapInv

\* Steps that take no snapshot: ids start, end and are committed, snapshots are
\* dropped.
LEMMA SnapKept ==
  ASSUME TypeOK, SnapInv, nextId' \in {nextId, nextId + 1},
         active' \subseteq active \cup {nextId}, committed' \subseteq committed \cup active,
         committed' \in SUBSET (Nat \ {0}),
         \A s \in Sessions : snap'[s] \in {snap[s], NoSnapshot},
         \A s \in Sessions : Open(s)' => Open(s) /\ id'[s] = id[s] /\ snap'[s] = snap[s]
  PROVE  SnapInv'
<1> SUFFICES ASSUME NEW s \in Sessions
    PROVE /\ snap'[s].max < nextId'
          /\ \A t \in active' : t <= snap'[s].max => t \in snap'[s].active
          /\ \A t \in committed' :
               t <= snap'[s].max => t \in snap'[s].active \cup snap'[s].committed
          /\ Open(s)' => id'[s] <= snap'[s].max
  BY DEF SnapInv
<1>1. nextId \in Nat /\ active \in SUBSET (1..(nextId - 1)) /\ snap[s].max \in Nat
      /\ nextId \in Nat \ {0}
  BY DEF TypeOK, MvccType, SessionType, Snapshots
<1>2. CASE snap'[s] = snap[s]
  <2>1. snap[s].max < nextId /\ snap[s].max < nextId'
    BY <1>1 DEF SnapInv
  <2>2. ASSUME NEW t \in active', t <= snap[s].max PROVE t \in snap[s].active
    <3>1. t \in active
      BY <1>1, <2>1, <2>2
    <3> QED
      BY <2>2, <3>1 DEF SnapInv
  <2>3. ASSUME NEW t \in committed', t <= snap[s].max
        PROVE  t \in snap[s].active \cup snap[s].committed
    <3>1. t \in committed \cup active
      OBVIOUS
    <3> QED
      BY <2>3, <3>1 DEF SnapInv
  <2>4. Open(s)' => id'[s] <= snap[s].max
    BY DEF SnapInv
  <2> QED
    BY <1>2, <2>1, <2>2, <2>3, <2>4
<1>3. CASE snap'[s] = NoSnapshot
  <2>1. snap'[s].max = 0 /\ \A t \in active' \cup committed' : t \in Nat /\ t # 0
    BY <1>1, <1>3 DEF NoSnapshot
  <2>2. nextId' \in Nat /\ 0 < nextId'
    BY <1>1
  <2>3. Open(s)' => id'[s] <= snap'[s].max
    BY DEF SnapInv
  <2> QED
    BY <2>1, <2>2, <2>3
<1> QED
  BY <1>2, <1>3

LEMMA SnapStep == TypeOK /\ IdDiscipline /\ SnapInv /\ [Next]_vars => SnapInv'
<1> SUFFICES ASSUME TypeOK, IdDiscipline, SnapInv, [Next]_vars PROVE SnapInv'
  OBVIOUS
<1>a. /\ nextId \in Nat \ {0}
      /\ active \in SUBSET (Nat \ {0}) /\ committed \in SUBSET (Nat \ {0})
  BY DEF TypeOK, MvccType
<1>b. ASSUME UNCHANGED mvccVars, UNCHANGED <<pc, id, snap>> PROVE SnapInv'
  BY <1>b DEF SnapInv, mvccVars, Open
<1>c. ASSUME NEW s \in Sessions, Reset(s)
      PROVE  /\ \A t \in Sessions : snap'[t] \in {snap[t], NoSnapshot}
             /\ \A t \in Sessions :
                  Open(t)' => Open(t) /\ id'[t] = id[t] /\ snap'[t] = snap[t]
  BY <1>c DEF Reset, Open, TypeOK, SessionType
<1>d. ASSUME NEW s \in Sessions, AllocateTxnId(s), UNCHANGED snap,
             pc'[s] # "open", \A t \in Sessions \ {s} : pc'[t] = pc[t]
      PROVE  SnapInv'
  <2>1. /\ nextId' = nextId + 1 /\ active' = active \cup {nextId} /\ committed' = committed
        /\ \A t \in Sessions \ {s} : id'[t] = id[t]
    BY <1>d DEF AllocateTxnId, TypeOK, SessionType
  <2>2. \A t \in Sessions :
          Open(t)' => Open(t) /\ id'[t] = id[t] /\ snap'[t] = snap[t]
    BY <1>d, <2>1 DEF Open
  <2> QED
    BY <1>a, <1>d, <2>1, <2>2, SnapKept
<1>1. ASSUME NEW s \in Sessions, BeginAllocate(s) PROVE SnapInv'
  BY <1>1, <1>d DEF BeginAllocate, TypeOK, SessionType
<1>2. ASSUME NEW s \in Sessions, BeginSnapshot(s) \/ AutoSnapshot(s) PROVE SnapInv'
  <2>1. UNCHANGED mvccVars /\ UNCHANGED id /\ snap' = [snap EXCEPT ![s] = CurrentSnapshot]
        /\ \A t \in Sessions \ {s} : pc'[t] = pc[t]
    BY <1>2 DEF BeginSnapshot, AutoSnapshot, TypeOK, SessionType
  <2>2. \A t \in Sessions : snap'[t] = IF t = s THEN CurrentSnapshot ELSE snap[t]
    BY <2>1 DEF TypeOK, SessionType
  <2>3. id[s] \in Nat /\ id[s] <= nextId - 1
    BY <1>a DEF TypeOK, SessionType
  <2>4. CurrentSnapshot.max = nextId - 1 /\ CurrentSnapshot.active = active
        /\ CurrentSnapshot.committed = committed
    BY DEF CurrentSnapshot
  <2> QED
    BY <1>a, <2>1, <2>2, <2>3, <2>4 DEF SnapInv, mvccVars, Open
<1>3. ASSUME NEW s \in Sessions, Commit(s) PROVE SnapInv'
  <2>1. id[s] \in active
    BY <1>3 DEF Commit, IdDiscipline, Open, HoldsActive
  <2>2. UNCHANGED nextId /\ active' \subseteq active /\ committed' = committed \cup {id[s]}
    BY <1>3 DEF Commit, MarkCommitted
  <2> QED
    BY <1>3, <1>a, <1>c, <2>1, <2>2, SnapKept DEF Commit
<1>4. ASSUME NEW s \in Sessions, Rollback(s) PROVE SnapInv'
  <2>1. UNCHANGED nextId /\ active' \subseteq active /\ committed' = committed
    BY <1>4 DEF Rollback, MarkAborted
  <2> QED
    BY <1>4, <1>a, <1>c, <2>1, SnapKept DEF Rollback
<1>5. ASSUME NEW s \in Sessions, NEW k \in Writes[s], NEW new \in Writes[s], NEW op \in Ops,
             AutoAllocate(s, op, k, new)
      PROVE  SnapInv'
  BY <1>5, <1>d DEF AutoAllocate, TypeOK, SessionType
<1>6. ASSUME NEW s \in Sessions, AutoMark(s) PROVE SnapInv'
  <2>1. id[s] \in active
    BY <1>6 DEF AutoMark, IdDiscipline, HoldsActive
  <2>2. UNCHANGED nextId /\ active' \subseteq active /\ committed' = committed \cup {id[s]}
        /\ UNCHANGED <<id, snap>>
    BY <1>6 DEF AutoMark, MarkCommitted
  <2>3. \A t \in Sessions : Open(t)' => Open(t)
    BY <1>6 DEF AutoMark, Open, TypeOK, SessionType
  <2> QED
    BY <1>a, <2>1, <2>2, <2>3, SnapKept
<1>7. ASSUME NEW s \in Sessions, AutoApply(s) PROVE SnapInv'
  <2>1. UNCHANGED mvccVars
    BY <1>7 DEF AutoApply
  <2> QED
    BY <1>7, <1>a, <1>c, <2>1, SnapKept DEF AutoApply, mvccVars
<1>8. ASSUME NEW s \in Sessions, Vacuum(s) \/ Truncate(s) \/ Select(s) PROVE SnapInv'
  BY <1>8, <1>b DEF Vacuum, Truncate, Select, sessionVars, vars
<1>9. ASSUME NEW s \in Sessions, NEW n \in SpNames,
             Savepoint(s, n) \/ RollbackTo(s, n) \/ ReleaseSavepoint(s, n)
      PROVE  SnapInv'
  BY <1>9, <1>b DEF Savepoint, RollbackTo, ReleaseSavepoint
<1>10. ASSUME NEW s \in Sessions, NEW k \in Writes[s], NEW new \in Writes[s],
              Insert(s, k) \/ Update(s, k, new) \/ Delete(s, k)
       PROVE  SnapInv'
  BY <1>10, <1>b DEF Insert, Update, Delete, sessionVars
<1>11. CASE UNCHANGED vars
  BY <1>11, <1>b DEF vars, sessionVars
<1> QED
  BY <1>1, <1>2, <1>3, <1>4, <1>5, <1>6, <1>7, <1>8, <1>9, <1>10, <1>11 DEF Next

-----------------------------------------------------------------------------
\* VACUUM takes nothing from what a new statement sees: a version with a
\* committed deleter is hidden from it already.
LEMMA FreshReadersKeep ==
  ASSUME TypeOK, IdDiscipline, NEW s \in Sessions, Vacuum(s)
  PROVE  FreshView' = FreshView
<1>1. /\ UNCHANGED mvccVars
      /\ rows' = [v \in {w \in DOMAIN rows : ~IsDead(rows[w], OldestActive, committed)} |->
                    rows[v]]
  BY DEF Vacuum
<1>2. CurrentSnapshot' = CurrentSnapshot
  BY <1>1 DEF CurrentSnapshot, mvccVars
<1>3. ASSUME NEW v \in DOMAIN rows, IsDead(rows[v], OldestActive, committed)
      PROVE  ~IsVisible(rows[v], AutoCommit, CurrentSnapshot)
  <2>1. rows[v].xmax # 0 /\ rows[v].xmax \in committed
    BY <1>3 DEF IsDead, NotDeleted
  <2>2. rows[v].xmax \notin active
    BY <2>1 DEF IdDiscipline
  <2>4. rows[v].xmax \in 1..(nextId - 1) /\ nextId \in Nat
    BY <2>1 DEF TypeOK, MvccType
  <2>5. ~(rows[v].xmax > nextId - 1)
    BY <2>4
  <2>3. /\ CurrentSnapshot.active = active /\ CurrentSnapshot.committed = committed
        /\ CurrentSnapshot.max = nextId - 1
    BY DEF CurrentSnapshot
  <2> QED
    BY <2>1, <2>2, <2>3, <2>5 DEF IsVisible, DeletionUnseen, AutoCommit, NotDeleted
<1> QED
  BY <1>1, <1>2, <1>3 DEF FreshView

\* A version that VACUUM takes from an open transaction was deleted by one that
\* was running at its BEGIN.
LEMMA LostToConcurrentDeleter ==
  ASSUME TypeOK, IdDiscipline, SnapInv, NEW u \in Sessions, Vacuum(u),
         NEW s \in Sessions, Open(s), NEW v \in View(s) \ DOMAIN rows'
  PROVE  rows[v].xmax \in snap[s].active
<1>1. v \in DOMAIN rows /\ IsVisible(rows[v], id[s], snap[s])
      /\ IsDead(rows[v], OldestActive, committed)
  BY DEF View, Vacuum
<1>2. id[s] \in active
  BY DEF IdDiscipline, Open, HoldsActive
<1>3. rows[v].xmax # 0 /\ rows[v].xmax \in committed /\ rows[v].xmax < OldestActive
  BY <1>1 DEF IsDead, NotDeleted
<1>4. rows[v].xmax <= snap[s].max
  <2>1. OldestActive \in active /\ OldestActive <= id[s] /\ id[s] <= snap[s].max
    BY <1>2, OldestIsLeast DEF SnapInv
  <2>2. \A t \in active \cup committed : t \in Int
    BY DEF TypeOK, MvccType
  <2>3. snap[s].max \in Int
    BY DEF TypeOK, SessionType, Snapshots
  <2>4. rows[v].xmax \in Int /\ OldestActive \in Int /\ id[s] \in Int /\ snap[s].max \in Int
    BY <1>2, <1>3, <2>1, <2>2, <2>3
  <2>5. ASSUME NEW a \in Int, NEW b \in Int, NEW c \in Int, NEW d \in Int,
               a < b, b <= c, c <= d
        PROVE  a <= d
    BY <2>5
  <2> QED
    BY <1>3, <2>1, <2>4, <2>5
<1>5. rows[v].xmax \in snap[s].active \cup snap[s].committed
  BY <1>3, <1>4 DEF SnapInv
<1>6. rows[v].xmax \notin snap[s].committed \/ rows[v].xmax \in snap[s].active
  BY <1>1, <1>3, <1>4 DEF IsVisible, DeletionUnseen, NotDeleted, TypeOK, MvccType, SessionType, Snapshots
<1> QED
  BY <1>5, <1>6

\* SnapInv holds in every reachable state.
THEOREM SnapshotsKnowTheirPast == Spec => []SnapInv
<1>1. IInv /\ SnapInv /\ [Next]_vars => SnapInv'
  BY SnapStep DEF IInv
<1> QED
  BY <1>1, SnapInit, InductiveInvariant, PTL DEF Spec

\* VACUUM (manager.py 228-241, mvcc.py 224-243) takes nothing from new statements,
\* and from an open transaction only what a concurrent transaction deleted.
THEOREM VacuumIsBounded == Spec => VacuumLosesOnlyConcurrentDeletes
<1> DEFINE Bound ==
      (\E s \in Sessions : Vacuum(s)) =>
         /\ FreshView' = FreshView
         /\ \A s \in Sessions : Open(s) =>
              \A v \in View(s) \ DOMAIN rows' : rows[v].xmax \in snap[s].active
<1>1. IInv /\ SnapInv => Bound
  BY FreshReadersKeep, LostToConcurrentDeleter DEF IInv
<1>2. IInv /\ SnapInv /\ [Next]_vars => [Bound]_vars
  BY <1>1
<1> QED
  BY <1>2, InductiveInvariant, SnapshotsKnowTheirPast, PTL DEF Spec, VacuumLosesOnlyConcurrentDeletes

-----------------------------------------------------------------------------
(***************************************************************************)
(* How far the reads of an open transaction are repeatable.                *)
(***************************************************************************)
\* What a step does to the reads of s that are allowed to change.
ReadsOf(s) ==
  /\ \A v \in View(s) \ View(s)' : RowLeaves(s, v)
  /\ \A v \in View(s)' \ View(s) : RowEnters(s, v)

\* The id of a session that is not idle is a number, not aborted, and its own.
LEMMA IdInUse ==
  ASSUME TypeOK, IdDiscipline, NEW s \in Sessions, pc[s] # "idle"
  PROVE  /\ id[s] \in Nat \ {0} /\ id[s] \notin aborted
         /\ Open(s) => id[s] \in active
         /\ \A t \in Sessions \ {s} : id[t] # id[s]
<1>1. id[s] # 0 /\ nextId \in Nat /\ id[s] \in 0..(nextId - 1) /\ pc[s] \in PCs
  BY DEF IdDiscipline, TypeOK, MvccType, SessionType
<1>2. id[s] \in active \/ id[s] \in committed
  BY <1>1 DEF IdDiscipline, HoldsActive, PCs
<1>3. id[s] \notin aborted
  BY <1>2 DEF IdDiscipline
<1>4. Open(s) => id[s] \in active
  BY DEF IdDiscipline, Open, HoldsActive
<1>5. \A t \in Sessions \ {s} : id[t] # id[s]
  BY <1>1 DEF IdDiscipline
<1> QED
  BY <1>1, <1>3, <1>4, <1>5

-----------------------------------------------------------------------------
(***************************************************************************)
(* Lemmas about one row.                                                   *)
(***************************************************************************)

\* A version that is kept with another deletion stamp is hidden from then on only
\* by a stamp the reader counts, and shown from then on only if it has lost one.
LEMMA RestampedRow ==
  ASSUME NEW r, NEW q, NEW me, NEW sn, q.xmin = r.xmin
  PROVE  /\ IsVisible(r, me, sn) /\ ~IsVisible(q, me, sn) => q.xmax \in sn.committed \cup {me}
         /\ ~IsVisible(r, me, sn) /\ IsVisible(q, me, sn) =>
              q.xmin = me \/ r.xmax \in sn.committed \cup {me}
BY DEF IsVisible, CreatorVisible, DeletionUnseen, NotDeleted

\* A version whose deletion stamp is cleared stays visible.
LEMMA ClearedRow ==
  ASSUME NEW r \in Row, NEW me \in Nat, me # 0, NEW sn, IsVisible(r, me, sn)
  PROVE  IsVisible(StampDelete(r, NotDeleted), me, sn)
<1>1. StampDelete(r, NotDeleted).xmin = r.xmin /\ StampDelete(r, NotDeleted).xmax = 0
  BY DEF StampDelete, NotDeleted, Row
<1> QED
  BY <1>1 DEF IsVisible, CreatorVisible, DeletionUnseen, NotDeleted

\* The versions of a running transaction are visible to itself only.
LEMMA RunningIsHidden ==
  ASSUME IInv, NEW s \in Sessions, Open(s), NEW v \in View(s), rows[v].xmin \in active
  PROVE  rows[v].xmin = id[s]
<1>1. snap[s].committed \cap active = {} /\ 0 \notin active
  BY DEF IInv, StampInv, SnapshotsAreOld, IdDiscipline, TypeOK, MvccType
<1> QED
  BY <1>1 DEF View, IsVisible, CreatorVisible, AutoCommit

-----------------------------------------------------------------------------
(***************************************************************************)
(* Steps that leave the reader's id and snapshot alone.                    *)
(***************************************************************************)

\* Versions are kept, restamped or appended (INSERT, UPDATE, DELETE).
LEMMA ReadsUnderRewrite ==
  ASSUME IInv, NEW s \in Sessions, Open(s), id'[s] = id[s], snap'[s] = snap[s],
         NEW me \in Nat \ {0}, NEW T \in SUBSET (DOMAIN rows), NEW n \in Nat, NEW key,
         Rewrite(T, n, key, me)
  PROVE  ReadsOf(s)
<1> DEFINE new == nextVid .. (nextVid + n - 1)
<1>1. DOMAIN rows' = DOMAIN rows \cup new /\ DOMAIN rows \cap new = {}
  BY DEF Rewrite, IInv, TypeOK, TableType
<1>2. ASSUME NEW v \in DOMAIN rows PROVE rows'[v].xmin = rows[v].xmin
  <2>1. rows'[v] = IF v \in T THEN StampDelete(rows[v], me) ELSE rows[v]
    BY <1>1, <1>2 DEF Rewrite
  <2>2. rows[v] \in Row
    BY <1>2 DEF IInv, TypeOK, TableType
  <2> QED
    BY <2>1, <2>2 DEF StampDelete, Row
<1>3. ASSUME NEW v \in new PROVE rows'[v].xmin = me
  BY <1>1, <1>3 DEF Rewrite, StampInsert
<1>4. ASSUME NEW v \in View(s) \ View(s)' PROVE RowLeaves(s, v)
  <2>1. v \in DOMAIN rows /\ v \in DOMAIN rows'
    BY <1>1, <1>4 DEF View
  <2>2. IsVisible(rows[v], id[s], snap[s]) /\ ~IsVisible(rows'[v], id[s], snap[s])
    BY <1>4, <2>1 DEF View
  <2>3. rows'[v].xmax \in snap[s].committed \cup {id[s]}
    BY <1>2, <2>1, <2>2, RestampedRow
  <2> QED
    BY <2>1, <2>3 DEF RowLeaves
<1>5. ASSUME NEW v \in View(s)' \ View(s) PROVE RowEnters(s, v)
  <2>1. v \in DOMAIN rows' /\ IsVisible(rows'[v], id[s], snap[s])
    BY <1>5 DEF View
  <2>2. CASE v \in DOMAIN rows
    <3>1. ~IsVisible(rows[v], id[s], snap[s])
      BY <1>5, <2>2 DEF View
    <3> QED
      BY <1>2, <2>1, <2>2, <3>1, RestampedRow DEF RowEnters
  <2>3. CASE v \notin DOMAIN rows
    <3>1. rows'[v].xmin = me
      BY <1>1, <1>3, <2>1, <2>3
    <3>2. rows'[v].xmin = id[s] \/ rows'[v].xmin \in snap[s].committed
      BY <2>1, <3>1 DEF IsVisible, CreatorVisible, AutoCommit
    <3> QED
      BY <2>3, <3>2 DEF RowEnters
  <2> QED
    BY <2>2, <2>3
<1> QED
  BY <1>4, <1>5 DEF ReadsOf

\* Versions of one transaction are removed and its stamps cleared (ROLLBACK,
\* ROLLBACK TO): a reader loses versions only by its own return to a savepoint.
LEMMA ReadsUnderRestore ==
  ASSUME IInv, NEW s \in Sessions, Open(s), id'[s] = id[s], snap'[s] = snap[s],
         NEW t \in Sessions, Open(t), NEW D \in SUBSET (DOMAIN rows), NEW U,
         rows' = [v \in D |-> IF v \in U THEN StampDelete(rows[v], NotDeleted) ELSE rows[v]],
         \A v \in DOMAIN rows \ D : rows[v].xmin = id[t],
         \/ t # s
         \/ \E n \in SpNames : RollbackTo(s, n)
  PROVE  ReadsOf(s)
<1>1. DOMAIN rows' = D
  OBVIOUS
<1>2. id[t] \in active /\ id[s] \in active /\ id[s] \in Nat /\ id[s] # 0
      /\ (t # s => id[t] # id[s])
  BY IdInUse DEF IInv, Open
<1>3. ASSUME NEW v \in D
      PROVE  /\ rows[v] \in Row /\ rows'[v].xmin = rows[v].xmin
             /\ IsVisible(rows[v], id[s], snap[s]) => IsVisible(rows'[v], id[s], snap[s])
  <2>1. rows[v] \in Row
    BY <1>3 DEF IInv, TypeOK, TableType
  <2>2. rows'[v] = IF v \in U THEN StampDelete(rows[v], NotDeleted) ELSE rows[v]
    BY <1>3
  <2>3. StampDelete(rows[v], NotDeleted).xmin = rows[v].xmin
    BY <2>1 DEF StampDelete, Row
  <2>4. IsVisible(rows[v], id[s], snap[s]) =>
          IsVisible(StampDelete(rows[v], NotDeleted), id[s], snap[s])
    BY <1>2, <2>1, ClearedRow
  <2> QED
    BY <2>1, <2>2, <2>3, <2>4
<1>4. ASSUME NEW v \in View(s) \ View(s)' PROVE RowLeaves(s, v)
  <2>1. v \in DOMAIN rows /\ IsVisible(rows[v], id[s], snap[s])
    BY <1>4 DEF View
  <2>2. v \notin D
    BY <1>1, <1>3, <1>4, <2>1 DEF View
  <2>3. rows[v].xmin = id[t]
    BY <2>1, <2>2
  <2>4. t = s
    BY <1>2, <1>4, <2>3, RunningIsHidden
  <2> QED
    BY <1>1, <2>2, <2>4 DEF RowLeaves
<1>5. ASSUME NEW v \in View(s)' \ View(s) PROVE RowEnters(s, v)
  <2>1. v \in D /\ v \in DOMAIN rows /\ IsVisible(rows'[v], id[s], snap[s])
    BY <1>1, <1>5 DEF View
  <2>2. ~IsVisible(rows[v], id[s], snap[s])
    BY <1>5, <2>1 DEF View
  <2> QED
    BY <1>3, <2>1, <2>2, RestampedRow DEF RowEnters
<1> QED
  BY <1>4, <1>5 DEF ReadsOf

\* VACUUM removes versions and changes none that stays.
LEMMA ReadsUnderVacuum ==
  ASSUME IInv, SnapInv, NEW u \in Sessions, Vacuum(u), NEW s \in Sessions, Open(s)
  PROVE  ReadsOf(s)
<1>1. UNCHANGED <<id, snap>>
  BY DEF Vacuum, sessionVars
<1>2. /\ DOMAIN rows' \subseteq DOMAIN rows
      /\ \A v \in DOMAIN rows' : rows'[v] = rows[v]
  BY DEF Vacuum
<1>3. ASSUME NEW v \in View(s) \ View(s)' PROVE RowLeaves(s, v)
  <2>1. v \notin DOMAIN rows'
    BY <1>1, <1>2, <1>3 DEF View
  <2>2. rows[v].xmax \in snap[s].active
    BY <1>3, <2>1, LostToConcurrentDeleter DEF IInv
  <2> QED
    BY <2>1, <2>2 DEF RowLeaves
<1>4. View(s)' \subseteq View(s)
  BY <1>1, <1>2 DEF View
<1> QED
  BY <1>3, <1>4 DEF ReadsOf

-----------------------------------------------------------------------------
\* Every step keeps the reads of a transaction that is open before and after it,
\* except through the gaps.
LEMMA ReadsStep ==
  ASSUME IInv, SnapInv, Next, NEW s \in Sessions, Open(s), Open(s)'
  PROVE  ReadsOf(s)
<1> USE DEF IInv
<1>b. ASSUME UNCHANGED <<rows, id, snap>> PROVE ReadsOf(s)
  BY <1>b DEF ReadsOf, View
<1>c. ASSUME UNCHANGED rows, id'[s] = id[s], snap'[s] = snap[s] PROVE ReadsOf(s)
  BY <1>c DEF ReadsOf, View
<1>d. ASSUME NEW t \in Sessions, Reset(t)
      PROVE  t # s /\ id'[s] = id[s] /\ snap'[s] = snap[s]
  BY <1>d DEF Reset, Open, TypeOK, SessionType
<1>1. ASSUME NEW t \in Sessions, BeginAllocate(t) PROVE ReadsOf(s)
  BY <1>1, <1>c DEF BeginAllocate, AllocateTxnId, tableVars, Open, TypeOK, SessionType
<1>2. ASSUME NEW t \in Sessions, BeginSnapshot(t) \/ AutoSnapshot(t) PROVE ReadsOf(s)
  BY <1>2, <1>c DEF BeginSnapshot, AutoSnapshot, tableVars, Open, TypeOK, SessionType
<1>3. ASSUME NEW t \in Sessions, Commit(t) PROVE ReadsOf(s)
  BY <1>3, <1>c, <1>d DEF Commit, tableVars
<1>4. ASSUME NEW t \in Sessions, Rollback(t) PROVE ReadsOf(s)
  <2> DEFINE D == {w \in DOMAIN rows : rows[w].xmin # id[t]}
             U == {w \in DOMAIN rows : rows[w].xmax = id[t]}
  <2>1. rows' = [v \in D |-> IF v \in U THEN StampDelete(rows[v], NotDeleted) ELSE rows[v]]
    BY <1>4 DEF Rollback, RollbackRows
  <2>2. D \in SUBSET (DOMAIN rows) /\ \A v \in DOMAIN rows \ D : rows[v].xmin = id[t]
    OBVIOUS
  <2>3. t # s /\ id'[s] = id[s] /\ snap'[s] = snap[s] /\ Open(t)
    BY <1>4, <1>d DEF Rollback
  <2> HIDE DEF D, U
  <2> QED
    BY <2>1, <2>2, <2>3, ReadsUnderRestore
<1>5. ASSUME NEW t \in Sessions, NEW n \in SpNames, Savepoint(t, n) \/ ReleaseSavepoint(t, n)
      PROVE  ReadsOf(s)
  BY <1>5, <1>b DEF Savepoint, ReleaseSavepoint, tableVars
<1>6. ASSUME NEW t \in Sessions, NEW n \in SpNames, RollbackTo(t, n) PROVE ReadsOf(s)
  <2> DEFINE D == DOMAIN rows \ Undone(t, sps[t][n])
             U == Restored(t, sps[t][n])
  <2>1. rows' = [v \in D |-> IF v \in U THEN StampDelete(rows[v], NotDeleted) ELSE rows[v]]
    BY <1>6 DEF RollbackTo
  <2>2. D \in SUBSET (DOMAIN rows) /\ \A v \in DOMAIN rows \ D : rows[v].xmin = id[t]
    BY DEF Undone
  <2>3. id'[s] = id[s] /\ snap'[s] = snap[s] /\ Open(t)
    BY <1>6 DEF RollbackTo
  <2>4. t # s \/ \E m \in SpNames : RollbackTo(s, m)
    BY <1>6
  <2> HIDE DEF D, U
  <2> QED
    BY <2>1, <2>2, <2>3, <2>4, ReadsUnderRestore
<1>7. ASSUME NEW t \in Sessions, NEW k, NEW new, NEW me \in Nat \ {0}, NEW sn,
             InsertRow(k, me) \/ DeleteRows(k, me, sn) \/ UpdateRows(k, new, me, sn),
             id'[s] = id[s], snap'[s] = snap[s]
      PROVE  ReadsOf(s)
  <2> DEFINE T == Targets(k, me, sn)
  <2>1. T \in SUBSET (DOMAIN rows)
    BY TargetsAreRows
  <2>2. Cardinality(T) \in Nat
    BY <2>1, RowsFinite DEF TypeOK
  <2>3. \E R \in {T, {}} : \E n \in Nat : \E q \in {k, new} : Rewrite(R, n, q, me)
    BY <1>7, <2>2 DEF InsertRow, UpdateRows, DeleteRows
  <2> HIDE DEF T
  <2>4. PICK R \in {T, {}}, n \in Nat, q \in {k, new} : Rewrite(R, n, q, me)
    BY <2>3
  <2>5. R \in SUBSET (DOMAIN rows)
    BY <2>1
  <2> QED
    BY <1>7, <2>4, <2>5, ReadsUnderRewrite
<1>8. ASSUME NEW t \in Sessions, NEW k \in Writes[t], NEW new \in Writes[t],
             Insert(t, k) \/ Update(t, k, new) \/ Delete(t, k)
      PROVE  ReadsOf(s)
  <2>1. id[t] \in Nat \ {0} /\ id'[s] = id[s] /\ snap'[s] = snap[s]
    BY <1>8, IdInUse DEF Insert, Update, Delete, sessionVars, Open
  <2>2. InsertRow(k, id[t]) \/ DeleteRows(k, id[t], snap[t]) \/ UpdateRows(k, new, id[t], snap[t])
    BY <1>8 DEF Insert, Update, Delete
  <2> QED
    BY <1>7, <2>1, <2>2
<1>9. ASSUME NEW t \in Sessions, NEW k \in Writes[t], NEW new \in Writes[t], NEW op \in Ops,
             AutoAllocate(t, op, k, new)
      PROVE  ReadsOf(s)
  BY <1>9, <1>c DEF AutoAllocate, AllocateTxnId, tableVars, Open, TypeOK, SessionType
<1>10. ASSUME NEW t \in Sessions, AutoMark(t) PROVE ReadsOf(s)
  BY <1>10, <1>b DEF AutoMark, tableVars
<1>11. ASSUME NEW t \in Sessions, AutoApply(t) PROVE ReadsOf(s)
  <2>1. id[t] \in Nat \ {0} /\ id'[s] = id[s] /\ snap'[s] = snap[s]
    BY <1>11, <1>d, IdInUse DEF AutoApply
  <2>2. \/ InsertRow(stmt[t].key, id[t])
        \/ UpdateRows(stmt[t].key, stmt[t].new, id[t], snap[t])
        \/ DeleteRows(stmt[t].key, id[t], snap[t])
    BY <1>11 DEF AutoApply
  <2> QED
    BY <1>7, <2>1, <2>2
<1>12. ASSUME NEW t \in Sessions, Vacuum(t) PROVE ReadsOf(s)
  BY <1>12, ReadsUnderVacuum
<1>13. ASSUME NEW t \in Sessions, Truncate(t) PROVE ReadsOf(s)
  <2>1. View(s)' = {}
    BY <1>13 DEF Truncate, NoRows, View
  <2> QED
    BY <1>13, <2>1 DEF ReadsOf, RowLeaves
<1>14. ASSUME NEW t \in Sessions, Select(t) PROVE ReadsOf(s)
  BY <1>14, <1>b DEF Select, vars, tableVars, sessionVars
<1> QED
  BY <1>1, <1>2, <1>3, <1>4, <1>5, <1>6, <1>8, <1>9, <1>10, <1>11, <1>12, <1>13, <1>14 DEF Next

\* Inside a transaction a row appears or disappears only by the transaction's own
\* work, TRUNCATE, VACUUM of a concurrent deletion, an auto-commit statement marked
\* committed before BEGIN, or an overwritten deletion stamp (mvcc.py 104-196,
\* table.py 464-570, manager.py 91-241).
THEOREM ReadsAreRepeatableButForGaps == Spec => ReadsChangeOnlyThroughKnownGaps
<1> DEFINE Reads ==
      \A s \in Sessions : Open(s) /\ Open(s)' =>
         /\ \A v \in View(s) \ View(s)' : RowLeaves(s, v)
         /\ \A v \in View(s)' \ View(s) : RowEnters(s, v)
<1>1. IInv /\ SnapInv /\ [Next]_vars => [Reads]_vars
  BY ReadsStep DEF ReadsOf
<1> QED
  BY <1>1, InductiveInvariant, SnapshotsKnowTheirPast, PTL
     DEF Spec, ReadsChangeOnlyThroughKnownGaps

-----------------------------------------------------------------------------
(***************************************************************************)
(* The transactions implement snapshot isolation with savepoints, for any  *)
(* sessions that keep apart: a refinement, step by step.                   *)
(***************************************************************************)
\* The place of a version in the list is its rank.
LEMMA RankIsPosition ==
  \A v : Position(v) = Rank(DOMAIN rows, v) /\ Position(v)' = Rank(DOMAIN rows', v)
BY DEF Position, Rank

-----------------------------------------------------------------------------
(***************************************************************************)
(* The inductive invariant, beyond IInv.                                   *)
(***************************************************************************)
SnapOK(s) ==
  /\ snap[s].committed \cap snap[s].active = {}
  /\ \A c \in snap[s].committed : c <= snap[s].max

\* A transaction stamps rows of its keys, and deletes versions it was shown; what
\* others have deleted since it began has other keys.
OwnRows(s) ==
  \A v \in DOMAIN rows :
    /\ pc[s] = "begun" => rows[v].xmin # id[s] /\ rows[v].xmax # id[s]
    /\ Open(s) =>
         /\ rows[v].xmin = id[s] \/ rows[v].xmax = id[s] => rows[v].key \in Writes[s]
         /\ rows[v].xmax = id[s] /\ rows[v].xmin # id[s] => rows[v].xmin \in snap[s].committed
         /\ rows[v].xmax \in committed \ snap[s].committed => rows[v].key \notin Writes[s]

\* The positions of a savepoint are positions still, and those of versions that the
\* transaction has deleted; savepoints are ordered by age, an older one has fewer of both.
SavepointOK(s, n) ==
  LET sp == sps[s][n] IN
  /\ sp.count <= Cardinality(DOMAIN rows)
  /\ \A i \in sp.deleted : i < sp.count
  /\ \A v \in DOMAIN rows : Position(v) \in sp.deleted => rows[v].xmax = id[s]
  /\ sp.older \subseteq DOMAIN sps[s]
  /\ \A m \in DOMAIN sps[s] \ {n} :
       /\ m \in sp.older \/ n \in sps[s][m].older
       /\ m \in sp.older => /\ sps[s][m].older \subseteq sp.older
                           /\ sps[s][m].count <= sp.count /\ sps[s][m].deleted \subseteq sp.deleted

SavepointsOK(s) ==
  /\ DOMAIN sps[s] # {} => Open(s) /\ "savepoint" \in Does[s]
  /\ \A n \in DOMAIN sps[s] : SavepointOK(s, n)

IsoInv ==
  /\ IInv
  /\ \A v \in DOMAIN rows : rows[v].xmin # AutoCommit
  /\ \A s \in Sessions :
       pc[s] \in {"idle", "begun", "open"} /\ SnapOK(s) /\ OwnRows(s) /\ SavepointsOK(s)

-----------------------------------------------------------------------------
(***************************************************************************)
(* What the invariant makes of the mapping.                                *)
(***************************************************************************)
LEMMA Facts ==
  ASSUME IsoInv
  PROVE  /\ TypeOK /\ IdDiscipline /\ StampInv
         /\ nextId \in Nat \ {0} /\ active \subseteq Nat /\ committed \subseteq Nat
         /\ 0 \notin active /\ 0 \notin committed /\ active \cap committed = {}
         /\ nextVid \in Nat /\ DOMAIN rows \subseteq Nat /\ IsFiniteSet(DOMAIN rows)
         /\ \A v \in DOMAIN rows :
              /\ rows[v] \in Row /\ rows[v].xmin \in Nat \ {0} /\ rows[v].xmax \in Nat
              /\ v < nextVid /\ rows[v].xmin < nextId /\ rows[v].xmax < nextId
         /\ \A s \in Sessions : /\ snap[s].committed \subseteq committed
                                /\ 0 \notin snap[s].committed
                                /\ id[s] \in Nat /\ snap[s] \in Snapshots
         /\ \A s \in Sessions : pc[s] # "idle" => id[s] # 0 /\ id[s] \in active
                                                  /\ id[s] \notin committed
         /\ \A s, t \in Sessions : s # t /\ pc[s] # "idle" => id[s] # id[t]
<1>1. TypeOK /\ IdDiscipline /\ StampInv
  BY DEF IsoInv, IInv
<1>2. /\ nextId \in Nat \ {0} /\ active \subseteq Nat /\ committed \subseteq Nat
      /\ 0 \notin active /\ 0 \notin committed /\ active \cap committed = {}
  BY <1>1 DEF TypeOK, MvccType, IdDiscipline
<1>3. nextVid \in Nat /\ DOMAIN rows \subseteq Nat /\ IsFiniteSet(DOMAIN rows)
  BY <1>1, RowsFinite DEF TypeOK, TableType
<1>4. \A v \in DOMAIN rows :
        /\ rows[v] \in Row /\ rows[v].xmin \in Nat \ {0} /\ rows[v].xmax \in Nat
        /\ v < nextVid /\ rows[v].xmin < nextId /\ rows[v].xmax < nextId
  <2> TAKE v \in DOMAIN rows
  <2>1. rows[v] \in Row /\ v < nextVid /\ rows[v].xmin < nextId /\ rows[v].xmax < nextId
    BY <1>1 DEF TypeOK, TableType
  <2>2. rows[v].xmin # 0
    BY DEF IsoInv, AutoCommit
  <2> QED
    BY <2>1, <2>2 DEF Row
<1>5. \A s \in Sessions : /\ snap[s].committed \subseteq committed
                          /\ 0 \notin snap[s].committed
                          /\ id[s] \in Nat /\ snap[s] \in Snapshots
  BY <1>1, <1>2 DEF StampInv, SnapshotsAreOld, TypeOK, SessionType
<1>6. \A s \in Sessions : pc[s] # "idle" => id[s] # 0 /\ id[s] \in active /\ id[s] \notin committed
  <2> TAKE s \in Sessions
  <2>1. pc[s] \in {"idle", "begun", "open"}
    BY DEF IsoInv
  <2> QED
    BY <1>1, <1>2, <2>1 DEF IdDiscipline, HoldsActive
<1>7. \A s, t \in Sessions : s # t /\ pc[s] # "idle" => id[s] # id[t]
  BY <1>1, <1>6 DEF IdDiscipline
<1> QED
  BY <1>1, <1>2, <1>3, <1>4, <1>5, <1>6, <1>7

\* What new statements see.
LEMMA FreshViewIs ==
  ASSUME IsoInv
  PROVE  FreshView = {v \in DOMAIN rows : rows[v].xmin \in committed /\ rows[v].xmax \notin committed}
<1> SUFFICES ASSUME NEW v \in DOMAIN rows
             PROVE  IsVisible(rows[v], AutoCommit, CurrentSnapshot)
                      <=> rows[v].xmin \in committed /\ rows[v].xmax \notin committed
  BY DEF FreshView
<1>1. CurrentSnapshot.active = active /\ CurrentSnapshot.committed = committed
      /\ CurrentSnapshot.max = nextId - 1
  BY DEF CurrentSnapshot
<1> QED
  BY <1>1, Facts DEF IsVisible, CreatorVisible, DeletionUnseen, AutoCommit, NotDeleted

\* What a transaction's snapshot shows.
LEMMA BaseIs ==
  ASSUME IsoInv, NEW s \in Sessions, Open(s)
  PROVE  BaseOf(s) = {v \in DOMAIN rows : /\ rows[v].xmin \in snap[s].committed
                                          /\ rows[v].xmax \notin snap[s].committed}
<1>1. SnapOK(s) /\ pc[s] # "idle"
  BY DEF IsoInv, Open
<1> SUFFICES ASSUME NEW v \in DOMAIN rows
             PROVE  (/\ rows[v].xmin # id[s]
                     /\ CreatorVisible(rows[v], snap[s])
                     /\ rows[v].xmax = id[s] \/ DeletionUnseen(rows[v], id[s], snap[s]))
                      <=> rows[v].xmin \in snap[s].committed /\ rows[v].xmax \notin snap[s].committed
  BY DEF BaseOf
<1>2. id[s] \notin snap[s].committed /\ 0 \notin snap[s].committed
  BY <1>1, Facts
<1>3. CreatorVisible(rows[v], snap[s]) <=> rows[v].xmin \in snap[s].committed
  BY <1>1, Facts DEF CreatorVisible, SnapOK, AutoCommit
<1>4. rows[v].xmax = id[s] \/ DeletionUnseen(rows[v], id[s], snap[s])
        <=> rows[v].xmax \notin snap[s].committed
  <2>1. ASSUME rows[v].xmax \in snap[s].committed
        PROVE  ~(rows[v].xmax = id[s] \/ DeletionUnseen(rows[v], id[s], snap[s]))
    <3>1. rows[v].xmax \notin snap[s].active /\ rows[v].xmax <= snap[s].max
      BY <1>1, <2>1 DEF SnapOK
    <3>2. snap[s].max \in Nat /\ rows[v].xmax \in Nat
      BY Facts DEF Snapshots
    <3> QED
      BY <1>2, <2>1, <3>1, <3>2 DEF DeletionUnseen, NotDeleted
  <2>2. ASSUME rows[v].xmax \notin snap[s].committed
        PROVE  rows[v].xmax = id[s] \/ DeletionUnseen(rows[v], id[s], snap[s])
    BY <2>2 DEF DeletionUnseen, NotDeleted
  <2> QED
    BY <2>1, <2>2
<1> QED
  BY <1>2, <1>3, <1>4

\* The versions a statement of s reaches: its own, or of its base; nobody has deleted
\* one for good, nor another transaction for now.
LEMMA TargetsAreOwn ==
  ASSUME IsoInv, Apart, NEW s \in Sessions, Open(s), NEW k \in Writes[s],
         NEW v \in Targets(k, id[s], snap[s])
  PROVE  /\ v \in DOMAIN rows /\ rows[v].key \in Writes[s]
         /\ rows[v].xmin = id[s] \/ rows[v].xmin \in snap[s].committed
         /\ rows[v].xmax \notin committed /\ rows[v].xmax # id[s]
         /\ \A t \in Sessions : pc[t] # "idle" => rows[v].xmax # id[t]
<1>1. v \in DOMAIN rows /\ rows[v].key = k /\ IsVisible(rows[v], id[s], snap[s])
  BY DEF Targets
<1>2. SnapOK(s) /\ pc[s] # "idle" /\ OwnRows(s)
  BY DEF IsoInv, Open
<1>3. id[s] # 0 /\ id[s] \in active /\ snap[s].max \in Nat /\ rows[v].xmax \in Nat
  BY <1>1, <1>2, Facts DEF Snapshots
<1>4. CASE rows[v].xmin = id[s]
  <2>1. rows[v].xmax = 0
    BY <1>1, <1>3, <1>4, Facts DEF IsVisible, StampInv, UncommittedUntouched, NotDeleted
  <2> QED
    BY <1>1, <1>3, <1>4, <2>1, Facts
<1>5. CASE rows[v].xmin # id[s]
  <2>1. CreatorVisible(rows[v], snap[s]) /\ DeletionUnseen(rows[v], id[s], snap[s])
    BY <1>1, <1>5 DEF IsVisible
  <2>2. rows[v].xmin \in snap[s].committed
    BY <1>1, <2>1, Facts DEF CreatorVisible, AutoCommit
  <2>3. rows[v].xmax # id[s] /\ rows[v].xmax \notin snap[s].committed
    BY <1>2, <1>3, <2>1, Facts DEF DeletionUnseen, NotDeleted, SnapOK
  <2>4. rows[v].xmax \notin committed
    BY <1>1, <1>2, <2>3 DEF OwnRows
  <2>5. ASSUME NEW t \in Sessions, pc[t] # "idle" PROVE rows[v].xmax # id[t]
    <3>1. CASE t = s
      BY <2>3, <3>1
    <3>2. CASE t # s
      <4>1. k \notin Writes[t]
        BY <3>2 DEF Apart
      <4>2. OwnRows(t) /\ pc[t] \in {"idle", "begun", "open"}
        BY DEF IsoInv
      <4> QED
        BY <1>1, <2>5, <4>1, <4>2 DEF OwnRows, Open
    <3> QED
      BY <3>1, <3>2
  <2> QED
    BY <1>1, <2>2, <2>3, <2>4, <2>5
<1> QED
  BY <1>4, <1>5

LEMMA FreshViewNext ==
  IsoInv' => FreshView' = {v \in DOMAIN rows' : rows'[v].xmin \in committed' /\ rows'[v].xmax \notin committed'}
<1> DEFINE F == {v \in DOMAIN rows : rows[v].xmin \in committed /\ rows[v].xmax \notin committed}
<1>1. IsoInv => FreshView = F
  BY FreshViewIs
<1>2. (IsoInv => FreshView = F)'
  BY <1>1, PTL
<1> QED
  BY <1>2

LEMMA BaseNext ==
  \A s \in Sessions : IsoInv' /\ Open(s)' =>
    BaseOf(s)' = {v \in DOMAIN rows' : /\ rows'[v].xmin \in snap'[s].committed
                                       /\ rows'[v].xmax \notin snap'[s].committed}
<1> DEFINE B(s) == {v \in DOMAIN rows : /\ rows[v].xmin \in snap[s].committed
                                        /\ rows[v].xmax \notin snap[s].committed}
           P == \A s \in Sessions : IsoInv /\ Open(s) => BaseOf(s) = B(s)
<1>1. P
  BY BaseIs
<1>2. P'
  BY <1>1, PTL
<1> QED
  BY <1>2

-----------------------------------------------------------------------------
(***************************************************************************)
(* A step that changes rows of one transaction only, as the others see it. *)
(***************************************************************************)
OwnStamps(s) ==
  /\ \A v \in DOMAIN rows \cap DOMAIN rows' :
       /\ rows'[v].key = rows[v].key /\ rows'[v].xmin = rows[v].xmin
       /\ rows'[v].xmax # rows[v].xmax =>
            /\ rows[v].xmax \notin committed /\ rows'[v].xmax \notin committed
            /\ \A t \in Sessions \ {s} : pc[t] # "idle" => id[t] \notin {rows[v].xmax, rows'[v].xmax}
  /\ \A v \in DOMAIN rows \ DOMAIN rows' : rows[v].xmin = id[s]
  /\ \A v \in DOMAIN rows' \ DOMAIN rows :
       rows'[v].xmin = id[s] /\ rows'[v].xmax = NotDeleted /\ rows'[v].key \in Writes[s]

Same(t) == pc'[t] = pc[t] /\ id'[t] = id[t] /\ snap'[t] = snap[t]

LEMMA StoreStays ==
  ASSUME IsoInv, IsoInv', NEW s \in Sessions, pc[s] # "idle", OwnStamps(s), committed' = committed
  PROVE  FreshView' = FreshView
<1>1. id[s] \notin committed
  BY Facts
<1>2. FreshView = {v \in DOMAIN rows : rows[v].xmin \in committed /\ rows[v].xmax \notin committed}
  BY FreshViewIs
<1>3. FreshView' = {v \in DOMAIN rows' : rows'[v].xmin \in committed /\ rows'[v].xmax \notin committed}
  BY FreshViewNext
<1> QED
  BY <1>1, <1>2, <1>3 DEF OwnStamps

LEMMA BaseStays ==
  ASSUME IsoInv, IsoInv', NEW s \in Sessions, pc[s] # "idle", OwnStamps(s), committed' = committed,
         NEW t \in Sessions, Same(t), Open(t)
  PROVE  BaseOf(t)' = BaseOf(t)
<1>1. Open(t)'
  BY DEF Same, Open
<1>2. id[s] \notin snap[t].committed /\ snap[t].committed \subseteq committed
  BY Facts
<1>3. BaseOf(t) = {v \in DOMAIN rows : /\ rows[v].xmin \in snap[t].committed
                                       /\ rows[v].xmax \notin snap[t].committed}
  BY BaseIs
<1>4. BaseOf(t)' = {v \in DOMAIN rows' : /\ rows'[v].xmin \in snap[t].committed
                                         /\ rows'[v].xmax \notin snap[t].committed}
  BY <1>1, BaseNext DEF Same
<1> QED
  BY <1>2, <1>3, <1>4 DEF OwnStamps

LEMMA WritesStay ==
  ASSUME IsoInv, NEW s \in Sessions, pc[s] # "idle", OwnStamps(s),
         NEW t \in Sessions, t # s, Same(t), Open(t)
  PROVE  OwnMade(t)' = OwnMade(t) /\ OwnGone(t)' = OwnGone(t)
<1>1. pc[t] # "idle" /\ id'[t] = id[t] /\ id[t] # id[s]
  BY Facts DEF Same, Open
<1>2. OwnMade(t)' = {v \in DOMAIN rows' : rows'[v].xmin = id[t] /\ rows'[v].xmax # id[t]}
  BY <1>1 DEF OwnMade
<1>3. OwnGone(t)' = {v \in DOMAIN rows' : rows'[v].xmin # id[t] /\ rows'[v].xmax = id[t]}
  BY <1>1 DEF OwnGone
<1>4. \A v \in DOMAIN rows \cap DOMAIN rows' :
        rows'[v].xmin = rows[v].xmin /\ (rows'[v].xmax = id[t] <=> rows[v].xmax = id[t])
  BY <1>1 DEF OwnStamps
<1>5. \A v \in DOMAIN rows \ DOMAIN rows' : rows[v].xmin = id[s] /\ rows[v].xmax # id[t]
  <2> TAKE v \in DOMAIN rows \ DOMAIN rows'
  <2>1. rows[v].xmin = id[s]
    BY DEF OwnStamps
  <2>2. rows[v].xmax \in {0, id[s]}
    BY <2>1, Facts DEF StampInv, UncommittedUntouched, NotDeleted
  <2> QED
    BY <1>1, <2>1, <2>2, Facts
<1>6. \A v \in DOMAIN rows' \ DOMAIN rows : rows'[v].xmin = id[s] /\ rows'[v].xmax = 0
  BY DEF OwnStamps, NotDeleted
<1>7. id[t] # 0
  BY <1>1, Facts
<1> QED
  BY <1>1, <1>2, <1>3, <1>4, <1>5, <1>6, <1>7 DEF OwnMade, OwnGone

LEMMA OwnRowsStay ==
  ASSUME IsoInv, NEW s \in Sessions, pc[s] # "idle", OwnStamps(s), committed' = committed,
         NEW t \in Sessions, t # s, Same(t)
  PROVE  OwnRows(t)'
<1>1. OwnRows(t) /\ pc'[t] = pc[t] /\ id'[t] = id[t] /\ snap'[t] = snap[t]
  BY DEF IsoInv, Same
<1> SUFFICES ASSUME NEW v \in DOMAIN rows', pc[t] # "idle"
             PROVE  /\ pc[t] = "begun" => rows'[v].xmin # id[t] /\ rows'[v].xmax # id[t]
                    /\ pc[t] = "open" =>
                         /\ rows'[v].xmin = id[t] \/ rows'[v].xmax = id[t] => rows'[v].key \in Writes[t]
                         /\ rows'[v].xmax = id[t] /\ rows'[v].xmin # id[t] => rows'[v].xmin \in snap[t].committed
                         /\ rows'[v].xmax \in committed \ snap[t].committed => rows'[v].key \notin Writes[t]
  BY <1>1 DEF OwnRows, Open
<1>2. id[t] # id[s] /\ id[t] # 0 /\ 0 \notin committed
  BY Facts
<1>3. CASE v \in DOMAIN rows
  BY <1>1, <1>3 DEF OwnRows, Open, OwnStamps
<1>4. CASE v \notin DOMAIN rows
  BY <1>2, <1>4 DEF OwnStamps, NotDeleted
<1> QED
  BY <1>3, <1>4

\* What a statement appends comes after the places of every savepoint.
Appends ==
  /\ DOMAIN rows \subseteq DOMAIN rows' /\ DOMAIN rows' \subseteq Nat /\ IsFiniteSet(DOMAIN rows')
  /\ \A x \in DOMAIN rows' \ DOMAIN rows : \A v \in DOMAIN rows : v < x

LEMMA SavepointsStay ==
  ASSUME IsoInv, Appends, NEW t \in Sessions, Same(t), sps'[t] = sps[t],
         \A v \in DOMAIN rows : /\ rows'[v].xmin = rows[v].xmin
                                /\ rows[v].xmax = id[t] => rows'[v].xmax = id[t]
  PROVE  SavepointsOK(t)' /\ \A n \in DOMAIN sps[t] : SavedWrites(t, n)' = SavedWrites(t, n)
<1>1. SavepointsOK(t) /\ pc'[t] = pc[t] /\ id'[t] = id[t]
  BY DEF IsoInv, Same
<1>2. /\ Cardinality(DOMAIN rows) <= Cardinality(DOMAIN rows')
      /\ Cardinality(DOMAIN rows) \in Nat /\ Cardinality(DOMAIN rows') \in Nat
      /\ \A v \in DOMAIN rows : Position(v)' = Position(v)
      /\ \A x \in DOMAIN rows' \ DOMAIN rows : Position(x)' >= Cardinality(DOMAIN rows)
  <2>1. DOMAIN rows \in SUBSET Nat /\ DOMAIN rows' \in SUBSET Nat /\ IsFiniteSet(DOMAIN rows)
    BY Facts DEF Appends
  <2> QED
    BY <2>1, RanksAppend, RankIsPosition, FS_CardinalityType DEF Appends
<1>3. ASSUME NEW n \in DOMAIN sps[t]
      PROVE  SavepointOK(t, n)' /\ SavedWrites(t, n)' = SavedWrites(t, n)
  <2> DEFINE sp == sps[t][n]
  <2>1. /\ sps'[t][n] = sp /\ sp.count \in Nat /\ sp.deleted \subseteq Nat
        /\ sp.count <= Cardinality(DOMAIN rows) /\ \A i \in sp.deleted : i < sp.count
        /\ \A v \in DOMAIN rows : Position(v) \in sp.deleted => rows[v].xmax = id[t]
    <3>1. sp \in Savepoints
      BY Facts DEF TypeOK, SessionType
    <3> QED
      BY <1>1, <3>1 DEF SavepointsOK, SavepointOK, Savepoints
  <2>2. \A x \in DOMAIN rows' \ DOMAIN rows : ~ (Position(x)' < sp.count) /\ Position(x)' \notin sp.deleted
    <3> TAKE x \in DOMAIN rows' \ DOMAIN rows
    <3>1. Position(x)' >= Cardinality(DOMAIN rows) /\ Position(x)' \in Nat
      <4>1. DOMAIN rows' \in SUBSET Nat /\ IsFiniteSet(DOMAIN rows')
        BY DEF Appends
      <4> QED
        BY <1>2, <4>1, RankType, RankIsPosition
    <3>2. ~ (Position(x)' < sp.count)
      BY <1>2, <2>1, <3>1
    <3> QED
      BY <2>1, <3>2
  <2>3. \A v \in DOMAIN rows' : Position(v)' \in sp.deleted => rows'[v].xmax = id[t]
    BY <1>2, <2>1, <2>2 DEF Appends
  <2>4. sp.count <= Cardinality(DOMAIN rows')
    BY <1>2, <2>1
  <2>5. SavepointOK(t, n)'
    BY <1>1, <2>1, <2>3, <2>4 DEF SavepointsOK, SavepointOK
  <2>6. {v \in DOMAIN rows' : /\ rows'[v].xmin = id[t]
                              /\ Position(v)' < sp.count /\ Position(v)' \notin sp.deleted}
          = {v \in DOMAIN rows : /\ rows[v].xmin = id[t]
                                 /\ Position(v) < sp.count /\ Position(v) \notin sp.deleted}
    BY <1>2, <2>2 DEF Appends
  <2>7. {v \in DOMAIN rows' : rows'[v].xmin # id[t] /\ Position(v)' \in sp.deleted}
          = {v \in DOMAIN rows : rows[v].xmin # id[t] /\ Position(v) \in sp.deleted}
    BY <1>2, <2>2 DEF Appends
  <2>8. SavedWrites(t, n)' = SavedWrites(t, n)
    BY <1>1, <2>1, <2>6, <2>7 DEF SavedWrites
  <2> QED
    BY <2>5, <2>8
<1>4. DOMAIN sps'[t] # {} => Open(t)' /\ "savepoint" \in Does[t]
  BY <1>1 DEF SavepointsOK, Open
<1> QED
  BY <1>3, <1>4 DEF SavepointsOK

-----------------------------------------------------------------------------
(***************************************************************************)
(* The body of a statement.                                                *)
(***************************************************************************)
LEMMA StatementStamps ==
  ASSUME IsoInv, Apart, NEW s \in Sessions, Open(s), NEW k \in Writes[s], NEW key \in Writes[s],
         NEW T \in SUBSET Targets(k, id[s], snap[s]), NEW n \in Nat,
         Rewrite(T, n, key, id[s]), UNCHANGED <<mvccVars, sessionVars>>
  PROVE  /\ OwnStamps(s) /\ Appends /\ OwnRows(s)'
         /\ \A v \in DOMAIN rows :
              /\ rows'[v].key = rows[v].key /\ rows'[v].xmin = rows[v].xmin
              /\ rows'[v].xmax = IF v \in T THEN id[s] ELSE rows[v].xmax
         /\ \A v \in DOMAIN rows' \ DOMAIN rows : rows'[v].xmin = id[s] /\ rows'[v].xmax = 0
<1> DEFINE new == nextVid .. (nextVid + n - 1)
<1>1. /\ committed' = committed /\ id' = id /\ pc' = pc /\ snap' = snap
  BY DEF mvccVars, sessionVars
<1>2. pc[s] # "idle" /\ pc[s] = "open" /\ id[s] # 0 /\ id[s] \notin committed /\ nextVid \in Nat
      /\ \A t \in Sessions \ {s} : pc[t] # "idle" => id[t] # id[s] /\ id[t] # 0
  BY Facts DEF Open
<1>3. DOMAIN rows' = DOMAIN rows \cup new
  BY DEF Rewrite
<1>4. \A x \in new : x \in Nat /\ x \notin DOMAIN rows /\ \A v \in DOMAIN rows : v < x
  <2> TAKE x \in new
  <2>1. x \in Nat /\ x >= nextVid
    BY <1>2
  <2>2. \A v \in DOMAIN rows : v \in Nat /\ v < nextVid
    BY Facts
  <2>3. \A v \in DOMAIN rows : v < x
    BY <1>2, <2>1, <2>2
  <2>4. ~ (x < x)
    BY <2>1
  <2> QED
    BY <2>1, <2>3, <2>4
<1>5. \A x \in DOMAIN rows' \ DOMAIN rows :
        rows'[x].key = key /\ rows'[x].xmin = id[s] /\ rows'[x].xmax = 0
  <2> TAKE x \in DOMAIN rows' \ DOMAIN rows
  <2>1. x \in new
    BY <1>3
  <2>2. rows'[x] = [key |-> key, xmin |-> id[s], xmax |-> 0]
    BY <2>1 DEF Rewrite, StampInsert, NotDeleted
  <2> QED
    BY <2>2
<1>6. ASSUME NEW v \in DOMAIN rows
      PROVE  /\ v \in DOMAIN rows'
             /\ rows'[v].key = rows[v].key /\ rows'[v].xmin = rows[v].xmin
             /\ rows'[v].xmax = IF v \in T THEN id[s] ELSE rows[v].xmax
  <2>1. v \notin new /\ v \in DOMAIN rows'
    BY <1>3, <1>4
  <2>2. rows'[v] = IF v \in T THEN [rows[v] EXCEPT !.xmax = id[s]] ELSE rows[v]
    BY <2>1 DEF Rewrite, StampDelete
  <2>3. rows[v] \in Row
    BY Facts
  <2> QED
    BY <2>1, <2>2, <2>3 DEF Row
<1>7. \A v \in T : /\ v \in DOMAIN rows /\ rows[v].key \in Writes[s]
                   /\ rows[v].xmin = id[s] \/ rows[v].xmin \in snap[s].committed
                   /\ rows[v].xmax \notin committed /\ rows[v].xmax # id[s]
                   /\ \A t \in Sessions : pc[t] # "idle" => rows[v].xmax # id[t]
  BY TargetsAreOwn
<1>8. OwnStamps(s)
  BY <1>2, <1>5, <1>6, <1>7 DEF OwnStamps, NotDeleted
<1>9. Appends
  <2>1. DOMAIN rows' \subseteq Nat
    BY <1>3, <1>4, Facts
  <2>2. IsFiniteSet(new)
    BY <1>2, FS_Interval
  <2>3. IsFiniteSet(DOMAIN rows')
    BY <1>3, <2>2, Facts, FS_Union
  <2> QED
    BY <1>3, <1>4, <2>1, <2>3 DEF Appends
<1>10. OwnRows(s)'
  <2>1. OwnRows(s)
    BY DEF IsoInv
  <2> SUFFICES ASSUME NEW v \in DOMAIN rows'
               PROVE  /\ rows'[v].xmin = id[s] \/ rows'[v].xmax = id[s] => rows'[v].key \in Writes[s]
                      /\ rows'[v].xmax = id[s] /\ rows'[v].xmin # id[s] => rows'[v].xmin \in snap[s].committed
                      /\ rows'[v].xmax \in committed \ snap[s].committed => rows'[v].key \notin Writes[s]
    BY <1>1, <1>2 DEF OwnRows, Open
  <2>2. CASE v \notin DOMAIN rows
    BY <1>2, <1>5, <2>2, Facts
  <2>3. CASE v \in T
    BY <1>2, <1>6, <1>7, <2>3
  <2>4. CASE v \in DOMAIN rows \ T
    BY <1>6, <2>1, <2>4 DEF OwnRows, Open
  <2> QED
    BY <1>7, <2>2, <2>3, <2>4
<1> QED
  BY <1>5, <1>6, <1>8, <1>9, <1>10

\* What INSERT, UPDATE and DELETE of a transaction have in common.
Writing(s) ==
  \E k, key \in Writes[s], n \in Nat : \E T \in SUBSET Targets(k, id[s], snap[s]) :
    Rewrite(T, n, key, id[s]) /\ UNCHANGED <<mvccVars, sessionVars>>

LEMMA StatementsWrite ==
  ASSUME IsoInv, NEW s \in Sessions, NEW k \in Writes[s], NEW new \in Writes[s],
         Insert(s, k) \/ Update(s, k, new) \/ Delete(s, k)
  PROVE  Open(s) /\ Writing(s)
<1> DEFINE T == Targets(k, id[s], snap[s])
<1>1. CASE Insert(s, k)
  <2>1. {} \in SUBSET T /\ 1 \in Nat
    OBVIOUS
  <2> QED
    BY <1>1, <2>1 DEF Insert, InsertRow, Writing
<1>2. CASE Update(s, k, new)
  <2>1. T \in SUBSET T /\ Cardinality(T) \in Nat
    BY TargetsAreRows, Facts, RowsFinite DEF TypeOK
  <2> QED
    BY <1>2, <2>1 DEF Update, UpdateRows, Writing
<1>3. CASE Delete(s, k)
  <2>1. T \in SUBSET T /\ 0 \in Nat
    OBVIOUS
  <2> QED
    BY <1>3, <2>1 DEF Delete, DeleteRows, Writing
<1> QED
  BY <1>1, <1>2, <1>3

LEMMA WritingKeeps ==
  ASSUME IsoInv, IInv', Apart, NEW s \in Sessions, Open(s), Writing(s)
  PROVE  IsoInv'
<1>0. PICK k \in Writes[s], key \in Writes[s], n \in Nat : \E T \in SUBSET Targets(k, id[s], snap[s]) :
        Rewrite(T, n, key, id[s]) /\ UNCHANGED <<mvccVars, sessionVars>>
  BY DEF Writing
<1>1. PICK T \in SUBSET Targets(k, id[s], snap[s]) :
        Rewrite(T, n, key, id[s]) /\ UNCHANGED <<mvccVars, sessionVars>>
  BY <1>0
<1>2. /\ OwnStamps(s) /\ Appends /\ OwnRows(s)'
      /\ \A v \in DOMAIN rows : /\ rows'[v].xmin = rows[v].xmin
                                /\ rows'[v].xmax = IF v \in T THEN id[s] ELSE rows[v].xmax
      /\ \A v \in DOMAIN rows' \ DOMAIN rows : rows'[v].xmin = id[s]
  BY <1>0, <1>1, StatementStamps
<1>3. committed' = committed /\ pc' = pc /\ sps' = sps /\ snap' = snap /\ id' = id
  BY <1>1 DEF mvccVars, sessionVars
<1>4. \A t \in Sessions : Same(t)
  BY <1>3 DEF Same
<1>5. pc[s] # "idle" /\ id[s] # 0
  BY Facts DEF Open
<1>6. ASSUME NEW t \in Sessions
      PROVE  pc'[t] \in {"idle", "begun", "open"} /\ SnapOK(t)' /\ OwnRows(t)' /\ SavepointsOK(t)'
  <2>1. pc[t] \in {"idle", "begun", "open"} /\ SnapOK(t)
    BY DEF IsoInv
  <2>2. OwnRows(t)'
    BY <1>2, <1>3, <1>4, <1>5, OwnRowsStay
  <2>3. ASSUME DOMAIN sps[t] = {} PROVE SavepointsOK(t)'
    BY <1>3, <2>3 DEF SavepointsOK
  <2>4. ASSUME DOMAIN sps[t] # {} PROVE SavepointsOK(t)'
    <3>1. \A v \in T : v \in DOMAIN rows /\ \A u \in Sessions : pc[u] # "idle" => rows[v].xmax # id[u]
      BY <1>0, <1>1, TargetsAreOwn
    <3>2. pc[t] # "idle"
      BY <2>4 DEF IsoInv, SavepointsOK, Open
    <3>3. \A v \in DOMAIN rows : rows[v].xmax = id[t] => rows'[v].xmax = id[t]
      BY <1>2, <3>1, <3>2
    <3> QED
      BY <1>2, <1>3, <1>4, <3>3, SavepointsStay
  <2>5. SnapOK(t)' /\ pc'[t] = pc[t]
    BY <1>3, <2>1 DEF SnapOK
  <2> QED
    BY <2>1, <2>2, <2>3, <2>4, <2>5
<1>7. \A v \in DOMAIN rows' : rows'[v].xmin # AutoCommit
  BY <1>2, <1>5 DEF IsoInv, AutoCommit
<1> QED
  BY <1>6, <1>7 DEF IsoInv

-----------------------------------------------------------------------------
(***************************************************************************)
(* ROLLBACK TO.                                                            *)
(***************************************************************************)
LEMMA OthersHaveNoSavepoints ==
  ASSUME IsoInv, Apart, NEW s \in Sessions, "rollback" \in Does[s] \/ DOMAIN sps[s] # {},
         NEW t \in Sessions, t # s
  PROVE  DOMAIN sps[t] = {}
<1>1. DOMAIN sps[s] # {} => "savepoint" \in Does[s]
  BY DEF IsoInv, SavepointsOK
<1>2. DOMAIN sps[t] # {} => "savepoint" \in Does[t]
  BY DEF IsoInv, SavepointsOK
<1> QED
  BY <1>1, <1>2 DEF Apart

LEMMA RollbackToRows ==
  ASSUME IsoInv, NEW s \in Sessions, NEW n \in SpNames, RollbackTo(s, n)
  PROVE  /\ DOMAIN rows' = DOMAIN rows \ Undone(s, sps[s][n])
         /\ \A v \in DOMAIN rows' :
              /\ rows'[v].key = rows[v].key /\ rows'[v].xmin = rows[v].xmin
              /\ rows'[v].xmax = IF v \in Restored(s, sps[s][n]) THEN 0 ELSE rows[v].xmax
<1> DEFINE U == Undone(s, sps[s][n])
           R == Restored(s, sps[s][n])
<1>1. rows' = [v \in DOMAIN rows \ U |-> IF v \in R THEN StampDelete(rows[v], NotDeleted) ELSE rows[v]]
  BY DEF RollbackTo
<1> HIDE DEF U, R
<1>2. DOMAIN rows' = DOMAIN rows \ U
  BY <1>1
<1>3. ASSUME NEW v \in DOMAIN rows'
      PROVE  /\ rows'[v].key = rows[v].key /\ rows'[v].xmin = rows[v].xmin
             /\ rows'[v].xmax = IF v \in R THEN 0 ELSE rows[v].xmax
  <2>1. rows'[v] = IF v \in R THEN [rows[v] EXCEPT !.xmax = 0] ELSE rows[v]
    BY <1>1, <1>2 DEF StampDelete, NotDeleted
  <2>2. rows[v] \in Row
    BY <1>2, Facts
  <2> QED
    BY <2>1, <2>2 DEF Row
<1> QED
  BY <1>2, <1>3 DEF U, R

\* What a savepoint knows of the table.
LEMMA SavepointFacts ==
  ASSUME IsoInv, NEW s \in Sessions, NEW n \in DOMAIN sps[s]
  PROVE  /\ sps[s][n].count \in Nat /\ sps[s][n].deleted \subseteq Nat
         /\ sps[s][n].count <= Cardinality(DOMAIN rows)
         /\ \A i \in sps[s][n].deleted : i < sps[s][n].count
         /\ \A v \in DOMAIN rows : Position(v) \in sps[s][n].deleted => rows[v].xmax = id[s]
<1>1. sps[s][n] \in Savepoints
  BY Facts DEF TypeOK, SessionType
<1>2. SavepointOK(s, n)
  BY DEF IsoInv, SavepointsOK
<1> QED
  BY <1>1, <1>2 DEF SavepointOK, Savepoints

LEMMA RollbackToPlaces ==
  ASSUME IsoInv, NEW s \in Sessions, NEW n \in SpNames, RollbackTo(s, n)
  PROVE  /\ sps[s][n].count <= Cardinality(DOMAIN rows')
         /\ \A v \in DOMAIN rows : Position(v) < sps[s][n].count => v \in DOMAIN rows'
         /\ \A v \in DOMAIN rows' :
              /\ v \in DOMAIN rows /\ Position(v) \in Nat /\ Position(v)' \in Nat
              /\ IF Position(v) < sps[s][n].count THEN Position(v)' = Position(v)
                 ELSE Position(v)' >= sps[s][n].count
<1> DEFINE D == DOMAIN rows
           E == DOMAIN rows'
           c == sps[s][n].count
<1>1. n \in DOMAIN sps[s]
  BY DEF RollbackTo
<1>2. c \in Nat /\ c <= Cardinality(D)
  BY <1>1, SavepointFacts
<1>3. D \in SUBSET Nat /\ IsFiniteSet(D)
  BY Facts
<1>4. E = D \ Undone(s, sps[s][n])
  BY RollbackToRows
<1>5. \A v \in D : Rank(D, v) < c => v \in E
  <2> TAKE v \in D
  <2> HAVE Rank(D, v) < c
  <2>1. Rank(D, v) \in Nat
    BY <1>3, RankType
  <2>2. ~ (Position(v) >= c)
    BY <1>2, <2>1, RankIsPosition
  <2> QED
    BY <1>4, <2>2 DEF Undone
<1>6. E \in SUBSET D
  BY <1>4
<1>7. /\ IsFiniteSet(E) /\ c <= Cardinality(E)
      /\ \A v \in E : IF Rank(D, v) < c THEN Rank(E, v) = Rank(D, v) ELSE Rank(E, v) >= c
  <2> HIDE DEF D, E, c
  <2> QED
    BY <1>2, <1>3, <1>5, <1>6, RanksBelowStay
<1>8. \A v \in E : v \in D /\ Rank(D, v) \in Nat /\ Rank(E, v) \in Nat
  <2> TAKE v \in E
  <2>1. v \in D /\ E \in SUBSET Nat
    BY <1>3, <1>6
  <2> QED
    BY <1>3, <1>7, <2>1, RankType
<1> QED
  BY <1>5, <1>7, <1>8, RankIsPosition

LEMMA RollbackToSavepoints ==
  ASSUME IsoInv, NEW s \in Sessions, NEW n \in SpNames, RollbackTo(s, n)
  PROVE  SavepointsOK(s)' /\ \A k \in DOMAIN sps'[s] : SavedWrites(s, k)' = SavedWrites(s, k)
<1> DEFINE c == sps[s][n].count
<1>1. /\ n \in DOMAIN sps[s] /\ Open(s) /\ DOMAIN sps = Sessions
      /\ sps' = [sps EXCEPT ![s] = UpTo(sps[s], n)] /\ pc' = pc /\ id' = id
  BY Facts DEF RollbackTo, TypeOK, SessionType
<1>2. \A k \in DOMAIN sps'[s] : k \in DOMAIN sps[s] /\ n \notin sps[s][k].older /\ sps'[s][k] = sps[s][k]
  BY <1>1 DEF UpTo
<1>3. /\ c \in Nat /\ c <= Cardinality(DOMAIN rows')
      /\ \A v \in DOMAIN rows : Position(v) < c => v \in DOMAIN rows'
      /\ \A v \in DOMAIN rows' :
           /\ v \in DOMAIN rows /\ Position(v) \in Nat /\ Position(v)' \in Nat
           /\ IF Position(v) < c THEN Position(v)' = Position(v) ELSE Position(v)' >= c
  BY <1>1, RollbackToPlaces, SavepointFacts
<1>4. \A v \in DOMAIN rows' :
        /\ rows'[v].xmin = rows[v].xmin
        /\ rows'[v].xmax = IF v \in Restored(s, sps[s][n]) THEN 0 ELSE rows[v].xmax
  BY RollbackToRows
<1>5. ASSUME NEW k \in DOMAIN sps'[s]
      PROVE  SavepointOK(s, k)' /\ SavedWrites(s, k)' = SavedWrites(s, k)
  <2> DEFINE sp == sps[s][k]
  <2>1. /\ k \in DOMAIN sps[s] /\ sps'[s][k] = sp
        /\ sp.count \in Nat /\ sp.deleted \subseteq Nat
        /\ \A i \in sp.deleted : i < sp.count
        /\ \A v \in DOMAIN rows : Position(v) \in sp.deleted => rows[v].xmax = id[s]
    BY <1>2, SavepointFacts
  <2>2. sp.count <= c /\ sp.deleted \subseteq sps[s][n].deleted
    <3>1. CASE k = n
      BY <1>3, <3>1
    <3>2. CASE k # n
      <4>1. SavepointOK(s, n)
        BY <1>1 DEF IsoInv, SavepointsOK
      <4>2. k \in sps[s][n].older
        BY <1>2, <3>2, <4>1 DEF SavepointOK
      <4> QED
        BY <2>1, <3>2, <4>1, <4>2 DEF SavepointOK
    <3> QED
      BY <3>1, <3>2
  <2>3. \A v \in DOMAIN rows' :
          /\ Position(v)' < sp.count <=> Position(v) < sp.count
          /\ Position(v)' \in sp.deleted <=> Position(v) \in sp.deleted
    <3> TAKE v \in DOMAIN rows'
    <3>1. CASE Position(v) < c
      BY <1>3, <3>1
    <3>2. CASE ~ (Position(v) < c)
      <4>1. ~ (Position(v) < sp.count) /\ ~ (Position(v)' < sp.count)
        BY <1>3, <2>1, <2>2, <3>2
      <4> QED
        BY <2>1, <4>1
    <3> QED
      BY <3>1, <3>2
  <2>4. \A v \in DOMAIN rows' : Position(v)' \in sp.deleted => rows'[v].xmax = id[s]
    <3> TAKE v \in DOMAIN rows'
    <3> HAVE Position(v)' \in sp.deleted
    <3>1. Position(v) \in sp.deleted /\ v \in DOMAIN rows
      BY <1>3, <2>3
    <3>2. rows[v].xmax = id[s] /\ Position(v) \in sps[s][n].deleted
      BY <2>1, <2>2, <3>1
    <3> QED
      BY <1>4, <3>2 DEF Restored
  <2>5. sp.count <= Cardinality(DOMAIN rows')
    <3>1. Cardinality(DOMAIN rows') \in Nat
      <4>1. DOMAIN rows' \subseteq DOMAIN rows
        BY <1>3
      <4> QED
        BY <4>1, Facts, FS_Subset, FS_CardinalityType
    <3> QED
      BY <1>3, <2>1, <2>2, <3>1
  <2>6. SavepointOK(s, k)
    BY <2>1 DEF IsoInv, SavepointsOK
  <2>12. sp.older \subseteq DOMAIN sps'[s]
    <3> SUFFICES ASSUME NEW m \in sp.older, m \in DOMAIN sps[s], n \in sps[s][m].older PROVE FALSE
      <4>1. sp.older \subseteq DOMAIN sps[s]
        BY <2>6 DEF SavepointOK
      <4> QED
        BY <1>1, <4>1 DEF UpTo
    <3> QED
      BY <1>2, <2>1, <2>6 DEF SavepointOK
  <2>7. SavepointOK(s, k)'
    BY <1>1, <1>2, <2>1, <2>4, <2>5, <2>6, <2>12 DEF SavepointOK
  <2>8. \A v \in DOMAIN rows \ DOMAIN rows' : ~ (Position(v) < sp.count) /\ Position(v) \notin sp.deleted
    <3> TAKE v \in DOMAIN rows \ DOMAIN rows'
    <3>1. ~ (Position(v) < c)
      BY <1>3
    <3>2. Position(v) \in Nat
      BY Facts, RankType, RankIsPosition
    <3>3. ~ (Position(v) < sp.count)
      BY <1>3, <2>1, <2>2, <3>1, <3>2
    <3> QED
      BY <2>1, <3>3
  <2>9. {v \in DOMAIN rows' : /\ rows'[v].xmin = id[s]
                              /\ Position(v)' < sp.count /\ Position(v)' \notin sp.deleted}
          = {v \in DOMAIN rows : /\ rows[v].xmin = id[s]
                                 /\ Position(v) < sp.count /\ Position(v) \notin sp.deleted}
    BY <1>3, <1>4, <2>3, <2>8
  <2>10. {v \in DOMAIN rows' : rows'[v].xmin # id[s] /\ Position(v)' \in sp.deleted}
           = {v \in DOMAIN rows : rows[v].xmin # id[s] /\ Position(v) \in sp.deleted}
    BY <1>3, <1>4, <2>3, <2>8
  <2>11. SavedWrites(s, k)' = SavedWrites(s, k)
    BY <1>1, <2>1, <2>9, <2>10 DEF SavedWrites
  <2> QED
    BY <2>7, <2>11
<1>6. DOMAIN sps'[s] # {} => Open(s)' /\ "savepoint" \in Does[s]
  BY <1>1 DEF IsoInv, SavepointsOK, Open
<1> QED
  BY <1>5, <1>6 DEF SavepointsOK

\* ROLLBACK TO leaves the transaction the writes of its savepoint.
LEMMA RollbackToWrites ==
  ASSUME IsoInv, NEW s \in Sessions, NEW n \in SpNames, RollbackTo(s, n)
  PROVE  OwnMade(s)' = SavedWrites(s, n).made /\ OwnGone(s)' = SavedWrites(s, n).gone
<1> DEFINE c == sps[s][n].count
           del == sps[s][n].deleted
<1>1. n \in DOMAIN sps[s] /\ id' = id /\ id[s] # 0
  BY Facts DEF RollbackTo, Open
<1>2. /\ c \in Nat /\ \A v \in DOMAIN rows : Position(v) \in del => rows[v].xmax = id[s] /\ Position(v) < c
  BY <1>1, SavepointFacts
<1>3. \A v \in DOMAIN rows : v \in DOMAIN rows' <=> rows[v].xmin # id[s] \/ Position(v) < c
  <2> TAKE v \in DOMAIN rows
  <2>1. Position(v) \in Nat
    BY Facts, RankType, RankIsPosition
  <2>2. Position(v) >= c <=> ~ (Position(v) < c)
    BY <1>2, <2>1
  <2> QED
    BY <2>2, RollbackToRows DEF Undone
<1>4. \A v \in DOMAIN rows' :
        /\ v \in DOMAIN rows /\ rows'[v].xmin = rows[v].xmin
        /\ rows'[v].xmax = id[s] <=> Position(v) \in del
  <2> TAKE v \in DOMAIN rows'
  <2>1. /\ v \in DOMAIN rows /\ rows'[v].xmin = rows[v].xmin
        /\ rows'[v].xmax = IF v \in Restored(s, sps[s][n]) THEN 0 ELSE rows[v].xmax
    BY RollbackToRows
  <2> QED
    BY <1>1, <1>2, <2>1 DEF Restored
<1>5. OwnMade(s)' = {v \in DOMAIN rows' : rows'[v].xmin = id[s] /\ rows'[v].xmax # id[s]}
      /\ OwnGone(s)' = {v \in DOMAIN rows' : rows'[v].xmin # id[s] /\ rows'[v].xmax = id[s]}
  BY <1>1 DEF OwnMade, OwnGone
<1>6. SavedWrites(s, n).made = {v \in DOMAIN rows : /\ rows[v].xmin = id[s]
                                                    /\ Position(v) < c /\ Position(v) \notin del}
      /\ SavedWrites(s, n).gone = {v \in DOMAIN rows : rows[v].xmin # id[s] /\ Position(v) \in del}
  BY DEF SavedWrites
<1> QED
  BY <1>2, <1>3, <1>4, <1>5, <1>6

LEMMA RollbackToStamps ==
  ASSUME IsoInv, NEW s \in Sessions, NEW n \in SpNames, RollbackTo(s, n)
  PROVE  OwnStamps(s) /\ OwnRows(s)'
<1>1. /\ DOMAIN rows' \subseteq DOMAIN rows
      /\ \A v \in DOMAIN rows \ DOMAIN rows' : rows[v].xmin = id[s]
      /\ \A v \in DOMAIN rows' :
           /\ rows'[v].key = rows[v].key /\ rows'[v].xmin = rows[v].xmin
           /\ rows'[v].xmax # rows[v].xmax => rows[v].xmax = id[s] /\ rows'[v].xmax = 0
  BY RollbackToRows DEF Undone, Restored
<1>2. id[s] # 0 /\ id[s] \notin committed /\ 0 \notin committed /\ pc' = pc /\ id' = id
      /\ snap' = snap /\ committed' = committed /\ Open(s) /\ pc[s] = "open"
      /\ \A t \in Sessions \ {s} : pc[t] # "idle" => id[t] # id[s] /\ id[t] # 0
  BY Facts DEF RollbackTo, Open, mvccVars
<1>3. OwnStamps(s)
  BY <1>1, <1>2 DEF OwnStamps
<1>4. OwnRows(s)
  BY DEF IsoInv
<1>5. OwnRows(s)'
  BY <1>1, <1>2, <1>4 DEF OwnRows, Open
<1> QED
  BY <1>3, <1>5

LEMMA RollbackToKeeps ==
  ASSUME IsoInv, IInv', Apart, NEW s \in Sessions, NEW n \in SpNames, RollbackTo(s, n)
  PROVE  IsoInv'
<1>1. /\ n \in DOMAIN sps[s] /\ Open(s) /\ DOMAIN sps = Sessions /\ pc[s] # "idle"
      /\ sps' = [sps EXCEPT ![s] = UpTo(sps[s], n)]
      /\ pc' = pc /\ id' = id /\ snap' = snap /\ committed' = committed
  BY Facts DEF RollbackTo, TypeOK, SessionType, Open, mvccVars
<1>2. OwnStamps(s) /\ OwnRows(s)' /\ SavepointsOK(s)'
  BY RollbackToStamps, RollbackToSavepoints
<1>3. ASSUME NEW t \in Sessions
      PROVE  pc'[t] \in {"idle", "begun", "open"} /\ SnapOK(t)' /\ OwnRows(t)' /\ SavepointsOK(t)'
  <2>1. pc'[t] \in {"idle", "begun", "open"} /\ SnapOK(t)'
    BY <1>1 DEF IsoInv, SnapOK
  <2>2. ASSUME t # s PROVE OwnRows(t)'
    BY <1>1, <1>2, <2>2, OwnRowsStay DEF Same
  <2>3. ASSUME t # s PROVE SavepointsOK(t)'
    <3>1. DOMAIN sps[t] = {}
      BY <1>1, <2>3, OthersHaveNoSavepoints
    <3> QED
      BY <1>1, <2>3, <3>1 DEF SavepointsOK
  <2> QED
    BY <1>2, <2>1, <2>2, <2>3
<1>4. \A v \in DOMAIN rows' : rows'[v].xmin # AutoCommit
  BY RollbackToRows DEF IsoInv
<1> QED
  BY <1>3, <1>4 DEF IsoInv

-----------------------------------------------------------------------------
(***************************************************************************)
(* BEGIN, COMMIT, ROLLBACK, SAVEPOINT, RELEASE.                            *)
(***************************************************************************)

\* A session that does nothing while no row changes.
LEMMA QuietKeeps ==
  ASSUME IsoInv, rows' = rows, NEW t \in Sessions, Same(t), sps'[t] = sps[t]
  PROVE  /\ pc'[t] \in {"idle", "begun", "open"} /\ SnapOK(t)' /\ SavepointsOK(t)'
         /\ committed' = committed => OwnRows(t)'
<1>1. pc[t] \in {"idle", "begun", "open"} /\ SnapOK(t) /\ SavepointsOK(t) /\ OwnRows(t)
  BY DEF IsoInv
<1>2. pc'[t] = pc[t] /\ id'[t] = id[t] /\ snap'[t] = snap[t]
  BY DEF Same
<1>3. SavepointsOK(t)'
  BY <1>1, <1>2 DEF SavepointsOK, SavepointOK, Open, Position
<1>4. committed' = committed => OwnRows(t)'
  BY <1>1, <1>2 DEF OwnRows, Open
<1>5. SnapOK(t)'
  BY <1>1, <1>2 DEF SnapOK
<1> QED
  BY <1>1, <1>2, <1>3, <1>4, <1>5

LEMMA ResetKeeps ==
  ASSUME IsoInv, NEW s \in Sessions, Reset(s)
  PROVE  /\ pc'[s] = "idle" /\ SnapOK(s)' /\ OwnRows(s)' /\ SavepointsOK(s)' /\ DOMAIN sps'[s] = {}
         /\ \A t \in Sessions \ {s} : Same(t) /\ sps'[t] = sps[t]
<1>1. DOMAIN pc = Sessions /\ DOMAIN id = Sessions /\ DOMAIN snap = Sessions /\ DOMAIN sps = Sessions
  BY Facts DEF TypeOK, SessionType
<1>2. pc'[s] = "idle" /\ snap'[s] = NoSnapshot /\ sps'[s] = NoSavepoints
  BY <1>1 DEF Reset
<1>3. \A t \in Sessions \ {s} : Same(t) /\ sps'[t] = sps[t]
  BY <1>1 DEF Reset, Same
<1>4. SnapOK(s)' /\ OwnRows(s)'
  BY <1>2 DEF SnapOK, OwnRows, Open, NoSnapshot
<1>5. DOMAIN sps'[s] = {}
  BY <1>2 DEF NoSavepoints
<1>6. SavepointsOK(s)'
  BY <1>5 DEF SavepointsOK
<1> QED
  BY <1>2, <1>3, <1>4, <1>5, <1>6

LEMMA BeginAllocateKeeps ==
  ASSUME IsoInv, IInv', NEW s \in Sessions, BeginAllocate(s)
  PROVE  IsoInv'
<1>1. /\ pc[s] = "idle" /\ pc'[s] = "begun" /\ id'[s] = nextId /\ snap' = snap /\ sps' = sps
      /\ rows' = rows /\ committed' = committed /\ \A t \in Sessions \ {s} : Same(t)
  BY Facts DEF BeginAllocate, AllocateTxnId, tableVars, TypeOK, SessionType, Same
<1>2. SnapOK(s)'
  BY <1>1 DEF IsoInv, SnapOK
<1>3. OwnRows(s)'
  <2>1. \A v \in DOMAIN rows : rows[v].xmin # nextId /\ rows[v].xmax # nextId
    <3> TAKE v \in DOMAIN rows
    <3>1. /\ rows[v].xmin \in Nat /\ rows[v].xmax \in Nat /\ nextId \in Nat
          /\ rows[v].xmin < nextId /\ rows[v].xmax < nextId
      BY Facts
    <3> QED
      BY <3>1
  <2> QED
    BY <1>1, <2>1 DEF OwnRows, Open
<1>4. SavepointsOK(s)'
  <2>1. DOMAIN sps[s] = {}
    BY <1>1 DEF IsoInv, SavepointsOK, Open
  <2> QED
    BY <1>1, <2>1 DEF SavepointsOK
<1>5. \A t \in Sessions \ {s} :
        pc'[t] \in {"idle", "begun", "open"} /\ SnapOK(t)' /\ SavepointsOK(t)' /\ OwnRows(t)'
  BY <1>1, QuietKeeps
<1> QED
  BY <1>1, <1>2, <1>3, <1>4, <1>5 DEF IsoInv

LEMMA BeginSnapshotKeeps ==
  ASSUME IsoInv, IInv', NEW s \in Sessions, BeginSnapshot(s)
  PROVE  IsoInv'
<1>1. /\ pc[s] = "begun" /\ pc'[s] = "open" /\ id' = id /\ snap'[s] = CurrentSnapshot /\ sps' = sps
      /\ rows' = rows /\ committed' = committed /\ \A t \in Sessions \ {s} : Same(t)
  BY Facts DEF BeginSnapshot, mvccVars, tableVars, TypeOK, SessionType, Same
<1>2. SnapOK(s)'
  <2>1. \A c \in committed : c <= nextId - 1
    BY Facts DEF TypeOK, MvccType
  <2> QED
    BY <1>1, <2>1, Facts DEF SnapOK, CurrentSnapshot
<1>3. OwnRows(s)'
  <2>1. \A v \in DOMAIN rows : rows[v].xmin # id[s] /\ rows[v].xmax # id[s]
    BY <1>1 DEF IsoInv, OwnRows
  <2> QED
    BY <1>1, <2>1 DEF OwnRows, Open, CurrentSnapshot
<1>4. SavepointsOK(s)'
  <2>1. DOMAIN sps[s] = {}
    BY <1>1 DEF IsoInv, SavepointsOK, Open
  <2> QED
    BY <1>1, <2>1 DEF SavepointsOK
<1>5. \A t \in Sessions \ {s} :
        pc'[t] \in {"idle", "begun", "open"} /\ SnapOK(t)' /\ SavepointsOK(t)' /\ OwnRows(t)'
  BY <1>1, QuietKeeps
<1> QED
  BY <1>1, <1>2, <1>3, <1>4, <1>5 DEF IsoInv

LEMMA CommitKeeps ==
  ASSUME IsoInv, IInv', Apart, NEW s \in Sessions, Commit(s)
  PROVE  IsoInv'
<1>1. Open(s) /\ rows' = rows /\ committed' = committed \cup {id[s]}
  BY DEF Commit, MarkCommitted, tableVars
<1>2. /\ pc'[s] = "idle" /\ SnapOK(s)' /\ OwnRows(s)' /\ SavepointsOK(s)'
      /\ \A t \in Sessions \ {s} : Same(t) /\ sps'[t] = sps[t]
  BY ResetKeeps DEF Commit
<1>3. ASSUME NEW t \in Sessions, t # s
      PROVE  pc'[t] \in {"idle", "begun", "open"} /\ SnapOK(t)' /\ SavepointsOK(t)' /\ OwnRows(t)'
  <2>1. OwnRows(t) /\ OwnRows(s) /\ pc'[t] = pc[t] /\ id'[t] = id[t] /\ snap'[t] = snap[t]
    BY <1>2, <1>3 DEF IsoInv, Same
  <2>2. \A v \in DOMAIN rows : rows[v].xmax = id[s] => rows[v].key \notin Writes[t]
    BY <1>1, <1>3, <2>1 DEF OwnRows, Apart
  <2>3. OwnRows(t)'
    BY <1>1, <2>1, <2>2 DEF OwnRows, Open
  <2> QED
    BY <1>1, <1>2, <1>3, <2>3, QuietKeeps
<1> QED
  BY <1>1, <1>2, <1>3 DEF IsoInv

\* What ROLLBACK does to the rows.
LEMMA RollbackToNothing ==
  ASSUME IsoInv, NEW s \in Sessions, Rollback(s)
  PROVE  /\ OwnStamps(s)
         /\ DOMAIN rows' = {v \in DOMAIN rows : rows[v].xmin # id[s]}
         /\ \A v \in DOMAIN rows' : rows'[v].xmin = rows[v].xmin
<1> DEFINE D == {v \in DOMAIN rows : rows[v].xmin # id[s]}
<1>1. rows' = [v \in D |-> IF rows[v].xmax = id[s] THEN StampDelete(rows[v], NotDeleted) ELSE rows[v]]
  BY DEF Rollback, RollbackRows
<1>2. DOMAIN rows' = D
  BY <1>1
<1>3. ASSUME NEW v \in DOMAIN rows'
      PROVE  /\ rows'[v].key = rows[v].key /\ rows'[v].xmin = rows[v].xmin
             /\ rows'[v].xmax = IF rows[v].xmax = id[s] THEN 0 ELSE rows[v].xmax
  <2>1. rows'[v] = IF rows[v].xmax = id[s] THEN [rows[v] EXCEPT !.xmax = 0] ELSE rows[v]
    BY <1>1, <1>2 DEF StampDelete, NotDeleted
  <2>2. rows[v] \in Row
    BY <1>2, Facts
  <2> QED
    BY <2>1, <2>2 DEF Row
<1>4. /\ id[s] \notin committed /\ 0 \notin committed
      /\ \A t \in Sessions \ {s} : pc[t] # "idle" => id[t] # id[s] /\ id[t] # 0
  BY Facts DEF Rollback, Open
<1> QED
  BY <1>2, <1>3, <1>4 DEF OwnStamps

LEMMA RollbackKeeps ==
  ASSUME IsoInv, IInv', Apart, NEW s \in Sessions, Rollback(s)
  PROVE  IsoInv'
<1>1. Open(s) /\ pc[s] # "idle" /\ "rollback" \in Does[s] /\ committed' = committed
  BY DEF Rollback, MarkAborted, Open
<1>2. /\ pc'[s] = "idle" /\ SnapOK(s)' /\ OwnRows(s)' /\ SavepointsOK(s)'
      /\ \A t \in Sessions \ {s} : Same(t) /\ sps'[t] = sps[t]
  BY ResetKeeps DEF Rollback
<1>3. ASSUME NEW t \in Sessions, t # s
      PROVE  pc'[t] \in {"idle", "begun", "open"} /\ SnapOK(t)' /\ SavepointsOK(t)' /\ OwnRows(t)'
  <2>1. pc[t] \in {"idle", "begun", "open"} /\ SnapOK(t) /\ Same(t) /\ sps'[t] = sps[t]
    BY <1>2, <1>3 DEF IsoInv
  <2>2. OwnRows(t)'
    BY <1>1, <1>3, <2>1, RollbackToNothing, OwnRowsStay
  <2>3. DOMAIN sps[t] = {}
    BY <1>1, <1>3, OthersHaveNoSavepoints
  <2>4. SavepointsOK(t)'
    BY <2>1, <2>3 DEF SavepointsOK
  <2>5. pc'[t] = pc[t] /\ SnapOK(t)'
    BY <2>1 DEF Same, SnapOK
  <2> QED
    BY <2>1, <2>2, <2>4, <2>5
<1>4. \A v \in DOMAIN rows' : rows'[v].xmin # AutoCommit
  BY RollbackToNothing DEF IsoInv
<1> QED
  BY <1>2, <1>3, <1>4 DEF IsoInv

LEMMA SavepointIs ==
  ASSUME IsoInv, Apart, NEW s \in Sessions, NEW n \in SpNames, Savepoint(s, n)
  PROVE  /\ Open(s) /\ "savepoint" \in Does[s] /\ n \notin DOMAIN sps[s]
         /\ rows' = rows /\ committed' = committed /\ pc' = pc /\ id' = id /\ snap' = snap
         /\ \A t \in Sessions : Same(t)
         /\ \A t \in Sessions \ {s} : sps'[t] = sps[t]
         /\ DOMAIN sps'[s] = DOMAIN sps[s] \cup {n}
         /\ sps'[s][n] = SavepointNow(s, DOMAIN sps[s])
         /\ \A k \in DOMAIN sps[s] : sps'[s][k] = sps[s][k]
<1>1. "resave" \notin Does[s] /\ DOMAIN sps = Sessions
  BY Facts DEF Apart, TypeOK, SessionType
<1>2. /\ n \notin DOMAIN sps[s] /\ "savepoint" \in Does[s] /\ Open(s)
      /\ sps' = [sps EXCEPT ![s] = With(sps[s], n, SavepointNow(s, DOMAIN sps[s]))]
  BY <1>1 DEF Savepoint
<1> QED
  BY <1>1, <1>2 DEF Savepoint, With, Same, mvccVars, tableVars

\* The places a new savepoint records are those of what the transaction has deleted.
LEMMA SavepointPlaces ==
  ASSUME IsoInv, NEW s \in Sessions, NEW O
  PROVE  LET sp == SavepointNow(s, O) IN
         /\ sp.older = O /\ sp.count = Cardinality(DOMAIN rows) /\ sp.count \in Nat
         /\ \A i \in sp.deleted : i \in Nat /\ i < sp.count
         /\ \A v \in DOMAIN rows : /\ Position(v) \in Nat /\ Position(v) < sp.count
                                   /\ Position(v) \in sp.deleted <=> rows[v].xmax = id[s]
<1> DEFINE sp == SavepointNow(s, O)
           D == DOMAIN rows
<1>1. /\ sp.older = O /\ sp.count = Cardinality(D)
      /\ sp.deleted = {Position(v) : v \in {w \in D : rows[w].xmax = id[s]}}
  BY DEF SavepointNow
<1>2. D \in SUBSET Nat /\ IsFiniteSet(D)
  BY Facts
<1>3. \A v \in D : Position(v) \in Nat /\ Position(v) < Cardinality(D)
  BY <1>2, RankType, RankIsPosition
<1>4. \A v, w \in D : Position(v) = Position(w) => v = w
  BY <1>2, RankIsOneToOne, RankIsPosition
<1>5. \A v \in D : Position(v) \in sp.deleted <=> rows[v].xmax = id[s]
  BY <1>1, <1>4
<1>6. \A i \in sp.deleted : i \in Nat /\ i < sp.count
  BY <1>1, <1>3
<1>7. Cardinality(D) \in Nat
  BY <1>2, FS_CardinalityType
<1> QED
  BY <1>1, <1>3, <1>5, <1>6, <1>7

LEMMA SavepointKeeps ==
  ASSUME IsoInv, IInv', Apart, NEW s \in Sessions, NEW n \in SpNames, Savepoint(s, n)
  PROVE  IsoInv'
<1> DEFINE new == SavepointNow(s, DOMAIN sps[s])
<1>1. /\ Open(s) /\ "savepoint" \in Does[s] /\ n \notin DOMAIN sps[s]
      /\ rows' = rows /\ committed' = committed /\ pc' = pc /\ id' = id /\ snap' = snap
      /\ \A t \in Sessions : Same(t)
      /\ \A t \in Sessions \ {s} : sps'[t] = sps[t]
      /\ DOMAIN sps'[s] = DOMAIN sps[s] \cup {n} /\ sps'[s][n] = new
      /\ \A k \in DOMAIN sps[s] : sps'[s][k] = sps[s][k]
  BY SavepointIs
<1>2. /\ new.older = DOMAIN sps[s] /\ new.count = Cardinality(DOMAIN rows)
      /\ \A i \in new.deleted : i < new.count
      /\ \A v \in DOMAIN rows : Position(v) \in new.deleted <=> rows[v].xmax = id[s]
  BY SavepointPlaces
<1>3. \A t \in Sessions \ {s} :
        pc'[t] \in {"idle", "begun", "open"} /\ SnapOK(t)' /\ SavepointsOK(t)' /\ OwnRows(t)'
  BY <1>1, QuietKeeps
<1>4. pc'[s] \in {"idle", "begun", "open"} /\ SnapOK(s)' /\ OwnRows(s)'
  <2>1. pc[s] \in {"idle", "begun", "open"} /\ SnapOK(s) /\ OwnRows(s)
    BY DEF IsoInv
  <2> QED
    BY <1>1, <2>1 DEF SnapOK, OwnRows, Open
<1>5. ASSUME NEW k \in DOMAIN sps[s]
      PROVE  /\ SavepointOK(s, k)
             /\ sps[s][k].older \subseteq DOMAIN sps[s]
             /\ sps[s][k].count <= new.count /\ sps[s][k].deleted \subseteq new.deleted
  <2>1. SavepointOK(s, k) /\ sps[s][k].older \subseteq DOMAIN sps[s]
    BY DEF IsoInv, SavepointsOK, SavepointOK
  <2>2. /\ sps[s][k].count \in Nat /\ sps[s][k].deleted \subseteq Nat
        /\ sps[s][k].count <= Cardinality(DOMAIN rows)
        /\ \A i \in sps[s][k].deleted : i < sps[s][k].count
        /\ \A v \in DOMAIN rows : Position(v) \in sps[s][k].deleted => rows[v].xmax = id[s]
    BY SavepointFacts
  <2>3. ASSUME NEW i \in sps[s][k].deleted PROVE i \in new.deleted
    <3>1. DOMAIN rows \in SUBSET Nat /\ IsFiniteSet(DOMAIN rows) /\ Cardinality(DOMAIN rows) \in Nat
      BY Facts, FS_CardinalityType
    <3>2. i \in Nat /\ i < Cardinality(DOMAIN rows)
      BY <2>2, <3>1
    <3>3. PICK v \in DOMAIN rows : Position(v) = i
      BY <3>1, <3>2, RankIsOnto, RankIsPosition
    <3> QED
      BY <1>2, <2>2, <3>3
  <2> QED
    BY <1>2, <2>1, <2>2, <2>3
<1> HIDE DEF new
<1>6. \A v : Position(v)' = Position(v)
  BY <1>1 DEF Position
<1>7. SavepointOK(s, n)'
  <2>1. Cardinality(DOMAIN rows) \in Nat
    BY Facts, FS_CardinalityType
  <2> QED
    BY <1>1, <1>2, <1>5, <1>6, <2>1 DEF SavepointOK
<1>8. ASSUME NEW k \in DOMAIN sps[s] PROVE SavepointOK(s, k)'
  <2>1. n \notin sps[s][k].older /\ k \in new.older
    BY <1>1, <1>2, <1>5
  <2> QED
    BY <1>1, <1>5, <1>6, <2>1 DEF SavepointOK
<1>9. SavepointsOK(s)'
  BY <1>1, <1>7, <1>8 DEF SavepointsOK, Open
<1> QED
  BY <1>1, <1>3, <1>4, <1>9 DEF IsoInv

LEMMA ReleaseIs ==
  ASSUME IsoInv, NEW s \in Sessions, NEW n \in SpNames, ReleaseSavepoint(s, n)
  PROVE  /\ Open(s) /\ n \in DOMAIN sps[s]
         /\ rows' = rows /\ committed' = committed /\ pc' = pc /\ id' = id /\ snap' = snap
         /\ \A t \in Sessions : Same(t)
         /\ \A t \in Sessions \ {s} : sps'[t] = sps[t]
         /\ DOMAIN sps'[s] = DOMAIN sps[s] \ {n}
         /\ \A k \in DOMAIN sps'[s] : /\ sps'[s][k].older = sps[s][k].older \ {n}
                                      /\ sps'[s][k].count = sps[s][k].count
                                      /\ sps'[s][k].deleted = sps[s][k].deleted
<1>1. DOMAIN sps = Sessions /\ \A k \in DOMAIN sps[s] : sps[s][k] \in Savepoints
  BY Facts DEF TypeOK, SessionType
<1>2. sps'[s] = [m \in DOMAIN sps[s] \ {n} |-> [sps[s][m] EXCEPT !.older = @ \ {n}]]
      /\ \A t \in Sessions \ {s} : sps'[t] = sps[t]
  BY <1>1 DEF ReleaseSavepoint, Without
<1>3. DOMAIN sps'[s] = DOMAIN sps[s] \ {n}
  BY <1>2
<1>4. ASSUME NEW k \in DOMAIN sps'[s]
      PROVE  /\ sps'[s][k].older = sps[s][k].older \ {n}
             /\ sps'[s][k].count = sps[s][k].count
             /\ sps'[s][k].deleted = sps[s][k].deleted
  <2>1. sps'[s][k] = [sps[s][k] EXCEPT !.older = @ \ {n}] /\ sps[s][k] \in Savepoints
    BY <1>1, <1>2, <1>3
  <2> QED
    BY <2>1 DEF Savepoints
<1> QED
  BY <1>2, <1>3, <1>4 DEF ReleaseSavepoint, Same, mvccVars, tableVars

LEMMA ReleaseKeeps ==
  ASSUME IsoInv, IInv', NEW s \in Sessions, NEW n \in SpNames, ReleaseSavepoint(s, n)
  PROVE  IsoInv'
<1>1. /\ Open(s) /\ n \in DOMAIN sps[s]
      /\ rows' = rows /\ committed' = committed /\ pc' = pc /\ id' = id /\ snap' = snap
      /\ \A t \in Sessions : Same(t)
      /\ \A t \in Sessions \ {s} : sps'[t] = sps[t]
      /\ DOMAIN sps'[s] = DOMAIN sps[s] \ {n}
      /\ \A k \in DOMAIN sps'[s] : /\ sps'[s][k].older = sps[s][k].older \ {n}
                                   /\ sps'[s][k].count = sps[s][k].count
                                   /\ sps'[s][k].deleted = sps[s][k].deleted
  BY ReleaseIs
<1>2. \A t \in Sessions \ {s} :
        pc'[t] \in {"idle", "begun", "open"} /\ SnapOK(t)' /\ SavepointsOK(t)' /\ OwnRows(t)'
  BY <1>1, QuietKeeps
<1>3. pc'[s] \in {"idle", "begun", "open"} /\ SnapOK(s)' /\ OwnRows(s)'
  <2>1. pc[s] \in {"idle", "begun", "open"} /\ SnapOK(s) /\ OwnRows(s)
    BY DEF IsoInv
  <2> QED
    BY <1>1, <2>1 DEF SnapOK, OwnRows, Open
<1>4. \A v : Position(v)' = Position(v)
  BY <1>1 DEF Position
<1>5. ASSUME NEW k \in DOMAIN sps'[s] PROVE SavepointOK(s, k)'
  <2>1. SavepointOK(s, k) /\ k \in DOMAIN sps[s]
    BY <1>1 DEF IsoInv, SavepointsOK
  <2> QED
    BY <1>1, <1>4, <2>1 DEF SavepointOK
<1>6. SavepointsOK(s)'
  BY <1>1, <1>5 DEF IsoInv, SavepointsOK, Open
<1> QED
  BY <1>1, <1>2, <1>3, <1>6 DEF IsoInv

-----------------------------------------------------------------------------
(***************************************************************************)
(* The invariant.                                                          *)
(***************************************************************************)
LEMMA IsoInit == Apart /\ Init => IsoInv
<1> SUFFICES ASSUME Apart, Init PROVE IsoInv
  OBVIOUS
<1>1. IInv
  BY InitType, IdsInit, StampInit DEF IInv
<1>2. \A v \in DOMAIN rows : rows[v].xmin # AutoCommit
  BY DEF Apart, Init
<1>3. ASSUME NEW s \in Sessions
      PROVE  pc[s] \in {"idle", "begun", "open"} /\ SnapOK(s) /\ OwnRows(s) /\ SavepointsOK(s)
  BY DEF Init, SnapOK, OwnRows, SavepointsOK, Open, NoSnapshot, NoSavepoints
<1> QED
  BY <1>1, <1>2, <1>3 DEF IsoInv

\* What a step of sessions that keep apart can be.
LEMMA StepsApart ==
  ASSUME IsoInv, Apart, [Next]_vars
  PROVE  \/ UNCHANGED vars
         \/ \E s \in Sessions :
              \/ BeginAllocate(s) \/ BeginSnapshot(s) \/ Commit(s) \/ Rollback(s)
              \/ \E n \in SpNames : Savepoint(s, n) \/ RollbackTo(s, n) \/ ReleaseSavepoint(s, n)
              \/ Open(s) /\ Writing(s)
<1>1. ASSUME NEW s \in Sessions
      PROVE  /\ ~ Vacuum(s) /\ ~ Truncate(s) /\ ~ AutoMark(s) /\ ~ AutoSnapshot(s) /\ ~ AutoApply(s)
             /\ \A op, k, new : ~ AutoAllocate(s, op, k, new)
  <2>1. {"auto", "truncate", "vacuum"} \cap Does[s] = {} /\ pc[s] \in {"idle", "begun", "open"}
    BY DEF Apart, IsoInv
  <2> QED
    BY <2>1 DEF Vacuum, Truncate, AutoMark, AutoSnapshot, AutoApply, AutoAllocate
<1>2. CASE UNCHANGED vars
  BY <1>2
<1>3. CASE Next
  <2>1. PICK s \in Sessions :
          \/ BeginAllocate(s) \/ BeginSnapshot(s) \/ Commit(s) \/ Rollback(s)
          \/ \E n \in SpNames : Savepoint(s, n) \/ RollbackTo(s, n) \/ ReleaseSavepoint(s, n)
          \/ \E k \in Writes[s] : \E new \in Writes[s] : Insert(s, k) \/ Update(s, k, new) \/ Delete(s, k)
          \/ Select(s)
    BY <1>1, <1>3 DEF Next
  <2>2. CASE Select(s)
    BY <2>2 DEF Select
  <2>3. ASSUME \E k \in Writes[s] : \E new \in Writes[s] : Insert(s, k) \/ Update(s, k, new) \/ Delete(s, k)
        PROVE  Open(s) /\ Writing(s)
    BY <2>3, StatementsWrite
  <2> QED
    BY <2>1, <2>2, <2>3
<1> QED
  BY <1>2, <1>3

LEMMA IsoStep == Apart /\ IsoInv /\ [Next]_vars => IsoInv'
<1> SUFFICES ASSUME Apart, IsoInv, [Next]_vars PROVE IsoInv'
  OBVIOUS
<1>1. IInv'
  BY TypeStep, IdsStep, StampStep DEF IsoInv, IInv
<1>2. CASE UNCHANGED vars
  <2>1. rows' = rows /\ committed' = committed /\ sps' = sps /\ \A t \in Sessions : Same(t)
    BY <1>2 DEF vars, mvccVars, tableVars, sessionVars, Same
  <2> QED
    BY <1>1, <2>1, QuietKeeps DEF IsoInv
<1>3. ASSUME NEW s \in Sessions, Open(s) /\ Writing(s) PROVE IsoInv'
  BY <1>1, <1>3, WritingKeeps
<1> QED
  BY <1>1, <1>2, <1>3, StepsApart, BeginAllocateKeeps, BeginSnapshotKeeps, CommitKeeps, RollbackKeeps,
     SavepointKeeps, RollbackToKeeps, ReleaseKeeps

\* The sessions' rows, snapshots and savepoints stay in order, for any number of
\* sessions, keys and savepoints that keep apart.
THEOREM IsolationInvariant ==
  ASSUME Apart
  PROVE  Spec => []IsoInv
<1>1. Init => IsoInv
  BY IsoInit
<1>2. IsoInv /\ [Next]_vars => IsoInv'
  BY IsoStep
<1> QED
  BY <1>1, <1>2, PTL DEF Spec

-----------------------------------------------------------------------------
(***************************************************************************)
(* The refinement: what a step makes of the mapped variables.              *)
(***************************************************************************)

\* A session whose part of the abstract state a step leaves alone.
Untouched(t) ==
  /\ Open(t)' <=> Open(t)
  /\ Open(t) => BaseOf(t)' = BaseOf(t) /\ OwnMade(t)' = OwnMade(t) /\ OwnGone(t)' = OwnGone(t)
  /\ DOMAIN sps'[t] = DOMAIN sps[t]
  /\ \A n \in DOMAIN sps[t] : SavedWrites(t, n)' = SavedWrites(t, n)

LEMMA MappedButFor ==
  ASSUME NEW s \in Sessions, \A t \in Sessions \ {s} : Untouched(t)
  PROVE  /\ Opened' = IF Open(s)' THEN Opened \cup {s} ELSE Opened \ {s}
         /\ Bases'   = [Bases   EXCEPT ![s] = IF Open(s)' THEN BaseOf(s)'    ELSE {}]
         /\ Made'    = [Made    EXCEPT ![s] = IF Open(s)' THEN OwnMade(s)'    ELSE {}]
         /\ Deleted' = [Deleted EXCEPT ![s] = IF Open(s)' THEN OwnGone(s)' ELSE {}]
         /\ Saved'   = [Saved   EXCEPT ![s] = [n \in DOMAIN sps'[s] |-> SavedWrites(s, n)']]
<1>1. /\ Opened' = {t \in Sessions : Open(t)'}
      /\ Bases'   = [t \in Sessions |-> IF Open(t)' THEN BaseOf(t)'    ELSE {}]
      /\ Made'    = [t \in Sessions |-> IF Open(t)' THEN OwnMade(t)'    ELSE {}]
      /\ Deleted' = [t \in Sessions |-> IF Open(t)' THEN OwnGone(t)' ELSE {}]
      /\ Saved'   = [t \in Sessions |-> [n \in DOMAIN sps'[t] |-> SavedWrites(t, n)']]
  BY DEF Opened, Bases, Made, Deleted, Saved
<1>2. Opened' = IF Open(s)' THEN Opened \cup {s} ELSE Opened \ {s}
  BY <1>1 DEF Opened, Untouched
<1>3. Bases' = [Bases EXCEPT ![s] = IF Open(s)' THEN BaseOf(s)' ELSE {}]
  BY <1>1 DEF Bases, Untouched
<1>4. Made' = [Made EXCEPT ![s] = IF Open(s)' THEN OwnMade(s)' ELSE {}]
  BY <1>1 DEF Made, Untouched
<1>5. Deleted' = [Deleted EXCEPT ![s] = IF Open(s)' THEN OwnGone(s)' ELSE {}]
  BY <1>1 DEF Deleted, Untouched
<1>6. Saved' = [Saved EXCEPT ![s] = [n \in DOMAIN sps'[s] |-> SavedWrites(s, n)']]
  <2>1. \A t \in Sessions \ {s} :
          [n \in DOMAIN sps'[t] |-> SavedWrites(t, n)'] = [n \in DOMAIN sps[t] |-> SavedWrites(t, n)]
    BY DEF Untouched
  <2> QED
    BY <1>1, <2>1 DEF Saved
<1> QED
  BY <1>2, <1>3, <1>4, <1>5, <1>6

LEMMA QuietUntouched ==
  ASSUME rows' = rows, NEW t \in Sessions, Same(t), sps'[t] = sps[t]
  PROVE  Untouched(t)
<1>1. pc'[t] = pc[t] /\ id'[t] = id[t] /\ snap'[t] = snap[t]
  BY DEF Same
<1>2. BaseOf(t)' = BaseOf(t) /\ OwnMade(t)' = OwnMade(t) /\ OwnGone(t)' = OwnGone(t)
  BY <1>1 DEF BaseOf, OwnMade, OwnGone
<1>3. \A n \in DOMAIN sps[t] : SavedWrites(t, n)' = SavedWrites(t, n)
  BY <1>1 DEF SavedWrites, Position
<1> QED
  BY <1>1, <1>2, <1>3 DEF Untouched, Open

LEMMA StampedUntouched ==
  ASSUME IsoInv, IsoInv', NEW s \in Sessions, pc[s] # "idle", OwnStamps(s), committed' = committed,
         NEW t \in Sessions, t # s, Same(t), sps'[t] = sps[t],
         \A n \in DOMAIN sps[t] : SavedWrites(t, n)' = SavedWrites(t, n)
  PROVE  Untouched(t)
<1>1. Open(t)' <=> Open(t)
  BY DEF Same, Open
<1>2. Open(t) => BaseOf(t)' = BaseOf(t) /\ OwnMade(t)' = OwnMade(t) /\ OwnGone(t)' = OwnGone(t)
  BY BaseStays, WritesStay
<1> QED
  BY <1>1, <1>2 DEF Untouched

\* What a statement leaves of the savepoints, its own session's and the others'.
LEMMA WritingSaves ==
  ASSUME IsoInv, Apart, NEW s \in Sessions, Open(s), NEW k \in Writes[s],
         NEW T \in SUBSET Targets(k, id[s], snap[s]), Appends,
         \A v \in DOMAIN rows : /\ rows'[v].xmin = rows[v].xmin
                                /\ rows'[v].xmax = IF v \in T THEN id[s] ELSE rows[v].xmax,
         NEW t \in Sessions, Same(t), sps'[t] = sps[t]
  PROVE  \A m \in DOMAIN sps[t] : SavedWrites(t, m)' = SavedWrites(t, m)
<1> SUFFICES ASSUME DOMAIN sps[t] # {} PROVE \A m \in DOMAIN sps[t] : SavedWrites(t, m)' = SavedWrites(t, m)
  OBVIOUS
<1>1. pc[t] # "idle"
  BY DEF IsoInv, SavepointsOK, Open
<1>2. \A v \in DOMAIN rows : rows[v].xmax = id[t] => rows'[v].xmax = id[t]
  BY <1>1, TargetsAreOwn
<1> QED
  BY <1>2, SavepointsStay

-----------------------------------------------------------------------------
(***************************************************************************)
(* The refinement: one lemma per action.                                   *)
(***************************************************************************)
LEMMA BeginAllocateMaps ==
  ASSUME IsoInv, IsoInv', NEW s \in Sessions, BeginAllocate(s)
  PROVE  UNCHANGED SI!vars
<1>1. /\ pc[s] = "idle" /\ pc'[s] = "begun" /\ sps' = sps
      /\ rows' = rows /\ committed' = committed /\ \A t \in Sessions \ {s} : Same(t)
  BY Facts DEF BeginAllocate, AllocateTxnId, tableVars, TypeOK, SessionType, Same
<1>2. \A t \in Sessions \ {s} : Untouched(t)
  BY <1>1, QuietUntouched
<1>3. Untouched(s)
  BY <1>1 DEF Untouched, Open, IsoInv, SavepointsOK
<1>4. FreshView' = FreshView
  BY <1>1, FreshViewIs, FreshViewNext
<1>5. Opened' = Opened /\ Bases' = Bases /\ Made' = Made /\ Deleted' = Deleted
  BY <1>2, <1>3 DEF Opened, Bases, Made, Deleted, Untouched
<1>6. Saved' = Saved
  BY <1>2, <1>3 DEF Saved, Untouched
<1> QED
  BY <1>4, <1>5, <1>6 DEF SI!vars

LEMMA BeginSnapshotMaps ==
  ASSUME IsoInv, IsoInv', NEW s \in Sessions, BeginSnapshot(s)
  PROVE  SI!Begin(s)
<1>1. /\ pc[s] = "begun" /\ pc'[s] = "open" /\ id' = id /\ snap'[s] = CurrentSnapshot /\ sps' = sps
      /\ rows' = rows /\ committed' = committed /\ \A t \in Sessions \ {s} : Same(t)
  BY Facts DEF BeginSnapshot, mvccVars, tableVars, TypeOK, SessionType, Same
<1>2. \A t \in Sessions \ {s} : Untouched(t)
  BY <1>1, QuietUntouched
<1>3. ~ Open(s) /\ Open(s)' /\ DOMAIN sps[s] = {}
  BY <1>1 DEF Open, IsoInv, SavepointsOK
<1>4. FreshView' = FreshView /\ BaseOf(s)' = FreshView
  <2>1. FreshView = {v \in DOMAIN rows : rows[v].xmin \in committed /\ rows[v].xmax \notin committed}
    BY FreshViewIs
  <2>2. FreshView' = {v \in DOMAIN rows : rows[v].xmin \in committed /\ rows[v].xmax \notin committed}
    BY <1>1, FreshViewNext
  <2>3. snap'[s].committed = committed
    BY <1>1 DEF CurrentSnapshot
  <2>4. BaseOf(s)' = {v \in DOMAIN rows' : /\ rows'[v].xmin \in snap'[s].committed
                                           /\ rows'[v].xmax \notin snap'[s].committed}
    BY <1>3, BaseNext
  <2> QED
    BY <1>1, <2>1, <2>2, <2>3, <2>4
<1>5. OwnMade(s)' = {} /\ OwnGone(s)' = {}
  <2>1. \A v \in DOMAIN rows : rows[v].xmin # id[s] /\ rows[v].xmax # id[s]
    BY <1>1 DEF IsoInv, OwnRows
  <2> QED
    BY <1>1, <2>1 DEF OwnMade, OwnGone
<1>6. /\ Opened' = Opened \cup {s} /\ Bases' = [Bases EXCEPT ![s] = FreshView]
      /\ Made' = [Made EXCEPT ![s] = {}] /\ Deleted' = [Deleted EXCEPT ![s] = {}]
  BY <1>2, <1>3, <1>4, <1>5, MappedButFor
<1>7. Made' = Made /\ Deleted' = Deleted
  BY <1>3, <1>6 DEF Made, Deleted
<1>8. Saved' = Saved
  <2>1. \A t \in Sessions : /\ DOMAIN sps'[t] = DOMAIN sps[t]
                            /\ \A n \in DOMAIN sps[t] : SavedWrites(t, n)' = SavedWrites(t, n)
    BY <1>1, <1>2, <1>3 DEF Untouched
  <2> QED
    BY <2>1 DEF Saved
<1>9. s \notin Opened
  BY <1>3 DEF Opened
<1> QED
  BY <1>4, <1>6, <1>7, <1>8, <1>9 DEF SI!Begin

\* What COMMIT and ROLLBACK have in common.
LEMMA ResetMaps ==
  ASSUME IsoInv, NEW s \in Sessions, Open(s), Reset(s), \A t \in Sessions \ {s} : Untouched(t)
  PROVE  SI!End(s)
<1>1. ~ Open(s)' /\ DOMAIN sps'[s] = {}
  BY ResetKeeps DEF Open
<1>2. /\ Opened' = Opened \ {s} /\ Bases' = [Bases EXCEPT ![s] = {}]
      /\ Made' = [Made EXCEPT ![s] = {}] /\ Deleted' = [Deleted EXCEPT ![s] = {}]
      /\ Saved' = [Saved EXCEPT ![s] = [n \in DOMAIN sps'[s] |-> SavedWrites(s, n)']]
  BY <1>1, MappedButFor
<1>3. [n \in DOMAIN sps'[s] |-> SavedWrites(s, n)'] = SI!NothingSaved
  BY <1>1 DEF SI!NothingSaved
<1>4. s \in Opened
  BY DEF Opened
<1> QED
  BY <1>2, <1>3, <1>4 DEF SI!End

LEMMA CommitMaps ==
  ASSUME IsoInv, IsoInv', NEW s \in Sessions, Commit(s)
  PROVE  SI!Commit(s)
<1>1. Open(s) /\ rows' = rows /\ committed' = committed \cup {id[s]} /\ Reset(s)
  BY DEF Commit, MarkCommitted, tableVars
<1>2. \A t \in Sessions \ {s} : Same(t) /\ sps'[t] = sps[t]
  BY <1>1, ResetKeeps
<1>3. SI!End(s)
  BY <1>1, <1>2, QuietUntouched, ResetMaps
<1>4. /\ FreshView = {v \in DOMAIN rows : rows[v].xmin \in committed /\ rows[v].xmax \notin committed}
      /\ FreshView' = {v \in DOMAIN rows : /\ rows[v].xmin \in committed \cup {id[s]}
                                           /\ rows[v].xmax \notin committed \cup {id[s]}}
  BY <1>1, FreshViewIs, FreshViewNext
<1>5. id[s] \notin committed /\ 0 \notin committed /\ id[s] \in active
  BY <1>1, Facts DEF Open
<1>6. \A v \in DOMAIN rows : rows[v].xmin = id[s] => rows[v].xmax \in {0, id[s]}
  BY <1>5, Facts DEF StampInv, UncommittedUntouched, NotDeleted
<1>7. FreshView' = (FreshView \ OwnGone(s)) \cup OwnMade(s)
  BY <1>4, <1>5, <1>6 DEF OwnGone, OwnMade
<1>8. Made[s] = OwnMade(s) /\ Deleted[s] = OwnGone(s)
  BY <1>1 DEF Made, Deleted
<1> QED
  BY <1>3, <1>7, <1>8 DEF SI!Commit

LEMMA RollbackMaps ==
  ASSUME IsoInv, IsoInv', Apart, NEW s \in Sessions, Rollback(s)
  PROVE  SI!Rollback(s)
<1>1. Open(s) /\ pc[s] # "idle" /\ "rollback" \in Does[s] /\ committed' = committed /\ Reset(s)
  BY DEF Rollback, MarkAborted, Open
<1>2. OwnStamps(s) /\ \A t \in Sessions \ {s} : Same(t) /\ sps'[t] = sps[t]
  BY <1>1, ResetKeeps, RollbackToNothing
<1>3. \A t \in Sessions \ {s} : DOMAIN sps[t] = {}
  BY <1>1, OthersHaveNoSavepoints
<1>4. \A t \in Sessions \ {s} : Untouched(t)
  BY <1>1, <1>2, <1>3, StampedUntouched
<1>5. FreshView' = FreshView
  BY <1>1, <1>2, StoreStays
<1> QED
  BY <1>1, <1>4, <1>5, ResetMaps DEF SI!Rollback

LEMMA WritingMaps ==
  ASSUME IsoInv, IsoInv', Apart, NEW s \in Sessions, Open(s), Writing(s)
  PROVE  SI!Statement(s)
<1>0. PICK k \in Writes[s], key \in Writes[s], n \in Nat : \E T \in SUBSET Targets(k, id[s], snap[s]) :
        Rewrite(T, n, key, id[s]) /\ UNCHANGED <<mvccVars, sessionVars>>
  BY DEF Writing
<1>1. PICK T \in SUBSET Targets(k, id[s], snap[s]) :
        Rewrite(T, n, key, id[s]) /\ UNCHANGED <<mvccVars, sessionVars>>
  BY <1>0
<1>17. /\ OwnStamps(s) /\ Appends /\ OwnRows(s)'
       /\ \A v \in DOMAIN rows : /\ rows'[v].xmin = rows[v].xmin
                                 /\ rows'[v].xmax = IF v \in T THEN id[s] ELSE rows[v].xmax
       /\ \A v \in DOMAIN rows' \ DOMAIN rows : rows'[v].xmin = id[s]
  BY <1>0, <1>1, StatementStamps
<1>2. /\ OwnStamps(s) /\ OwnRows(s)'
      /\ \A v \in DOMAIN rows : /\ v \in DOMAIN rows'
                                /\ rows'[v].xmin = rows[v].xmin
                                /\ rows'[v].xmax = IF v \in T THEN id[s] ELSE rows[v].xmax
      /\ \A v \in DOMAIN rows' \ DOMAIN rows : rows'[v].xmin = id[s]
  BY <1>17 DEF Appends
<1>3. committed' = committed /\ pc' = pc /\ sps' = sps /\ snap' = snap /\ id' = id /\ pc[s] # "idle"
      /\ \A t \in Sessions : Same(t)
  BY <1>1 DEF mvccVars, sessionVars, Open, Same
<1>4. \A t \in Sessions : \A m \in DOMAIN sps[t] : SavedWrites(t, m)' = SavedWrites(t, m)
  BY <1>0, <1>1, <1>3, <1>17, WritingSaves
<1>5. \A t \in Sessions \ {s} : Untouched(t)
  BY <1>2, <1>3, <1>4, StampedUntouched
<1>6. FreshView' = FreshView
  BY <1>2, <1>3, StoreStays
<1>7. BaseOf(s)' = BaseOf(s) /\ Open(s)'
  BY <1>2, <1>3, BaseStays DEF Open
<1>8. /\ Opened' = Opened \cup {s} /\ Bases' = [Bases EXCEPT ![s] = BaseOf(s)]
      /\ Made' = [Made EXCEPT ![s] = OwnMade(s)'] /\ Deleted' = [Deleted EXCEPT ![s] = OwnGone(s)']
  BY <1>5, <1>7, MappedButFor
<1>9. Opened' = Opened /\ Bases' = Bases /\ s \in Opened
  BY <1>8 DEF Opened, Bases
<1>10. Saved' = Saved
  BY <1>3, <1>4 DEF Saved
<1>11. /\ OwnMade(s)' = {v \in DOMAIN rows' : rows'[v].xmin = id[s] /\ rows'[v].xmax # id[s]}
       /\ OwnGone(s)' = {v \in DOMAIN rows' : rows'[v].xmin # id[s] /\ rows'[v].xmax = id[s]}
  BY <1>3 DEF OwnMade, OwnGone
<1>12. OwnMade(s)' \ OwnMade(s) \subseteq DOMAIN rows' \ DOMAIN rows
  BY <1>2, <1>11 DEF OwnMade
<1>13. SI!New(OwnMade(s)' \ OwnMade(s))
  <2>1. FreshView \subseteq DOMAIN rows /\ \A t \in Sessions : Bases[t] \cup Made[t] \subseteq DOMAIN rows
    BY DEF FreshView, Bases, Made, BaseOf, OwnMade
  <2>2. UNION {Bases[t] \cup Made[t] : t \in Sessions} \subseteq DOMAIN rows
    BY <2>1
  <2> QED
    BY <1>12, <2>1, <2>2 DEF SI!New
<1>14. OwnGone(s) \subseteq OwnGone(s)'
  BY <1>2, <1>11 DEF OwnGone
<1>15. OwnGone(s)' \subseteq BaseOf(s)
  <2>1. id[s] \notin snap[s].committed
    BY <1>3, Facts
  <2>2. BaseOf(s)' = {v \in DOMAIN rows' : /\ rows'[v].xmin \in snap[s].committed
                                           /\ rows'[v].xmax \notin snap[s].committed}
    BY <1>3, <1>7, BaseNext
  <2>3. \A v \in OwnGone(s)' : rows'[v].xmin \in snap[s].committed
    BY <1>2, <1>3, <1>7, <1>11 DEF OwnRows
  <2> QED
    BY <1>7, <1>11, <2>1, <2>2, <2>3
<1>16. /\ Made[s] = OwnMade(s) /\ Deleted[s] = OwnGone(s) /\ Bases[s] = BaseOf(s)
       /\ Made'[s] = OwnMade(s)' /\ Deleted'[s] = OwnGone(s)'
  BY <1>7 DEF Made, Deleted, Bases
<1> QED
  BY <1>6, <1>8, <1>9, <1>10, <1>13, <1>14, <1>15, <1>16 DEF SI!Statement

\* A step on the savepoints or rows of one transaction, which stays open.
LEMMA SavepointMaps ==
  ASSUME IsoInv, IsoInv', Apart, NEW s \in Sessions, NEW n \in SpNames, Savepoint(s, n)
  PROVE  SI!Savepoint(s, n)
<1> DEFINE new == SavepointNow(s, DOMAIN sps[s])
<1>1. /\ Open(s) /\ n \notin DOMAIN sps[s]
      /\ rows' = rows /\ committed' = committed /\ pc' = pc /\ id' = id /\ snap' = snap
      /\ \A t \in Sessions : Same(t)
      /\ \A t \in Sessions \ {s} : sps'[t] = sps[t]
      /\ DOMAIN sps'[s] = DOMAIN sps[s] \cup {n} /\ sps'[s][n] = new
      /\ \A k \in DOMAIN sps[s] : sps'[s][k] = sps[s][k]
  BY SavepointIs
<1>2. \A t \in Sessions \ {s} : Untouched(t)
  BY <1>1, QuietUntouched
<1>3. BaseOf(s)' = BaseOf(s) /\ OwnMade(s)' = OwnMade(s) /\ OwnGone(s)' = OwnGone(s) /\ Open(s)'
  BY <1>1 DEF BaseOf, OwnMade, OwnGone, Open
<1>4. /\ Opened' = Opened \cup {s} /\ Bases' = [Bases EXCEPT ![s] = BaseOf(s)]
      /\ Made' = [Made EXCEPT ![s] = OwnMade(s)] /\ Deleted' = [Deleted EXCEPT ![s] = OwnGone(s)]
      /\ Saved' = [Saved EXCEPT ![s] = [m \in DOMAIN sps'[s] |-> SavedWrites(s, m)']]
  BY <1>2, <1>3, MappedButFor
<1>5. FreshView' = FreshView
  BY <1>1, FreshViewIs, FreshViewNext
<1>6. s \in Opened /\ Opened' = Opened /\ Bases' = Bases /\ Made' = Made /\ Deleted' = Deleted
  <2>1. s \in Opened /\ Opened' = Opened
    BY <1>1, <1>4 DEF Opened
  <2>2. Bases[s] = BaseOf(s) /\ Made[s] = OwnMade(s) /\ Deleted[s] = OwnGone(s)
    BY <1>1 DEF Bases, Made, Deleted
  <2>3. Bases' = Bases
    BY <1>4, <2>2 DEF Bases
  <2>4. Made' = Made
    BY <1>4, <2>2 DEF Made
  <2>5. Deleted' = Deleted
    BY <1>4, <2>2 DEF Deleted
  <2> QED
    BY <2>1, <2>3, <2>4, <2>5
<1>7. Made[s] = OwnMade(s) /\ Deleted[s] = OwnGone(s)
      /\ Saved[s] = [m \in DOMAIN sps[s] |-> SavedWrites(s, m)]
  BY <1>1 DEF Made, Deleted, Saved
<1>8. \A m \in DOMAIN sps[s] : SavedWrites(s, m)' = SavedWrites(s, m)
  BY <1>1 DEF SavedWrites, Position
<1>9. SavedWrites(s, n)' = [made |-> OwnMade(s), gone |-> OwnGone(s), older |-> DOMAIN sps[s]]
  <2>1. /\ new.older = DOMAIN sps[s]
        /\ \A v \in DOMAIN rows : /\ Position(v) < new.count
                                  /\ Position(v) \in new.deleted <=> rows[v].xmax = id[s]
    BY SavepointPlaces
  <2>2. \A v : Position(v)' = Position(v)
    BY <1>1 DEF Position
  <2> HIDE DEF new
  <2>3. SavedWrites(s, n)' =
          [made  |-> {v \in DOMAIN rows : /\ rows[v].xmin = id[s]
                                          /\ Position(v) < new.count /\ Position(v) \notin new.deleted},
           gone  |-> {v \in DOMAIN rows : rows[v].xmin # id[s] /\ Position(v) \in new.deleted},
           older |-> new.older]
    BY <1>1, <2>2 DEF SavedWrites
  <2>4. OwnMade(s) = {v \in DOMAIN rows : /\ rows[v].xmin = id[s]
                                         /\ Position(v) < new.count /\ Position(v) \notin new.deleted}
    BY <2>1 DEF OwnMade
  <2>5. OwnGone(s) = {v \in DOMAIN rows : rows[v].xmin # id[s] /\ Position(v) \in new.deleted}
    BY <2>1 DEF OwnGone
  <2> QED
    BY <2>1, <2>3, <2>4, <2>5
<1>10. [m \in DOMAIN sps'[s] |-> SavedWrites(s, m)'] =
         [m \in DOMAIN Saved[s] \cup {n} |->
            IF m = n THEN [made |-> Made[s], gone |-> Deleted[s], older |-> DOMAIN Saved[s]]
            ELSE Saved[s][m]]
  BY <1>1, <1>7, <1>8, <1>9
<1>11. Saved' = [Saved EXCEPT ![s] =
         [m \in DOMAIN @ \cup {n} |->
            IF m = n THEN [made |-> Made[s], gone |-> Deleted[s], older |-> DOMAIN @] ELSE @[m]]]
  BY <1>4, <1>10 DEF Saved
<1>12. n \notin DOMAIN Saved[s]
  BY <1>1, <1>7
<1> QED
  BY <1>5, <1>6, <1>11, <1>12 DEF SI!Savepoint

LEMMA ReleaseMaps ==
  ASSUME IsoInv, IsoInv', NEW s \in Sessions, NEW n \in SpNames, ReleaseSavepoint(s, n)
  PROVE  SI!Release(s, n)
<1>1. /\ Open(s) /\ n \in DOMAIN sps[s]
      /\ rows' = rows /\ committed' = committed /\ pc' = pc /\ id' = id /\ snap' = snap
      /\ \A t \in Sessions : Same(t)
      /\ \A t \in Sessions \ {s} : sps'[t] = sps[t]
      /\ DOMAIN sps'[s] = DOMAIN sps[s] \ {n}
      /\ \A k \in DOMAIN sps'[s] : /\ sps'[s][k].older = sps[s][k].older \ {n}
                                   /\ sps'[s][k].count = sps[s][k].count
                                   /\ sps'[s][k].deleted = sps[s][k].deleted
  BY ReleaseIs
<1>2. \A t \in Sessions \ {s} : Untouched(t)
  BY <1>1, QuietUntouched
<1>3. BaseOf(s)' = BaseOf(s) /\ OwnMade(s)' = OwnMade(s) /\ OwnGone(s)' = OwnGone(s) /\ Open(s)'
  BY <1>1 DEF BaseOf, OwnMade, OwnGone, Open
<1>4. /\ Opened' = Opened \cup {s} /\ Bases' = [Bases EXCEPT ![s] = BaseOf(s)]
      /\ Made' = [Made EXCEPT ![s] = OwnMade(s)] /\ Deleted' = [Deleted EXCEPT ![s] = OwnGone(s)]
      /\ Saved' = [Saved EXCEPT ![s] = [m \in DOMAIN sps'[s] |-> SavedWrites(s, m)']]
  BY <1>2, <1>3, MappedButFor
<1>5. FreshView' = FreshView
  BY <1>1, FreshViewIs, FreshViewNext
<1>6. s \in Opened /\ Opened' = Opened /\ Bases' = Bases /\ Made' = Made /\ Deleted' = Deleted
  <2>1. s \in Opened /\ Opened' = Opened
    BY <1>1, <1>4 DEF Opened
  <2>2. Bases[s] = BaseOf(s) /\ Made[s] = OwnMade(s) /\ Deleted[s] = OwnGone(s)
    BY <1>1 DEF Bases, Made, Deleted
  <2>3. Bases' = Bases
    BY <1>4, <2>2 DEF Bases
  <2>4. Made' = Made
    BY <1>4, <2>2 DEF Made
  <2>5. Deleted' = Deleted
    BY <1>4, <2>2 DEF Deleted
  <2> QED
    BY <2>1, <2>3, <2>4, <2>5
<1>7. Saved[s] = [m \in DOMAIN sps[s] |-> SavedWrites(s, m)]
  BY DEF Saved
<1>8. ASSUME NEW m \in DOMAIN sps'[s]
      PROVE  SavedWrites(s, m)' = [SavedWrites(s, m) EXCEPT !.older = @ \ {n}]
  <2>1. /\ sps'[s][m].older = sps[s][m].older \ {n} /\ sps'[s][m].count = sps[s][m].count
        /\ sps'[s][m].deleted = sps[s][m].deleted
    BY <1>1
  <2>2. \A v : Position(v)' = Position(v)
    BY <1>1 DEF Position
  <2>3. /\ SavedWrites(s, m)'.made = SavedWrites(s, m).made
        /\ SavedWrites(s, m)'.gone = SavedWrites(s, m).gone
        /\ SavedWrites(s, m)'.older = SavedWrites(s, m).older \ {n}
    BY <1>1, <2>1, <2>2 DEF SavedWrites
  <2>4. SavedWrites(s, m) = [made |-> SavedWrites(s, m).made, gone |-> SavedWrites(s, m).gone,
                             older |-> SavedWrites(s, m).older]
        /\ SavedWrites(s, m)' = [made |-> SavedWrites(s, m)'.made, gone |-> SavedWrites(s, m)'.gone,
                                 older |-> SavedWrites(s, m)'.older]
    BY DEF SavedWrites
  <2> QED
    BY <2>3, <2>4
<1>9. [m \in DOMAIN sps'[s] |-> SavedWrites(s, m)'] =
        [m \in DOMAIN Saved[s] \ {n} |-> [Saved[s][m] EXCEPT !.older = @ \ {n}]]
  <2> DEFINE W(m) == SavedWrites(s, m)
  <2>1. \A m \in DOMAIN sps'[s] : Saved[s][m] = W(m)
    BY <1>1, <1>7
  <2>2. \A m \in DOMAIN sps'[s] : SavedWrites(s, m)' = [Saved[s][m] EXCEPT !.older = @ \ {n}]
    BY <1>8, <2>1
  <2>3. DOMAIN Saved[s] \ {n} = DOMAIN sps'[s]
    BY <1>1, <1>7
  <2> QED
    BY <2>2, <2>3
<1>10. Saved' = [Saved EXCEPT ![s] = SI!Without(@, n)]
  BY <1>4, <1>9 DEF SI!Without
<1>11. n \in DOMAIN Saved[s]
  BY <1>1, <1>7
<1> QED
  BY <1>5, <1>6, <1>10, <1>11 DEF SI!Release

LEMMA RollbackToMaps ==
  ASSUME IsoInv, IsoInv', Apart, NEW s \in Sessions, NEW n \in SpNames, RollbackTo(s, n)
  PROVE  SI!RollbackTo(s, n)
<1>1. /\ n \in DOMAIN sps[s] /\ Open(s) /\ DOMAIN sps = Sessions /\ pc[s] # "idle"
      /\ sps' = [sps EXCEPT ![s] = UpTo(sps[s], n)]
      /\ pc' = pc /\ id' = id /\ snap' = snap /\ committed' = committed
  BY Facts DEF RollbackTo, TypeOK, SessionType, Open, mvccVars
<1>2. OwnStamps(s) /\ \A t \in Sessions : Same(t)
  BY <1>1, RollbackToStamps DEF Same
<1>3. \A k \in DOMAIN sps'[s] : SavedWrites(s, k)' = SavedWrites(s, k)
  BY RollbackToSavepoints
<1>4. \A t \in Sessions \ {s} : DOMAIN sps[t] = {} /\ sps'[t] = sps[t]
  BY <1>1, OthersHaveNoSavepoints
<1>5. \A t \in Sessions \ {s} : Untouched(t)
  BY <1>1, <1>2, <1>4, StampedUntouched
<1>6. FreshView' = FreshView
  BY <1>1, <1>2, StoreStays
<1>7. BaseOf(s)' = BaseOf(s) /\ Open(s)'
  BY <1>1, <1>2, BaseStays DEF Open
<1>8. /\ Opened' = Opened \cup {s} /\ Bases' = [Bases EXCEPT ![s] = BaseOf(s)]
      /\ Made' = [Made EXCEPT ![s] = OwnMade(s)'] /\ Deleted' = [Deleted EXCEPT ![s] = OwnGone(s)']
      /\ Saved' = [Saved EXCEPT ![s] = [m \in DOMAIN sps'[s] |-> SavedWrites(s, m)']]
  BY <1>5, <1>7, MappedButFor
<1>9. s \in Opened /\ Opened' = Opened /\ Bases' = Bases
  BY <1>1, <1>8 DEF Opened, Bases
<1>10. Saved[s] = [m \in DOMAIN sps[s] |-> SavedWrites(s, m)]
  BY DEF Saved
<1>11. Saved[s][n] = SavedWrites(s, n) /\ n \in DOMAIN Saved[s]
  BY <1>1, <1>10
<1>12. Made' = [Made EXCEPT ![s] = Saved[s][n].made] /\ Deleted' = [Deleted EXCEPT ![s] = Saved[s][n].gone]
  BY <1>8, <1>11, RollbackToWrites
<1>13. [m \in DOMAIN sps'[s] |-> SavedWrites(s, m)'] =
         [m \in {k \in DOMAIN Saved[s] : n \notin Saved[s][k].older} |-> Saved[s][m]]
  <2>1. \A k \in DOMAIN sps[s] : Saved[s][k].older = sps[s][k].older
    BY <1>10 DEF SavedWrites
  <2>2. DOMAIN sps'[s] = {k \in DOMAIN Saved[s] : n \notin Saved[s][k].older}
    BY <1>1, <1>10, <2>1 DEF UpTo
  <2>3. \A m \in DOMAIN sps'[s] : SavedWrites(s, m)' = Saved[s][m]
    <3> DEFINE W(m) == SavedWrites(s, m)
    <3>1. \A m \in DOMAIN sps'[s] : Saved[s][m] = W(m)
      BY <1>10, <2>2
    <3> QED
      BY <1>3, <3>1
  <2> QED
    BY <2>2, <2>3
<1>14. Saved' = [Saved EXCEPT ![s] = [m \in {k \in DOMAIN @ : n \notin @[k].older} |-> @[m]]]
  BY <1>8, <1>13 DEF Saved
<1> QED
  BY <1>6, <1>9, <1>11, <1>12, <1>14 DEF SI!RollbackTo

-----------------------------------------------------------------------------
(***************************************************************************)
(* The theorem.                                                            *)
(***************************************************************************)
LEMMA InitMaps == Apart /\ Init => SI!Init
<1> SUFFICES ASSUME Apart, Init PROVE SI!Init
  OBVIOUS
<1>1. IsoInv
  BY IsoInit
<1>2. FreshView \subseteq Nat
  BY <1>1, Facts DEF FreshView
<1>3. \A s \in Sessions : ~ Open(s) /\ DOMAIN sps[s] = {}
  BY DEF Init, Open, NoSavepoints
<1>4. /\ Opened = {} /\ Bases = [s \in Sessions |-> {}] /\ Made = [s \in Sessions |-> {}]
      /\ Deleted = [s \in Sessions |-> {}]
  BY <1>3 DEF Opened, Bases, Made, Deleted
<1>5. \A s \in Sessions : [n \in DOMAIN sps[s] |-> SavedWrites(s, n)] = SI!NothingSaved
  BY <1>3 DEF SI!NothingSaved
<1>6. Saved = [s \in Sessions |-> SI!NothingSaved]
  BY <1>5 DEF Saved
<1> QED
  BY <1>2, <1>4, <1>6 DEF SI!Init

LEMMA StepMaps == Apart /\ IsoInv /\ IsoInv' /\ [Next]_vars => [SI!Next]_(SI!vars)
<1> SUFFICES ASSUME Apart, IsoInv, IsoInv', [Next]_vars PROVE SI!Next \/ UNCHANGED SI!vars
  OBVIOUS
<1>1. CASE UNCHANGED vars
  <2>1. rows' = rows /\ committed' = committed /\ sps' = sps /\ \A t \in Sessions : Same(t)
    BY <1>1 DEF vars, mvccVars, tableVars, sessionVars, Same
  <2>2. \A t \in Sessions : Untouched(t)
    BY <2>1, QuietUntouched
  <2>3. FreshView' = FreshView
    BY <2>1, FreshViewIs, FreshViewNext
  <2>4. Opened' = Opened /\ Bases' = Bases /\ Made' = Made /\ Deleted' = Deleted
    BY <2>2 DEF Opened, Bases, Made, Deleted, Untouched
  <2>5. Saved' = Saved
    BY <2>2 DEF Saved, Untouched
  <2> QED
    BY <2>3, <2>4, <2>5 DEF SI!vars
<1>2. ASSUME NEW s \in Sessions, BeginAllocate(s) PROVE UNCHANGED SI!vars
  BY <1>2, BeginAllocateMaps
<1>3. ASSUME NEW s \in Sessions,
             \/ SI!Begin(s) \/ SI!Statement(s) \/ SI!Commit(s) \/ SI!Rollback(s)
             \/ \E n \in SpNames : SI!Savepoint(s, n) \/ SI!RollbackTo(s, n) \/ SI!Release(s, n)
      PROVE  SI!Next
  BY <1>3 DEF SI!Next
<1>4. ASSUME NEW s \in Sessions,
             \/ BeginSnapshot(s) \/ Commit(s) \/ Rollback(s) \/ (Open(s) /\ Writing(s))
             \/ \E n \in SpNames : Savepoint(s, n) \/ RollbackTo(s, n) \/ ReleaseSavepoint(s, n)
      PROVE  SI!Next
  <2>1. BeginSnapshot(s) => SI!Begin(s)
    BY BeginSnapshotMaps
  <2>2. Commit(s) => SI!Commit(s)
    BY CommitMaps
  <2>3. Rollback(s) => SI!Rollback(s)
    BY RollbackMaps
  <2>4. Open(s) /\ Writing(s) => SI!Statement(s)
    BY WritingMaps
  <2>5. \A n \in SpNames : /\ Savepoint(s, n) => SI!Savepoint(s, n)
                           /\ RollbackTo(s, n) => SI!RollbackTo(s, n)
                           /\ ReleaseSavepoint(s, n) => SI!Release(s, n)
    BY SavepointMaps, RollbackToMaps, ReleaseMaps
  <2> QED
    BY <1>3, <1>4, <2>1, <2>2, <2>3, <2>4, <2>5
<1> QED
  BY <1>1, <1>2, <1>4, StepsApart

\* MiniDB's transactions are snapshot isolation with savepoints: whatever sessions that
\* keep apart do, and however their statements interleave, a transaction works on the
\* store as it was at BEGIN and its own writes, COMMIT is one step, and ROLLBACK and
\* ROLLBACK TO undo exactly the writes they should (manager.py, mvcc.py, table.py).
THEOREM TransactionsAreIsolated ==
  ASSUME Apart
  PROVE  Spec => ImplementsSnapshotIsolation
<1>1. Init => SI!Init
  BY InitMaps
<1>2. IsoInv /\ IsoInv' /\ [Next]_vars => [SI!Next]_(SI!vars)
  BY StepMaps
<1>3. Spec => []IsoInv
  BY IsolationInvariant
<1> QED
  BY <1>1, <1>2, <1>3, PTL DEF Spec, ImplementsSnapshotIsolation, SI!Spec

=============================================================================
