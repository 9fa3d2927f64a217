-------------------------- MODULE DurabilityProofs --------------------------
(***************************************************************************)
(* What a crash leaves, for every number of sessions, every workload and   *)
(* any number of crashes.                                                  *)
(***************************************************************************)
EXTENDS Durability, TransactionsProofs

-----------------------------------------------------------------------------
(***************************************************************************)
(* Types: what the log holds, and what a statement may have left to do.    *)
(***************************************************************************)
Changes == [op : {"INSERT", "UPDATE", "DELETE"}, txn : Nat, key : Keys, new : Keys]
Commits == [op : {"COMMIT"}, txn : Nat]

\* The lists of disk steps and all that remains of them on the way.
Saving == {<<"open", "close">>, <<"open", "close", "checkpoint">>,
           <<"open", "close", "commit", "checkpoint">>}
Closing == {<<"close">>, <<"close", "checkpoint">>, <<"close", "commit", "checkpoint">>,
           <<"commit", "checkpoint">>, <<"checkpoint">>}
Noting == {<<"mark">>, <<"log">>}
Todos  == Saving \cup Closing \cup Noting \cup {AutoSteps}
Committing == {<<"open", "close", "commit", "checkpoint">>,
               <<"close", "commit", "checkpoint">>, <<"commit", "checkpoint">>}

Tables(n) == UNION {[D -> Row] : D \in SUBSET (1..(n - 1))}
StampsBelow(table, n) == \A v \in DOMAIN table : table[v].xmin < n /\ table[v].xmax < n

Works(n) ==
  [todo : Todos, lock : {"none", "manager", "table"}, rec : Changes \cup Commits \cup {NoRecord},
   text : Tables(n), made : SUBSET (1..(n - 1)), gone : SUBSET (1..(n - 1))]

DiskType ==
  /\ up \in BOOLEAN /\ overlapped \in BOOLEAN
  /\ file \in [state : FileStates, rows : Tables(nextVid), shared : BOOLEAN]
  /\ log \in Seq(Changes \cup Commits)
  /\ kept \in SUBSET (1..(nextVid - 1))
  /\ removed \in SUBSET (1..(nextVid - 1))
  /\ dubious \in SUBSET (1..(nextVid - 1))
  /\ io \in [Sessions -> Works(nextVid) \cup {NoWork}]
  /\ up => StampsBelow(file.rows, nextId)
  /\ \A s \in Sessions : StampsBelow(io[s].text, nextId)

\* A statement that only notes itself in the log has made and deleted nothing, what
\* is logged is a record, and COMMIT holds the manager's lock to its end.
WorkOK(w) ==
  /\ w.todo \in Noting => w.made = {} /\ w.gone = {}
  /\ w.todo \in {<<"log">>, AutoSteps} => w.rec \in Changes
  /\ w.todo \in Committing => w.lock = "manager" /\ w.rec \in Commits

\* Only one session holds the manager's lock.
WorkInv ==
  /\ ~up => io = [s \in Sessions |-> NoWork]
  /\ \A s \in Sessions : WorkOK(io[s])
  /\ \A s, t \in Sessions : io[s].lock = "manager" /\ io[t].lock = "manager" => s = t

-----------------------------------------------------------------------------
(***************************************************************************)
(* The rows in memory.                                                     *)
(***************************************************************************)

\* A statement outside transactions stamps no row before its body.
FreshIds ==
  \A s \in Sessions : InStatement(s) =>
    \A v \in DOMAIN rows : rows[v].xmin # id[s] /\ rows[v].xmax # id[s]

\* An acknowledged row is there, its creator committed, its deleter not.
KeptInMemory ==
  up => \A v \in kept : /\ v \in DOMAIN rows
                        /\ rows[v].xmin \in committed \cup {AutoCommit}
                        /\ rows[v].xmax \notin committed

\* What is about to be acknowledged is committed.
MadeInMemory ==
  \A t \in Sessions : \A w \in io[t].made \cap DOMAIN rows : rows[w].xmin \in committed

\* In a table, w replaces v: it was made by whoever deleted v.
Replaces(table, w, v) == table[w].xmin = table[v].xmax /\ table[v].xmax # NotDeleted

\* No row that was, or is about to be, acknowledged replaces another one that stays
\* acknowledged; what COMMIT deleted is stamped. `stay` and `left` are the rows whose
\* insertion and whose deletion was acknowledged, `work` what the sessions T do.
Linked(table, T, stay, left, work) ==
  /\ \A v, w \in DOMAIN table : Replaces(table, w, v) =>
       /\ w \in stay => v \notin stay
       /\ \A t \in T : /\ w \in stay /\ v \in work[t].made => v \in left
                       /\ w \in work[t].made => v \in work[t].gone
  /\ \A t \in T : work[t].lock = "manager" =>
       \A v \in work[t].gone \cap DOMAIN table : table[v].xmax # NotDeleted

MemoryInv == FreshIds /\ KeptInMemory /\ MadeInMemory /\ Linked(rows, Sessions, kept, removed, io)

(***************************************************************************)
(* The rows in the file, and in the buffer that is about to become the     *)
(* file.                                                                   *)
(***************************************************************************)
Savers == {t \in Sessions : io[t].todo \in Closing}
Images == (IF file.state = "whole" THEN {file.rows} ELSE {}) \cup {io[t].text : t \in Writers}

Good(table) ==
  /\ kept \subseteq DOMAIN table
  /\ \A t \in Savers : io[t].made \cap DOMAIN rows \subseteq DOMAIN table
  /\ Linked(table, Savers, kept, removed, io)

FileInv ==
  ~overlapped =>
    /\ \A s, t \in Writers : s = t
    /\ Writers # {} => file.state # "whole"
    /\ ~file.shared
    /\ \A table \in Images : Good(table)

DInv == IInv /\ DiskType /\ WorkInv /\ MemoryInv /\ FileInv

-----------------------------------------------------------------------------
(***************************************************************************)
(* Lemmas about linked tables.                                             *)
(***************************************************************************)

\* Acknowledging less, or having less to do, keeps a table linked.
LEMMA LinkedLess ==
  ASSUME NEW table, NEW T, NEW U \in SUBSET T, NEW stay, NEW left, NEW work, NEW rest,
         Linked(table, T, stay, left, work), NEW fewer \in SUBSET stay,
         \A t \in U : \/ rest[t].made = {} /\ rest[t].gone = {}
                      \/ /\ rest[t].made = work[t].made /\ rest[t].gone = work[t].gone
                         /\ rest[t].lock = work[t].lock
  PROVE  Linked(table, U, fewer, left, rest)
BY DEF Linked

\* So does the answer to a statement: what it made becomes acknowledged, what it
\* deleted no longer is.
LEMMA LinkedAnswer ==
  ASSUME NEW table, NEW T, NEW U \in SUBSET T, NEW stay, NEW left, NEW work, NEW rest,
         Linked(table, T, stay, left, work), NEW s,
         s \in T \/ (work[s].made = {} /\ work[s].gone = {}),
         NEW new \in SUBSET work[s].made,
         \A t \in U : \/ rest[t].made = {} /\ rest[t].gone = {}
                      \/ rest[t] = work[t]
  PROVE  Linked(table, U, (stay \cup new) \ (left \cup work[s].gone), left \cup work[s].gone, rest)
BY DEF Linked

\* So does stamping, clearing, dropping and adding rows, when nothing acknowledged
\* was made by who stamps and no COMMIT is being saved while stamps are cleared.
LEMMA LinkedChange ==
  ASSUME NEW table, NEW T, NEW stay, NEW left, NEW work, NEW next, NEW me, me \in Nat,
         Linked(table, T, stay, left, work),
         \A v \in DOMAIN next :
           \/ v \in DOMAIN table /\ next[v].xmin = table[v].xmin
              /\ next[v].xmax \in {table[v].xmax, me, NotDeleted}
           \/ v \notin DOMAIN table /\ next[v].xmax = NotDeleted
              /\ v \notin stay /\ \A t \in T : v \notin work[t].made \cup work[t].gone,
         me # 0 => \A w \in DOMAIN next : next[w].xmin = me =>
                     w \notin stay /\ \A t \in T : w \notin work[t].made,
         \/ \A t \in T : work[t].lock # "manager"
         \/ \A v \in DOMAIN next \cap DOMAIN table : next[v].xmax \in {table[v].xmax, me} /\ me # 0
         \/ \A v \in DOMAIN next \cap DOMAIN table : next[v].xmax = table[v].xmax
  PROVE  Linked(next, T, stay, left, work)
<1>1. ASSUME NEW v \in DOMAIN next, NEW w \in DOMAIN next, Replaces(next, w, v)
      PROVE  /\ w \in stay => v \notin stay
             /\ \A t \in T : /\ w \in stay /\ v \in work[t].made => v \in left
                             /\ w \in work[t].made => v \in work[t].gone
  <2>1. next[w].xmin = next[v].xmax /\ next[v].xmax # 0
    BY <1>1 DEF Replaces, NotDeleted
  <2>2. CASE next[v].xmax = me
    BY <2>1, <2>2
  <2>3. CASE next[v].xmax # me
    <3>1. v \in DOMAIN table /\ next[v].xmax = table[v].xmax
      BY <2>1, <2>3 DEF NotDeleted
    <3>2. CASE w \in DOMAIN table
      BY <2>1, <3>1, <3>2 DEF Linked, Replaces, NotDeleted
    <3>3. CASE w \notin DOMAIN table
      BY <3>3
    <3> QED
      BY <3>2, <3>3
  <2> QED
    BY <2>2, <2>3
<1>2. ASSUME NEW t \in T, work[t].lock = "manager", NEW v \in work[t].gone \cap DOMAIN next
      PROVE  next[v].xmax # NotDeleted
  <2>1. v \in DOMAIN table
    BY <1>2
  <2>2. table[v].xmax # NotDeleted
    BY <1>2, <2>1 DEF Linked
  <2> QED
    BY <1>2, <2>1, <2>2 DEF NotDeleted
<1> QED
  BY <1>1, <1>2 DEF Linked

\* A statement that is about to be saved is linked when what it deleted covers all
\* that it replaces and it made nothing that is replaced.
LEMMA LinkedSave ==
  ASSUME NEW table, NEW T, NEW stay, NEW left, NEW work, NEW s, NEW more,
         Linked(table, T, stay, left, work),
         \A t \in T \ {s} : more[t] = work[t],
         \A v, w \in DOMAIN table : Replaces(table, w, v) =>
           /\ w \in stay => v \notin more[s].made
           /\ w \in more[s].made => v \in more[s].gone,
         \A v \in more[s].gone \cap DOMAIN table : table[v].xmax # NotDeleted
  PROVE  Linked(table, T, stay, left, more)
BY DEF Linked

-----------------------------------------------------------------------------
(***************************************************************************)
(* What a statement does to the rows in memory.                            *)
(***************************************************************************)

\* It stamps rows and adds rows with its id, or it clears stamps and drops rows,
\* or it leaves the rows alone.
Stamping(s) ==
  /\ UNCHANGED mvccVars
  /\ \/ Open(s)
     \/ pc[s] = "ready" /\ \A v \in kept' \cap DOMAIN rows : rows'[v].xmax # id[s]
  /\ \E T \in SUBSET (DOMAIN rows) : \E n \in Nat : \E k \in Keys : Rewrite(T, n, k, id[s])

Restoring(s) ==
  /\ UNCHANGED <<nextVid, nextId, committed>>
  /\ \E D \in SUBSET (DOMAIN rows) : \E U :
       /\ rows' = [v \in D |-> IF v \in U THEN StampDelete(rows[v], NotDeleted) ELSE rows[v]]
       /\ FlushFree \/ U = {}
       /\ kept' # {} => \A v \in DOMAIN rows \ D :
            (Open(s) /\ rows[v].xmin = id[s]) \/ rows[v].xmax \in committed

LeavingRows(s) ==
  /\ UNCHANGED <<nextVid, rows>>
  /\ nextId' \in {nextId, nextId + 1}
  /\ \/ committed' = committed
     \/ /\ committed' = committed \cup {id[s]}
        /\ InStatement(s) \/ kept' \cap DeletedBy(id[s]) = {}

MemoryStep(s) ==
  \/ DBegin(s) \/ DCommit(s) \/ DRollback(s) \/ DVacuum(s)
  \/ \E n \in SpNames : DSavepoint(s, n)
  \/ \E k \in Writes[s] : DInsert(s, k) \/ \E new \in Writes[s] : DChange(s, k, new)
  \/ DAutoStart(s) \/ DAutoApply(s) \/ DTruncate(s)

\* Every step of a statement in memory is a step of Transactions.
LEMMA MemoryIsNext ==
  ASSUME NEW s \in Sessions, MemoryStep(s)
  PROVE  [Next]_vars
<1>1. CASE DBegin(s)
  BY <1>1 DEF DBegin, Next
<1>2. CASE DCommit(s)
  BY <1>2 DEF DCommit, Next
<1>3. CASE DRollback(s)
  BY <1>3 DEF DRollback, Next
<1>4. CASE DVacuum(s)
  BY <1>4 DEF DVacuum, Next
<1>5. CASE \E n \in SpNames : DSavepoint(s, n)
  BY <1>5 DEF DSavepoint, Next
<1>6. CASE \E k \in Writes[s] : DInsert(s, k)
  BY <1>6 DEF DInsert, Next
<1>7. CASE \E k, new \in Writes[s] : DChange(s, k, new)
  BY <1>7 DEF DChange, Next
<1>8. CASE DAutoStart(s)
  BY <1>8 DEF DAutoStart, Next
<1>9. CASE DAutoApply(s)
  BY <1>9 DEF DAutoApply, Next
<1>10. CASE DTruncate(s)
  BY <1>10 DEF DTruncate, Next
<1> QED
  BY <1>1, <1>2, <1>3, <1>4, <1>5, <1>6, <1>7, <1>8, <1>9, <1>10 DEF MemoryStep

LEMMA RewriteIsStamping ==
  ASSUME TypeOK, NEW s \in Sessions, UNCHANGED mvccVars,
         \/ Open(s)
         \/ pc[s] = "ready" /\ \A v \in kept' \cap DOMAIN rows : rows'[v].xmax # id[s],
         NEW k \in Keys, NEW new \in Keys,
         \/ InsertRow(k, id[s])
         \/ UpdateRows(k, new, id[s], snap[s])
         \/ DeleteRows(k, id[s], snap[s])
  PROVE  Stamping(s)
<1> DEFINE T == Targets(k, id[s], snap[s])
<1>1. T \in SUBSET (DOMAIN rows) /\ Cardinality(T) \in Nat
  BY TargetsAreRows, RowsFinite DEF TypeOK
<1>2. \E R \in {T, {}} : \E n \in Nat : \E q \in {k, new} : Rewrite(R, n, q, id[s])
  BY <1>1 DEF InsertRow, UpdateRows, DeleteRows
<1> QED
  BY <1>1, <1>2 DEF Stamping

LEMMA MemoryEffect ==
  ASSUME TypeOK, NEW s \in Sessions, MemoryStep(s)
  PROVE  Stamping(s) \/ Restoring(s) \/ LeavingRows(s)
<1>a. \A k \in Writes[s] : k \in Keys
  BY WorkloadAssumption
<1>1. CASE DBegin(s)
  BY <1>1 DEF DBegin, BeginAllocate, BeginSnapshot, LeavingRows, tableVars, mvccVars, AllocateTxnId
<1>2. CASE DCommit(s)
  BY <1>2 DEF DCommit, Commit, MarkCommitted, LeavingRows, tableVars, DeletedBy
<1>3. CASE DRollback(s)
  <2> DEFINE D == {w \in DOMAIN rows : rows[w].xmin # id[s]}
             U == {w \in DOMAIN rows : rows[w].xmax = id[s]}
  <2>1. rows' = [v \in D |-> IF v \in U THEN StampDelete(rows[v], NotDeleted) ELSE rows[v]]
    BY <1>3 DEF DRollback, Rollback, RollbackRows
  <2>2. D \in SUBSET (DOMAIN rows) /\ FlushFree /\ Open(s) /\ UNCHANGED <<nextVid, nextId, committed>>
    BY <1>3 DEF DRollback, Rollback, MarkAborted
  <2>3. \A v \in DOMAIN rows \ D : Open(s) /\ rows[v].xmin = id[s]
    BY <2>2
  <2> HIDE DEF D, U
  <2> QED
    BY <2>1, <2>2, <2>3 DEF Restoring
<1>4. CASE DVacuum(s)
  <2> DEFINE D == {w \in DOMAIN rows : ~IsDead(rows[w], OldestActive, committed)}
             U == {}
  <2>1. rows' = [v \in D |-> IF v \in U THEN StampDelete(rows[v], NotDeleted) ELSE rows[v]]
    BY <1>4 DEF DVacuum, Vacuum
  <2>2. D \in SUBSET (DOMAIN rows) /\ UNCHANGED <<nextVid, nextId, committed>>
    BY <1>4 DEF DVacuum, Vacuum, mvccVars
  <2>3. \A v \in DOMAIN rows \ D : rows[v].xmax \in committed
    BY DEF IsDead
  <2>4. U = {}
    OBVIOUS
  <2> HIDE DEF D, U
  <2> QED
    BY <2>1, <2>2, <2>3, <2>4 DEF Restoring
<1>5. ASSUME NEW n \in SpNames, DSavepoint(s, n)
      PROVE  Stamping(s) \/ Restoring(s) \/ LeavingRows(s)
  <2>1. CASE Savepoint(s, n) \/ ReleaseSavepoint(s, n)
    BY <2>1 DEF Savepoint, ReleaseSavepoint, LeavingRows, tableVars, mvccVars
  <2>2. CASE RollbackTo(s, n)
    <3> DEFINE D == DOMAIN rows \ Undone(s, sps[s][n])
               U == Restored(s, sps[s][n])
    <3>1. rows' = [v \in D |-> IF v \in U THEN StampDelete(rows[v], NotDeleted) ELSE rows[v]]
      BY <2>2 DEF RollbackTo
    <3>2. /\ D \in SUBSET (DOMAIN rows) /\ FlushFree /\ Open(s)
          /\ UNCHANGED <<nextVid, nextId, committed>>
      BY <1>5, <2>2 DEF DSavepoint, RollbackTo, mvccVars
    <3>3. \A v \in DOMAIN rows \ D : Open(s) /\ rows[v].xmin = id[s]
      BY <3>2 DEF Undone
    <3> HIDE DEF D, U
    <3> QED
      BY <3>1, <3>2, <3>3 DEF Restoring
  <2> QED
    BY <1>5, <2>1, <2>2 DEF DSavepoint
<1>6. ASSUME NEW k \in Writes[s], DInsert(s, k) PROVE Stamping(s)
  BY <1>a, <1>6, RewriteIsStamping DEF DInsert, Insert
<1>7. ASSUME NEW k \in Writes[s], NEW new \in Writes[s], DChange(s, k, new) PROVE Stamping(s)
  BY <1>a, <1>7, RewriteIsStamping DEF DChange, Update, Delete
<1>8. CASE DAutoStart(s)
  BY <1>8 DEF DAutoStart, AutoAllocate, AutoMark, AutoSnapshot, LeavingRows, tableVars, mvccVars,
     AllocateTxnId, MarkCommitted, InStatement
<1>9. CASE DAutoApply(s)
  <2>1. stmt[s].key \in Keys /\ stmt[s].new \in Keys
    BY <1>9 DEF DAutoApply, AutoApply, TypeOK, SessionType, InStatement, Stmts, NoStmt
  <2>2. \A v \in kept' \cap DOMAIN rows : rows'[v].xmax # id[s]
    BY <1>9 DEF DAutoApply
  <2> QED
    BY <1>9, <2>1, <2>2, RewriteIsStamping DEF DAutoApply, AutoApply
<1>10. CASE DTruncate(s)
  <2> DEFINE D == {}
             U == {}
  <2>1. rows' = [v \in D |-> IF v \in U THEN StampDelete(rows[v], NotDeleted) ELSE rows[v]]
    BY <1>10 DEF DTruncate, Truncate, NoRows
  <2>2. /\ D \in SUBSET (DOMAIN rows) /\ UNCHANGED <<nextVid, nextId, committed>>
        /\ kept' = {} /\ U = {}
    BY <1>10 DEF DTruncate, Truncate, mvccVars
  <2> HIDE DEF D, U
  <2> QED
    BY <2>1, <2>2 DEF Restoring
<1> QED
  BY <1>1, <1>2, <1>3, <1>4, <1>5, <1>6, <1>7, <1>8, <1>9, <1>10 DEF MemoryStep

\* A row is stamped by its own id or by 0, or added with that id.
RowsBy(me) ==
  \A v \in DOMAIN rows' :
    \/ /\ v \in DOMAIN rows /\ rows'[v].xmin = rows[v].xmin
       /\ rows'[v].xmax \in {rows[v].xmax, me, NotDeleted}
    \/ v \in nextVid .. (nextVid' - 1) /\ rows'[v].xmin = me /\ rows'[v].xmax = NotDeleted

LEMMA StampingRows ==
  ASSUME TypeOK, NEW s \in Sessions, Stamping(s)
  PROVE  /\ RowsBy(id[s]) /\ nextVid' \in Nat /\ nextVid' >= nextVid
         /\ \A v \in DOMAIN rows : v \in DOMAIN rows' /\ rows'[v].xmax \in {rows[v].xmax, id[s]}
<1>1. PICK T \in SUBSET (DOMAIN rows), n \in Nat, k \in Keys : Rewrite(T, n, k, id[s])
  BY DEF Stamping
<1> DEFINE new == nextVid .. (nextVid + n - 1)
<1>2. nextVid \in Nat /\ nextVid' = nextVid + n /\ DOMAIN rows' = DOMAIN rows \cup new
      /\ DOMAIN rows \cap new = {}
  BY <1>1 DEF Rewrite, TypeOK, TableType
<1>3. ASSUME NEW v \in DOMAIN rows
      PROVE  /\ v \in DOMAIN rows' /\ rows'[v].xmin = rows[v].xmin
             /\ rows'[v].xmax \in {rows[v].xmax, id[s]}
  <2>1. rows'[v] = IF v \in T THEN StampDelete(rows[v], id[s]) ELSE rows[v]
    BY <1>1, <1>2, <1>3 DEF Rewrite
  <2>2. rows[v] \in Row
    BY <1>3 DEF TypeOK, TableType
  <2> QED
    BY <1>2, <2>1, <2>2 DEF StampDelete, Row
<1>4. ASSUME NEW v \in new PROVE rows'[v].xmin = id[s] /\ rows'[v].xmax = NotDeleted
  BY <1>1, <1>2, <1>4 DEF Rewrite, StampInsert
<1> QED
  BY <1>2, <1>3, <1>4 DEF RowsBy

LEMMA RestoringRows ==
  ASSUME TypeOK, NEW s \in Sessions, Restoring(s)
  PROVE  /\ RowsBy(0) /\ DOMAIN rows' \subseteq DOMAIN rows
         /\ FlushFree \/ \A v \in DOMAIN rows' : rows'[v].xmax = rows[v].xmax
         /\ kept' # {} => \A v \in DOMAIN rows \ DOMAIN rows' :
              (Open(s) /\ rows[v].xmin = id[s]) \/ rows[v].xmax \in committed
<1>0. PICK D \in SUBSET (DOMAIN rows) : \E U :
        /\ rows' = [v \in D |-> IF v \in U THEN StampDelete(rows[v], NotDeleted) ELSE rows[v]]
        /\ FlushFree \/ U = {}
        /\ kept' # {} => \A v \in DOMAIN rows \ D :
             (Open(s) /\ rows[v].xmin = id[s]) \/ rows[v].xmax \in committed
  BY DEF Restoring
<1>1. PICK U :
        /\ rows' = [v \in D |-> IF v \in U THEN StampDelete(rows[v], NotDeleted) ELSE rows[v]]
        /\ FlushFree \/ U = {}
        /\ kept' # {} => \A v \in DOMAIN rows \ D :
             (Open(s) /\ rows[v].xmin = id[s]) \/ rows[v].xmax \in committed
  BY <1>0
<1>2. DOMAIN rows' = D
  BY <1>1
<1>3. ASSUME NEW v \in D
      PROVE  /\ rows'[v].xmin = rows[v].xmin /\ rows'[v].xmax \in {rows[v].xmax, 0}
             /\ v \notin U => rows'[v].xmax = rows[v].xmax
  <2>1. rows[v] \in Row
    BY <1>3 DEF TypeOK, TableType
  <2>2. rows'[v] = IF v \in U THEN StampDelete(rows[v], NotDeleted) ELSE rows[v]
    BY <1>1, <1>3
  <2> QED
    BY <2>1, <2>2 DEF StampDelete, NotDeleted, Row
<1> QED
  BY <1>1, <1>2, <1>3 DEF RowsBy, NotDeleted

-----------------------------------------------------------------------------
(***************************************************************************)
(* What a statement leaves to do on disk.                                  *)
(***************************************************************************)
LEMMA MemoryFrame ==
  ASSUME NEW s \in Sessions, MemoryStep(s)
  PROVE  /\ up /\ io[s] = NoWork
         /\ UNCHANGED <<up, file, log, removed, dubious, overlapped>>
         /\ kept' \in SUBSET kept
BY DEF MemoryStep, DBegin, DCommit, DRollback, DVacuum, DSavepoint, DInsert, DChange, DAutoStart,
   DAutoApply, DTruncate, Logs, Idle, diskVars, logVars, history

\* The work starts with nothing saved. It has made or deleted something only after
\* COMMIT and after a statement outside transactions.
NewWork(w) ==
  /\ w = [todo |-> w.todo, lock |-> w.lock, rec |-> w.rec, text |-> w.text,
          made |-> w.made, gone |-> w.gone]
  /\ w.todo \in Saving \cup Noting \cup {AutoSteps} /\ WorkOK(w)
  /\ w.lock \in {"none", "manager", "table"} /\ (w.lock = "manager" => FlushFree)
  /\ w.rec \in Changes \cup Commits \cup {NoRecord}
  /\ w.text = NoRows

Light(w) == w = NoWork \/ (NewWork(w) /\ w.made = {} /\ w.gone = {})

\* The lists of steps that are left, one by one.
LEMMA Shapes ==
  /\ SaveSteps \in Saving /\ RecoverSteps \in Saving /\ CommitSteps \in Saving
  /\ \A todo \in {<<>>} \cup Noting \cup {AutoSteps} \cup {SaveSteps, RecoverSteps} : todo \notin Committing
  /\ \A todo \in Saving \cup Closing \cup {<<"mark">>} : todo \notin {<<"log">>, AutoSteps}
  /\ \A todo \in Noting : todo \notin Saving \cup Closing \cup {AutoSteps}
  /\ \A todo \in Saving \cup {<<>>} \cup Noting \cup {AutoSteps} : todo \notin Closing
  /\ <<>> \notin Todos
BY DEF SaveSteps, RecoverSteps, CommitSteps, AutoSteps, Saving, Closing, Noting, Committing, Todos

LEMMA LeavesLight ==
  ASSUME NEW s \in Sessions, NEW lock \in {"none", "table", "manager"}, NEW rec,
         NEW todo, Leaves(s, lock, todo, rec, {}, {}), lock = "manager" => FlushFree,
         \/ todo = <<>>
         \/ todo \in {SaveSteps, RecoverSteps, <<"mark">>} /\ rec = NoRecord
         \/ todo = <<"log">> /\ rec \in Changes
  PROVE  \E w : Light(w) /\ io' = [io EXCEPT ![s] = w]
<1>1. CASE todo = <<>>
  BY <1>1 DEF Leaves, Light
<1>2. CASE todo # <<>>
  <2> DEFINE w == [todo |-> todo, lock |-> lock, rec |-> rec, text |-> NoRows,
                   made |-> {}, gone |-> {}]
  <2>1. io' = [io EXCEPT ![s] = w]
    BY <1>2 DEF Leaves
  <2>2. todo \in {SaveSteps, RecoverSteps, <<"mark">>, <<"log">>}
        /\ <<"mark">> \in Noting /\ <<"log">> \in Noting
    BY <1>2 DEF Noting
  <2>3. todo \in Saving \cup Noting /\ todo \notin Committing
    BY <2>2, Shapes
  <2>4. todo \in {<<"log">>, AutoSteps} => rec \in Changes
    BY <1>2, <2>2, Shapes
  <2>5. rec \in Changes \cup Commits \cup {NoRecord}
    BY <1>2
  <2>6. NewWork(w)
    BY <2>3, <2>4, <2>5 DEF NewWork, WorkOK
  <2>7. w.made = {} /\ w.gone = {}
    OBVIOUS
  <2> HIDE DEF w
  <2> QED
    BY <2>1, <2>6, <2>7 DEF Light
<1> QED
  BY <1>1, <1>2

LEMMA RecordType ==
  ASSUME TypeOK, NEW s \in Sessions, NEW op \in {"INSERT", "UPDATE", "DELETE"},
         NEW k \in Keys, NEW new \in Keys
  PROVE  Record(op, s, k, new) \in Changes
<1>1. id[s] \in Nat
  BY DEF TypeOK, MvccType, SessionType
<1> QED
  BY <1>1 DEF Record, Changes

\* COMMIT and a statement outside transactions leave what they made and deleted;
\* every other statement leaves light work.
LEMMA MemoryWork ==
  ASSUME TypeOK, NEW s \in Sessions, MemoryStep(s), io \in [Sessions -> Works(nextVid) \cup {NoWork}]
  PROVE  \/ \E w : Light(w) /\ io' = [io EXCEPT ![s] = w]
         \/ /\ DCommit(s)
            /\ \E w : /\ NewWork(w) /\ io' = [io EXCEPT ![s] = w]
                      /\ w.made = MadeBy(id[s]) /\ w.gone = DeletedBy(id[s])
         \/ /\ DAutoApply(s)
            /\ \E w : /\ NewWork(w) /\ io' = [io EXCEPT ![s] = w] /\ w.lock # "manager"
                      /\ w.made = nextVid .. (nextVid' - 1)
                      /\ w.gone = {v \in DOMAIN rows : rows'[v].xmax = id[s]}
<1>a. \A k \in Writes[s] : k \in Keys
  BY WorkloadAssumption
<1>b. ASSUME UNCHANGED io PROVE \E w : Light(w) /\ io' = [io EXCEPT ![s] = w]
  <2>1. io' = [io EXCEPT ![s] = NoWork]
    BY <1>b, MemoryFrame
  <2> QED
    BY <2>1 DEF Light
<1>c. ASSUME FlushFree, Logs(s) PROVE \E w : Light(w) /\ io' = [io EXCEPT ![s] = w]
  BY <1>c, LeavesLight DEF Logs
<1>1. CASE DBegin(s)
  BY <1>b, <1>c, <1>1 DEF DBegin
<1>2. CASE DCommit(s)
  <2> DEFINE w == [todo |-> CommitSteps, lock |-> "manager", rec |-> [op |-> "COMMIT", txn |-> id[s]],
                   text |-> NoRows, made |-> MadeBy(id[s]), gone |-> DeletedBy(id[s])]
  <2>1. io' = [io EXCEPT ![s] = w] /\ FlushFree
    BY <1>2 DEF DCommit, Leaves, CommitSteps
  <2>2. [op |-> "COMMIT", txn |-> id[s]] \in Commits
    BY DEF Commits, TypeOK, MvccType, SessionType
  <2>3. CommitSteps \in Saving /\ CommitSteps \notin Noting
        /\ CommitSteps \notin {<<"log">>, AutoSteps}
    BY DEF CommitSteps, Saving, Noting, AutoSteps
  <2>4. NewWork(w)
    BY <2>1, <2>2, <2>3 DEF NewWork, WorkOK
  <2>5. w.made = MadeBy(id[s]) /\ w.gone = DeletedBy(id[s])
    OBVIOUS
  <2> HIDE DEF w
  <2> QED
    BY <1>2, <2>1, <2>4, <2>5
<1>3. CASE DRollback(s)
  BY <1>c, <1>3 DEF DRollback
<1>4. CASE DVacuum(s)
  <2>1. FlushFree
    BY <1>4 DEF DVacuum
  <2>2. \E todo \in {<<>>, SaveSteps} : Leaves(s, "manager", todo, NoRecord, {}, {})
    BY <1>4 DEF DVacuum
  <2> QED
    BY <2>1, <2>2, LeavesLight
<1>5. ASSUME NEW n \in SpNames, DSavepoint(s, n) PROVE \E w : Light(w) /\ io' = [io EXCEPT ![s] = w]
  BY <1>c, <1>5 DEF DSavepoint
<1>6. ASSUME NEW k \in Writes[s], DInsert(s, k) PROVE \E w : Light(w) /\ io' = [io EXCEPT ![s] = w]
  <2>1. Record("INSERT", s, k, k) \in Changes
    BY <1>a, RecordType
  <2> QED
    BY <1>6, <2>1, LeavesLight DEF DInsert
<1>7. ASSUME NEW k \in Writes[s], NEW new \in Writes[s], DChange(s, k, new)
      PROVE  \E w : Light(w) /\ io' = [io EXCEPT ![s] = w]
  <2>1. Record("UPDATE", s, k, new) \in Changes /\ Record("DELETE", s, k, k) \in Changes
    BY <1>a, RecordType
  <2>2. \E todo \in {<<>>, <<"log">>} : \E rec \in Changes : Leaves(s, "none", todo, rec, {}, {})
    BY <1>7, <2>1 DEF DChange
  <2> QED
    BY <2>2, LeavesLight
<1>8. CASE DAutoStart(s)
  BY <1>b, <1>8 DEF DAutoStart
<1>9. CASE DAutoApply(s)
  <2> DEFINE made == nextVid .. (nextVid' - 1)
             gone == {v \in DOMAIN rows : rows'[v].xmax = id[s]}
             rec == Record(LogName[stmt[s].op], s, stmt[s].key, stmt[s].new)
             todo == IF rows' = rows THEN <<>> ELSE AutoSteps
             lock == IF stmt[s].op = "insert" THEN "table" ELSE "none"
             w == [todo |-> todo, lock |-> lock, rec |-> rec,
                   text |-> NoRows, made |-> made, gone |-> gone]
  <2>1. Leaves(s, lock, todo, rec, made, gone)
    BY <1>9 DEF DAutoApply
  <2>2. CASE rows' = rows
    <3>1. io' = [io EXCEPT ![s] = NoWork]
      BY <2>1, <2>2 DEF Leaves
    <3> QED
      BY <3>1 DEF Light
  <2>3. CASE rows' # rows
    <3>1. io' = [io EXCEPT ![s] = w] /\ todo = AutoSteps
      BY <2>1, <2>3 DEF Leaves, AutoSteps
    <3>2. rec \in Changes
      <4>1. stmt[s].key \in Keys /\ stmt[s].new \in Keys /\ stmt[s].op \in Ops
        BY <1>9 DEF DAutoApply, AutoApply, TypeOK, SessionType, InStatement, Stmts, NoStmt
      <4>2. LogName[stmt[s].op] \in {"INSERT", "UPDATE", "DELETE"}
        BY <4>1 DEF LogName, Ops
      <4> HIDE DEF w, todo, lock
      <4> QED
        BY <4>1, <4>2, RecordType
    <3>3. AutoSteps \notin Noting /\ AutoSteps \notin Committing
      BY DEF AutoSteps, Noting, Committing
    <3>4. NewWork(w) /\ w.lock # "manager"
      <4> HIDE DEF rec, made, gone
      <4> QED
        BY <3>1, <3>2, <3>3 DEF NewWork, WorkOK
    <3>5. w.made = made /\ w.gone = gone
      OBVIOUS
    <3> HIDE DEF w, rec, todo, lock
    <3> QED
      BY <1>9, <3>1, <3>4, <3>5
  <2> QED
    BY <2>2, <2>3
<1>10. CASE DTruncate(s)
  BY <1>10, LeavesLight DEF DTruncate
<1> QED
  BY <1>1, <1>2, <1>3, <1>4, <1>5, <1>6, <1>7, <1>8, <1>9, <1>10 DEF MemoryStep

-----------------------------------------------------------------------------
(***************************************************************************)
(* Types are kept by the statements in memory.                             *)
(***************************************************************************)
LEMMA SizesGrow ==
  ASSUME NEW n \in Nat, NEW m \in Nat, n <= m
  PROVE  /\ 1..(n - 1) \subseteq 1..(m - 1)
         /\ Tables(n) \subseteq Tables(m) /\ Works(n) \subseteq Works(m)
<1>1. 1..(n - 1) \subseteq 1..(m - 1)
  OBVIOUS
<1>2. Tables(n) \subseteq Tables(m)
  <2>1. ASSUME NEW D \in SUBSET (1..(n - 1)) PROVE D \in SUBSET (1..(m - 1))
    BY <1>1, <2>1
  <2> QED
    BY <2>1 DEF Tables
<1>3. SUBSET (1..(n - 1)) \subseteq SUBSET (1..(m - 1))
  BY <1>1
<1>4. Works(n) \subseteq Works(m)
  BY <1>2, <1>3 DEF Works
<1> QED
  BY <1>1, <1>2, <1>4

LEMMA NoRowsType ==
  ASSUME NEW n \in Nat
  PROVE  NoRows \in Tables(n) /\ \A m : StampsBelow(NoRows, m)
<1>1. NoRows \in [{} -> Row] /\ {} \in SUBSET (1..(n - 1)) /\ DOMAIN NoRows = {}
  BY DEF NoRows
<1> QED
  BY <1>1 DEF Tables, StampsBelow

LEMMA MemoryCounters ==
  ASSUME TypeOK, NEW s \in Sessions, MemoryStep(s)
  PROVE  /\ nextVid \in Nat /\ nextVid' \in Nat /\ nextVid <= nextVid'
         /\ nextId \in Nat /\ nextId' \in Nat /\ nextId <= nextId'
         /\ \E me \in {0, id[s]} : RowsBy(me)
<1>0. nextVid \in Nat /\ nextId \in Nat
  BY DEF TypeOK, TableType, MvccType
<1>1. CASE Stamping(s)
  <2>1. nextId' = nextId
    BY <1>1 DEF Stamping, mvccVars
  <2>2. RowsBy(id[s]) /\ nextVid' \in Nat /\ nextVid' >= nextVid
    BY <1>1, StampingRows
  <2> QED
    BY <1>0, <2>1, <2>2
<1>2. CASE Restoring(s)
  BY <1>0, <1>2, RestoringRows DEF Restoring
<1>3. CASE LeavingRows(s)
  <2>1. nextVid' = nextVid /\ nextId' \in {nextId, nextId + 1} /\ rows' = rows
    BY <1>3 DEF LeavingRows
  <2>2. RowsBy(0)
    BY <2>1 DEF RowsBy
  <2> QED
    BY <1>0, <2>1, <2>2
<1> QED
  BY <1>1, <1>2, <1>3, MemoryEffect

\* New work fits the sizes of the table.
LEMMA MemoryWorkType ==
  ASSUME TypeOK, NEW s \in Sessions, MemoryStep(s), io \in [Sessions -> Works(nextVid) \cup {NoWork}]
  PROVE  \E w \in Works(nextVid') \cup {NoWork} :
           /\ io' = [io EXCEPT ![s] = w]
           /\ WorkOK(w) /\ w.text = NoRows /\ w.todo \notin Closing
           /\ w.lock = "manager" => FlushFree
<1>0. /\ nextVid \in Nat /\ nextVid' \in Nat /\ nextVid <= nextVid'
      /\ DOMAIN rows \in SUBSET (1..(nextVid - 1))
  BY MemoryCounters DEF TypeOK, TableType
<1>1. NoRows \in Tables(nextVid')
  BY <1>0, NoRowsType
<1>2. ASSUME NEW w, NewWork(w), w.made \in SUBSET (1..(nextVid' - 1)),
             w.gone \in SUBSET (1..(nextVid' - 1))
      PROVE  w \in Works(nextVid') /\ w.todo \notin Closing
  <2>1. w.todo \in Todos /\ w.todo \notin Closing
    BY <1>2, Shapes DEF NewWork, Todos
  <2> QED
    BY <1>1, <1>2, <2>1 DEF NewWork, Works
<1>3. ASSUME NEW w, Light(w), io' = [io EXCEPT ![s] = w]
      PROVE  /\ w \in Works(nextVid') \cup {NoWork}
             /\ WorkOK(w) /\ w.text = NoRows /\ w.todo \notin Closing
             /\ w.lock = "manager" => FlushFree
  <2>1. CASE w = NoWork
    <3>1. w.todo = <<>> /\ w.lock = "none" /\ w.text = NoRows /\ w.made = {} /\ w.gone = {}
      BY <2>1 DEF NoWork
    <3>2. <<>> \notin Committing /\ <<>> \notin Closing /\ <<>> \notin Noting
          /\ <<>> \notin {<<"log">>, AutoSteps}
      BY Shapes DEF Todos
    <3> QED
      BY <2>1, <3>1, <3>2 DEF WorkOK
  <2>2. CASE w # NoWork
    <3>1. NewWork(w) /\ w.made = {} /\ w.gone = {}
      BY <1>3, <2>2 DEF Light
    <3> QED
      BY <1>2, <3>1 DEF NewWork
  <2> QED
    BY <2>1, <2>2
<1>4. ASSUME NEW w, NewWork(w), io' = [io EXCEPT ![s] = w],
             w.made = MadeBy(id[s]), w.gone = DeletedBy(id[s])
      PROVE  /\ w \in Works(nextVid')
             /\ WorkOK(w) /\ w.text = NoRows /\ w.todo \notin Closing
             /\ w.lock = "manager" => FlushFree
  <2>1. MadeBy(id[s]) \in SUBSET (1..(nextVid' - 1)) /\ DeletedBy(id[s]) \in SUBSET (1..(nextVid' - 1))
    BY <1>0 DEF MadeBy, DeletedBy
  <2> QED
    BY <1>2, <1>4, <2>1 DEF NewWork
<1>5. ASSUME NEW w, NewWork(w), io' = [io EXCEPT ![s] = w],
             w.made = nextVid .. (nextVid' - 1),
             w.gone = {v \in DOMAIN rows : rows'[v].xmax = id[s]}
      PROVE  /\ w \in Works(nextVid')
             /\ WorkOK(w) /\ w.text = NoRows /\ w.todo \notin Closing
             /\ w.lock = "manager" => FlushFree
  <2>1. nextVid \in Nat \ {0}
    BY DEF TypeOK, TableType
  <2>2. ASSUME NEW a \in Nat \ {0}, NEW b \in Nat PROVE a .. (b - 1) \subseteq 1..(b - 1)
    OBVIOUS
  <2>3. w.gone \subseteq DOMAIN rows /\ DOMAIN rows \subseteq 1..(nextVid' - 1)
    BY <1>0, <1>5
  <2> QED
    BY <1>0, <1>2, <1>5, <2>1, <2>2, <2>3 DEF NewWork
<1> QED
  BY <1>3, <1>4, <1>5, MemoryWork

LEMMA MemoryTypes ==
  ASSUME IInv, IInv', DiskType, WorkInv, NEW s \in Sessions, MemoryStep(s)
  PROVE  DiskType' /\ WorkInv'
<1>1. /\ nextVid \in Nat /\ nextVid' \in Nat /\ nextVid <= nextVid'
      /\ nextId \in Nat /\ nextId' \in Nat /\ nextId <= nextId'
  BY MemoryCounters DEF IInv
<1>2. PICK w \in Works(nextVid') \cup {NoWork} :
           /\ io' = [io EXCEPT ![s] = w]
           /\ WorkOK(w) /\ w.text = NoRows /\ w.todo \notin Closing
           /\ w.lock = "manager" => FlushFree
  BY MemoryWorkType DEF IInv, DiskType
<1>3. /\ up /\ io[s] = NoWork
      /\ UNCHANGED <<up, file, log, removed, dubious, overlapped>>
      /\ kept' \in SUBSET kept
  BY MemoryFrame
<1>4. /\ 1..(nextVid - 1) \subseteq 1..(nextVid' - 1)
      /\ Tables(nextVid) \subseteq Tables(nextVid') /\ Works(nextVid) \subseteq Works(nextVid')
  BY <1>1, SizesGrow
<1>5. io' \in [Sessions -> Works(nextVid') \cup {NoWork}]
  BY <1>2, <1>4 DEF DiskType
<1>6. ASSUME NEW table, NEW n \in Nat, table \in Tables(n), StampsBelow(table, nextId)
      PROVE  StampsBelow(table, nextId')
  <2>1. \A v \in DOMAIN table : table[v] \in Row
    BY <1>6 DEF Tables
  <2> QED
    BY <1>1, <1>6, <2>1 DEF StampsBelow, Row
<1>7. up' => StampsBelow(file'.rows, nextId')
  BY <1>1, <1>3, <1>6 DEF DiskType
<1>8. ASSUME NEW t \in Sessions PROVE StampsBelow(io'[t].text, nextId')
  <2>1. CASE t = s
    BY <1>1, <1>2, <2>1, NoRowsType DEF DiskType
  <2>2. CASE t # s
    <3>1. io'[t] = io[t] /\ io[t] \in Works(nextVid) \cup {NoWork}
      BY <1>2, <2>2 DEF DiskType
    <3>2. io[t].text \in Tables(nextVid)
      BY <1>1, <3>1, NoRowsType DEF Works, NoWork
    <3> QED
      BY <1>1, <1>6, <3>1, <3>2 DEF DiskType
  <2> QED
    BY <2>1, <2>2
<1>9. DiskType'
  BY <1>3, <1>4, <1>5, <1>7, <1>8 DEF DiskType
<1>10. WorkInv'
  BY <1>2, <1>3 DEF WorkInv, DiskType, FlushFree
<1> QED
  BY <1>9, <1>10

-----------------------------------------------------------------------------
(***************************************************************************)
(* The rows in memory stay as MemoryInv says under the statements.         *)
(***************************************************************************)

\* Whose statement outside transactions is on its way after the step.
LEMMA StatementsInStep ==
  ASSUME TypeOK, NEW s \in Sessions, MemoryStep(s), NEW u \in Sessions, InStatement(u)'
  PROVE  \/ u # s /\ InStatement(u) /\ id'[u] = id[u]
         \/ rows' = rows /\ InStatement(u) /\ id'[u] = id[u]
         \/ rows' = rows /\ id'[u] = nextId
<1> USE DEF TypeOK, SessionType, InStatement
<1>1. CASE DBegin(s)
  BY <1>1 DEF DBegin, BeginAllocate, BeginSnapshot, AllocateTxnId
<1>2. CASE DCommit(s)
  BY <1>2 DEF DCommit, Commit, Reset
<1>3. CASE DRollback(s)
  BY <1>3 DEF DRollback, Rollback, Reset
<1>4. CASE DVacuum(s)
  BY <1>4 DEF DVacuum, Vacuum, Ready, sessionVars
<1>5. ASSUME NEW n \in SpNames, DSavepoint(s, n)
      PROVE  u # s /\ InStatement(u) /\ id'[u] = id[u]
  BY <1>5 DEF DSavepoint, Savepoint, RollbackTo, ReleaseSavepoint, Open
<1>6. ASSUME NEW k \in Writes[s], DInsert(s, k)
      PROVE  u # s /\ InStatement(u) /\ id'[u] = id[u]
  BY <1>6 DEF DInsert, Insert, Open, sessionVars
<1>7. ASSUME NEW k \in Writes[s], NEW new \in Writes[s], DChange(s, k, new)
      PROVE  u # s /\ InStatement(u) /\ id'[u] = id[u]
  BY <1>7 DEF DChange, Update, Delete, Open, sessionVars
<1>8. CASE DAutoStart(s)
  BY <1>8 DEF DAutoStart, AutoAllocate, AutoMark, AutoSnapshot, AllocateTxnId, tableVars
<1>9. CASE DAutoApply(s)
  BY <1>9 DEF DAutoApply, AutoApply, Reset
<1>10. CASE DTruncate(s)
  BY <1>10 DEF DTruncate, Truncate, Ready, sessionVars
<1> QED
  BY <1>1, <1>2, <1>3, <1>4, <1>5, <1>6, <1>7, <1>8, <1>9, <1>10 DEF MemoryStep

LEMMA FreshIdsKept ==
  ASSUME IInv, FreshIds, NEW s \in Sessions, MemoryStep(s)
  PROVE  FreshIds'
<1> SUFFICES ASSUME NEW u \in Sessions, InStatement(u)', NEW v \in DOMAIN rows'
             PROVE  rows'[v].xmin # id'[u] /\ rows'[v].xmax # id'[u]
  BY DEF FreshIds
<1>1. CASE rows' = rows /\ id'[u] = nextId
  <2>1. rows[v].xmin < nextId /\ rows[v].xmax < nextId /\ nextId \in Nat
        /\ rows[v].xmin \in Nat /\ rows[v].xmax \in Nat
    BY <1>1 DEF IInv, TypeOK, TableType, MvccType, Row
  <2> QED
    BY <1>1, <2>1
<1>2. CASE rows' = rows /\ InStatement(u) /\ id'[u] = id[u]
  BY <1>2 DEF FreshIds
<1>3. CASE u # s /\ InStatement(u) /\ id'[u] = id[u]
  <2>1. id[u] # 0 /\ id[u] # id[s]
    BY <1>3 DEF IInv, IdDiscipline, InStatement
  <2>2. PICK me \in {0, id[s]} : RowsBy(me)
    BY MemoryCounters DEF IInv
  <2> QED
    BY <1>3, <2>1, <2>2 DEF RowsBy, FreshIds, NotDeleted
<1> QED
  BY <1>1, <1>2, <1>3, StatementsInStep DEF IInv

LEMMA KeptStays ==
  ASSUME IInv, FreshIds, KeptInMemory, NEW s \in Sessions, MemoryStep(s)
  PROVE  KeptInMemory'
<1>1. up /\ kept' \in SUBSET kept
  BY MemoryFrame
<1> SUFFICES ASSUME NEW v \in kept'
             PROVE  /\ v \in DOMAIN rows' /\ rows'[v].xmin \in committed' \cup {AutoCommit}
                    /\ rows'[v].xmax \notin committed'
  BY DEF KeptInMemory
<1>2. /\ v \in DOMAIN rows /\ rows[v].xmin \in committed \cup {AutoCommit}
      /\ rows[v].xmax \notin committed
  BY <1>1 DEF KeptInMemory
<1>3. /\ committed \cap active = {} /\ 0 \notin active /\ 0 \notin committed
      /\ Open(s) => id[s] \in active
  BY DEF IInv, IdDiscipline, Open, HoldsActive, TypeOK, MvccType
<1>4. v \notin nextVid .. (nextVid' - 1)
  BY <1>2 DEF IInv, TypeOK, TableType
<1>5. CASE Stamping(s)
  <2>1. RowsBy(id[s]) /\ v \in DOMAIN rows' /\ rows'[v].xmax \in {rows[v].xmax, id[s]}
    BY <1>2, <1>5, StampingRows DEF IInv
  <2>2. committed' = committed
    BY <1>5 DEF Stamping, mvccVars
  <2>3. rows'[v].xmax = id[s] => id[s] \in active
    BY <1>2, <1>3, <1>5 DEF Stamping
  <2> QED
    BY <1>2, <1>3, <1>4, <2>1, <2>2, <2>3 DEF RowsBy
<1>6. CASE Restoring(s)
  <2>1. RowsBy(0) /\ committed' = committed
    BY <1>6, RestoringRows DEF IInv, Restoring
  <2>2. v \in DOMAIN rows'
    BY <1>2, <1>3, <1>6, RestoringRows DEF IInv, AutoCommit
  <2> QED
    BY <1>2, <1>3, <1>4, <2>1, <2>2 DEF RowsBy, NotDeleted
<1>7. CASE LeavingRows(s)
  <2>1. rows[v].xmax = id[s] => committed' = committed
    BY <1>2, <1>7 DEF LeavingRows, FreshIds, DeletedBy
  <2> QED
    BY <1>2, <1>7, <2>1 DEF LeavingRows
<1> QED
  BY <1>5, <1>6, <1>7, MemoryEffect DEF IInv

\* What a statement deleted and committed is stamped with its id, and what it made
\* carries it as creator; what it replaced is among the former.
LEMMA MemoryWorkRows ==
  ASSUME IInv, DiskType, FreshIds, KeptInMemory, NEW s \in Sessions, MemoryStep(s)
  PROVE  \E w : /\ io' = [io EXCEPT ![s] = w]
                /\ \A v \in w.made \cap DOMAIN rows' : rows'[v].xmin \in committed'
                /\ \A v, x \in DOMAIN rows' : Replaces(rows', x, v) =>
                     /\ x \in kept' => v \notin w.made
                     /\ x \in w.made => v \in w.gone
                /\ \A v \in w.gone \cap DOMAIN rows' : rows'[v].xmax # NotDeleted
<1>1. ASSUME NEW w, Light(w) PROVE w.made = {} /\ w.gone = {}
  BY <1>1 DEF Light, NoWork
<1>2. ASSUME DCommit(s), NEW w, w.made = MadeBy(id[s]), w.gone = DeletedBy(id[s])
      PROVE  /\ \A v \in w.made \cap DOMAIN rows' : rows'[v].xmin \in committed'
             /\ \A v, x \in DOMAIN rows' : Replaces(rows', x, v) =>
                  /\ x \in kept' => v \notin w.made
                  /\ x \in w.made => v \in w.gone
             /\ \A v \in w.gone \cap DOMAIN rows' : rows'[v].xmax # NotDeleted
  <2>1. rows' = rows /\ Open(s) /\ committed' = committed \cup {id[s]} /\ kept' \subseteq kept /\ up
    BY <1>2 DEF DCommit, Commit, MarkCommitted, tableVars, Idle
  <2>2. id[s] # 0 /\ id[s] \in active /\ id[s] \notin committed
    BY <2>1 DEF IInv, IdDiscipline, Open, HoldsActive
  <2>3. \A v \in MadeBy(id[s]) : v \in DOMAIN rows /\ rows[v].xmin = id[s]
    BY DEF MadeBy
  <2>4. \A v \in DOMAIN rows : v \in DeletedBy(id[s]) <=> rows[v].xmax = id[s]
    BY DEF DeletedBy
  <2>5. ASSUME NEW v \in DOMAIN rows, NEW x \in DOMAIN rows, Replaces(rows, x, v)
        PROVE  /\ x \in kept' => v \notin w.made
               /\ x \in w.made => v \in w.gone
    <3>1. rows[x].xmin = rows[v].xmax /\ rows[v].xmax # NotDeleted
      BY <2>5 DEF Replaces
    <3>2. ASSUME x \in kept', v \in w.made PROVE FALSE
      <4>1. rows[v].xmin = id[s]
        BY <1>2, <2>3, <3>2
      <4>2. rows[v].xmax = id[s]
        BY <2>2, <3>1, <4>1 DEF IInv, StampInv, UncommittedUntouched
      <4>3. rows[x].xmin \in committed \cup {AutoCommit}
        BY <2>1, <3>2 DEF KeptInMemory
      <4> QED
        BY <2>2, <3>1, <4>2, <4>3 DEF AutoCommit
    <3> QED
      BY <1>2, <2>3, <2>4, <3>1, <3>2
  <2> QED
    BY <1>2, <2>1, <2>2, <2>3, <2>4, <2>5 DEF NotDeleted
<1>3. ASSUME DAutoApply(s), NEW w, w.made = nextVid .. (nextVid' - 1),
             w.gone = {v \in DOMAIN rows : rows'[v].xmax = id[s]}
      PROVE  /\ \A v \in w.made \cap DOMAIN rows' : rows'[v].xmin \in committed'
             /\ \A v, x \in DOMAIN rows' : Replaces(rows', x, v) =>
                  /\ x \in kept' => v \notin w.made
                  /\ x \in w.made => v \in w.gone
             /\ \A v \in w.gone \cap DOMAIN rows' : rows'[v].xmax # NotDeleted
  <2>1. pc[s] = "ready" /\ committed' = committed
    BY <1>3 DEF DAutoApply, AutoApply, mvccVars
  <2>2. id[s] # 0 /\ id[s] \in committed
    BY <2>1 DEF IInv, IdDiscipline
  <2>4. RowsBy(id[s])
    <3>2. stmt[s].key \in Keys /\ stmt[s].new \in Keys
      BY <2>1 DEF IInv, TypeOK, SessionType, InStatement, Stmts, NoStmt
    <3>3. \A v \in kept' \cap DOMAIN rows : rows'[v].xmax # id[s]
      BY <1>3 DEF DAutoApply
    <3>4. Stamping(s)
      BY <1>3, <3>2, <3>3, RewriteIsStamping DEF DAutoApply, AutoApply, IInv
    <3> QED
      BY <3>4, StampingRows DEF IInv
  <2>5. DOMAIN rows \cap (nextVid .. (nextVid' - 1)) = {}
    BY DEF IInv, TypeOK, TableType
  <2>6. \A v \in DOMAIN rows' : v \in nextVid .. (nextVid' - 1) =>
          rows'[v].xmin = id[s] /\ rows'[v].xmax = 0
    BY <2>4, <2>5 DEF RowsBy, NotDeleted
  <2>7. \A v \in DOMAIN rows' : rows'[v].xmax = id[s] => v \in w.gone
    BY <1>3, <2>2, <2>4 DEF RowsBy, NotDeleted
  <2> HIDE DEF RowsBy
  <2> QED
    BY <1>3, <2>1, <2>2, <2>6, <2>7 DEF Replaces, NotDeleted
<1> QED
  BY <1>1, <1>2, <1>3, MemoryWork DEF IInv, DiskType

LEMMA MadeStays ==
  ASSUME IInv, DiskType, FreshIds, KeptInMemory, MadeInMemory, NEW s \in Sessions, MemoryStep(s)
  PROVE  MadeInMemory'
<1> SUFFICES ASSUME NEW t \in Sessions, NEW v \in io'[t].made \cap DOMAIN rows'
             PROVE  rows'[v].xmin \in committed'
  BY DEF MadeInMemory
<1>1. CASE t = s
  BY <1>1, MemoryWorkRows DEF DiskType
<1>2. CASE t # s
  <2>1. io'[t] = io[t]
    BY <1>2, MemoryWorkRows DEF DiskType
  <2>2. v \in 1..(nextVid - 1)
    BY <2>1 DEF DiskType, Works, NoWork
  <2>3. v \in DOMAIN rows /\ rows'[v].xmin = rows[v].xmin
    <3>1. PICK me \in {0, id[s]} : RowsBy(me)
      BY MemoryCounters DEF IInv
    <3>2. v \notin nextVid .. (nextVid' - 1)
      BY <2>2, MemoryCounters DEF IInv
    <3> QED
      BY <3>1, <3>2 DEF RowsBy
  <2>4. committed \subseteq committed'
    BY MemoryIsNext, CommittedGrows
  <2> QED
    BY <2>1, <2>3, <2>4 DEF MadeInMemory
<1> QED
  BY <1>1, <1>2

LEMMA LinkedStays ==
  ASSUME IInv, DiskType, MemoryInv, NEW s \in Sessions, MemoryStep(s)
  PROVE  Linked(rows', Sessions, kept', removed', io')
<1> USE DEF MemoryInv
<1>0. /\ up /\ removed' = removed /\ kept' \in SUBSET kept
  BY MemoryFrame
<1>1. /\ DOMAIN rows \cap (nextVid .. (nextVid' - 1)) = {}
      /\ kept \cap (nextVid .. (nextVid' - 1)) = {}
      /\ \A t \in Sessions : (io[t].made \cup io[t].gone) \cap (nextVid .. (nextVid' - 1)) = {}
  <2>1. nextVid \in Nat /\ nextVid' \in Nat
    BY MemoryCounters DEF IInv
  <2>2. ASSUME NEW a \in Nat, NEW b \in Nat PROVE (1..(a - 1)) \cap (a .. (b - 1)) = {}
    OBVIOUS
  <2>3. /\ DOMAIN rows \subseteq 1..(nextVid - 1) /\ kept \subseteq 1..(nextVid - 1)
        /\ \A t \in Sessions : io[t].made \cup io[t].gone \subseteq 1..(nextVid - 1)
    BY DEF DiskType, Works, NoWork, IInv, TypeOK, TableType
  <2> HIDE DEF MemoryInv
  <2>4. (1..(nextVid - 1)) \cap (nextVid .. (nextVid' - 1)) = {}
    BY <2>1, <2>2
  <2> QED
    BY <2>3, <2>4
<1>2. /\ committed \cap active = {} /\ 0 \notin active /\ 0 \notin committed
      /\ Open(s) => id[s] \in active
      /\ id[s] \in Nat
  BY DEF IInv, IdDiscipline, Open, HoldsActive, TypeOK, MvccType, SessionType
<1>3. Linked(rows', Sessions, kept, removed, io)
  <2>1. CASE Stamping(s)
    <3>1. /\ RowsBy(id[s])
          /\ \A v \in DOMAIN rows : v \in DOMAIN rows' /\ rows'[v].xmax \in {rows[v].xmax, id[s]}
      BY <2>1, StampingRows DEF IInv
    <3>2. id[s] # 0
      BY <1>2, <2>1 DEF Stamping, IInv, IdDiscipline
    <3>3. ASSUME NEW w \in DOMAIN rows', rows'[w].xmin = id[s]
          PROVE  w \notin kept /\ \A t \in Sessions : w \notin io[t].made
      <4>1. CASE w \in nextVid .. (nextVid' - 1)
        BY <1>1, <4>1
      <4>2. CASE w \notin nextVid .. (nextVid' - 1)
        <5>1. w \in DOMAIN rows /\ rows[w].xmin = id[s]
          BY <3>1, <3>3, <4>2 DEF RowsBy
        <5>2. CASE Open(s)
          BY <1>0, <1>2, <3>2, <5>1, <5>2 DEF KeptInMemory, MadeInMemory, AutoCommit
        <5>3. CASE ~Open(s)
          BY <2>1, <5>1, <5>3 DEF Stamping, FreshIds, InStatement
        <5> QED
          BY <5>2, <5>3
      <4> QED
        BY <4>1, <4>2
    <3>4. \A v \in DOMAIN rows' :
           \/ v \in DOMAIN rows /\ rows'[v].xmin = rows[v].xmin
              /\ rows'[v].xmax \in {rows[v].xmax, id[s], NotDeleted}
           \/ v \notin DOMAIN rows /\ rows'[v].xmax = NotDeleted
              /\ v \notin kept /\ \A t \in Sessions : v \notin io[t].made \cup io[t].gone
      BY <1>1, <3>1 DEF RowsBy
    <3>5. \A v \in DOMAIN rows' \cap DOMAIN rows : rows'[v].xmax \in {rows[v].xmax, id[s]} /\ id[s] # 0
      BY <3>1, <3>2
    <3> QED
      BY <1>2, <3>3, <3>4, <3>5, LinkedChange
  <2>2. CASE Restoring(s)
    <3>1. /\ RowsBy(0) /\ DOMAIN rows' \subseteq DOMAIN rows
          /\ FlushFree \/ \A v \in DOMAIN rows' : rows'[v].xmax = rows[v].xmax
      BY <2>2, RestoringRows DEF IInv
    <3>2. \A v \in DOMAIN rows' :
             v \in DOMAIN rows /\ rows'[v].xmin = rows[v].xmin
             /\ rows'[v].xmax \in {rows[v].xmax, 0, NotDeleted}
      BY <1>1, <3>1 DEF RowsBy
    <3> QED
      BY <3>1, <3>2, LinkedChange DEF FlushFree
  <2>3. CASE LeavingRows(s)
    BY <2>3 DEF LeavingRows
  <2> QED
    BY <2>1, <2>2, <2>3, MemoryEffect DEF IInv
<1>4. Linked(rows', Sessions, kept', removed, io)
  <2> HIDE DEF MemoryInv
  <2> QED
    BY <1>0, <1>3, LinkedLess
<1>5. PICK w : /\ io' = [io EXCEPT ![s] = w]
               /\ \A v, x \in DOMAIN rows' : Replaces(rows', x, v) =>
                    /\ x \in kept' => v \notin w.made
                    /\ x \in w.made => v \in w.gone
               /\ \A v \in w.gone \cap DOMAIN rows' : rows'[v].xmax # NotDeleted
  BY MemoryWorkRows
<1>6. io'[s] = w /\ \A t \in Sessions \ {s} : io'[t] = io[t]
  BY <1>5 DEF DiskType
<1> HIDE DEF MemoryInv
<1>7. /\ \A v, x \in DOMAIN rows' : Replaces(rows', x, v) =>
           /\ x \in kept' => v \notin io'[s].made
           /\ x \in io'[s].made => v \in io'[s].gone
      /\ \A v \in io'[s].gone \cap DOMAIN rows' : rows'[v].xmax # NotDeleted
  BY <1>5, <1>6
<1>8. Linked(rows', Sessions, kept', removed, io')
  BY <1>4, <1>6, <1>7, LinkedSave
<1> QED
  BY <1>0, <1>8

LEMMA MemoryRows ==
  ASSUME IInv, DiskType, MemoryInv, NEW s \in Sessions, MemoryStep(s)
  PROVE  MemoryInv'
BY FreshIdsKept, KeptStays, MadeStays, LinkedStays DEF MemoryInv

-----------------------------------------------------------------------------
(***************************************************************************)
(* What is left of a list of steps after its first.                        *)
(***************************************************************************)
LEMMA NextSteps ==
  ASSUME NEW todo \in Todos, Len(todo) > 1
  PROVE  /\ Tail(todo) \in Todos /\ Tail(todo) \notin Noting \cup {AutoSteps, <<"log">>}
         /\ Tail(todo) \in Committing => todo \in Committing
         /\ todo \in Closing => Tail(todo) \in Closing
         /\ Tail(todo) \in Closing => todo \in Closing \/ Head(todo) = "open"
         /\ Tail(todo) # <<>> /\ (Head(Tail(todo)) = "close" <=> Head(todo) = "open")
<1>1. CASE todo = <<"mark">>
  BY <1>1 DEF Todos, Saving, Closing, Noting, AutoSteps, Committing
<1>2. CASE todo = <<"log">>
  BY <1>2 DEF Todos, Saving, Closing, Noting, AutoSteps, Committing
<1>3. CASE todo = <<"log", "open", "close">>
  BY <1>3 DEF Todos, Saving, Closing, Noting, AutoSteps, Committing
<1>4. CASE todo = <<"open", "close">>
  BY <1>4 DEF Todos, Saving, Closing, Noting, AutoSteps, Committing
<1>5. CASE todo = <<"open", "close", "checkpoint">>
  BY <1>5 DEF Todos, Saving, Closing, Noting, AutoSteps, Committing
<1>6. CASE todo = <<"open", "close", "commit", "checkpoint">>
  BY <1>6 DEF Todos, Saving, Closing, Noting, AutoSteps, Committing
<1>7. CASE todo = <<"close">>
  BY <1>7 DEF Todos, Saving, Closing, Noting, AutoSteps, Committing
<1>8. CASE todo = <<"close", "checkpoint">>
  BY <1>8 DEF Todos, Saving, Closing, Noting, AutoSteps, Committing
<1>9. CASE todo = <<"close", "commit", "checkpoint">>
  BY <1>9 DEF Todos, Saving, Closing, Noting, AutoSteps, Committing
<1>10. CASE todo = <<"commit", "checkpoint">>
  BY <1>10 DEF Todos, Saving, Closing, Noting, AutoSteps, Committing
<1>11. CASE todo = <<"checkpoint">>
  BY <1>11 DEF Todos, Saving, Closing, Noting, AutoSteps, Committing
<1> QED
  BY <1>1, <1>2, <1>3, <1>4, <1>5, <1>6, <1>7, <1>8, <1>9, <1>10, <1>11 DEF Todos, Saving, Closing, Noting, AutoSteps

LEMMA FirstSteps ==
  ASSUME NEW todo \in Todos
  PROVE  /\ Len(todo) <= 1 => todo \in Closing \cup Noting
         /\ Head(todo) = "open" => todo \in Saving /\ Len(todo) > 1 /\ Tail(todo) \in Closing
         /\ Head(todo) \in {"close", "commit", "checkpoint"} => todo \in Closing
         /\ Head(todo) = "commit" => todo \in Committing /\ Len(todo) > 1
         /\ Head(todo) = "checkpoint" => ~(Len(todo) > 1)
         /\ Head(todo) = "log" => todo \in {<<"log">>, AutoSteps}
         /\ Head(todo) = "mark" => todo \in Noting
         /\ todo \in Saving \cup Noting \cup {AutoSteps} => Head(todo) # "close"
<1>1. CASE todo = <<"mark">>
  BY <1>1 DEF Todos, Saving, Closing, Noting, AutoSteps, Committing
<1>2. CASE todo = <<"log">>
  BY <1>2 DEF Todos, Saving, Closing, Noting, AutoSteps, Committing
<1>3. CASE todo = <<"log", "open", "close">>
  BY <1>3 DEF Todos, Saving, Closing, Noting, AutoSteps, Committing
<1>4. CASE todo = <<"open", "close">>
  BY <1>4 DEF Todos, Saving, Closing, Noting, AutoSteps, Committing
<1>5. CASE todo = <<"open", "close", "checkpoint">>
  BY <1>5 DEF Todos, Saving, Closing, Noting, AutoSteps, Committing
<1>6. CASE todo = <<"open", "close", "commit", "checkpoint">>
  BY <1>6 DEF Todos, Saving, Closing, Noting, AutoSteps, Committing
<1>7. CASE todo = <<"close">>
  BY <1>7 DEF Todos, Saving, Closing, Noting, AutoSteps, Committing
<1>8. CASE todo = <<"close", "checkpoint">>
  BY <1>8 DEF Todos, Saving, Closing, Noting, AutoSteps, Committing
<1>9. CASE todo = <<"close", "commit", "checkpoint">>
  BY <1>9 DEF Todos, Saving, Closing, Noting, AutoSteps, Committing
<1>10. CASE todo = <<"commit", "checkpoint">>
  BY <1>10 DEF Todos, Saving, Closing, Noting, AutoSteps, Committing
<1>11. CASE todo = <<"checkpoint">>
  BY <1>11 DEF Todos, Saving, Closing, Noting, AutoSteps, Committing
<1> QED
  BY <1>1, <1>2, <1>3, <1>4, <1>5, <1>6, <1>7, <1>8, <1>9, <1>10, <1>11 DEF Todos, Saving, Closing, Noting, AutoSteps

LEMMA NoWorkFacts ==
  /\ NoWork.todo = <<>> /\ NoWork.lock = "none" /\ NoWork.text = NoRows
  /\ NoWork.made = {} /\ NoWork.gone = {}
  /\ NoWork.todo \notin Todos /\ NoWork.todo \notin Closing /\ NoWork.todo \notin Saving
  /\ WorkOK(NoWork)
<1>1. /\ NoWork.todo = <<>> /\ NoWork.lock = "none" /\ NoWork.text = NoRows
      /\ NoWork.made = {} /\ NoWork.gone = {}
  BY DEF NoWork
<1>2. <<>> \notin Todos
  BY Shapes
<1>3. Closing \cup Saving \cup Noting \cup {<<"log">>, AutoSteps} \subseteq Todos /\ Committing \subseteq Todos
  BY DEF Todos, Committing, Closing, Saving, Noting
<1> QED
  BY <1>1, <1>2, <1>3 DEF WorkOK

-----------------------------------------------------------------------------
(***************************************************************************)
(* The invariant under one disk step.                                      *)
(***************************************************************************)

\* A step of s; the text of its buffer may change.
Step(s, text) ==
  /\ up /\ io[s].todo # <<>>
  /\ Steps(s, [io[s] EXCEPT !.text = text])
  /\ UNCHANGED <<vars, up, dubious>>

LEMMA StepForms ==
  ASSUME NEW s \in Sessions, NEW text, DiskType, Step(s, text)
  PROVE  /\ io[s] \in Works(nextVid) /\ io[s].todo \in Todos
         /\ \/ /\ Len(io[s].todo) > 1
               /\ io' = [io EXCEPT ![s] = [io[s] EXCEPT !.text = text, !.todo = Tail(io[s].todo)]]
               /\ UNCHANGED <<kept, removed>>
            \/ /\ ~(Len(io[s].todo) > 1)
               /\ io[s].todo \in Closing \cup Noting
               /\ io' = [io EXCEPT ![s] = NoWork] /\ Answered(io[s])
<1>1. io[s] \in Works(nextVid)
  BY NoWorkFacts DEF Step, DiskType
<1>2. io[s].todo \in Todos /\ [io[s] EXCEPT !.text = text].todo = io[s].todo
      /\ [io[s] EXCEPT !.text = text].made = io[s].made
      /\ [io[s] EXCEPT !.text = text].gone = io[s].gone
  BY <1>1 DEF Works
<1>3. CASE Len(io[s].todo) > 1
  <2>1. io' = [io EXCEPT ![s] = [[io[s] EXCEPT !.text = text] EXCEPT !.todo = Tail(io[s].todo)]]
        /\ UNCHANGED <<kept, removed>>
    BY <1>2, <1>3 DEF Step, Steps
  <2>2. [[io[s] EXCEPT !.text = text] EXCEPT !.todo = Tail(io[s].todo)]
          = [io[s] EXCEPT !.text = text, !.todo = Tail(io[s].todo)]
    BY <1>1 DEF Works
  <2> QED
    BY <1>1, <1>2, <1>3, <2>1, <2>2
<1>4. CASE ~(Len(io[s].todo) > 1)
  <2>1. io' = [io EXCEPT ![s] = NoWork] /\ Answered(io[s])
    BY <1>2, <1>4 DEF Step, Steps, Answered
  <2>2. io[s].todo \in Closing \cup Noting
    <3>1. Len(io[s].todo) \in Nat
      BY <1>2 DEF Todos, Saving, Closing, Noting, AutoSteps
    <3> QED
      BY <1>2, <1>4, <3>1, FirstSteps
  <2> QED
    BY <1>1, <1>2, <1>4, <2>1, <2>2
<1> QED
  BY <1>3, <1>4

\* What a disk step keeps of the types.
LEMMA StepTypes ==
  ASSUME IInv, DiskType, WorkInv, NEW s \in Sessions, NEW text \in Tables(nextVid),
         StampsBelow(text, nextId), Step(s, text)
  PROVE  /\ IInv' /\ WorkInv'
         /\ kept' \in SUBSET (1..(nextVid' - 1)) /\ removed' \in SUBSET (1..(nextVid' - 1))
         /\ io' \in [Sessions -> Works(nextVid') \cup {NoWork}]
         /\ \A t \in Sessions : StampsBelow(io'[t].text, nextId')
<1>0. UNCHANGED vars /\ up' = up /\ up
  BY DEF Step
<1>1. IInv'
  BY <1>0, TypeStep, IdsStep, StampStep DEF IInv
<1>2. nextVid' = nextVid /\ nextId' = nextId /\ rows' = rows /\ committed' = committed
      /\ nextVid \in Nat /\ nextId \in Nat
  BY <1>0 DEF vars, mvccVars, tableVars, IInv, TypeOK, TableType, MvccType
<1>3. NoWork.text = NoRows /\ StampsBelow(NoRows, nextId)
  BY <1>2, NoRowsType, NoWorkFacts
<1>4. /\ io[s] \in Works(nextVid) /\ io[s].todo \in Todos
      /\ WorkOK(io[s])
  BY StepForms DEF WorkInv
<1>5. CASE /\ Len(io[s].todo) > 1
           /\ io' = [io EXCEPT ![s] = [io[s] EXCEPT !.text = text, !.todo = Tail(io[s].todo)]]
           /\ UNCHANGED <<kept, removed>>
  <2> DEFINE w == [io[s] EXCEPT !.text = text, !.todo = Tail(io[s].todo)]
  <2>1. /\ Tail(io[s].todo) \in Todos /\ Tail(io[s].todo) \notin Noting \cup {AutoSteps, <<"log">>}
        /\ Tail(io[s].todo) \in Committing => io[s].todo \in Committing
    BY <1>4, <1>5, NextSteps
  <2>2. /\ w \in Works(nextVid) /\ w.todo = Tail(io[s].todo) /\ w.lock = io[s].lock
        /\ w.rec = io[s].rec /\ w.text = text
    BY <1>4, <2>1 DEF Works
  <2>3. WorkOK(w)
    BY <1>4, <2>1, <2>2 DEF WorkOK
  <2>4. io' = [io EXCEPT ![s] = w]
    BY <1>5
  <2> HIDE DEF w
  <2> QED
    BY <1>0, <1>1, <1>2, <1>5, <2>2, <2>3, <2>4 DEF DiskType, WorkInv
<1>6. CASE io' = [io EXCEPT ![s] = NoWork] /\ Answered(io[s])
  <2>1. WorkOK(NoWork) /\ NoWork.lock = "none"
    BY NoWorkFacts
  <2>2. kept' \in SUBSET (1..(nextVid - 1)) /\ removed' \in SUBSET (1..(nextVid - 1))
    <3>1. io[s].made \subseteq 1..(nextVid - 1) /\ io[s].gone \subseteq 1..(nextVid - 1)
      BY <1>4 DEF Works
    <3> QED
      BY <1>6, <3>1 DEF DiskType, Answered
  <2> QED
    BY <1>0, <1>1, <1>2, <1>3, <1>6, <2>1, <2>2 DEF DiskType, WorkInv
<1> QED
  BY <1>5, <1>6, StepForms

\* A disk step keeps a table linked, as long as the table counts the session that
\* is answered, if it was more than a note.
LEMMA StepLinks ==
  ASSUME NEW s \in Sessions, NEW text, DiskType, WorkInv, Step(s, text),
         NEW table, NEW T \in SUBSET Sessions, Linked(table, T, kept, removed, io),
         NEW U \in SUBSET T, io[s].todo \in Closing => s \in T
  PROVE  Linked(table, U, kept', removed', io')
<1>0. io[s] \in Works(nextVid) /\ WorkOK(io[s])
  BY StepForms DEF WorkInv
<1>1. CASE /\ io' = [io EXCEPT ![s] = [io[s] EXCEPT !.text = text, !.todo = Tail(io[s].todo)]]
           /\ UNCHANGED <<kept, removed>>
  <2>1. \A t \in U : /\ io'[t].made = io[t].made /\ io'[t].gone = io[t].gone
                     /\ io'[t].lock = io[t].lock
    BY <1>0, <1>1 DEF DiskType, Works
  <2>2. Linked(table, U, kept, removed, io')
    BY <2>1, LinkedLess
  <2> QED
    BY <1>1, <2>2
<1>2. CASE /\ io[s].todo \in Closing \cup Noting
           /\ io' = [io EXCEPT ![s] = NoWork] /\ Answered(io[s])
  <2> DEFINE new == {v \in io[s].made \cap DOMAIN rows : rows[v].xmax \notin committed}
  <2>1. s \in T \/ (io[s].made = {} /\ io[s].gone = {})
    BY <1>0, <1>2 DEF WorkOK
  <2>2. \A t \in U : \/ io'[t].made = {} /\ io'[t].gone = {}
                     \/ io'[t] = io[t]
    BY <1>2, NoWorkFacts DEF DiskType
  <2>3. new \in SUBSET io[s].made
    OBVIOUS
  <2>4. kept' = (kept \cup new) \ (removed \cup io[s].gone) /\ removed' = removed \cup io[s].gone
    BY <1>2 DEF Answered
  <2> HIDE DEF new
  <2>5. Linked(table, U, (kept \cup new) \ (removed \cup io[s].gone), removed \cup io[s].gone, io')
    BY <2>1, <2>2, <2>3, LinkedAnswer
  <2> QED
    BY <2>4, <2>5
<1> QED
  BY <1>1, <1>2, StepForms

LEMMA StepMade ==
  ASSUME NEW s \in Sessions, NEW text, DiskType, Step(s, text)
  PROVE  \A t \in Sessions : io'[t].made \subseteq io[t].made
<1>1. [io[s] EXCEPT !.text = text, !.todo = Tail(io[s].todo)].made = io[s].made
  BY StepForms DEF Works
<1>2. \A w : io' = [io EXCEPT ![s] = w] => io'[s] = w /\ \A t \in Sessions \ {s} : io'[t] = io[t]
  BY DEF DiskType
<1>3. io'[s].made \in {io[s].made, {}} /\ \A t \in Sessions \ {s} : io'[t] = io[t]
  BY <1>1, <1>2, StepForms, NoWorkFacts
<1> QED
  BY <1>3

LEMMA StepMemory ==
  ASSUME NEW s \in Sessions, NEW text, IInv, DiskType, WorkInv, MemoryInv, Step(s, text)
  PROVE  MemoryInv'
<1>0. UNCHANGED vars /\ up' = up /\ up
  BY DEF Step
<1>1. rows' = rows /\ committed' = committed /\ pc' = pc /\ id' = id
  BY <1>0 DEF vars, mvccVars, tableVars, sessionVars
<1>2. FreshIds'
  BY <1>1 DEF MemoryInv, FreshIds, InStatement
<1>3. \A t \in Sessions : io'[t].made \subseteq io[t].made
  BY StepMade
<1>4. MadeInMemory'
  BY <1>1, <1>3 DEF MemoryInv, MadeInMemory
<1>5. KeptInMemory'
  <2>1. \/ kept' = kept
        \/ kept' \subseteq kept \cup {v \in io[s].made \cap DOMAIN rows : rows[v].xmax \notin committed}
    BY StepForms DEF Answered
  <2> QED
    BY <1>0, <1>1, <2>1 DEF MemoryInv, KeptInMemory, MadeInMemory
<1>6. Linked(rows, Sessions, kept', removed', io')
  BY StepLinks DEF MemoryInv
<1> QED
  BY <1>1, <1>2, <1>4, <1>5, <1>6 DEF MemoryInv

\* A saved table stays good.
LEMMA StepGood ==
  ASSUME NEW s \in Sessions, NEW text, DiskType, WorkInv, Step(s, text),
         NEW table, Good(table), Savers' \subseteq Savers
  PROVE  Good(table)'
<1>0. rows' = rows
  BY DEF Step, vars, tableVars
<1>1. io[s].todo \in Closing => s \in Savers
  BY DEF Savers
<1>2. Linked(table, Savers', kept', removed', io')
  <2>1. Savers \in SUBSET Sessions
    BY DEF Savers
  <2> QED
    BY <1>1, <2>1, StepLinks DEF Good
<1>3. kept' \subseteq DOMAIN table
  <2>1. CASE kept' = kept
    BY <2>1 DEF Good
  <2>2. CASE io[s].todo \in Closing \cup Noting /\ Answered(io[s])
    <3>1. io[s].made \cap DOMAIN rows \subseteq DOMAIN table
      BY <1>1, <2>2 DEF Good, WorkInv, WorkOK
    <3> QED
      BY <2>2, <3>1 DEF Answered, Good
  <2> QED
    BY <2>1, <2>2, StepForms
<1>4. \A t \in Savers' : io'[t].made \subseteq io[t].made
  BY StepMade DEF Savers
<1> QED
  BY <1>0, <1>2, <1>3, <1>4 DEF Good

\* Who has the file open, and who has saved it, after a disk step.
LEMMA StepSavers ==
  ASSUME NEW s \in Sessions, NEW text, DiskType, Step(s, text)
  PROVE  /\ \A t \in Sessions \ {s} : io'[t] = io[t]
         /\ Head(io[s].todo) = "open" =>
              /\ Writers' = Writers \cup {s} /\ io'[s].text = text
              /\ kept' = kept /\ removed' = removed
         /\ Head(io[s].todo) # "open" => Writers' = Writers \ {s} /\ Savers' \subseteq Savers
<1>1. /\ io[s] \in Works(nextVid) /\ io[s].todo \in Todos /\ up' = up /\ up
  BY StepForms DEF Step
<1>2. \A w : io' = [io EXCEPT ![s] = w] => io'[s] = w /\ \A t \in Sessions \ {s} : io'[t] = io[t]
  BY DEF DiskType
<1>3. CASE /\ Len(io[s].todo) > 1
           /\ io' = [io EXCEPT ![s] = [io[s] EXCEPT !.text = text, !.todo = Tail(io[s].todo)]]
           /\ UNCHANGED <<kept, removed>>
  <2>1. /\ io'[s].todo = Tail(io[s].todo) /\ io'[s].text = text
        /\ \A t \in Sessions \ {s} : io'[t] = io[t]
    <3> DEFINE w == [io[s] EXCEPT !.text = text, !.todo = Tail(io[s].todo)]
    <3>1. w.todo = Tail(io[s].todo) /\ w.text = text
      BY <1>1 DEF Works
    <3>2. io' = [io EXCEPT ![s] = w]
      BY <1>3
    <3> HIDE DEF w
    <3> QED
      BY <1>2, <3>1, <3>2
  <2>2. /\ Tail(io[s].todo) # <<>>
        /\ Head(Tail(io[s].todo)) = "close" <=> Head(io[s].todo) = "open"
        /\ Tail(io[s].todo) \in Closing => io[s].todo \in Closing \/ Head(io[s].todo) = "open"
    BY <1>1, <1>3, NextSteps
  <2> QED
    BY <1>1, <1>3, <2>1, <2>2 DEF Writers, Savers, Busy
<1>4. CASE io[s].todo \in Closing \cup Noting /\ ~(Len(io[s].todo) > 1) /\ io' = [io EXCEPT ![s] = NoWork]
  <2>1. io'[s].todo = <<>> /\ \A t \in Sessions \ {s} : io'[t] = io[t]
    BY <1>2, <1>4, NoWorkFacts
  <2>2. <<>> \notin Closing /\ Head(io[s].todo) # "open"
    BY <1>1, <1>4, FirstSteps, NoWorkFacts
  <2> QED
    BY <1>1, <2>1, <2>2 DEF Writers, Savers, Busy
<1> QED
  BY <1>3, <1>4, StepForms

DiskStep(s) ==
  AppendRecord(s) \/ AppendSkipped(s) \/ OpenFile(s) \/ CloseFile(s) \/ Checkpoint(s)

LEMMA SameText ==
  ASSUME NEW s \in Sessions, DiskType, io[s].todo # <<>>
  PROVE  [io[s] EXCEPT !.text = io[s].text] = io[s] /\ io[s].text \in Tables(nextVid)
<1>1. io[s] \in Works(nextVid)
  BY NoWorkFacts DEF DiskType
<1> QED
  BY <1>1 DEF Works

LEMMA RowsAreTable == IInv => rows \in Tables(nextVid) /\ StampsBelow(rows, nextId)
BY DEF IInv, TypeOK, TableType, Tables, StampsBelow

LEMMA DiskIsStep ==
  ASSUME NEW s \in Sessions, IInv, DiskType, DiskStep(s)
  PROVE  \E text \in Tables(nextVid) : StampsBelow(text, nextId) /\ Step(s, text)
           /\ \/ text = io[s].text /\ Head(io[s].todo) \in {"log", "commit", "mark", "checkpoint"}
              \/ text = rows /\ OpenFile(s)
              \/ text = NoRows /\ CloseFile(s)
<1>1. CASE AppendRecord(s) \/ AppendSkipped(s) \/ Checkpoint(s)
  <2>1. /\ up /\ io[s].todo # <<>> /\ Head(io[s].todo) \in {"log", "commit", "mark", "checkpoint"}
        /\ UNCHANGED <<vars, up, dubious>> /\ Steps(s, io[s])
    BY <1>1 DEF AppendRecord, AppendSkipped, Checkpoint, Busy
  <2>2. [io[s] EXCEPT !.text = io[s].text] = io[s] /\ io[s].text \in Tables(nextVid)
    BY <2>1, SameText
  <2> QED
    BY <2>1, <2>2 DEF Step, DiskType
<1>2. CASE OpenFile(s)
  <2>1. Step(s, rows)
    BY <1>2 DEF OpenFile, Busy, Step
  <2> QED
    BY <1>2, <2>1, RowsAreTable
<1>3. CASE CloseFile(s)
  <2>1. Step(s, NoRows)
    BY <1>3 DEF CloseFile, Busy, Step
  <2>2. nextVid \in Nat
    BY DEF IInv, TypeOK, TableType
  <2> QED
    BY <1>3, <2>1, <2>2, NoRowsType
<1> QED
  BY <1>1, <1>2, <1>3 DEF DiskStep

LEMMA DiskTypes ==
  ASSUME IInv, DiskType, WorkInv, NEW s \in Sessions, DiskStep(s)
  PROVE  IInv' /\ DiskType' /\ WorkInv'
<1>1. PICK text \in Tables(nextVid) : StampsBelow(text, nextId) /\ Step(s, text)
  BY DiskIsStep
<1>2. /\ IInv' /\ WorkInv'
      /\ kept' \in SUBSET (1..(nextVid' - 1)) /\ removed' \in SUBSET (1..(nextVid' - 1))
      /\ io' \in [Sessions -> Works(nextVid') \cup {NoWork}]
      /\ \A t \in Sessions : StampsBelow(io'[t].text, nextId')
  BY <1>1, StepTypes
<1>3. /\ up' = up /\ up /\ dubious' = dubious /\ nextVid' = nextVid /\ nextId' = nextId
      /\ nextVid \in Nat
  BY <1>1 DEF Step, vars, mvccVars, tableVars, IInv, TypeOK, TableType
<1>4. overlapped' \in BOOLEAN
  BY DEF DiskStep, AppendRecord, AppendSkipped, OpenFile, CloseFile, Checkpoint, DiskType
<1>5. log' \in Seq(Changes \cup Commits)
  <2>1. CASE AppendRecord(s)
    <3>1. Head(io[s].todo) \in {"log", "commit"} /\ io[s].todo \in Todos /\ WorkOK(io[s])
      BY <1>1, <2>1, StepForms DEF AppendRecord, Busy, WorkInv
    <3>2. io[s].rec \in Changes \cup Commits
      BY <3>1, FirstSteps DEF WorkOK
    <3>3. log \in Seq(Changes \cup Commits) /\ log' \in {log, Append(log, io[s].rec)}
      BY <2>1 DEF AppendRecord, DiskType
    <3> QED
      BY <3>2, <3>3
  <2>2. CASE ~AppendRecord(s)
    <3>1. log' \in {log, <<>>}
      BY <2>2 DEF DiskStep, AppendSkipped, OpenFile, CloseFile, Checkpoint, logVars
    <3>2. log \in Seq(Changes \cup Commits) /\ <<>> \in Seq(Changes \cup Commits)
      BY DEF DiskType
    <3> QED
      BY <3>1, <3>2
  <2> QED
    BY <2>1, <2>2
<1>6. /\ file' \in [state : FileStates, rows : Tables(nextVid), shared : BOOLEAN]
      /\ StampsBelow(file'.rows, nextId)
  <2>0. /\ file \in [state : FileStates, rows : Tables(nextVid), shared : BOOLEAN]
        /\ StampsBelow(file.rows, nextId)
        /\ NoRows \in Tables(nextVid) /\ StampsBelow(NoRows, nextId)
        /\ io[s].text \in Tables(nextVid) /\ StampsBelow(io[s].text, nextId)
    <3>1. io[s].todo # <<>>
      BY <1>1 DEF Step
    <3> QED
      BY <1>3, <3>1, NoRowsType, SameText DEF DiskType
  <2>1. CASE OpenFile(s)
    <3>1. file' = [state |-> "empty", rows |-> NoRows, shared |-> Writers # {}]
      BY <2>1 DEF OpenFile, Empty
    <3> QED
      BY <2>0, <3>1 DEF FileStates
  <2>2. CASE CloseFile(s)
    <3>1. PICK state \in {"whole", "broken"} :
            file' = [file EXCEPT !.state = state,
                                 !.rows = IF state = "whole" THEN io[s].text ELSE NoRows]
      BY <2>2 DEF CloseFile
    <3>2. CASE state = "whole"
      <4>1. file' = [file EXCEPT !.state = "whole", !.rows = io[s].text]
        BY <3>1, <3>2
      <4> QED
        BY <2>0, <4>1 DEF FileStates
    <3>3. CASE state = "broken"
      <4>1. file' = [file EXCEPT !.state = "broken", !.rows = NoRows]
        BY <3>1, <3>3
      <4> QED
        BY <2>0, <4>1 DEF FileStates
    <3> QED
      BY <3>1, <3>2, <3>3
  <2>3. CASE AppendRecord(s) \/ AppendSkipped(s) \/ Checkpoint(s)
    BY <2>0, <2>3 DEF AppendRecord, AppendSkipped, Checkpoint
  <2> QED
    BY <2>1, <2>2, <2>3 DEF DiskStep
<1>7. DiskType'
  BY <1>2, <1>3, <1>4, <1>5, <1>6 DEF DiskType
<1> QED
  BY <1>2, <1>7

\* The file and the buffers stay good under the disk steps: a table is opened and
\* written by one session at a time, with the rows in memory.
LEMMA DiskFiles ==
  ASSUME IInv, DiskType, WorkInv, MemoryInv, FileInv, NEW s \in Sessions, DiskStep(s)
  PROVE  FileInv'
<1>1. PICK text \in Tables(nextVid) : /\ Step(s, text)
           /\ \/ text = io[s].text /\ Head(io[s].todo) \in {"log", "commit", "mark", "checkpoint"}
              \/ text = rows /\ OpenFile(s)
              \/ text = NoRows /\ CloseFile(s)
  BY DiskIsStep
<1>2. overlapped' = FALSE => ~overlapped
  BY DEF DiskStep, AppendRecord, AppendSkipped, OpenFile, CloseFile, Checkpoint, DiskType
<1> SUFFICES ASSUME ~overlapped', ~overlapped
             PROVE  /\ \A t, u \in Writers' : t = u
                    /\ Writers' # {} => file'.state # "whole"
                    /\ ~file'.shared
                    /\ \A table \in Images' : Good(table)'
  BY <1>2 DEF FileInv
<1>3. /\ \A t, u \in Writers : t = u
      /\ Writers # {} => file.state # "whole"
      /\ ~file.shared
      /\ \A table \in Images : Good(table)
  BY DEF FileInv
<1>4. rows' = rows /\ up' /\ up
  BY <1>1 DEF Step, vars, tableVars
<1>5. \A t \in Sessions \ {s} : io'[t] = io[t]
  BY <1>1, StepSavers
<1>6. CASE /\ text = io[s].text /\ Head(io[s].todo) \in {"log", "commit", "mark", "checkpoint"}
  <2>1. file' = file /\ s \notin Writers
    BY <1>1, <1>6 DEF DiskStep, AppendRecord, AppendSkipped, Checkpoint, OpenFile, CloseFile, Busy,
       Writers
  <2>2. Writers' = Writers /\ Savers' \subseteq Savers
    BY <1>1, <1>6, <2>1, StepSavers
  <2>3. \A t \in Writers : io'[t] = io[t]
    BY <1>5, <2>1 DEF Writers
  <2>4. Images' = Images
    BY <2>1, <2>2, <2>3 DEF Images
  <2>5. \A table \in Images : Good(table)'
    BY <1>1, <1>3, <2>2, StepGood
  <2> QED
    BY <1>3, <2>1, <2>2, <2>4, <2>5
<1>7. CASE text = rows /\ OpenFile(s)
  <2>1. Writers = {} /\ file' = [state |-> "empty", rows |-> NoRows, shared |-> FALSE]
    BY <1>7 DEF OpenFile, Empty, DiskType
  <2>2. Head(io[s].todo) = "open"
    BY <1>7 DEF OpenFile, Busy
  <2>3. Writers' = {s} /\ io'[s].text = rows /\ kept' = kept
    BY <1>1, <1>7, <2>1, <2>2, StepSavers
  <2>4. Images' = {rows}
    BY <2>1, <2>3 DEF Images
  <2>5. MemoryInv'
    BY <1>1, StepMemory
  <2>6. kept' \subseteq DOMAIN rows
    BY <1>4, <2>5 DEF MemoryInv, KeptInMemory
  <2>7. Linked(rows, Savers', kept', removed', io')
    <3>1. Linked(rows, Sessions, kept', removed', io')
      BY <1>4, <2>5 DEF MemoryInv
    <3>2. Savers' \in SUBSET Sessions
      BY DEF Savers
    <3> QED
      BY <3>1, <3>2, LinkedLess
  <2>8. ASSUME NEW table, table = rows PROVE Good(table)'
    BY <1>4, <2>6, <2>7, <2>8 DEF Good
  <2> QED
    BY <2>1, <2>3, <2>4, <2>8
<1>8. CASE text = NoRows /\ CloseFile(s)
  <2>1. Head(io[s].todo) = "close" /\ s \in Writers
    BY <1>8 DEF CloseFile, Busy, Writers
  <2>2. Writers' = {} /\ Savers' \subseteq Savers
    BY <1>1, <1>3, <2>1, StepSavers
  <2>3. file' = [file EXCEPT !.state = "whole", !.rows = io[s].text]
    BY <1>3, <1>8 DEF CloseFile
  <2>4. file'.state = "whole" /\ file'.rows = io[s].text /\ ~file'.shared
    BY <1>3, <2>3 DEF DiskType
  <2>5. Images' = {io[s].text} /\ io[s].text \in Images
    BY <2>1, <2>2, <2>4 DEF Images
  <2>6. ASSUME NEW table, table = io[s].text PROVE Good(table)'
    <3>1. Good(table)
      BY <1>3, <2>5, <2>6
    <3> QED
      BY <1>1, <2>2, <3>1, StepGood
  <2> QED
    BY <2>2, <2>4, <2>5, <2>6
<1> QED
  BY <1>1, <1>6, <1>7, <1>8

-----------------------------------------------------------------------------
(***************************************************************************)
(* The files under the statements in memory and under RECOVER: neither     *)
(* touches the file or a buffer, and rows are added with new versions.     *)
(***************************************************************************)
LEMMA FilesStay ==
  ASSUME DiskType, FileInv, NEW s \in Sessions, up, up', io[s] = NoWork,
         file' = file, overlapped' = overlapped, removed' = removed, kept' \in SUBSET kept,
         NEW w, io' = [io EXCEPT ![s] = w], w = NoWork \/ w.todo \in Todos \ Closing,
         DOMAIN rows' \cap (1..(nextVid - 1)) \subseteq DOMAIN rows
  PROVE  FileInv'
<1>1. io'[s] = w /\ \A t \in Sessions \ {s} : io'[t] = io[t]
  BY DEF DiskType
<1>2. Savers' = Savers /\ s \notin Savers
  BY <1>1, NoWorkFacts DEF Savers
<1>3. Writers' = Writers /\ s \notin Writers
  <2>1. ~(w.todo # <<>> /\ Head(w.todo) = "close")
    BY FirstSteps, NoWorkFacts DEF Todos
  <2>2. ~(io[s].todo # <<>>)
    BY NoWorkFacts
  <2> QED
    BY <1>1, <2>1, <2>2 DEF Writers, Busy
<1>4. Images' = Images
  <2>1. \A t \in Writers : io'[t] = io[t]
    BY <1>1, <1>3 DEF Writers
  <2> QED
    BY <1>3, <2>1 DEF Images
<1>5. ASSUME NEW table, Good(table) PROVE Good(table)'
  <2>1. \A t \in Savers : io'[t] = io[t] /\ t \in Sessions /\ io[t].made \subseteq 1..(nextVid - 1)
    <3>1. \A t \in Savers : t \in Sessions /\ t # s /\ io[t] \in Works(nextVid)
      BY <1>2, NoWorkFacts DEF Savers, DiskType
    <3> QED
      BY <1>1, <3>1 DEF Works
  <2>2. Linked(table, Savers, kept', removed', io')
    <3>0. Linked(table, Savers, kept, removed, io)
      BY <1>5 DEF Good
    <3>1. Linked(table, Savers, kept', removed, io')
      BY <2>1, <3>0, LinkedLess
    <3> QED
      BY <3>1
  <2>3. \A t \in Savers : io'[t].made \cap DOMAIN rows' \subseteq DOMAIN table
    BY <1>5, <2>1 DEF Good
  <2> QED
    BY <1>2, <1>5, <2>2, <2>3 DEF Good
<1> QED
  BY <1>3, <1>4, <1>5 DEF FileInv

LEMMA MemoryFiles ==
  ASSUME IInv, DiskType, FileInv, NEW s \in Sessions, MemoryStep(s)
  PROVE  FileInv'
<1>1. PICK w \in Works(nextVid') \cup {NoWork} :
           io' = [io EXCEPT ![s] = w] /\ w.todo \notin Closing
  BY MemoryWorkType DEF IInv, DiskType
<1>2. w = NoWork \/ w.todo \in Todos \ Closing
  BY <1>1 DEF Works
<1>3. /\ up /\ io[s] = NoWork /\ up' = up /\ file' = file /\ removed' = removed
      /\ overlapped' = overlapped /\ kept' \in SUBSET kept
  BY MemoryFrame
<1>4. DOMAIN rows' \cap (1..(nextVid - 1)) \subseteq DOMAIN rows
  <2>1. nextVid \in Nat /\ nextVid' \in Nat /\ \E me \in {0, id[s]} : RowsBy(me)
    BY MemoryCounters DEF IInv
  <2>2. \A v \in DOMAIN rows' : v \in DOMAIN rows \/ v \in nextVid .. (nextVid' - 1)
    BY <2>1 DEF RowsBy
  <2> QED
    BY <2>1, <2>2
<1> QED
  BY <1>1, <1>2, <1>3, <1>4, FilesStay

-----------------------------------------------------------------------------
(***************************************************************************)
(* RECOVER.                                                                *)
(***************************************************************************)

\* Induction up to a bound, over a set.
LEMMA UpToAll ==
  ASSUME NEW n \in Nat, NEW S \in SUBSET (0..n), 0 \in S, \A i \in S : i < n => i + 1 \in S
  PROVE  S = 0..n
<1> SUFFICES ASSUME (0..n) \ S # {} PROVE FALSE
  OBVIOUS
<1> DEFINE M == (0..n) \ S
<1>1. M \in SUBSET (1..n) /\ M # {}
  OBVIOUS
<1>2. PICK a \in M : \A b \in M : a <= b
  <2> HIDE DEF M
  <2> QED
    BY <1>1, HasLeast
<1>3. a - 1 \in 0..n /\ a - 1 \notin M
  BY <1>1, <1>2
<1>4. a - 1 \in S /\ a - 1 < n
  BY <1>1, <1>3
<1>5. (a - 1) + 1 \in S
  BY <1>4
<1> QED
  BY <1>1, <1>5

\* The rows in memory are all there and unchanged, and what was added is stamped
\* with 0 on both sides.
Grown(table) ==
  /\ table.next \in Nat /\ table.next >= nextVid
  /\ DOMAIN table.rows \subseteq 1..(table.next - 1)
  /\ table.rows \in [DOMAIN table.rows -> Row]
  /\ \A v \in DOMAIN rows : v \in DOMAIN table.rows /\ table.rows[v] = rows[v]
  /\ \A v \in DOMAIN table.rows \ DOMAIN rows :
       v >= nextVid /\ table.rows[v].xmin = 0 /\ table.rows[v].xmax = 0

\* The id with which RECOVER deletes is the mark of a row that is not deleted.
LEMMA ReplayedGrows ==
  ASSUME TableType, NEW table, Grown(table), NEW n \in Nat, NEW key \in Keys, NEW k,
         NEW T \in SUBSET Live(table.rows, k)
  PROVE  Grown(Replayed(table, T, n, key, AutoCommit))
<1> DEFINE new == table.next .. (table.next + n - 1)
           R == Replayed(table, T, n, key, AutoCommit)
<1>0. nextVid \in Nat \ {0}
  BY DEF TableType
<1>1. R.next = table.next + n /\ R.next \in Nat /\ R.next >= nextVid
  BY <1>0 DEF Replayed, Grown
<1>2. DOMAIN R.rows = DOMAIN table.rows \cup new /\ DOMAIN table.rows \cap new = {}
  BY DEF Replayed, Grown
<1>3. ASSUME NEW v \in DOMAIN table.rows
      PROVE  R.rows[v] = table.rows[v] /\ table.rows[v] \in Row
  <2>1. table.rows[v] \in Row
    BY <1>3 DEF Grown
  <2>2. R.rows[v] = IF v \in T THEN StampDelete(table.rows[v], AutoCommit) ELSE table.rows[v]
    BY <1>2, <1>3 DEF Replayed
  <2>3. v \in T => table.rows[v].xmax = 0
    BY DEF Live, NotDeleted
  <2>4. ASSUME NEW r \in Row, r.xmax = 0 PROVE [r EXCEPT !.xmax = 0] = r
    BY <2>4 DEF Row
  <2> QED
    BY <2>1, <2>2, <2>3, <2>4 DEF StampDelete, AutoCommit
<1>4. ASSUME NEW v \in new
      PROVE  R.rows[v] \in Row /\ R.rows[v].xmin = 0 /\ R.rows[v].xmax = 0 /\ v >= nextVid
  <2>1. R.rows[v] = [key |-> key, xmin |-> 0, xmax |-> 0]
    BY <1>2, <1>4 DEF Replayed, StampInsert, AutoCommit, NotDeleted
  <2>2. v >= nextVid
    BY <1>0, <1>4 DEF Grown
  <2> QED
    BY <2>1, <2>2 DEF Row
<1>5. DOMAIN R.rows \subseteq 1..(R.next - 1)
  <2>1. DOMAIN table.rows \subseteq 1..(table.next - 1) /\ table.next \in Nat /\ table.next >= 1
    BY <1>0 DEF Grown
  <2> HIDE DEF R
  <2> QED
    BY <1>1, <1>2, <2>1
<1>6. R.rows \in [DOMAIN R.rows -> Row]
  <2>1. R.rows = [v \in DOMAIN R.rows |-> R.rows[v]]
    BY DEF Replayed
  <2> HIDE DEF R
  <2> QED
    BY <1>2, <1>3, <1>4, <2>1
<1> HIDE DEF R
<1>7. /\ \A v \in DOMAIN rows : v \in DOMAIN R.rows /\ R.rows[v] = rows[v]
      /\ \A v \in DOMAIN R.rows \ DOMAIN rows :
           v >= nextVid /\ R.rows[v].xmin = 0 /\ R.rows[v].xmax = 0
  BY <1>2, <1>3, <1>4 DEF Grown
<1>8. Grown(R)
  BY <1>1, <1>5, <1>6, <1>7 DEF Grown
<1> QED
  BY <1>8 DEF R

LEMMA ReplayGrows ==
  ASSUME TableType, NEW table, Grown(table), NEW rec \in Changes
  PROVE  Grown(Replay(table, rec))
<1> DEFINE T == Live(table.rows, rec.key)
<1>1. rec.key \in Keys /\ rec.new \in Keys /\ rec.op \in {"INSERT", "UPDATE", "DELETE"}
  BY DEF Changes
<1>2. T \subseteq 1..(table.next - 1) /\ table.next \in Nat
  BY DEF Live, Grown
<1>3. Cardinality(T) \in Nat
  <2>1. IsFiniteSet(1..(table.next - 1))
    BY <1>2, FS_Interval
  <2>2. IsFiniteSet(T)
    BY <1>2, <2>1, FS_Subset
  <2> QED
    BY <2>2, FS_CardinalityType
<1>4. Grown(Replayed(table, {}, 1, rec.key, AutoCommit))
  BY <1>1, ReplayedGrows
<1>5. Grown(Replayed(table, T, Cardinality(T), rec.new, AutoCommit))
  BY <1>1, <1>3, ReplayedGrows
<1>6. Grown(Replayed(table, T, 0, rec.key, AutoCommit))
  BY <1>1, ReplayedGrows
<1> QED
  BY <1>1, <1>4, <1>5, <1>6 DEF Replay, AutoCommit

\* The recursion over the log is defined, and all its tables are grown.
LEMMA ReplaysGrow ==
  ASSUME TableType, log \in Seq(Changes \cup Commits), NEW order \in Orders
  PROVE  Grown(Replays(order))
<1> DEFINE base == [rows |-> rows, next |-> nextVid]
           Next1(table, i) == IF Counts(log[order[i]]) THEN Replay(table, log[order[i]]) ELSE table
           IsReplay(f, n) ==
             f = [i \in 0..n |-> IF i = 0 THEN base ELSE Next1(f[i - 1], i)]
           N == Len(log)
           R == CHOOSE f : IsReplay(f, N)
<1>0. N \in Nat
  OBVIOUS
<1>1. \E f : IsReplay(f, N)
  <2> DEFINE S == {n \in 0..N : \E f : IsReplay(f, n)}
  <2>1. 0 \in S
    <3>1. IsReplay([i \in 0..0 |-> base], 0)
      <4> HIDE DEF base
      <4> QED
        OBVIOUS
    <3> HIDE DEF IsReplay
    <3> QED
      BY <1>0, <3>1
  <2>2. ASSUME NEW n \in S, n < N PROVE n + 1 \in S
    <3>1. PICK f : IsReplay(f, n)
      BY <2>2
    <3> DEFINE g == [i \in 0..(n + 1) |-> IF i = n + 1 THEN Next1(f[n], n + 1) ELSE f[i]]
    <3>2. n \in Nat
      BY <1>0
    <3>3. \A i \in 0..(n + 1) : g[i] = IF i = 0 THEN base ELSE Next1(g[i - 1], i)
      <4> HIDE DEF Next1, base
      <4> TAKE i \in 0..(n + 1)
      <4>1. CASE i = n + 1
        <5>1. g[i] = Next1(f[n], n + 1) /\ g[i - 1] = f[n]
          BY <3>2, <4>1
        <5> QED
          BY <3>2, <4>1, <5>1
      <4>2. CASE i # n + 1
        <5>1. i \in 0..n /\ g[i] = f[i] /\ (i # 0 => g[i - 1] = f[i - 1])
          BY <3>2, <4>2
        <5>2. f[i] = IF i = 0 THEN base ELSE Next1(f[i - 1], i)
          BY <3>1, <5>1
        <5> QED
          BY <5>1, <5>2
      <4> QED
        BY <4>1, <4>2
    <3>4. IsReplay(g, n + 1)
      <4>1. g = [i \in 0..(n + 1) |-> g[i]]
        OBVIOUS
      <4> HIDE DEF g
      <4> QED
        BY <3>3, <4>1
    <3> HIDE DEF g, IsReplay
    <3> QED
      BY <1>0, <2>2, <3>2, <3>4
  <2>3. S = 0..N
    <3> HIDE DEF IsReplay, N
    <3>1. S \in SUBSET (0..N)
      OBVIOUS
    <3> HIDE DEF S
    <3> QED
      BY <1>0, <2>1, <2>2, <3>1, UpToAll
  <2> QED
    BY <1>0, <2>3
<1>2. IsReplay(R, N)
  <2> HIDE DEF IsReplay, N
  <2> QED
    BY <1>1
<1>9. Replays(order) = R[N]
  BY DEF Replays
<1> HIDE DEF R
<1>3. ASSUME NEW i \in 1..N, Grown(R[i - 1]) PROVE Grown(R[i])
  <2>1. R[i] = Next1(R[i - 1], i)
    BY <1>0, <1>2
  <2>2. Counts(log[order[i]]) => log[order[i]] \in Changes
    <3>1. log[order[i]] \in Changes \cup Commits
      <4>1. order[i] \in 1..N
        BY <1>0 DEF Orders
      <4> QED
        BY <1>0, <4>1
    <3> QED
      BY <3>1 DEF Counts, Commits
  <2> QED
    BY <1>3, <2>1, <2>2, ReplayGrows
<1>4. Grown(R[0])
  <2>1. R[0] = base
    BY <1>0, <1>2
  <2>2. Grown(base)
    BY DEF Grown, TableType
  <2> QED
    BY <2>1, <2>2
<1>5. {i \in 0..N : Grown(R[i])} = 0..N
  <2> DEFINE S == {i \in 0..N : Grown(R[i])}
  <2>1. 0 \in S
    BY <1>0, <1>4
  <2>2. ASSUME NEW i \in S, i < N PROVE i + 1 \in S
    <3>1. i + 1 \in 1..N /\ (i + 1) - 1 = i
      BY <1>0, <2>2
    <3> QED
      BY <1>0, <1>3, <3>1
  <2> HIDE DEF S, N
  <2> QED
    BY <1>0, <2>1, <2>2, UpToAll DEF S
<1> QED
  BY <1>0, <1>5, <1>9

\* RECOVER adds rows stamped with 0 and leaves the others as they are.
LEMMA RecoverRows ==
  ASSUME IInv, DiskType, NEW s \in Sessions, Recover(s)
  PROVE  /\ nextVid \in Nat /\ nextVid' \in Nat /\ nextVid' >= nextVid
         /\ DOMAIN rows' \subseteq 1..(nextVid' - 1) /\ rows' \in [DOMAIN rows' -> Row]
         /\ \A v \in DOMAIN rows : v \in DOMAIN rows' /\ rows'[v] = rows[v]
         /\ \A v \in DOMAIN rows' \ DOMAIN rows :
              v >= nextVid /\ rows'[v].xmin = 0 /\ rows'[v].xmax = 0
<1>2. PICK order \in Orders : rows' = Replays(order).rows /\ nextVid' = Replays(order).next
  BY DEF Recover
<1>1. Grown(Replays(order))
  BY ReplaysGrow DEF IInv, TypeOK, DiskType
<1>3. nextVid \in Nat
  BY DEF IInv, TypeOK, TableType
<1> QED
  BY <1>1, <1>2, <1>3 DEF Grown

LEMMA RecoverWork ==
  ASSUME NEW s \in Sessions, Recover(s)
  PROVE  /\ up /\ up' /\ io[s] = NoWork
         /\ UNCHANGED <<mvccVars, sessionVars, file, log, kept, removed, dubious, overlapped>>
         /\ \E w : Light(w) /\ io' = [io EXCEPT ![s] = w] /\ w.lock # "manager" /\ w # NoWork
<1>1. /\ up /\ up' /\ io[s] = NoWork
      /\ UNCHANGED <<mvccVars, sessionVars, file, log, kept, removed, dubious, overlapped>>
      /\ Leaves(s, "none", RecoverSteps, NoRecord, {}, {})
  BY DEF Recover, Idle, diskVars, logVars, history
<1> DEFINE w == [todo |-> RecoverSteps, lock |-> "none", rec |-> NoRecord, text |-> NoRows,
                 made |-> {}, gone |-> {}]
<1>2. io' = [io EXCEPT ![s] = w]
  BY <1>1 DEF Leaves, RecoverSteps
<1>3. RecoverSteps \in Saving /\ RecoverSteps \notin Noting /\ RecoverSteps \notin Committing
      /\ RecoverSteps \notin {<<"log">>, AutoSteps}
  BY DEF RecoverSteps, Saving, Noting, Committing, AutoSteps
<1>4. NewWork(w) /\ w.made = {} /\ w.gone = {} /\ w.lock # "manager"
  BY <1>3 DEF NewWork, WorkOK
<1>5. w # NoWork
  <2>1. w.todo # <<>>
    BY DEF RecoverSteps
  <2> HIDE DEF w
  <2> QED
    BY <2>1, NoWorkFacts
<1> HIDE DEF w
<1> QED
  BY <1>1, <1>2, <1>4, <1>5 DEF Light

LEMMA RecoverTypes ==
  ASSUME IInv, DiskType, WorkInv, NEW s \in Sessions, Recover(s)
  PROVE  IInv' /\ DiskType' /\ WorkInv'
<1>1. /\ nextVid \in Nat /\ nextVid' \in Nat /\ nextVid' >= nextVid
      /\ DOMAIN rows' \subseteq 1..(nextVid' - 1) /\ rows' \in [DOMAIN rows' -> Row]
      /\ \A v \in DOMAIN rows : v \in DOMAIN rows' /\ rows'[v] = rows[v]
      /\ \A v \in DOMAIN rows' \ DOMAIN rows :
           v >= nextVid /\ rows'[v].xmin = 0 /\ rows'[v].xmax = 0
  BY RecoverRows
<1>2. /\ up /\ up' /\ io[s] = NoWork
      /\ UNCHANGED <<mvccVars, sessionVars, file, log, kept, removed, dubious, overlapped>>
  BY RecoverWork
<1>3. UNCHANGED mvccVars /\ UNCHANGED sessionVars
  BY <1>2
<1>4. /\ nextId' = nextId /\ active' = active /\ committed' = committed /\ aborted' = aborted
      /\ pc' = pc /\ id' = id /\ snap' = snap /\ stmt' = stmt /\ sps' = sps
  BY <1>3 DEF mvccVars, sessionVars
<1>5. IInv'
  <2>1. nextVid' \in Nat \ {0} /\ nextId \in Nat \ {0}
    BY <1>1 DEF IInv, TypeOK, TableType, MvccType
  <2>2. \A v \in DOMAIN rows' : rows'[v].xmin < nextId /\ rows'[v].xmax < nextId
    BY <1>1, <2>1 DEF IInv, TypeOK, TableType
  <2>3. TableType'
    BY <1>1, <1>4, <2>1, <2>2 DEF TableType
  <2>4. MvccType' /\ SessionType'
    BY <1>4 DEF IInv, TypeOK, MvccType, SessionType, InStatement
  <2>5. IdDiscipline'
    BY <1>4 DEF IInv, IdDiscipline, HoldsActive
  <2>6. StampInv'
    <3>1. 0 \notin aborted /\ 0 \notin active
      BY DEF IInv, TypeOK, MvccType
    <3> QED
      BY <1>1, <1>4, <3>1 DEF IInv, StampInv, NoTraceOfAborted, UncommittedUntouched,
         SnapshotsAreOld, NotDeleted
  <2> QED
    BY <2>3, <2>4, <2>5, <2>6 DEF IInv, TypeOK
<1>6. PICK w : Light(w) /\ io' = [io EXCEPT ![s] = w] /\ w.lock # "manager" /\ w # NoWork
  BY RecoverWork
<1>7. w \in Works(nextVid') /\ WorkOK(w) /\ w.text = NoRows
  <2>1. NewWork(w) /\ w.made = {} /\ w.gone = {} /\ NoRows \in Tables(nextVid')
    BY <1>1, <1>6, NoRowsType DEF Light
  <2>2. w.todo \in Todos
    BY <2>1 DEF NewWork, Todos
  <2>3. w.lock \in {"none", "manager", "table"} /\ w.rec \in Changes \cup Commits \cup {NoRecord}
        /\ w.text = NoRows /\ WorkOK(w)
        /\ w = [todo |-> w.todo, lock |-> w.lock, rec |-> w.rec, text |-> w.text,
                made |-> w.made, gone |-> w.gone]
    BY <2>1 DEF NewWork
  <2> QED
    BY <2>1, <2>2, <2>3 DEF Works
<1>8. /\ 1..(nextVid - 1) \subseteq 1..(nextVid' - 1)
      /\ Tables(nextVid) \subseteq Tables(nextVid') /\ Works(nextVid) \subseteq Works(nextVid')
  BY <1>1, SizesGrow
<1>9. io' \in [Sessions -> Works(nextVid') \cup {NoWork}]
  BY <1>6, <1>7, <1>8 DEF DiskType
<1>10. \A t \in Sessions : StampsBelow(io'[t].text, nextId')
  <2>1. StampsBelow(NoRows, nextId)
    BY <1>1, NoRowsType
  <2> QED
    BY <1>4, <1>6, <1>7, <2>1 DEF DiskType
<1>11. DiskType'
  BY <1>2, <1>4, <1>8, <1>9, <1>10 DEF DiskType
<1>12. WorkInv'
  BY <1>2, <1>6, <1>7 DEF WorkInv, DiskType
<1> QED
  BY <1>5, <1>11, <1>12

LEMMA RecoverMemory ==
  ASSUME IInv, DiskType, MemoryInv, NEW s \in Sessions, Recover(s)
  PROVE  MemoryInv'
<1>1. /\ nextVid \in Nat /\ nextVid' \in Nat /\ nextVid' >= nextVid
      /\ \A v \in DOMAIN rows : v \in DOMAIN rows' /\ rows'[v] = rows[v]
      /\ \A v \in DOMAIN rows' \ DOMAIN rows :
           v >= nextVid /\ rows'[v].xmin = 0 /\ rows'[v].xmax = 0
  BY RecoverRows
<1>2. /\ up /\ up' /\ kept' = kept /\ removed' = removed
      /\ UNCHANGED mvccVars /\ UNCHANGED sessionVars
  BY RecoverWork
<1>3. committed' = committed /\ pc' = pc /\ id' = id
  BY <1>2 DEF mvccVars, sessionVars
<1>4. PICK w : Light(w) /\ io' = [io EXCEPT ![s] = w]
  BY RecoverWork
<1>5. w.made = {} /\ w.gone = {}
  BY <1>4 DEF Light, NoWork
<1>6. io'[s] = w /\ \A t \in Sessions \ {s} : io'[t] = io[t]
  BY <1>4 DEF DiskType
<1>7. \A t \in Sessions : io[t].made \cup io[t].gone \subseteq 1..(nextVid - 1)
  BY NoWorkFacts DEF DiskType, Works
<1>8. FreshIds'
  <2>1. \A u \in Sessions : InStatement(u) => id[u] # 0
    BY DEF IInv, IdDiscipline, InStatement
  <2> QED
    BY <1>1, <1>3, <2>1 DEF MemoryInv, FreshIds, InStatement
<1>9. KeptInMemory'
  BY <1>1, <1>2, <1>3 DEF MemoryInv, KeptInMemory
<1>10. MadeInMemory'
  <2>1. \A t \in Sessions : \A v \in io'[t].made : v \in io[t].made /\ ~(v >= nextVid)
    BY <1>1, <1>5, <1>6, <1>7
  <2> QED
    BY <1>1, <1>3, <2>1 DEF MemoryInv, MadeInMemory
<1>11. Linked(rows', Sessions, kept, removed, io)
  <2>1. \A v \in kept : ~(v >= nextVid)
    BY <1>1 DEF DiskType
  <2>2. \A t \in Sessions : \A v \in io[t].made \cup io[t].gone : ~(v >= nextVid)
    BY <1>1, <1>7
  <2>3. \A v \in DOMAIN rows' :
           \/ v \in DOMAIN rows /\ rows'[v].xmin = rows[v].xmin
              /\ rows'[v].xmax \in {rows[v].xmax, 0, NotDeleted}
           \/ v \notin DOMAIN rows /\ rows'[v].xmax = NotDeleted
              /\ v \notin kept /\ \A t \in Sessions : v \notin io[t].made \cup io[t].gone
    BY <1>1, <2>1, <2>2 DEF NotDeleted
  <2>4. \A v \in DOMAIN rows' \cap DOMAIN rows : rows'[v].xmax = rows[v].xmax
    BY <1>1
  <2>5. Linked(rows, Sessions, kept, removed, io)
    BY DEF MemoryInv
  <2> QED
    BY <2>3, <2>4, <2>5, LinkedChange
<1>12. Linked(rows', Sessions, kept, removed, io')
  BY <1>5, <1>6, <1>11, LinkedSave
<1> QED
  BY <1>2, <1>8, <1>9, <1>10, <1>12 DEF MemoryInv

LEMMA RecoverFiles ==
  ASSUME IInv, DiskType, FileInv, NEW s \in Sessions, Recover(s)
  PROVE  FileInv'
<1>1. DOMAIN rows' \cap (1..(nextVid - 1)) \subseteq DOMAIN rows
  BY RecoverRows
<1>2. /\ up /\ up' /\ io[s] = NoWork /\ file' = file /\ overlapped' = overlapped
      /\ removed' = removed /\ kept' \in SUBSET kept
  BY RecoverWork
<1>3. PICK w : Light(w) /\ io' = [io EXCEPT ![s] = w] /\ w # NoWork
  BY RecoverWork
<1>4. w.todo \in Todos \ Closing
  <2>1. w.todo \in Saving \cup Noting \cup {AutoSteps}
    BY <1>3 DEF Light, NewWork
  <2> QED
    BY <2>1, Shapes DEF Todos
<1> QED
  BY <1>1, <1>2, <1>3, <1>4, FilesStay

-----------------------------------------------------------------------------
(***************************************************************************)
(* Start, crash and restart.                                               *)
(***************************************************************************)

\* A finite set of ids has a greatest one.
LEMMA HasGreatest ==
  ASSUME NEW S \in SUBSET Nat, IsFiniteSet(S), S # {}
  PROVE  \E a \in S : \A b \in S : b <= a
<1> DEFINE Above(a) == {b \in S : a < b}
           T == {Above(a) : a \in S}
           R == StrictSubsetOrdering(S)
<1>1. T \subseteq FiniteSubsetsOf(S) /\ T # {}
  <2>1. \A a \in S : Above(a) \in FiniteSubsetsOf(S)
    BY FS_Subset DEF FiniteSubsetsOf
  <2> QED
    BY <2>1
<1>2. IsWellFoundedOn(R, FiniteSubsetsOf(S))
  BY FS_StrictSubsetOrderingWellFounded
<1>3. \E x \in T : \A y \in T : ~ (<<y, x>> \in R)
  <2> HIDE DEF T, R
  <2> QED
    BY <1>1, <1>2, WFMin
<1>4. PICK a \in S : \A b \in S : ~ (<<Above(b), Above(a)>> \in R)
  BY <1>3
<1>5. ASSUME NEW b \in S, ~(b <= a) PROVE FALSE
  <2>1. a \in Int /\ \A c \in S : c \in Int
    OBVIOUS
  <2>2. a < b
    BY <1>5, <2>1
  <2>3. \A c \in S : b < c => a < c
    BY <2>1, <2>2
  <2>4. Above(b) \subseteq Above(a) /\ b \in Above(a) /\ b \notin Above(b)
    <3>1. ~(b < b)
      BY <2>1
    <3>2. \A c \in S : b < c => a < c
      BY <2>3
    <3> QED
      BY <2>2, <3>1, <3>2, Zenon
  <2>5. <<Above(b), Above(a)>> \in R
    BY <2>4 DEF StrictSubsetOrdering
  <2> QED
    BY <2>5, <1>4
<1> QED
  BY <1>5

\* The stamps of a table are finitely many.
LEMMA StampsFinite ==
  ASSUME NEW n \in Nat, NEW table \in Tables(n)
  PROVE  Stamps(table) \in SUBSET Nat /\ IsFiniteSet(Stamps(table))
<1> DEFINE D == DOMAIN table
           X == {table[v].xmin : v \in D}
           Y == {table[v].xmax : v \in D}
           f == [v \in D |-> table[v].xmin]
           g == [v \in D |-> table[v].xmax]
<1>1. D \in SUBSET (1..(n - 1)) /\ \A v \in D : table[v] \in Row
  BY DEF Tables
<1>2. IsFiniteSet(D)
  <2>1. IsFiniteSet(1..(n - 1))
    BY FS_Interval
  <2> QED
    BY <1>1, <2>1, FS_Subset
<1>3. f \in Surjection(D, X) /\ g \in Surjection(D, Y)
  BY DEF Surjection
<1>4. IsFiniteSet(X) /\ IsFiniteSet(Y)
  <2> HIDE DEF D, X, Y, f, g
  <2> QED
    BY <1>2, <1>3, FS_Surjection
<1>5. IsFiniteSet(X \cup Y)
  <2> HIDE DEF X, Y
  <2> QED
    BY <1>4, FS_Union
<1>6. X \cup Y \subseteq Nat
  BY <1>1 DEF Row
<1> QED
  BY <1>5, <1>6 DEF Stamps

\* _load_tables leaves the counter above every stamp it has read.
LEMMA CounterIsAbove ==
  ASSUME NEW n \in Nat, NEW table \in Tables(n)
  PROVE  LoadedCounter(table) \in Nat \ {0} /\ StampsBelow(table, LoadedCounter(table))
<1> DEFINE S == {0} \cup Stamps(table)
<1>1. S \in SUBSET Nat /\ IsFiniteSet(S) /\ S # {}
  <2>1. Stamps(table) \in SUBSET Nat /\ IsFiniteSet(Stamps(table))
    BY StampsFinite
  <2>2. IsFiniteSet(Stamps(table) \cup {0})
    BY <2>1, FS_AddElement
  <2>3. Stamps(table) \cup {0} = S
    OBVIOUS
  <2> QED
    BY <2>1, <2>2, <2>3
<1> DEFINE top == CHOOSE t \in S : \A u \in S : u <= t
<1>2. top \in S /\ \A u \in S : u <= top
  <2>1. \E t \in S : \A u \in S : u <= t
    <3> HIDE DEF S
    <3> QED
      BY <1>1, HasGreatest
  <2> HIDE DEF S
  <2> QED
    BY <2>1
<1>3. LoadedCounter(table) = 1 + top
  BY DEF LoadedCounter
<1>4. \A v \in DOMAIN table : table[v].xmin \in S /\ table[v].xmax \in S
  BY DEF Stamps
<1> HIDE DEF S, top
<1>5. top \in Nat /\ \A t \in S : t < 1 + top
  <2>1. top \in Nat /\ \A t \in S : t \in Nat /\ t <= top
    BY <1>1, <1>2
  <2> QED
    BY <2>1
<1>6. StampsBelow(table, 1 + top)
  BY <1>4, <1>5 DEF StampsBelow
<1> QED
  BY <1>3, <1>5, <1>6

\* What a new statement is shown was made by committed work and not deleted by it.
Settled(v) ==
  v \in DOMAIN rows /\ rows[v].xmin \in committed \cup {AutoCommit} /\ rows[v].xmax \notin committed
FreshSettled == \A v \in FreshView : Settled(v)

LEMMA FreshShown == IInv => FreshSettled
<1> SUFFICES ASSUME IInv, NEW v \in FreshView PROVE Settled(v)
  BY DEF FreshSettled
<1>1. v \in DOMAIN rows /\ IsVisible(rows[v], AutoCommit, CurrentSnapshot)
  BY DEF FreshView
<1>2. /\ committed \in SUBSET (1..(nextId - 1)) /\ committed \cap active = {} /\ nextId \in Nat
      /\ rows[v].xmax \in Nat
  BY <1>1 DEF IInv, TypeOK, MvccType, TableType, IdDiscipline, Row
<1>3. \A t \in committed : t \notin active /\ ~(t > nextId - 1) /\ t # 0
  BY <1>2
<1> QED
  BY <1>1, <1>3 DEF IsVisible, CreatorVisible, DeletionUnseen, CurrentSnapshot, AutoCommit,
     NotDeleted, Settled

\* After the process has died or started again no session has anything on its way.
LEMMA ForgetSessions ==
  ASSUME Forget, nextId' \in Nat \ {0}
  PROVE  /\ SessionType' /\ IdDiscipline' /\ SnapshotsAreOld'
         /\ active' = {} /\ aborted' = {} /\ nextVid' = nextVid
         /\ \A s \in Sessions : io'[s] = NoWork /\ ~InStatement(s)'
         /\ io' = [s \in Sessions |-> NoWork]
<1> USE DEF Forget
<1>1. /\ pc' \in [Sessions -> PCs] /\ id' \in [Sessions -> 0..(nextId' - 1)]
      /\ stmt' \in [Sessions -> Stmts]
  <2>0. \A n \in Nat \ {0} : 0 \in 0..(n - 1)
    OBVIOUS
  <2>1. 0 \in 0..(nextId' - 1)
    BY <2>0
  <2>2. id' \in [Sessions -> 0..(nextId' - 1)]
    BY <2>1
  <2>3. pc' \in [Sessions -> PCs]
    BY DEF PCs
  <2>4. stmt' \in [Sessions -> Stmts]
    BY DEF Stmts
  <2> QED
    BY <2>2, <2>3, <2>4
<1>2. snap' \in [Sessions -> Snapshots]
  BY DEF Snapshots, NoSnapshot
<1>3. \A s \in Sessions : ~InStatement(s)'
  BY DEF InStatement
<1>4. DOMAIN sps' = Sessions /\ \A s \in Sessions :
        DOMAIN sps'[s] \in SUBSET SpNames /\ sps'[s] \in [DOMAIN sps'[s] -> Savepoints]
  BY DEF NoSavepoints
<1>5. SessionType'
  BY <1>1, <1>2, <1>3, <1>4 DEF SessionType
<1>6. IdDiscipline'
  BY DEF IdDiscipline, HoldsActive
<1>7. SnapshotsAreOld'
  BY DEF SnapshotsAreOld, NoSnapshot
<1> QED
  BY <1>3, <1>5, <1>6, <1>7

\* With nothing to do a table is linked if no acknowledged row replaces another.
LEMMA LinkedAtRest ==
  ASSUME NEW table, NEW T, NEW stay, NEW left, NEW work,
         \A t \in T : work[t] = NoWork,
         \A v, w \in DOMAIN table : Replaces(table, w, v) /\ w \in stay => v \notin stay
  PROVE  Linked(table, T, stay, left, work)
BY NoWorkFacts DEF Linked

LEMMA FreshLinked ==
  ASSUME IInv, committed = {rows[v].xmin : v \in DOMAIN rows} \ {AutoCommit},
         NEW v \in DOMAIN rows, NEW w \in DOMAIN rows, Replaces(rows, w, v)
  PROVE  v \notin FreshView
BY FreshShown DEF FreshSettled, Settled, Replaces, NotDeleted, AutoCommit

\* The process dies: memory is empty, the files stay.
LEMMA CrashKeeps ==
  ASSUME DInv, Crash
  PROVE  DInv'
<1>1. /\ Forget /\ up' = FALSE /\ nextId' = 1 /\ committed' = {} /\ rows' = NoRows
      /\ UNCHANGED <<file, log, kept, removed, overlapped>>
      /\ dubious' = dubious \cup {v \in DOMAIN rows : rows[v].xmin \in active}
  BY DEF Crash
<1>2. /\ SessionType' /\ IdDiscipline' /\ SnapshotsAreOld'
      /\ active' = {} /\ aborted' = {} /\ nextVid' = nextVid
      /\ \A s \in Sessions : io'[s] = NoWork /\ ~InStatement(s)'
      /\ io' = [s \in Sessions |-> NoWork]
  BY <1>1, ForgetSessions
<1>3. nextVid \in Nat \ {0} /\ nextVid \in Nat /\ DOMAIN rows' = {}
  BY <1>1 DEF DInv, IInv, TypeOK, TableType, NoRows
<1>4. IInv'
  <2>1. MvccType'
    BY <1>1, <1>2 DEF MvccType
  <2>2. TableType'
    <3>1. rows' \in [{} -> Row]
      BY <1>1 DEF NoRows
    <3> QED
      BY <1>2, <1>3, <3>1 DEF TableType
  <2>3. StampInv'
    BY <1>2, <1>3 DEF StampInv, NoTraceOfAborted, UncommittedUntouched
  <2> QED
    BY <1>2, <2>1, <2>2, <2>3 DEF IInv, TypeOK
<1>5. DiskType'
  <2>1. dubious' \in SUBSET (1..(nextVid - 1))
    BY <1>1 DEF DInv, IInv, TypeOK, TableType, DiskType
  <2>2. \A s \in Sessions : StampsBelow(io'[s].text, nextId')
    <3>1. \A n : StampsBelow(NoRows, n)
      BY DEF StampsBelow, NoRows
    <3> QED
      BY <1>2, <3>1, NoWorkFacts
  <2> QED
    BY <1>1, <1>2, <2>1, <2>2 DEF DInv, DiskType
<1>6. WorkInv'
  BY <1>2, NoWorkFacts DEF WorkInv
<1>7. MemoryInv'
  <2>1. Linked(rows', Sessions, kept', removed', io')
    <3>1. \A t \in Sessions : io'[t] = NoWork
      BY <1>2
    <3> QED
      BY <1>3, <3>1, LinkedAtRest
  <2> QED
    BY <1>1, <1>2, <1>3, <2>1, NoWorkFacts DEF MemoryInv, FreshIds, KeptInMemory, MadeInMemory
<1>8. FileInv'
  <2>1. Writers' = {} /\ Savers' = {}
    BY <1>2, NoWorkFacts DEF Writers, Savers, Busy
  <2>2. Images' \subseteq Images
    BY <1>1, <2>1 DEF Images
  <2>3. ASSUME NEW table, Good(table) PROVE Good(table)'
    <3>1. Linked(table, {}, kept, removed, io')
      BY <2>3, LinkedLess DEF Good
    <3> QED
      BY <1>1, <2>1, <2>3, <3>1 DEF Good
  <2> QED
    BY <1>1, <2>1, <2>2, <2>3 DEF DInv, FileInv
<1> QED
  BY <1>4, <1>5, <1>6, <1>7, <1>8 DEF DInv

\* The process starts on a readable file.
LEMMA RestartKeeps ==
  ASSUME DInv, Restart
  PROVE  DInv'
<1>1. /\ Forget /\ ~up /\ up' = TRUE /\ file.state = "whole" /\ rows' = file.rows
      /\ committed' = LoadedCommitted(file.rows) /\ nextId' = LoadedCounter(file.rows)
      /\ kept' = kept \cap FreshView'
      /\ UNCHANGED <<file, log, removed, dubious, overlapped>>
  BY DEF Restart, logVars
<1>2. /\ nextVid \in Nat \ {0} /\ nextVid \in Nat /\ file.rows \in Tables(nextVid)
  BY DEF DInv, IInv, TypeOK, TableType, DiskType
<1>3. nextId' \in Nat \ {0} /\ StampsBelow(file.rows, nextId')
  BY <1>1, <1>2, CounterIsAbove
<1>4. /\ SessionType' /\ IdDiscipline' /\ SnapshotsAreOld'
      /\ active' = {} /\ aborted' = {} /\ nextVid' = nextVid
      /\ \A s \in Sessions : io'[s] = NoWork /\ ~InStatement(s)'
      /\ io' = [s \in Sessions |-> NoWork]
  BY <1>1, <1>3, ForgetSessions
<1>5. TableType'
  BY <1>1, <1>2, <1>3, <1>4 DEF TableType, Tables, StampsBelow
<1>6. IInv'
  <2>1. committed' \in SUBSET (1..(nextId' - 1))
    <3>1. \A t \in committed' : t \in Nat /\ t # 0 /\ t < nextId'
      BY <1>1, <1>5 DEF TableType, LoadedCommitted, AutoCommit, Row
    <3>2. \A n \in Nat : \A t \in Nat : t # 0 /\ t < n => t \in 1..(n - 1)
      OBVIOUS
    <3> QED
      BY <1>3, <3>1, <3>2
  <2>2. MvccType'
    BY <1>3, <1>4, <2>1 DEF MvccType
  <2>3. StampInv'
    BY <1>4 DEF StampInv, NoTraceOfAborted, UncommittedUntouched
  <2> QED
    BY <1>4, <1>5, <2>2, <2>3 DEF IInv, TypeOK
<1>7. DiskType'
  <2>1. \A s \in Sessions : StampsBelow(io'[s].text, nextId')
    <3>1. \A n : StampsBelow(NoRows, n)
      BY DEF StampsBelow, NoRows
    <3> QED
      BY <1>4, <3>1, NoWorkFacts
  <2> QED
    BY <1>1, <1>3, <1>4, <2>1 DEF DInv, DiskType
<1>8. WorkInv'
  BY <1>1, <1>4, NoWorkFacts DEF WorkInv
<1>9. MemoryInv'
  <2>1. \A v \in FreshView' : /\ v \in DOMAIN rows'
                              /\ rows'[v].xmin \in committed' \cup {AutoCommit}
                              /\ rows'[v].xmax \notin committed'
    <3>1. FreshSettled'
      BY <1>6, FreshShown, PTL
    <3> QED
      BY <3>1 DEF FreshSettled, Settled
  <2>2. KeptInMemory'
    BY <1>1, <2>1 DEF KeptInMemory
  <2>3. ASSUME NEW v \in DOMAIN rows', NEW w \in DOMAIN rows', Replaces(rows', w, v)
        PROVE  v \notin kept'
    <3>1. rows'[v].xmax \in committed'
      BY <1>1, <2>3 DEF Replaces, LoadedCommitted, AutoCommit, NotDeleted
    <3> QED
      BY <1>1, <2>1, <3>1
  <2>4. Linked(rows', Sessions, kept', removed', io')
    <3>1. \A t \in Sessions : io'[t] = NoWork
      BY <1>4
    <3> QED
      BY <2>3, <3>1, LinkedAtRest
  <2> QED
    BY <1>4, <2>2, <2>4, NoWorkFacts DEF MemoryInv, FreshIds, MadeInMemory
<1>10. FileInv'
  <2>1. Writers' = {} /\ Savers' = {} /\ Writers = {} /\ kept' \in SUBSET kept
    BY <1>1, <1>4, NoWorkFacts DEF Writers, Savers, Busy
  <2>2. Images' \subseteq Images
    BY <1>1, <2>1 DEF Images
  <2>3. ASSUME NEW table, Good(table) PROVE Good(table)'
    <3>1. Linked(table, {}, kept', removed, io')
      BY <2>1, <2>3, LinkedLess DEF Good
    <3> QED
      BY <1>1, <2>1, <2>3, <3>1 DEF Good
  <2> QED
    BY <1>1, <2>1, <2>2, <2>3 DEF DInv, FileInv
<1> QED
  BY <1>6, <1>7, <1>8, <1>9, <1>10 DEF DInv

\* The server starts with an empty log on the rows it has loaded.
LEMMA DurableInit == DInit => DInv
<1> SUFFICES ASSUME DInit PROVE DInv
  OBVIOUS
<1>1. /\ Init /\ up = TRUE /\ rows = Loaded /\ file.rows = Loaded /\ file.state = "whole"
      /\ file = [state |-> "whole", rows |-> Loaded, shared |-> FALSE]
      /\ log = <<>> /\ io = [s \in Sessions |-> NoWork]
      /\ kept = FreshView /\ removed = {} /\ dubious = {} /\ overlapped = FALSE
  BY DEF DInit, Init
<1>2. IInv
  BY <1>1, InitType, IdsInit, StampInit DEF IInv
<1>3. /\ nextVid \in Nat /\ rows \in Tables(nextVid) /\ StampsBelow(rows, nextId)
      /\ DOMAIN rows \subseteq 1..(nextVid - 1)
  BY <1>2, RowsAreTable DEF IInv, TypeOK, TableType
<1>4. committed = {rows[v].xmin : v \in DOMAIN rows} \ {AutoCommit}
  BY <1>1, LoadedAssumption DEF Init
<1>5. \A s \in Sessions : io[s] = NoWork /\ ~InStatement(s)
  BY <1>1 DEF Init, InStatement
<1>6. kept \subseteq DOMAIN rows
  BY <1>1 DEF FreshView
<1>7. DiskType
  <2>1. \A s \in Sessions : StampsBelow(io[s].text, nextId)
    <3>1. \A n : StampsBelow(NoRows, n)
      BY DEF StampsBelow, NoRows
    <3> QED
      BY <1>5, <3>1, NoWorkFacts
  <2>2. file \in [state : FileStates, rows : Tables(nextVid), shared : BOOLEAN]
    BY <1>1, <1>3 DEF FileStates
  <2>3. io \in [Sessions -> Works(nextVid) \cup {NoWork}] /\ log \in Seq(Changes \cup Commits)
    BY <1>1
  <2>4. /\ kept \in SUBSET (1..(nextVid - 1)) /\ removed \in SUBSET (1..(nextVid - 1))
        /\ dubious \in SUBSET (1..(nextVid - 1))
    BY <1>1, <1>3, <1>6
  <2>5. up \in BOOLEAN /\ overlapped \in BOOLEAN /\ StampsBelow(file.rows, nextId)
    BY <1>1, <1>3
  <2> QED
    BY <2>1, <2>2, <2>3, <2>4, <2>5 DEF DiskType
<1>8. WorkInv
  BY <1>1, <1>5, NoWorkFacts DEF WorkInv
<1>9. \A T \in SUBSET Sessions : Linked(rows, T, kept, removed, io)
  <2>1. \A v, w \in DOMAIN rows : Replaces(rows, w, v) => v \notin kept
    BY <1>1, <1>2, <1>4, FreshLinked
  <2> QED
    BY <1>5, <2>1, LinkedAtRest
<1>10. MemoryInv
  BY <1>1, <1>2, <1>5, <1>9, FreshShown, NoWorkFacts
     DEF FreshSettled, Settled, MemoryInv, FreshIds, KeptInMemory, MadeInMemory
<1>11. FileInv
  <2>1. Writers = {} /\ Savers = {}
    BY <1>5, NoWorkFacts DEF Writers, Savers, Busy
  <2>2. Good(rows)
    BY <1>6, <1>9, <2>1 DEF Good
  <2> QED
    BY <1>1, <2>1, <2>2 DEF FileInv, Images
<1> QED
  BY <1>2, <1>7, <1>8, <1>10, <1>11 DEF DInv

LEMMA DurableStep == DInv /\ [DNext]_allVars => DInv'
<1> SUFFICES ASSUME DInv, [DNext]_allVars PROVE DInv'
  OBVIOUS
<1>1. ASSUME NEW s \in Sessions, MemoryStep(s) PROVE DInv'
  <2>1. IInv'
    BY <1>1, MemoryIsNext, TypeStep, IdsStep, StampStep DEF DInv, IInv
  <2> QED
    BY <1>1, <2>1, MemoryTypes, MemoryRows, MemoryFiles DEF DInv
<1>2. ASSUME NEW s \in Sessions, DiskStep(s) PROVE DInv'
  <2>1. MemoryInv'
    BY <1>2, DiskIsStep, StepMemory DEF DInv
  <2> QED
    BY <1>2, <2>1, DiskTypes, DiskFiles DEF DInv
<1>3. ASSUME NEW s \in Sessions, Recover(s) PROVE DInv'
  BY <1>3, RecoverTypes, RecoverMemory, RecoverFiles DEF DInv
<1>4. CASE UNCHANGED allVars
  <2>1. /\ UNCHANGED vars /\ rows' = rows /\ committed' = committed /\ id' = id /\ pc' = pc
        /\ nextId' = nextId /\ nextVid' = nextVid
        /\ UNCHANGED <<up, file, log, io, kept, removed, dubious, overlapped>>
    BY <1>4 DEF allVars, vars, mvccVars, tableVars, sessionVars, diskVars, logVars, history
  <2>2. IInv'
    BY <2>1, TypeStep, IdsStep, StampStep DEF DInv, IInv
  <2>3. DiskType' /\ WorkInv'
    BY <2>1 DEF DInv, DiskType, WorkInv
  <2>4. MemoryInv'
    BY <2>1 DEF DInv, MemoryInv, FreshIds, KeptInMemory, MadeInMemory, InStatement
  <2>5. Writers' = Writers /\ Savers' = Savers /\ Images' = Images
    BY <2>1 DEF Writers, Busy, Savers, Images
  <2>6. FileInv'
    BY <2>1, <2>5 DEF DInv, FileInv, Good
  <2> QED
    BY <2>2, <2>3, <2>4, <2>6 DEF DInv
<1>5. CASE DNext
  <2>1. CASE Running
    <3>1. \E s \in Sessions : MemoryStep(s) \/ DiskStep(s) \/ Recover(s)
      BY <2>1 DEF Running, MemoryStep, DiskStep
    <3> QED
      BY <3>1, <1>1, <1>2, <1>3
  <2> QED
    BY <1>5, <2>1, CrashKeeps, RestartKeeps DEF DNext
<1> QED
  BY <1>4, <1>5

\* The invariant of the memory, of the file and of what is on its way between them.
THEOREM DurableInvariant == DSpec => []DInv
BY DurableInit, DurableStep, PTL DEF DSpec

-----------------------------------------------------------------------------
(***************************************************************************)
(* What follows from the invariant.                                        *)
(***************************************************************************)
LEMMA DiskFollows == DInv => DiskTypeOK
<1> SUFFICES ASSUME DInv PROVE DiskTypeOK
  OBVIOUS
<1>1. /\ up \in BOOLEAN /\ file.state \in FileStates /\ file.rows \in Tables(nextVid)
      /\ kept \cup removed \cup dubious \subseteq 1..(nextVid - 1)
      /\ \A s \in Sessions : io[s] \in Works(nextVid) \cup {NoWork}
      /\ up => StampsBelow(file.rows, nextId)
  BY DEF DInv, DiskType
<1>2. file.rows \in [DOMAIN file.rows -> Row] /\ DOMAIN file.rows \subseteq 1..(nextVid - 1)
  BY <1>1 DEF Tables
<1>3. \A s \in Sessions : io[s].lock \in {"none", "manager", "table"}
  BY <1>1, NoWorkFacts DEF Works
<1>4. Cardinality({s \in Sessions : io[s].lock = "manager"}) <= 1
  <2> DEFINE H == {s \in Sessions : io[s].lock = "manager"}
  <2>1. H = {} \/ \E s : H = {s}
    BY DEF DInv, WorkInv
  <2>2. \A s : Cardinality({s}) = 1
    BY FS_Singleton
  <2>3. Cardinality(H) \in {0, 1}
    <3> HIDE DEF H
    <3> QED
      BY <2>1, <2>2, FS_EmptySet
  <2> QED
    BY <2>3
<1>5. up => \A t \in Stamps(file.rows) : t < nextId
  BY <1>1 DEF Stamps, StampsBelow
<1>6. TypeOK /\ IdDiscipline
  BY DEF DInv, IInv
<1> QED
  BY <1>1, <1>2, <1>3, <1>4, <1>5, <1>6 DEF DiskTypeOK

\* Memory and disk stay well formed across crashes and restarts, one session at a
\* time holds txn_mgr._lock while it writes, and the counter a restart computes is
\* above every stamp in the file (engine.py 97-142).
THEOREM DiskIsWellFormed == DSpec => []DiskTypeOK
BY DiskFollows, DurableInvariant, PTL

\* An insertion whose client got its answer is in every readable table file, before
\* and after any crash, unless two sessions have saved the table at the same time
\* (engine.py 144-171, manager.py 121-136).
THEOREM AcknowledgedRowsReachTheDisk == DSpec => []AckedRowsAreOnDisk
<1>1. DInv => AckedRowsAreOnDisk
  BY DEF DInv, FileInv, Images, Good, AckedRowsAreOnDisk
<1> QED
  BY <1>1, DurableInvariant, PTL

LEMMA CommitFollows ==
  ASSUME DInv, NEW s \in Sessions, Busy(s, "commit"), file.state = "whole", ~overlapped
  PROVE  /\ io[s].made \cap DOMAIN rows \subseteq DOMAIN file.rows
         /\ \A v \in io[s].gone \cap DOMAIN file.rows : file.rows[v].xmax # NotDeleted
<1>1. io[s].todo \in Todos /\ Head(io[s].todo) = "commit"
  BY NoWorkFacts DEF Busy, DInv, DiskType, Works
<1>2. s \in Savers /\ io[s].lock = "manager"
  BY <1>1, FirstSteps DEF Savers, DInv, WorkInv, WorkOK
<1>3. Good(file.rows)
  BY DEF DInv, FileInv, Images
<1> QED
  BY <1>2, <1>3 DEF Good, Linked

\* The COMMIT record goes to the log only when the file holds the transaction's
\* insertions and its deletions: replaying the log adds nothing the file lacks
\* (manager.py 121-136).
THEOREM CommitRecordIsLast == DSpec => CommitRecordFollowsData
<1> DEFINE A == \A s \in Sessions :
       Busy(s, "commit") /\ up' /\ io'[s] # io[s] /\ file.state = "whole" /\ ~overlapped =>
         /\ io[s].made \cap DOMAIN rows \subseteq DOMAIN file.rows
         /\ \A v \in io[s].gone \cap DOMAIN file.rows :
              file.rows[v].xmax # NotDeleted
<1>1. DInv /\ [DNext]_allVars => [A]_allVars
  BY CommitFollows
<1> QED
  BY <1>1, DurableInvariant, PTL DEF DSpec, CommitRecordFollowsData

LEMMA RecoveredIsSeen ==
  ASSUME NEW row, row.xmin = 0, row.xmax = 0, NEW me \in Nat \ {0}, NEW sn
  PROVE  IsVisible(row, me, sn)
BY DEF IsVisible, CreatorVisible, DeletionUnseen, AutoCommit, NotDeleted

LEMMA RecoverShows ==
  ASSUME DInv, NEW s \in Sessions, Recover(s)
  PROVE  LET added == DOMAIN rows' \ DOMAIN rows IN
         /\ \A v \in DOMAIN rows : v \in DOMAIN rows' /\ rows'[v] = rows[v]
         /\ FreshView' = FreshView
         /\ Undeleted' = Undeleted \cup added
         /\ NextView' = NextView \cup added
         /\ \A t \in Sessions : Open(t) => View(t)' = View(t) \cup added
<1> DEFINE added == DOMAIN rows' \ DOMAIN rows
<1>1. /\ \A v \in DOMAIN rows : v \in DOMAIN rows' /\ rows'[v] = rows[v]
      /\ \A v \in added : rows'[v].xmin = 0 /\ rows'[v].xmax = 0
  BY RecoverRows DEF DInv
<1>2. CurrentSnapshot' = CurrentSnapshot /\ nextId' = nextId /\ id' = id /\ snap' = snap
  BY DEF Recover, mvccVars, sessionVars, CurrentSnapshot
<1>3. nextId \in Nat \ {0} /\ \A t \in Sessions : Open(t) => id[t] \in Nat \ {0}
  BY DEF DInv, IInv, TypeOK, MvccType, SessionType, IdDiscipline, Open
<1>4. FreshView' = FreshView
  <2>1. \A v \in added : ~IsVisible(rows'[v], AutoCommit, CurrentSnapshot)
    BY <1>1 DEF IsVisible, AutoCommit
  <2>2. FreshView' = {v \in DOMAIN rows' : IsVisible(rows'[v], AutoCommit, CurrentSnapshot)}
    BY <1>2 DEF FreshView
  <2> QED
    BY <1>1, <2>1, <2>2 DEF FreshView
<1>5. Undeleted' = Undeleted \cup added
  BY <1>1 DEF Undeleted, NotDeleted
<1>6. NextView' = NextView \cup added
  <2>1. \A v \in added : IsVisible(rows'[v], nextId, CurrentSnapshot)
    BY <1>1, <1>3, RecoveredIsSeen
  <2>2. NextView' = {v \in DOMAIN rows' : IsVisible(rows'[v], nextId, CurrentSnapshot)}
    BY <1>2 DEF NextView
  <2> QED
    BY <1>1, <2>1, <2>2 DEF NextView
<1>7. ASSUME NEW t \in Sessions, Open(t) PROVE View(t)' = View(t) \cup added
  <2>1. \A v \in added : IsVisible(rows'[v], id[t], snap[t])
    BY <1>1, <1>3, <1>7, RecoveredIsSeen
  <2>2. View(t)' = {v \in DOMAIN rows' : IsVisible(rows'[v], id[t], snap[t])}
    BY <1>2 DEF View
  <2> QED
    BY <1>1, <2>1, <2>2 DEF View
<1> QED
  BY <1>1, <1>4, <1>5, <1>6, <1>7

\* RECOVER leaves every row in memory as it is, whatever is in the log; what it inserts
\* carries id 0 twice, which a SELECT outside transactions takes for deleted and every
\* other reader for live (engine.py 562-641 with mvcc.py 155-164).
THEOREM RecoveredRowsAreHalfSeen == DSpec => OnlySelectMissesRecovered
<1> DEFINE A == \A s \in Sessions : Recover(s) =>
       LET added == DOMAIN rows' \ DOMAIN rows IN
       /\ \A v \in DOMAIN rows : v \in DOMAIN rows' /\ rows'[v] = rows[v]
       /\ FreshView' = FreshView
       /\ Undeleted' = Undeleted \cup added
       /\ NextView' = NextView \cup added
       /\ \A t \in Sessions : Open(t) => View(t)' = View(t) \cup added
<1>1. DInv /\ [DNext]_allVars => [A]_allVars
  <2> SUFFICES ASSUME DInv, NEW s \in Sessions, Recover(s)
               PROVE  LET added == DOMAIN rows' \ DOMAIN rows IN
                      /\ \A v \in DOMAIN rows : v \in DOMAIN rows' /\ rows'[v] = rows[v]
                      /\ FreshView' = FreshView
                      /\ Undeleted' = Undeleted \cup added
                      /\ NextView' = NextView \cup added
                      /\ \A t \in Sessions : Open(t) => View(t)' = View(t) \cup added
    OBVIOUS
  <2> QED
    BY RecoverShows
<1> QED
  BY <1>1, DurableInvariant, PTL DEF DSpec, OnlySelectMissesRecovered

\* Why a row of the file is hidden after the restart.
LEMMA RestartHides ==
  ASSUME DInv, DInv', Restart, ~overlapped, NEW v \in kept
  PROVE  v \in DOMAIN rows' /\
         \/ v \in FreshView'
         \/ rows'[v].xmin = AutoCommit /\ rows'[v].xmax = NotDeleted
         \/ /\ rows'[v].xmax # NotDeleted
            /\ \E w \in DOMAIN rows' \ kept : rows'[w].xmin = rows'[v].xmax
<1>1. /\ rows' = file.rows /\ file.state = "whole" /\ Forget
      /\ committed' = {rows'[w].xmin : w \in DOMAIN rows'} \ {AutoCommit}
  BY DEF Restart, LoadedCommitted
<1>2. Good(rows')
  BY <1>1 DEF DInv, FileInv, Images
<1>3. v \in DOMAIN rows' /\ rows'[v] \in Row /\ nextId' \in Nat /\ rows'[v].xmin < nextId'
  BY <1>2 DEF Good, DInv, IInv, TypeOK, MvccType, TableType
<1>4. CurrentSnapshot' = [active |-> {}, committed |-> committed', max |-> nextId' - 1]
  BY <1>1 DEF CurrentSnapshot, Forget
<1>5. v \in FreshView' <=> IsVisible(rows'[v], AutoCommit, CurrentSnapshot')
  BY <1>3 DEF FreshView
<1>6. rows'[v].xmin <= nextId' - 1 /\ rows'[v].xmin \in Nat /\ rows'[v].xmax \in Nat
  BY <1>3 DEF Row
<1>7. CASE rows'[v].xmax \in committed'
  <2>1. PICK w \in DOMAIN rows' : rows'[w].xmin = rows'[v].xmax /\ rows'[v].xmax # 0
    BY <1>1, <1>7 DEF AutoCommit
  <2>2. Replaces(rows', w, v)
    BY <2>1 DEF Replaces, NotDeleted
  <2>3. w \notin kept
    BY <1>2, <1>3, <2>1, <2>2 DEF Good, Linked
  <2> QED
    BY <1>3, <2>1, <2>3 DEF NotDeleted
<1>8. CASE rows'[v].xmax \notin committed'
  <2>1. rows'[v].xmin # 0 => rows'[v].xmin \in committed'
    BY <1>1, <1>3 DEF AutoCommit
  <2>2. rows'[v].xmin # 0 => IsVisible(rows'[v], AutoCommit, CurrentSnapshot')
    BY <1>4, <1>6, <1>8, <2>1 DEF IsVisible, CreatorVisible, DeletionUnseen, AutoCommit, NotDeleted
  <2>3. rows'[v].xmin = 0 /\ rows'[v].xmax # 0 => IsVisible(rows'[v], AutoCommit, CurrentSnapshot')
    BY <1>4, <1>8 DEF IsVisible, AutoCommit, NotDeleted
  <2> QED
    BY <1>3, <1>5, <2>2, <2>3 DEF AutoCommit, NotDeleted
<1> QED
  BY <1>7, <1>8

\* A restart loses no acknowledged row and hides one only if an unanswered statement
\* had replaced it, or a rollback its deletion when it has no creator
\* (engine.py 132-142, manager.py 130, mvcc.py 155-158).
THEOREM RestartIsHonest == DSpec => RestartLosesOnlyToUnanswered
<1> DEFINE A == ~up /\ up' /\ ~overlapped =>
       \A v \in kept : v \in DOMAIN rows' /\
         \/ v \in FreshView'
         \/ rows'[v].xmin = AutoCommit /\ rows'[v].xmax = NotDeleted
         \/ /\ rows'[v].xmax # NotDeleted
            /\ \E w \in DOMAIN rows' \ kept : rows'[w].xmin = rows'[v].xmax
<1>1. ASSUME DInv, DNext, ~up, up' PROVE Restart
  <2>1. \A s \in Sessions : ~MemoryStep(s) /\ ~DiskStep(s) /\ ~Recover(s)
    <3>1. ASSUME NEW s \in Sessions, MemoryStep(s) PROVE FALSE
      BY <1>1, <3>1, MemoryFrame DEF DInv
    <3>2. ASSUME NEW s \in Sessions, DiskStep(s) PROVE FALSE
      BY <1>1, <3>2, DiskIsStep DEF DInv, Step
    <3>3. ASSUME NEW s \in Sessions, Recover(s) PROVE FALSE
      BY <1>1, <3>3, RecoverWork
    <3> QED
      BY <3>1, <3>2, <3>3
  <2>2. ~Running
    BY <2>1 DEF Running, MemoryStep, DiskStep
  <2> QED
    BY <1>1, <2>2 DEF DNext, Crash
<1>2. DInv /\ DInv' /\ [DNext]_allVars => [A]_allVars
  <2> SUFFICES ASSUME DInv, DInv', DNext, ~up, up', ~overlapped PROVE A
    OBVIOUS
  <2>1. Restart
    BY <1>1
  <2> QED
    BY <2>1, RestartHides
<1> QED
  BY <1>2, DurableInvariant, PTL DEF DSpec, RestartLosesOnlyToUnanswered

=============================================================================
