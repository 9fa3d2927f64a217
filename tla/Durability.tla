----------------------------- MODULE Durability -----------------------------
(***************************************************************************)
(* What survives a crash: the table file, the write-ahead log              *)
(* (storage/wal.py), the saves of StorageEngine and TransactionManager,    *)
(* the load at start-up and RECOVER.                                       *)
(*                                                                         *)
(* The memory of the server is Transactions. A statement is an action of   *)
(* that module followed by its disk steps, one at a time; between them     *)
(* other sessions run and the process may die. There is one table. A crash *)
(* inside a write leaves an unreadable file, or a log line cut short.      *)
(***************************************************************************)
EXTENDS Transactions, Functions

CONSTANTS
  MaxCrashes,  \* bound: the process dies at most so often
  MaxLog       \* bound: no statement changes rows when the log is this long

ASSUME CrashAssumption == MaxCrashes \in Nat /\ MaxLog \in Nat

VARIABLES
  up,          \* the process runs
  file,        \* the table's file: its state and the rows written in it
  log,         \* the records of the log that RECOVER looks at
  skipped,     \* the log also holds records RECOVER skips
  cut,         \* the last line of the log is cut short
  io,          \* per session: what its statement has left to do on disk
  kept,        \* history: rows whose insertion was acknowledged, and that no
               \* transaction in memory has deleted and committed since
  removed,     \* history: rows whose deletion was acknowledged
  dubious,     \* history: rows whose creator was running when the process died
  overlapped,  \* history: two sessions have saved the table at the same time
  crashes      \* history: how often the process has died

logVars  == <<log, skipped, cut>>
diskVars == <<up, file, logVars>>
history  == <<kept, removed, dubious, overlapped>>
allVars  == <<vars, diskVars, io, history, crashes>>

FileStates == {"whole", "empty", "broken"}
Empty      == [state |-> "empty", rows |-> NoRows, shared |-> FALSE]
NoRecord   == [op |-> "none"]
NoWork     == [todo |-> <<>>, lock |-> "none", rec |-> NoRecord, text |-> NoRows,
               made |-> {}, gone |-> {}]

DInit ==
  /\ Init
  /\ up = TRUE
  /\ file = [state |-> "whole", rows |-> Loaded, shared |-> FALSE]
  /\ log = <<>> /\ skipped = FALSE /\ cut = FALSE
  /\ io = [s \in Sessions |-> NoWork]
  /\ kept = FreshView /\ removed = {} /\ dubious = {}
  /\ overlapped = FALSE /\ crashes = 0

-----------------------------------------------------------------------------
(***************************************************************************)
(* The disk steps of each statement, in the order of the code, and the     *)
(* lock it holds while it takes them.                                      *)
(***************************************************************************)
SaveSteps == <<"open", "close">>

\* Mistakes to catch: COMMIT logs first and saves afterwards, or it does not save.
CommitLogsOnly  == <<"commit", "checkpoint">>
CommitLogsFirst == <<"commit", "open", "close", "checkpoint">>

CommitSteps == <<"open", "close", "commit", "checkpoint">>

AutoSteps    == <<"log", "open", "close">>
RecoverSteps == <<"open", "close", "checkpoint">>

Idle(s)      == up /\ io[s] = NoWork
FlushFree    == \A t \in Sessions : io[t].lock # "manager"
InsertFree   == \A t \in Sessions : io[t].lock # "table"

\* Bounds: on statements that change rows, and on those outside transactions.
LogBounded   == Len(log) < MaxLog
Bounded      == LogBounded /\ nextVid <= MaxVid

Record(op, s, k, new) == [op |-> op, txn |-> id[s], key |-> k, new |-> new]

Leaves(s, lock, todo, rec, made, gone) ==
  io' = [io EXCEPT ![s] = IF todo = <<>> THEN NoWork
           ELSE [todo |-> todo, lock |-> lock, rec |-> rec, text |-> NoRows,
                 made |-> made, gone |-> gone]]

\* Statements whose log record RECOVER skips.
Logs(s) ==
  /\ Leaves(s, "manager", <<"mark">>, NoRecord, {}, {})
  /\ UNCHANGED <<diskVars, history>>

DBegin(s) ==
  /\ Idle(s) /\ FlushFree
  /\ \/ BeginAllocate(s) /\ UNCHANGED <<io, diskVars, history>>
     \/ BeginSnapshot(s) /\ Logs(s)

DRollback(s) == Idle(s) /\ FlushFree /\ Rollback(s) /\ Logs(s)

DSavepoint(s, n) ==
  /\ Idle(s) /\ FlushFree
  /\ Savepoint(s, n) \/ RollbackTo(s, n) \/ ReleaseSavepoint(s, n)
  /\ Logs(s)

MadeBy(txn)    == {v \in DOMAIN rows : rows[v].xmin = txn}
DeletedBy(txn) == {v \in DOMAIN rows : rows[v].xmax = txn}

DCommit(s) ==
  /\ Idle(s) /\ FlushFree /\ Commit(s)
  /\ Leaves(s, "manager", CommitSteps, [op |-> "COMMIT", txn |-> id[s]],
            MadeBy(id[s]), DeletedBy(id[s]))
  /\ kept' = kept \ DeletedBy(id[s])
  /\ UNCHANGED <<diskVars, removed, dubious, overlapped>>

DVacuum(s) ==
  /\ Idle(s) /\ FlushFree /\ Vacuum(s)
  /\ Leaves(s, "manager", IF rows' = rows THEN <<>> ELSE SaveSteps, NoRecord, {}, {})
  /\ UNCHANGED <<diskVars, history>>

\* INSERT, UPDATE and DELETE inside a transaction are logged after the table
\* has changed, and saved by COMMIT. Without a target nothing is logged.
DInsert(s, k) ==
  /\ Idle(s) /\ LogBounded /\ InsertFree /\ Insert(s, k)
  /\ Leaves(s, "table", <<"log">>, Record("INSERT", s, k, k), {}, {})
  /\ UNCHANGED <<diskVars, history>>

DChange(s, k, new) ==
  /\ Idle(s) /\ LogBounded
  /\ \E rec \in {Record("UPDATE", s, k, new), Record("DELETE", s, k, k)} :
       /\ \/ rec.op = "UPDATE" /\ Update(s, k, new)
          \/ rec.op = "DELETE" /\ new = k /\ Delete(s, k)
       /\ Leaves(s, "none", IF rows' = rows THEN <<>> ELSE <<"log">>, rec, {}, {})
  /\ UNCHANGED <<diskVars, history>>

DAutoStart(s) ==
  /\ Idle(s) /\ Bounded
  /\ \/ \E k, new \in Writes[s], op \in Ops :
          AutoAllocate(s, op, k, new) /\ (op = "insert" => InsertFree)
     \/ AutoMark(s)
     \/ AutoSnapshot(s)
  /\ UNCHANGED <<io, diskVars, history>>

LogName == [insert |-> "INSERT", update |-> "UPDATE", delete |-> "DELETE"]

DAutoApply(s) ==
  /\ Idle(s) /\ AutoApply(s)
  /\ LET made == nextVid .. (nextVid' - 1)
         gone == {v \in DOMAIN rows : rows'[v].xmax = id[s]}
     IN  /\ Leaves(s, IF stmt[s].op = "insert" THEN "table" ELSE "none",
                   IF rows' = rows THEN <<>> ELSE AutoSteps,
                   Record(LogName[stmt[s].op], s, stmt[s].key, stmt[s].new), made, gone)
         /\ kept' = kept \ gone
  /\ UNCHANGED <<diskVars, removed, dubious, overlapped>>

\* TRUNCATE is saved and not logged.
DTruncate(s) ==
  /\ Idle(s) /\ Bounded /\ InsertFree /\ Truncate(s)
  /\ Leaves(s, "table", SaveSteps, NoRecord, {}, {})
  /\ kept' = {}
  /\ UNCHANGED <<diskVars, removed, dubious, overlapped>>

-----------------------------------------------------------------------------
(***************************************************************************)
(* One disk step.                                                          *)
(***************************************************************************)
Busy(s, step) == up /\ io[s].todo # <<>> /\ Head(io[s].todo) = step
Writers == {t \in Sessions : Busy(t, "close")}

\* With its last step the statement is answered. A version it made may have been
\* deleted meanwhile.
Answered(work) ==
  /\ removed' = removed \cup work.gone
  /\ kept' = (kept \cup {v \in work.made \cap DOMAIN rows : rows[v].xmax \notin committed})
               \ removed'

Steps(s, work) ==
  IF Len(work.todo) > 1
  THEN /\ io' = [io EXCEPT ![s] = [work EXCEPT !.todo = Tail(work.todo)]]
       /\ UNCHANGED <<kept, removed>>
  ELSE io' = [io EXCEPT ![s] = NoWork] /\ Answered(work)

\* WAL.write. After a line cut short the new line continues it, and both are
\* unreadable.
AppendRecord(s) ==
  /\ Busy(s, "log") \/ Busy(s, "commit")
  /\ log' = IF cut THEN log ELSE Append(log, io[s].rec)
  /\ cut' = FALSE
  /\ Steps(s, io[s])
  /\ UNCHANGED <<vars, up, file, skipped, dubious, overlapped>>

AppendSkipped(s) ==
  /\ Busy(s, "mark")
  /\ skipped' = (skipped \/ ~cut)
  /\ cut' = FALSE
  /\ Steps(s, io[s])
  /\ UNCHANGED <<vars, up, file, log, dubious, overlapped>>

\* _save_table: open(path, "w") empties the file, json.dump writes the rows into
\* the buffer. Steps of other sessions on the rows or on the log can as well come
\* before both, so both are one step.
OpenFile(s) ==
  /\ Busy(s, "open")
  /\ file' = [Empty EXCEPT !.shared = Writers # {}]
  /\ overlapped' = (overlapped \/ Writers # {})
  /\ Steps(s, [io[s] EXCEPT !.text = rows])
  /\ UNCHANGED <<vars, up, logVars, dubious>>

\* The buffer reaches the file. When two sessions have the file open, the one
\* text lies over the other: the file holds the later text, or the later one and
\* the end of the other.
CloseFile(s) ==
  /\ Busy(s, "close")
  /\ \E state \in {"whole"} \cup IF file.shared THEN {"broken"} ELSE {} :
       file' = [file EXCEPT !.state = state,
                            !.rows = IF state = "whole" THEN io[s].text ELSE NoRows]
  /\ Steps(s, [io[s] EXCEPT !.text = NoRows])
  /\ UNCHANGED <<vars, up, logVars, dubious, overlapped>>

\* WAL.checkpoint.
Checkpoint(s) ==
  /\ Busy(s, "checkpoint")
  /\ log' = <<>> /\ skipped' = FALSE /\ cut' = FALSE
  /\ Steps(s, io[s])
  /\ UNCHANGED <<vars, up, file, dubious, overlapped>>

-----------------------------------------------------------------------------
(***************************************************************************)
(* Crash, start-up, RECOVER.                                               *)
(***************************************************************************)
Forget ==
  /\ active' = {} /\ aborted' = {}
  /\ pc'   = [s \in Sessions |-> "idle"]
  /\ id'   = [s \in Sessions |-> 0]
  /\ snap' = [s \in Sessions |-> NoSnapshot]
  /\ stmt' = [s \in Sessions |-> NoStmt]
  /\ sps'  = [s \in Sessions |-> NoSavepoints]
  /\ io'   = [s \in Sessions |-> NoWork]
  /\ UNCHANGED nextVid

Crash ==
  /\ up /\ up' = FALSE
  /\ crashes < MaxCrashes /\ crashes' = crashes + 1
  /\ Forget
  /\ nextId' = 1 /\ committed' = {} /\ rows' = NoRows
  /\ \/ UNCHANGED cut
     \/ (\E s \in Sessions, step \in {"log", "commit", "mark"} : Busy(s, step)) /\ cut' = TRUE
  /\ dubious' = dubious \cup {v \in DOMAIN rows : rows[v].xmin \in active}
  /\ UNCHANGED <<file, log, skipped, kept, removed, overlapped>>

Stamps(table) == {table[v].xmin : v \in DOMAIN table} \cup {table[v].xmax : v \in DOMAIN table}

\* Mistakes to catch: deleters are taken as committed too, and the counter
\* looks at creators only.
LoadedWithDeleters(table) == Stamps(table) \ {0}
CounterAboveCreators(table) ==
  LET creators == {0} \cup {table[v].xmin : v \in DOMAIN table}
  IN  1 + CHOOSE t \in creators : \A u \in creators : u <= t

LoadedCommitted(table) == {table[v].xmin : v \in DOMAIN table} \ {AutoCommit}
LoadedCounter(table) ==
  LET stamps == {0} \cup Stamps(table)
  IN  1 + CHOOSE t \in stamps : \A u \in stamps : u <= t

\* _load_tables. On an unreadable file json.load raises and nothing starts.
Restart ==
  /\ ~up /\ file.state = "whole" /\ up' = TRUE
  /\ Forget
  /\ rows' = file.rows
  /\ committed' = LoadedCommitted(file.rows)
  /\ nextId' = LoadedCounter(file.rows)
  /\ kept' = kept \cap FreshView'
  /\ UNCHANGED <<file, logVars, removed, dubious, overlapped>>

Live(table, key) == {v \in DOMAIN table : table[v].key = key /\ table[v].xmax = NotDeleted}

\* Versions are added, and `targets` are stamped, with id 0.
Replayed(table, targets, n, key, me) ==
  LET new == table.next .. (table.next + n - 1) IN
  [rows |-> [v \in DOMAIN table.rows \cup new |->
               IF v \in new THEN StampInsert(key, AutoCommit)
               ELSE IF v \in targets THEN StampDelete(table.rows[v], me)
               ELSE table.rows[v]],
   next |-> table.next + n]

\* A mistake to catch: deletions are replayed with the id of the record.
ReplayWithId(table, rec) ==
  LET T == Live(table.rows, rec.key) IN
  IF rec.op = "INSERT" THEN IF T # {} THEN table ELSE Replayed(table, {}, 1, rec.key, 0)
  ELSE IF rec.op = "UPDATE" THEN Replayed(table, T, Cardinality(T), rec.new, rec.txn)
  ELSE Replayed(table, T, 0, rec.key, rec.txn)

\* One record: INSERT unless an equal row is live, UPDATE and DELETE through
\* Table.update and Table.delete with their default id, which is 0.
Replay(table, rec) ==
  LET T == Live(table.rows, rec.key) IN
  IF rec.op = "INSERT" THEN IF T # {} THEN table ELSE Replayed(table, {}, 1, rec.key, 0)
  ELSE IF rec.op = "UPDATE" THEN Replayed(table, T, Cardinality(T), rec.new, AutoCommit)
  ELSE Replayed(table, T, 0, rec.key, AutoCommit)

LoggedCommits == {log[i].txn : i \in {j \in DOMAIN log : log[j].op = "COMMIT"}}

Counts(rec) == rec.op # "COMMIT" /\ rec.txn \in LoggedCommits

\* The orders records may be replayed in. read_all sorts them by number, which is not
\* the order of the file: sessions take numbers and write lines without a common lock,
\* and a checkpoint, which starts the numbers at 1 again, may come between the two.
\* Any order is allowed, also one that the sessions at hand cannot bring about.
Orders == {f \in [DOMAIN log -> DOMAIN log] : IsInjective(f)}

\* The table and the next version after all records.
Replays(order) ==
  LET After[i \in 0..Len(log)] ==
        IF i = 0 THEN [rows |-> rows, next |-> nextVid]
        ELSE IF Counts(log[order[i]]) THEN Replay(After[i - 1], log[order[i]])
        ELSE After[i - 1]
  IN  After[Len(log)]

Recover(s) ==
  /\ Idle(s) /\ Ready(s) /\ "recover" \in Does[s]
  /\ log # <<>> \/ skipped
  /\ Leaves(s, "none", RecoverSteps, NoRecord, {}, {})
  /\ UNCHANGED <<mvccVars, sessionVars, diskVars, history>>
  /\ \E table \in {Replays(order) : order \in Orders} :
       rows' = table.rows /\ nextVid' = table.next

Running ==
  /\ \E s \in Sessions :
       \/ DBegin(s) \/ DCommit(s) \/ DRollback(s) \/ DVacuum(s)
       \/ \E n \in SpNames : DSavepoint(s, n)
       \/ \E k \in Writes[s] : DInsert(s, k) \/ \E new \in Writes[s] : DChange(s, k, new)
       \/ DAutoStart(s) \/ DAutoApply(s) \/ DTruncate(s)
       \/ AppendRecord(s) \/ AppendSkipped(s)
       \/ OpenFile(s) \/ CloseFile(s) \/ Checkpoint(s)
       \/ Recover(s)
  /\ UNCHANGED crashes

DNext == Running \/ Crash \/ (Restart /\ UNCHANGED crashes)

DSpec == DInit /\ [][DNext]_allVars

-----------------------------------------------------------------------------
(***************************************************************************)
(* Properties.                                                             *)
(***************************************************************************)

\* Memory and disk hold what the code keeps in them; while the server runs,
\* no id it will hand out is on a row of the file (engine.py 97-142).
DiskTypeOK ==
  /\ up \in BOOLEAN
  /\ file.state \in FileStates
  /\ file.rows \in [DOMAIN file.rows -> Row]
  /\ kept \cup removed \cup dubious \cup DOMAIN file.rows \subseteq 1..(nextVid - 1)
  /\ \A s \in Sessions : io[s].lock \in {"none", "manager", "table"}
  /\ Cardinality({s \in Sessions : io[s].lock = "manager"}) <= 1
  /\ up => TypeOK /\ IdDiscipline /\ \A t \in Stamps(file.rows) : t < nextId

\* An acknowledged insertion is in the file whenever the file is readable,
\* whatever crashes, restarts, rollbacks and VACUUMs came in between, as long
\* as no two sessions saved the table at the same time.
AckedRowsAreOnDisk ==
  file.state = "whole" /\ ~overlapped => kept \subseteq DOMAIN file.rows

\* When COMMIT writes its record, the file holds the transaction's work: its
\* versions, and its stamps on the versions it deleted (manager.py 121-136).
CommitRecordFollowsData ==
  [][\A s \in Sessions :
       Busy(s, "commit") /\ up' /\ io'[s] # io[s] /\ file.state = "whole" /\ ~overlapped =>
         /\ io[s].made \cap DOMAIN rows \subseteq DOMAIN file.rows
         /\ \A v \in io[s].gone \cap DOMAIN file.rows :
              file.rows[v].xmax # NotDeleted]_allVars

\* What a join, an index scan and the uniqueness check go through outside
\* transactions (engine.py 495-502, executor.py 334, table.py 243), and what a
\* statement goes through that is about to take the next id: an auto-commit UPDATE or
\* DELETE, a BEGIN (engine.py 312, 365).
Undeleted == {v \in DOMAIN rows : rows[v].xmax = NotDeleted}
NextView  == {v \in DOMAIN rows : IsVisible(rows[v], nextId, CurrentSnapshot)}

\* Who sees the rows of RECOVER. It takes nothing away and changes no row that is
\* there: its deletions write 0, "not deleted". What it adds is stamped <<0, 0>>, and
\* those rows a SELECT outside transactions never returns, while everybody else has
\* them at once: joins, index scans and the uniqueness check, the next UPDATE or
\* DELETE, and every open transaction, however old its snapshot (engine.py 562-641
\* with mvcc.py 155-164).
OnlySelectMissesRecovered ==
  [][\A s \in Sessions : Recover(s) =>
       LET added == DOMAIN rows' \ DOMAIN rows IN
       /\ \A v \in DOMAIN rows : v \in DOMAIN rows' /\ rows'[v] = rows[v]
       /\ FreshView' = FreshView
       /\ Undeleted' = Undeleted \cup added
       /\ NextView' = NextView \cup added
       /\ \A t \in Sessions : Open(t) => View(t)' = View(t) \cup added]_allVars

\* A restart takes no acknowledged row away, and hides one for two reasons only. A
\* statement that had not been answered replaced the row, and its new version, not
\* acknowledged itself, was already in the file (engine.py 132-142, manager.py 130);
\* or the row has no creator and its deletion was rolled back, which had hidden it
\* before (mvcc.py 155-158).
RestartLosesOnlyToUnanswered ==
  [][~up /\ up' /\ ~overlapped =>
       \A v \in kept : v \in DOMAIN rows' /\
         \/ v \in FreshView'
         \/ rows'[v].xmin = AutoCommit /\ rows'[v].xmax = NotDeleted
         \/ /\ rows'[v].xmax # NotDeleted
            /\ \E w \in DOMAIN rows' \ kept : rows'[w].xmin = rows'[v].xmax]_allVars

(***************************************************************************)
(* What the repository says, and the code does not do.                     *)
(***************************************************************************)

\* engine.py 576: "committed data survives a crash". A deletion that was
\* acknowledged is not undone.
CommittedDeletesSurvive == up => removed \cap FreshView = {}

\* engine.py 139-140: loaded creators are committed, "they were persisted, so
\* they must have been committed".
PersistedMeansCommitted == up => FreshView \cap dubious = {}

\* docs/01_storage_engine.md 93: what is in the log is replayed and comes back. A
\* SELECT shows the rows that RECOVER adds.
RecoveredRowsAreBack ==
  [][\A s \in Sessions : Recover(s) => DOMAIN rows' \ DOMAIN rows \subseteq FreshView']_allVars
=============================================================================
