------------------------------ MODULE Catalog ------------------------------
(***************************************************************************)
(* The tables by name, in memory and on disk, while threads create, drop,  *)
(* rename and truncate them, insert rows and commit (storage/engine.py),   *)
(* and the process dies and starts again.                                  *)
(*                                                                         *)
(* A row is a number. Rows are inserted, truncated and rolled back here;   *)
(* versions, the log and saves cut short or laid over each other are in    *)
(* Transactions and Durability: a save is one step.                        *)
(***************************************************************************)
EXTENDS Integers, SequencesExt, FiniteSetsExt

CONSTANTS
  Threads,     \* the connections' threads
  Does,        \* Does[t]: the kinds of statements thread t runs
  Names,       \* table names
  First,       \* the name of the table there is at first
  MaxTables,   \* bound: Table objects made in one life of the process
  MaxEntries,  \* bound: entries of the dict with its holes, unless it closes them
  MaxRows,     \* bound: rows inserted
  MaxCrashes,  \* bound: the process dies at most so often
  Nil          \* no Table, no transaction

ASSUME CatalogAssumption ==
  First \in Names /\ Threads # {} /\ {MaxTables, MaxEntries, MaxRows, MaxCrashes} \subseteq Nat
ASSUME NilAssumption == Nil \notin Nat

VARIABLES
  tables,   \* StorageEngine.tables, the entries of the dict: a Table or a hole
  heap,     \* the Table objects: their name and rows
  locks,    \* _table_locks: the number of the lock each name has, or will get
  at,       \* at[t]: the statement of thread t and how far it is
  txn,      \* txn[t]: the rows of its open transaction, or Nil
  disk,     \* the files: from a name to the rows in it
  nextRow,  \* the next row
  crashes,  \* how often the process has died
  kept,     \* history: rows acknowledged, and not dropped, truncated or lost
  ghosts,   \* history: names whose file a dropped table was saved to
  shifted,  \* history: the dict has closed its holes under the iterator of a COMMIT
  skipped   \* history: rows acknowledged by such a COMMIT, and in no file

vars == <<tables, heap, locks, at, txn, disk, nextRow, crashes, kept, ghosts, shifted, skipped>>

Idle == [pc |-> "idle"]
Listed == {tables[i] : i \in DOMAIN tables} \ {Nil}
NamesListed == {heap[o].name : o \in Listed}
Named(n) == CHOOSE o \in Listed : heap[o].name = n

\* The tables there are: RENAME takes one out of the dict for a moment.
Tables == Listed \cup {at[t].obj : t \in {u \in Threads : at[u].pc = "popped"}}
Stored == UNION {heap[o].rows : o \in Tables}

Init ==
  /\ heap = <<[name |-> First, rows |-> {}]>>
  /\ tables = <<1>>
  /\ locks = [n \in Names |-> 1]
  /\ at = [t \in Threads |-> Idle]
  /\ txn = [t \in Threads |-> Nil]
  /\ disk = [n \in {First} |-> {}]
  /\ nextRow = 1 /\ crashes = 0 /\ kept = {} /\ ghosts = {} /\ shifted = FALSE /\ skipped = {}

-----------------------------------------------------------------------------
(***************************************************************************)
(* Locks. _engine_lock is held by CREATE, DROP and RENAME to their end, a  *)
(* transaction manager's lock by COMMIT and ROLLBACK, a table's lock by     *)
(* INSERT and TRUNCATE. DROP forgets the lock, CREATE makes a new one: whoever asks   *)
(* from then on does not meet those who have asked before.                 *)
(***************************************************************************)
EngineSteps == {"created", "dropped", "popped", "renamed", "unlinked"}
CommitSteps == {"next", "flush"}
Iterating == CommitSteps \cup {"undo"}

EngineFree == \A t \in Threads : at[t].pc \notin EngineSteps
ManagerFree == \A t \in Threads : at[t].pc \notin Iterating
LockFree(lock) == \A t \in Threads : ~(at[t].pc = "save" /\ at[t].lock = lock)

\* The lock of a statement is its name and the lock's number.
Asked == {at[t].lock : t \in {u \in Threads : at[u].pc \in {"wait", "save"}}}
NewLock(n) == Min({k \in 1..(Cardinality(Threads) + 1) : <<n, k>> \notin Asked})

Goes(t, work) == at' = [at EXCEPT ![t] = work]
Free(t) == at[t] = Idle

\* _save_table, under the name the table has now. A dropped table can be saved too.
Save(o) ==
  /\ disk' = [n \in DOMAIN disk \cup {heap[o].name} |->
                IF n = heap[o].name THEN heap[o].rows ELSE disk[n]]
  /\ ghosts' = IF o \in Tables THEN ghosts \ {heap[o].name} ELSE ghosts \cup {heap[o].name}
  /\ skipped' = IF o \in Tables THEN skipped \ heap[o].rows ELSE skipped

-----------------------------------------------------------------------------
(***************************************************************************)
(* INSERT and TRUNCATE.                                                    *)
(***************************************************************************)
\* The bound counts the inserts that wait.
Inserting == Cardinality({t \in Threads : at[t].pc = "wait" /\ at[t].op = "insert"})

\* _lock(name): the lock there is, or a new one, whether or not there is a table.
Ask(t, op, n) ==
  /\ Free(t) /\ EngineFree
  /\ op = "insert" => nextRow + Inserting <= MaxRows
  /\ Goes(t, [pc |-> "wait", op |-> op, name |-> n, lock |-> <<n, locks[n]>>])
  /\ UNCHANGED <<tables, heap, locks, txn, disk, nextRow, crashes, kept, ghosts, shifted, skipped>>

\* A mistake to catch: the lock is not released when get_table raises.
KeepsLock(t) == [pc |-> "save", lock |-> at[t].lock, obj |-> Nil, row |-> Nil]

AfterNoTable(t) == Idle

\* With the lock: get_table, which may raise, and the change in memory. Inside a
\* transaction INSERT ends here.
Run(t) ==
  /\ at[t].pc = "wait" /\ LockFree(at[t].lock)
  /\ IF at[t].name \notin NamesListed
     THEN Goes(t, AfterNoTable(t)) /\ UNCHANGED <<heap, txn, nextRow, kept>>
     ELSE LET o == Named(at[t].name)
              saving == [pc |-> "save", lock |-> at[t].lock, obj |-> o, row |-> nextRow]
          IN \/ /\ at[t].op = "truncate"
                /\ heap' = [heap EXCEPT ![o].rows = {}]
                /\ kept' = kept \ heap[o].rows
                /\ Goes(t, [saving EXCEPT !.row = Nil])
                /\ UNCHANGED <<txn, nextRow>>
             \/ /\ at[t].op = "insert"
                /\ heap' = [heap EXCEPT ![o].rows = @ \cup {nextRow}]
                /\ nextRow' = nextRow + 1
                /\ IF txn[t] = Nil THEN Goes(t, saving) /\ UNCHANGED txn
                   ELSE Goes(t, Idle) /\ txn' = [txn EXCEPT ![t] = @ \cup {nextRow}]
                /\ UNCHANGED kept
  /\ UNCHANGED <<tables, locks, disk, crashes, ghosts, shifted, skipped>>

SaveAndAnswer(t) ==
  /\ at[t].pc = "save" /\ at[t].obj # Nil
  /\ Save(at[t].obj)
  /\ kept' = kept \cup ({at[t].row} \cap Stored)
  /\ Goes(t, Idle)
  /\ UNCHANGED <<tables, heap, locks, txn, nextRow, crashes, shifted>>

-----------------------------------------------------------------------------
(***************************************************************************)
(* CREATE, DROP and RENAME TABLE, under the engine's lock. A dict leaves a *)
(* hole for what is removed, and appends what is added; when it has no     *)
(* entry left for it, it closes the holes first, and an iterator that is   *)
(* past one goes on at the same place, with a later table. When the        *)
(* entries run out is left open.                                           *)
(***************************************************************************)
InOrder(seq) ==
  \A i, j \in DOMAIN seq : i < j =>
    \E k, l \in DOMAIN tables : k < l /\ tables[k] = seq[i] /\ tables[l] = seq[j]

TakeOut(o) == tables' = [i \in DOMAIN tables |-> IF tables[i] = o THEN Nil ELSE tables[i]]

PutIn(o) ==
  \/ /\ Len(tables) < MaxEntries
     /\ tables' = Append(tables, o)
     /\ UNCHANGED shifted
  \/ /\ Nil \in Range(tables)
     /\ \E seq \in SetToSeqs(Listed) : InOrder(seq) /\ tables' = Append(seq, o)
     /\ shifted' = (shifted \/ \E t \in Threads : at[t].pc \in CommitSteps)

Create(t, n) ==
  /\ Free(t) /\ EngineFree
  /\ n \notin NamesListed
  /\ Len(heap) < MaxTables
  /\ heap' = Append(heap, [name |-> n, rows |-> {}])
  /\ PutIn(Len(heap) + 1)
  /\ locks' = [locks EXCEPT ![n] = NewLock(n)]
  /\ Goes(t, [pc |-> "created", obj |-> Len(heap')])
  /\ UNCHANGED <<txn, disk, nextRow, crashes, kept, ghosts, skipped>>

CreateSaved(t) ==
  /\ at[t].pc = "created"
  /\ Save(at[t].obj)
  /\ Goes(t, Idle)
  /\ UNCHANGED <<tables, heap, locks, txn, nextRow, crashes, kept, shifted>>

Drop(t, n) ==
  /\ Free(t) /\ EngineFree
  /\ n \in NamesListed
  /\ TakeOut(Named(n))
  /\ locks' = [locks EXCEPT ![n] = NewLock(n)]
  /\ kept' = kept \ heap[Named(n)].rows
  /\ Goes(t, [pc |-> "dropped", name |-> n])
  /\ UNCHANGED <<heap, txn, disk, nextRow, crashes, ghosts, shifted, skipped>>

\* A mistake to catch: the file stays.
LeaveFile(n) == UNCHANGED <<disk, ghosts, skipped>>

\* os.remove
Unlink(n) ==
  /\ disk' = [m \in DOMAIN disk \ {n} |-> disk[m]]
  /\ ghosts' = ghosts \ {n}
  /\ UNCHANGED skipped

DropRemoved(t) ==
  /\ at[t].pc = "dropped"
  /\ Unlink(at[t].name)
  /\ Goes(t, Idle)
  /\ UNCHANGED <<tables, heap, locks, txn, nextRow, crashes, kept, shifted>>

Rename(t, old, new) ==
  /\ Free(t) /\ EngineFree
  /\ old \in NamesListed /\ new \notin NamesListed
  /\ TakeOut(Named(old))
  /\ Goes(t, [pc |-> "popped", obj |-> Named(old), name |-> old, new |-> new])
  /\ UNCHANGED <<heap, locks, txn, disk, nextRow, crashes, kept, ghosts, shifted, skipped>>

\* The lock stays under the old name.
Renamed(t) ==
  /\ at[t].pc = "popped"
  /\ heap' = [heap EXCEPT ![at[t].obj].name = at[t].new]
  /\ PutIn(at[t].obj)
  /\ Goes(t, [at[t] EXCEPT !.pc = "renamed"])
  /\ UNCHANGED <<locks, txn, disk, nextRow, crashes, kept, ghosts, skipped>>

OldRemoved(t) ==
  /\ at[t].pc = "renamed"
  /\ Unlink(at[t].name)
  /\ Goes(t, [at[t] EXCEPT !.pc = "unlinked"])
  /\ UNCHANGED <<tables, heap, locks, txn, nextRow, crashes, kept, shifted>>

\* A mistake to catch: the table waits for its next statement to be saved.
SavedLater(t) == UNCHANGED <<disk, ghosts, skipped>>

SaveRenamed(t) == Save(at[t].obj)

NewSaved(t) ==
  /\ at[t].pc = "unlinked"
  /\ SaveRenamed(t)
  /\ Goes(t, Idle)
  /\ UNCHANGED <<tables, heap, locks, txn, nextRow, crashes, kept, shifted>>

-----------------------------------------------------------------------------
(***************************************************************************)
(* Transactions: COMMIT saves every table and ROLLBACK takes its rows out  *)
(* of every table, by iterating the dict. The iterator raises when the     *)
(* number of entries has changed, and when it finds one more than there    *)
(* were: COMMIT has ended its transaction by then, ROLLBACK has not.       *)
(***************************************************************************)
Begin(t) ==
  /\ Free(t) /\ ManagerFree /\ txn[t] = Nil
  /\ txn' = [txn EXCEPT ![t] = {}]
  /\ UNCHANGED <<tables, heap, locks, at, disk, nextRow, crashes, kept, ghosts, shifted, skipped>>

Iterator(pc) == [pc |-> pc, obj |-> Nil, pos |-> 1,
                 size |-> Cardinality(Listed), left |-> Cardinality(Listed)]

Commit(t) ==
  /\ Free(t) /\ ManagerFree /\ txn[t] # Nil
  /\ Goes(t, Iterator("next"))
  /\ UNCHANGED <<tables, heap, locks, txn, disk, nextRow, crashes, kept, ghosts, shifted, skipped>>

Rollback(t) ==
  /\ Free(t) /\ ManagerFree /\ txn[t] # Nil
  /\ Goes(t, Iterator("undo"))
  /\ UNCHANGED <<tables, heap, locks, txn, disk, nextRow, crashes, kept, ghosts, shifted, skipped>>

Rest(t) == {i \in DOMAIN tables : i >= at[t].pos /\ tables[i] # Nil}
IteratorRaises(t) ==
  Cardinality(Listed) # at[t].size \/ (Rest(t) # {} /\ at[t].left = 0)

Following(t) == Min(Rest(t))
Further(t) == [at[t] EXCEPT !.pos = Following(t) + 1, !.left = @ - 1]

Unsaved(o) ==
  IF heap[o].name \in DOMAIN disk THEN heap[o].rows \ disk[heap[o].name] ELSE heap[o].rows

\* next(): COMMIT fails, is answered, or has one more table to save.
NextTable(t) ==
  /\ at[t].pc = "next"
  /\ IF IteratorRaises(t) \/ Rest(t) = {}
     THEN /\ Goes(t, Idle)
          /\ txn' = [txn EXCEPT ![t] = Nil]
          /\ shifted' = FALSE
          /\ IF IteratorRaises(t) THEN UNCHANGED <<kept, skipped>>
             ELSE /\ kept' = kept \cup (txn[t] \cap Stored)
                  /\ skipped' = IF shifted THEN skipped \cup (txn[t] \cap UNION {Unsaved(o) : o \in Tables})
                                ELSE skipped
     ELSE /\ Goes(t, [Further(t) EXCEPT !.pc = "flush", !.obj = tables[Following(t)]])
          /\ UNCHANGED <<txn, kept, shifted, skipped>>
  /\ UNCHANGED <<tables, heap, locks, disk, nextRow, crashes, ghosts>>

Flush(t) ==
  /\ at[t].pc = "flush"
  /\ Save(at[t].obj)
  /\ Goes(t, [at[t] EXCEPT !.pc = "next"])
  /\ UNCHANGED <<tables, heap, locks, txn, nextRow, crashes, kept, shifted>>

\* ROLLBACK fails and leaves its transaction open, is answered, or takes its rows
\* out of one more table.
UndoNext(t) ==
  /\ at[t].pc = "undo"
  /\ IF IteratorRaises(t) \/ Rest(t) = {}
     THEN /\ Goes(t, Idle)
          /\ txn' = IF IteratorRaises(t) THEN txn ELSE [txn EXCEPT ![t] = Nil]
          /\ UNCHANGED heap
     ELSE /\ Goes(t, Further(t))
          /\ heap' = [heap EXCEPT ![tables[Following(t)]].rows = @ \ txn[t]]
          /\ UNCHANGED txn
  /\ UNCHANGED <<tables, locks, disk, nextRow, crashes, kept, ghosts, shifted, skipped>>

-----------------------------------------------------------------------------
(***************************************************************************)
(* The process dies and starts again: _load_tables, in any order.          *)
(***************************************************************************)
CrashAndRestart ==
  /\ crashes < MaxCrashes /\ crashes' = crashes + 1
  /\ \E order \in SetToSeqs(DOMAIN disk) :
       /\ heap' = [o \in DOMAIN order |-> [name |-> order[o], rows |-> disk[order[o]]]]
       /\ tables' = [o \in DOMAIN order |-> o]
  /\ locks' = [n \in Names |-> 1]
  /\ at' = [t \in Threads |-> Idle]
  /\ txn' = [t \in Threads |-> Nil]
  /\ kept' = kept \cap UNION {disk[n] : n \in DOMAIN disk}
  /\ ghosts' = {} /\ shifted' = FALSE /\ skipped' = {}
  /\ UNCHANGED <<disk, nextRow>>

Start(t) ==
  \/ \E n \in Names, op \in Does[t] \cap {"insert", "truncate"} : Ask(t, op, n)
  \/ "define" \in Does[t] /\ \E n \in Names :
       Create(t, n) \/ Drop(t, n) \/ \E new \in Names : Rename(t, n, new)
  \/ "transaction" \in Does[t] /\ (Begin(t) \/ Rollback(t) \/ Commit(t))

Continue(t) ==
  \/ Run(t) \/ SaveAndAnswer(t) \/ CreateSaved(t) \/ DropRemoved(t)
  \/ Renamed(t) \/ OldRemoved(t) \/ NewSaved(t)
  \/ NextTable(t) \/ Flush(t) \/ UndoNext(t)

Next == (\E t \in Threads : Start(t) \/ Continue(t)) \/ CrashAndRestart

\* A thread that has started a statement goes on with it; nobody has to start one.
Spec == Init /\ [][Next]_vars /\ \A t \in Threads : WF_vars(Continue(t))

-----------------------------------------------------------------------------
(***************************************************************************)
(* Properties.                                                             *)
(***************************************************************************)

\* An acknowledged row, of a table that was not dropped or truncated since, is in
\* a file at every moment, unless a RENAME of its table is under way, which hides
\* the table from COMMIT and removes the old file before it writes the new one, or
\* a dropped table of the same name was saved over the file, or COMMIT passed its
\* table over, when a CREATE or RENAME made the dict close its holes under COMMIT's
\* iterator: such a row is in no file until its table is saved for another reason
\* (engine.py 97-109, 156-193, 423-435, manager.py 121-136).
AckedRowsAreOnDisk ==
  \A r \in kept :
    \/ \E n \in DOMAIN disk : r \in disk[n]
    \/ \E t \in Threads : /\ at[t].pc \in {"popped", "renamed", "unlinked"}
                           /\ r \in heap[at[t].obj].rows
    \/ \E o \in Tables : r \in heap[o].rows /\ heap[o].name \in ghosts
    \/ r \in skipped

\* Between CREATE, DROP and RENAME statements, a start of the process would find
\* the tables there are: each has its file, and a file without a table was written
\* by an INSERT, a TRUNCATE or a COMMIT that had the table before it was dropped.
FilesAreOfTables ==
  EngineFree => /\ NamesListed \subseteq DOMAIN disk
                /\ DOMAIN disk \ NamesListed \subseteq ghosts

\* Every statement ends, unless others save their tables again and again, each time
\* with the lock it waits for: the engine's, the manager's and the tables' locks
\* cannot be held in a circle, none stays held when a statement fails, and no
\* iteration of the dict goes on for ever. A statement that has not got the
\* engine's or the manager's lock yet counts as not begun.
EveryoneReturns ==
  \A t \in Threads :
    []<>Free(t) \/ []<><<\E s \in Threads \ {t} : SaveAndAnswer(s)>>_vars
=============================================================================
