# MiniDB in TLA+

MiniDB is a small relational database in Python: a TCP server, a SQL parser and
executor, tables as lists of row versions (multi-version concurrency control), a
write-ahead log, indexes, a web front end and three AI agents. This directory holds
its specifications: what a transaction sees, what ROLLBACK, savepoints and VACUUM do
to other sessions, what a crash leaves, how constraints, indexes and the B+ tree
behave under concurrent statements, what becomes of a request whose connection breaks,
and how SQL text is read and evaluated. `PROJECT.json` maps every definition to the
lines it models and lists components, hazards, runs and theorems.

## 1. The system

    browser -> web_server.py -> db_client.py -> db_server.py (a thread per connection)
                                                   |
                        parser/ -> executor/ -> StorageEngine (storage/engine.py)
                                                   |-- Table (storage/table.py): list of row versions
                                                   |-- Index, BPlusTree (storage/index.py, index/)
                                                   |-- TransactionManager (transaction/manager.py)
                                                   |      `-- MVCCManager, Snapshot (storage/mvcc.py)
                                                   `-- WAL (storage/wal.py), data/tables/*.json

| Component | State | Operations | What makes it correct | Module |
|---|---|---|---|---|
| visibility, `storage/mvcc.py` | `_xmin`, `_xmax` of a row; a snapshot: active ids, committed ids, largest id | `is_visible`, `is_dead`, `stamp_*` | no dirty reads; VACUUM takes only what nobody sees | `Visibility` |
| transactions, `transaction/manager.py`, `mvcc.py` | id counter, active / committed / aborted ids; per thread: transaction, snapshot, savepoints | BEGIN, COMMIT, ROLLBACK, SAVEPOINT, ROLLBACK TO, RELEASE, VACUUM | snapshot isolation, clean rollback, ids never reused while in use | `Transactions` |
| statements, `storage/engine.py`, `table.py` | the list `Table.rows` | INSERT, UPDATE, DELETE, TRUNCATE, SELECT, in a transaction and outside | uncommitted rows are private, writes of a concurrent transaction are not overwritten | `Transactions` |
| persistence, `engine.py`, `storage/wal.py` | one JSON file per table, the log | save, log, checkpoint, load at start-up, RECOVER | an answered COMMIT survives a crash, an unfinished transaction does not | `Durability` |
| catalog and DDL, `engine.py` 37-193, 408-435 | dict of tables, locks by name, a file per table | CREATE, DROP, RENAME, TRUNCATE, and the statements that save | files belong to tables, acknowledged rows stay in one | `Catalog` |
| constraints and row locks, `table.py` 206-281, `engine.py` 329-352 | the table's lock, row locks by list position | uniqueness check that waits for the other transaction, replacement of the row list | no two committed rows with one key; no row is lost; nobody waits for ever | `UniqueTable` |
| indexes, `storage/index.py`, `executor.py` 319-404 | key -> list positions | build, insert, delete, lookup, range | an index scan returns what the full scan returns | `IndexedTable` |
| B+ tree, `index/bplustree.py` | nodes, leaf links | insert, delete, search, range | the tree is a sorted multimap, also while it is read | `BPlusTree`, `SortedMultimap` |
| web proxy and connections, `web_server.py`, `db_client.py`, `db_server.py` | connection per browser session, a thread and a transaction per connection | query, retry once, rollback at the end of a connection | a statement runs once, in its transaction; replies go to their request | `WebProxy` |
| query evaluation, `table.py`, `executor.py`, `planner.py` | none | WHERE, SELECT, joins, views, choice of a plan | the answer is one SQL allows, with an index or without | `WhereClause`, `Queries` |
| lexer and parser, `parser/` | position in the tokens | one method per statement | a statement is understood as it was meant, or refused | `Parser` |
| column types, agents, HTML page | none of their own | | | not modelled, section 5 |

How they interact. All threads share one engine. `txn_mgr._lock` serialises BEGIN,
COMMIT, ROLLBACK, savepoint commands and VACUUM. INSERT and TRUNCATE hold a lock of
the table, UPDATE and DELETE only row locks, SELECT nothing; none of them takes
`txn_mgr._lock`. The current transaction is thread-local. A statement outside a
transaction (auto-commit) takes an id, marks it committed, takes a snapshot, changes
the table, writes a log record and saves the table. A statement inside a transaction
changes the table and writes a log record; COMMIT saves all tables, logs COMMIT and
truncates the log. When a connection ends, `db_server.py` 170-176 rolls its
transaction back, which is `Rollback` of the model.

What is hard here, and hardly tested (the tests run one thread, except for
`test_tcp_multi.py`): the unlocked steps of auto-commit between those of BEGIN;
snapshots that are old when they are used; ROLLBACK and VACUUM that move the rows
under savepoints, row locks and index entries; saves that write other sessions'
uncommitted rows; a crash between any two disk steps; the meaning of id 0; the 5 s
wait of the uniqueness check with a lock held; lookups in a tree that is being split;
the proxy's retry on a connection that other requests share; DDL against a statement
that has the table in hand; and the many combinations of clauses in a query.
`PROJECT.json` lists each with its line under "hazards".

## 2. Modules

| Module | Content |
|---|---|
| `Visibility` | stamps, snapshots, `IsVisible`, `IsDead` as operators, no state |
| `Transactions` | the sessions, `MVCCManager`, one table; one action per operation |
| `SnapshotIsolation` | abstract: every transaction works on its private copy of the committed state, savepoints are copies of that |
| `TransactionsIsolation` | the mapping from `Transactions` to it |
| `TransactionsProofs` | theorems about `Transactions`, last that it implements `SnapshotIsolation` |
| `Ranks` | lemmas: the place of a row in a list from which rows are taken out |
| `Durability` | `Transactions` with its disk: file, log, crash, start-up, RECOVER |
| `DurabilityProofs` | theorems about it |
| `SortedMultimap` | abstract: what an index promises |
| `BPlusTree` | the tree node by node, a writer and readers without locks; implements `SortedMultimap` |
| `BPlusTreeProofs` | theorems about it, for one writer |
| `UniqueTable` | the statements of one table step by step, with its locks, against ROLLBACK and VACUUM |
| `UniqueTableProofs` | theorems about it |
| `IndexedTable` | a table and its index, whole statements; index scans against full scans |
| `IndexedTableProofs` | theorems about it |
| `Catalog` | tables by name, their locks and files; DDL against INSERT and COMMIT; crash |
| `CatalogProofs` | theorems about it |
| `WebProxy` | requests, the pool, connections, the server's threads |
| `WebProxyProofs` | theorems about it |
| `WhereClause` | the text of a WHERE clause and what it selects |
| `Queries` | SELECT with all its clauses, views, joins and plans |
| `Parser` | lexer and parser |
| `MC...` | an instance of each for TLC |

**Visibility** keeps the order of tests of `Snapshot.is_visible`. Two tests that look
odd are the code's: a version of one's own whose deleter is in the snapshot's
committed set is hidden, and a reader with id 0 does not see a version stamped (0, 0),
because xmax = 0 also equals "deleted by me" and xmin = 0 "made by me".

**Transactions.** A session is a server thread. A version is named by a number in the
order of appending, so the list position used by savepoints is the number of older
versions still in the table (`Position`). The columns are abstracted to one key, what
a WHERE clause tells apart: UPDATE and DELETE match by key, and UPDATE may give
another key. What runs without a lock is split: BEGIN is `BeginAllocate`,
`BeginSnapshot` (holding the manager's lock, as `pc = "begun"`); auto-commit is
`AutoAllocate`, `AutoMark`, `AutoSnapshot`, `AutoApply`. The body of a statement, the
loop over `Table.rows`, is one step, so SELECT is `View` or `FreshView` in any state.
Which statements a session may issue and which keys it writes are constants (`Does`,
`Writes`): runs restrict the workload, the theorems hold for all of them.

**Durability** runs each statement of `Transactions` and then its disk steps from
`io[s].todo`, in the order of the code: `CommitSteps` (save, COMMIT record, truncate
the log), `AutoSteps` (record, save), `RecoverSteps`. A save is `OpenFile` (the file
is empty from here on, and the rows are taken) and `CloseFile`. `Crash` may come
between any two steps and may cut a log line; `Restart` is `_load_tables`; `Recover`
replays the records with id 0, in any order (`Orders`): `read_all` sorts them by their
numbers, which sessions take without a common lock and a checkpoint starts at 1 again.
Records RECOVER skips (BEGIN, ROLLBACK,
SAVEPOINT) are one flag, needed because RECOVER does nothing on an empty log. If two
sessions save at the same time the file may end broken; `overlapped` remembers that
and the properties say what holds without it. `kept` has the rows whose insertion was
acknowledged and that no transaction has deleted and committed in memory since; a
restart starts it again from what it shows.

Left out of these three: several tables and DDL (`Catalog`), uniqueness and row locks
(`UniqueTable`), the interleaving of single row accesses (there, too), and operating
system buffers (a closed file counts as written). The reads of `Transactions` are those
through `Snapshot.is_visible`: full scans, and the rows UPDATE and DELETE go through.
Joins and index scans outside a transaction ask no snapshot; they are in `Queries` and
`IndexedTable`.

**BPlusTree.** SELECT takes no lock, so each assignment to a list or pointer that a
reader can see is a step: `LeafKey`, `LeafValue`, the two halves of a split, `Link`,
`ParentKey`, `ParentChild`, `NewRoot`, `PopKey`, `PopValue`. `op[w].path` is the
recursion of `_insert`; a lookup is one node per step (`Descend`, `ScanLeaf`), and
fails where Python raises `IndexError`. Positions count from 1. The run has one
writer: INSERT holds the table's lock, and a statement changes one entry after the
other. UPDATE and DELETE do not hold it, and nothing can be promised of a tree that
two of them change at a time. `SortedMultimap` is the promise; `Held`, the mapping,
reads the leaves and leaves out a key whose value list is not there yet.

**UniqueTable.** `heap` has every version ever made, `lists` the lists `Table.rows` has
been; a loop keeps the number of the list it runs over (`gen`) and the last version it
has looked at (`at`). A list is the set of its versions: rows are only appended at the
end or left out by a copy, so the order in a list is that of the numbers and a row's
position is how many lower ones there are (`Position`). INSERT takes the table's lock
(`StartInsert`), UPDATE and DELETE the row locks of the positions they found (`LockRow`,
lowest first), then look for their rows again (`Locked`). `CheckRow` and `Poll` are
`_validate_unique` row by row and wait by wait; `Stamp`, `AppendRow`, `Replaced` are the
three parts of an UPDATE around `rows.index`. The table's indexes are one choice: one of
them may raise when the row is in the table already (`AppendRow`, `IndexRaises`), which
ends the statement there. ROLLBACK and VACUUM copy and put back in
two steps (`RollbackCopy`, `VacuumCopy`, `PutCopy`). The fields `by`, `since`,
`restored`, `underCopy`, `had`, `scanned`, `wrote` are history for the properties.

**IndexedTable.** Statements are whole, and what they do to the index is exact: the
row is appended before its entry, an entry goes from the first row that looks the same
(`PositionOf`), a refused key leaves the row behind, a rebuild stops half-way and ROLLBACK
and VACUUM with it (`whole` is FALSE then). Two fields of a row are history: `unindexed`,
the index has refused it or stopped before it, and `suspect`, it may collide with others
when the index is built again. The tree is replaced by `SortedMultimap`'s promise, with
the errors of its comparisons: Python cannot compare a number with a text, neither with
the keys of a leaf (`Mixed`) nor on the way down with those of the inner nodes (`Apart`),
which stay when their entries go. When a leaf is split, hence how many levels there are,
is open (`separators`). `IndexScan` and `FullScan` are the executor's and the table's.

**Catalog.** `tables` is the dict, with holes an iteration may meet; `heap` the Table
objects, which live on in the hands of a statement after DROP. CREATE, DROP and RENAME
are split where files or the dict change; COMMIT's loop and ROLLBACK's are one step per
table, and the iterator raises as Python's does. Rows are numbers, a save is one step.
A CPython dict leaves a hole for what is taken out (`TakeOut`) and appends what is put
in; when its entries run out, an insertion first closes the holes, and the tables behind
them move up under an iterator (`PutIn`). When that is so is left open: the model allows
it whenever there is a hole. RENAME leaves the lock under the old name.

**WebProxy.** A request follows `query()` (`Arrive`, `GetClient`, `Send`, `Check`,
`Recv`, `Take`, on an error `Pop`, `GetAgain`); each connection's thread executes,
replies and, at its end, rolls back (`Serve`). What a connection carries is two queues
and the client's `_buf`. The ROLLBACK at its end may raise, which `except Exception: pass`
hides: the connection is gone and its transaction still active (`Left`). `Break` loses any
suffix of both; `Crash` and `Restart` are the server's. TCP, and Python closing a socket that nobody refers to (`Referenced`),
are external.

**WhereClause, Queries, Parser** have no concurrency; their state is the input. In
`WhereClause` a clause is built like a syntax tree, each node with its text and the
rows it means, and `EvalWhere` is what the code makes of the text. A comparison with NULL
means there what the code makes of it, one with the empty text, and no column has the name
of its table. `Queries` fills two tables, one of which another session changes in a
transaction that is open (`Seen` is what a snapshot shows of it, `Live` what a reader
without one goes through), and puts every query of a set to them, which has an answer or
raises; `Meaning` and `SqlJoin` are SQL's answer. Where the executor evaluates a clause on
the rows of a join, on a view or on a group, the model has what it makes of the text
(`JoinHolds`, `HoldsInParentheses`, `HavingRaises`). In `Parser` a statement is a node, `Words` writes its text, slips change it,
and `Parse` runs the parser's methods, each a sequence of steps (`Word`, `Name`, `If`,
`Until`).

## 3. Runs

| Run | Expect | What it shows |
|---|---|---|
| `transactions` | pass | two sessions issue every kind of statement on one row |
| `isolation` | pass | disjoint writers, one with savepoints: refinement of `SnapshotIsolation` |
| `durability` | pass | transactions, auto-commit deletion, VACUUM, TRUNCATE, one crash, RECOVER |
| `bplustree` | pass | every split and removal of a small tree with a reader in between; refinement of `SortedMultimap` |
| `unique` | pass | two statements on a UNIQUE column, row by row, against transactions and VACUUM |
| `indexes` | pass | statements, ROLLBACK, VACUUM, TRUNCATE and index statements, keys of two kinds; both kinds of scan |
| `catalog` | pass | DDL against INSERT, COMMIT and ROLLBACK, one crash |
| `proxy` | pass | three requests, one fault |
| `where`, `queries`, `parser` | pass | clauses, queries and texts of bounded size |
| `savepoints` | violation | savepoints do not survive another session's ROLLBACK, below |

*Properties of `transactions`.* `IdDiscipline`: the three id sets are disjoint, and an
id is active exactly while its transaction runs. `SnapshotsAreOld`: nothing a snapshot
counts as committed is withdrawn. `NoTraceOfAborted`: after ROLLBACK no version
carries the aborted id. `CommittedReads`: no dirty read of an insertion or a deletion by
anybody who reads through a snapshot.
`UncommittedUntouched`: nobody else stamps an uncommitted version.
`VacuumLosesOnlyConcurrentDeletes` and `ReadsChangeOnlyThroughKnownGaps` bound the
damage of the flaws below: they say through which gaps, and no others, an open
transaction's reads can change.

*Properties of `durability`.* `DiskTypeOK`: no id the server will hand out is on a row
of the file. `AckedRowsAreOnDisk`: an acknowledged insertion stays in a readable file (a
file cut by a crash during its save is excepted).
`CommitRecordFollowsData`: a COMMIT record is never ahead of the data.
`OnlySelectMissesRecovered`: RECOVER takes nothing away, and its deletions write xmax = 0,
hence nothing. What it adds is stamped (0, 0). A SELECT outside transactions never returns
these rows, since its own id is 0; joins, index scans and the uniqueness check have them,
and so have the next UPDATE or DELETE, which has an id of its own, and every open
transaction, however old its snapshot.
`RestartLosesOnlyToUnanswered`: a restart hides an acknowledged row only when a
statement without an answer had replaced it. A row without a creator is the other case:
nothing shows that its deletion was rolled back, so it returns unstamped. It says nothing
of the rows a restart brings back, deleted or never committed; `MCDurability_deletes` and
`MCDurability_persisted` below show those. The deadlock
check is off: after a crash during a save the file is empty, `json.load` raises, and the
server really stays down.

*Properties of `bplustree`.* `ImplementsMultimap`: at every step of a split or removal
the leaves hold the same map. `RestingTreeIsSearchable`, `RestingTreeIsBalanced`:
between operations the chain is complete and ordered, and the tree has its shape.
`QuietLookupsAreExact`: a lookup no writer's step falls into is exact (an overlapping
one may miss rows or fail: nothing keeps readers away). `LookupsEnd`: the chain never
leads a reader in a circle.

*Properties of `unique`.* Two live rows with one key come about through three gaps
only (`DuplicatesOnlyThroughGaps`: the writer's own rows, a deletion rolled back after
the check, an UPDATE without the table's lock), rows are lost only when appended
during a copy (`RowsAreLostOnlyUnderACopy`), row locks keep statements apart while
positions hold (`RowLocksExclude`), a failed one-row statement changed nothing unless
ROLLBACK or VACUUM came between or an index refused the row, which hears of it last
(`FailuresOfOneRowAreClean`), and every statement ends (`StatementsEnd`).

*Properties of `indexes`.* `EntriesPointAtTheirRows`: an entry never stands for
another row. `IndexScansAgree` lists how the scans differ: an index scan misses versions
stamped by anybody, rows the index has refused, and, once a ROLLBACK or VACUUM has stopped
to build the index again, every row behind that place, committed and undeleted ones too;
outside a transaction uncommitted rows appear; texts compare in lower case; and for a value
of the other kind than the keys a range raises, and `=` in a tree of several levels.
`LiveRowsCanBeIndexed`: four kinds of rows stop a rebuild, hence ROLLBACK, VACUUM and
start-up: old versions, rows an error left behind, rows that came while the index was built
in part only, and rows a ROLLBACK has revived when others had inserted their keys and
committed. The last needs no error before: T1 deletes k, T2 inserts k and commits, and T1
cannot be rolled back.

*Properties of `catalog`.* `AckedRowsAreOnDisk` and `FilesAreOfTables` name the ways
out: RENAME's window, a dropped table saved by whoever had it in hand, and a COMMIT that
is answered though it has gone past a table, because the dict closed its holes under the
iterator (`skipped`). `EveryoneReturns`: no circle of locks, none kept by a failing
statement, and no iteration without end. Threads that have not got the engine's or the
manager's lock count as idle; that one name's lock has two holders after DROP and CREATE is
not excluded by any property.

*Properties of `proxy`.* `RepliesReachTheirRequest`: another's reply only over a
connection two requests used at a time. `RunTwiceOnlyAfterABreak`: twice at most, on
two connections, the first broken. `WritesStayInTheirTransaction`: a write leaves its
transaction only by the retry or by a request sent at the same time.
`LostTransactionsEnd` and `AnsweredUnlessShared` are the liveness of both ends: the
transaction of a lost connection ends, unless its ROLLBACK raised (`Left`).

*Properties of `where`, `queries`, `parser`.* Each says that the answer is the one
that was meant, except in cases named one by one, which are the flaws: parentheses,
NOT BETWEEN, quoted OR and a second IN in WHERE; LIMIT before aggregates and DISTINCT,
GROUP BY without ORDER BY and LIMIT, HAVING on an unlisted column, HAVING COUNT(*), which
raises, COUNT of NULLs, NULL below every number, views without their columns and with two
conditions, index plans without aggregates, with the rest of the clause as value, with
`<>`, and with uncommitted rows; joins of NULL keys and of ON turned round, joins with
WHERE, ORDER BY, GROUP BY or OFFSET, which find no column, raise or are dropped, and joins
outside a transaction beside another one, whose uncommitted rows they show.
`WordsTakenAreKept`: what the parser has gone past is in the node, so words
are lost only behind the statement (`DELETE FROM t x WHERE k = 1` deletes all rows)
and where the property says.

*Where code and documentation differ.* `savepoints` is a run: another session's
ROLLBACK shortens the list a savepoint has positions of (`docs/04_transactions.md`
76). Further counterexamples, to be had with `tlc -config <cfg> <module>`:

| Config, module | Statement | What TLC shows |
|---|---|---|
| `MCTransactions_vacuum`, `MCTransactions` | `table.py` 562: VACUUM removes what no active transaction can see | the deleter has a smaller id but committed after BEGIN |
| `MCTransactions_autocommit`, `MCTransactions` | `mvcc.py` 107: REPEATABLE READ | an auto-commit statement marked committed but not applied at BEGIN appears later |
| `MCTransactions_deletes`, `MCTransactions` | `mvcc.py` 24: a committed deletion is final | a transaction with an older snapshot overwrites the stamp, its ROLLBACK revives the row |
| `MCDurability_deletes`, `MCDurability` | `engine.py` 576: committed data survives a crash | deletions are undone: only creators count as committed at start-up |
| `MCDurability_persisted`, `MCDurability` | `engine.py` 139: what is on disk was committed | uncommitted rows another COMMIT had saved become visible |
| `MCDurability_recovered`, `MCDurability` | `docs/01_storage_engine.md` 29, 93: RECOVER replays the log and the data comes back | the row that it adds is in no SELECT outside transactions |
| `MCWhereClause_parentheses`, `MCWhereClause` | `docs/02_parser.md` 108: parentheses group | the clause is cut at AND and OR inside them |

The passing runs state what holds in spite of these: the same gaps are the exceptions
that their properties name. They name these as well:

- `engine.py` 562-577 says that RECOVER makes committed data durable, and
  `tests/test_minidb.py` 597-643 that INSERT and UPDATE are replayed. The tests pass because
  the statements saved the table; their log records, of auto-commit statements, are skipped.
  A row that RECOVER does add is half visible (`OnlySelectMissesRecovered`).
- `docs/03_executor.md` 49 says that WHERE, GROUP BY, HAVING, ORDER BY and LIMIT are passed on
  to `engine.join`. GROUP BY, HAVING and OFFSET are not, and WHERE and ORDER BY find no column
  of a joined row, whose columns have their table's name (`JoinForgets`).
- `engine.py` 498 says that MVCC makes a JOIN read consistently. Outside a transaction there
  is no snapshot, and the join shows uncommitted rows (`JoinReadsDirty`).
- `docs/02_parser.md` 91 has the HAVING clause parsed; on `COUNT(*)` its evaluation raises
  (`HavingRaises`). `<>`, which WHERE knows, is a range `< '> 1'` when there is an index
  (`RangeRaises`).
- `table.py` 581 has ROLLBACK undo a transaction; with a unique index it may raise and leave
  the transaction open (`LiveRowsCanBeIndexed`), also at the end of a connection, where
  nobody hears of it (`Left` of `WebProxy`).
- `manager.py` 121-136 saves all tables at COMMIT; a table is passed over when the dict
  closes its holes meanwhile (`skipped` of `Catalog`).

*Bounds.* Two sessions: every property relates one session to another, and all sessions
run the same code; the theorems hold for any number. `transactions`: one key, since
every conflict is between writers of one row, three ids (`MaxTxn` = 4, the loaded row
has id 1), which is a transaction, a concurrent one and an auto-commit statement or a
transaction that begins later, and three versions (`MaxVid`; a transaction adds none
above it), one savepoint name, given again by `resave`. `isolation`: one key per session
and two savepoint names, so that the order of the dict and the reuse of a name matter.
`durability`: two loaded rows, one with a creator and one without, which an id now
forgotten had deleted; one key, two ids and one version more before the crash; after it
ids restart, so reuse happens, and RECOVER may add versions without bound; one crash
(`MaxCrashes`); no statement changes rows while the log holds a record (`MaxLog` = 1;
without it DELETE and ROLLBACK TO can alternate for ever), COMMIT and statements under
way still write theirs, so that a log with the records of two sessions and a COMMIT is
reached, but not one with two changes of one transaction: with `MaxLog` = 2 the instance
has 4.9 million states in place of 1.7, and passes as well; auto-commit statements and
TRUNCATE start only below `MaxVid`.

`bplustree`: `Order` 3 instead of 4, so that five keys and four nodes give leaf
splits, an inner split and two levels; the order in which keys come is free; the
removals empty a leaf entry and shorten one. `unique`: two statements in all
(`MaxStmts`), any of six, with transactions (`MaxTxn`) and one VACUUM (`MaxLists`)
around them, since a conflict is between two; `MaxPolls` 1 for 100, as each wait looks
the same. `indexes`: three versions and ids, two sessions that are interchangeable, a
number and an upper- and a lower-case text, which are the three ways the two orders
treat a value; splits are chosen freely. `catalog`: three tables made, a dict of two
entries, so that the third closes a hole, one row, since rows do not meet each other, one
crash; one thread commits, the other defines tables, and both insert. `proxy`: BEGIN, then
two more requests of the same or another session, waiting for answers or not; one
fault. `where`: ten conditions, one of each form, three in a clause, so that AND below
OR, NOT and views combine. `queries`: up to three rows, keys and values 1, 2, NULL, and one change of
the other session, inserted or deleted (`MaxOpen`).
`parser`: every kind of statement with its optional parts, one slip. Its definition of
the parser was compared with the parser itself on all texts of the run.

*Fairness.* Weak fairness of what one thread does on its own once it was called:
`Read(r)` in `BPlusTree` (not of the writers: a reader must end even while they go
on), `Step(s)` in `UniqueTable`, `Continue(t)` in `Catalog`, `Request(r)` and
`Serve(c)` in `WebProxy`. These are Python threads, which the interpreter schedules in
turn, and sleeps and polls that return. Nothing obliges a client: BEGIN, COMMIT, new
statements, breaks and crashes are not fair, so a transaction may stay open for ever,
and `StatementsEnd` rests on the limit of the wait alone. Locks are weakly fair as
well: a thread can be overtaken again and again, which `EveryoneReturns` says. The
other modules assume none.

## 4. Theorems

All hold for any number of sessions, keys, names and requests, any workload and any
bounds; those about `BPlusTree` for one writer, any order, keys, nodes and readers.

| Module | Theorem | Property |
|---|---|---|
| `TransactionsProofs` | `TypeCorrect` | `TypeOK` |
| | `IdsAreDisciplined` | `IdDiscipline` |
| | `SnapshotsHold` | `SnapshotsAreOld` |
| | `RollbackLeavesNoTrace` | `NoTraceOfAborted` |
| | `UncommittedIsPrivate` | `UncommittedUntouched` |
| | `ViewsAreCommitted` | `CommittedReads`, of full scans and statements |
| | `InductiveInvariant` | `IInv`, behind them |
| | `VacuumIsBounded` | `VacuumLosesOnlyConcurrentDeletes` |
| | `SnapshotsKnowTheirPast` | `SnapInv`, behind it |
| | `ReadsAreRepeatableButForGaps` | `ReadsChangeOnlyThroughKnownGaps` |
| | `TransactionsAreIsolated` | `ImplementsSnapshotIsolation`, for workloads that keep `Apart` |
| | `IsolationInvariant` | `IsoInv`, behind it |
| `DurabilityProofs` | `DiskIsWellFormed` | `DiskTypeOK` |
| | `AcknowledgedRowsReachTheDisk` | `AckedRowsAreOnDisk` |
| | `CommitRecordIsLast` | `CommitRecordFollowsData` |
| | `RecoveredRowsAreHalfSeen` | `OnlySelectMissesRecovered` |
| | `RestartIsHonest` | `RestartLosesOnlyToUnanswered` |
| | `DurableInvariant` | `DInv`, behind them |
| `UniqueTableProofs` | `DuplicatesHaveKnownCauses` | `DuplicatesOnlyThroughGaps` |
| | `RowsStayInTheTable` | `RowsAreLostOnlyUnderACopy` |
| | `RowLocksWork` | `RowLocksExclude` |
| | `OneRowFailsClean` | `FailuresOfOneRowAreClean` |
| | `TableInvariant` | `TableInv`, behind them |
| `IndexedTableProofs` | `EntriesStayWithTheirRows` | `EntriesPointAtTheirRows` |
| | `ScansDifferAsNamed` | `IndexScansAgree` |
| | `LiveRowsStayIndexable` | `LiveRowsCanBeIndexed` |
| | `IndexInvariant` | `TableInv` of `IndexedTableProofs`, behind them |
| `BPlusTreeProofs` | `TreeIsAMap` | `ImplementsMultimap` |
| | `TreeIsBalanced` | `RestingTreeIsBalanced` |
| | `TreeIsSearchable` | `RestingTreeIsSearchable` |
| | `QuietLookupsReturnAll` | `QuietLookupsAreExact` |
| | `TreeInvariant` | `TreeInv`, behind them |
| `CatalogProofs` | `AcknowledgedRowsHaveAFile` | `AckedRowsAreOnDisk` of `Catalog` |
| | `FilesHaveTheirTables` | `FilesAreOfTables` |
| | `CatalogInvariant` | `CatalogInv`, behind them |
| `WebProxyProofs` | `RepliesGoHome` | `RepliesReachTheirRequest` |
| | `RetryRunsTwiceAtMost` | `RunTwiceOnlyAfterABreak` |
| | `WritesKeepTheirTransaction` | `WritesStayInTheirTransaction` |
| | `WebInvariant` | `WebInv`, behind them |

*Assumptions.* Types of the constants (`WorkloadAssumption`, `CrashAssumption`,
`BoundsAssumption`, `StmtsAssumption`, `PlansAssumption`), a value that stands for
"none" and is none of the others (`NilAssumption`), and what a start-up leaves:
`LoadedAssumption` of `Transactions` (`_load_tables`), and of `UniqueTable` that the
file has a greatest stamp, being finite, and no undeleted row with the key of a newer
row of another transaction. `CatalogAssumption` has a first table and natural bounds.
`ValuesAssumption` of `IndexedTable` says that the order WHERE compares by tells any two
values of a column apart, which the index's keys need not. In `BPlusTree` the order is at
least 3 (4 in the code), keys are integers and a bound of a lookup is an integer or none, a
point having both bounds equal (`LookupsAssumption`). Every one is evaluated in a run.

Two theorems have a hypothesis more. `TransactionsAreIsolated` is about workloads that
keep `Apart`, as *Isolation* explains. Those about `BPlusTree` are about one writer
(`Writers = {w}`), which INSERT's table lock ensures among INSERTs and nothing ensures
among UPDATEs and DELETEs (section 2).

*Transactions.* `IInv` is `TypeOK /\ IdDiscipline /\ StampInv`, where `StampInv` is
`NoTraceOfAborted /\ UncommittedUntouched /\ SnapshotsAreOld`. None of the three is
inductive alone: what ROLLBACK leaves depends on who may have stamped the
transaction's versions (`UncommittedUntouched`), and that on what old snapshots count
as committed (`SnapshotsAreOld`). Together they are: commitment is final, so an old
snapshot shows only what is committed still; so a statement stamps only committed
versions and its own; so undoing one transaction never meets the stamp of another on
its versions, and no running session has an aborted id to stamp with (`IdDiscipline`).
`RewriteStamps` proves this for a statement's body, `RestoreStamps` for the actions
that remove or restore versions; each action of `Next` then has its step.

`VacuumIsBounded` needs one invariant more, `SnapInv`: an id up to a snapshot's limit
that is active or committed now is in one of the snapshot's two sets (active ids: in
its active set). A version VACUUM removes has a committed deleter below the oldest
active id, hence below the reader's limit; the reader sees the version, so the deleter
is not in the snapshot's committed set, so it is in its active set.
`ReadsAreRepeatableButForGaps` follows from both, action by action: only a stamp of
the reader itself, or of an id its snapshot takes for committed, changes what it sees.

*Isolation.* The mapping (`TransactionsIsolation`) reads the abstract sets off the
stamps: what a transaction made and deleted are the versions stamped with its id, its
base what its snapshot shows apart from those. `IsoInv` is what keeps these sets to
themselves: `OwnRows`, a transaction stamps rows of its own keys and deletes only what it
was shown, and whoever committed since its BEGIN deleted rows of other keys; `SnapOK`, a
snapshot's two sets do not overlap. A savepoint is a number of rows and a set of list
positions; a position is the rank of a version among those in the table (`Ranks`), so the
positions name the same versions for as long as no older one is taken out, and
`SavepointsOK` says that they are those of rows the transaction deleted and that
savepoints are ordered by age. This is where `Apart` comes in: sessions write different
keys, nobody rolls back beside a session with savepoints, no VACUUM, TRUNCATE or
auto-commit statement runs, no savepoint is taken again. Without it the promise is broken
in the ways section 3 shows (`savepoints` and the further counterexamples).

*Durability.* `DInv` extends `IInv` by the disk. What a save writes is taken from
memory when the file is opened, and may be put in place after others have changed the
memory, so the same facts are needed of three tables: memory (`MemoryInv`), the rows
in the file and the rows on their way to it (`FileInv`: all `Images` are `Good`).
`Good` says that the table has the acknowledged rows and those of a COMMIT being saved;
`Linked` that a row which replaced an acknowledged one belongs to nobody who has an
answer. The lock of `txn_mgr` and `overlapped` make the writer the only one.
`RecoveredRowsAreHalfSeen` goes through the records in whatever order they are replayed:
no record changes a row there is, and what each adds is stamped (0, 0). `DInv` has `IInv`
across crashes, where committed is what a start-up takes for it: every creator in the file,
so that no theorem is drawn from it for rows of before the crash. The
attempt to prove `RestartLosesOnlyToUnanswered` showed its first form wrong (it left
out a rolled-back deletion of a row without creator, which two loaded rows in the run
now reach).

*UniqueTable.* The invariant follows a statement through its loop (`StatementOK`): a
row old enough for the check is in the list the check goes over, since places in a
list never change and a copy leaves out only deleted or rolled-back rows (`CopyInv`,
`LostInv`); what the loop has passed stays harmless until a ROLLBACK revives it
(`Checks`), and the table's lock keeps other INSERTs from appending later ones.
`PairInv` states what is left for two rows with one key. `Locks` and `HeldApart` say
which places are held, and by one statement each.

*IndexedTable.* `TableInv` ties the entries to the list of rows: every entry is of the row
at its position and has its key (`Sound`); every undeleted row that is not `unindexed` has
its entry (`Full`); a unique index has one entry of a key (`OneEach`); and the keys in the
tree can be compared, with each other (`OneKind`) and with those of the inner nodes
(`Fits`). While the index is whole a row without an entry is `suspect` (`Noted`); once a
rebuilding has stopped half-way the undeleted rows that are not `suspect` collide with
none of each other (`Distinct`), since those that come are, until it is built whole. The
entry to remove is that of the first row that looks the same as the stamped one
(`PositionOf`), so the proof must show that removing it takes no entry from an undeleted
row. UPDATE appends its rows and entries in order, up to the one that is refused
(`RefusedRows`). ROLLBACK and VACUUM keep a part of the list and rebuild; the rank of a
row says where it has come to.

*BPlusTree.* `TreeInv` describes the tree at every step of an insertion by a tree that
is not quite there: `TreeKeys`, `TreeValues`, `TreeChildren`, `TreeNext` undo or complete
the half change of the node the writer is at. Of this settled tree there are levels
(`L`: a child is one below its parent), territories (`S`: the keys that belong under a
node, divided among its children by its keys) and places in the leaf chain (`P`, in the
order of the territories). While a split is on its way up, the new half is the writer's
`new`, has the upper part of the old territory and no parent yet, and `Whole` is both
halves together. `Work` ties the writer's path to this: each node of it is the child its
parent's position says, and the key in hand is in the territory of the leaf. Then every
action is one of few changes (a leaf gets or loses a key, a node is cut, a half gets its
parent) whose lemmas say that the settled tree stays one. `InTree` says which key has
which rows; a split does not change it, and the actions on one leaf change one key, which
is the refinement. Balance and search follow from levels and territories at rest, when
nothing is half done.

`QuietLookupsAreExact` adds `ReaderInv`: a reader that is still quiet has a tree at rest,
or one the writer has only gone down in; on its way down the lowest key asked for is in
the territory of its node (`Starts`), and at a leaf it has listed exactly the wanted keys
of the leaves before it (`Earlier`). `LeafIsListed` adds a leaf, `LeafEnds` says that where
the scan stops nothing wanted is left to the right.

*Catalog.* `AckedRowsAreOnDisk` says that a row is in some file; the invariant must say
in which. By `KeptInv` an acknowledged row is in a table there is, and `Safe` there: in
the file of that table's name, or the table is under RENAME, or the name is a ghost's.
A save overwrites a file by the table of that name only, since a name has one table,
the one RENAME has taken out included (`Dict`). `PassInv` is about COMMIT, which answers
for its rows after a loop over a dict that changes meanwhile: what it has gone past
is safe already, as long as the dict has closed no hole (`shifted`). CREATE and RENAME
append behind the iterator's place, DROP leaves a hole, and a table taken out and put back
changes the count of entries for as long as it is missing only; `Safe` counts it as under
RENAME until it is saved. When the dict has closed holes nothing is left of this, and the
rows that are in no file when COMMIT answers are `skipped` until their table is saved or
dropped: `Held` in place of `Safe`. `RowInv` keeps a
ROLLBACK from taking an acknowledged row out of memory, and `FileInv` names for each
table without a file, and each file without a table, the statement that is at it.
TLC checks `CatalogInv` on the instance of `catalog`, and on random behaviours of one
with three names.

*WebProxy.* The three properties need one description of a connection (`WebInv`): one
that was never shared serves one session, whose item is in exactly one place, on the
way, in execution or on the way back (`AloneInv`, `OnceInv`); the pool has the only
whole connection of a session that was not thrown out (`PoolInv`); a request has sent
its statement on a connection once, and on a second one only when the first is broken
and out of the pool (`UseInv`); and the transaction the browser means is the one its
connection has open (`BegunInv`, `OpenInv`, `MeantInv`). TLC checks `WebInv` with two
faults as well.

*Model-checked only.* Liveness under fairness (`StatementsEnd`, `EveryoneReturns`,
`LookupsEnd`, `LostTransactionsEnd`, `AnsweredUnlessShared`) is out of the prover's
reach, and so are RECURSIVE operators: `Rewritten` in `WhereClause` and the methods of
`Parser`, hence `ClausesSelectWhatTheySay`, `StatementsAreUnderstood` and
`WordsTakenAreKept`. `AnswersAreSql` and `JoinsPairRows` compare two pipelines of
selections, sorts and folds over lists, each an induction over the list of its own; they
are left to TLC as well, for the queries and tables of `queries`. Every other property of
a passing run is a theorem.

## 5. Limits

All modules of the plan exist. Of the safety properties, those of query evaluation and of
the parser rest on their runs alone. What a B+ tree with two writers still promises is
open.

Not modelled:

- Foreign keys: an INSERT reads another table's visible rows once; DELETE and UPDATE
  of the referenced rows check nothing, so there is no rule the code tries to keep.
  NOT NULL and CHECK look at one row.
- The iterations of SAVEPOINT and ROLLBACK TO over the dict of tables, which raise like
  those of COMMIT and ROLLBACK; a file cut by a crash stops the next start, so that nothing
  is said of what is in it.
- ALTER TABLE's columns (a loop over the rows under the table's lock), views' files,
  composite indexes (the planner never chooses one), helpers nothing calls
  (`rebuild_after_delete`, `all_entries`).
- Column casts and the JSON form of columns: functions of a value. LIKE, AVG, MIN,
  aliases, EXPLAIN: computed like what is modelled next to them, or layout.
- The executor's dispatch, which hands each node to one engine call; its loop over the
  rows of a multi-row INSERT is a sequence of INSERTs in `Transactions`.
- The agents: calls to an external language model, and text heuristics over its
  answers and over query texts; what they send to the database are statements like any
  client's. The HTML page, the tests and the data files.
