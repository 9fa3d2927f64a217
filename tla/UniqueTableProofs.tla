------------------------- MODULE UniqueTableProofs -------------------------
(***************************************************************************)
(* What the uniqueness check, the locks of the storage engine and the      *)
(* copies of ROLLBACK and VACUUM guarantee together, for any sessions,     *)
(* statements and file.                                                    *)
(***************************************************************************)
EXTENDS UniqueTable, FiniteSetTheorems, SequenceTheorems, WellFoundedInduction, TLAPS

-----------------------------------------------------------------------------
(***************************************************************************)
(* The state's shape.                                                      *)
(***************************************************************************)
Versions == [key : Keys, xmin : Nat, xmax : Nat, by : {"load", "insert", "update"},
             since : Nat, restored : BOOLEAN, underCopy : BOOLEAN]

Managers == [next : Nat \ {0}, active : SUBSET Nat, committed : SUBSET Nat, aborted : SUBSET Nat]

Statements == [op : {"insert", "update", "delete"}, where : Keys \cup {Nil}, new : Keys]

\* op[s] while s is in a statement, and while it is in ROLLBACK or VACUUM.
Works == [pc : {"lock", "check", "wait", "stamp", "append", "find", "delete", "end", "failed", "raised"},
          stmt : Statements, id : Nat \ {0}, snap : Snapshots,
          want : SUBSET Nat, held : SUBSET Nat, todo : SUBSET Nat,
          gen : Nat, at : Nat, polls : Nat, since : Nat,
          had : SUBSET Nat, scanned : Nat, many : BOOLEAN, wrote : BOOLEAN]
Copiers == [pc : {"copied", "put"}]

Types ==
  /\ heap \in Seq(Versions)
  /\ lists \in Seq(SUBSET Nat) /\ lists # <<>>
  /\ \A g \in DOMAIN lists : lists[g] \subseteq DOMAIN heap
  /\ mvcc \in Managers
  /\ txn \in [Sessions -> {NoTxn} \cup [id : Nat \ {0}, snap : Snapshots]]
  /\ op \in [Sessions -> {Idle} \cup Copiers \cup Works]
  /\ tableLock \in Sessions \cup {Nil}
  /\ copy \in {Nil} \cup Copies

-----------------------------------------------------------------------------
(***************************************************************************)
(* Transactions: an id is above 0, one session's, and neither committed    *)
(* nor aborted while its transaction is open.                              *)
(***************************************************************************)
IdInv ==
  /\ AutoCommit \notin mvcc.aborted
  /\ mvcc.committed \cap mvcc.aborted = {}
  /\ \A n \in mvcc.committed \cup mvcc.aborted : n < mvcc.next
  /\ \A s \in Sessions : txn[s] # NoTxn =>
       txn[s].id < mvcc.next /\ txn[s].id \notin mvcc.committed \cup mvcc.aborted
  /\ \A s, t \in Sessions : s # t /\ txn[s] # NoTxn => txn[s].id # txn[t].id

(***************************************************************************)
(* Statements.                                                             *)
(***************************************************************************)
InStatement(s) == op[s] \in Works

\* Where a statement can be.
Places(s) ==
  LET o == op[s] IN
  /\ o.stmt.op = "insert" => o.pc \in {"check", "wait", "append", "end", "failed", "raised"} /\ o.had = {}
  /\ o.stmt.op = "update" => o.pc # "delete"
  /\ o.stmt.op = "delete" => o.pc \in {"lock", "delete", "find", "end", "failed", "raised"}
  /\ o.stmt.op = "update" /\ o.pc \in {"check", "wait", "stamp", "append", "find"} => o.todo # {}
  /\ o.pc = "wait" \/ (o.stmt.op = "delete" /\ o.pc = "find") => Ahead(s) # {}

\* The lists and rows a statement works on.
Scans(s) ==
  LET o == op[s] IN
  /\ o.since <= Len(heap)
  /\ o.gen \in DOMAIN lists /\ o.scanned \in 1 .. o.gen
  /\ o.todo \subseteq DOMAIN heap /\ o.had \subseteq DOMAIN heap
  /\ o.scanned = Len(lists) => o.todo \subseteq Rows

\* What it has written.
Writes(s) ==
  LET o == op[s] IN
  /\ ~o.many => \A u, v \in o.todo : u = v
  /\ o.pc = "lock" => ~o.wrote
  /\ o.stmt.op = "insert" /\ o.pc \notin {"end", "raised"} => ~o.wrote
  /\ o.wrote /\ o.pc \in {"check", "wait", "stamp"} => o.many
  /\ o.wrote /\ o.pc = "failed" => o.many \/ o.scanned < Len(lists)

\* Row locks: past them, it has the place of each of its rows to itself, in the
\* list it found them in.
Locks(s) ==
  LET o == op[s] IN
  /\ o.pc # "lock" => o.want = {}
  /\ \A v \in o.had : Position(lists[o.scanned], v) \in o.want \cup o.held

HeldApart ==
  \A s, t \in Sessions : s # t /\ InStatement(s) /\ InStatement(t) => op[s].held \cap op[t].held = {}

\* The table's lock: no INSERT appends a row while another one runs.
Inserts(s) ==
  op[s].stmt.op = "insert" =>
    /\ tableLock = s
    /\ op[s].pc \in {"check", "wait", "append"} =>
         \A v \in DOMAIN heap : v > op[s].since => heap[v].by = "update"

-----------------------------------------------------------------------------
(***************************************************************************)
(* The check.                                                              *)
(***************************************************************************)
\* Why v does not stand in the way of a row of transaction n with its key.
Harmless(v, n) ==
  \/ heap[v].xmin = n
  \/ heap[v].xmax # NotDeleted
  \/ heap[v].restored
  \/ heap[v].xmin \in mvcc.aborted

\* What the check has concluded about a row it has passed.
Passed(s, v) ==
  \/ heap[v].key # op[s].stmt.new
  \/ Harmless(v, op[s].id)
  \/ op[s].stmt.op = "update" /\ op[s].pc # "append" /\ v = Old(s)

\* It has looked at every row that is still there and was there when the
\* statement began.
Checks(s) ==
  op[s].stmt.op # "delete" /\ op[s].pc \in {"check", "wait", "stamp", "append"} =>
    \A v \in DOMAIN heap : v <= op[s].since /\ v \in Rows =>
      /\ v \in lists[op[s].gen]
      /\ op[s].pc \in {"check", "wait"} /\ v <= op[s].at => Passed(s, v)
      /\ op[s].pc \in {"stamp", "append"} => Passed(s, v)

\* The same of the rows that the statements have written.
PairInv ==
  \A u, v \in DOMAIN heap : u < v =>
    /\ heap[v].by = "insert" /\ u > heap[v].since => heap[u].by = "update"
    /\ heap[u].key = heap[v].key /\ u \in Rows /\ (u <= heap[v].since \/ heap[v].by = "load") =>
         Harmless(u, heap[v].xmin)

StatementOK(s) ==
  InStatement(s) => Places(s) /\ Scans(s) /\ Writes(s) /\ Locks(s) /\ Inserts(s) /\ Checks(s)

-----------------------------------------------------------------------------
(***************************************************************************)
(* Copies: what a ROLLBACK or VACUUM leaves out, and why a row is no       *)
(* longer in the table.                                                    *)
(***************************************************************************)
Copying(s) == op[s].pc = "copied"
Put(s)     == op[s].pc = "put"

CopyInv ==
  /\ \A s \in Sessions : Copying(s) \/ Put(s) =>
       /\ copy \in Copies /\ copy.owner = s
       /\ Put(s) => copy.kind = "rollback"
       /\ copy.kind = "rollback" => txn[s] # NoTxn
  /\ \A s \in Sessions : Copying(s) =>
       /\ copy.rows \subseteq Rows
       /\ \A v \in Rows \ copy.rows :
            \/ heap[v].underCopy
            \/ copy.kind = "vacuum" /\ heap[v].xmax # NotDeleted
            \/ copy.kind = "rollback" /\ heap[v].xmin = txn[s].id

LostInv ==
  \A v \in DOMAIN heap : v \notin Rows =>
    \/ heap[v].underCopy
    \/ heap[v].xmax # NotDeleted
    \/ heap[v].xmin \in mvcc.aborted
    \/ \E s \in Sessions : Put(s) /\ txn[s].id = heap[v].xmin

TableInv ==
  /\ Types /\ IdInv
  /\ \A s \in Sessions : StatementOK(s)
  /\ HeldApart /\ PairInv /\ CopyInv /\ LostInv

-----------------------------------------------------------------------------
(***************************************************************************)
(* Facts about the operators.                                              *)
(***************************************************************************)
\* A set of numbers has a least one.
LEMMA MinIsLeast ==
  ASSUME NEW S \in SUBSET Nat, S # {}
  PROVE  Min(S) \in S /\ \A x \in S : Min(S) <= x
<1> DEFINE R == {ss \in Nat \X Nat : ss[1] < ss[2]}
<1>1. \E m \in S : \A y \in S : ~ (<<y, m>> \in R)
  <2>1. IsWellFoundedOn(R, Nat)
    BY NatLessThanWellFounded DEF OpToRel
  <2> HIDE DEF R
  <2> QED
    BY <2>1, WFMin
<1>2. PICK m \in S : \A y \in S : ~ (<<y, m>> \in R)
  BY <1>1
<1>3. \A y \in S : m <= y
  <2> TAKE y \in S
  <2>1. y \in Nat /\ m \in Nat
    OBVIOUS
  <2>2. ~ (y < m)
    BY <1>2, <2>1
  <2> QED
    BY <2>1, <2>2
<1> QED
  BY <1>2, <1>3 DEF Min

\* The place of a version in a list is a number.
LEMMA PositionIsNat ==
  ASSUME NEW n \in Nat, NEW l, l \subseteq 1 .. n, NEW v
  PROVE  Position(l, v) \in Nat
<1>1. IsFiniteSet(1 .. n)
  BY FS_Interval
<1>2. IsFiniteSet({u \in l : u <= v})
  BY <1>1, FS_Subset
<1> QED
  BY <1>2, FS_CardinalityType DEF Position

-----------------------------------------------------------------------------
(***************************************************************************)
(* What every step does to the versions and lists there are.               *)
(***************************************************************************)
HeapGrows ==
  /\ heap' \in Seq(Versions) /\ Len(heap) <= Len(heap')
  /\ \A v \in DOMAIN heap :
       /\ heap'[v].key = heap[v].key /\ heap'[v].xmin = heap[v].xmin
       /\ heap'[v].by = heap[v].by /\ heap'[v].since = heap[v].since
       /\ heap'[v].underCopy = heap[v].underCopy
       /\ heap[v].restored => heap'[v].restored
       /\ heap[v].xmax # NotDeleted => heap'[v].xmax # NotDeleted \/ heap'[v].restored

ListsGrow ==
  /\ lists' \in Seq(SUBSET Nat) /\ Len(lists) <= Len(lists')
  /\ \A g \in DOMAIN lists' : lists'[g] \subseteq DOMAIN heap'
  /\ \A g \in DOMAIN lists : lists[g] \subseteq lists'[g] /\ lists'[g] \cap DOMAIN heap \subseteq lists[g]
  /\ Rows' \cap DOMAIN heap \subseteq Rows

Grows == HeapGrows /\ ListsGrow /\ mvcc.aborted \subseteq mvcc'.aborted

\* The table's lock and new versions, as a statement that has no part in the step
\* sees them.
LockKept(t) ==
  tableLock = t => tableLock' = t /\ \A v \in DOMAIN heap' \ DOMAIN heap : heap'[v].by = "update"

LEMMA HarmlessStays ==
  ASSUME Grows, NEW v \in DOMAIN heap, NEW n, Harmless(v, n)
  PROVE  Harmless(v, n)'
BY DEF Grows, HeapGrows, Harmless

\* A place in a list is kept as long as the list is.
LEMMA PositionStays ==
  ASSUME Types, Grows, NEW g \in DOMAIN lists, NEW v \in DOMAIN heap
  PROVE  Position(lists'[g], v) = Position(lists[g], v)
<1>1. lists[g] \subseteq lists'[g] /\ lists'[g] \cap DOMAIN heap \subseteq lists[g]
  BY DEF Grows, ListsGrow
<1>2. g \in DOMAIN lists' /\ lists'[g] \subseteq DOMAIN heap'
  BY DEF Grows, ListsGrow, Types
<1>3. \A u \in lists'[g] : u \in 1 .. Len(heap')
  BY <1>2 DEF Grows, HeapGrows
<1>4. DOMAIN heap = 1 .. Len(heap) /\ Len(heap) \in Nat
  BY DEF Types
<1>5. \A u \in lists'[g] : u <= v => u \in DOMAIN heap
  BY <1>3, <1>4
<1>6. {u \in lists'[g] : u <= v} = {u \in lists[g] : u <= v}
  BY <1>1, <1>5
<1> QED
  BY <1>6 DEF Position

\* The steps of others leave a statement's invariant alone.
LEMMA OthersKeep ==
  ASSUME Types, Grows, NEW t \in Sessions, StatementOK(t), op'[t] = op[t], LockKept(t)
  PROVE  StatementOK(t)'
<1> SUFFICES ASSUME InStatement(t)
             PROVE  (Places(t) /\ Scans(t) /\ Writes(t) /\ Locks(t) /\ Inserts(t) /\ Checks(t))'
  BY DEF StatementOK, InStatement
<1> DEFINE o == op[t]
<1>1. Places(t) /\ Scans(t) /\ Writes(t) /\ Locks(t) /\ Inserts(t) /\ Checks(t)
  BY DEF StatementOK
<1>2. /\ o \in Works /\ op'[t] = o
      /\ o.gen \in DOMAIN lists /\ o.scanned \in 1 .. o.gen
      /\ o.todo \subseteq DOMAIN heap /\ o.had \subseteq DOMAIN heap /\ o.since <= Len(heap)
  BY <1>1 DEF InStatement, Scans
<1>3. /\ DOMAIN heap = 1 .. Len(heap) /\ Len(heap) \in Nat
      /\ DOMAIN heap' = 1 .. Len(heap') /\ Len(heap') \in Nat
      /\ DOMAIN lists = 1 .. Len(lists) /\ Len(lists) \in Nat
      /\ DOMAIN lists' = 1 .. Len(lists') /\ Len(lists') \in Nat
      /\ Len(heap) <= Len(heap') /\ Len(lists) <= Len(lists')
  BY DEF Types, Grows, HeapGrows, ListsGrow
<1>4. DOMAIN heap \subseteq DOMAIN heap' /\ DOMAIN lists \subseteq DOMAIN lists'
  BY <1>3
<1>5. /\ o.gen \in Nat /\ o.scanned \in Nat /\ o.since \in Nat /\ o.at \in Nat
      /\ o.gen <= Len(lists) /\ o.scanned <= o.gen /\ 1 <= o.scanned
  <2>1. o.gen \in Nat /\ o.scanned \in Nat /\ o.since \in Nat /\ o.at \in Nat
    BY <1>2 DEF Works
  <2>2. o.gen <= Len(lists) /\ o.scanned <= o.gen /\ 1 <= o.scanned
    <3> HIDE DEF o
    <3> QED
      BY <1>2, <1>3, <2>1
  <2> QED
    BY <2>1, <2>2
<1>6. lists[o.gen] \subseteq lists'[o.gen]
  BY <1>2 DEF Grows, ListsGrow
<1>7. Places(t)'
  <2>1. Ahead(t) # {} => Ahead(t)' # {}
    BY <1>2, <1>6 DEF Ahead
  <2> QED
    BY <1>1, <1>2, <2>1 DEF Places
<1>8. Scans(t)'
  <2>1. o.scanned = Len(lists') => o.scanned = Len(lists)
    <3>1. o.scanned <= Len(lists)
      <4> HIDE DEF o
      <4> QED
        BY <1>3, <1>5
    <3>2. o.scanned = Len(lists') => Len(lists') <= Len(lists)
      BY <3>1
    <3>3. Len(lists') <= Len(lists) => Len(lists') = Len(lists)
      <4>1. Len(lists) \in Nat /\ Len(lists') \in Nat /\ Len(lists) <= Len(lists')
        BY <1>3
      <4> QED
        BY <4>1
    <3> QED
      BY <3>2, <3>3
  <2>2. Len(lists') = Len(lists) => Rows \subseteq Rows'
    BY <1>3, <1>2 DEF Grows, ListsGrow, Rows
  <2>3. o.scanned = Len(lists') => o.todo \subseteq Rows'
    <3>1. o.scanned = Len(lists) => o.todo \subseteq Rows
      BY <1>1 DEF Scans
    <3> HIDE DEF o
    <3> QED
      BY <2>1, <2>2, <3>1
  <2>4. o.since <= Len(heap')
    <3> HIDE DEF o
    <3> QED
      BY <1>2, <1>3, <1>5
  <2>5. o.gen \in DOMAIN lists' /\ o.todo \subseteq DOMAIN heap' /\ o.had \subseteq DOMAIN heap'
    BY <1>2, <1>4
  <2> QED
    BY <1>2, <2>3, <2>4, <2>5 DEF Scans
<1>9. Writes(t)'
  BY <1>1, <1>2, <1>3, <1>5 DEF Writes
<1>10. Locks(t)'
  <2>1. o.scanned \in DOMAIN lists
    BY <1>2, <1>3, <1>5
  <2>2. \A v \in o.had : Position(lists'[o.scanned], v) = Position(lists[o.scanned], v)
    BY <2>1, <1>2, PositionStays
  <2> QED
    BY <1>1, <1>2, <2>2 DEF Locks
<1>11. Inserts(t)'
  <2>1. \A v \in DOMAIN heap : heap'[v].by = heap[v].by
    BY DEF Grows, HeapGrows
  <2> QED
    BY <1>1, <1>2, <2>1 DEF Inserts, LockKept
<1>12. Checks(t)'
  <2> SUFFICES ASSUME o.stmt.op # "delete", o.pc \in {"check", "wait", "stamp", "append"},
                      NEW v \in DOMAIN heap', v <= o.since, v \in Rows'
               PROVE  /\ v \in lists'[o.gen]
                      /\ o.pc \in {"check", "wait"} /\ v <= o.at => Passed(t, v)'
                      /\ o.pc \in {"stamp", "append"} => Passed(t, v)'
    BY <1>2 DEF Checks
  <2>1. v \in DOMAIN heap
    BY <1>2, <1>3, <1>5
  <2>2. v \in Rows
    BY <2>1 DEF Grows, ListsGrow
  <2>3. /\ v \in lists[o.gen]
        /\ o.pc \in {"check", "wait"} /\ v <= o.at => Passed(t, v)
        /\ o.pc \in {"stamp", "append"} => Passed(t, v)
    BY <1>1, <2>1, <2>2 DEF Checks
  <2>4. Passed(t, v) => Passed(t, v)'
    <3>1. heap'[v].key = heap[v].key
      BY <2>1 DEF Grows, HeapGrows
    <3>2. Harmless(v, o.id) => Harmless(v, o.id)'
      BY <2>1, HarmlessStays
    <3>3. Old(t)' = Old(t)
      BY <1>2 DEF Old
    <3>4. Harmless(v, op[t].id)' <=> Harmless(v, o.id)'
      BY <1>2 DEF Harmless
    <3> QED
      BY <3>1, <3>2, <3>3, <3>4, <1>2 DEF Passed
  <2> QED
    BY <2>3, <2>4, <1>6
<1> QED
  BY <1>7, <1>8, <1>9, <1>10, <1>11, <1>12

-----------------------------------------------------------------------------
(***************************************************************************)
(* The steps of a statement.                                               *)
(***************************************************************************)
\* Its pc tells whether a session is in a statement.
LEMMA PcTells ==
  ASSUME Types, NEW s \in Sessions
  PROVE  /\ op[s].pc \notin {"idle", "copied", "put"} <=> InStatement(s)
         /\ op[s] = Idle => op[s].pc = "idle"
         /\ op[s].pc = "idle" => op[s] = Idle
<1>1. op[s] \in {Idle} \cup Copiers \cup Works
  BY DEF Types
<1>2. CASE op[s] = Idle
  <2>1. op[s].pc = "idle"
    BY <1>2 DEF Idle
  <2>2. op[s] \notin Works
    BY <2>1 DEF Works
  <2> QED
    BY <1>2, <2>1, <2>2 DEF InStatement
<1>3. CASE op[s] \in Copiers
  <2>1. op[s].pc \in {"copied", "put"}
    BY <1>3 DEF Copiers
  <2>2. op[s] \notin Works /\ op[s] # Idle
    BY <2>1 DEF Works, Idle
  <2> QED
    BY <2>1, <2>2 DEF InStatement
<1>4. CASE op[s] \in Works
  <2>1. op[s].pc \notin {"idle", "copied", "put"}
    BY <1>4 DEF Works
  <2> QED
    BY <2>1, <1>4 DEF InStatement, Idle
<1> QED
  BY <1>1, <1>2, <1>3, <1>4

\* Versions and lists that stay as they are have grown.
LEMMA QuietGrows ==
  ASSUME Types, UNCHANGED <<heap, lists>>, mvcc.aborted \subseteq mvcc'.aborted
  PROVE  Grows
<1>1. HeapGrows
  BY DEF Types, HeapGrows
<1>2. ListsGrow
  BY DEF Types, ListsGrow, Rows
<1> QED
  BY <1>1, <1>2 DEF Grows

\* Without a new version, what is known of pairs of them stays.
LEMMA PairStays ==
  ASSUME Types, PairInv, Grows, DOMAIN heap' = DOMAIN heap
  PROVE  PairInv'
<1> SUFFICES ASSUME NEW u \in DOMAIN heap, NEW v \in DOMAIN heap, u < v
             PROVE  /\ heap'[v].by = "insert" /\ u > heap'[v].since => heap'[u].by = "update"
                    /\ heap'[u].key = heap'[v].key /\ u \in Rows' /\ (u <= heap'[v].since \/ heap'[v].by = "load") =>
                         \/ heap'[u].xmin = heap'[v].xmin \/ heap'[u].xmax # NotDeleted
                         \/ heap'[u].restored \/ heap'[u].xmin \in mvcc'.aborted
  BY DEF PairInv, Harmless
<1>1. /\ heap'[v].by = heap[v].by /\ heap'[u].by = heap[u].by /\ heap'[v].since = heap[v].since
      /\ heap'[u].key = heap[u].key /\ heap'[v].key = heap[v].key
  BY DEF Grows, HeapGrows
<1>2. u \in Rows' => u \in Rows
  BY DEF Grows, ListsGrow
<1>3. Harmless(u, heap[v].xmin) =>
        \/ heap'[u].xmin = heap'[v].xmin \/ heap'[u].xmax # NotDeleted
        \/ heap'[u].restored \/ heap'[u].xmin \in mvcc'.aborted
  BY DEF Grows, HeapGrows, Harmless
<1> QED
  BY <1>1, <1>2, <1>3 DEF PairInv

\* A statement's step keeps the transactions and the copy under way as they are.
LEMMA InsideKeeps ==
  ASSUME TableInv, NEW s \in Sessions, NEW k \in Works, InStatement(s), op' = [op EXCEPT ![s] = k],
         Grows, Len(lists') = Len(lists), UNCHANGED <<mvcc, txn, copy>>,
         \A v \in DOMAIN heap : heap[v].xmax # NotDeleted => heap'[v].xmax # NotDeleted,
         \A v \in DOMAIN heap' \ DOMAIN heap : v \in Rows' /\ heap'[v].underCopy = (copy # Nil)
  PROVE  IdInv' /\ CopyInv' /\ LostInv'
<1>1. IdInv'
  BY DEF TableInv, IdInv
<1>2. /\ op[s].pc \notin {"copied", "put"} /\ k.pc \notin {"copied", "put"}
      /\ op'[s] = k /\ \A t \in Sessions \ {s} : op'[t] = op[t]
  BY DEF InStatement, Works, TableInv, Types
<1>3. \A t \in Sessions : (Copying(t)' <=> Copying(t)) /\ (Put(t)' <=> Put(t))
  BY <1>2 DEF Copying, Put
<1>4. Rows \subseteq Rows' /\ Rows' \cap DOMAIN heap \subseteq Rows /\ Rows \subseteq DOMAIN heap
  <2>1. Len(lists) \in DOMAIN lists
    BY LenProperties, EmptySeq DEF TableInv, Types
  <2> QED
    BY <2>1 DEF Rows, Grows, ListsGrow, TableInv, Types
<1>5. /\ DOMAIN heap \subseteq DOMAIN heap' /\ Rows' \subseteq DOMAIN heap'
      /\ \A v \in DOMAIN heap : heap'[v].underCopy = heap[v].underCopy /\ heap'[v].xmin = heap[v].xmin
  <2>1. DOMAIN heap \subseteq DOMAIN heap'
    BY LenProperties DEF Grows, HeapGrows, TableInv, Types
  <2>2. Len(lists') \in DOMAIN lists'
    BY LenProperties, EmptySeq DEF TableInv, Types, Grows, ListsGrow
  <2> QED
    BY <2>1, <2>2 DEF Rows, Grows, HeapGrows, ListsGrow
<1>6. CopyInv'
  <2>1. CopyInv
    BY DEF TableInv
  <2>2. ASSUME NEW t \in Sessions, Copying(t)
        PROVE  /\ copy.rows \subseteq Rows'
               /\ \A v \in Rows' \ copy.rows :
                    \/ heap'[v].underCopy
                    \/ copy.kind = "vacuum" /\ heap'[v].xmax # NotDeleted
                    \/ copy.kind = "rollback" /\ heap'[v].xmin = txn[t].id
    <3>1. copy \in Copies /\ copy.rows \subseteq Rows
      BY <2>1, <2>2 DEF CopyInv
    <3>2. copy # Nil
      BY <3>1, NilAssumption
    <3> SUFFICES ASSUME NEW v \in Rows' \ copy.rows
                 PROVE  \/ heap'[v].underCopy
                        \/ copy.kind = "vacuum" /\ heap'[v].xmax # NotDeleted
                        \/ copy.kind = "rollback" /\ heap'[v].xmin = txn[t].id
      BY <3>1, <1>4
    <3>3. CASE v \in DOMAIN heap
      <4>1. v \in Rows \ copy.rows
        BY <3>3, <1>4
      <4> QED
        BY <4>1, <3>3, <2>1, <2>2, <1>5 DEF CopyInv
    <3>4. CASE v \notin DOMAIN heap
      BY <3>2, <3>4, <1>5
    <3> QED
      BY <3>3, <3>4
  <2> QED
    BY <2>1, <2>2, <1>3 DEF CopyInv
<1>7. LostInv'
  <2> SUFFICES ASSUME NEW v \in DOMAIN heap', v \notin Rows'
               PROVE  \/ heap'[v].underCopy
                      \/ heap'[v].xmax # NotDeleted
                      \/ heap'[v].xmin \in mvcc'.aborted
                      \/ \E t \in Sessions : Put(t)' /\ txn[t].id = heap'[v].xmin
    BY DEF LostInv
  <2>1. v \in DOMAIN heap /\ v \notin Rows
    BY <1>4
  <2>2. \/ heap[v].underCopy
        \/ heap[v].xmax # NotDeleted
        \/ heap[v].xmin \in mvcc.aborted
        \/ \E t \in Sessions : Put(t) /\ txn[t].id = heap[v].xmin
    BY <2>1 DEF LostInv, TableInv
  <2> QED
    BY <2>1, <2>2, <1>3, <1>5
<1> QED
  BY <1>1, <1>6, <1>7

\* A step of a statement that leaves the table alone.
LEMMA MoveKeeps ==
  ASSUME TableInv, NEW s \in Sessions, NEW k \in Works, InStatement(s), op' = [op EXCEPT ![s] = k],
         UNCHANGED <<heap, lists, mvcc, txn, tableLock, copy>>,
         \A t \in Sessions \ {s} : InStatement(t) => k.held \cap op[t].held = {},
         StatementOK(s)'
  PROVE  TableInv'
<1>1. /\ Types /\ HeldApart /\ PairInv /\ op \in [Sessions -> {Idle} \cup Copiers \cup Works]
      /\ \A t \in Sessions : StatementOK(t)
  BY DEF TableInv, Types
<1>2. op'[s] = k /\ \A t \in Sessions \ {s} : op'[t] = op[t]
  BY <1>1
<1>3. Types'
  <2>1. op' \in [Sessions -> {Idle} \cup Copiers \cup Works]
    BY <1>1
  <2> QED
    BY <1>1, <2>1 DEF Types
<1>4. Grows
  BY <1>1, QuietGrows
<1>5. IdInv' /\ CopyInv' /\ LostInv'
  BY <1>4, InsideKeeps
<1>6. PairInv'
  BY <1>1, <1>4, PairStays
<1>7. HeldApart'
  BY <1>1, <1>2 DEF HeldApart, InStatement
<1>8. \A t \in Sessions : StatementOK(t)'
  <2> TAKE t \in Sessions
  <2>1. CASE t = s
    BY <2>1
  <2>2. CASE t # s
    <3>1. LockKept(t)
      BY DEF LockKept
    <3>2. op'[t] = op[t] /\ StatementOK(t)
      BY <1>1, <1>2, <2>2
    <3> QED
      BY <3>1, <3>2, <1>1, <1>4, OthersKeep
  <2> QED
    BY <2>1, <2>2
<1> QED
  BY <1>3, <1>5, <1>6, <1>7, <1>8 DEF TableInv

\* What a statement that is past its row locks keeps to itself, when it goes on with
\* the same rows or fewer, or with rows it has just looked up.
LEMMA GoesOn ==
  ASSUME TableInv, NEW s \in Sessions, NEW k \in Works, InStatement(s), op'[s] = k, Grows,
         Len(lists') = Len(lists), tableLock' = tableLock,
         k.stmt = op[s].stmt, k.since = op[s].since, k.had = op[s].had,
         k.scanned = op[s].scanned, k.held = op[s].held, k.want = {}, op[s].want = {},
         k.gen = op[s].gen \/ k.gen = Len(lists),
         k.todo \subseteq op[s].todo \/ k.todo \subseteq Rows,
         k.stmt.op = "insert" /\ k.pc \in {"check", "wait", "append"} =>
           op[s].pc \in {"check", "wait", "append"} /\ DOMAIN heap' = DOMAIN heap
  PROVE  Scans(s)' /\ Locks(s)' /\ Inserts(s)'
<1> DEFINE o == op[s]
<1>1. Types /\ Scans(s) /\ Locks(s) /\ Inserts(s) /\ o \in Works
  BY DEF TableInv, StatementOK, InStatement
<1>2. /\ o.gen \in DOMAIN lists /\ o.scanned \in 1 .. o.gen
      /\ o.todo \subseteq DOMAIN heap /\ o.had \subseteq DOMAIN heap /\ o.since <= Len(heap)
      /\ o.scanned = Len(lists) => o.todo \subseteq Rows
  BY <1>1 DEF Scans
<1>3. Len(heap) \in Nat /\ Len(heap') \in Nat /\ Len(lists) \in Nat /\ Len(heap) <= Len(heap')
  BY LenProperties DEF TableInv, Types, Grows, HeapGrows
<1>4. /\ DOMAIN heap = 1 .. Len(heap) /\ DOMAIN heap' = 1 .. Len(heap')
      /\ DOMAIN lists = 1 .. Len(lists) /\ DOMAIN lists' = 1 .. Len(lists)
  BY <1>1, LenProperties DEF Types, Grows, HeapGrows, ListsGrow
<1>5. /\ o.gen \in Nat /\ o.scanned \in Nat /\ o.since \in Nat
      /\ 1 <= o.gen /\ o.gen <= Len(lists) /\ o.scanned <= o.gen /\ 1 <= o.scanned
  <2>1. o.gen \in Nat /\ o.scanned \in Nat /\ o.since \in Nat
    BY <1>1 DEF Works
  <2>2. o.gen \in 1 .. Len(lists)
    BY <1>2, <1>4
  <2> HIDE DEF o
  <2> QED
    BY <1>2, <1>3, <2>1, <2>2
<1>6. DOMAIN heap \subseteq DOMAIN heap' /\ Rows \subseteq DOMAIN heap /\ Rows \subseteq Rows'
  <2>1. Len(lists) \in DOMAIN lists
    <3>1. 1 <= Len(lists)
      <4> HIDE DEF o
      <4> QED
        BY <1>3, <1>5
    <3>2. Len(lists) \in 1 .. Len(lists)
      BY <3>1, <1>3
    <3> QED
      BY <3>2, <1>4
  <2>2. lists[Len(lists)] \subseteq lists'[Len(lists)]
    BY <2>1 DEF Grows, ListsGrow
  <2>3. 1 .. Len(heap) \subseteq 1 .. Len(heap')
    BY <1>3
  <2>4. DOMAIN heap \subseteq DOMAIN heap'
    BY <2>3, <1>4
  <2>5. Rows \subseteq DOMAIN heap
    BY <1>1, <2>1 DEF Types, Rows
  <2> QED
    BY <2>2, <2>4, <2>5 DEF Rows
<1>7. Scans(s)'
  <2>1. k.gen \in DOMAIN lists' /\ k.scanned \in 1 .. k.gen
    <3> HIDE DEF o
    <3>1. k.gen \in Nat /\ o.scanned <= k.gen /\ 1 <= k.gen /\ k.gen <= Len(lists)
      <4>1. CASE k.gen = o.gen
        BY <4>1, <1>5
      <4>2. CASE k.gen = Len(lists)
        BY <4>2, <1>5, <1>3
      <4> QED
        BY <4>1, <4>2 DEF o
    <3>2. k.scanned = o.scanned
      BY DEF o
    <3>3. k.gen \in 1 .. Len(lists) /\ o.scanned \in 1 .. k.gen
      BY <3>1, <1>5, <1>3
    <3> QED
      BY <3>2, <3>3, <1>4
  <2>2. k.since <= Len(heap')
    <3>1. k.since = o.since
      OBVIOUS
    <3> HIDE DEF o
    <3> QED
      BY <3>1, <1>2, <1>3, <1>5
  <2>3. k.todo \subseteq DOMAIN heap' /\ k.had \subseteq DOMAIN heap'
    BY <1>2, <1>6
  <2>4. k.scanned = Len(lists') => k.todo \subseteq Rows'
    BY <1>2, <1>6
  <2> QED
    BY <2>1, <2>2, <2>3, <2>4 DEF Scans
<1>8. Locks(s)'
  <2>1. o.scanned \in DOMAIN lists
    <3>1. o.scanned \in 1 .. Len(lists)
      <4> HIDE DEF o
      <4> QED
        BY <1>3, <1>5
    <3> QED
      BY <3>1, <1>4
  <2>2. \A v \in o.had : Position(lists'[o.scanned], v) = Position(lists[o.scanned], v)
    BY <1>1, <2>1, <1>2, PositionStays
  <2> QED
    BY <1>1, <2>2 DEF Locks
<1>9. Inserts(s)'
  <2>1. \A v \in DOMAIN heap : heap'[v].by = heap[v].by
    BY DEF Grows, HeapGrows
  <2> QED
    BY <1>1, <2>1 DEF Inserts
<1> QED
  BY <1>7, <1>8, <1>9

\* The loop's next row is the first one it has not looked at.
LEMMA LookIsNext ==
  ASSUME TableInv, NEW s \in Sessions, InStatement(s), Ahead(s) # {}
  PROVE  /\ Look(s) \in lists[op[s].gen] /\ Look(s) \in DOMAIN heap /\ Look(s) \in Nat
         /\ op[s].gen = Len(lists) => Look(s) \in Rows
         /\ \A v \in lists[op[s].gen] : v <= Look(s) => v <= op[s].at \/ v = Look(s)
<1>1. Types /\ Scans(s) /\ op[s] \in Works
  BY DEF TableInv, StatementOK, InStatement
<1>2. lists[op[s].gen] \subseteq DOMAIN heap
  BY <1>1 DEF Types, Scans
<1>3. DOMAIN heap \subseteq Nat
  BY <1>1, LenProperties DEF Types
<1>4. Ahead(s) \in SUBSET Nat
  BY <1>2, <1>3 DEF Ahead
<1>5. Look(s) \in Ahead(s) /\ \A x \in Ahead(s) : Look(s) <= x
  BY <1>4, MinIsLeast DEF Look
<1>6. op[s].at \in Nat /\ lists[op[s].gen] \subseteq Nat
  BY <1>1, <1>2, <1>3 DEF Works
<1>7. \A v \in lists[op[s].gen] : v <= Look(s) => v <= op[s].at \/ v = Look(s)
  <2> TAKE v \in lists[op[s].gen]
  <2> HAVE v <= Look(s)
  <2>1. v \in Nat /\ Look(s) \in Nat
    BY <1>4, <1>5, <1>6
  <2>2. v > op[s].at => v \in Ahead(s)
    BY DEF Ahead
  <2>3. v > op[s].at => Look(s) <= v
    BY <2>2, <1>5
  <2> QED
    BY <2>1, <2>3, <1>6
<1> QED
  BY <1>2, <1>4, <1>5, <1>7 DEF Ahead, Rows

-----------------------------------------------------------------------------
\* The row locks.
LEMMA LockRowStep ==
  ASSUME TableInv, NEW s \in Sessions, LockRow(s)
  PROVE  TableInv'
<1> DEFINE i == Min(op[s].want)
<1> DEFINE k == [op[s] EXCEPT !.want = @ \ {i}, !.held = @ \cup {i}]
<1>1. op[s].pc = "lock"
  BY DEF LockRow, Inside
<1>2. InStatement(s)
  BY <1>1, PcTells DEF TableInv
<1>3. op[s] \in Works /\ Types /\ op \in [Sessions -> {Idle} \cup Copiers \cup Works]
  BY <1>2 DEF InStatement, TableInv, Types
<1>4. i \in Nat
  <2>1. op[s].want \in SUBSET Nat /\ op[s].want # {}
    BY <1>3 DEF LockRow, Works
  <2> QED
    BY <2>1, MinIsLeast
<1>5. k \in Works
  BY <1>3, <1>4 DEF Works
<1>6. /\ k.pc = "lock" /\ k.stmt = op[s].stmt /\ k.since = op[s].since /\ k.had = op[s].had
      /\ k.scanned = op[s].scanned /\ k.todo = op[s].todo /\ k.gen = op[s].gen /\ k.many = op[s].many
      /\ k.wrote = op[s].wrote /\ k.want = op[s].want \ {i} /\ k.held = op[s].held \cup {i}
  BY <1>1, <1>3 DEF Works
<1>7. op' = [op EXCEPT ![s] = k] /\ UNCHANGED <<heap, lists, mvcc, txn, tableLock, copy>>
  BY <1>3 DEF LockRow, Inside
<1>8. op'[s] = k
  BY <1>3, <1>7
<1>9. \A t \in Sessions \ {s} : InStatement(t) => k.held \cap op[t].held = {}
  <2> SUFFICES ASSUME NEW t \in Sessions \ {s}, op[t] \in Works
               PROVE  k.held \cap op[t].held = {}
    BY DEF InStatement
  <2>1. "held" \in DOMAIN op[t]
    BY DEF Works
  <2>2. i \notin op[t].held
    BY <2>1 DEF LockRow, RowFree
  <2>3. op[s].held \cap op[t].held = {}
    BY <1>3 DEF TableInv, HeldApart, InStatement
  <2> QED
    BY <2>2, <2>3, <1>6
<1>10. Places(s) /\ Scans(s) /\ Writes(s) /\ Locks(s) /\ Inserts(s)
  BY <1>2 DEF TableInv, StatementOK
<1>11. StatementOK(s)'
  <2> HIDE DEF k, i
  <2>1. Places(s)'
    BY <1>6, <1>8, <1>10, <1>1 DEF Places
  <2>2. Scans(s)'
    BY <1>6, <1>7, <1>8, <1>10 DEF Scans, Rows
  <2>3. Writes(s)'
    BY <1>6, <1>7, <1>8, <1>10, <1>1 DEF Writes
  <2>4. Locks(s)'
    BY <1>6, <1>7, <1>8, <1>10 DEF Locks
  <2>5. Inserts(s)'
    BY <1>6, <1>7, <1>8, <1>10 DEF Inserts
  <2>6. Checks(s)'
    BY <1>6, <1>8 DEF Checks
  <2> QED
    BY <2>1, <2>2, <2>3, <2>4, <2>5, <2>6 DEF StatementOK
<1> HIDE DEF k, i
<1> QED
  BY <1>2, <1>5, <1>7, <1>9, <1>11, MoveKeeps

\* A step that neither takes a lock nor writes, and ends with the statement at k.
LEMMA QuietStep ==
  ASSUME TableInv, NEW s \in Sessions, NEW k \in Works, InStatement(s), op' = [op EXCEPT ![s] = k],
         UNCHANGED <<heap, lists, mvcc, txn, tableLock, copy>>,
         k.stmt = op[s].stmt, k.since = op[s].since, k.had = op[s].had, k.id = op[s].id,
         k.scanned = op[s].scanned, k.held = op[s].held, k.wrote = op[s].wrote,
         k.want = {}, op[s].want = {}, k.pc # "lock",
         k.gen = op[s].gen \/ k.gen = Len(lists),
         k.todo \subseteq op[s].todo \/ k.todo \subseteq Rows,
         k.stmt.op = "insert" /\ k.pc \in {"check", "wait", "append"} => op[s].pc \in {"check", "wait", "append"},
         Places(s)', Checks(s)',
         ~k.many => \A u, v \in k.todo : u = v,
         k.wrote => k.stmt.op # "insert",
         k.wrote /\ k.pc \in {"check", "wait", "stamp"} => k.many,
         k.wrote /\ k.pc = "failed" => k.many \/ k.scanned < Len(lists)
  PROVE  TableInv'
<1>1. Types /\ op \in [Sessions -> {Idle} \cup Copiers \cup Works] /\ HeldApart
  BY DEF TableInv, Types
<1>2. op'[s] = k
  BY <1>1
<1>3. Grows
  BY <1>1, QuietGrows
<1>4. Scans(s)' /\ Locks(s)' /\ Inserts(s)'
  BY <1>2, <1>3, GoesOn
<1>5. Writes(s)'
  BY <1>2 DEF Writes
<1>6. StatementOK(s)'
  BY <1>4, <1>5 DEF StatementOK
<1>7. \A t \in Sessions \ {s} : InStatement(t) => k.held \cap op[t].held = {}
  BY <1>1 DEF HeldApart
<1> QED
  BY <1>6, <1>7, MoveKeeps

\* The end of the locking, and the search for the rows.
LEMMA LockedStep ==
  ASSUME TableInv, NEW s \in Sessions, Locked(s)
  PROVE  TableInv'
<1> DEFINE o == op[s]
<1> DEFINE todo == {v \in Rows : IsTarget(v, o.id, o.snap, o.stmt.where)}
<1>1. o.pc = "lock" /\ o.want = {} /\ UNCHANGED <<heap, lists, mvcc, txn, tableLock, copy>>
  BY DEF Locked, Inside
<1>2. InStatement(s)
  BY <1>1, PcTells DEF TableInv
<1>3. o \in Works /\ Types /\ op \in [Sessions -> {Idle} \cup Copiers \cup Works]
  BY <1>2 DEF InStatement, TableInv, Types
<1>4. Places(s) /\ Writes(s)
  BY <1>2 DEF TableInv, StatementOK
<1>5. ~o.wrote /\ o.stmt.op # "insert" /\ o.stmt.op \in {"insert", "update", "delete"}
  BY <1>1, <1>3, <1>4 DEF Places, Writes, Works, Statements
<1>6. Len(lists) \in Nat /\ todo \in SUBSET Nat /\ todo \subseteq Rows
  <2>1. Len(lists) \in DOMAIN lists
    BY <1>3, LenProperties, EmptySeq DEF Types
  <2>2. Rows \subseteq DOMAIN heap /\ DOMAIN heap \subseteq Nat
    BY <2>1, <1>3, LenProperties DEF Types, Rows
  <2> QED
    BY <2>2, <1>3, LenProperties DEF Types
<1>7. CASE o.stmt.op = "delete"
  <2> DEFINE k == [o EXCEPT !.pc = "delete", !.gen = Len(lists), !.at = 0]
  <2>1. k \in Works
    BY <1>3, <1>6 DEF Works
  <2>2. /\ k.pc = "delete" /\ k.stmt = o.stmt /\ k.since = o.since /\ k.had = o.had /\ k.id = o.id
        /\ k.scanned = o.scanned /\ k.todo = o.todo /\ k.gen = Len(lists) /\ k.many = o.many
        /\ k.wrote = o.wrote /\ k.want = o.want /\ k.held = o.held
    BY <1>3 DEF Works
  <2>3. op' = [op EXCEPT ![s] = k]
    BY <1>7 DEF Locked
  <2>4. op'[s] = k
    BY <2>3, <1>3
  <2> HIDE DEF k, todo
  <2>5. Places(s)' /\ Checks(s)'
    BY <2>2, <2>4, <1>4, <1>7 DEF Places, Checks
  <2>6. ~k.many => \A u, v \in k.todo : u = v
    BY <2>2, <1>4 DEF Writes
  <2> QED
    BY <1>1, <1>2, <1>5, <2>1, <2>2, <2>3, <2>5, <2>6, QuietStep
<1>8. CASE o.stmt.op = "update" /\ todo = {}
  <2> DEFINE k == [o EXCEPT !.pc = "end"]
  <2>1. k \in Works
    BY <1>3 DEF Works
  <2>2. /\ k.pc = "end" /\ k.stmt = o.stmt /\ k.since = o.since /\ k.had = o.had /\ k.id = o.id
        /\ k.scanned = o.scanned /\ k.todo = o.todo /\ k.gen = o.gen /\ k.many = o.many
        /\ k.wrote = o.wrote /\ k.want = o.want /\ k.held = o.held
    BY <1>3 DEF Works
  <2>3. op' = [op EXCEPT ![s] = k]
    BY <1>8 DEF Locked
  <2>4. op'[s] = k
    BY <2>3, <1>3
  <2> HIDE DEF k, todo
  <2>5. Places(s)' /\ Checks(s)'
    BY <2>2, <2>4, <1>4, <1>8 DEF Places, Checks
  <2>6. ~k.many => \A u, v \in k.todo : u = v
    BY <2>2, <1>4 DEF Writes
  <2> QED
    BY <1>1, <1>2, <1>5, <2>1, <2>2, <2>3, <2>5, <2>6, QuietStep
<1>9. CASE o.stmt.op = "update" /\ todo # {}
  <2> DEFINE k == [o EXCEPT !.pc = "check", !.todo = todo, !.gen = Len(lists), !.at = 0,
                            !.many = \E u, v \in todo : u # v]
  <2>1. k \in Works
    <3> HIDE DEF todo
    <3>1. (\E u, v \in todo : u # v) \in BOOLEAN
      OBVIOUS
    <3> QED
      BY <1>3, <1>6, <3>1 DEF Works
  <2>2. /\ k.pc = "check" /\ k.stmt = o.stmt /\ k.since = o.since /\ k.had = o.had /\ k.id = o.id
        /\ k.scanned = o.scanned /\ k.todo = todo /\ k.gen = Len(lists)
        /\ k.wrote = o.wrote /\ k.want = o.want /\ k.held = o.held /\ k.at = 0
        /\ k.many = (\E u, v \in todo : u # v)
    <3> HIDE DEF todo
    <3> QED
      BY <1>3 DEF Works
  <2>3. op' = [op EXCEPT ![s] = k]
    BY <1>9 DEF Locked
  <2>4. op'[s] = k
    BY <2>3, <1>3
  <2> HIDE DEF k
  <2>5. Places(s)'
    <3> HIDE DEF todo
    <3> QED
      BY <2>2, <2>4, <1>4, <1>9 DEF Places
  <2>6. Checks(s)'
    <3>1. \A v \in DOMAIN heap : ~(v <= 0)
      BY <1>3, LenProperties DEF Types
    <3>2. \A v \in Rows : v \in lists[k.gen]
      BY <2>2 DEF Rows
    <3>3. Rows' = Rows
      BY <1>1 DEF Rows
    <3> HIDE DEF todo
    <3> QED
      BY <2>2, <2>4, <3>1, <3>2, <3>3, <1>1 DEF Checks
  <2>7. ~k.many => \A u, v \in k.todo : u = v
    BY <2>2
  <2> HIDE DEF todo
  <2> QED
    BY <1>1, <1>2, <1>5, <1>6, <2>1, <2>2, <2>3, <2>5, <2>6, <2>7, QuietStep
<1> QED
  BY <1>5, <1>7, <1>8, <1>9

-----------------------------------------------------------------------------
\* The check goes past its next row, or a row it has waited for.
LEMMA CheckAdvances ==
  ASSUME TableInv, NEW s \in Sessions, InStatement(s), op[s].pc \in {"check", "wait"}, Ahead(s) # {},
         UNCHANGED <<heap, lists, mvcc, txn, tableLock, copy>>,
         op' = [op EXCEPT ![s] = [op[s] EXCEPT !.pc = "check", !.at = Look(s)]],
         Passed(s, Look(s))
  PROVE  TableInv'
<1> DEFINE k == [op[s] EXCEPT !.pc = "check", !.at = Look(s)]
<1>1. op[s] \in Works /\ Types /\ op \in [Sessions -> {Idle} \cup Copiers \cup Works]
  BY DEF InStatement, TableInv, Types
<1>2. Places(s) /\ Writes(s) /\ Checks(s) /\ Locks(s)
  BY DEF TableInv, StatementOK
<1>3. /\ Look(s) \in Nat
      /\ \A v \in lists[op[s].gen] : v <= Look(s) => v <= op[s].at \/ v = Look(s)
  BY LookIsNext
<1>4. k \in Works
  BY <1>1, <1>3 DEF Works
<1>5. /\ k.pc = "check" /\ k.stmt = op[s].stmt /\ k.since = op[s].since /\ k.had = op[s].had
      /\ k.scanned = op[s].scanned /\ k.todo = op[s].todo /\ k.gen = op[s].gen /\ k.many = op[s].many
      /\ k.wrote = op[s].wrote /\ k.want = op[s].want /\ k.held = op[s].held /\ k.id = op[s].id
      /\ k.at = Look(s)
  BY <1>1 DEF Works
<1>6. op' = [op EXCEPT ![s] = k]
  OBVIOUS
<1>7. op'[s] = k
  BY <1>1, <1>6
<1>8. op[s].stmt.op # "delete"
  BY <1>2 DEF Places
<1> HIDE DEF k
<1>9. Places(s)'
  BY <1>2, <1>5, <1>7, <1>8 DEF Places
<1>10. Checks(s)'
  <2> SUFFICES ASSUME NEW v \in DOMAIN heap, v <= op[s].since, v \in Rows
               PROVE  v \in lists[op[s].gen] /\ (v <= Look(s) => Passed(s, v)')
    BY <1>5, <1>7 DEF Checks, Rows
  <2>1. v \in lists[op[s].gen] /\ (v <= op[s].at => Passed(s, v))
    BY <1>2, <1>8 DEF Checks
  <2>2. v <= Look(s) => Passed(s, v)
    BY <2>1, <1>3
  <2>3. Passed(s, v) => Passed(s, v)'
    BY <1>5, <1>7 DEF Passed, Harmless, Old
  <2> QED
    BY <2>1, <2>2, <2>3
<1>11. op[s].want = {}
  BY <1>2 DEF Locks
<1>12. /\ ~k.many => \A u, v \in k.todo : u = v
       /\ k.wrote => k.stmt.op # "insert"
       /\ k.wrote => k.many
  BY <1>2, <1>5 DEF Writes
<1> QED
  BY <1>4, <1>5, <1>6, <1>9, <1>10, <1>11, <1>12, QuietStep

\* The check ends or pauses: only the pc changes, and the count of polls.
LEMMA CheckTurns ==
  ASSUME TableInv, NEW s \in Sessions, InStatement(s), op[s].pc \in {"check", "wait"},
         NEW pc \in {"wait", "failed"}, NEW polls \in Nat, Ahead(s) # {},
         UNCHANGED <<heap, lists, mvcc, txn, tableLock, copy>>,
         op' = [op EXCEPT ![s] = [op[s] EXCEPT !.pc = pc, !.polls = polls]]
  PROVE  TableInv'
<1> DEFINE k == [op[s] EXCEPT !.pc = pc, !.polls = polls]
<1>1. op[s] \in Works /\ Types /\ op \in [Sessions -> {Idle} \cup Copiers \cup Works]
  BY DEF InStatement, TableInv, Types
<1>2. Places(s) /\ Writes(s) /\ Checks(s) /\ Locks(s)
  BY DEF TableInv, StatementOK
<1>3. k \in Works
  BY <1>1 DEF Works
<1>4. /\ k.pc = pc /\ k.stmt = op[s].stmt /\ k.since = op[s].since /\ k.had = op[s].had
      /\ k.scanned = op[s].scanned /\ k.todo = op[s].todo /\ k.gen = op[s].gen /\ k.many = op[s].many
      /\ k.wrote = op[s].wrote /\ k.want = op[s].want /\ k.held = op[s].held /\ k.id = op[s].id
      /\ k.at = op[s].at
  BY <1>1 DEF Works
<1>5. op' = [op EXCEPT ![s] = k]
  OBVIOUS
<1>6. op'[s] = k
  BY <1>1, <1>5
<1>7. op[s].stmt.op # "delete"
  BY <1>2 DEF Places
<1> HIDE DEF k
<1>8. Places(s)'
  <2>1. Ahead(s)' = Ahead(s)
    BY <1>4, <1>6 DEF Ahead
  <2> QED
    BY <1>2, <1>4, <1>6, <1>7, <2>1 DEF Places
<1>9. Checks(s)'
  BY <1>2, <1>4, <1>6 DEF Checks, Passed, Harmless, Old, Rows
<1>10. op[s].want = {}
  BY <1>2 DEF Locks
<1>11. /\ ~k.many => \A u, v \in k.todo : u = v
       /\ k.wrote => k.stmt.op # "insert"
       /\ k.wrote => k.many
  BY <1>2, <1>4 DEF Writes
<1> QED
  BY <1>3, <1>4, <1>5, <1>8, <1>9, <1>10, <1>11, QuietStep

LEMMA CheckRowStep ==
  ASSUME TableInv, NEW s \in Sessions, CheckRow(s)
  PROVE  TableInv'
<1> DEFINE creator == heap[Look(s)].xmin
<1>1. op[s].pc = "check" /\ Ahead(s) # {} /\ UNCHANGED <<heap, lists, mvcc, txn, tableLock, copy>>
  BY DEF CheckRow, Inside
<1>2. InStatement(s)
  BY <1>1, PcTells DEF TableInv
<1>3. op[s] \in Works /\ op[s].polls \in Nat
  BY <1>2 DEF InStatement, Works
<1>4. CASE ~Conflicts(s, Look(s)) \/ creator \in mvcc.aborted
  <2>1. op' = [op EXCEPT ![s] = [op[s] EXCEPT !.at = Look(s)]]
    BY <1>4 DEF CheckRow
  <2>2. [op[s] EXCEPT !.at = Look(s)] = [op[s] EXCEPT !.pc = "check", !.at = Look(s)]
    BY <1>1, <1>3 DEF Works
  <2>3. Passed(s, Look(s))
    BY <1>1, <1>4 DEF Passed, Conflicts, Harmless
  <2> QED
    BY <1>1, <1>2, <2>1, <2>2, <2>3, CheckAdvances
<1>5. CASE ~(~Conflicts(s, Look(s)) \/ creator \in mvcc.aborted) /\ IsCommitted(creator)
  <2>1. op' = [op EXCEPT ![s] = [op[s] EXCEPT !.pc = "failed"]]
    BY <1>5 DEF CheckRow
  <2>2. [op[s] EXCEPT !.pc = "failed"] = [op[s] EXCEPT !.pc = "failed", !.polls = op[s].polls]
    BY <1>3 DEF Works
  <2> QED
    BY <1>1, <1>2, <1>3, <2>1, <2>2, CheckTurns
<1>6. CASE ~(~Conflicts(s, Look(s)) \/ creator \in mvcc.aborted) /\ ~IsCommitted(creator)
  <2>1. op' = [op EXCEPT ![s] = [op[s] EXCEPT !.pc = "wait", !.polls = 0]]
    BY <1>6 DEF CheckRow
  <2> QED
    BY <1>1, <1>2, <2>1, CheckTurns
<1> QED
  BY <1>4, <1>5, <1>6

LEMMA PollStep ==
  ASSUME TableInv, NEW s \in Sessions, Poll(s)
  PROVE  TableInv'
<1> DEFINE v == Look(s)
<1>1. op[s].pc = "wait" /\ UNCHANGED <<heap, lists, mvcc, txn, tableLock, copy>>
  BY DEF Poll, Inside
<1>2. InStatement(s)
  BY <1>1, PcTells DEF TableInv
<1>3. op[s] \in Works /\ op[s].polls \in Nat
  BY <1>2 DEF InStatement, Works
<1>4. Ahead(s) # {}
  BY <1>1, <1>2 DEF TableInv, StatementOK, Places
<1>5. CASE IsCommitted(heap[v].xmin)
  <2>1. op' = [op EXCEPT ![s] = [op[s] EXCEPT !.pc = "failed"]]
    BY <1>5 DEF Poll
  <2>2. [op[s] EXCEPT !.pc = "failed"] = [op[s] EXCEPT !.pc = "failed", !.polls = op[s].polls]
    BY <1>3 DEF Works
  <2> QED
    BY <1>1, <1>2, <1>3, <1>4, <2>1, <2>2, CheckTurns
<1>6. CASE ~IsCommitted(heap[v].xmin) /\ (heap[v].xmin \in mvcc.aborted \/ heap[v].xmax # NotDeleted)
  <2>1. op' = [op EXCEPT ![s] = [op[s] EXCEPT !.pc = "check", !.at = Look(s)]]
    BY <1>6 DEF Poll
  <2>2. Passed(s, Look(s))
    BY <1>6 DEF Passed, Harmless
  <2> QED
    BY <1>1, <1>2, <1>4, <2>1, <2>2, CheckAdvances
<1> DEFINE waits == /\ ~IsCommitted(heap[v].xmin)
                    /\ ~(heap[v].xmin \in mvcc.aborted \/ heap[v].xmax # NotDeleted)
<1>7. CASE waits /\ TimedOut(s)
  <2>1. op' = [op EXCEPT ![s] = [op[s] EXCEPT !.pc = "failed"]]
    BY <1>7 DEF Poll
  <2>2. [op[s] EXCEPT !.pc = "failed"] = [op[s] EXCEPT !.pc = "failed", !.polls = op[s].polls]
    BY <1>3 DEF Works
  <2> QED
    BY <1>1, <1>2, <1>3, <1>4, <2>1, <2>2, CheckTurns
<1>8. CASE waits /\ ~TimedOut(s)
  <2> DEFINE polls == Min({op[s].polls + 1, MaxPolls})
  <2>1. op' = [op EXCEPT ![s] = [op[s] EXCEPT !.polls = polls]]
    <3>1. op' = [op EXCEPT ![s] =
            IF IsCommitted(heap[v].xmin) THEN [op[s] EXCEPT !.pc = "failed"]
            ELSE IF heap[v].xmin \in mvcc.aborted \/ heap[v].xmax # NotDeleted
                 THEN [op[s] EXCEPT !.pc = "check", !.at = v]
            ELSE IF TimedOut(s) THEN [op[s] EXCEPT !.pc = "failed"]
            ELSE [op[s] EXCEPT !.polls = polls]]
      BY DEF Poll
    <3> HIDE DEF polls
    <3> QED
      BY <1>8, <3>1
  <2>2. polls \in Nat
    <3>1. {op[s].polls + 1, MaxPolls} \in SUBSET Nat /\ {op[s].polls + 1, MaxPolls} # {}
      BY <1>3, BoundsAssumption
    <3>2. polls \in {op[s].polls + 1, MaxPolls}
      BY <3>1, MinIsLeast
    <3> QED
      BY <3>1, <3>2
  <2> HIDE DEF polls
  <2>3. [op[s] EXCEPT !.polls = polls] = [op[s] EXCEPT !.pc = "wait", !.polls = polls]
    BY <1>1, <1>3 DEF Works
  <2> QED
    BY <1>1, <1>2, <1>4, <2>1, <2>2, <2>3, CheckTurns
<1> QED
  BY <1>5, <1>6, <1>7, <1>8

LEMMA CheckedStep ==
  ASSUME TableInv, NEW s \in Sessions, Checked(s)
  PROVE  TableInv'
<1> DEFINE pc == IF op[s].stmt.op = "insert" THEN "append" ELSE "stamp"
<1> DEFINE k == [op[s] EXCEPT !.pc = pc]
<1>1. op[s].pc = "check" /\ Ahead(s) = {} /\ UNCHANGED <<heap, lists, mvcc, txn, tableLock, copy>>
  BY DEF Checked, Inside
<1>2. InStatement(s)
  BY <1>1, PcTells DEF TableInv
<1>3. op[s] \in Works /\ Types /\ op \in [Sessions -> {Idle} \cup Copiers \cup Works]
  BY <1>2 DEF InStatement, TableInv, Types
<1>4. Places(s) /\ Writes(s) /\ Checks(s) /\ Locks(s)
  BY <1>2 DEF TableInv, StatementOK
<1>5. k \in Works
  BY <1>3 DEF Works
<1>6. /\ k.pc = pc /\ k.stmt = op[s].stmt /\ k.since = op[s].since /\ k.had = op[s].had
      /\ k.scanned = op[s].scanned /\ k.todo = op[s].todo /\ k.gen = op[s].gen /\ k.many = op[s].many
      /\ k.wrote = op[s].wrote /\ k.want = op[s].want /\ k.held = op[s].held /\ k.id = op[s].id
  BY <1>3 DEF Works
<1>7. op' = [op EXCEPT ![s] = k]
  BY <1>3 DEF Checked
<1>8. op'[s] = k
  BY <1>3, <1>7
<1> HIDE DEF k
<1>9. op[s].stmt.op # "delete"
  BY <1>1, <1>4 DEF Places
<1>10. op[s].stmt.op \in {"insert", "update"}
  BY <1>3, <1>9 DEF Works, Statements
<1>11. Places(s)'
  BY <1>1, <1>4, <1>6, <1>8, <1>10 DEF Places
<1>12. Checks(s)'
  <2> SUFFICES ASSUME NEW v \in DOMAIN heap, v <= op[s].since, v \in Rows
               PROVE  v \in lists[op[s].gen] /\ Passed(s, v)'
    BY <1>1, <1>6, <1>8, <1>10 DEF Checks, Rows
  <2>1. v \in lists[op[s].gen] /\ (v <= op[s].at => Passed(s, v))
    BY <1>1, <1>4, <1>9 DEF Checks
  <2>2. v <= op[s].at
    <3>1. v \in Nat /\ op[s].at \in Nat
      BY <1>3, LenProperties DEF Types, Works
    <3>2. ~ (v > op[s].at)
      BY <2>1, <1>1 DEF Ahead
    <3> QED
      BY <3>1, <3>2
  <2>3. Passed(s, v) => Passed(s, v)'
    BY <1>1, <1>6, <1>8, <1>10 DEF Passed, Harmless, Old
  <2> QED
    BY <2>1, <2>2, <2>3
<1>13. op[s].want = {}
  BY <1>1, <1>4 DEF Locks
<1>14. /\ ~k.many => \A u, v \in k.todo : u = v
       /\ k.wrote => k.stmt.op # "insert"
       /\ k.wrote => k.many
  BY <1>1, <1>4, <1>6 DEF Writes
<1> QED
  BY <1>1, <1>2, <1>5, <1>6, <1>7, <1>11, <1>12, <1>13, <1>14, QuietStep

-----------------------------------------------------------------------------
\* UPDATE's row is one of those it has still to replace.
LEMMA OldIsThere ==
  ASSUME TableInv, NEW s \in Sessions, InStatement(s), op[s].todo # {}
  PROVE  /\ Old(s) \in op[s].todo /\ Old(s) \in DOMAIN heap
         /\ op[s].scanned = Len(lists) => Old(s) \in Rows
<1>1. op[s] \in Works /\ Scans(s)
  BY DEF TableInv, StatementOK, InStatement
<1>2. op[s].todo \in SUBSET Nat
  BY <1>1 DEF Works
<1>3. Old(s) \in op[s].todo
  BY <1>2, MinIsLeast DEF Old
<1> QED
  BY <1>1, <1>3 DEF Scans

\* The lists a statement knows are among those there have been.
LEMMA ListOrder ==
  ASSUME TableInv, NEW s \in Sessions, InStatement(s)
  PROVE  /\ Len(lists) \in Nat /\ op[s].scanned \in Nat /\ op[s].gen \in Nat
         /\ op[s].scanned <= op[s].gen /\ op[s].gen <= Len(lists)
<1>1. op[s] \in Works /\ Scans(s) /\ Types
  BY DEF TableInv, StatementOK, InStatement
<1>2. op[s].scanned \in Nat /\ op[s].gen \in Nat
  BY <1>1 DEF Works
<1>3. Len(lists) \in Nat /\ DOMAIN lists = 1 .. Len(lists)
  BY <1>1, LenProperties DEF Types
<1>4. op[s].gen \in 1 .. Len(lists) /\ op[s].scanned \in 1 .. op[s].gen
  BY <1>1, <1>3 DEF Scans
<1> QED
  BY <1>2, <1>3, <1>4

LEMMA ReplacedStep ==
  ASSUME TableInv, NEW s \in Sessions, Replaced(s)
  PROVE  TableInv'
<1> DEFINE rest == op[s].todo \ {Old(s)}
<1>1. /\ op[s].pc = "find" /\ op[s].stmt.op = "update"
      /\ UNCHANGED <<heap, lists, mvcc, txn, tableLock, copy>>
  BY DEF Replaced, Inside
<1>2. InStatement(s)
  BY <1>1, PcTells DEF TableInv
<1>3. op[s] \in Works /\ Types /\ op \in [Sessions -> {Idle} \cup Copiers \cup Works]
  BY <1>2 DEF InStatement, TableInv, Types
<1>4. Places(s) /\ Writes(s) /\ Locks(s) /\ Scans(s)
  BY <1>2 DEF TableInv, StatementOK
<1>5. op[s].todo # {} /\ op[s].want = {}
  BY <1>1, <1>4 DEF Places, Locks
<1>6. Old(s) \in op[s].todo /\ (op[s].scanned = Len(lists) => Old(s) \in Rows)
  BY <1>2, <1>5, OldIsThere
<1>7. CASE ~Listed(Old(s))
  <2> DEFINE k == [op[s] EXCEPT !.pc = "failed"]
  <2>1. k \in Works
    BY <1>3 DEF Works
  <2>2. /\ k.pc = "failed" /\ k.stmt = op[s].stmt /\ k.since = op[s].since /\ k.had = op[s].had
        /\ k.scanned = op[s].scanned /\ k.todo = op[s].todo /\ k.gen = op[s].gen /\ k.many = op[s].many
        /\ k.wrote = op[s].wrote /\ k.want = op[s].want /\ k.held = op[s].held /\ k.id = op[s].id
    BY <1>3 DEF Works
  <2>3. op' = [op EXCEPT ![s] = k]
    BY <1>7 DEF Replaced
  <2>4. op'[s] = k
    BY <2>3, <1>3
  <2> HIDE DEF k
  <2>5. Places(s)' /\ Checks(s)'
    BY <1>1, <2>2, <2>4 DEF Places, Checks
  <2>6. k.scanned < Len(lists)
    <3>1. op[s].scanned # Len(lists)
      BY <1>6, <1>7 DEF Listed
    <3>2. /\ Len(lists) \in Nat /\ op[s].scanned \in Nat /\ op[s].gen \in Nat
          /\ op[s].scanned <= op[s].gen /\ op[s].gen <= Len(lists)
      BY <1>2, ListOrder
    <3>3. op[s].scanned < Len(lists)
      BY <3>1, <3>2
    <3> QED
      BY <3>3, <2>2
  <2>7. ~k.many => \A u, v \in k.todo : u = v
    BY <1>4, <2>2 DEF Writes
  <2> QED
    BY <1>1, <1>2, <1>5, <2>1, <2>2, <2>3, <2>5, <2>6, <2>7, QuietStep
<1>8. CASE Listed(Old(s)) /\ rest = {}
  <2> DEFINE k == [op[s] EXCEPT !.pc = "end", !.todo = {}]
  <2>1. k \in Works
    BY <1>3 DEF Works
  <2>2. /\ k.pc = "end" /\ k.stmt = op[s].stmt /\ k.since = op[s].since /\ k.had = op[s].had
        /\ k.scanned = op[s].scanned /\ k.todo = {} /\ k.gen = op[s].gen /\ k.many = op[s].many
        /\ k.wrote = op[s].wrote /\ k.want = op[s].want /\ k.held = op[s].held /\ k.id = op[s].id
    BY <1>3 DEF Works
  <2>3. op' = [op EXCEPT ![s] = k]
    BY <1>8 DEF Replaced
  <2>4. op'[s] = k
    BY <2>3, <1>3
  <2> HIDE DEF k
  <2>5. Places(s)' /\ Checks(s)'
    BY <1>1, <2>2, <2>4 DEF Places, Checks
  <2> QED
    BY <1>1, <1>2, <1>5, <2>1, <2>2, <2>3, <2>5, QuietStep
<1>9. CASE Listed(Old(s)) /\ rest # {}
  <2> DEFINE k == [op[s] EXCEPT !.pc = "check", !.todo = rest, !.gen = Len(lists), !.at = 0]
  <2>1. Len(lists) \in Nat
    BY <1>2, ListOrder
  <2>2. k \in Works
    BY <1>3, <2>1 DEF Works
  <2>3. /\ k.pc = "check" /\ k.stmt = op[s].stmt /\ k.since = op[s].since /\ k.had = op[s].had
        /\ k.scanned = op[s].scanned /\ k.todo = rest /\ k.gen = Len(lists) /\ k.many = op[s].many
        /\ k.wrote = op[s].wrote /\ k.want = op[s].want /\ k.held = op[s].held /\ k.id = op[s].id
        /\ k.at = 0
    BY <1>3 DEF Works
  <2>4. op' = [op EXCEPT ![s] = k]
    BY <1>9 DEF Replaced
  <2>5. op'[s] = k
    BY <2>4, <1>3
  <2> HIDE DEF k
  <2>6. Places(s)'
    BY <1>1, <1>9, <2>3, <2>5 DEF Places
  <2>7. Checks(s)'
    <3>1. \A v \in DOMAIN heap : ~(v <= 0)
      BY <1>3, LenProperties DEF Types
    <3>2. \A v \in Rows : v \in lists[k.gen]
      BY <2>3 DEF Rows
    <3>3. Rows' = Rows
      BY <1>1 DEF Rows
    <3> QED
      BY <2>3, <2>5, <3>1, <3>2, <3>3, <1>1 DEF Checks
  <2>8. k.many
    BY <1>4, <1>6, <1>9, <2>3 DEF Writes
  <2> QED
    BY <1>1, <1>2, <1>5, <2>2, <2>3, <2>4, <2>6, <2>7, <2>8, QuietStep
<1> QED
  BY <1>7, <1>8, <1>9

\* An index raises.
LEMMA IndexRaisesStep ==
  ASSUME TableInv, NEW s \in Sessions, IndexRaises(s)
  PROVE  TableInv'
<1> DEFINE k == [op[s] EXCEPT !.pc = "raised"]
<1>1. /\ op[s].pc = "find"
      /\ UNCHANGED <<heap, lists, mvcc, txn, tableLock, copy>>
  BY DEF IndexRaises, Inside
<1>2. InStatement(s)
  BY <1>1, PcTells DEF TableInv
<1>3. op[s] \in Works /\ Types /\ op \in [Sessions -> {Idle} \cup Copiers \cup Works]
  BY <1>2 DEF InStatement, TableInv, Types
<1>4. Places(s) /\ Writes(s) /\ Locks(s)
  BY <1>2 DEF TableInv, StatementOK
<1>5. op[s].want = {} /\ op[s].stmt.op # "insert"
  BY <1>1, <1>4 DEF Places, Locks
<1>6. k \in Works
  BY <1>3 DEF Works
<1>7. /\ k.pc = "raised" /\ k.stmt = op[s].stmt /\ k.since = op[s].since /\ k.had = op[s].had
      /\ k.scanned = op[s].scanned /\ k.todo = op[s].todo /\ k.gen = op[s].gen /\ k.many = op[s].many
      /\ k.wrote = op[s].wrote /\ k.want = op[s].want /\ k.held = op[s].held /\ k.id = op[s].id
  BY <1>3 DEF Works
<1>8. op' = [op EXCEPT ![s] = k]
  BY <1>3 DEF IndexRaises
<1>9. op'[s] = k
  BY <1>3, <1>8
<1> HIDE DEF k
<1>10. Places(s)' /\ Checks(s)'
  BY <1>1, <1>4, <1>5, <1>7, <1>9 DEF Places, Checks
<1>11. ~k.many => \A u, v \in k.todo : u = v
  BY <1>4, <1>7 DEF Writes
<1> QED
  BY <1>1, <1>2, <1>5, <1>6, <1>7, <1>8, <1>10, <1>11, QuietStep

LEMMA DeletedStep ==
  ASSUME TableInv, NEW s \in Sessions, Deleted(s)
  PROVE  TableInv'
<1>1. /\ op[s].pc = "find" /\ op[s].stmt.op = "delete"
      /\ UNCHANGED <<heap, lists, mvcc, txn, tableLock, copy>>
  BY DEF Deleted, Inside
<1>2. InStatement(s)
  BY <1>1, PcTells DEF TableInv
<1>3. op[s] \in Works /\ Types /\ op \in [Sessions -> {Idle} \cup Copiers \cup Works]
  BY <1>2 DEF InStatement, TableInv, Types
<1>4. Places(s) /\ Writes(s) /\ Locks(s) /\ Scans(s)
  BY <1>2 DEF TableInv, StatementOK
<1>5. Ahead(s) # {} /\ op[s].want = {}
  BY <1>1, <1>4 DEF Places, Locks
<1>6. Look(s) \in Nat /\ (op[s].gen = Len(lists) => Look(s) \in Rows)
  BY <1>2, <1>5, LookIsNext
<1>7. CASE Listed(Look(s))
  <2> DEFINE k == [op[s] EXCEPT !.pc = "delete", !.at = Look(s)]
  <2>1. k \in Works
    BY <1>3, <1>6 DEF Works
  <2>2. /\ k.pc = "delete" /\ k.stmt = op[s].stmt /\ k.since = op[s].since /\ k.had = op[s].had
        /\ k.scanned = op[s].scanned /\ k.todo = op[s].todo /\ k.gen = op[s].gen /\ k.many = op[s].many
        /\ k.wrote = op[s].wrote /\ k.want = op[s].want /\ k.held = op[s].held /\ k.id = op[s].id
    BY <1>3 DEF Works
  <2>3. op' = [op EXCEPT ![s] = k]
    BY <1>7 DEF Deleted
  <2>4. op'[s] = k
    BY <2>3, <1>3
  <2> HIDE DEF k
  <2>5. Places(s)' /\ Checks(s)'
    BY <1>1, <2>2, <2>4 DEF Places, Checks
  <2>6. ~k.many => \A u, v \in k.todo : u = v
    BY <1>4, <2>2 DEF Writes
  <2> QED
    BY <1>1, <1>2, <1>5, <2>1, <2>2, <2>3, <2>5, <2>6, QuietStep
<1>8. CASE ~Listed(Look(s))
  <2> DEFINE k == [op[s] EXCEPT !.pc = "failed"]
  <2>1. k \in Works
    BY <1>3 DEF Works
  <2>2. /\ k.pc = "failed" /\ k.stmt = op[s].stmt /\ k.since = op[s].since /\ k.had = op[s].had
        /\ k.scanned = op[s].scanned /\ k.todo = op[s].todo /\ k.gen = op[s].gen /\ k.many = op[s].many
        /\ k.wrote = op[s].wrote /\ k.want = op[s].want /\ k.held = op[s].held /\ k.id = op[s].id
    BY <1>3 DEF Works
  <2>3. op' = [op EXCEPT ![s] = k]
    BY <1>8 DEF Deleted
  <2>4. op'[s] = k
    BY <2>3, <1>3
  <2> HIDE DEF k
  <2>5. Places(s)' /\ Checks(s)'
    BY <1>1, <2>2, <2>4 DEF Places, Checks
  <2>6. k.scanned < Len(lists)
    <3>1. op[s].gen # Len(lists)
      BY <1>6, <1>8 DEF Listed
    <3>2. /\ Len(lists) \in Nat /\ op[s].scanned \in Nat /\ op[s].gen \in Nat
          /\ op[s].scanned <= op[s].gen /\ op[s].gen <= Len(lists)
      BY <1>2, ListOrder
    <3>3. op[s].scanned < Len(lists)
      BY <3>1, <3>2
    <3> QED
      BY <3>3, <2>2
  <2>7. ~k.many => \A u, v \in k.todo : u = v
    BY <1>4, <2>2 DEF Writes
  <2> QED
    BY <1>1, <1>2, <1>5, <2>1, <2>2, <2>3, <2>5, <2>6, <2>7, QuietStep
<1> QED
  BY <1>7, <1>8

-----------------------------------------------------------------------------
\* A step of a statement that writes.
LEMMA WriteKeeps ==
  ASSUME TableInv, NEW s \in Sessions, NEW k \in Works, InStatement(s), op' = [op EXCEPT ![s] = k],
         Grows, Len(lists') = Len(lists), UNCHANGED <<mvcc, txn, tableLock, copy>>,
         \A v \in DOMAIN heap : heap[v].xmax # NotDeleted => heap'[v].xmax # NotDeleted,
         \A v \in DOMAIN heap' \ DOMAIN heap : v \in Rows' /\ heap'[v].underCopy = (copy # Nil),
         \A t \in Sessions \ {s} : LockKept(t),
         k.held = op[s].held, PairInv', StatementOK(s)'
  PROVE  TableInv'
<1>1. /\ Types /\ HeldApart /\ op \in [Sessions -> {Idle} \cup Copiers \cup Works]
      /\ \A t \in Sessions : StatementOK(t)
  BY DEF TableInv, Types
<1>2. op'[s] = k /\ \A t \in Sessions \ {s} : op'[t] = op[t]
  BY <1>1
<1>3. Types'
  <2>1. op' \in [Sessions -> {Idle} \cup Copiers \cup Works]
    BY <1>1
  <2>2. lists' # <<>>
    <3>1. Len(lists) # 0
      BY <1>1, EmptySeq DEF Types
    <3> QED
      BY <3>1, <1>1, EmptySeq
  <2> QED
    BY <1>1, <2>1, <2>2 DEF Types, Grows, HeapGrows, ListsGrow
<1>4. IdInv' /\ CopyInv' /\ LostInv'
  BY InsideKeeps
<1>5. HeldApart'
  BY <1>1, <1>2 DEF HeldApart, InStatement
<1>6. \A t \in Sessions : StatementOK(t)'
  <2> TAKE t \in Sessions
  <2>1. CASE t = s
    BY <2>1
  <2>2. CASE t # s
    <3>1. op'[t] = op[t] /\ StatementOK(t) /\ LockKept(t)
      BY <1>1, <1>2, <2>2
    <3> QED
      BY <3>1, <1>1, OthersKeep
  <2> QED
    BY <2>1, <2>2
<1> QED
  BY <1>3, <1>4, <1>5, <1>6 DEF TableInv

\* A deletion stamp is put on a version.
LEMMA MarkStep ==
  ASSUME TableInv, NEW s \in Sessions, NEW k \in Works, InStatement(s), op' = [op EXCEPT ![s] = k],
         NEW v \in DOMAIN heap, heap' = [heap EXCEPT ![v] = StampDelete(heap[v], op[s].id)],
         UNCHANGED <<lists, mvcc, txn, tableLock, copy>>,
         k.stmt = op[s].stmt, k.since = op[s].since, k.had = op[s].had, k.id = op[s].id,
         k.scanned = op[s].scanned, k.held = op[s].held, k.gen = op[s].gen, k.todo = op[s].todo,
         k.many = op[s].many, k.want = {}, op[s].want = {}, k.pc \in {"append", "find"},
         k.stmt.op # "insert", Places(s)', Checks(s)'
  PROVE  TableInv'
<1>1. /\ Types /\ PairInv /\ op \in [Sessions -> {Idle} \cup Copiers \cup Works] /\ Writes(s)
      /\ heap \in Seq(Versions) /\ op[s] \in Works
  BY DEF TableInv, Types, StatementOK, InStatement
<1>2. op'[s] = k
  BY <1>1
<1>3. /\ heap[v] \in Versions /\ op[s].id \in Nat \ {0}
  BY <1>1, ElementOfSeq, LenProperties DEF Works
<1>4. /\ StampDelete(heap[v], op[s].id) \in Versions
      /\ StampDelete(heap[v], op[s].id).key = heap[v].key
      /\ StampDelete(heap[v], op[s].id).xmin = heap[v].xmin
      /\ StampDelete(heap[v], op[s].id).by = heap[v].by
      /\ StampDelete(heap[v], op[s].id).since = heap[v].since
      /\ StampDelete(heap[v], op[s].id).underCopy = heap[v].underCopy
      /\ StampDelete(heap[v], op[s].id).restored = heap[v].restored
      /\ StampDelete(heap[v], op[s].id).xmax # NotDeleted
  BY <1>3 DEF StampDelete, Versions, NotDeleted
<1> DEFINE row == StampDelete(heap[v], op[s].id)
<1> HIDE DEF row
<1>5. heap' = [heap EXCEPT ![v] = row] /\ row \in Versions
  BY <1>4 DEF row
<1>6. heap' \in Seq(Versions) /\ Len(heap') = Len(heap) /\ DOMAIN heap' = DOMAIN heap
  <2>1. heap \in [1 .. Len(heap) -> Versions] /\ Len(heap) \in Nat /\ DOMAIN heap = 1 .. Len(heap)
    BY <1>1, LenProperties
  <2>2. heap' \in [1 .. Len(heap) -> Versions]
    BY <1>5, <2>1
  <2>3. heap' \in Seq(Versions) /\ Len(heap') = Len(heap)
    BY <2>1, <2>2, IsASeq, LenProperties
  <2> QED
    BY <2>1, <2>2, <2>3
<1>7. \A u \in DOMAIN heap : heap'[u] = IF u = v THEN row ELSE heap[u]
  BY <1>5
<1>8. HeapGrows
  BY <1>4, <1>6, <1>7, LenProperties, <1>1 DEF HeapGrows, row
<1>9. ListsGrow
  BY <1>1, <1>6 DEF Types, ListsGrow, Rows
<1>10. Grows
  BY <1>8, <1>9 DEF Grows
<1>11. PairInv'
  BY <1>1, <1>6, <1>10, PairStays
<1>12. \A u \in DOMAIN heap : heap[u].xmax # NotDeleted => heap'[u].xmax # NotDeleted
  BY <1>4, <1>7 DEF row
<1>13. Scans(s)' /\ Locks(s)' /\ Inserts(s)'
  BY <1>2, <1>10, GoesOn
<1>14. Writes(s)'
  BY <1>1, <1>2 DEF Writes
<1>15. StatementOK(s)'
  BY <1>13, <1>14 DEF StatementOK
<1>16. \A t \in Sessions \ {s} : LockKept(t)
  BY <1>6 DEF LockKept
<1> QED
  BY <1>6, <1>10, <1>11, <1>12, <1>15, <1>16, WriteKeeps

LEMMA StampStep ==
  ASSUME TableInv, NEW s \in Sessions, Stamp(s)
  PROVE  TableInv'
<1> DEFINE k == [op[s] EXCEPT !.pc = "append", !.wrote = TRUE]
<1>1. op[s].pc = "stamp" /\ UNCHANGED <<lists, mvcc, txn, tableLock, copy>>
  BY DEF Stamp, Inside
<1>2. InStatement(s)
  BY <1>1, PcTells DEF TableInv
<1>3. op[s] \in Works /\ Types /\ op \in [Sessions -> {Idle} \cup Copiers \cup Works]
  BY <1>2 DEF InStatement, TableInv, Types
<1>4. Places(s) /\ Checks(s) /\ Locks(s)
  BY <1>2 DEF TableInv, StatementOK
<1>5. op[s].stmt.op = "update"
  BY <1>1, <1>3, <1>4 DEF Places, Works, Statements
<1>6. op[s].todo # {} /\ op[s].want = {}
  BY <1>1, <1>4, <1>5 DEF Places, Locks
<1>7. Old(s) \in DOMAIN heap
  BY <1>2, <1>6, OldIsThere
<1>8. k \in Works
  BY <1>3 DEF Works
<1>9. /\ k.pc = "append" /\ k.stmt = op[s].stmt /\ k.since = op[s].since /\ k.had = op[s].had
      /\ k.scanned = op[s].scanned /\ k.todo = op[s].todo /\ k.gen = op[s].gen /\ k.many = op[s].many
      /\ k.want = op[s].want /\ k.held = op[s].held /\ k.id = op[s].id
  BY <1>3 DEF Works
<1>10. op' = [op EXCEPT ![s] = k] /\ heap' = [heap EXCEPT ![Old(s)] = StampDelete(heap[Old(s)], op[s].id)]
  BY <1>3 DEF Stamp
<1>11. op'[s] = k
  BY <1>3, <1>10
<1> HIDE DEF k
<1>12. Places(s)'
  BY <1>5, <1>6, <1>9, <1>11 DEF Places
<1>13. Checks(s)'
  <2>1. /\ DOMAIN heap' = DOMAIN heap
        /\ \A v \in DOMAIN heap : heap'[v] = IF v = Old(s) THEN StampDelete(heap[v], op[s].id) ELSE heap[v]
    BY <1>3, <1>10 DEF Types
  <2>2. op[s].id # 0
    BY <1>3 DEF Works
  <2>3. heap[Old(s)] \in Versions
    BY <1>3, <1>7, ElementOfSeq, LenProperties DEF Types
  <2>4. StampDelete(heap[Old(s)], op[s].id).xmax # NotDeleted
    BY <2>2, <2>3 DEF StampDelete, NotDeleted, Versions
  <2> SUFFICES ASSUME NEW v \in DOMAIN heap, v <= op[s].since, v \in Rows
               PROVE  v \in lists[op[s].gen] /\ Passed(s, v)'
    BY <1>1, <1>5, <1>9, <1>11, <2>1 DEF Checks, Rows
  <2>5. v \in lists[op[s].gen] /\ Passed(s, v)
    BY <1>1, <1>4, <1>5 DEF Checks
  <2>6. CASE v = Old(s)
    <3>1. heap'[v].xmax # NotDeleted
      BY <2>1, <2>4, <2>6
    <3> QED
      BY <2>5, <3>1 DEF Passed, Harmless
  <2>7. CASE v # Old(s)
    <3>1. heap'[v] = heap[v]
      BY <2>1, <2>7
    <3>2. heap[v].key # op[s].stmt.new \/ Harmless(v, op[s].id)
      BY <2>5, <2>7 DEF Passed
    <3> QED
      BY <2>5, <3>1, <3>2, <1>1, <1>9, <1>11 DEF Passed, Harmless
  <2> QED
    BY <2>6, <2>7
<1> QED
  BY <1>1, <1>2, <1>5, <1>6, <1>7, <1>8, <1>9, <1>10, <1>12, <1>13, MarkStep

LEMMA DeleteRowStep ==
  ASSUME TableInv, NEW s \in Sessions, DeleteRow(s)
  PROVE  TableInv'
<1>1. op[s].pc = "delete" /\ UNCHANGED <<lists, mvcc, txn, tableLock, copy>>
  BY DEF DeleteRow, Inside
<1>2. InStatement(s)
  BY <1>1, PcTells DEF TableInv
<1>3. op[s] \in Works /\ Types /\ op \in [Sessions -> {Idle} \cup Copiers \cup Works]
  BY <1>2 DEF InStatement, TableInv, Types
<1>4. Places(s) /\ Writes(s) /\ Locks(s)
  BY <1>2 DEF TableInv, StatementOK
<1>5. op[s].stmt.op = "delete" /\ op[s].want = {}
  BY <1>1, <1>3, <1>4 DEF Places, Locks, Works, Statements
<1> DEFINE target == IsTarget(Look(s), op[s].id, op[s].snap, op[s].stmt.where)
<1>6. CASE Ahead(s) = {}
  <2> DEFINE k == [op[s] EXCEPT !.pc = "end"]
  <2>1. k \in Works
    BY <1>3 DEF Works
  <2>2. /\ k.pc = "end" /\ k.stmt = op[s].stmt /\ k.since = op[s].since /\ k.had = op[s].had
        /\ k.scanned = op[s].scanned /\ k.todo = op[s].todo /\ k.gen = op[s].gen /\ k.many = op[s].many
        /\ k.wrote = op[s].wrote /\ k.want = op[s].want /\ k.held = op[s].held /\ k.id = op[s].id
    BY <1>3 DEF Works
  <2>3. op' = [op EXCEPT ![s] = k] /\ UNCHANGED heap
    BY <1>3, <1>6 DEF DeleteRow
  <2>4. op'[s] = k
    BY <2>3, <1>3
  <2> HIDE DEF k
  <2>5. Places(s)' /\ Checks(s)'
    BY <1>5, <2>2, <2>4 DEF Places, Checks
  <2>6. ~k.many => \A u, v \in k.todo : u = v
    BY <1>4, <2>2 DEF Writes
  <2> QED
    BY <1>1, <1>2, <1>5, <2>1, <2>2, <2>3, <2>5, <2>6, QuietStep
<1>7. CASE Ahead(s) # {} /\ ~target
  <2> DEFINE k == [op[s] EXCEPT !.at = Look(s)]
  <2>1. Look(s) \in Nat
    BY <1>2, <1>7, LookIsNext
  <2>2. k \in Works
    BY <1>3, <2>1 DEF Works
  <2>3. /\ k.pc = "delete" /\ k.stmt = op[s].stmt /\ k.since = op[s].since /\ k.had = op[s].had
        /\ k.scanned = op[s].scanned /\ k.todo = op[s].todo /\ k.gen = op[s].gen /\ k.many = op[s].many
        /\ k.wrote = op[s].wrote /\ k.want = op[s].want /\ k.held = op[s].held /\ k.id = op[s].id
    BY <1>1, <1>3 DEF Works
  <2>4. op' = [op EXCEPT ![s] = k] /\ UNCHANGED heap
    BY <1>3, <1>7 DEF DeleteRow
  <2>5. op'[s] = k
    BY <2>4, <1>3
  <2> HIDE DEF k
  <2>6. Places(s)' /\ Checks(s)'
    BY <1>5, <2>3, <2>5 DEF Places, Checks
  <2>7. ~k.many => \A u, v \in k.todo : u = v
    BY <1>4, <2>3 DEF Writes
  <2> QED
    BY <1>1, <1>2, <1>5, <2>2, <2>3, <2>4, <2>6, <2>7, QuietStep
<1>8. CASE Ahead(s) # {} /\ target
  <2> DEFINE k == [op[s] EXCEPT !.pc = "find", !.wrote = TRUE]
  <2>1. Look(s) \in DOMAIN heap
    BY <1>2, <1>8, LookIsNext
  <2>2. k \in Works
    BY <1>3 DEF Works
  <2>3. /\ k.pc = "find" /\ k.stmt = op[s].stmt /\ k.since = op[s].since /\ k.had = op[s].had
        /\ k.scanned = op[s].scanned /\ k.todo = op[s].todo /\ k.gen = op[s].gen /\ k.many = op[s].many
        /\ k.want = op[s].want /\ k.held = op[s].held /\ k.id = op[s].id /\ k.at = op[s].at
    BY <1>3 DEF Works
  <2>4. /\ op' = [op EXCEPT ![s] = k]
        /\ heap' = [heap EXCEPT ![Look(s)] = StampDelete(heap[Look(s)], op[s].id)]
    BY <1>3, <1>8 DEF DeleteRow
  <2>5. op'[s] = k
    BY <2>4, <1>3
  <2> HIDE DEF k
  <2>6. Ahead(s)' = Ahead(s)
    BY <1>1, <2>3, <2>5 DEF Ahead
  <2>7. Places(s)' /\ Checks(s)'
    BY <1>5, <1>8, <2>3, <2>5, <2>6 DEF Places, Checks
  <2> QED
    BY <1>1, <1>2, <1>5, <2>1, <2>2, <2>3, <2>4, <2>7, MarkStep
<1> QED
  BY <1>6, <1>7, <1>8

\* The new row.  What the check has found of the rows before it is what is known of
\* the pairs it makes with them; the table's lock accounts for the rows since then.
LEMMA AppendRowStep ==
  ASSUME TableInv, NEW s \in Sessions, AppendRow(s)
  PROVE  TableInv'
<1> DEFINE o == op[s]
<1> DEFINE new == Len(heap) + 1
<1> DEFINE row == Version(StampInsert(o.stmt.new, o.id), o.stmt.op, o.since, copy # Nil)
<1>0. PICK pc \in IF o.stmt.op = "insert" THEN {"end", "raised"} ELSE {"find"} :
        op' = [op EXCEPT ![s].pc = pc, ![s].wrote = TRUE]
  BY DEF AppendRow
<1> DEFINE k == [op[s] EXCEPT !.pc = pc, !.wrote = TRUE]
<1>1. o.pc = "append" /\ UNCHANGED <<mvcc, txn, tableLock, copy>>
  BY DEF AppendRow, Inside
<1>2. InStatement(s)
  BY <1>1, PcTells DEF TableInv
<1>3. o \in Works /\ Types /\ op \in [Sessions -> {Idle} \cup Copiers \cup Works]
  BY <1>2 DEF InStatement, TableInv, Types
<1>4. Places(s) /\ Writes(s) /\ Checks(s) /\ Locks(s) /\ Inserts(s) /\ Scans(s)
  BY <1>2 DEF TableInv, StatementOK
<1>5. o.stmt.op \in {"insert", "update"} /\ o.want = {}
  BY <1>1, <1>3, <1>4 DEF Places, Locks, Works, Statements
<1>6. k \in Works
  BY <1>0, <1>3 DEF Works
<1>7. /\ k.pc \in (IF o.stmt.op = "insert" THEN {"end", "raised"} ELSE {"find"}) /\ k.wrote = TRUE
      /\ k.stmt = o.stmt /\ k.since = o.since /\ k.had = o.had
      /\ k.scanned = o.scanned /\ k.todo = o.todo /\ k.gen = o.gen /\ k.many = o.many
      /\ k.want = o.want /\ k.held = o.held /\ k.id = o.id
  BY <1>0, <1>3 DEF Works
<1>8. op' = [op EXCEPT ![s] = k]
  BY <1>0, <1>3
<1>9. op'[s] = k
  BY <1>3, <1>8
<1>10. heap' = Append(heap, row) /\ lists' = [lists EXCEPT ![Len(lists)] = @ \cup {new}]
  BY DEF AppendRow
<1>11. /\ row \in Versions /\ row.key = o.stmt.new /\ row.xmin = o.id /\ row.by = o.stmt.op
       /\ row.since = o.since /\ row.underCopy = (copy # Nil)
  <2>1. /\ o.stmt.new \in Keys /\ o.id \in Nat /\ o.since \in Nat /\ o.stmt.op \in {"insert", "update"}
    BY <1>3, <1>5 DEF Works, Statements
  <2> QED
    BY <2>1 DEF Version, StampInsert, Versions, NotDeleted
<1> HIDE DEF k, row
<1>12. /\ Len(heap) \in Nat /\ DOMAIN heap = 1 .. Len(heap)
       /\ heap' \in Seq(Versions) /\ Len(heap') = new /\ DOMAIN heap' = 1 .. new
       /\ heap'[new] = row /\ \A v \in 1 .. Len(heap) : heap'[v] = heap[v]
  BY <1>3, <1>10, <1>11, AppendProperties, LenProperties DEF Types
<1>13. new \in Nat /\ new \notin DOMAIN heap /\ DOMAIN heap' = DOMAIN heap \cup {new} /\ Len(heap) <= new
  <2>1. new \in Nat /\ new \notin 1 .. Len(heap) /\ 1 .. new = (1 .. Len(heap)) \cup {new} /\ Len(heap) <= new
    BY <1>12
  <2> QED
    BY <2>1, <1>12
<1> HIDE DEF new
<1>14. HeapGrows
  BY <1>12, <1>13 DEF HeapGrows
<1>15. /\ Len(lists) \in Nat /\ DOMAIN lists = 1 .. Len(lists) /\ Len(lists) \in DOMAIN lists
       /\ lists \in [1 .. Len(lists) -> SUBSET Nat]
  BY <1>3, LenProperties, EmptySeq DEF Types
<1>16. lists' \in Seq(SUBSET Nat) /\ Len(lists') = Len(lists) /\ DOMAIN lists' = DOMAIN lists
  <2>1. lists' \in [1 .. Len(lists) -> SUBSET Nat]
    BY <1>10, <1>13, <1>15
  <2> QED
    BY <2>1, <1>15, IsASeq, LenProperties
<1>17. /\ \A g \in DOMAIN lists : lists'[g] = IF g = Len(lists) THEN Rows \cup {new} ELSE lists[g]
       /\ Rows' = Rows \cup {new}
  BY <1>10, <1>15, <1>16 DEF Rows
<1>18. Rows \subseteq DOMAIN heap /\ \A g \in DOMAIN lists : lists[g] \subseteq DOMAIN heap
  BY <1>3, <1>15 DEF Types, Rows
<1>19. ListsGrow
  <2>1. \A g \in DOMAIN lists' : lists'[g] \subseteq DOMAIN heap'
    BY <1>13, <1>16, <1>17, <1>18
  <2>2. \A g \in DOMAIN lists : lists[g] \subseteq lists'[g] /\ lists'[g] \cap DOMAIN heap \subseteq lists[g]
    BY <1>13, <1>17 DEF Rows
  <2>3. Len(lists) <= Len(lists')
    BY <1>15, <1>16
  <2> QED
    BY <1>13, <1>16, <1>17, <2>1, <2>2, <2>3 DEF ListsGrow
<1>20. Grows
  BY <1>1, <1>14, <1>19 DEF Grows
<1>21. \A v \in DOMAIN heap : heap'[v] = heap[v]
  BY <1>12
<1>22. \A t \in Sessions \ {s} : LockKept(t)
  <2> SUFFICES ASSUME NEW t \in Sessions \ {s}, tableLock = t
               PROVE  \A v \in DOMAIN heap' \ DOMAIN heap : heap'[v].by = "update"
    BY <1>1 DEF LockKept
  <2>1. o.stmt.op = "update"
    BY <1>4, <1>5 DEF Inserts
  <2> QED
    BY <2>1, <1>11, <1>12, <1>13
<1>23. PairInv'
  <2> SUFFICES ASSUME NEW u \in DOMAIN heap', NEW v \in DOMAIN heap', u < v
               PROVE  /\ heap'[v].by = "insert" /\ u > heap'[v].since => heap'[u].by = "update"
                      /\ heap'[u].key = heap'[v].key /\ u \in Rows' /\ (u <= heap'[v].since \/ heap'[v].by = "load") =>
                           \/ heap'[u].xmin = heap'[v].xmin \/ heap'[u].xmax # NotDeleted
                           \/ heap'[u].restored \/ heap'[u].xmin \in mvcc'.aborted
    BY DEF PairInv, Harmless
  <2>1. u \in DOMAIN heap
    <3>1. u \in 1 .. new /\ v \in 1 .. new /\ new \in Nat
      BY <1>12, <1>13
    <3>2. u # new
      BY <3>1
    <3> QED
      BY <3>2, <1>13
  <2>2. heap'[u] = heap[u] /\ (u \in Rows' => u \in Rows)
    BY <2>1, <1>13, <1>17, <1>21
  <2>3. CASE v \in DOMAIN heap
    <3>1. heap'[v] = heap[v]
      BY <2>3, <1>21
    <3>2. PairInv
      BY DEF TableInv
    <3> QED
      BY <2>1, <2>2, <2>3, <3>1, <3>2, <1>1 DEF PairInv, Harmless
  <2>4. CASE v = new
    <3>1. heap'[v] = row
      BY <2>4, <1>12
    <3>2. row.by = "insert" /\ u > row.since => heap[u].by = "update"
      BY <2>1, <1>1, <1>4, <1>11 DEF Inserts
    <3>3. ASSUME heap[u].key = row.key, u \in Rows, u <= row.since
          PROVE  Harmless(u, o.id)
      <4>1. Passed(s, u)
        BY <3>3, <2>1, <1>1, <1>4, <1>5, <1>11 DEF Checks
      <4> QED
        BY <4>1, <3>3, <1>1, <1>11 DEF Passed
    <3> QED
      BY <3>1, <3>2, <3>3, <2>2, <1>1, <1>5, <1>11 DEF Harmless
  <2> QED
    BY <2>3, <2>4, <1>13
<1>24. Scans(s)' /\ Locks(s)' /\ Inserts(s)'
  BY <1>1, <1>2, <1>5, <1>6, <1>7, <1>9, <1>16, <1>20, GoesOn
<1>25. Writes(s)'
  BY <1>4, <1>7, <1>9, <1>5 DEF Writes
<1>26. Places(s)' /\ Checks(s)'
  BY <1>1, <1>4, <1>5, <1>7, <1>9 DEF Places, Checks
<1>27. StatementOK(s)'
  BY <1>24, <1>25, <1>26 DEF StatementOK
<1>28. \A v \in DOMAIN heap' \ DOMAIN heap : v \in Rows' /\ heap'[v].underCopy = (copy # Nil)
  BY <1>11, <1>12, <1>13, <1>17
<1> QED
  BY <1>1, <1>2, <1>6, <1>7, <1>8, <1>16, <1>20, <1>21, <1>22, <1>23, <1>27, <1>28, WriteKeeps

-----------------------------------------------------------------------------
(***************************************************************************)
(* The steps outside statements.                                           *)
(***************************************************************************)
\* They leave the statements of the other sessions alone.
LEMMA OutsideKeeps ==
  ASSUME TableInv, NEW s \in Sessions, NEW k \in {Idle} \cup Copiers, op' = [op EXCEPT ![s] = k],
         Grows, \A t \in Sessions \ {s} : LockKept(t)
  PROVE  /\ HeldApart' /\ \A t \in Sessions : StatementOK(t)'
         /\ op' \in [Sessions -> {Idle} \cup Copiers \cup Works]
<1>1. /\ Types /\ HeldApart /\ op \in [Sessions -> {Idle} \cup Copiers \cup Works]
      /\ \A t \in Sessions : StatementOK(t)
  BY DEF TableInv, Types
<1>2. op'[s] = k /\ \A t \in Sessions \ {s} : op'[t] = op[t]
  BY <1>1
<1>3. k \notin Works
  BY DEF Works, Idle, Copiers
<1>4. ~InStatement(s)'
  BY <1>2, <1>3 DEF InStatement
<1>5. HeldApart'
  BY <1>1, <1>2, <1>4 DEF HeldApart, InStatement
<1>6. \A t \in Sessions : StatementOK(t)'
  <2> TAKE t \in Sessions
  <2>1. CASE t = s
    BY <2>1, <1>4 DEF StatementOK
  <2>2. CASE t # s
    <3>1. op'[t] = op[t] /\ StatementOK(t) /\ LockKept(t)
      BY <1>1, <1>2, <2>2
    <3> QED
      BY <3>1, <1>1, OthersKeep
  <2> QED
    BY <2>1, <2>2
<1>7. op' \in [Sessions -> {Idle} \cup Copiers \cup Works]
  BY <1>1
<1> QED
  BY <1>5, <1>6, <1>7

\* Steps that touch neither the table nor a copy.
LEMMA TableStays ==
  ASSUME TableInv, UNCHANGED <<heap, lists, copy>>, mvcc.aborted \subseteq mvcc'.aborted,
         \A t \in Sessions : (Copying(t)' <=> Copying(t)) /\ (Put(t)' <=> Put(t)),
         \A t \in Sessions : Copying(t) \/ Put(t) => txn'[t] = txn[t]
  PROVE  Grows /\ PairInv' /\ CopyInv' /\ LostInv'
<1>1. Types /\ PairInv /\ CopyInv /\ LostInv
  BY DEF TableInv
<1>2. Grows
  BY <1>1, QuietGrows
<1>3. PairInv'
  BY <1>1, <1>2, PairStays
<1>4. CopyInv'
  <2>1. Rows' = Rows
    BY DEF Rows
  <2> QED
    BY <1>1, <2>1 DEF CopyInv
<1>5. LostInv'
  <2>1. Rows' = Rows
    BY DEF Rows
  <2> SUFFICES ASSUME NEW v \in DOMAIN heap, v \notin Rows
               PROVE  \/ heap[v].underCopy
                      \/ heap[v].xmax # NotDeleted
                      \/ heap[v].xmin \in mvcc'.aborted
                      \/ \E t \in Sessions : Put(t)' /\ txn'[t].id = heap[v].xmin
    BY <2>1 DEF LostInv
  <2>2. \/ heap[v].underCopy
        \/ heap[v].xmax # NotDeleted
        \/ heap[v].xmin \in mvcc.aborted
        \/ \E t \in Sessions : Put(t) /\ txn[t].id = heap[v].xmin
    BY <1>1 DEF LostInv
  <2>3. CASE \E t \in Sessions : Put(t) /\ txn[t].id = heap[v].xmin
    <3>1. PICK t \in Sessions : Put(t) /\ txn[t].id = heap[v].xmin
      BY <2>3
    <3>2. Put(t)' /\ txn'[t].id = heap[v].xmin
      BY <3>1
    <3> QED
      BY <3>2
  <2> QED
    BY <2>2, <2>3
<1> QED
  BY <1>2, <1>3, <1>4, <1>5

LEMMA FinishStep ==
  ASSUME TableInv, NEW s \in Sessions, Finish(s)
  PROVE  TableInv'
<1>1. /\ op[s].pc \in {"end", "failed", "raised"} /\ op' = [op EXCEPT ![s] = Idle]
      /\ tableLock' = (IF tableLock = s THEN Nil ELSE tableLock)
      /\ UNCHANGED <<heap, lists, mvcc, txn, copy>>
  BY DEF Finish
<1>2. Types /\ op \in [Sessions -> {Idle} \cup Copiers \cup Works] /\ IdInv
  BY DEF TableInv, Types
<1>3. op'[s] = Idle /\ \A t \in Sessions \ {s} : op'[t] = op[t]
  BY <1>1, <1>2
<1>4. \A t \in Sessions : (Copying(t)' <=> Copying(t)) /\ (Put(t)' <=> Put(t))
  BY <1>1, <1>3 DEF Copying, Put, Idle
<1>5. Grows /\ PairInv' /\ CopyInv' /\ LostInv'
  BY <1>1, <1>4, TableStays
<1>6. \A t \in Sessions \ {s} : LockKept(t)
  BY <1>1 DEF LockKept
<1>7. /\ HeldApart' /\ \A t \in Sessions : StatementOK(t)'
      /\ op' \in [Sessions -> {Idle} \cup Copiers \cup Works]
  BY <1>1, <1>5, <1>6, OutsideKeeps
<1>8. Types'
  BY <1>1, <1>2, <1>7 DEF Types
<1>9. IdInv'
  BY <1>1, <1>2 DEF IdInv
<1> QED
  BY <1>5, <1>7, <1>8, <1>9 DEF TableInv

\* A snapshot.
LEMMA SnapshotType ==
  ASSUME NEW m \in Managers
  PROVE  SnapshotOf(m) \in Snapshots
<1>1. m.next - 1 \in Nat /\ m.active \in SUBSET Nat /\ m.committed \in SUBSET Nat
  BY DEF Managers
<1> QED
  BY <1>1 DEF SnapshotOf, Snapshots

LEMMA BeginStep ==
  ASSUME TableInv, NEW s \in Sessions, Begin(s)
  PROVE  TableInv'
<1> DEFINE n == mvcc.next
<1> DEFINE m == [mvcc EXCEPT !.next = @ + 1, !.active = @ \cup {mvcc.next}]
<1> DEFINE x == [id |-> n, snap |-> SnapshotOf(m)]
<1>1. /\ op[s] = Idle /\ txn[s] = NoTxn /\ mvcc' = m /\ txn' = [txn EXCEPT ![s] = x]
      /\ UNCHANGED <<heap, lists, op, tableLock, copy>>
  BY DEF Begin
<1>2. /\ Types /\ IdInv /\ op \in [Sessions -> {Idle} \cup Copiers \cup Works] /\ mvcc \in Managers
      /\ txn \in [Sessions -> {NoTxn} \cup [id : Nat \ {0}, snap : Snapshots]]
  BY DEF TableInv, Types
<1>3. n \in Nat \ {0}
  BY <1>2 DEF Managers
<1>4. /\ m \in Managers /\ m.next = n + 1 /\ m.committed = mvcc.committed /\ m.aborted = mvcc.aborted
  <2>1. n + 1 \in Nat \ {0} /\ mvcc.active \cup {n} \in SUBSET Nat
    BY <1>2, <1>3 DEF Managers
  <2> QED
    BY <1>2, <2>1 DEF Managers
<1> HIDE DEF m
<1>5. x \in [id : Nat \ {0}, snap : Snapshots] /\ x.id = n /\ x # NoTxn
  <2>1. x \in [id : Nat \ {0}, snap : Snapshots] /\ x.id = n
    BY <1>3, <1>4, SnapshotType
  <2> QED
    BY <2>1 DEF NoTxn
<1> HIDE DEF x
<1>6. txn'[s] = x /\ \A t \in Sessions \ {s} : txn'[t] = txn[t]
  BY <1>1, <1>2
<1>7. ~Copying(s) /\ ~Put(s)
  BY <1>1 DEF Copying, Put, Idle
<1>8. Grows /\ PairInv' /\ CopyInv' /\ LostInv'
  <2>1. \A t \in Sessions : (Copying(t)' <=> Copying(t)) /\ (Put(t)' <=> Put(t))
    BY <1>1 DEF Copying, Put
  <2>2. \A t \in Sessions : Copying(t) \/ Put(t) => txn'[t] = txn[t]
    BY <1>6, <1>7
  <2>3. mvcc.aborted \subseteq mvcc'.aborted
    BY <1>1, <1>4
  <2> QED
    BY <1>1, <2>1, <2>2, <2>3, TableStays
<1>9. /\ HeldApart' /\ \A t \in Sessions : StatementOK(t)'
      /\ op' \in [Sessions -> {Idle} \cup Copiers \cup Works]
  <2>1. \A t \in Sessions \ {s} : LockKept(t)
    BY <1>1 DEF LockKept
  <2>2. op' = [op EXCEPT ![s] = Idle]
    BY <1>1, <1>2
  <2> QED
    BY <1>8, <2>1, <2>2, OutsideKeeps
<1>10. Types'
  <2>1. txn' \in [Sessions -> {NoTxn} \cup [id : Nat \ {0}, snap : Snapshots]]
    BY <1>1, <1>2, <1>5
  <2> QED
    BY <1>1, <1>2, <1>4, <1>9, <2>1 DEF Types
<1>11. IdInv'
  <2>1. \A i \in mvcc.committed \cup mvcc.aborted : i < n + 1 /\ i # n
    <3> TAKE i \in mvcc.committed \cup mvcc.aborted
    <3>1. i \in Nat /\ i < n
      BY <1>2 DEF IdInv, Managers
    <3> QED
      BY <3>1, <1>3
  <2>2. \A t \in Sessions : txn[t] # NoTxn => txn[t].id < n + 1 /\ txn[t].id # n
    <3> SUFFICES ASSUME NEW t \in Sessions, txn[t] # NoTxn PROVE txn[t].id < n + 1 /\ txn[t].id # n
      OBVIOUS
    <3>1. txn[t].id \in Nat /\ txn[t].id < n
      BY <1>2 DEF IdInv
    <3> QED
      BY <3>1, <1>3
  <2>3. n < n + 1 /\ n \notin mvcc.committed \cup mvcc.aborted
    BY <1>3, <2>1
  <2>4. \A t \in Sessions : txn'[t] # NoTxn =>
          txn'[t].id < n + 1 /\ txn'[t].id \notin mvcc.committed \cup mvcc.aborted
    BY <1>2, <1>5, <1>6, <2>2, <2>3 DEF IdInv
  <2>5. \A t, r \in Sessions : t # r /\ txn'[t] # NoTxn => txn'[t].id # txn'[r].id
    <3> SUFFICES ASSUME NEW t \in Sessions, NEW r \in Sessions, t # r, txn'[t] # NoTxn
                 PROVE  txn'[t].id # txn'[r].id
      OBVIOUS
    <3>1. CASE t = s
      <4>1. txn'[t].id = n /\ txn'[r] = txn[r]
        BY <3>1, <1>5, <1>6
      <4>2. CASE txn[r] = NoTxn
        <5>1. txn[r].id = 0
          BY <4>2 DEF NoTxn
        <5> QED
          BY <4>1, <5>1, <1>3
      <4>3. CASE txn[r] # NoTxn
        BY <4>1, <4>3, <2>2
      <4> QED
        BY <4>2, <4>3
    <3>2. CASE r = s
      BY <3>2, <1>5, <1>6, <2>2
    <3>3. CASE t # s /\ r # s
      BY <3>3, <1>2, <1>6 DEF IdInv
    <3> QED
      BY <3>1, <3>2, <3>3
  <2> QED
    BY <1>1, <1>2, <1>4, <2>1, <2>4, <2>5 DEF IdInv
<1> QED
  BY <1>8, <1>9, <1>10, <1>11 DEF TableInv

LEMMA CommitStep ==
  ASSUME TableInv, NEW s \in Sessions, Commit(s)
  PROVE  TableInv'
<1> DEFINE n == txn[s].id
<1> DEFINE m == [mvcc EXCEPT !.active = @ \ {txn[s].id}, !.committed = @ \cup {txn[s].id}]
<1>1. /\ op[s] = Idle /\ txn[s] # NoTxn /\ mvcc' = m /\ txn' = [txn EXCEPT ![s] = NoTxn]
      /\ UNCHANGED <<heap, lists, op, tableLock, copy>>
  BY DEF Commit
<1>2. /\ Types /\ IdInv /\ op \in [Sessions -> {Idle} \cup Copiers \cup Works] /\ mvcc \in Managers
      /\ txn \in [Sessions -> {NoTxn} \cup [id : Nat \ {0}, snap : Snapshots]]
  BY DEF TableInv, Types
<1>3. n \in Nat \ {0} /\ n < mvcc.next /\ n \notin mvcc.committed \cup mvcc.aborted
  BY <1>1, <1>2 DEF IdInv
<1>4. /\ m \in Managers /\ m.next = mvcc.next /\ m.committed = mvcc.committed \cup {n}
      /\ m.aborted = mvcc.aborted
  <2>1. mvcc.active \ {n} \in SUBSET Nat /\ mvcc.committed \cup {n} \in SUBSET Nat
    BY <1>2, <1>3 DEF Managers
  <2> QED
    BY <1>2, <2>1 DEF Managers
<1> HIDE DEF m
<1>5. txn'[s] = NoTxn /\ \A t \in Sessions \ {s} : txn'[t] = txn[t]
  BY <1>1, <1>2
<1>6. ~Copying(s) /\ ~Put(s)
  BY <1>1 DEF Copying, Put, Idle
<1>7. Grows /\ PairInv' /\ CopyInv' /\ LostInv'
  <2>1. \A t \in Sessions : (Copying(t)' <=> Copying(t)) /\ (Put(t)' <=> Put(t))
    BY <1>1 DEF Copying, Put
  <2>2. \A t \in Sessions : Copying(t) \/ Put(t) => txn'[t] = txn[t]
    BY <1>5, <1>6
  <2>3. mvcc.aborted \subseteq mvcc'.aborted
    BY <1>1, <1>4
  <2> QED
    BY <1>1, <2>1, <2>2, <2>3, TableStays
<1>8. /\ HeldApart' /\ \A t \in Sessions : StatementOK(t)'
      /\ op' \in [Sessions -> {Idle} \cup Copiers \cup Works]
  <2>1. \A t \in Sessions \ {s} : LockKept(t)
    BY <1>1 DEF LockKept
  <2>2. op' = [op EXCEPT ![s] = Idle]
    BY <1>1, <1>2
  <2> QED
    BY <1>7, <2>1, <2>2, OutsideKeeps
<1>9. Types'
  <2>1. txn' \in [Sessions -> {NoTxn} \cup [id : Nat \ {0}, snap : Snapshots]]
    BY <1>1, <1>2
  <2> QED
    BY <1>1, <1>2, <1>4, <1>8, <2>1 DEF Types
<1>10. IdInv'
  <2>1. \A t \in Sessions : txn'[t] # NoTxn => txn'[t] = txn[t] /\ t # s
    BY <1>5
  <2>2. \A t \in Sessions : txn'[t] # NoTxn =>
          txn'[t].id < m.next /\ txn'[t].id \notin m.committed \cup m.aborted
    BY <1>1, <1>2, <1>4, <2>1 DEF IdInv
  <2>3. \A t, r \in Sessions : t # r /\ txn'[t] # NoTxn => txn'[t].id # txn'[r].id
    <3> SUFFICES ASSUME NEW t \in Sessions, NEW r \in Sessions, t # r, txn'[t] # NoTxn
                 PROVE  txn'[t].id # txn'[r].id
      OBVIOUS
    <3>1. txn'[t] = txn[t] /\ txn[t] # NoTxn /\ txn[t].id # txn[r].id /\ txn[t].id # 0
      BY <1>2, <2>1 DEF IdInv
    <3>2. txn'[r] = txn[r] \/ txn'[r].id = 0
      BY <1>5 DEF NoTxn
    <3> QED
      BY <3>1, <3>2
  <2>4. /\ AutoCommit \notin m.aborted /\ m.committed \cap m.aborted = {}
        /\ \A i \in m.committed \cup m.aborted : i < m.next
    BY <1>2, <1>3, <1>4 DEF IdInv
  <2> QED
    BY <1>1, <2>2, <2>3, <2>4 DEF IdInv
<1> QED
  BY <1>7, <1>8, <1>9, <1>10 DEF TableInv

\* A new statement.
LEMMA StartKeeps ==
  ASSUME TableInv, NEW s \in Sessions, NEW st \in Statements, NEW pc, NEW targets,
         Start(s, st, pc, targets), targets \subseteq Rows,
         \/ st.op = "insert" /\ pc = "check" /\ targets = {} /\ tableLock = Nil /\ tableLock' = s
         \/ /\ st.op # "insert" /\ tableLock' = tableLock
            /\ pc = "lock" \/ (pc = "end" /\ targets = {})
  PROVE  TableInv'
<1> DEFINE want == {Position(Rows, v) : v \in targets}
<1> DEFINE id == IdOf(s)
<1> DEFINE snap == SnapOf(s)
<1> DEFINE k == [pc |-> pc, stmt |-> st, id |-> id, snap |-> snap,
                 want |-> want, held |-> {}, todo |-> {},
                 gen |-> Len(lists), at |-> 0, polls |-> 0, since |-> Len(heap),
                 had |-> targets, scanned |-> Len(lists), many |-> FALSE, wrote |-> FALSE]
<1>1. /\ op[s] = Idle /\ mvcc' = Marked(s) /\ op' = [op EXCEPT ![s] = k]
      /\ UNCHANGED <<heap, lists, txn, copy>>
  BY DEF Start
<1>2. /\ Types /\ IdInv /\ op \in [Sessions -> {Idle} \cup Copiers \cup Works] /\ mvcc \in Managers
      /\ txn \in [Sessions -> {NoTxn} \cup [id : Nat \ {0}, snap : Snapshots]] /\ HeldApart
      /\ \A t \in Sessions : StatementOK(t)
  BY DEF TableInv, Types
<1>3. mvcc.next \in Nat \ {0}
  BY <1>2 DEF Managers
<1>4. /\ Marked(s) \in Managers /\ Marked(s).aborted = mvcc.aborted
      /\ \/ Marked(s) = mvcc
         \/ /\ Marked(s).next = mvcc.next + 1
            /\ Marked(s).committed = mvcc.committed \cup {mvcc.next}
  <2>1. CASE txn[s] # NoTxn
    BY <1>2, <2>1 DEF Marked
  <2>2. CASE txn[s] = NoTxn
    <3>1. mvcc.next + 1 \in Nat \ {0} /\ mvcc.committed \cup {mvcc.next} \in SUBSET Nat
      BY <1>2, <1>3 DEF Managers
    <3>2. Marked(s) = [mvcc EXCEPT !.next = mvcc.next + 1, !.committed = mvcc.committed \cup {mvcc.next}]
      BY <2>2 DEF Marked
    <3> QED
      BY <1>2, <3>1, <3>2 DEF Managers
  <2> QED
    BY <2>1, <2>2
<1>5. id \in Nat \ {0} /\ snap \in Snapshots
  <2>1. CASE txn[s] # NoTxn
    BY <1>2, <2>1 DEF IdOf, SnapOf
  <2>2. CASE txn[s] = NoTxn
    BY <1>3, <1>4, <2>2, SnapshotType DEF IdOf, SnapOf
  <2> QED
    BY <2>1, <2>2
<1> HIDE DEF id, snap
<1>6. /\ Len(heap) \in Nat /\ DOMAIN heap = 1 .. Len(heap) /\ Len(lists) \in Nat
      /\ DOMAIN lists = 1 .. Len(lists) /\ Len(lists) \in DOMAIN lists
  BY <1>2, LenProperties, EmptySeq DEF Types
<1>7. Rows \subseteq 1 .. Len(heap) /\ targets \subseteq DOMAIN heap /\ targets \in SUBSET Nat
  <2>1. Rows \subseteq DOMAIN heap
    BY <1>2, <1>6 DEF Types, Rows
  <2>2. DOMAIN heap \subseteq Nat
    BY <1>6
  <2> QED
    BY <2>1, <2>2, <1>6
<1>8. want \in SUBSET Nat
  BY <1>6, <1>7, PositionIsNat
<1>9. (targets = {} => want = {}) /\ (\A v \in targets : Position(Rows, v) \in want)
  OBVIOUS
<1> HIDE DEF want
<1>10. k \in Works
  BY <1>5, <1>6, <1>7, <1>8 DEF Works
<1>11. /\ k.pc = pc /\ k.stmt = st /\ k.want = want /\ k.held = {} /\ k.todo = {} /\ k.gen = Len(lists)
       /\ k.at = 0 /\ k.since = Len(heap) /\ k.had = targets /\ k.scanned = Len(lists)
       /\ k.many = FALSE /\ k.wrote = FALSE
  OBVIOUS
<1> HIDE DEF k
<1>12. op'[s] = k /\ \A t \in Sessions \ {s} : op'[t] = op[t]
  BY <1>1, <1>2
<1>13. Grows /\ PairInv' /\ CopyInv' /\ LostInv'
  <2>1. op[s].pc = "idle"
    BY <1>1 DEF Idle
  <2>2. k.pc \notin {"copied", "put"}
    BY <1>11
  <2>3. \A t \in Sessions : (Copying(t)' <=> Copying(t)) /\ (Put(t)' <=> Put(t))
    BY <1>12, <2>1, <2>2 DEF Copying, Put
  <2> QED
    BY <1>1, <1>4, <2>3, TableStays
<1>14. HeldApart'
  BY <1>2, <1>11, <1>12 DEF HeldApart, InStatement
<1>15. StatementOK(s)'
  <2>1. \A v \in DOMAIN heap : v \in Nat /\ ~(v > Len(heap)) /\ ~(v <= 0)
    BY <1>6
  <2>2. Places(s)'
    BY <1>11, <1>12 DEF Places, Statements
  <2>3. Scans(s)'
    <3>1. Len(lists) \in 1 .. Len(lists)
      BY <1>6
    <3>2. Len(heap) <= Len(heap)
      BY <1>6
    <3> QED
      BY <1>1, <1>6, <1>7, <1>11, <1>12, <3>1, <3>2 DEF Scans
  <2>4. Writes(s)'
    BY <1>11, <1>12 DEF Writes
  <2>5. Locks(s)'
    BY <1>1, <1>9, <1>11, <1>12 DEF Locks, Rows
  <2>6. Inserts(s)'
    BY <1>1, <1>11, <1>12, <2>1 DEF Inserts
  <2>7. Checks(s)'
    BY <1>1, <1>11, <1>12, <2>1 DEF Checks, Rows
  <2> QED
    BY <2>2, <2>3, <2>4, <2>5, <2>6, <2>7 DEF StatementOK
<1>16. \A t \in Sessions : StatementOK(t)'
  <2> TAKE t \in Sessions
  <2>1. CASE t = s
    BY <2>1, <1>15
  <2>2. CASE t # s
    <3>1. LockKept(t)
      BY <1>1, NilAssumption DEF LockKept
    <3>2. op'[t] = op[t] /\ StatementOK(t)
      BY <1>2, <1>12, <2>2
    <3> QED
      BY <3>1, <3>2, <1>2, <1>13, OthersKeep
  <2> QED
    BY <2>1, <2>2
<1>17. Types'
  <2>1. op' \in [Sessions -> {Idle} \cup Copiers \cup Works]
    BY <1>1, <1>2, <1>10
  <2>2. tableLock' \in Sessions \cup {Nil}
    BY <1>2 DEF Types
  <2> QED
    BY <1>1, <1>2, <1>4, <2>1, <2>2 DEF Types
<1>18. IdInv'
  <2>1. CASE Marked(s) = mvcc
    BY <1>1, <1>2, <2>1 DEF IdInv
  <2>2. CASE Marked(s).next = mvcc.next + 1 /\ Marked(s).committed = mvcc.committed \cup {mvcc.next}
    <3>1. \A i \in mvcc.committed \cup mvcc.aborted : i < mvcc.next + 1 /\ i # mvcc.next
      <4> TAKE i \in mvcc.committed \cup mvcc.aborted
      <4>1. i \in Nat /\ i < mvcc.next
        BY <1>2 DEF IdInv, Managers
      <4> QED
        BY <4>1, <1>3
    <3>2. \A t \in Sessions : txn[t] # NoTxn => txn[t].id < mvcc.next + 1 /\ txn[t].id # mvcc.next
      <4> SUFFICES ASSUME NEW t \in Sessions, txn[t] # NoTxn
                   PROVE  txn[t].id < mvcc.next + 1 /\ txn[t].id # mvcc.next
        OBVIOUS
      <4>1. txn[t].id \in Nat /\ txn[t].id < mvcc.next
        BY <1>2 DEF IdInv
      <4> QED
        BY <4>1, <1>3
    <3>3. mvcc.next < mvcc.next + 1
      BY <1>3
    <3> QED
      BY <1>1, <1>2, <1>4, <2>2, <3>1, <3>2, <3>3 DEF IdInv
  <2> QED
    BY <1>4, <2>1, <2>2
<1> QED
  BY <1>13, <1>14, <1>16, <1>17, <1>18 DEF TableInv

LEMMA StartInsertStep ==
  ASSUME TableInv, NEW s \in Sessions, NEW st \in Statements, StartInsert(s, st)
  PROVE  TableInv'
<1>1. st.op = "insert" /\ tableLock = Nil /\ tableLock' = s /\ Start(s, st, "check", {})
  BY DEF StartInsert, TableFree
<1> QED
  BY <1>1, StartKeeps

LEMMA StartChangeStep ==
  ASSUME TableInv, NEW s \in Sessions, NEW st \in Statements, StartChange(s, st)
  PROVE  TableInv'
<1> DEFINE targets == {v \in Rows : IsTarget(v, IdOf(s), SnapOf(s), st.where)}
<1>1. /\ st.op # "insert" /\ tableLock' = tableLock
      /\ Start(s, st, IF targets = {} THEN "end" ELSE "lock", targets)
  BY DEF StartChange
<1>2. targets \subseteq Rows
  OBVIOUS
<1> HIDE DEF targets
<1>3. CASE targets = {}
  <2>1. Start(s, st, "end", targets)
    BY <1>1, <1>3
  <2> QED
    BY <1>1, <1>2, <1>3, <2>1, StartKeeps
<1>4. CASE targets # {}
  <2>1. Start(s, st, "lock", targets)
    BY <1>1, <1>4
  <2> QED
    BY <1>1, <1>2, <2>1, StartKeeps
<1> QED
  BY <1>3, <1>4

-----------------------------------------------------------------------------
\* One copy is under way at a time, and its owner is the one who makes it.
LEMMA OneCopier ==
  ASSUME TableInv
  PROVE  /\ copy = Nil => \A t \in Sessions : ~Copying(t) /\ ~Put(t)
         /\ \A s, t \in Sessions : (Copying(s) \/ Put(s)) /\ t # s => ~Copying(t) /\ ~Put(t)
BY NilAssumption DEF TableInv, CopyInv

LEMMA RowsAreVersions ==
  ASSUME Types
  PROVE  Rows \subseteq DOMAIN heap /\ Rows \in SUBSET Nat /\ DOMAIN heap \subseteq Nat
<1>1. Len(lists) \in DOMAIN lists /\ DOMAIN heap \subseteq Nat
  BY LenProperties, EmptySeq DEF Types
<1> QED
  BY <1>1 DEF Types, Rows

LEMMA RollbackCopyStep ==
  ASSUME TableInv, NEW s \in Sessions, RollbackCopy(s)
  PROVE  TableInv'
<1> DEFINE id == txn[s].id
<1> DEFINE c == [owner |-> s, kind |-> "rollback", rows |-> {v \in Rows : Stays(heap[v], id)}]
<1> DEFINE k == [pc |-> "copied"]
<1> DEFINE Bare(v) == [heap[v] EXCEPT !.xmax = NotDeleted, !.restored = TRUE]
<1>1. /\ copy = Nil /\ op[s] = Idle /\ txn[s] # NoTxn
      /\ copy' = c /\ op' = [op EXCEPT ![s] = k]
      /\ UNCHANGED <<lists, mvcc, txn, tableLock, left>>
  BY DEF RollbackCopy, ManagerFree
<1>2. /\ Types /\ IdInv /\ PairInv /\ LostInv /\ heap \in Seq(Versions)
      /\ op \in [Sessions -> {Idle} \cup Copiers \cup Works]
  BY DEF TableInv, Types
<1>3. heap' = [v \in DOMAIN heap |-> IF heap[v].xmax = id /\ v \in Rows THEN Bare(v) ELSE heap[v]]
  BY DEF RollbackCopy
<1>4. \A v \in DOMAIN heap : /\ heap[v] \in Versions /\ Bare(v) \in Versions
                             /\ Bare(v).key = heap[v].key /\ Bare(v).xmin = heap[v].xmin
                             /\ Bare(v).by = heap[v].by /\ Bare(v).since = heap[v].since
                             /\ Bare(v).underCopy = heap[v].underCopy /\ Bare(v).restored
  <2> TAKE v \in DOMAIN heap
  <2>1. heap[v] \in Versions
    BY <1>2, ElementOfSeq, LenProperties
  <2> QED
    BY <2>1 DEF Versions, NotDeleted
<1> HIDE DEF Bare
<1>5. heap' \in Seq(Versions) /\ Len(heap') = Len(heap) /\ DOMAIN heap' = DOMAIN heap /\ Len(heap) \in Nat
  <2>1. Len(heap) \in Nat /\ DOMAIN heap = 1 .. Len(heap)
    BY <1>2, LenProperties
  <2>2. heap' \in [1 .. Len(heap) -> Versions]
    BY <1>3, <1>4, <2>1
  <2>3. heap' \in Seq(Versions) /\ Len(heap') = Len(heap)
    BY <2>1, <2>2, IsASeq, LenProperties
  <2> QED
    BY <2>1, <2>2, <2>3
<1>6. \A v \in DOMAIN heap : heap'[v] = IF heap[v].xmax = id /\ v \in Rows THEN Bare(v) ELSE heap[v]
  BY <1>3
<1>7. \A v \in DOMAIN heap :
       /\ heap'[v].key = heap[v].key /\ heap'[v].xmin = heap[v].xmin
       /\ heap'[v].by = heap[v].by /\ heap'[v].since = heap[v].since
       /\ heap'[v].underCopy = heap[v].underCopy
       /\ heap[v].restored => heap'[v].restored
       /\ heap[v].xmax # NotDeleted => heap'[v].xmax # NotDeleted \/ heap'[v].restored
  BY <1>4, <1>6
<1>8. HeapGrows
  <2>1. Len(heap) <= Len(heap')
    BY <1>5
  <2> QED
    BY <1>5, <1>7, <2>1 DEF HeapGrows
<1>9. ListsGrow /\ Rows' = Rows
  BY <1>1, <1>2, <1>5 DEF Types, ListsGrow, Rows
<1>10. Grows
  BY <1>1, <1>8, <1>9 DEF Grows
<1>11. PairInv'
  BY <1>2, <1>5, <1>10, PairStays
<1>12. \A t \in Sessions : ~Copying(t) /\ ~Put(t)
  BY <1>1, OneCopier
<1>13. op'[s] = k /\ \A t \in Sessions \ {s} : op'[t] = op[t]
  BY <1>1, <1>2
<1>14. /\ HeldApart' /\ \A t \in Sessions : StatementOK(t)'
       /\ op' \in [Sessions -> {Idle} \cup Copiers \cup Works]
  <2>1. \A t \in Sessions \ {s} : LockKept(t)
    BY <1>1, <1>5 DEF LockKept
  <2>2. k \in Copiers
    BY DEF Copiers
  <2> HIDE DEF k
  <2> QED
    BY <1>1, <1>10, <2>1, <2>2, OutsideKeeps
<1>15. /\ c \in Copies /\ c.owner = s /\ c.kind = "rollback" /\ c.rows = {v \in Rows : Stays(heap[v], id)}
  <2>1. {v \in Rows : Stays(heap[v], id)} \in SUBSET Nat
    BY <1>2, RowsAreVersions
  <2> QED
    BY <2>1 DEF Copies
<1> HIDE DEF c
<1>16. CopyInv'
  <2>1. Copying(s)' /\ ~Put(s)' /\ \A t \in Sessions \ {s} : ~Copying(t)' /\ ~Put(t)'
    BY <1>12, <1>13 DEF Copying, Put
  <2>2. \A v \in Rows \ c.rows : heap'[v].xmin = txn[s].id
    BY <1>2, <1>7, <1>15, RowsAreVersions DEF Stays
  <2>3. c.rows \subseteq Rows
    BY <1>15
  <2> QED
    BY <1>1, <1>9, <1>15, <2>1, <2>2, <2>3 DEF CopyInv
<1>17. LostInv'
  <2>1. \A v \in DOMAIN heap : v \notin Rows => heap'[v] = heap[v]
    BY <1>6
  <2> QED
    BY <1>1, <1>2, <1>5, <1>9, <1>12, <2>1 DEF LostInv
<1>18. Types'
  BY <1>1, <1>2, <1>5, <1>9, <1>14, <1>15 DEF Types
<1>19. IdInv'
  BY <1>1, <1>2 DEF IdInv
<1> QED
  BY <1>11, <1>14, <1>16, <1>17, <1>18, <1>19 DEF TableInv

LEMMA VacuumCopyStep ==
  ASSUME TableInv, NEW s \in Sessions, VacuumCopy(s)
  PROVE  TableInv'
<1> DEFINE rows == {v \in Rows : ~IsDead(heap[v], OldestActive, mvcc.committed)}
<1> DEFINE c == [owner |-> s, kind |-> "vacuum", rows |-> rows]
<1> DEFINE k == [pc |-> "copied"]
<1>1. /\ copy = Nil /\ op[s] = Idle /\ copy' = c /\ op' = [op EXCEPT ![s] = k]
      /\ UNCHANGED <<heap, lists, mvcc, txn, tableLock, left>>
  BY DEF VacuumCopy, ManagerFree
<1>2. /\ Types /\ IdInv /\ PairInv /\ LostInv /\ op \in [Sessions -> {Idle} \cup Copiers \cup Works]
  BY DEF TableInv, Types
<1>3. Grows
  BY <1>1, <1>2, QuietGrows
<1>4. PairInv'
  BY <1>1, <1>2, <1>3, PairStays
<1>5. \A t \in Sessions : ~Copying(t) /\ ~Put(t)
  BY <1>1, OneCopier
<1>6. op'[s] = k /\ \A t \in Sessions \ {s} : op'[t] = op[t]
  BY <1>1, <1>2
<1>7. /\ HeldApart' /\ \A t \in Sessions : StatementOK(t)'
      /\ op' \in [Sessions -> {Idle} \cup Copiers \cup Works]
  <2>1. \A t \in Sessions \ {s} : LockKept(t)
    BY <1>1 DEF LockKept
  <2>2. k \in Copiers
    BY DEF Copiers
  <2> HIDE DEF k, c
  <2> QED
    BY <1>1, <1>3, <2>1, <2>2, OutsideKeeps
<1>8. rows \in SUBSET Nat /\ rows \subseteq Rows /\ \A v \in Rows \ rows : heap[v].xmax # NotDeleted
  BY <1>2, RowsAreVersions DEF IsDead
<1> HIDE DEF rows
<1>9. /\ c \in Copies /\ c.owner = s /\ c.kind = "vacuum" /\ c.rows = rows
  BY <1>8 DEF Copies
<1> HIDE DEF c
<1>10. CopyInv'
  <2>1. Copying(s)' /\ ~Put(s)' /\ \A t \in Sessions \ {s} : ~Copying(t)' /\ ~Put(t)'
    BY <1>5, <1>6 DEF Copying, Put
  <2>2. Rows' = Rows
    BY <1>1 DEF Rows
  <2> QED
    BY <1>1, <1>8, <1>9, <2>1, <2>2 DEF CopyInv
<1>11. LostInv'
  BY <1>1, <1>2, <1>5 DEF LostInv, Rows
<1>12. Types'
  BY <1>1, <1>2, <1>7, <1>9 DEF Types
<1>13. IdInv'
  BY <1>1, <1>2 DEF IdInv
<1> QED
  BY <1>4, <1>7, <1>10, <1>11, <1>12, <1>13 DEF TableInv

LEMMA PutCopyStep ==
  ASSUME TableInv, NEW s \in Sessions, PutCopy(s)
  PROVE  TableInv'
<1>1. /\ op[s].pc = "copied" /\ copy.owner = s /\ lists' = Append(lists, copy.rows)
      /\ UNCHANGED <<heap, mvcc, txn, tableLock, left>>
  BY DEF PutCopy
<1>2. /\ Types /\ IdInv /\ PairInv /\ LostInv /\ CopyInv
      /\ op \in [Sessions -> {Idle} \cup Copiers \cup Works]
      /\ lists \in Seq(SUBSET Nat) /\ lists # <<>>
  BY DEF TableInv, Types
<1>3. Copying(s) /\ ~Put(s)
  BY <1>1 DEF Copying, Put
<1>4. /\ copy \in Copies /\ copy.rows \subseteq Rows /\ copy.rows \in SUBSET Nat
      /\ copy.kind \in {"rollback", "vacuum"}
  BY <1>2, <1>3 DEF CopyInv, Copies
<1>5. /\ Len(lists) \in Nat /\ DOMAIN lists = 1 .. Len(lists) /\ Len(lists') = Len(lists) + 1
      /\ lists' \in Seq(SUBSET Nat) /\ DOMAIN lists' = 1 .. (Len(lists) + 1)
      /\ lists'[Len(lists) + 1] = copy.rows /\ \A g \in 1 .. Len(lists) : lists'[g] = lists[g]
  BY <1>1, <1>2, <1>4, AppendProperties, LenProperties
<1>6. Rows' = copy.rows /\ Rows \subseteq DOMAIN heap
  BY <1>2, <1>5, RowsAreVersions DEF Rows
<1>7. ListsGrow
  <2>1. \A g \in DOMAIN lists' : g \in DOMAIN lists \/ g = Len(lists) + 1
    <3>1. \A g \in 1 .. (Len(lists) + 1) : g \in 1 .. Len(lists) \/ g = Len(lists) + 1
      BY <1>5
    <3> QED
      BY <3>1, <1>5
  <2>2. \A g \in DOMAIN lists' : lists'[g] \subseteq DOMAIN heap
    BY <1>2, <1>4, <1>5, <1>6, <2>1 DEF Types
  <2>3. Len(lists) <= Len(lists')
    BY <1>5
  <2> QED
    BY <1>1, <1>4, <1>5, <1>6, <2>2, <2>3 DEF ListsGrow
<1>8. HeapGrows
  BY <1>1, <1>2, LenProperties DEF HeapGrows, Types
<1>9. Grows
  BY <1>1, <1>7, <1>8 DEF Grows
<1>10. PairInv'
  BY <1>1, <1>2, <1>9, PairStays
<1>11. \A t \in Sessions \ {s} : ~Copying(t) /\ ~Put(t)
  BY <1>3, OneCopier
<1>12. \A t \in Sessions \ {s} : LockKept(t)
  BY <1>1 DEF LockKept
<1>13. lists' # <<>>
  <2>1. Len(lists') # 0
    BY <1>5
  <2> QED
    BY <2>1, <1>5, EmptySeq
<1>14. IdInv'
  BY <1>1, <1>2 DEF IdInv
<1>15. \A v \in DOMAIN heap : v \notin copy.rows =>
         \/ heap[v].underCopy \/ heap[v].xmax # NotDeleted \/ heap[v].xmin \in mvcc.aborted
         \/ copy.kind = "rollback" /\ heap[v].xmin = txn[s].id
  <2> SUFFICES ASSUME NEW v \in DOMAIN heap, v \notin copy.rows
               PROVE  \/ heap[v].underCopy \/ heap[v].xmax # NotDeleted \/ heap[v].xmin \in mvcc.aborted
                      \/ copy.kind = "rollback" /\ heap[v].xmin = txn[s].id
    OBVIOUS
  <2>1. CASE v \in Rows
    BY <2>1, <1>2, <1>3 DEF CopyInv
  <2>2. CASE v \notin Rows
    BY <2>2, <1>2, <1>3, <1>11 DEF LostInv
  <2> QED
    BY <2>1, <2>2
<1>16. CASE copy.kind = "vacuum"
  <2>1. copy' = Nil /\ op' = [op EXCEPT ![s] = Idle]
    BY <1>16 DEF PutCopy
  <2>2. op'[s] = Idle /\ \A t \in Sessions \ {s} : op'[t] = op[t]
    BY <1>2, <2>1
  <2>3. /\ HeldApart' /\ \A t \in Sessions : StatementOK(t)'
        /\ op' \in [Sessions -> {Idle} \cup Copiers \cup Works]
    BY <1>9, <1>12, <2>1, OutsideKeeps
  <2>4. \A t \in Sessions : ~Copying(t)' /\ ~Put(t)'
    BY <1>11, <2>2 DEF Copying, Put, Idle
  <2>5. CopyInv'
    BY <2>4 DEF CopyInv
  <2>6. LostInv'
    BY <1>1, <1>6, <1>15, <1>16 DEF LostInv
  <2>7. Types'
    BY <1>1, <1>2, <1>7, <1>13, <2>1, <2>3 DEF Types, ListsGrow
  <2> QED
    BY <1>10, <1>14, <2>3, <2>5, <2>6, <2>7 DEF TableInv
<1>17. CASE copy.kind = "rollback"
  <2> DEFINE k == [op[s] EXCEPT !.pc = "put"]
  <2>1. copy' = copy /\ op' = [op EXCEPT ![s] = k]
    BY <1>2, <1>17 DEF PutCopy
  <2>2. k \in Copiers /\ k.pc = "put"
    <3>1. op[s] \in Copiers
      BY <1>1, <1>2 DEF Idle, Works
    <3> QED
      BY <3>1 DEF Copiers
  <2> HIDE DEF k
  <2>3. op'[s] = k /\ \A t \in Sessions \ {s} : op'[t] = op[t]
    BY <1>2, <2>1
  <2>4. /\ HeldApart' /\ \A t \in Sessions : StatementOK(t)'
        /\ op' \in [Sessions -> {Idle} \cup Copiers \cup Works]
    BY <1>9, <1>12, <2>1, <2>2, OutsideKeeps
  <2>5. Put(s)' /\ ~Copying(s)' /\ \A t \in Sessions \ {s} : ~Copying(t)' /\ ~Put(t)'
    BY <1>11, <2>2, <2>3 DEF Copying, Put
  <2>6. CopyInv'
    <3>1. txn[s] # NoTxn
      BY <1>2, <1>3, <1>17 DEF CopyInv
    <3> QED
      BY <1>1, <1>4, <1>17, <2>1, <2>5, <3>1 DEF CopyInv
  <2>7. LostInv'
    <3> SUFFICES ASSUME NEW v \in DOMAIN heap, v \notin copy.rows
                 PROVE  \/ heap[v].underCopy \/ heap[v].xmax # NotDeleted
                        \/ heap[v].xmin \in mvcc.aborted
                        \/ \E t \in Sessions : Put(t)' /\ txn[t].id = heap[v].xmin
      BY <1>1, <1>6 DEF LostInv
    <3> QED
      BY <1>15, <2>5
  <2>8. Types'
    BY <1>1, <1>2, <1>7, <1>13, <2>1, <2>4 DEF Types, ListsGrow
  <2> QED
    BY <1>10, <1>14, <2>4, <2>6, <2>7, <2>8 DEF TableInv
<1> QED
  BY <1>4, <1>16, <1>17

LEMMA EndRollbackStep ==
  ASSUME TableInv, NEW s \in Sessions, EndRollback(s)
  PROVE  TableInv'
<1> DEFINE n == txn[s].id
<1> DEFINE m == [mvcc EXCEPT !.active = @ \ {txn[s].id}, !.aborted = @ \cup {txn[s].id}]
<1>1. /\ op[s].pc = "put" /\ mvcc' = m /\ txn' = [txn EXCEPT ![s] = NoTxn]
      /\ op' = [op EXCEPT ![s] = Idle] /\ copy' = Nil
      /\ UNCHANGED <<heap, lists, tableLock, left>>
  BY DEF EndRollback
<1>2. /\ Types /\ IdInv /\ PairInv /\ LostInv /\ CopyInv /\ mvcc \in Managers
      /\ op \in [Sessions -> {Idle} \cup Copiers \cup Works]
      /\ txn \in [Sessions -> {NoTxn} \cup [id : Nat \ {0}, snap : Snapshots]]
  BY DEF TableInv, Types
<1>3. Put(s) /\ ~Copying(s)
  BY <1>1 DEF Put, Copying
<1>4. txn[s] # NoTxn
  BY <1>2, <1>3 DEF CopyInv
<1>5. n \in Nat \ {0} /\ n < mvcc.next /\ n \notin mvcc.committed \cup mvcc.aborted
  BY <1>2, <1>4 DEF IdInv
<1>6. /\ m \in Managers /\ m.next = mvcc.next /\ m.committed = mvcc.committed
      /\ m.aborted = mvcc.aborted \cup {n}
  <2>1. mvcc.active \ {n} \in SUBSET Nat /\ mvcc.aborted \cup {n} \in SUBSET Nat
    BY <1>2, <1>5 DEF Managers
  <2> QED
    BY <1>2, <2>1 DEF Managers
<1> HIDE DEF m
<1>7. txn'[s] = NoTxn /\ \A t \in Sessions \ {s} : txn'[t] = txn[t]
  BY <1>1, <1>2
<1>8. op'[s] = Idle /\ \A t \in Sessions \ {s} : op'[t] = op[t]
  BY <1>1, <1>2
<1>9. \A t \in Sessions \ {s} : ~Copying(t) /\ ~Put(t)
  BY <1>3, OneCopier
<1>10. Grows
  BY <1>1, <1>2, <1>6, QuietGrows
<1>11. PairInv'
  BY <1>1, <1>2, <1>10, PairStays
<1>12. /\ HeldApart' /\ \A t \in Sessions : StatementOK(t)'
       /\ op' \in [Sessions -> {Idle} \cup Copiers \cup Works]
  <2>1. \A t \in Sessions \ {s} : LockKept(t)
    BY <1>1 DEF LockKept
  <2> QED
    BY <1>1, <1>10, <2>1, OutsideKeeps
<1>13. CopyInv'
  <2>1. \A t \in Sessions : ~Copying(t)' /\ ~Put(t)'
    BY <1>8, <1>9 DEF Copying, Put, Idle
  <2> QED
    BY <2>1 DEF CopyInv
<1>14. LostInv'
  <2>1. Rows' = Rows
    BY <1>1 DEF Rows
  <2> SUFFICES ASSUME NEW v \in DOMAIN heap, v \notin Rows
               PROVE  \/ heap[v].underCopy \/ heap[v].xmax # NotDeleted \/ heap[v].xmin \in m.aborted
    BY <1>1, <2>1 DEF LostInv
  <2> QED
    BY <1>2, <1>6, <1>9 DEF LostInv
<1>15. Types'
  <2>1. txn' \in [Sessions -> {NoTxn} \cup [id : Nat \ {0}, snap : Snapshots]]
    BY <1>1, <1>2
  <2> QED
    BY <1>1, <1>2, <1>6, <1>12, <2>1 DEF Types
<1>16. IdInv'
  <2>1. \A t \in Sessions : txn'[t] # NoTxn => txn'[t] = txn[t] /\ t # s
    BY <1>7
  <2>2. \A t \in Sessions : txn'[t] # NoTxn => txn'[t].id # n
    BY <1>2, <2>1 DEF IdInv
  <2>3. \A t \in Sessions : txn'[t] # NoTxn =>
          txn'[t].id < m.next /\ txn'[t].id \notin m.committed \cup m.aborted
    BY <1>2, <1>6, <2>1, <2>2 DEF IdInv
  <2>4. \A t, r \in Sessions : t # r /\ txn'[t] # NoTxn => txn'[t].id # txn'[r].id
    <3> SUFFICES ASSUME NEW t \in Sessions, NEW r \in Sessions, t # r, txn'[t] # NoTxn
                 PROVE  txn'[t].id # txn'[r].id
      OBVIOUS
    <3>1. txn'[t] = txn[t] /\ txn[t] # NoTxn /\ txn[t].id # txn[r].id /\ txn[t].id # 0
      BY <1>2, <2>1 DEF IdInv
    <3>2. txn'[r] = txn[r] \/ txn'[r].id = 0
      BY <1>7 DEF NoTxn
    <3> QED
      BY <3>1, <3>2
  <2>5. /\ AutoCommit \notin m.aborted /\ m.committed \cap m.aborted = {}
        /\ \A i \in m.committed \cup m.aborted : i < m.next
    BY <1>2, <1>5, <1>6 DEF IdInv, AutoCommit
  <2> QED
    BY <1>1, <2>3, <2>4, <2>5 DEF IdInv
<1> QED
  BY <1>11, <1>12, <1>13, <1>14, <1>15, <1>16 DEF TableInv

-----------------------------------------------------------------------------
\* The counter after the loading is above all stamps.
LEMMA LoadedCounter ==
  /\ Max(LoadedStamps) \in Nat /\ \A n \in LoadedStamps : n \in Nat /\ n <= Max(LoadedStamps)
<1>1. LoadedStamps \subseteq Nat
  <2>1. \A i \in DOMAIN Loaded : Loaded[i] \in [key : Keys, xmin : Nat, xmax : Nat]
    BY LoadedAssumption, ElementOfSeq, LenProperties
  <2> QED
    BY <2>1 DEF LoadedStamps, AutoCommit
<1>2. PICK top \in LoadedStamps : \A n \in LoadedStamps : n <= top
  BY LoadedAssumption
<1>3. \A n \in LoadedStamps : top >= n
  BY <1>1, <1>2
<1>4. Max(LoadedStamps) \in LoadedStamps /\ \A n \in LoadedStamps : Max(LoadedStamps) >= n
  BY <1>3 DEF Max
<1>5. \A n \in LoadedStamps : n <= Max(LoadedStamps)
  BY <1>1, <1>4
<1> QED
  BY <1>1, <1>4, <1>5

LEMMA InitTable == Init => TableInv
<1> SUFFICES ASSUME Init PROVE TableInv
  OBVIOUS
<1> DEFINE creators == {Loaded[i].xmin : i \in DOMAIN Loaded}
<1>1. /\ heap = [i \in DOMAIN Loaded |-> Version(Loaded[i], "load", 0, FALSE)]
      /\ lists = <<DOMAIN Loaded>>
      /\ mvcc = [next |-> Max(LoadedStamps) + 1, active |-> {},
                 committed |-> creators \ {AutoCommit}, aborted |-> {}]
      /\ txn = [s \in Sessions |-> NoTxn] /\ op = [s \in Sessions |-> Idle]
      /\ tableLock = Nil /\ copy = Nil
  BY DEF Init
<1>2. /\ Len(Loaded) \in Nat /\ DOMAIN Loaded = 1 .. Len(Loaded)
      /\ \A i \in DOMAIN Loaded : Loaded[i] \in [key : Keys, xmin : Nat, xmax : Nat]
  BY LoadedAssumption, ElementOfSeq, LenProperties
<1>3. /\ DOMAIN heap = DOMAIN Loaded
      /\ \A i \in DOMAIN Loaded :
           /\ heap[i] \in Versions /\ heap[i].key = Loaded[i].key /\ heap[i].xmin = Loaded[i].xmin
           /\ heap[i].xmax = Loaded[i].xmax /\ heap[i].by = "load"
  BY <1>1, <1>2 DEF Version, Versions
<1>4. heap \in Seq(Versions)
  <2>1. heap \in [1 .. Len(Loaded) -> Versions]
    BY <1>1, <1>2, <1>3
  <2> QED
    BY <2>1, <1>2, IsASeq
<1>5. /\ lists \in Seq(SUBSET Nat) /\ lists # <<>> /\ Len(lists) = 1 /\ lists[1] = DOMAIN Loaded
      /\ DOMAIN lists = {1}
  <2>1. DOMAIN Loaded \in SUBSET Nat
    BY <1>2
  <2> HIDE DEF creators
  <2> QED
    BY <1>1, <2>1
<1>6. Rows = DOMAIN heap
  BY <1>3, <1>5 DEF Rows
<1>7. /\ mvcc.next = Max(LoadedStamps) + 1 /\ mvcc.committed = creators \ {AutoCommit}
      /\ mvcc.aborted = {} /\ mvcc \in Managers /\ \A n \in creators : n < mvcc.next
  <2>1. \A n \in creators : n \in Nat /\ n <= Max(LoadedStamps)
    BY LoadedCounter DEF LoadedStamps
  <2>2. Max(LoadedStamps) \in Nat /\ Max(LoadedStamps) + 1 \in Nat \ {0}
    BY LoadedCounter
  <2>3. \A n \in creators : n < Max(LoadedStamps) + 1
    BY <2>1, <2>2
  <2> HIDE DEF creators
  <2> QED
    BY <1>1, <2>1, <2>2, <2>3 DEF Managers
<1> HIDE DEF creators
<1>8. \A s \in Sessions : op[s] = Idle /\ txn[s] = NoTxn /\ op[s].pc = "idle" /\ ~InStatement(s)
  <2>1. Idle.pc = "idle" /\ Idle \notin Works
    BY DEF Idle, Works
  <2> QED
    BY <1>1, <2>1 DEF InStatement
<1>9. Types
  <2>1. \A g \in DOMAIN lists : lists[g] \subseteq DOMAIN heap
    BY <1>3, <1>5
  <2>2. /\ txn \in [Sessions -> {NoTxn} \cup [id : Nat \ {0}, snap : Snapshots]]
        /\ op \in [Sessions -> {Idle} \cup Copiers \cup Works]
    BY <1>1
  <2>3. tableLock \in Sessions \cup {Nil} /\ copy \in {Nil} \cup Copies
    BY <1>1
  <2> QED
    BY <1>4, <1>5, <1>7, <2>1, <2>2, <2>3 DEF Types
<1>10. IdInv
  BY <1>7, <1>8 DEF IdInv
<1>11. PairInv
  <2> SUFFICES ASSUME NEW u \in DOMAIN heap, NEW v \in DOMAIN heap, u < v, heap[u].key = heap[v].key
               PROVE  heap[u].xmin = heap[v].xmin \/ heap[u].xmax # NotDeleted
    BY <1>3 DEF PairInv, Harmless
  <2> QED
    BY <1>3, LoadedAssumption
<1>12. (\A s \in Sessions : StatementOK(s)) /\ HeldApart
  BY <1>8 DEF StatementOK, HeldApart
<1>13. CopyInv /\ LostInv
  BY <1>6, <1>8 DEF CopyInv, LostInv, Copying, Put
<1> QED
  BY <1>9, <1>10, <1>11, <1>12, <1>13 DEF TableInv

LEMMA TableStep == TableInv /\ [Next]_vars => TableInv'
<1> SUFFICES ASSUME TableInv, [Next]_vars PROVE TableInv'
  OBVIOUS
<1>1. ASSUME NEW s \in Sessions, Request(s)
      PROVE  TableInv'
  <2>1. CASE \E st \in Stmts[s] : StartInsert(s, st) \/ StartChange(s, st)
    <3>1. PICK st \in Stmts[s] : StartInsert(s, st) \/ StartChange(s, st)
      BY <2>1
    <3>2. st \in Statements
      BY StmtsAssumption DEF Statements
    <3> QED
      BY <3>1, <3>2, StartInsertStep, StartChangeStep
  <2> QED
    BY <1>1, <2>1, BeginStep, CommitStep, RollbackCopyStep, VacuumCopyStep DEF Request
<1>2. ASSUME NEW s \in Sessions, Step(s)
      PROVE  TableInv'
  BY <1>2, LockRowStep, LockedStep, CheckRowStep, PollStep, CheckedStep, AppendRowStep, StampStep,
     ReplacedStep, DeleteRowStep, DeletedStep, IndexRaisesStep, PutCopyStep, EndRollbackStep, FinishStep DEF Step
<1>3. CASE UNCHANGED vars
  <2>1. UNCHANGED <<heap, lists, mvcc, txn, op, tableLock, copy>>
    BY <1>3 DEF vars
  <2>2. Types /\ IdInv /\ \A t \in Sessions : StatementOK(t)
    BY DEF TableInv
  <2>3. Grows /\ PairInv' /\ CopyInv' /\ LostInv'
    <3>1. \A t \in Sessions : (Copying(t)' <=> Copying(t)) /\ (Put(t)' <=> Put(t))
      BY <2>1 DEF Copying, Put
    <3> QED
      BY <2>1, <3>1, TableStays
  <2>4. \A t \in Sessions : StatementOK(t)'
    <3> TAKE t \in Sessions
    <3>1. LockKept(t) /\ op'[t] = op[t]
      BY <2>1 DEF LockKept
    <3> QED
      BY <2>2, <2>3, <3>1, OthersKeep
  <2>5. Types' /\ IdInv' /\ HeldApart'
    BY <2>1 DEF TableInv, Types, IdInv, HeldApart, InStatement
  <2> QED
    BY <2>3, <2>4, <2>5 DEF TableInv
<1> QED
  BY <1>1, <1>2, <1>3 DEF Next

-----------------------------------------------------------------------------
\* The inductive invariant.
THEOREM TableInvariant == Spec => []TableInv
BY InitTable, TableStep, PTL DEF Spec

\* Two committed live rows have one key only if one transaction wrote both, the
\* older one was brought back by a ROLLBACK, or an UPDATE ran beside the other
\* statement: INSERT's lock on the table and the check leave no other way.
THEOREM DuplicatesHaveKnownCauses == Spec => []DuplicatesOnlyThroughGaps
<1>1. TableInv => DuplicatesOnlyThroughGaps
  <2> SUFFICES ASSUME TableInv, NEW u \in DOMAIN heap, NEW v \in DOMAIN heap,
                      u < v, Live(u), Live(v), heap[u].key = heap[v].key
               PROVE  \/ heap[u].xmin = heap[v].xmin
                      \/ heap[u].restored
                      \/ u > heap[v].since /\ "update" \in {heap[u].by, heap[v].by}
    BY DEF DuplicatesOnlyThroughGaps
  <2>1. PairInv /\ IdInv /\ Types
    BY DEF TableInv
  <2>2. heap[v] \in Versions /\ heap[u] \in Versions /\ u \in Nat /\ v \in Nat
    BY <2>1, ElementOfSeq, LenProperties DEF Types
  <2>3. heap[v].since \in Nat /\ heap[v].by \in {"load", "insert", "update"}
    BY <2>2 DEF Versions
  <2>4. heap[u].xmax = NotDeleted /\ heap[u].xmin \notin mvcc.aborted /\ u \in Rows
    BY <2>1 DEF Live, IsCommitted, IdInv
  <2>5. CASE u <= heap[v].since \/ heap[v].by = "load"
    BY <2>1, <2>4, <2>5 DEF PairInv, Harmless
  <2>6. CASE u > heap[v].since /\ heap[v].by = "insert"
    BY <2>1, <2>6 DEF PairInv
  <2>7. CASE u > heap[v].since /\ heap[v].by = "update"
    BY <2>7
  <2> QED
    BY <2>2, <2>3, <2>5, <2>6, <2>7
<1> QED
  BY <1>1, TableInvariant, PTL

\* No row that is neither deleted nor rolled back leaves the table, except one
\* that was appended while a ROLLBACK or VACUUM was at its copy.
THEOREM RowsStayInTheTable == Spec => []RowsAreLostOnlyUnderACopy
<1>1. TableInv => RowsAreLostOnlyUnderACopy
  BY DEF TableInv, LostInv, RowsAreLostOnlyUnderACopy, Put
<1> QED
  BY <1>1, TableInvariant, PTL

\* Two statements past their locks have no row in common that both found in one
\* list: they would both hold the lock of its place.
THEOREM RowLocksWork == Spec => []RowLocksExclude
<1>1. TableInv => RowLocksExclude
  <2> SUFFICES ASSUME TableInv, NEW s \in Sessions, NEW t \in Sessions, s # t, Working(s), Working(t),
                      op[s].had \cap op[t].had # {}, op[s].scanned = op[t].scanned
               PROVE  FALSE
    BY DEF RowLocksExclude
  <2>1. InStatement(s) /\ InStatement(t) /\ op[s].pc # "lock" /\ op[t].pc # "lock"
    BY PcTells DEF Working, TableInv
  <2>2. Locks(s) /\ Locks(t) /\ op[s].held \cap op[t].held = {}
    BY <2>1 DEF TableInv, StatementOK, HeldApart
  <2>3. PICK v : v \in op[s].had /\ v \in op[t].had
    OBVIOUS
  <2>4. Position(lists[op[s].scanned], v) \in op[s].held /\ Position(lists[op[t].scanned], v) \in op[t].held
    BY <2>1, <2>2, <2>3 DEF Locks
  <2> QED
    BY <2>2, <2>4
<1> QED
  BY <1>1, TableInvariant, PTL

\* A statement on one row that fails has written nothing, unless the list of rows
\* was replaced while it ran.
THEOREM OneRowFailsClean == Spec => []FailuresOfOneRowAreClean
<1>1. TableInv => FailuresOfOneRowAreClean
  <2> SUFFICES ASSUME TableInv, NEW s \in Sessions, op[s].pc \in {"failed", "raised"}, op[s].wrote
               PROVE  op[s].many \/ op[s].scanned < Len(lists) \/ op[s].pc = "raised"
    BY DEF FailuresOfOneRowAreClean
  <2>1. InStatement(s)
    BY PcTells DEF TableInv
  <2> QED
    BY <2>1 DEF TableInv, StatementOK, Writes
<1> QED
  BY <1>1, TableInvariant, PTL

=============================================================================
