--------------------------- MODULE CatalogProofs ---------------------------
(***************************************************************************)
(* The tables in memory and their files, through CREATE, DROP, RENAME,     *)
(* INSERT, COMMIT and crashes: theorems for any threads, names, workload   *)
(* and bounds.                                                             *)
(***************************************************************************)
EXTENDS Catalog, FiniteSetTheorems, SequenceTheorems, WellFoundedInduction, TLAPS

-----------------------------------------------------------------------------
(***************************************************************************)
(* The state's shape. Of a thread that waits only that is of interest.     *)
(***************************************************************************)
Objects == DOMAIN heap
Window == {"popped", "renamed", "unlinked"}

Shape(t) ==
  \/ at[t].pc \in {"idle", "wait"}
  \/ \E lock : at[t] \in [pc : {"save"}, lock : {lock}, obj : Objects, row : Nat \cup {Nil}]
  \/ at[t] \in [pc : {"created"}, obj : Objects]
  \/ at[t] \in [pc : {"dropped"}, name : Names]
  \/ at[t] \in [pc : Window, obj : Objects, name : Names, new : Names]
  \/ at[t] \in [pc : Iterating, obj : Objects \cup {Nil}, pos : Nat \ {0}, size : Nat, left : Int]

Types ==
  /\ heap \in Seq([name : Names, rows : SUBSET Nat])
  /\ tables \in Seq(Nat \cup {Nil})
  /\ Listed \subseteq Objects
  /\ DOMAIN at = Threads /\ \A t \in Threads : Shape(t)
  /\ txn \in [Threads -> (SUBSET Nat) \cup {Nil}]
  /\ IsFiniteSet(DOMAIN disk) /\ DOMAIN disk \subseteq Names
  /\ \A n \in DOMAIN disk : disk[n] \subseteq Nat
  /\ nextRow \in Nat /\ kept \subseteq Nat /\ shifted \in BOOLEAN

\* One thread at a time defines tables, and one commits or rolls back.
Exclusive ==
  \A t, u \in Threads : t # u =>
    /\ at[t].pc \in EngineSteps => at[u].pc \notin EngineSteps
    /\ at[t].pc \in Iterating => at[u].pc \notin Iterating

\* A name has one table, the one under RENAME included; and what the dict has of
\* the table that a thread defines.
Dict ==
  /\ \A o, p \in Tables : heap[o].name = heap[p].name => o = p
  /\ \A t \in Threads :
       LET w == at[t] IN
       /\ w.pc = "created" => w.obj \in Listed
       /\ w.pc = "dropped" => w.name \notin NamesListed
       /\ w.pc \in Window => w.name # w.new /\ w.name \notin NamesListed
       /\ w.pc = "popped" => /\ w.obj \notin Listed /\ heap[w.obj].name = w.name
                             /\ w.new \notin NamesListed
       /\ w.pc \in {"renamed", "unlinked"} => w.obj \in Listed /\ heap[w.obj].name = w.new

\* A row is one insertion's: not of two transactions, not acknowledged while its
\* transaction is open, and while its statement runs in no other table.
RowInv ==
  /\ \A o \in Objects : \A r \in heap[o].rows : r < nextRow
  /\ \A n \in DOMAIN disk : \A r \in disk[n] : r < nextRow
  /\ \A r \in kept : r < nextRow
  /\ \A t \in Threads : txn[t] # Nil =>
       \A r \in txn[t] : /\ r < nextRow /\ r \notin kept
                         /\ \A u \in Threads : u # t /\ txn[u] # Nil => r \notin txn[u]
  /\ \A t \in Threads : at[t].pc = "save" /\ at[t].row # Nil =>
       /\ at[t].row < nextRow
       /\ \A u \in Threads : txn[u] # Nil => at[t].row \notin txn[u]
       /\ \A o \in Objects : at[t].row \in heap[o].rows => o = at[t].obj

-----------------------------------------------------------------------------
(***************************************************************************)
(* What is in the files.                                                   *)
(***************************************************************************)
InWindow(o) == \E t \in Threads : at[t].pc \in Window /\ at[t].obj = o

OnFile(r, o) ==
  \/ heap[o].name \in ghosts
  \/ heap[o].name \in DOMAIN disk /\ r \in disk[heap[o].name]

Safe(r, o) == InWindow(o) \/ OnFile(r, o)

Held(r, o) == Safe(r, o) \/ r \in skipped

\* An acknowledged row is in a table there is, and in its file, unless a COMMIT has
\* passed the table over.
KeptInv == \A r \in kept : \E o \in Tables : r \in heap[o].rows /\ Held(r, o)

\* What COMMIT has gone past is saved, but for the table it has in hand, as long as
\* the dict closes no hole.
Passed(t) ==
  /\ at[t].pc \in Iterating => txn[t] # Nil
  /\ at[t].pc = "flush" => at[t].obj \in Objects
  /\ at[t].pc \in CommitSteps /\ ~shifted =>
    /\ at[t].pos <= Len(tables) + 1
    /\ \A i \in DOMAIN tables :
         i < at[t].pos /\ tables[i] # Nil /\ (at[t].pc = "flush" => tables[i] # at[t].obj) =>
           \A r \in txn[t] \cap heap[tables[i]].rows : Safe(r, tables[i])

PassInv == \A t \in Threads : Passed(t)

\* A table without its file is being made or renamed, a file without its table is
\* a ghost's, or of the table that is being dropped or renamed.
FileInv ==
  /\ \A n \in NamesListed \ DOMAIN disk : \E t \in Threads :
       \/ at[t].pc = "created" /\ heap[at[t].obj].name = n
       \/ at[t].pc \in {"renamed", "unlinked"} /\ at[t].new = n
  /\ \A n \in DOMAIN disk \ NamesListed :
       \/ n \in ghosts
       \/ \E t \in Threads : at[t].pc \in {"dropped", "popped", "renamed"} /\ at[t].name = n

CatalogInv == Types /\ Exclusive /\ Dict /\ RowInv /\ KeptInv /\ PassInv /\ FileInv

-----------------------------------------------------------------------------
(***************************************************************************)
(* Facts about the operators.                                              *)
(***************************************************************************)
\* A set of numbers has a least one.
LEMMA MinIsLeast ==
  ASSUME NEW S \in SUBSET Nat, S # {}
  PROVE  Min(S) \in S /\ \A x \in S : Min(S) <= x
<1> DEFINE R == {ss \in Nat \X Nat : ss[1] < ss[2]}
<1>1. \E m \in S : \A y \in S : ~ (<<y, m>> \in R)
  <2>1. IsWellFoundedOn(R, Nat)
    BY NatLessThanWellFounded DEF OpToRel
  <2> HIDE DEF R
  <2> QED
    BY <2>1, WFMin
<1>2. PICK m \in S : \A y \in S : ~ (<<y, m>> \in R)
  BY <1>1
<1>3. \A y \in S : m <= y
  <2> TAKE y \in S
  <2>1. y \in Nat /\ m \in Nat
    OBVIOUS
  <2>2. ~ (y < m)
    BY <1>2, <2>1
  <2> QED
    BY <2>1, <2>2
<1> QED
  BY <1>2, <1>3 DEF Min

\* A sequence without repetitions, as long as a set and of its elements, has all
\* of them.
LEMMA SequenceOfSet ==
  ASSUME NEW S, IsFiniteSet(S), NEW f \in SetToSeqs(S)
  PROVE  /\ f \in Seq(S) /\ DOMAIN f = 1 .. Cardinality(S)
         /\ \A i, j \in DOMAIN f : f[i] = f[j] => i = j
         /\ \A e \in S : \E i \in DOMAIN f : f[i] = e
<1> DEFINE n == Cardinality(S)
<1>1. n \in Nat
  BY FS_CardinalityType
<1>2. f \in [1 .. n -> S] /\ \A i, j \in 1 .. n : i # j => f[i] # f[j]
  BY DEF SetToSeqs
<1>3. IsFiniteSet(1 .. n) /\ Cardinality(1 .. n) = n
  BY <1>1, FS_Interval
<1>4. f \in Injection(1 .. n, S)
  BY <1>2 DEF Injection, IsInjective
<1>5. f \in Surjection(1 .. n, S)
  BY <1>3, <1>4, FS_Injection
<1>6. f \in Seq(S)
  BY <1>1, <1>2
<1> QED
  BY <1>2, <1>5, <1>6 DEF Surjection

\* The dict has finitely many tables.
LEMMA ListedIsFinite ==
  ASSUME Types
  PROVE  IsFiniteSet(Listed)
<1> DEFINE n == Len(tables)
           T == {tables[i] : i \in 1 .. n}
           f == [i \in 1 .. n |-> tables[i]]
<1>1. n \in Nat /\ DOMAIN tables = 1 .. n
  BY DEF Types
<1>2. IsFiniteSet(1 .. n)
  BY <1>1, FS_Interval
<1>3. f \in Surjection(1 .. n, T)
  BY DEF Surjection
<1>4. IsFiniteSet(T)
  BY <1>2, <1>3, FS_Surjection
<1>5. Listed = T \ {Nil}
  BY <1>1 DEF Listed
<1> QED
  BY <1>4, <1>5, FS_RemoveElement

LEMMA TablesAreObjects ==
  ASSUME Types
  PROVE  /\ Tables \subseteq Objects /\ Listed \subseteq Tables
         /\ \A o \in Objects : heap[o].name \in Names /\ heap[o].rows \subseteq Nat
         /\ Objects = 1 .. Len(heap) /\ Len(heap) \in Nat
         /\ Nil \notin Objects
<1>1. Objects = 1 .. Len(heap) /\ Len(heap) \in Nat
  BY DEF Types, Objects
<1>2. ASSUME NEW t \in Threads, at[t].pc = "popped"
      PROVE  at[t].obj \in Objects
  BY <1>2 DEF Types, Shape, Window, CommitSteps, Iterating
<1>3. \A o \in Objects : heap[o].name \in Names /\ heap[o].rows \subseteq Nat
  <2>1. heap \in Seq([name : Names, rows : SUBSET Nat])
    BY DEF Types
  <2>2. \A o \in 1 .. Len(heap) : heap[o] \in [name : Names, rows : SUBSET Nat]
    BY <2>1, ElementOfSeq
  <2> QED
    BY <1>1, <2>2
<1>4. Nil \notin Objects
  BY <1>1, NilAssumption
<1> QED
  BY <1>1, <1>2, <1>3, <1>4 DEF Types, Tables

\* DROP and RENAME take their table out of the dict, in place.
LEMMA TakeOutTakesOne ==
  ASSUME Types, NEW o \in Listed, TakeOut(o)
  PROVE  /\ tables' \in Seq(Nat \cup {Nil})
         /\ Listed' = Listed \ {o}
         /\ DOMAIN tables' = DOMAIN tables /\ Len(tables') = Len(tables)
         /\ \A i \in DOMAIN tables : tables'[i] \in {tables[i], Nil} /\ tables'[i] # o
<1>1. tables' = [i \in DOMAIN tables |-> IF tables[i] = o THEN Nil ELSE tables[i]]
  BY DEF TakeOut
<1>2. DOMAIN tables' = 1 .. Len(tables) /\ Len(tables) \in Nat /\ DOMAIN tables = 1 .. Len(tables)
  BY <1>1 DEF Types
<1>3. \A i \in DOMAIN tables : tables[i] \in Nat \cup {Nil}
  BY DEF Types
<1>4. tables' \in Seq(Nat \cup {Nil}) /\ Len(tables') = Len(tables)
  BY <1>1, <1>2, <1>3
<1>5. Listed' = Listed \ {o}
  <2>1. Listed' = {tables'[i] : i \in DOMAIN tables'} \ {Nil}
    BY DEF Listed
  <2>2. o # Nil
    BY DEF Listed
  <2> QED
    BY <2>1, <2>2, <1>1 DEF Listed
<1>6. o # Nil
  BY DEF Listed
<1> QED
  BY <1>1, <1>4, <1>5, <1>6

\* What is appended to the dict is listed.
LEMMA AppendLists ==
  ASSUME Types, NEW o \in Nat, tables' = Append(tables, o)
  PROVE  /\ tables' \in Seq(Nat \cup {Nil})
         /\ Listed' = Listed \cup {o}
         /\ Len(tables') = Len(tables) + 1 /\ Len(tables) \in Nat
         /\ \A i \in DOMAIN tables : i \in DOMAIN tables' /\ tables'[i] = tables[i]
         /\ \A i \in DOMAIN tables' \ DOMAIN tables : i = Len(tables) + 1
<1>1. tables \in Seq(Nat \cup {Nil})
  BY DEF Types
<1>2. /\ tables' \in Seq(Nat \cup {Nil}) /\ Len(tables) \in Nat
      /\ Len(tables') = Len(tables) + 1
      /\ DOMAIN tables' = 1 .. (Len(tables) + 1) /\ DOMAIN tables = 1 .. Len(tables)
  BY <1>1
<1>3. /\ \A i \in 1 .. Len(tables) : tables'[i] = tables[i]
      /\ tables'[Len(tables) + 1] = o
  BY <1>1
<1>4. o # Nil
  BY NilAssumption
<1>5. Listed' = {tables'[i] : i \in DOMAIN tables'} \ {Nil}
  BY DEF Listed
<1>6. {tables'[i] : i \in DOMAIN tables'} = {tables[i] : i \in DOMAIN tables} \cup {o}
  BY <1>2, <1>3
<1> QED
  BY <1>2, <1>3, <1>4, <1>5, <1>6 DEF Listed

\* The same after the holes are closed.
LEMMA AppendToClosed ==
  ASSUME Types, NEW o \in Nat, NEW seq \in SetToSeqs(Listed), tables' = Append(seq, o)
  PROVE  /\ tables' \in Seq(Nat \cup {Nil})
         /\ Listed' = Listed \cup {o}
<1>1. Listed \subseteq Nat /\ Nil \notin Listed /\ o # Nil
  BY TablesAreObjects, NilAssumption DEF Listed, Types, Objects
<1>2. /\ seq \in Seq(Listed)
      /\ \A e \in Listed : \E i \in DOMAIN seq : seq[i] = e
  BY ListedIsFinite, SequenceOfSet
<1>3. Len(seq) \in Nat /\ DOMAIN seq = 1 .. Len(seq) /\ \A i \in DOMAIN seq : seq[i] \in Listed
  BY <1>2, ElementOfSeq
<1>4. seq \in Seq(Nat \cup {Nil})
  <2>1. seq = [i \in 1 .. Len(seq) |-> seq[i]] /\ \A i \in 1 .. Len(seq) : seq[i] \in Nat \cup {Nil}
    BY <1>1, <1>2, <1>3
  <2> QED
    BY <1>3, <2>1
<1>5. /\ tables' \in Seq(Nat \cup {Nil}) /\ DOMAIN tables' = 1 .. (Len(seq) + 1)
      /\ \A i \in 1 .. Len(seq) : tables'[i] = seq[i]
      /\ tables'[Len(seq) + 1] = o
  BY <1>4
<1>6. Listed' = {tables'[i] : i \in DOMAIN tables'} \ {Nil}
  BY DEF Listed
<1>7. {tables'[i] : i \in DOMAIN tables'} = {seq[i] : i \in DOMAIN seq} \cup {o}
  BY <1>3, <1>5
<1>8. {seq[i] : i \in DOMAIN seq} = Listed
  BY <1>2, <1>3
<1> QED
  BY <1>1, <1>5, <1>6, <1>7, <1>8

LEMMA RowsReplaced ==
  ASSUME Types, NEW o \in Objects, NEW S \in SUBSET Nat, heap' = [heap EXCEPT ![o].rows = S]
  PROVE  /\ Objects' = Objects
         /\ \A p \in Objects : /\ heap'[p].name = heap[p].name
                               /\ heap'[p].rows = IF p = o THEN S ELSE heap[p].rows
         /\ heap' \in Seq([name : Names, rows : SUBSET Nat])
<1> DEFINE R == [name : Names, rows : SUBSET Nat]
<1>1. heap \in Seq(R) /\ Objects = 1 .. Len(heap) /\ Len(heap) \in Nat
  BY TablesAreObjects DEF Types
<1>2. \A p \in Objects : heap[p] \in R
  BY <1>1, ElementOfSeq
<1>3. Objects' = Objects
  BY DEF Objects
<1>4. \A p \in Objects : /\ heap'[p] \in R
                        /\ heap'[p].name = heap[p].name
                        /\ heap'[p].rows = IF p = o THEN S ELSE heap[p].rows
  <2> TAKE p \in Objects
  <2>1. heap[p] \in R /\ heap'[p] = IF p = o THEN [heap[p] EXCEPT !.rows = S] ELSE heap[p]
    BY <1>2 DEF Objects
  <2> QED
    BY <2>1
<1>5. heap' \in [1 .. Len(heap) -> R]
  <2>1. heap' = [p \in Objects |-> heap'[p]]
    BY DEF Objects
  <2> HIDE DEF R
  <2> QED
    BY <1>1, <1>4, <2>1
<1>6. heap' \in Seq(R)
  <2> HIDE DEF R
  <2> QED
    BY <1>1, <1>5
<1> QED
  BY <1>3, <1>4, <1>6

LEMMA NamedIsListed ==
  ASSUME NEW n \in NamesListed
  PROVE  Named(n) \in Listed /\ heap[Named(n)].name = n
BY DEF NamesListed, Named

-----------------------------------------------------------------------------
(***************************************************************************)
(* What a step leaves alone.                                               *)
(***************************************************************************)
\* Only t moves, and no object gets another name or is lost.
Moves(t) ==
  /\ DOMAIN at' = Threads /\ \A u \in Threads : u # t => at'[u] = at[u]
  /\ Objects \subseteq Objects'
  /\ \A o \in Objects : heap'[o].name = heap[o].name

\* A step of t that does not define tables.
Outside(t) ==
  /\ Moves(t) /\ Objects' = Objects /\ tables' = tables
  /\ at[t].pc \notin EngineSteps /\ at'[t].pc \notin EngineSteps
  /\ at'[t].pc \in Iterating => ManagerFree \/ at[t].pc \in Iterating
  /\ shifted' = shifted \/ (shifted' = FALSE /\ at[t].pc \in CommitSteps)

FilesStay == UNCHANGED <<disk, ghosts>>
FilesChange == FilesStay \/ \E p \in Objects : Save(p)

\* A row that COMMIT has passed over stays so until it is on file.
Covered ==
  \A r \in skipped \ skipped' : heap' = heap /\ \E o \in Tables : r \in heap[o].rows /\ OnFile(r, o)'

LEMMA ShapesStay ==
  ASSUME Types, NEW t \in Threads, \A u \in Threads : u # t => at'[u] = at[u],
         Objects \subseteq Objects', Shape(t)'
  PROVE  \A u \in Threads : Shape(u)'
<1> SUFFICES ASSUME NEW u \in Threads, u # t
             PROVE  Shape(u)'
  OBVIOUS
<1>1. at'[u] = at[u] /\ Objects \subseteq Objects' /\ Shape(u)
  BY DEF Moves, Types
<1> QED
  BY <1>1 DEF Shape

LEMMA MovedAt ==
  ASSUME Types, NEW t \in Threads, NEW w, Goes(t, w)
  PROVE  /\ DOMAIN at' = Threads /\ at'[t] = w
         /\ \A u \in Threads : u # t => at'[u] = at[u]
BY DEF Types, Goes

LEMMA OutsideKeeps ==
  ASSUME Types, Exclusive, Dict, NEW t \in Threads, Outside(t)
  PROVE  /\ Listed' = Listed /\ Tables' = Tables /\ NamesListed' = NamesListed
         /\ \A o \in Objects : InWindow(o)' <=> InWindow(o)
         /\ Exclusive' /\ Dict'
<1>1. /\ \A u \in Threads : u # t => at'[u] = at[u]
      /\ \A o \in Objects : heap'[o].name = heap[o].name
      /\ at[t].pc \notin EngineSteps /\ at'[t].pc \notin EngineSteps
      /\ tables' = tables
  BY DEF Outside, Moves
<1>2. at[t].pc \notin Window /\ at'[t].pc \notin Window /\ at[t].pc # "popped" /\ at'[t].pc # "popped"
  BY <1>1 DEF EngineSteps, Window
<1>3. Listed' = Listed
  BY <1>1 DEF Listed
<1>4. Tables' = Tables
  BY <1>1, <1>2, <1>3 DEF Tables
<1>5. Tables \subseteq Objects /\ Listed \subseteq Tables
  BY TablesAreObjects
<1>6. NamesListed' = NamesListed
  BY <1>1, <1>3, <1>5 DEF NamesListed
<1>7. \A o \in Objects : InWindow(o)' <=> InWindow(o)
  BY <1>1, <1>2 DEF InWindow
<1>8. Exclusive'
  <2>1. at'[t].pc \in Iterating => \A u \in Threads : u # t => at[u].pc \notin Iterating
    BY DEF Outside, Exclusive, ManagerFree
  <2> QED
    BY <1>1, <2>1 DEF Exclusive
<1>9. Dict'
  <2>1. \A o, p \in Tables' : heap'[o].name = heap'[p].name => o = p
    BY <1>1, <1>4, <1>5 DEF Dict
  <2>2. ASSUME NEW u \in Threads, u # t
        PROVE  LET w == at'[u] IN
               /\ w.pc = "created" => w.obj \in Listed'
               /\ w.pc = "dropped" => w.name \notin NamesListed'
               /\ w.pc \in Window => w.name # w.new /\ w.name \notin NamesListed'
               /\ w.pc = "popped" => /\ w.obj \notin Listed' /\ heap'[w.obj].name = w.name
                                     /\ w.new \notin NamesListed'
               /\ w.pc \in {"renamed", "unlinked"} => w.obj \in Listed' /\ heap'[w.obj].name = w.new
    <3>1. at'[u] = at[u]
      BY <1>1, <2>2
    <3>2. at[u].pc = "popped" => at[u].obj \in Tables
      BY DEF Tables
    <3> QED
      BY <1>1, <1>3, <1>5, <1>6, <3>1, <3>2 DEF Dict
  <2>3. at'[t].pc \notin {"created", "dropped", "renamed", "unlinked"}
    BY <1>1 DEF EngineSteps
  <2> QED
    BY <1>2, <2>1, <2>2, <2>3 DEF Dict
<1> QED
  BY <1>3, <1>4, <1>6, <1>7, <1>8, <1>9

\* A save hides no row that is on file, and puts the saved table's rows there.
LEMMA SaveKeeps ==
  ASSUME Types, Dict, NEW p \in Objects, Save(p), heap' = heap,
         NEW o \in Tables, NEW r \in heap[o].rows, OnFile(r, o) \/ o = p
  PROVE  OnFile(r, o)'
<1>1. o \in Objects
  BY TablesAreObjects
<1>2. CASE heap[o].name = heap[p].name
  <2>1. CASE p \in Tables
    <3>1. o = p
      BY <1>2, <2>1 DEF Dict
    <3> QED
      BY <3>1 DEF Save, OnFile
  <2>2. CASE p \notin Tables
    BY <1>2, <2>2 DEF Save, OnFile
  <2> QED
    BY <2>1, <2>2
<1>3. CASE heap[o].name # heap[p].name
  <2>1. OnFile(r, o)
    BY <1>3
  <2>2. heap[o].name \in ghosts => heap[o].name \in ghosts'
    BY <1>3 DEF Save
  <2>3. heap[o].name \in DOMAIN disk => heap[o].name \in DOMAIN disk' /\ disk'[heap[o].name] = disk[heap[o].name]
    BY <1>3 DEF Save
  <2> QED
    BY <2>1, <2>2, <2>3 DEF OnFile
<1> QED
  BY <1>2, <1>3

LEMMA SaveCovers ==
  ASSUME NEW p, Save(p), heap' = heap
  PROVE  Covered
BY DEF Save, Covered, OnFile

LEMMA FilesChangeKeeps ==
  ASSUME Types, Dict, FilesStay \/ (heap' = heap /\ \E p \in Objects : Save(p)),
         NEW o \in Tables, heap'[o].name = heap[o].name, NEW r \in heap[o].rows, OnFile(r, o)
  PROVE  OnFile(r, o)'
BY SaveKeeps DEF FilesStay, OnFile

\* Types of the files.
LEMMA FilesAreTyped ==
  ASSUME Types, RowInv, FilesChange
  PROVE  /\ IsFiniteSet(DOMAIN disk') /\ DOMAIN disk' \subseteq Names
         /\ \A n \in DOMAIN disk' : disk'[n] \subseteq Nat
         /\ \A n \in DOMAIN disk' : \A r \in disk'[n] : r < nextRow
<1>1. CASE FilesStay
  BY <1>1 DEF FilesStay, Types, RowInv
<1>2. ASSUME NEW p \in Objects, Save(p)
      PROVE  /\ IsFiniteSet(DOMAIN disk') /\ DOMAIN disk' \subseteq Names
             /\ \A n \in DOMAIN disk' : disk'[n] \subseteq Nat
             /\ \A n \in DOMAIN disk' : \A r \in disk'[n] : r < nextRow
  <2>1. DOMAIN disk' = DOMAIN disk \cup {heap[p].name}
    BY <1>2 DEF Save
  <2>2. \A n \in DOMAIN disk' : disk'[n] = IF n = heap[p].name THEN heap[p].rows ELSE disk[n]
    BY <1>2 DEF Save
  <2>3. heap[p].name \in Names /\ heap[p].rows \subseteq Nat
    BY TablesAreObjects
  <2>4. IsFiniteSet(DOMAIN disk) /\ DOMAIN disk \subseteq Names
    BY DEF Types
  <2>5. IsFiniteSet(DOMAIN disk \cup {heap[p].name})
    BY <2>4, FS_AddElement
  <2>6. ASSUME NEW n \in DOMAIN disk'
        PROVE  disk'[n] \subseteq Nat /\ \A r \in disk'[n] : r < nextRow
    BY <2>1, <2>2, <2>3 DEF Types, RowInv
  <2> QED
    BY <2>1, <2>3, <2>4, <2>5, <2>6
<1> QED
  BY <1>1, <1>2 DEF FilesChange

\* Outside the statements that define tables, files come and go with their names.
LEMMA FilesStayOfTables ==
  ASSUME Types, Exclusive, Dict, FileInv, NEW t \in Threads, Outside(t), FilesChange
  PROVE  FileInv'
<1>1. NamesListed' = NamesListed /\ Tables' = Tables /\ Listed' = Listed
  BY OutsideKeeps
<1>2. /\ \A u \in Threads : u # t => at'[u] = at[u]
      /\ \A o \in Objects : heap'[o].name = heap[o].name
      /\ at[t].pc \notin EngineSteps /\ at'[t].pc \notin EngineSteps
  BY DEF Outside, Moves
<1>3. Tables \subseteq Objects
  BY TablesAreObjects
<1>4. ASSUME NEW u \in Threads, at[u].pc \in EngineSteps
      PROVE  at'[u] = at[u]
  BY <1>2, <1>4
<1>5. DOMAIN disk \subseteq DOMAIN disk'
  BY DEF FilesChange, FilesStay, Save
<1>6. ASSUME NEW n \in NamesListed' \ DOMAIN disk'
      PROVE  \E u \in Threads :
               \/ at'[u].pc = "created" /\ heap'[at'[u].obj].name = n
               \/ at'[u].pc \in {"renamed", "unlinked"} /\ at'[u].new = n
  <2>1. n \in NamesListed \ DOMAIN disk
    BY <1>1, <1>5, <1>6
  <2>2. PICK u \in Threads : \/ at[u].pc = "created" /\ heap[at[u].obj].name = n
                             \/ at[u].pc \in {"renamed", "unlinked"} /\ at[u].new = n
    BY <2>1 DEF FileInv
  <2>3. at'[u] = at[u]
    BY <1>4, <2>2 DEF EngineSteps
  <2>4. at[u].pc = "created" => at[u].obj \in Objects
    BY <1>3, TablesAreObjects DEF Dict
  <2> QED
    BY <1>2, <2>2, <2>3, <2>4
<1>7. ASSUME NEW n \in DOMAIN disk' \ NamesListed'
      PROVE  \/ n \in ghosts'
             \/ \E u \in Threads : at'[u].pc \in {"dropped", "popped", "renamed"} /\ at'[u].name = n
  <2>1. n \notin NamesListed
    BY <1>1, <1>7
  <2>2. ASSUME n \in DOMAIN disk, n \notin ghosts
        PROVE  \E u \in Threads : at'[u].pc \in {"dropped", "popped", "renamed"} /\ at'[u].name = n
    <3>1. PICK u \in Threads : at[u].pc \in {"dropped", "popped", "renamed"} /\ at[u].name = n
      BY <2>1, <2>2 DEF FileInv
    <3> QED
      BY <3>1, <1>4 DEF EngineSteps
  <2>3. CASE FilesStay
    BY <1>7, <2>2, <2>3 DEF FilesStay
  <2>4. ASSUME NEW p \in Objects, Save(p)
        PROVE  \/ n \in ghosts'
               \/ \E u \in Threads : at'[u].pc \in {"dropped", "popped", "renamed"} /\ at'[u].name = n
    <3>1. CASE n # heap[p].name
      <4>1. n \in DOMAIN disk /\ (n \in ghosts => n \in ghosts')
        BY <1>7, <2>4, <3>1 DEF Save
      <4> QED
        BY <4>1, <2>2
    <3>2. CASE n = heap[p].name /\ p \notin Tables
      BY <2>4, <3>2 DEF Save
    <3>3. CASE n = heap[p].name /\ p \in Tables
      <4>1. p \notin Listed
        BY <2>1, <3>3 DEF NamesListed
      <4>2. PICK u \in Threads : at[u].pc = "popped" /\ at[u].obj = p
        BY <3>3, <4>1 DEF Tables
      <4>3. at[u].name = n
        BY <3>3, <4>2 DEF Dict
      <4> QED
        BY <4>2, <4>3, <1>4 DEF EngineSteps
    <3> QED
      BY <3>1, <3>2, <3>3
  <2> QED
    BY <2>3, <2>4 DEF FilesChange
<1> QED
  BY <1>6, <1>7 DEF FileInv

\* What is safe stays so, outside the statements that define tables.
LEMMA SafeStays ==
  ASSUME Types, Exclusive, Dict, NEW t \in Threads, Outside(t),
         FilesStay \/ (heap' = heap /\ \E p \in Objects : Save(p)),
         NEW o \in Tables, NEW r \in heap[o].rows, Safe(r, o)
  PROVE  Safe(r, o)'
<1>1. o \in Objects
  BY TablesAreObjects
<1>2. heap'[o].name = heap[o].name
  BY <1>1 DEF Outside, Moves
<1>3. InWindow(o) => InWindow(o)'
  BY <1>1, OutsideKeeps
<1>4. OnFile(r, o) => OnFile(r, o)'
  BY <1>2, FilesChangeKeeps
<1> QED
  BY <1>3, <1>4 DEF Safe

\* A COMMIT under way is not disturbed by what other threads do to rows.
LEMMA OthersPass ==
  ASSUME Types, Exclusive, Dict, PassInv, NEW t \in Threads, Outside(t),
         FilesStay \/ (heap' = heap /\ \E p \in Objects : Save(p)),
         NEW u \in Threads, u # t, txn'[u] = txn[u],
         txn[u] # Nil => \A o \in Objects : txn[u] \cap heap'[o].rows \subseteq heap[o].rows
  PROVE  Passed(u)'
<1>1. at'[u] = at[u] /\ tables' = tables /\ Objects' = Objects
  BY DEF Outside, Moves
<1>2. Passed(u)
  BY DEF PassInv
<1>3. CASE at[u].pc \in CommitSteps /\ ~shifted
  <2>1. /\ txn[u] # Nil
        /\ at[u].pos <= Len(tables) + 1
        /\ at[u].pc = "flush" => at[u].obj \in Objects
    BY <1>2, <1>3 DEF Passed, Iterating
  <2>2. ASSUME NEW i \in DOMAIN tables, i < at[u].pos, tables[i] # Nil,
               at[u].pc = "flush" => tables[i] # at[u].obj,
               NEW r \in txn[u] \cap heap'[tables[i]].rows
        PROVE  Safe(r, tables[i])'
    <3>1. tables[i] \in Listed
      BY <2>2 DEF Listed
    <3>2. tables[i] \in Tables /\ tables[i] \in Objects
      BY <3>1, TablesAreObjects
    <3>3. r \in heap[tables[i]].rows
      BY <2>1, <2>2, <3>2
    <3>4. Safe(r, tables[i])
      BY <1>2, <1>3, <2>2, <3>3 DEF Passed
    <3>5. ASSUME NEW o \in Tables, o = tables[i]
          PROVE  Safe(r, o)'
      BY <3>3, <3>4, <3>5, SafeStays
    <3>6. tables[i] = tables'[i]
      BY <1>1
    <3> QED
      BY <3>2, <3>5, <3>6 DEF Safe, OnFile, InWindow
  <2> QED
    BY <1>1, <2>1, <2>2 DEF Passed
<1>4. CASE ~(at[u].pc \in CommitSteps /\ ~shifted)
  <2>1. at'[u].pc \in CommitSteps => shifted'
    BY <1>1, <1>4 DEF Outside, Exclusive, Iterating, Types
  <2> QED
    BY <1>1, <1>2, <2>1 DEF Passed
<1> QED
  BY <1>3, <1>4

\* A step outside the statements that define tables keeps the invariant if it does
\* so for the rows, and for the thread's own COMMIT.
LEMMA OutsideStep ==
  ASSUME CatalogInv, NEW t \in Threads, Outside(t), Shape(t)',
         heap' \in Seq([name : Names, rows : SUBSET Nat]),
         FilesStay \/ (heap' = heap /\ \E p \in Objects : Save(p)),
         txn' \in [Threads -> (SUBSET Nat) \cup {Nil}], nextRow' \in Nat, kept' \subseteq Nat,
         RowInv', Passed(t)',
         \A u \in Threads : u # t =>
           /\ txn'[u] = txn[u]
           /\ txn[u] # Nil => \A o \in Objects : txn[u] \cap heap'[o].rows \subseteq heap[o].rows,
         \A r \in kept' \cap kept : \A o \in Objects : r \in heap[o].rows => r \in heap'[o].rows,
         Covered, \A r \in kept' \ kept : \E o \in Tables : r \in heap'[o].rows /\ Held(r, o)'
  PROVE  CatalogInv'
<1>1. Types /\ Exclusive /\ Dict /\ RowInv /\ KeptInv /\ PassInv /\ FileInv
  BY DEF CatalogInv
<1>2. /\ Listed' = Listed /\ Tables' = Tables
      /\ Exclusive' /\ Dict'
  BY <1>1, OutsideKeeps
<1>3. FilesChange
  BY DEF FilesChange
<1>4. FileInv'
  BY <1>1, <1>3, FilesStayOfTables
<1>5. Types'
  <2>1. \A u \in Threads : Shape(u)'
    BY <1>1, ShapesStay DEF Outside, Moves
  <2>2. /\ IsFiniteSet(DOMAIN disk') /\ DOMAIN disk' \subseteq Names
        /\ \A n \in DOMAIN disk' : disk'[n] \subseteq Nat
    BY <1>1, <1>3, FilesAreTyped
  <2>3. tables' = tables /\ Objects' = Objects /\ DOMAIN at' = Threads /\ shifted' \in BOOLEAN
    BY <1>1 DEF Outside, Moves, Types
  <2> QED
    BY <1>1, <1>2, <2>1, <2>2, <2>3 DEF Types
<1>6. PassInv'
  <2> SUFFICES ASSUME NEW u \in Threads, u # t
               PROVE  Passed(u)'
    BY DEF PassInv
  <2> QED
    BY <1>1, OthersPass
<1>7. KeptInv'
  <2> SUFFICES ASSUME NEW r \in kept', r \in kept
               PROVE  \E o \in Tables' : r \in heap'[o].rows /\ Held(r, o)'
    BY <1>2 DEF KeptInv
  <2>1. PICK o \in Tables : r \in heap[o].rows /\ Held(r, o)
    BY <1>1 DEF KeptInv
  <2>2. o \in Objects
    BY <1>1, TablesAreObjects
  <2>3. r \in heap'[o].rows
    BY <2>1, <2>2
  <2>4. CASE Safe(r, o)
    <3>1. Safe(r, o)'
      BY <1>1, <2>1, <2>4, SafeStays
    <3> QED
      BY <1>2, <2>3, <3>1 DEF Held
  <2>5. CASE r \in skipped'
    BY <1>2, <2>3, <2>5 DEF Held
  <2>6. CASE r \in skipped \ skipped'
    BY <1>2, <2>6 DEF Covered, Held, Safe
  <2> QED
    BY <2>1, <2>4, <2>5, <2>6 DEF Held
<1> QED
  BY <1>2, <1>4, <1>5, <1>6, <1>7 DEF CatalogInv

-----------------------------------------------------------------------------
(***************************************************************************)
(* The statements that do not define tables.                               *)
(***************************************************************************)
\* Rows are as they were, but for those that are gone.
LEMMA RowsLeft ==
  ASSUME Types, RowInv, NEW t \in Threads, \A u \in Threads : u # t => at'[u] = at[u],
         at'[t].pc = "save" => at'[t].row = Nil, nextRow' = nextRow,
         \A n \in DOMAIN disk' : \A r \in disk'[n] : r < nextRow,
         \A o \in Objects' : heap'[o].rows = {} \/ (o \in Objects /\ heap'[o].rows \subseteq heap[o].rows),
         \A u \in Threads : txn'[u] \in {txn[u], {}, Nil},
         \A r \in kept' : r < nextRow /\ \A u \in Threads : txn'[u] = txn[u] /\ txn[u] # Nil => r \notin txn[u]
  PROVE  RowInv'
<1>2. \A o \in Objects' : \A r \in heap'[o].rows : r < nextRow'
  BY DEF RowInv
<1>3. ASSUME NEW u \in Threads, txn'[u] # Nil, NEW r \in txn'[u]
      PROVE  /\ r < nextRow' /\ r \notin kept'
             /\ \A v \in Threads : v # u /\ txn'[v] # Nil => r \notin txn'[v]
  <2>1. txn'[u] = txn[u]
    BY <1>3
  <2>2. /\ r < nextRow
        /\ \A v \in Threads : v # u /\ txn[v] # Nil => r \notin txn[v]
    BY <1>3, <2>1 DEF RowInv
  <2>3. \A v \in Threads : v # u /\ txn'[v] # Nil => r \notin txn'[v]
    BY <2>2
  <2> QED
    BY <1>3, <2>1, <2>2, <2>3
<1>4. ASSUME NEW u \in Threads, at'[u].pc = "save", at'[u].row # Nil
      PROVE  /\ at'[u].row < nextRow'
             /\ \A v \in Threads : txn'[v] # Nil => at'[u].row \notin txn'[v]
             /\ \A o \in Objects' : at'[u].row \in heap'[o].rows => o = at'[u].obj
  <2>1. at'[u] = at[u]
    BY <1>4
  <2>2. /\ at[u].row < nextRow
        /\ \A v \in Threads : txn[v] # Nil => at[u].row \notin txn[v]
        /\ \A o \in Objects : at[u].row \in heap[o].rows => o = at[u].obj
    BY <1>4, <2>1 DEF RowInv
  <2> QED
    BY <2>1, <2>2
<1> QED
  BY <1>2, <1>3, <1>4 DEF RowInv

LEMMA RowsStay ==
  ASSUME Types, RowInv, NEW t \in Threads, Moves(t), Objects' = Objects,
         at'[t].pc = "save" => at'[t].row = Nil, nextRow' = nextRow, FilesChange,
         \A o \in Objects : heap'[o].rows \subseteq heap[o].rows,
         \A u \in Threads : txn'[u] \in {txn[u], {}, Nil},
         \A r \in kept' : r < nextRow /\ \A u \in Threads : txn'[u] = txn[u] /\ txn[u] # Nil => r \notin txn[u]
  PROVE  RowInv'
BY FilesAreTyped, RowsLeft DEF Moves

LEMMA AskKeeps ==
  ASSUME CatalogInv, NEW t \in Threads, NEW op, NEW n \in Names, Ask(t, op, n)
  PROVE  CatalogInv'
<1>1. Types /\ Exclusive /\ Dict /\ RowInv /\ PassInv
  BY DEF CatalogInv
<1>2. /\ at[t].pc = "idle" /\ heap' = heap /\ tables' = tables /\ txn' = txn
      /\ nextRow' = nextRow /\ kept' = kept /\ FilesStay /\ shifted' = shifted /\ Covered
  BY DEF Ask, Free, Idle, FilesStay, Covered
<1>3. /\ DOMAIN at' = Threads /\ at'[t].pc = "wait"
      /\ \A u \in Threads : u # t => at'[u] = at[u]
  BY <1>1, MovedAt DEF Ask
<1>4. Outside(t)
  BY <1>2, <1>3 DEF Outside, Moves, EngineSteps, CommitSteps, Iterating, Objects
<1>5. Shape(t)'
  BY <1>3 DEF Shape
<1>6. RowInv'
  BY <1>1, <1>2, <1>3, <1>4, RowsStay DEF Outside, FilesChange, RowInv
<1>7. Passed(t)'
  BY <1>3 DEF Passed, CommitSteps, Iterating
<1> QED
  BY <1>2, <1>4, <1>5, <1>6, <1>7, OutsideStep DEF CatalogInv, Types

LEMMA SaveShape ==
  ASSUME Types, NEW t \in Threads, at[t].pc = "save"
  PROVE  at[t].obj \in Objects /\ at[t].row \in Nat \cup {Nil}
BY DEF Types, Shape, Window, CommitSteps, Iterating

LEMMA RunKeeps ==
  ASSUME CatalogInv, NEW t \in Threads, Run(t)
  PROVE  CatalogInv'
<1>1. Types /\ Exclusive /\ Dict /\ RowInv /\ KeptInv /\ PassInv
  BY DEF CatalogInv
<1>2. at[t].pc = "wait" /\ tables' = tables /\ FilesStay /\ shifted' = shifted /\ Covered
  BY DEF Run, FilesStay, Covered
<1>3. CASE at[t].name \notin NamesListed
  <2>1. Goes(t, Idle) /\ UNCHANGED <<heap, txn, nextRow, kept>>
    BY <1>3 DEF Run, AfterNoTable
  <2>2. DOMAIN at' = Threads /\ at'[t].pc = "idle" /\ \A u \in Threads : u # t => at'[u] = at[u]
    BY <1>1, <2>1, MovedAt DEF Idle
  <2>3. Outside(t)
    BY <1>2, <2>1, <2>2 DEF Outside, Moves, EngineSteps, CommitSteps, Iterating, Objects
  <2>4. Shape(t)' /\ Passed(t)'
    BY <2>2 DEF Shape, Passed, CommitSteps, Iterating
  <2>5. RowInv'
    BY <1>1, <1>2, <2>1, <2>2, <2>3, RowsStay DEF Outside, FilesChange, RowInv
  <2> QED
    BY <1>2, <2>1, <2>3, <2>4, <2>5, OutsideStep DEF CatalogInv, Types
<1>4. CASE at[t].name \in NamesListed
  <2> DEFINE o == Named(at[t].name)
  <2>1. o \in Listed
    BY <1>4, NamedIsListed
  <2>2. o \in Tables /\ o \in Objects /\ Objects = 1 .. Len(heap)
    BY <1>1, <2>1, TablesAreObjects
  <2>3. heap \in Seq([name : Names, rows : SUBSET Nat])
    BY <1>1 DEF Types
  <2>4. CASE at[t].op = "truncate" /\ heap' = [heap EXCEPT ![o].rows = {}]
    <3>1. /\ kept' = kept \ heap[o].rows /\ UNCHANGED <<txn, nextRow>>
          /\ Goes(t, [pc |-> "save", lock |-> at[t].lock, obj |-> o, row |-> Nil])
      BY <1>4, <2>4 DEF Run
    <3> HIDE DEF o
    <3>2. /\ DOMAIN at' = Threads /\ \A u \in Threads : u # t => at'[u] = at[u]
          /\ at'[t] = [pc |-> "save", lock |-> at[t].lock, obj |-> o, row |-> Nil]
      BY <1>1, <3>1, MovedAt
    <3>3. /\ Objects' = Objects
          /\ \A p \in Objects : heap'[p].name = heap[p].name /\ heap'[p].rows = IF p = o THEN {} ELSE heap[p].rows
      <4> DEFINE S == {}
      <4>1. heap' = [heap EXCEPT ![o].rows = S] /\ S \in SUBSET Nat
        BY <2>4
      <4> HIDE DEF S
      <4>2. /\ Objects' = Objects
            /\ \A p \in Objects : /\ heap'[p].name = heap[p].name
                                  /\ heap'[p].rows = IF p = o THEN S ELSE heap[p].rows
        BY <1>1, <2>2, <4>1, RowsReplaced
      <4> QED
        BY <4>2 DEF S
    <3>4. heap' \in Seq([name : Names, rows : SUBSET Nat])
      <4>1. {} \in SUBSET Nat
        OBVIOUS
      <4> QED
        BY <1>1, <2>2, <2>4, <4>1, RowsReplaced
    <3>5. Outside(t)
      BY <1>2, <3>2, <3>3 DEF Outside, Moves, EngineSteps, CommitSteps, Iterating
    <3>6. Shape(t)' /\ Passed(t)'
      BY <2>2, <3>2, <3>3 DEF Shape, Passed, CommitSteps, Iterating
    <3>7. RowInv'
      <4>1. \A r \in kept' : r < nextRow /\ \A u \in Threads : txn'[u] = txn[u] /\ txn[u] # Nil => r \notin txn[u]
        BY <1>1, <3>1 DEF RowInv
      <4>2. at'[t].pc = "save" => at'[t].row = Nil
        BY <3>2
      <4>3. Moves(t) /\ FilesChange
        BY <1>2, <3>5 DEF Outside, FilesChange
      <4>4. \A p \in Objects : heap'[p].rows \subseteq heap[p].rows
        BY <3>3
      <4> QED
        BY <1>1, <3>1, <3>3, <4>1, <4>2, <4>3, <4>4, RowsStay
    <3>8. \A p \in Objects : heap'[p].rows \subseteq heap[p].rows
      BY <3>3
    <3>9. \A r \in kept' \cap kept : \A p \in Objects : r \in heap[p].rows => r \in heap'[p].rows
      BY <3>1, <3>3
    <3>10. /\ txn' \in [Threads -> (SUBSET Nat) \cup {Nil}] /\ nextRow' \in Nat /\ kept' \subseteq Nat
           /\ kept' \subseteq kept
      BY <1>1, <3>1 DEF Types
    <3>11. \A u \in Threads : u # t =>
             /\ txn'[u] = txn[u]
             /\ txn[u] # Nil => \A p \in Objects : txn[u] \cap heap'[p].rows \subseteq heap[p].rows
      BY <3>1, <3>8
    <3> QED
      BY <1>2, <3>4, <3>5, <3>6, <3>7, <3>9, <3>10, <3>11, OutsideStep
  <2>5. CASE at[t].op = "insert" /\ heap' = [heap EXCEPT ![o].rows = @ \cup {nextRow}]
    <3>1. /\ kept' = kept /\ nextRow' = nextRow + 1
          /\ \/ /\ txn[t] = Nil /\ txn' = txn
                /\ Goes(t, [pc |-> "save", lock |-> at[t].lock, obj |-> o, row |-> nextRow])
             \/ /\ txn[t] # Nil /\ txn' = [txn EXCEPT ![t] = @ \cup {nextRow}]
                /\ Goes(t, Idle)
      BY <1>4, <2>5 DEF Run
    <3> HIDE DEF o
    <3>2. /\ DOMAIN at' = Threads /\ \A u \in Threads : u # t => at'[u] = at[u]
          /\ \/ at'[t].pc = "idle"
             \/ at'[t] = [pc |-> "save", lock |-> at[t].lock, obj |-> o, row |-> nextRow]
      BY <1>1, <3>1, MovedAt DEF Idle
    <3>4. nextRow \in Nat /\ nextRow' \in Nat /\ nextRow < nextRow'
      BY <1>1, <3>1 DEF Types
    <3>s. heap[o].rows \cup {nextRow} \in SUBSET Nat
      BY <1>1, <2>2, <3>4, TablesAreObjects
    <3>h. heap' = [heap EXCEPT ![o].rows = heap[o].rows \cup {nextRow}]
      BY <2>5
    <3>3. /\ Objects' = Objects
          /\ \A p \in Objects : /\ heap'[p].name = heap[p].name
                                /\ heap'[p].rows = IF p = o THEN heap[p].rows \cup {nextRow} ELSE heap[p].rows
      <4> DEFINE S == heap[o].rows \cup {nextRow}
      <4>1. heap' = [heap EXCEPT ![o].rows = S] /\ S \in SUBSET Nat
        BY <3>s, <3>h
      <4> HIDE DEF S
      <4>2. /\ Objects' = Objects
            /\ \A p \in Objects : /\ heap'[p].name = heap[p].name
                                  /\ heap'[p].rows = IF p = o THEN S ELSE heap[p].rows
        BY <1>1, <2>2, <4>1, RowsReplaced
      <4> QED
        BY <4>2 DEF S
    <3>5. heap' \in Seq([name : Names, rows : SUBSET Nat])
      BY <1>1, <2>2, <3>s, <3>h, RowsReplaced
    <3>p. at'[t].pc \in {"idle", "save"}
      BY <3>2
    <3>6. Outside(t)
      BY <1>2, <3>2, <3>3, <3>p DEF Outside, Moves, EngineSteps, CommitSteps, Iterating
    <3>7. Shape(t)' /\ Passed(t)'
      BY <2>2, <3>2, <3>3, <3>4 DEF Shape, Passed, CommitSteps, Iterating
    <3>8. \A u \in Threads : txn[u] # Nil => nextRow \notin txn[u] /\ txn[u] \subseteq Nat
      <4> SUFFICES ASSUME NEW u \in Threads, txn[u] # Nil
                   PROVE  nextRow \notin txn[u] /\ txn[u] \subseteq Nat
        OBVIOUS
      <4>1. txn[u] \subseteq Nat
        <5>1. txn \in [Threads -> (SUBSET Nat) \cup {Nil}]
          BY <1>1 DEF Types
        <5> QED
          BY <5>1
      <4>2. \A r \in txn[u] : r < nextRow
        BY <1>1 DEF RowInv
      <4> QED
        BY <3>4, <4>1, <4>2
    <3>9. txn' \in [Threads -> (SUBSET Nat) \cup {Nil}]
      BY <1>1, <3>1, <3>4, <3>8 DEF Types
    <3>10. \A u \in Threads : u # t =>
             /\ txn'[u] = txn[u]
             /\ txn[u] # Nil => \A p \in Objects : txn[u] \cap heap'[p].rows \subseteq heap[p].rows
      <4>1. \A u \in Threads : u # t => txn'[u] = txn[u]
        BY <1>1, <3>1 DEF Types
      <4> QED
        BY <3>3, <3>8, <4>1
    <3>11. RowInv'
      <4>1. \A r \in Nat : r < nextRow => r < nextRow'
        BY <3>1, <3>4
      <4>2. \A p \in Objects' : \A r \in heap'[p].rows : r < nextRow'
        <5> TAKE p \in Objects'
        <5> TAKE r \in heap'[p].rows
        <5>1. heap[p].rows \subseteq Nat
          BY <1>1, <3>3, TablesAreObjects
        <5>2. r \in heap[p].rows \/ r = nextRow
          BY <3>3
        <5> QED
          BY <1>1, <3>3, <3>4, <4>1, <5>1, <5>2 DEF RowInv
      <4>3. \A n \in DOMAIN disk' : \A r \in disk'[n] : r < nextRow'
        <5>1. disk' = disk
          BY <1>2 DEF FilesStay
        <5> QED
          BY <1>1, <4>1, <5>1 DEF RowInv, Types
      <4>4. \A r \in kept' : r < nextRow'
        BY <1>1, <3>1, <4>1 DEF RowInv, Types
      <4>5. nextRow \notin kept
        BY <1>1, <3>4 DEF RowInv, Types
      <4>6. \A u \in Threads : txn'[u] # Nil =>
              /\ txn[u] # Nil
              /\ \/ u # t /\ txn'[u] = txn[u]
                 \/ u = t /\ txn'[u] \subseteq txn[u] \cup {nextRow}
        BY <1>1, <3>1 DEF Types
      <4>7. ASSUME NEW u \in Threads, txn'[u] # Nil, NEW r \in txn'[u]
            PROVE  /\ r < nextRow' /\ r \notin kept'
                   /\ \A v \in Threads : v # u /\ txn'[v] # Nil => r \notin txn'[v]
        <5>1. CASE r \in txn[u]
          <6>1. /\ r < nextRow /\ r \notin kept /\ r \in Nat
                /\ \A v \in Threads : v # u /\ txn[v] # Nil => r \notin txn[v]
            BY <1>1, <3>8, <4>6, <4>7, <5>1 DEF RowInv
          <6>2. r # nextRow
            BY <3>4, <6>1
          <6>3. \A v \in Threads : v # u /\ txn'[v] # Nil => r \notin txn'[v]
            BY <4>6, <6>1, <6>2
          <6> QED
            BY <3>1, <4>1, <6>1, <6>3
        <5>2. CASE r \notin txn[u]
          <6>1. u = t /\ r = nextRow
            BY <4>6, <4>7, <5>2
          <6>2. \A v \in Threads : v # u /\ txn'[v] # Nil => r \notin txn'[v]
            BY <3>8, <4>6, <6>1
          <6> QED
            BY <3>1, <3>4, <4>5, <6>1, <6>2
        <5> QED
          BY <5>1, <5>2
      <4>8. ASSUME NEW u \in Threads, at'[u].pc = "save", at'[u].row # Nil
            PROVE  /\ at'[u].row < nextRow'
                   /\ \A v \in Threads : txn'[v] # Nil => at'[u].row \notin txn'[v]
                   /\ \A p \in Objects' : at'[u].row \in heap'[p].rows => p = at'[u].obj
        <5>1. CASE u # t
          <6>1. at'[u] = at[u]
            BY <3>2, <5>1
          <6>2. /\ at[u].row < nextRow /\ at[u].row \in Nat
                /\ \A v \in Threads : txn[v] # Nil => at[u].row \notin txn[v]
                /\ \A p \in Objects : at[u].row \in heap[p].rows => p = at[u].obj
            BY <1>1, <4>8, <6>1, SaveShape DEF RowInv
          <6>3. at[u].row # nextRow
            BY <3>4, <6>2
          <6>4. \A v \in Threads : txn'[v] # Nil => at'[u].row \notin txn'[v]
            BY <4>6, <6>1, <6>2, <6>3
          <6>5. \A p \in Objects' : at'[u].row \in heap'[p].rows => p = at'[u].obj
            BY <3>3, <6>1, <6>2, <6>3
          <6> QED
            BY <4>1, <6>1, <6>2, <6>4, <6>5
        <5>2. CASE u = t
          <6>1. at'[t].row = nextRow /\ at'[t].obj = o /\ txn' = txn
            BY <1>1, <3>1, <3>2, <4>8, <5>2, MovedAt DEF Idle
          <6>2. \A p \in Objects : nextRow \notin heap[p].rows
            <7> TAKE p \in Objects
            <7>1. heap[p].rows \subseteq Nat /\ \A r \in heap[p].rows : r < nextRow
              BY <1>1, TablesAreObjects DEF RowInv
            <7> QED
              BY <3>4, <7>1
          <6> QED
            BY <3>3, <3>4, <3>8, <5>2, <6>1, <6>2
        <5> QED
          BY <5>1, <5>2
      <4> QED
        BY <4>2, <4>3, <4>4, <4>7, <4>8 DEF RowInv
    <3>12. \A r \in kept' \cap kept : \A p \in Objects : r \in heap[p].rows => r \in heap'[p].rows
      BY <3>3
    <3>13. kept' \subseteq Nat /\ kept' \subseteq kept
      BY <1>1, <3>1 DEF Types
    <3> QED
      BY <1>2, <3>4, <3>5, <3>6, <3>7, <3>9, <3>10, <3>11, <3>12, <3>13, OutsideStep
  <2> QED
    BY <1>4, <2>4, <2>5 DEF Run
<1> QED
  BY <1>3, <1>4

LEMMA SaveAndAnswerKeeps ==
  ASSUME CatalogInv, NEW t \in Threads, SaveAndAnswer(t)
  PROVE  CatalogInv'
<1>1. Types /\ Exclusive /\ Dict /\ RowInv /\ KeptInv /\ PassInv
  BY DEF CatalogInv
<1>2. /\ at[t].pc = "save" /\ tables' = tables /\ heap' = heap /\ txn' = txn /\ nextRow' = nextRow
      /\ Save(at[t].obj) /\ kept' = kept \cup ({at[t].row} \cap Stored) /\ shifted' = shifted
  BY DEF SaveAndAnswer
<1>3. at[t].obj \in Objects
  BY <1>1, <1>2, SaveShape
<1>4. DOMAIN at' = Threads /\ at'[t].pc = "idle" /\ \A u \in Threads : u # t => at'[u] = at[u]
  BY <1>1, MovedAt DEF SaveAndAnswer, Idle
<1>5. Outside(t)
  BY <1>2, <1>4 DEF Outside, Moves, EngineSteps, CommitSteps, Iterating, Objects
<1>6. Shape(t)' /\ Passed(t)'
  BY <1>4 DEF Shape, Passed, CommitSteps, Iterating
<1>7. ASSUME NEW r \in kept', r \notin kept
      PROVE  /\ r = at[t].row /\ r \in Nat /\ r < nextRow
             /\ \A u \in Threads : txn[u] # Nil => r \notin txn[u]
             /\ \E o \in Tables : r \in heap[o].rows /\ OnFile(r, o)'
  <2>1. r = at[t].row /\ r \in Stored
    BY <1>2, <1>7
  <2>2. PICK o \in Tables : r \in heap[o].rows
    BY <2>1 DEF Stored
  <2>3. o \in Objects /\ heap[o].rows \subseteq Nat /\ Nil \notin Nat
    BY <1>1, TablesAreObjects, NilAssumption
  <2>4. /\ r # Nil /\ r < nextRow /\ o = at[t].obj
        /\ \A u \in Threads : txn[u] # Nil => r \notin txn[u]
    BY <1>1, <1>2, <2>1, <2>2, <2>3 DEF RowInv
  <2>5. OnFile(r, o)'
    BY <1>1, <1>2, <1>3, <2>2, <2>4, SaveKeeps
  <2> QED
    BY <2>1, <2>2, <2>3, <2>4, <2>5
<1>8. kept' \subseteq Nat
  BY <1>1, <1>7 DEF Types
<1>9. RowInv'
  <2>1. \A r \in kept' : r < nextRow /\ \A u \in Threads : txn'[u] = txn[u] /\ txn[u] # Nil => r \notin txn[u]
    BY <1>1, <1>7 DEF RowInv
  <2>2. FilesChange
    BY <1>2, <1>3 DEF FilesChange
  <2>3. \A o \in Objects : heap'[o].rows \subseteq heap[o].rows
    BY <1>2
  <2>4. Moves(t) /\ Objects' = Objects /\ at'[t].pc # "save"
    BY <1>4, <1>5 DEF Outside
  <2> QED
    BY <1>1, <1>2, <2>1, <2>2, <2>3, <2>4, RowsStay
<1>10. \A r \in kept' \ kept : \E o \in Tables : r \in heap'[o].rows /\ Held(r, o)'
  <2> TAKE r \in kept' \ kept
  <2>1. PICK o \in Tables : r \in heap[o].rows /\ OnFile(r, o)'
    BY <1>7
  <2>2. Held(r, o)'
    BY <2>1 DEF Safe, Held
  <2> QED
    BY <1>2, <2>1, <2>2
<1>11. /\ heap' \in Seq([name : Names, rows : SUBSET Nat])
       /\ txn' \in [Threads -> (SUBSET Nat) \cup {Nil}] /\ nextRow' \in Nat
       /\ heap' = heap /\ Covered /\ \E p \in Objects : Save(p)
  BY <1>1, <1>2, <1>3, SaveCovers DEF Types
<1> QED
  BY <1>2, <1>5, <1>6, <1>8, <1>9, <1>10, <1>11, OutsideStep

LEMMA BeginKeeps ==
  ASSUME CatalogInv, NEW t \in Threads, Begin(t)
  PROVE  CatalogInv'
<1>1. Types /\ Exclusive /\ Dict /\ RowInv /\ KeptInv /\ PassInv
  BY DEF CatalogInv
<1>2. /\ at[t].pc = "idle" /\ tables' = tables /\ heap' = heap /\ at' = at /\ nextRow' = nextRow
      /\ txn' = [txn EXCEPT ![t] = {}] /\ kept' = kept /\ FilesStay /\ shifted' = shifted /\ Covered
  BY DEF Begin, Free, Idle, FilesStay, Covered
<1>3. DOMAIN txn = Threads /\ txn \in [Threads -> (SUBSET Nat) \cup {Nil}]
  BY <1>1 DEF Types
<1>4. Outside(t)
  BY <1>1, <1>2 DEF Outside, Moves, EngineSteps, CommitSteps, Iterating, Objects, Types
<1>5. Shape(t)' /\ Passed(t)'
  BY <1>2 DEF Shape, Passed, CommitSteps, Iterating
<1>6. RowInv'
  <2>1. \A u \in Threads : txn'[u] \in {txn[u], {}, Nil}
    BY <1>2, <1>3
  <2>2. \A r \in kept' : r < nextRow /\ \A u \in Threads : txn'[u] = txn[u] /\ txn[u] # Nil => r \notin txn[u]
    BY <1>1, <1>2 DEF RowInv
  <2>3. \A o \in Objects : heap'[o].rows \subseteq heap[o].rows
    BY <1>2
  <2>4. Moves(t) /\ Objects' = Objects /\ FilesChange /\ at'[t].pc # "save"
    BY <1>2, <1>4 DEF Outside, FilesChange
  <2> QED
    BY <1>1, <1>2, <2>1, <2>2, <2>3, <2>4, RowsStay
<1>7. /\ heap' \in Seq([name : Names, rows : SUBSET Nat]) /\ nextRow' \in Nat /\ kept' \subseteq Nat
      /\ txn' \in [Threads -> (SUBSET Nat) \cup {Nil}]
      /\ \A u \in Threads : u # t => txn'[u] = txn[u]
  BY <1>1, <1>2, <1>3 DEF Types
<1> QED
  BY <1>2, <1>4, <1>5, <1>6, <1>7, OutsideStep

\* COMMIT and ROLLBACK start at the first entry, and have passed none.
LEMMA IterationKeeps ==
  ASSUME CatalogInv, NEW t \in Threads, Commit(t) \/ Rollback(t)
  PROVE  CatalogInv'
<1>1. Types /\ Exclusive /\ Dict /\ RowInv /\ KeptInv /\ PassInv
  BY DEF CatalogInv
<1> DEFINE n == Cardinality(Listed)
<1>2. PICK pc \in {"next", "undo"} : Goes(t, [pc |-> pc, obj |-> Nil, pos |-> 1, size |-> n, left |-> n])
  BY DEF Commit, Rollback, Iterator
<1>3. /\ at[t].pc = "idle" /\ tables' = tables /\ heap' = heap /\ nextRow' = nextRow /\ txn[t] # Nil
      /\ txn' = txn /\ kept' = kept /\ FilesStay /\ ManagerFree /\ shifted' = shifted /\ Covered
  BY DEF Commit, Rollback, Free, Idle, FilesStay, Covered
<1>4. n \in Nat
  BY <1>1, ListedIsFinite, FS_CardinalityType
<1> HIDE DEF n
<1>5. /\ DOMAIN at' = Threads /\ \A u \in Threads : u # t => at'[u] = at[u]
      /\ at'[t] = [pc |-> pc, obj |-> Nil, pos |-> 1, size |-> n, left |-> n]
  BY <1>1, <1>2, MovedAt
<1>6. Outside(t)
  BY <1>1, <1>3, <1>5 DEF Outside, Moves, EngineSteps, CommitSteps, Iterating, Objects, Types
<1>7. Shape(t)'
  BY <1>4, <1>5 DEF Shape, CommitSteps, Iterating
<1>8. Passed(t)'
  <2>1. Len(tables) \in Nat /\ DOMAIN tables = 1 .. Len(tables)
    BY <1>1 DEF Types
  <2>2. \A i \in DOMAIN tables' : ~(i < at'[t].pos)
    BY <1>3, <1>5, <2>1
  <2>3. at'[t].pos <= Len(tables') + 1 /\ at'[t].pc # "flush" /\ txn'[t] # Nil
    BY <1>3, <1>5, <2>1
  <2> QED
    BY <2>2, <2>3 DEF Passed
<1>9. RowInv'
  <2>1. Moves(t) /\ Objects' = Objects /\ FilesChange /\ at'[t].pc # "save"
    BY <1>3, <1>5, <1>6 DEF Outside, FilesChange
  <2>2. \A r \in kept' : r < nextRow /\ \A u \in Threads : txn'[u] = txn[u] /\ txn[u] # Nil => r \notin txn[u]
    BY <1>1, <1>3 DEF RowInv
  <2> QED
    BY <1>1, <1>3, <2>1, <2>2, RowsStay
<1> QED
  BY <1>1, <1>3, <1>6, <1>7, <1>8, <1>9, OutsideStep DEF Types

\* ROLLBACK takes rows of its transaction out, which nobody has been promised.
LEMMA UndoNextKeeps ==
  ASSUME CatalogInv, NEW t \in Threads, UndoNext(t)
  PROVE  CatalogInv'
<1>1. Types /\ Exclusive /\ Dict /\ RowInv /\ KeptInv /\ PassInv
  BY DEF CatalogInv
<1>2. /\ at[t].pc = "undo" /\ tables' = tables /\ nextRow' = nextRow
      /\ kept' = kept /\ FilesStay /\ shifted' = shifted /\ Covered
  BY DEF UndoNext, FilesStay, Covered
<1>3. txn \in [Threads -> (SUBSET Nat) \cup {Nil}] /\ txn[t] # Nil
  BY <1>1, <1>2 DEF Types, PassInv, Passed, Iterating
<1>4. /\ Objects' = Objects /\ heap' \in Seq([name : Names, rows : SUBSET Nat])
      /\ \A o \in Objects : /\ heap'[o].name = heap[o].name
                             /\ heap'[o].rows \subseteq heap[o].rows
                             /\ \A r \in heap[o].rows : r \in heap'[o].rows \/ r \in txn[t]
  <2>1. CASE heap' = heap
    BY <1>1, <2>1 DEF Types, Objects
  <2>2. CASE heap' # heap
    <3> DEFINE i == Min(Rest(t))
               o == tables[i]
               S == heap[o].rows \ txn[t]
    <3>1. /\ Rest(t) # {}
          /\ heap' = [heap EXCEPT ![o].rows = S]
      BY <2>2 DEF UndoNext, Following
    <3>2. Rest(t) \subseteq Nat
      BY <1>1 DEF Rest, Types
    <3>3. i \in Rest(t)
      BY <3>1, <3>2, MinIsLeast
    <3> HIDE DEF i
    <3>4. o \in Listed
      BY <3>3 DEF Rest, Listed
    <3> HIDE DEF o
    <3>5. o \in Objects /\ S \in SUBSET Nat
      BY <1>1, <3>4, TablesAreObjects
    <3> HIDE DEF S
    <3>6. /\ Objects' = Objects
          /\ \A p \in Objects : /\ heap'[p].name = heap[p].name
                                /\ heap'[p].rows = IF p = o THEN S ELSE heap[p].rows
          /\ heap' \in Seq([name : Names, rows : SUBSET Nat])
      BY <1>1, <3>1, <3>5, RowsReplaced
    <3> QED
      BY <3>6 DEF S
  <2> QED
    BY <2>1, <2>2
<1>5. \/ at'[t].pc = "idle" /\ txn'[t] \in {txn[t], Nil}
      \/ /\ at'[t].pc = "undo" /\ txn'[t] = txn[t]
         /\ at'[t] \in [pc : Iterating, obj : Objects \cup {Nil}, pos : Nat \ {0}, size : Nat, left : Int]
  <2>1. CASE IteratorRaises(t) \/ Rest(t) = {}
    <3>1. Goes(t, Idle) /\ txn' \in {txn, [txn EXCEPT ![t] = Nil]}
      BY <2>1 DEF UndoNext
    <3> QED
      BY <1>1, <1>3, <3>1, MovedAt DEF Idle
  <2>2. CASE ~(IteratorRaises(t) \/ Rest(t) = {})
    <3> DEFINE next == Min(Rest(t)) + 1
               rest == at[t].left - 1
    <3>1. Goes(t, [at[t] EXCEPT !.pos = next, !.left = rest]) /\ txn' = txn
      BY <2>2 DEF UndoNext, Further, Following
    <3>2. at[t] \in [pc : Iterating, obj : Objects \cup {Nil}, pos : Nat \ {0}, size : Nat, left : Int]
      BY <1>1, <1>2 DEF Types, Shape, Window, CommitSteps, Iterating
    <3>3. Rest(t) \subseteq Nat \ {0} /\ Rest(t) # {}
      BY <1>1, <2>2 DEF Rest, Types
    <3>4. next \in Nat \ {0} /\ rest \in Int
      <4>1. Min(Rest(t)) \in Nat \ {0}
        BY <3>3, MinIsLeast
      <4> QED
        BY <3>2, <4>1
    <3> HIDE DEF next, rest
    <3>5. at'[t] = [at[t] EXCEPT !.pos = next, !.left = rest]
      BY <1>1, <3>1, MovedAt
    <3> QED
      BY <1>2, <3>1, <3>2, <3>4, <3>5
  <2> QED
    BY <2>1, <2>2
<1>6. /\ DOMAIN at' = Threads /\ \A u \in Threads : u # t => at'[u] = at[u]
      /\ txn' \in [Threads -> (SUBSET Nat) \cup {Nil}]
      /\ \A u \in Threads : u # t => txn'[u] = txn[u]
  <2>1. txn' \in {txn, [txn EXCEPT ![t] = Nil]}
    BY DEF UndoNext
  <2>2. DOMAIN at' = Threads /\ \A u \in Threads : u # t => at'[u] = at[u]
    <3>1. \E w : Goes(t, w)
      BY DEF UndoNext
    <3> QED
      BY <1>1, <3>1, MovedAt
  <2> QED
    BY <1>3, <2>1, <2>2
<1>7. Outside(t)
  BY <1>2, <1>4, <1>5, <1>6 DEF Outside, Moves, EngineSteps, CommitSteps, Iterating
<1>8. Shape(t)' /\ Passed(t)'
  BY <1>3, <1>4, <1>5 DEF Shape, Passed, CommitSteps, Iterating
<1>9. RowInv'
  <2>1. \A u \in Threads : txn'[u] \in {txn[u], {}, Nil}
    BY <1>5, <1>6
  <2>2. \A r \in kept' : r < nextRow /\ \A u \in Threads : txn'[u] = txn[u] /\ txn[u] # Nil => r \notin txn[u]
    BY <1>1, <1>2 DEF RowInv
  <2>3. Moves(t) /\ FilesChange /\ at'[t].pc # "save"
    BY <1>2, <1>5, <1>7 DEF Outside, FilesChange
  <2>4. \A o \in Objects : heap'[o].rows \subseteq heap[o].rows
    BY <1>4
  <2> QED
    BY <1>1, <1>2, <1>4, <2>1, <2>2, <2>3, <2>4, RowsStay
<1>10. \A r \in kept' \cap kept : \A o \in Objects : r \in heap[o].rows => r \in heap'[o].rows
  BY <1>1, <1>2, <1>3, <1>4 DEF RowInv
<1>11. \A u \in Threads : u # t =>
         /\ txn'[u] = txn[u]
         /\ txn[u] # Nil => \A o \in Objects : txn[u] \cap heap'[o].rows \subseteq heap[o].rows
  BY <1>4, <1>6
<1>12. nextRow' \in Nat /\ kept' \subseteq Nat /\ kept' \subseteq kept
  BY <1>1, <1>2 DEF Types
<1> QED
  BY <1>2, <1>4, <1>6, <1>7, <1>8, <1>9, <1>10, <1>11, <1>12, OutsideStep

LEMMA NextTableKeeps ==
  ASSUME CatalogInv, NEW t \in Threads, NextTable(t)
  PROVE  CatalogInv'
<1>1. Types /\ Exclusive /\ Dict /\ RowInv /\ KeptInv /\ PassInv
  BY DEF CatalogInv
<1>2. /\ at[t].pc = "next" /\ tables' = tables /\ heap' = heap /\ nextRow' = nextRow /\ FilesStay
  BY DEF NextTable, FilesStay
<1>3. DOMAIN txn = Threads /\ txn \in [Threads -> (SUBSET Nat) \cup {Nil}]
  BY <1>1 DEF Types
<1>4. Passed(t) /\ at[t].pc \in CommitSteps
  BY <1>1, <1>2 DEF PassInv, CommitSteps, Iterating
<1>5. at[t] \in [pc : Iterating, obj : Objects \cup {Nil}, pos : Nat \ {0}, size : Nat, left : Int]
  BY <1>1, <1>2 DEF Types, Shape, Window
<1>6. Len(tables) \in Nat /\ DOMAIN tables = 1 .. Len(tables)
  BY <1>1 DEF Types
<1>7. CASE IteratorRaises(t) \/ Rest(t) = {}
  <2>1. /\ Goes(t, Idle) /\ txn' = [txn EXCEPT ![t] = Nil]
        /\ kept' = IF IteratorRaises(t) THEN kept ELSE kept \cup (txn[t] \cap Stored)
        /\ shifted' = FALSE /\ skipped \subseteq skipped'
        /\ ~IteratorRaises(t) /\ shifted => txn[t] \cap UNION {Unsaved(o) : o \in Tables} \subseteq skipped'
    BY <1>7 DEF NextTable
  <2>c. Covered
    BY <2>1 DEF Covered
  <2>2. DOMAIN at' = Threads /\ at'[t].pc = "idle" /\ \A u \in Threads : u # t => at'[u] = at[u]
    BY <1>1, <2>1, MovedAt DEF Idle
  <2>3. Outside(t)
    BY <1>2, <2>1, <2>2, <1>4 DEF Outside, Moves, EngineSteps, CommitSteps, Iterating, Objects
  <2>4. Shape(t)' /\ Passed(t)'
    BY <2>2 DEF Shape, Passed, CommitSteps, Iterating
  <2>5. ASSUME NEW r \in kept', r \notin kept
        PROVE  /\ r \in txn[t] /\ txn[t] # Nil /\ r \in Nat
               /\ \E o \in Tables : r \in heap[o].rows /\ (Safe(r, o) \/ r \in skipped')
    <3>1. Rest(t) = {} /\ r \in txn[t] /\ r \in Stored /\ ~IteratorRaises(t)
      BY <1>7, <2>1, <2>5
    <3>2. txn[t] # Nil
      BY <1>4 DEF Passed, Iterating
    <3>3. r \in Nat
      BY <1>3, <3>1, <3>2
    <3>4. PICK o \in Tables : r \in heap[o].rows
      BY <3>1 DEF Stored
    <3>7. CASE shifted
      <4>1. r \in Unsaved(o) => r \in skipped'
        BY <2>1, <3>1, <3>7
      <4>2. r \notin Unsaved(o) => OnFile(r, o)
        BY <3>4 DEF Unsaved, OnFile
      <4> QED
        BY <3>1, <3>2, <3>3, <3>4, <4>1, <4>2 DEF Safe
    <3>5. CASE o \in Listed /\ ~shifted
      <4>1. PICK i \in DOMAIN tables : tables[i] = o /\ tables[i] # Nil
        BY <3>5 DEF Listed
      <4>2. i < at[t].pos
        <5>1. ~(i >= at[t].pos)
          BY <3>1, <4>1 DEF Rest
        <5>2. i \in Nat /\ at[t].pos \in Nat
          BY <1>5, <1>6
        <5> QED
          BY <5>1, <5>2
      <4>3. \A q \in txn[t] \cap heap[tables[i]].rows : Safe(q, tables[i])
        BY <1>2, <1>4, <3>5, <4>1, <4>2 DEF Passed
      <4>4. r \in txn[t] \cap heap[tables[i]].rows
        BY <3>1, <3>4, <4>1
      <4> QED
        BY <3>1, <3>2, <3>3, <3>4, <4>1, <4>3, <4>4
    <3>6. CASE o \notin Listed
      <4>1. InWindow(o)
        BY <3>4, <3>6 DEF Tables, InWindow, Window
      <4> QED
        BY <3>1, <3>2, <3>3, <3>4, <4>1 DEF Safe
    <3> QED
      BY <1>1, <3>5, <3>6, <3>7 DEF Types
  <2>6. \A r \in kept' \ kept : \E o \in Tables : r \in heap'[o].rows /\ Held(r, o)'
    <3> TAKE r \in kept' \ kept
    <3>1. PICK o \in Tables : r \in heap[o].rows /\ (Safe(r, o) \/ r \in skipped')
      BY <2>5
    <3>2. Safe(r, o) => Safe(r, o)'
      BY <1>1, <1>2, <2>3, <3>1, SafeStays
    <3> QED
      BY <1>2, <3>1, <3>2 DEF Held
  <2>7. RowInv'
    <3>1. \A u \in Threads : txn'[u] \in {txn[u], {}, Nil} /\ (u # t => txn'[u] = txn[u]) /\ txn'[t] = Nil
      BY <1>3, <2>1
    <3>2. ASSUME NEW r \in kept'
          PROVE  r < nextRow /\ \A u \in Threads : txn'[u] = txn[u] /\ txn[u] # Nil => r \notin txn[u]
      <4>1. CASE r \in kept
        BY <1>1, <4>1 DEF RowInv
      <4>2. CASE r \notin kept
        <5>1. r \in txn[t] /\ txn[t] # Nil
          BY <2>5, <4>2
        <5>2. /\ r < nextRow
              /\ \A u \in Threads : u # t /\ txn[u] # Nil => r \notin txn[u]
          BY <1>1, <5>1 DEF RowInv
        <5> QED
          BY <3>1, <5>1, <5>2
      <4> QED
        BY <4>1, <4>2
    <3>3. Moves(t) /\ Objects' = Objects /\ FilesChange /\ at'[t].pc # "save"
      BY <1>2, <2>2, <2>3 DEF Outside, FilesChange
    <3> QED
      BY <1>1, <1>2, <3>1, <3>2, <3>3, RowsStay
  <2>8. /\ txn' \in [Threads -> (SUBSET Nat) \cup {Nil}] /\ kept' \subseteq Nat /\ nextRow' \in Nat
        /\ heap' \in Seq([name : Names, rows : SUBSET Nat])
        /\ \A u \in Threads : u # t => txn'[u] = txn[u]
    BY <1>1, <1>2, <1>3, <2>1, <2>5 DEF Types
  <2> QED
    BY <1>2, <2>c, <2>3, <2>4, <2>6, <2>7, <2>8, OutsideStep
<1>8. CASE ~(IteratorRaises(t) \/ Rest(t) = {})
  <2> DEFINE i == Min(Rest(t))
  <2>1. /\ Goes(t, [at[t] EXCEPT !.pc = "flush", !.obj = tables[i], !.pos = i + 1, !.left = @ - 1])
        /\ txn' = txn /\ kept' = kept /\ shifted' = shifted /\ Covered
    BY <1>8 DEF NextTable, Following, Further, Covered
  <2>2. Rest(t) \subseteq Nat /\ Rest(t) # {}
    BY <1>6, <1>8 DEF Rest
  <2>3. i \in Rest(t) /\ \A j \in Rest(t) : i <= j
    BY <2>2, MinIsLeast
  <2> HIDE DEF i
  <2>4. i \in DOMAIN tables /\ tables[i] # Nil /\ tables[i] \in Listed /\ i \in Nat
    BY <1>6, <2>3 DEF Rest, Listed
  <2>5. tables[i] \in Objects
    BY <1>1, <2>4, TablesAreObjects
  <2>6. /\ DOMAIN at' = Threads /\ \A u \in Threads : u # t => at'[u] = at[u]
        /\ at'[t] = [at[t] EXCEPT !.pc = "flush", !.obj = tables[i], !.pos = i + 1, !.left = at[t].left - 1]
    BY <1>1, <2>1, MovedAt
  <2>7. /\ at'[t].pc = "flush" /\ at'[t].obj = tables[i] /\ at'[t].pos = i + 1
        /\ at'[t] \in [pc : Iterating, obj : Objects \cup {Nil}, pos : Nat \ {0}, size : Nat, left : Int]
    <3> DEFINE next == i + 1
               rest == at[t].left - 1
    <3>1. next \in Nat \ {0} /\ rest \in Int
      BY <1>5, <2>4
    <3>2. at'[t] = [at[t] EXCEPT !.pc = "flush", !.obj = tables[i], !.pos = next, !.left = rest]
      BY <2>6
    <3> HIDE DEF next, rest
    <3>3. /\ at'[t].pc = "flush" /\ at'[t].obj = tables[i] /\ at'[t].pos = next
          /\ at'[t] \in [pc : Iterating, obj : Objects \cup {Nil}, pos : Nat \ {0}, size : Nat, left : Int]
      BY <1>5, <2>5, <3>1, <3>2 DEF CommitSteps, Iterating
    <3> QED
      BY <3>3 DEF next
  <2>8. Outside(t)
    BY <1>2, <1>4, <2>1, <2>6, <2>7 DEF Outside, Moves, EngineSteps, CommitSteps, Iterating, Objects
  <2>9. Shape(t)'
    BY <1>2, <2>7 DEF Shape, Objects
  <2>10. Passed(t)'
    <3>1. txn'[t] # Nil
      BY <1>4, <2>1 DEF Passed, Iterating
    <3>2. at'[t].pos <= Len(tables') + 1
      BY <1>2, <1>6, <2>4, <2>7
    <3>3. ASSUME ~shifted, NEW j \in DOMAIN tables, j < i + 1, tables[j] # Nil, tables[j] # tables[i],
                 NEW r \in txn[t] \cap heap[tables[j]].rows
          PROVE  Safe(r, tables[j])
      <4>1. j < at[t].pos
        <5>1. j \in Nat /\ at[t].pos \in Nat
          BY <1>5, <1>6
        <5>2. j # i
          BY <3>3
        <5>3. j \notin Rest(t)
          BY <2>3, <2>4, <3>3, <5>1, <5>2
        <5>4. ~(j >= at[t].pos)
          BY <3>3, <5>3 DEF Rest
        <5> QED
          BY <5>1, <5>4
      <4> QED
        BY <1>2, <1>4, <3>3, <4>1 DEF Passed
    <3>4. ASSUME ~shifted, NEW j \in DOMAIN tables, j < i + 1, tables[j] # Nil, tables[j] # tables[i],
                 NEW r \in txn[t] \cap heap[tables[j]].rows
          PROVE  Safe(r, tables[j])'
      <4>1. tables[j] \in Listed
        BY <3>4 DEF Listed
      <4>2. tables[j] \in Tables
        BY <1>1, <4>1, TablesAreObjects
      <4>3. ASSUME NEW o \in Tables, o = tables[j]
            PROVE  Safe(r, o)'
        BY <1>1, <1>2, <2>8, <3>3, <3>4, <4>3, SafeStays
      <4> QED
        BY <1>2, <4>2, <4>3 DEF Safe, OnFile, InWindow
    <3> QED
      BY <1>2, <2>1, <2>5, <2>7, <3>1, <3>2, <3>4 DEF Passed, Objects
  <2>11. RowInv'
    <3>1. Moves(t) /\ Objects' = Objects /\ FilesChange /\ at'[t].pc # "save"
      BY <1>2, <2>7, <2>8 DEF Outside, FilesChange
    <3>2. \A r \in kept' : r < nextRow /\ \A u \in Threads : txn'[u] = txn[u] /\ txn[u] # Nil => r \notin txn[u]
      BY <1>1, <2>1 DEF RowInv
    <3> QED
      BY <1>1, <1>2, <2>1, <3>1, <3>2, RowsStay
  <2> QED
    BY <1>1, <1>2, <2>1, <2>8, <2>9, <2>10, <2>11, OutsideStep DEF Types
<1> QED
  BY <1>7, <1>8

LEMMA FlushKeeps ==
  ASSUME CatalogInv, NEW t \in Threads, Flush(t)
  PROVE  CatalogInv'
<1>1. Types /\ Exclusive /\ Dict /\ RowInv /\ KeptInv /\ PassInv
  BY DEF CatalogInv
<1>2. /\ at[t].pc = "flush" /\ tables' = tables /\ heap' = heap /\ nextRow' = nextRow
      /\ txn' = txn /\ kept' = kept /\ Save(at[t].obj) /\ shifted' = shifted /\ Covered
  BY SaveCovers DEF Flush
<1>3. Passed(t) /\ at[t].pc \in CommitSteps
  BY <1>1, <1>2 DEF PassInv, CommitSteps, Iterating
<1>4. at[t] \in [pc : Iterating, obj : Objects \cup {Nil}, pos : Nat \ {0}, size : Nat, left : Int]
  BY <1>1, <1>2 DEF Types, Shape, Window
<1>5. at[t].obj \in Objects
  BY <1>2, <1>3 DEF Passed
<1>6. /\ DOMAIN at' = Threads /\ \A u \in Threads : u # t => at'[u] = at[u]
      /\ at'[t] = [at[t] EXCEPT !.pc = "next"]
  BY <1>1, MovedAt DEF Flush
<1>7. /\ at'[t].pc = "next" /\ at'[t].pos = at[t].pos
      /\ at'[t] \in [pc : Iterating, obj : Objects \cup {Nil}, pos : Nat \ {0}, size : Nat, left : Int]
  BY <1>4, <1>6 DEF CommitSteps, Iterating
<1>8. Outside(t)
  BY <1>2, <1>3, <1>6, <1>7 DEF Outside, Moves, EngineSteps, CommitSteps, Iterating, Objects
<1>9. Shape(t)'
  BY <1>2, <1>7 DEF Shape, Objects
<1>10. Passed(t)'
  <2>1. ASSUME ~shifted, NEW i \in DOMAIN tables, i < at[t].pos, tables[i] # Nil,
               NEW r \in txn[t] \cap heap[tables[i]].rows
        PROVE  Safe(r, tables[i])'
    <3>1. tables[i] \in Listed
      BY <2>1 DEF Listed
    <3>2. tables[i] \in Tables
      BY <1>1, <3>1, TablesAreObjects
    <3>3. ASSUME NEW o \in Tables, o = tables[i]
          PROVE  Safe(r, o)'
      <4>1. CASE o = at[t].obj
        BY <1>1, <1>2, <1>5, <2>1, <3>3, <4>1, SaveKeeps DEF Safe
      <4>2. CASE o # at[t].obj
        <5>1. Safe(r, o)
          BY <1>3, <2>1, <3>3, <4>2 DEF Passed
        <5> QED
          BY <1>1, <1>2, <1>5, <1>8, <2>1, <3>3, <5>1, SafeStays
      <4> QED
        BY <4>1, <4>2
    <3> QED
      BY <1>2, <3>2, <3>3 DEF Safe, OnFile, InWindow
  <2>2. txn[t] # Nil /\ (~shifted => at[t].pos <= Len(tables) + 1)
    BY <1>3 DEF Passed, Iterating
  <2> QED
    BY <1>2, <1>7, <2>1, <2>2 DEF Passed
<1>11. RowInv'
  <2>1. Moves(t) /\ Objects' = Objects /\ FilesChange /\ at'[t].pc # "save"
    BY <1>2, <1>5, <1>7, <1>8 DEF Outside, FilesChange
  <2>2. \A r \in kept' : r < nextRow /\ \A u \in Threads : txn'[u] = txn[u] /\ txn[u] # Nil => r \notin txn[u]
    BY <1>1, <1>2 DEF RowInv
  <2> QED
    BY <1>1, <1>2, <2>1, <2>2, RowsStay
<1> QED
  BY <1>1, <1>2, <1>5, <1>8, <1>9, <1>10, <1>11, OutsideStep DEF Types

-----------------------------------------------------------------------------
(***************************************************************************)
(* The statements that define tables.                                      *)
(***************************************************************************)
\* Where nobody but t defines tables.
LEMMA OnlyDefiner ==
  ASSUME NEW t \in Threads, \A u \in Threads : u # t => at[u].pc \notin EngineSteps
  PROVE  /\ Tables = Listed \cup (IF at[t].pc = "popped" THEN {at[t].obj} ELSE {})
         /\ \A o : InWindow(o) <=> at[t].pc \in Window /\ at[t].obj = o
BY DEF Tables, InWindow, EngineSteps, Window

LEMMA OnlyDefinerNext ==
  ASSUME NEW t \in Threads, \A u \in Threads : u # t => at'[u].pc \notin EngineSteps
  PROVE  /\ Tables' = Listed' \cup (IF at'[t].pc = "popped" THEN {at'[t].obj} ELSE {})
         /\ \A o : InWindow(o)' <=> at'[t].pc \in Window /\ at'[t].obj = o
BY DEF Tables, InWindow, EngineSteps, Window

LEMMA OthersDefineNothing ==
  ASSUME Exclusive, NEW t \in Threads, at[t].pc \in EngineSteps \/ EngineFree
  PROVE  \A u \in Threads : u # t => at[u].pc \notin EngineSteps
BY DEF Exclusive, EngineFree

\* The dict as a COMMIT sees it: entries become holes, one may be added at the end,
\* or the holes are closed.
Edited ==
  (\E u \in Threads : at[u].pc \in CommitSteps) /\ ~shifted' =>
    /\ ~shifted
    /\ Len(tables) <= Len(tables')
    /\ \A i \in DOMAIN tables' : \/ i \in DOMAIN tables /\ tables'[i] \in {tables[i], Nil}
                                 \/ i = Len(tables) + 1

\* A table is put into the dict.
LEMMA PutInPuts ==
  ASSUME Types, NEW o \in Nat, PutIn(o)
  PROVE  /\ tables' \in Seq(Nat \cup {Nil}) /\ Listed' = Listed \cup {o}
         /\ shifted' \in BOOLEAN /\ Edited
<1>1. CASE tables' = Append(tables, o) /\ UNCHANGED shifted
  BY <1>1, AppendLists DEF Edited, Types
<1>2. CASE /\ \E seq \in SetToSeqs(Listed) : tables' = Append(seq, o)
           /\ shifted' = (shifted \/ \E t \in Threads : at[t].pc \in CommitSteps)
  <2>1. tables' \in Seq(Nat \cup {Nil}) /\ Listed' = Listed \cup {o}
    BY <1>2, AppendToClosed
  <2>2. Edited /\ shifted' \in BOOLEAN
    BY <1>2 DEF Edited
  <2> QED
    BY <2>1, <2>2
<1> QED
  BY <1>1, <1>2 DEF PutIn

\* A step of a statement that defines tables keeps the invariant if it does so for
\* the names and files, and for the rows in them.
LEMMA DefinerStep ==
  ASSUME CatalogInv, NEW t \in Threads,
         DOMAIN at' = Threads, \A u \in Threads : u # t => at'[u] = at[u] /\ at[u].pc \notin EngineSteps,
         at'[t].pc \notin Iterating, at'[t].pc # "save", Shape(t)', shifted' \in BOOLEAN, Covered,
         heap' \in Seq([name : Names, rows : SUBSET Nat]), Objects \subseteq Objects',
         \A o \in Objects : heap'[o].rows = heap[o].rows, \A o \in Objects' \ Objects : heap'[o].rows = {},
         tables' \in Seq(Nat \cup {Nil}), Listed' \subseteq Objects', Edited,
         UNCHANGED <<txn, nextRow>>, kept' \subseteq kept,
         IsFiniteSet(DOMAIN disk'), DOMAIN disk' \subseteq Names,
         \A n \in DOMAIN disk' : disk'[n] \subseteq Nat /\ \A r \in disk'[n] : r < nextRow,
         Dict', FileInv',
         \A o \in Tables \cap Tables' : \A r \in heap[o].rows : Safe(r, o) => Safe(r, o)',
         \A r \in kept' : \A o \in Tables : r \in heap[o].rows => o \in Tables'
  PROVE  CatalogInv'
<1>1. Types /\ Exclusive /\ Dict /\ RowInv /\ KeptInv /\ PassInv
  BY DEF CatalogInv
<1>2. Types'
  <2>1. \A u \in Threads : Shape(u)'
    BY <1>1, ShapesStay
  <2> QED
    BY <1>1, <2>1 DEF Types
<1>3. Exclusive'
  BY <1>1 DEF Exclusive
<1>4. RowInv'
  <2>1. \A o \in Objects' : heap'[o].rows = {} \/ (o \in Objects /\ heap'[o].rows \subseteq heap[o].rows)
    OBVIOUS
  <2>2. \A r \in kept' : r < nextRow /\ \A u \in Threads : txn'[u] = txn[u] /\ txn[u] # Nil => r \notin txn[u]
    BY <1>1 DEF RowInv
  <2> QED
    BY <1>1, <2>1, <2>2, RowsLeft
<1>5. KeptInv'
  <2> SUFFICES ASSUME NEW r \in kept'
               PROVE  \E o \in Tables' : r \in heap'[o].rows /\ Held(r, o)'
    BY DEF KeptInv
  <2>1. PICK o \in Tables : r \in heap[o].rows /\ Held(r, o)
    BY <1>1 DEF KeptInv
  <2>2. o \in Objects /\ o \in Tables'
    BY <1>1, <2>1, TablesAreObjects
  <2>3. CASE r \in skipped \ skipped'
    BY <2>3 DEF Covered, Held, Safe
  <2>4. CASE r \in skipped'
    BY <2>1, <2>2, <2>4 DEF Held
  <2>5. CASE Safe(r, o)
    BY <2>1, <2>2, <2>5 DEF Held
  <2> QED
    BY <2>1, <2>3, <2>4, <2>5 DEF Held
<1>6. PassInv'
  <2>a. ASSUME NEW u \in Threads, ~(u # t /\ at[u].pc \in CommitSteps /\ ~shifted')
        PROVE  Passed(u)'
    BY <1>1, <2>a DEF PassInv, Passed, Iterating, CommitSteps
  <2> SUFFICES ASSUME NEW u \in Threads, u # t, at[u].pc \in CommitSteps, ~shifted'
               PROVE  Passed(u)'
    BY <2>a DEF PassInv
  <2>1. Passed(u) /\ at'[u] = at[u] /\ ~shifted
    BY <1>1 DEF PassInv, Edited
  <2>2. Len(tables) \in Nat /\ Len(tables') \in Nat /\ at[u].pos \in Nat /\ at[u].pos <= Len(tables) + 1
    <3>1. at[u].pos \in Nat
      BY <1>1 DEF Types, Shape, Window, CommitSteps, Iterating
    <3> QED
      BY <1>1, <2>1, <3>1 DEF Passed, Types
  <2>3. Len(tables) <= Len(tables')
    BY <2>1 DEF Edited
  <2>4. at[u].pos <= Len(tables') + 1
    BY <2>2, <2>3
  <2>5. ASSUME NEW i \in DOMAIN tables', i < at[u].pos, tables'[i] # Nil,
               at[u].pc = "flush" => tables'[i] # at[u].obj,
               NEW r \in txn[u] \cap heap'[tables'[i]].rows
        PROVE  Safe(r, tables[i])'
    <3>1. i # Len(tables) + 1
      BY <2>2, <2>5
    <3>2. i \in DOMAIN tables /\ tables'[i] = tables[i]
      BY <2>1, <2>5, <3>1 DEF Edited
    <3> DEFINE o == tables[i]
    <3>3. o \in Listed /\ o \in Listed'
      BY <2>5, <3>2 DEF Listed
    <3>4. o \in Tables /\ o \in Tables' /\ o \in Objects
      BY <1>1, <3>3, TablesAreObjects DEF Tables
    <3>5. r \in heap[o].rows
      BY <2>5, <3>2, <3>4
    <3>6. Safe(r, o)
      BY <2>1, <2>5, <3>2, <3>5 DEF Passed
    <3>7. ASSUME NEW p \in Tables \cap Tables', p = o
          PROVE  Safe(r, p)'
      BY <3>5, <3>6, <3>7
    <3> QED
      BY <3>2, <3>4, <3>7 DEF Safe, OnFile, InWindow
  <2> QED
    BY <2>1, <2>4, <2>5 DEF Passed
<1> QED
  BY <1>2, <1>3, <1>4, <1>5, <1>6 DEF CatalogInv

\* While nobody defines tables.
LEMMA NobodyDefines ==
  ASSUME CatalogInv, EngineFree
  PROVE  /\ Tables = Listed /\ \A o : ~InWindow(o)
         /\ NamesListed \subseteq DOMAIN disk /\ DOMAIN disk \ NamesListed \subseteq ghosts
         /\ \A t, u \in Threads : u # t => at[u].pc \notin EngineSteps
BY DEF EngineFree, Tables, InWindow, Window, EngineSteps, CatalogInv, FileInv

LEMMA CreateKeeps ==
  ASSUME CatalogInv, NEW t \in Threads, NEW n \in Names, Create(t, n)
  PROVE  CatalogInv'
<1>1. Types /\ Exclusive /\ Dict /\ RowInv
  BY DEF CatalogInv
<1> DEFINE R == [name : Names, rows : SUBSET Nat]
           new == [name |-> n, rows |-> {}]
           o == Len(heap) + 1
<1>2. /\ EngineFree /\ n \notin NamesListed /\ at[t].pc = "idle"
      /\ heap' = Append(heap, new) /\ PutIn(o)
      /\ Goes(t, [pc |-> "created", obj |-> Len(heap')])
      /\ UNCHANGED <<txn, disk, nextRow, kept, ghosts>> /\ Covered
  BY DEF Create, Free, Idle, Covered
<1>3. heap \in Seq(R) /\ Objects = 1 .. Len(heap) /\ Len(heap) \in Nat /\ new \in R
  BY <1>1, TablesAreObjects DEF Types
<1>4. /\ Len(heap') = o /\ heap' \in Seq(R) /\ o \in Nat
      /\ \A p \in 1 .. Len(heap) : heap'[p] = heap[p]
      /\ heap'[o] = new
  <2> HIDE DEF R, new
  <2> QED
    BY <1>2, <1>3
<1>5. o \notin Objects /\ Objects' = Objects \cup {o}
  <2> HIDE DEF R
  <2>1. Objects' = 1 .. Len(heap')
    BY <1>4 DEF Objects
  <2> QED
    BY <1>3, <1>4, <2>1
<1>6. \A p \in Objects : heap'[p] = heap[p]
  BY <1>3, <1>4
<1>7. heap'[o].name = n /\ heap'[o].rows = {}
  BY <1>4
<1> HIDE DEF R, new, o
<1>8. /\ DOMAIN at' = Threads /\ \A u \in Threads : u # t => at'[u] = at[u]
      /\ at'[t] = [pc |-> "created", obj |-> o]
  BY <1>1, <1>2, <1>4, MovedAt
<1>9. /\ Tables = Listed /\ \A p : ~InWindow(p)
      /\ NamesListed \subseteq DOMAIN disk /\ DOMAIN disk \ NamesListed \subseteq ghosts
      /\ \A u \in Threads : u # t => at[u].pc \notin EngineSteps
  BY <1>2, NobodyDefines
<1>10. /\ tables' \in Seq(Nat \cup {Nil}) /\ Listed' = Listed \cup {o}
       /\ shifted' \in BOOLEAN /\ Edited
  BY <1>1, <1>2, <1>4, PutInPuts
<1>11. Tables' = Listed \cup {o} /\ \A p : ~InWindow(p)'
  BY <1>8, <1>9, <1>10, OnlyDefinerNext DEF Window
<1>12. Listed \subseteq Objects /\ o \notin Listed
  BY <1>1, <1>5 DEF Types
<1>13. \A p \in Listed : heap[p].name \in NamesListed /\ heap[p].name # n
  BY <1>2 DEF NamesListed
<1>14. NamesListed' = NamesListed \cup {n}
  BY <1>6, <1>7, <1>10, <1>12 DEF NamesListed
<1>15. Dict'
  <2>1. \A p, q \in Tables' : heap'[p].name = heap'[q].name => p = q
    BY <1>1, <1>6, <1>7, <1>9, <1>11, <1>12, <1>13 DEF Dict
  <2>2. \A u \in Threads : u # t => at'[u].pc \notin EngineSteps
    BY <1>8, <1>9
  <2>3. at'[t].pc = "created" /\ at'[t].obj \in Listed'
    BY <1>8, <1>10
  <2> QED
    BY <2>1, <2>2, <2>3 DEF Dict, EngineSteps, Window
<1>16. FileInv'
  <2>1. ASSUME NEW m \in NamesListed' \ DOMAIN disk'
        PROVE  \E u \in Threads : at'[u].pc = "created" /\ heap'[at'[u].obj].name = m
    <3>1. m = n
      BY <1>2, <1>9, <1>14, <2>1
    <3> QED
      BY <1>7, <1>8, <3>1
  <2>2. ASSUME NEW m \in DOMAIN disk' \ NamesListed'
        PROVE  m \in ghosts'
    BY <1>2, <1>9, <1>14, <2>2
  <2> QED
    BY <2>1, <2>2 DEF FileInv
<1>17. \A p \in Tables \cap Tables' : \A r \in heap[p].rows : Safe(r, p) => Safe(r, p)'
  <2> TAKE p \in Tables \cap Tables'
  <2> TAKE r \in heap[p].rows
  <2>1. heap'[p] = heap[p]
    BY <1>6, <1>9, <1>12
  <2>2. OnFile(r, p) => OnFile(r, p)'
    BY <1>2, <2>1 DEF OnFile
  <2> QED
    BY <1>9, <2>2 DEF Safe
<1>18. Shape(t)'
  BY <1>5, <1>8 DEF Shape
<1>19. at'[t].pc \notin Iterating /\ at'[t].pc # "save"
  BY <1>8 DEF CommitSteps, Iterating
<1>20. /\ heap' \in Seq([name : Names, rows : SUBSET Nat])
       /\ \A p \in Objects' \ Objects : heap'[p].rows = {}
       /\ Listed' \subseteq Objects'
  BY <1>4, <1>5, <1>7, <1>10, <1>12 DEF R
<1>21. /\ IsFiniteSet(DOMAIN disk') /\ DOMAIN disk' \subseteq Names
       /\ \A m \in DOMAIN disk' : disk'[m] \subseteq Nat /\ \A r \in disk'[m] : r < nextRow
  BY <1>1, <1>2 DEF Types, RowInv
<1>22. \A r \in kept' : \A p \in Tables : r \in heap[p].rows => p \in Tables'
  BY <1>9, <1>11
<1>23. \A p \in Objects : heap'[p].rows = heap[p].rows
  BY <1>6
<1>24. UNCHANGED <<txn, nextRow>> /\ kept' \subseteq kept /\ Objects \subseteq Objects'
  BY <1>2, <1>5
<1>25. \A u \in Threads : u # t => at'[u] = at[u] /\ at[u].pc \notin EngineSteps
  BY <1>8, <1>9
<1> QED
  BY <1>2, <1>8, <1>10, <1>15, <1>16, <1>17, <1>18, <1>19, <1>20, <1>21, <1>22, <1>23, <1>24, <1>25, DefinerStep

LEMMA DropKeeps ==
  ASSUME CatalogInv, NEW t \in Threads, NEW n \in Names, Drop(t, n)
  PROVE  CatalogInv'
<1>1. Types /\ Exclusive /\ Dict /\ RowInv
  BY DEF CatalogInv
<1> DEFINE o == Named(n)
<1>2. /\ EngineFree /\ n \in NamesListed /\ at[t].pc = "idle" /\ TakeOut(o)
      /\ Goes(t, [pc |-> "dropped", name |-> n]) /\ kept' = kept \ heap[o].rows
      /\ UNCHANGED <<heap, txn, disk, nextRow, ghosts, shifted>> /\ Covered
  BY DEF Drop, Free, Idle, Covered
<1>3. o \in Listed /\ heap[o].name = n
  BY <1>2, NamedIsListed
<1> HIDE DEF o
<1>4. /\ DOMAIN at' = Threads /\ \A u \in Threads : u # t => at'[u] = at[u]
      /\ at'[t] = [pc |-> "dropped", name |-> n]
  BY <1>1, <1>2, MovedAt
<1>5. /\ Tables = Listed /\ \A p : ~InWindow(p)
      /\ NamesListed \subseteq DOMAIN disk /\ DOMAIN disk \ NamesListed \subseteq ghosts
      /\ \A u \in Threads : u # t => at[u].pc \notin EngineSteps
  BY <1>2, NobodyDefines
<1>6. /\ tables' \in Seq(Nat \cup {Nil}) /\ Listed' = Listed \ {o}
      /\ Edited
  BY <1>1, <1>2, <1>3, TakeOutTakesOne DEF Edited, Types
<1>7. Tables' = Listed \ {o}
  BY <1>4, <1>5, <1>6, OnlyDefinerNext
<1>8. Listed \subseteq Objects /\ Objects' = Objects
  BY <1>1, <1>2 DEF Types, Objects
<1>9. \A p \in Listed : p # o => heap[p].name # n
  BY <1>1, <1>3, <1>5 DEF Dict
<1>10. NamesListed' = NamesListed \ {n}
  BY <1>2, <1>3, <1>6, <1>9 DEF NamesListed
<1>11. Dict'
  <2>1. \A p, q \in Tables' : heap'[p].name = heap'[q].name => p = q
    BY <1>1, <1>2, <1>5, <1>7 DEF Dict
  <2>2. \A u \in Threads : u # t => at'[u].pc \notin EngineSteps
    BY <1>4, <1>5
  <2>3. at'[t].pc = "dropped" /\ at'[t].name \notin NamesListed'
    BY <1>4, <1>10
  <2> QED
    BY <2>1, <2>2, <2>3 DEF Dict, EngineSteps, Window
<1>12. FileInv'
  <2>1. NamesListed' \ DOMAIN disk' = {}
    BY <1>2, <1>5, <1>10
  <2>2. ASSUME NEW m \in DOMAIN disk' \ NamesListed'
        PROVE  m \in ghosts' \/ (at'[t].pc = "dropped" /\ at'[t].name = m)
    BY <1>2, <1>4, <1>5, <1>10, <2>2
  <2> QED
    BY <2>1, <2>2 DEF FileInv
<1>13. \A p \in Tables \cap Tables' : \A r \in heap[p].rows : Safe(r, p) => Safe(r, p)'
  BY <1>2, <1>5 DEF Safe, OnFile
<1>14. Shape(t)'
  BY <1>4 DEF Shape
<1>15. at'[t].pc \notin Iterating /\ at'[t].pc # "save"
  BY <1>4 DEF CommitSteps, Iterating
<1>16. /\ IsFiniteSet(DOMAIN disk') /\ DOMAIN disk' \subseteq Names
       /\ \A m \in DOMAIN disk' : disk'[m] \subseteq Nat /\ \A r \in disk'[m] : r < nextRow
  BY <1>1, <1>2 DEF Types, RowInv
<1>17. \A r \in kept' : \A p \in Tables : r \in heap[p].rows => p \in Tables'
  BY <1>2, <1>5, <1>7
<1>18. /\ heap' \in Seq([name : Names, rows : SUBSET Nat])
       /\ UNCHANGED <<txn, nextRow>> /\ kept' \subseteq kept /\ Listed' \subseteq Objects'
       /\ shifted' \in BOOLEAN
       /\ \A p \in Objects : heap'[p].rows = heap[p].rows
  BY <1>1, <1>2, <1>6, <1>8 DEF Types
<1>19. \A u \in Threads : u # t => at'[u] = at[u] /\ at[u].pc \notin EngineSteps
  BY <1>4, <1>5
<1> QED
  BY <1>2, <1>4, <1>6, <1>8, <1>11, <1>12, <1>13, <1>14, <1>15, <1>16, <1>17, <1>18, <1>19, DefinerStep

LEMMA RenameKeeps ==
  ASSUME CatalogInv, NEW t \in Threads, NEW old \in Names, NEW new \in Names, Rename(t, old, new)
  PROVE  CatalogInv'
<1>1. Types /\ Exclusive /\ Dict /\ RowInv
  BY DEF CatalogInv
<1> DEFINE o == Named(old)
<1>2. /\ EngineFree /\ old \in NamesListed /\ new \notin NamesListed /\ at[t].pc = "idle" /\ TakeOut(o)
      /\ Goes(t, [pc |-> "popped", obj |-> o, name |-> old, new |-> new])
      /\ UNCHANGED <<heap, txn, disk, nextRow, ghosts, kept, shifted>> /\ Covered
  BY DEF Rename, Free, Idle, Covered
<1>3. o \in Listed /\ heap[o].name = old
  BY <1>2, NamedIsListed
<1> HIDE DEF o
<1>4. /\ DOMAIN at' = Threads /\ \A u \in Threads : u # t => at'[u] = at[u]
      /\ at'[t] = [pc |-> "popped", obj |-> o, name |-> old, new |-> new]
  BY <1>1, <1>2, MovedAt
<1>5. /\ Tables = Listed /\ \A p : ~InWindow(p)
      /\ NamesListed \subseteq DOMAIN disk /\ DOMAIN disk \ NamesListed \subseteq ghosts
      /\ \A u \in Threads : u # t => at[u].pc \notin EngineSteps
  BY <1>2, NobodyDefines
<1>6. /\ tables' \in Seq(Nat \cup {Nil}) /\ Listed' = Listed \ {o}
      /\ Edited
  BY <1>1, <1>2, <1>3, TakeOutTakesOne DEF Edited, Types
<1>7. Tables' = Listed
  <2>1. Tables' = Listed' \cup {o}
    BY <1>4, <1>5, OnlyDefinerNext
  <2> QED
    BY <1>3, <1>6, <2>1
<1>8. Listed \subseteq Objects /\ Objects' = Objects
  BY <1>1, <1>2 DEF Types, Objects
<1>9. \A p \in Listed : p # o => heap[p].name # old
  BY <1>1, <1>3, <1>5 DEF Dict
<1>10. NamesListed' = NamesListed \ {old}
  BY <1>2, <1>3, <1>6, <1>9 DEF NamesListed
<1>11. Dict'
  <2>1. \A p, q \in Tables' : heap'[p].name = heap'[q].name => p = q
    BY <1>1, <1>2, <1>5, <1>7 DEF Dict
  <2>2. \A u \in Threads : u # t => at'[u].pc \notin EngineSteps
    BY <1>4, <1>5
  <2>3. /\ at'[t].pc = "popped" /\ at'[t].name # at'[t].new /\ at'[t].name \notin NamesListed'
        /\ at'[t].new \notin NamesListed' /\ at'[t].obj \notin Listed' /\ heap'[at'[t].obj].name = at'[t].name
    BY <1>2, <1>3, <1>4, <1>6, <1>10
  <2> QED
    BY <2>1, <2>2, <2>3 DEF Dict, EngineSteps, Window
<1>12. FileInv'
  <2>1. NamesListed' \ DOMAIN disk' = {}
    BY <1>2, <1>5, <1>10
  <2>2. ASSUME NEW m \in DOMAIN disk' \ NamesListed'
        PROVE  m \in ghosts' \/ (at'[t].pc = "popped" /\ at'[t].name = m)
    BY <1>2, <1>4, <1>5, <1>10, <2>2
  <2> QED
    BY <2>1, <2>2 DEF FileInv
<1>13. \A p \in Tables \cap Tables' : \A r \in heap[p].rows : Safe(r, p) => Safe(r, p)'
  BY <1>2, <1>5 DEF Safe, OnFile
<1>14. Shape(t)'
  BY <1>3, <1>4, <1>8 DEF Shape, Window
<1>15. at'[t].pc \notin Iterating /\ at'[t].pc # "save"
  BY <1>4 DEF CommitSteps, Iterating
<1>16. /\ IsFiniteSet(DOMAIN disk') /\ DOMAIN disk' \subseteq Names
       /\ \A m \in DOMAIN disk' : disk'[m] \subseteq Nat /\ \A r \in disk'[m] : r < nextRow
  BY <1>1, <1>2 DEF Types, RowInv
<1>17. \A r \in kept' : \A p \in Tables : r \in heap[p].rows => p \in Tables'
  BY <1>5, <1>7
<1>18. /\ heap' \in Seq([name : Names, rows : SUBSET Nat])
       /\ UNCHANGED <<txn, nextRow>> /\ kept' \subseteq kept /\ Listed' \subseteq Objects'
       /\ shifted' \in BOOLEAN
       /\ \A p \in Objects : heap'[p].rows = heap[p].rows
  BY <1>1, <1>2, <1>6, <1>8 DEF Types
<1>19. \A u \in Threads : u # t => at'[u] = at[u] /\ at[u].pc \notin EngineSteps
  BY <1>4, <1>5
<1> QED
  BY <1>2, <1>4, <1>6, <1>8, <1>11, <1>12, <1>13, <1>14, <1>15, <1>16, <1>17, <1>18, <1>19, DefinerStep

\* While t defines a table.
LEMMA Defining ==
  ASSUME CatalogInv, NEW t \in Threads, at[t].pc \in EngineSteps
  PROVE  /\ \A u \in Threads : u # t => at[u].pc \notin EngineSteps
         /\ Tables = Listed \cup (IF at[t].pc = "popped" THEN {at[t].obj} ELSE {})
         /\ \A o : InWindow(o) <=> at[t].pc \in Window /\ at[t].obj = o
         /\ \A n \in NamesListed \ DOMAIN disk :
              \/ at[t].pc = "created" /\ heap[at[t].obj].name = n
              \/ at[t].pc \in {"renamed", "unlinked"} /\ at[t].new = n
         /\ \A n \in DOMAIN disk \ NamesListed :
              n \in ghosts \/ (at[t].pc \in {"dropped", "popped", "renamed"} /\ at[t].name = n)
<1>1. \A u \in Threads : u # t => at[u].pc \notin EngineSteps
  BY OthersDefineNothing DEF CatalogInv
<1>2. \A u \in Threads : at[u].pc \in {"created", "dropped", "popped", "renamed", "unlinked"} => u = t
  BY <1>1 DEF EngineSteps
<1> QED
  BY <1>1, <1>2, OnlyDefiner DEF CatalogInv, FileInv

\* The steps that write or remove a file, and leave memory as it is.
LEMMA FileStep ==
  ASSUME CatalogInv, NEW t \in Threads, at[t].pc \in EngineSteps,
         DOMAIN at' = Threads, \A u \in Threads : u # t => at'[u] = at[u],
         at'[t].pc \notin Iterating, at'[t].pc # "save", Shape(t)', Covered,
         UNCHANGED <<tables, heap, txn, nextRow, kept, shifted>>,
         IsFiniteSet(DOMAIN disk'), DOMAIN disk' \subseteq Names,
         \A n \in DOMAIN disk' : disk'[n] \subseteq Nat /\ \A r \in disk'[n] : r < nextRow,
         Dict', FileInv', Tables \subseteq Tables',
         \A o \in Tables : \A r \in heap[o].rows : Safe(r, o) => Safe(r, o)'
  PROVE  CatalogInv'
<1>1. Types
  BY DEF CatalogInv
<1>2. \A u \in Threads : u # t => at'[u] = at[u] /\ at[u].pc \notin EngineSteps
  BY Defining
<1>3. /\ Objects' = Objects /\ Listed' = Listed
      /\ heap' \in Seq([name : Names, rows : SUBSET Nat]) /\ tables' \in Seq(Nat \cup {Nil})
      /\ Listed' \subseteq Objects' /\ kept' \subseteq kept
      /\ \A o \in Objects : heap'[o].rows = heap[o].rows
      /\ \A o \in Objects' \ Objects : heap'[o].rows = {}
      /\ shifted' \in BOOLEAN
  BY <1>1 DEF Types, Objects, Listed
<1>4. Edited
  BY <1>1 DEF Edited, Types
<1>5. \A r \in kept' : \A o \in Tables : r \in heap[o].rows => o \in Tables'
  OBVIOUS
<1>6. \A o \in Tables \cap Tables' : \A r \in heap[o].rows : Safe(r, o) => Safe(r, o)'
  OBVIOUS
<1>7. UNCHANGED <<txn, nextRow>> /\ Objects \subseteq Objects'
  BY <1>3
<1> QED
  BY <1>2, <1>3, <1>4, <1>5, <1>6, <1>7, DefinerStep

\* A table's name stands for it alone: while a name is not listed, its file can go.
LEMMA UnlinkKeeps ==
  ASSUME Types, NEW n, n \notin NamesListed, Unlink(n), heap' = heap,
         NEW o \in Listed, NEW r, OnFile(r, o)
  PROVE  OnFile(r, o)'
<1>1. heap[o].name # n
  BY DEF NamesListed
<1> QED
  BY <1>1 DEF Unlink, OnFile

LEMMA UnlinkTypes ==
  ASSUME Types, RowInv, NEW n, Unlink(n)
  PROVE  /\ IsFiniteSet(DOMAIN disk') /\ DOMAIN disk' \subseteq Names
         /\ \A m \in DOMAIN disk' : disk'[m] \subseteq Nat /\ \A r \in disk'[m] : r < nextRow
<1>1. DOMAIN disk' = DOMAIN disk \ {n} /\ \A m \in DOMAIN disk' : disk'[m] = disk[m]
  BY DEF Unlink
<1>2. IsFiniteSet(DOMAIN disk \ {n})
  BY FS_RemoveElement DEF Types
<1> QED
  BY <1>1, <1>2 DEF Types, RowInv

LEMMA CreateSavedKeeps ==
  ASSUME CatalogInv, NEW t \in Threads, CreateSaved(t)
  PROVE  CatalogInv'
<1>1. Types /\ Exclusive /\ Dict /\ RowInv
  BY DEF CatalogInv
<1> DEFINE o == at[t].obj
<1>2. /\ at[t].pc = "created" /\ at[t].pc \in EngineSteps /\ Save(o)
      /\ UNCHANGED <<tables, heap, txn, nextRow, kept, shifted>> /\ Covered
  BY SaveCovers DEF CreateSaved, EngineSteps
<1>3. o \in Listed /\ o \in Objects
  BY <1>1, <1>2 DEF Dict, Types
<1>4. DOMAIN at' = Threads /\ at'[t].pc = "idle" /\ \A u \in Threads : u # t => at'[u] = at[u]
  BY <1>1, MovedAt DEF CreateSaved, Idle
<1>5. /\ \A u \in Threads : u # t => at[u].pc \notin EngineSteps
      /\ Tables = Listed /\ \A p : ~InWindow(p)
      /\ \A n \in NamesListed \ DOMAIN disk : heap[o].name = n
      /\ \A n \in DOMAIN disk \ NamesListed : n \in ghosts
  BY <1>2, Defining DEF Window
<1> HIDE DEF o
<1>6. Listed' = Listed /\ NamesListed' = NamesListed /\ Tables' = Tables
  <2>1. Listed' = Listed /\ NamesListed' = NamesListed
    BY <1>2 DEF Listed, NamesListed
  <2>2. Tables' = Listed'
    <3>1. \A u \in Threads : u # t => at'[u].pc \notin EngineSteps
      BY <1>4, <1>5
    <3> QED
      BY <1>4, <3>1, OnlyDefinerNext
  <2> QED
    BY <1>5, <2>1, <2>2
<1>7. heap[o].name \in NamesListed /\ o \in Tables
  BY <1>3, <1>5 DEF NamesListed
<1>8. /\ DOMAIN disk' = DOMAIN disk \cup {heap[o].name}
      /\ ghosts' = ghosts \ {heap[o].name}
  BY <1>2, <1>7 DEF Save
<1>9. Dict'
  <2>1. \A p, q \in Tables' : heap'[p].name = heap'[q].name => p = q
    BY <1>1, <1>2, <1>6 DEF Dict
  <2>2. \A u \in Threads : at'[u].pc \notin EngineSteps
    BY <1>4, <1>5 DEF EngineSteps
  <2> QED
    BY <2>1, <2>2 DEF Dict, EngineSteps, Window
<1>10. FileInv'
  BY <1>5, <1>6, <1>7, <1>8 DEF FileInv
<1>11. \A p \in Tables : \A r \in heap[p].rows : Safe(r, p) => Safe(r, p)'
  BY <1>1, <1>2, <1>3, <1>5, SaveKeeps DEF Safe
<1>12. /\ IsFiniteSet(DOMAIN disk') /\ DOMAIN disk' \subseteq Names
       /\ \A n \in DOMAIN disk' : disk'[n] \subseteq Nat /\ \A r \in disk'[n] : r < nextRow
  BY <1>1, <1>2, <1>3, FilesAreTyped DEF FilesChange
<1>13. Shape(t)' /\ at'[t].pc \notin Iterating /\ at'[t].pc # "save"
  BY <1>4 DEF Shape, CommitSteps, Iterating
<1> QED
  BY <1>2, <1>4, <1>6, <1>9, <1>10, <1>11, <1>12, <1>13, FileStep

LEMMA DropRemovedKeeps ==
  ASSUME CatalogInv, NEW t \in Threads, DropRemoved(t)
  PROVE  CatalogInv'
<1>1. Types /\ Exclusive /\ Dict /\ RowInv
  BY DEF CatalogInv
<1> DEFINE n == at[t].name
<1>2. /\ at[t].pc = "dropped" /\ at[t].pc \in EngineSteps /\ Unlink(n)
      /\ UNCHANGED <<tables, heap, txn, nextRow, kept, shifted>> /\ Covered
  BY DEF DropRemoved, EngineSteps, Unlink, Covered
<1>3. n \notin NamesListed
  BY <1>1, <1>2 DEF Dict
<1>4. DOMAIN at' = Threads /\ at'[t].pc = "idle" /\ \A u \in Threads : u # t => at'[u] = at[u]
  BY <1>1, MovedAt DEF DropRemoved, Idle
<1>5. /\ \A u \in Threads : u # t => at[u].pc \notin EngineSteps
      /\ Tables = Listed /\ \A p : ~InWindow(p)
      /\ NamesListed \subseteq DOMAIN disk
      /\ \A m \in DOMAIN disk \ NamesListed : m \in ghosts \/ n = m
  BY <1>2, Defining DEF Window
<1> HIDE DEF n
<1>6. Listed' = Listed /\ NamesListed' = NamesListed /\ Tables' = Tables
  <2>1. Listed' = Listed /\ NamesListed' = NamesListed
    BY <1>2 DEF Listed, NamesListed
  <2>2. Tables' = Listed'
    <3>1. \A u \in Threads : u # t => at'[u].pc \notin EngineSteps
      BY <1>4, <1>5
    <3> QED
      BY <1>4, <3>1, OnlyDefinerNext
  <2> QED
    BY <1>5, <2>1, <2>2
<1>7. DOMAIN disk' = DOMAIN disk \ {n} /\ ghosts' = ghosts \ {n}
  BY <1>2 DEF Unlink
<1>8. Dict'
  <2>1. \A p, q \in Tables' : heap'[p].name = heap'[q].name => p = q
    BY <1>1, <1>2, <1>6 DEF Dict
  <2>2. \A u \in Threads : at'[u].pc \notin EngineSteps
    BY <1>4, <1>5 DEF EngineSteps
  <2> QED
    BY <2>1, <2>2 DEF Dict, EngineSteps, Window
<1>9. FileInv'
  BY <1>3, <1>5, <1>6, <1>7 DEF FileInv
<1>10. \A p \in Tables : \A r \in heap[p].rows : Safe(r, p) => Safe(r, p)'
  BY <1>1, <1>2, <1>3, <1>5, UnlinkKeeps DEF Safe
<1>11. /\ IsFiniteSet(DOMAIN disk') /\ DOMAIN disk' \subseteq Names
       /\ \A m \in DOMAIN disk' : disk'[m] \subseteq Nat /\ \A r \in disk'[m] : r < nextRow
  BY <1>1, <1>2, UnlinkTypes
<1>12. Shape(t)' /\ at'[t].pc \notin Iterating /\ at'[t].pc # "save"
  BY <1>4 DEF Shape, CommitSteps, Iterating
<1> QED
  BY <1>2, <1>4, <1>6, <1>8, <1>9, <1>10, <1>11, <1>12, FileStep

\* Of a table that is being renamed.
LEMMA RenamingShape ==
  ASSUME Types, NEW t \in Threads, at[t].pc \in Window
  PROVE  at[t] \in [pc : Window, obj : Objects, name : Names, new : Names]
BY DEF Types, Shape, Window, CommitSteps, Iterating

LEMMA OldRemovedKeeps ==
  ASSUME CatalogInv, NEW t \in Threads, OldRemoved(t)
  PROVE  CatalogInv'
<1>1. Types /\ Exclusive /\ Dict /\ RowInv
  BY DEF CatalogInv
<1> DEFINE w == at[t]
<1>2. /\ w.pc = "renamed" /\ w.pc \in EngineSteps /\ w.pc \in Window /\ Unlink(w.name)
      /\ UNCHANGED <<tables, heap, txn, nextRow, kept, shifted>> /\ Covered
  BY DEF OldRemoved, EngineSteps, Window, Unlink, Covered
<1>3. w \in [pc : Window, obj : Objects, name : Names, new : Names]
  BY <1>1, <1>2, RenamingShape
<1>4. /\ w.name # w.new /\ w.name \notin NamesListed
      /\ w.obj \in Listed /\ heap[w.obj].name = w.new
  BY <1>1, <1>2 DEF Dict
<1>5. /\ DOMAIN at' = Threads /\ \A u \in Threads : u # t => at'[u] = at[u]
      /\ at'[t] = [w EXCEPT !.pc = "unlinked"]
  BY <1>1, MovedAt DEF OldRemoved
<1>6. /\ at'[t].pc = "unlinked" /\ at'[t].obj = w.obj /\ at'[t].name = w.name /\ at'[t].new = w.new
      /\ at'[t] \in [pc : Window, obj : Objects, name : Names, new : Names]
  BY <1>3, <1>5 DEF Window
<1>7. /\ \A u \in Threads : u # t => at[u].pc \notin EngineSteps
      /\ Tables = Listed /\ \A p : InWindow(p) <=> p = w.obj
      /\ \A n \in NamesListed \ DOMAIN disk : n = w.new
      /\ \A n \in DOMAIN disk \ NamesListed : n \in ghosts \/ n = w.name
  BY <1>2, Defining
<1> HIDE DEF w
<1>8. Listed' = Listed /\ NamesListed' = NamesListed /\ Tables' = Tables /\ \A p : InWindow(p)' <=> p = w.obj
  <2>1. Listed' = Listed /\ NamesListed' = NamesListed
    BY <1>2 DEF Listed, NamesListed
  <2>2. Tables' = Listed' /\ \A p : InWindow(p)' <=> p = w.obj
    BY <1>5, <1>6, <1>7, OnlyDefinerNext DEF Window
  <2> QED
    BY <1>7, <2>1, <2>2
<1>9. DOMAIN disk' = DOMAIN disk \ {w.name} /\ ghosts' = ghosts \ {w.name}
  BY <1>2 DEF Unlink
<1>10. Dict'
  <2>1. \A p, q \in Tables' : heap'[p].name = heap'[q].name => p = q
    BY <1>1, <1>2, <1>8 DEF Dict
  <2>2. \A u \in Threads : u # t => at'[u].pc \notin EngineSteps
    BY <1>5, <1>7
  <2>3. /\ at'[t].pc = "unlinked" /\ at'[t].name # at'[t].new /\ at'[t].name \notin NamesListed'
        /\ at'[t].obj \in Listed' /\ heap'[at'[t].obj].name = at'[t].new
    BY <1>2, <1>4, <1>6, <1>8
  <2> QED
    BY <2>1, <2>2, <2>3 DEF Dict, EngineSteps, Window
<1>11. FileInv'
  <2>1. ASSUME NEW n \in NamesListed' \ DOMAIN disk'
        PROVE  at'[t].pc = "unlinked" /\ at'[t].new = n
    BY <1>4, <1>6, <1>7, <1>8, <1>9, <2>1
  <2>2. ASSUME NEW n \in DOMAIN disk' \ NamesListed'
        PROVE  n \in ghosts'
    BY <1>7, <1>8, <1>9, <2>2
  <2> QED
    BY <2>1, <2>2 DEF FileInv
<1>12. \A p \in Tables : \A r \in heap[p].rows : Safe(r, p) => Safe(r, p)'
  BY <1>1, <1>2, <1>4, <1>7, <1>8, UnlinkKeeps DEF Safe
<1>13. /\ IsFiniteSet(DOMAIN disk') /\ DOMAIN disk' \subseteq Names
       /\ \A m \in DOMAIN disk' : disk'[m] \subseteq Nat /\ \A r \in disk'[m] : r < nextRow
  BY <1>1, <1>2, UnlinkTypes
<1>14. Shape(t)' /\ at'[t].pc \notin Iterating /\ at'[t].pc # "save"
  BY <1>2, <1>6 DEF Shape, CommitSteps, Iterating, Objects
<1> QED
  BY <1>2, <1>5, <1>8, <1>10, <1>11, <1>12, <1>13, <1>14, FileStep DEF w

LEMMA NewSavedKeeps ==
  ASSUME CatalogInv, NEW t \in Threads, NewSaved(t)
  PROVE  CatalogInv'
<1>1. Types /\ Exclusive /\ Dict /\ RowInv
  BY DEF CatalogInv
<1> DEFINE o == at[t].obj
<1>2. /\ at[t].pc = "unlinked" /\ at[t].pc \in EngineSteps /\ Save(o)
      /\ UNCHANGED <<tables, heap, txn, nextRow, kept, shifted>> /\ Covered
  BY SaveCovers DEF NewSaved, SaveRenamed, EngineSteps
<1>3. o \in Listed /\ o \in Objects /\ heap[o].name = at[t].new
  BY <1>1, <1>2 DEF Dict, Types
<1>4. DOMAIN at' = Threads /\ at'[t].pc = "idle" /\ \A u \in Threads : u # t => at'[u] = at[u]
  BY <1>1, MovedAt DEF NewSaved, Idle
<1>5. /\ \A u \in Threads : u # t => at[u].pc \notin EngineSteps
      /\ Tables = Listed /\ \A p : InWindow(p) <=> p = o
      /\ \A n \in NamesListed \ DOMAIN disk : n = heap[o].name
      /\ \A n \in DOMAIN disk \ NamesListed : n \in ghosts
  BY <1>2, <1>3, Defining DEF Window
<1> HIDE DEF o
<1>6. Listed' = Listed /\ NamesListed' = NamesListed /\ Tables' = Tables
  <2>1. Listed' = Listed /\ NamesListed' = NamesListed
    BY <1>2 DEF Listed, NamesListed
  <2>2. Tables' = Listed'
    <3>1. \A u \in Threads : u # t => at'[u].pc \notin EngineSteps
      BY <1>4, <1>5
    <3> QED
      BY <1>4, <3>1, OnlyDefinerNext
  <2> QED
    BY <1>5, <2>1, <2>2
<1>7. heap[o].name \in NamesListed /\ o \in Tables
  BY <1>3, <1>5 DEF NamesListed
<1>8. /\ DOMAIN disk' = DOMAIN disk \cup {heap[o].name}
      /\ ghosts' = ghosts \ {heap[o].name}
  BY <1>2, <1>7 DEF Save
<1>9. Dict'
  <2>1. \A p, q \in Tables' : heap'[p].name = heap'[q].name => p = q
    BY <1>1, <1>2, <1>6 DEF Dict
  <2>2. \A u \in Threads : at'[u].pc \notin EngineSteps
    BY <1>4, <1>5 DEF EngineSteps
  <2> QED
    BY <2>1, <2>2 DEF Dict, EngineSteps, Window
<1>10. FileInv'
  BY <1>5, <1>6, <1>7, <1>8 DEF FileInv
<1>11. \A p \in Tables : \A r \in heap[p].rows : Safe(r, p) => Safe(r, p)'
  BY <1>1, <1>2, <1>3, <1>5, SaveKeeps DEF Safe
<1>12. /\ IsFiniteSet(DOMAIN disk') /\ DOMAIN disk' \subseteq Names
       /\ \A n \in DOMAIN disk' : disk'[n] \subseteq Nat /\ \A r \in disk'[n] : r < nextRow
  BY <1>1, <1>2, <1>3, FilesAreTyped DEF FilesChange
<1>13. Shape(t)' /\ at'[t].pc \notin Iterating /\ at'[t].pc # "save"
  BY <1>4 DEF Shape, CommitSteps, Iterating
<1> QED
  BY <1>2, <1>4, <1>6, <1>9, <1>10, <1>11, <1>12, <1>13, FileStep

LEMMA RenamedKeeps ==
  ASSUME CatalogInv, NEW t \in Threads, Renamed(t)
  PROVE  CatalogInv'
<1>1. Types /\ Exclusive /\ Dict /\ RowInv
  BY DEF CatalogInv
<1> DEFINE w == at[t]
           o == w.obj
           R == [name : Names, rows : SUBSET Nat]
<1>2. /\ w.pc = "popped" /\ w.pc \in EngineSteps /\ w.pc \in Window
      /\ heap' = [heap EXCEPT ![o].name = w.new] /\ PutIn(o)
      /\ UNCHANGED <<txn, disk, nextRow, kept, ghosts>> /\ Covered
  BY DEF Renamed, EngineSteps, Window, Covered
<1>3. w \in [pc : Window, obj : Objects, name : Names, new : Names]
  BY <1>1, <1>2, RenamingShape
<1>4. /\ w.name # w.new /\ w.name \notin NamesListed /\ w.new \notin NamesListed
      /\ o \notin Listed /\ heap[o].name = w.name /\ o \in Objects /\ w.new \in Names
  BY <1>1, <1>2, <1>3 DEF Dict
<1>5. /\ DOMAIN at' = Threads /\ \A u \in Threads : u # t => at'[u] = at[u]
      /\ at'[t] = [w EXCEPT !.pc = "renamed"]
  BY <1>1, MovedAt DEF Renamed
<1>6. /\ at'[t].pc = "renamed" /\ at'[t].obj = o /\ at'[t].name = w.name /\ at'[t].new = w.new
      /\ at'[t] \in [pc : Window, obj : Objects, name : Names, new : Names]
  BY <1>3, <1>5 DEF Window
<1>7. /\ \A u \in Threads : u # t => at[u].pc \notin EngineSteps
      /\ Tables = Listed \cup {o} /\ \A p : InWindow(p) <=> p = o
      /\ NamesListed \subseteq DOMAIN disk
      /\ \A n \in DOMAIN disk \ NamesListed : n \in ghosts \/ n = w.name
  BY <1>2, Defining
<1>8. heap \in Seq(R) /\ Objects = 1 .. Len(heap) /\ Len(heap) \in Nat /\ \A p \in Objects : heap[p] \in R
  BY <1>1, TablesAreObjects, ElementOfSeq DEF Types
<1>9. Objects' = Objects /\ o \in Nat
  BY <1>2, <1>4, <1>8 DEF Objects
<1>10. \A p \in Objects : /\ heap'[p] \in R /\ heap'[p].rows = heap[p].rows
                         /\ heap'[p].name = IF p = o THEN w.new ELSE heap[p].name
  <2> TAKE p \in Objects
  <2>1. heap[p] \in R /\ heap'[p] = IF p = o THEN [heap[p] EXCEPT !.name = w.new] ELSE heap[p]
    BY <1>2, <1>8 DEF Objects
  <2> QED
    BY <1>4, <2>1
<1>11. heap' \in Seq(R)
  <2>1. heap' = [p \in Objects |-> heap'[p]]
    BY <1>2 DEF Objects
  <2> HIDE DEF R
  <2>2. heap' \in [1 .. Len(heap) -> R]
    BY <1>8, <1>10, <2>1
  <2> QED
    BY <1>8, <2>2
<1>12. /\ tables' \in Seq(Nat \cup {Nil}) /\ Listed' = Listed \cup {o}
       /\ shifted' \in BOOLEAN /\ Edited
  BY <1>1, <1>2, <1>9, PutInPuts
<1> HIDE DEF w, o
<1>13. \A u \in Threads : u # t => at'[u].pc \notin EngineSteps
  BY <1>5, <1>7
<1>14. Tables' = Listed \cup {o} /\ \A p : InWindow(p)' <=> p = o
  BY <1>6, <1>12, <1>13, OnlyDefinerNext DEF Window
<1>15. Listed \subseteq Objects
  BY <1>1 DEF Types
<1>16. NamesListed' = NamesListed \cup {w.new}
  BY <1>4, <1>10, <1>12, <1>15 DEF NamesListed
<1>17. Dict'
  <2>1. \A p \in Listed : heap'[p].name = heap[p].name /\ heap[p].name # w.new
    BY <1>4, <1>10, <1>15 DEF NamesListed
  <2>2. \A p, q \in Tables' : heap'[p].name = heap'[q].name => p = q
    BY <1>1, <1>4, <1>7, <1>10, <1>14, <2>1 DEF Dict
  <2>3. /\ at'[t].pc = "renamed" /\ at'[t].name # at'[t].new /\ at'[t].name \notin NamesListed'
        /\ at'[t].obj \in Listed' /\ heap'[at'[t].obj].name = at'[t].new
    BY <1>4, <1>6, <1>10, <1>12, <1>16
  <2> QED
    BY <1>13, <2>2, <2>3 DEF Dict, EngineSteps, Window
<1>18. FileInv'
  <2>1. ASSUME NEW n \in NamesListed' \ DOMAIN disk'
        PROVE  at'[t].pc = "renamed" /\ at'[t].new = n
    BY <1>2, <1>6, <1>7, <1>16, <2>1
  <2>2. ASSUME NEW n \in DOMAIN disk' \ NamesListed'
        PROVE  n \in ghosts' \/ (at'[t].pc = "renamed" /\ at'[t].name = n)
    BY <1>2, <1>6, <1>7, <1>16, <2>2
  <2> QED
    BY <2>1, <2>2 DEF FileInv
<1>19. \A p \in Tables \cap Tables' : \A r \in heap[p].rows : Safe(r, p) => Safe(r, p)'
  <2> TAKE p \in Tables \cap Tables'
  <2> TAKE r \in heap[p].rows
  <2>1. CASE p = o
    BY <1>14, <2>1 DEF Safe
  <2>2. CASE p # o
    <3>1. heap'[p].name = heap[p].name
      BY <1>7, <1>10, <1>15, <2>2
    <3>2. OnFile(r, p) => OnFile(r, p)'
      BY <1>2, <3>1 DEF OnFile
    <3> QED
      BY <1>7, <2>2, <3>2 DEF Safe
  <2> QED
    BY <2>1, <2>2
<1>20. Shape(t)' /\ at'[t].pc \notin Iterating /\ at'[t].pc # "save"
  BY <1>6, <1>9 DEF Shape, CommitSteps, Iterating
<1>21. /\ IsFiniteSet(DOMAIN disk') /\ DOMAIN disk' \subseteq Names
       /\ \A m \in DOMAIN disk' : disk'[m] \subseteq Nat /\ \A r \in disk'[m] : r < nextRow
  BY <1>1, <1>2 DEF Types, RowInv
<1>22. \A r \in kept' : \A p \in Tables : r \in heap[p].rows => p \in Tables'
  BY <1>7, <1>14
<1>23. /\ heap' \in Seq([name : Names, rows : SUBSET Nat])
       /\ \A p \in Objects : heap'[p].rows = heap[p].rows
       /\ \A p \in Objects' \ Objects : heap'[p].rows = {}
       /\ Listed' \subseteq Objects'
  BY <1>4, <1>9, <1>10, <1>11, <1>12, <1>15
<1>24. UNCHANGED <<txn, nextRow>> /\ kept' \subseteq kept /\ Objects \subseteq Objects'
  BY <1>2, <1>9
<1>25. \A u \in Threads : u # t => at'[u] = at[u] /\ at[u].pc \notin EngineSteps
  BY <1>5, <1>7
<1> QED
  BY <1>2, <1>5, <1>12, <1>17, <1>18, <1>19, <1>20, <1>21, <1>22, <1>23, <1>24, <1>25, DefinerStep

-----------------------------------------------------------------------------
(***************************************************************************)
(* The start of the process, and its end.                                  *)
(***************************************************************************)
LEMMA CatalogInit ==
  ASSUME Init
  PROVE  CatalogInv
<1> DEFINE R == [name : Names, rows : SUBSET Nat]
<1>1. /\ heap = <<[name |-> First, rows |-> {}]>> /\ tables = <<1>> /\ First \in Names
      /\ at = [t \in Threads |-> Idle] /\ txn = [t \in Threads |-> Nil]
      /\ disk = [n \in {First} |-> {}]
      /\ nextRow = 1 /\ kept = {} /\ ghosts = {} /\ shifted = FALSE
  BY CatalogAssumption DEF Init
<1>2. \A t \in Threads : at[t].pc = "idle"
  BY <1>1 DEF Idle
<1>3. Objects = {1} /\ heap[1].name = First /\ heap[1].rows = {}
  BY <1>1 DEF Objects
<1>4. Listed = {1}
  <2>1. DOMAIN tables = {1} /\ tables[1] = 1 /\ 1 # Nil
    BY <1>1, NilAssumption
  <2> QED
    BY <2>1 DEF Listed
<1>5. Tables = {1} /\ NamesListed = {First}
  BY <1>2, <1>3, <1>4 DEF Tables, NamesListed
<1>6. Types
  <2>1. heap \in Seq(R)
    <3>1. [name |-> First, rows |-> {}] \in R
      BY <1>1
    <3> HIDE DEF R
    <3> QED
      BY <1>1, <3>1
  <2>2. tables \in Seq(Nat \cup {Nil})
    BY <1>1
  <2>3. DOMAIN at = Threads /\ \A t \in Threads : Shape(t)
    BY <1>1, <1>2 DEF Shape
  <2>4. IsFiniteSet(DOMAIN disk) /\ DOMAIN disk \subseteq Names /\ \A n \in DOMAIN disk : disk[n] \subseteq Nat
    BY <1>1, FS_Singleton
  <2> QED
    BY <1>1, <1>3, <1>4, <2>1, <2>2, <2>3, <2>4 DEF Types
<1>7. Exclusive /\ Dict /\ PassInv
  BY <1>2, <1>5 DEF Exclusive, Dict, PassInv, Passed, EngineSteps, CommitSteps, Iterating, Window
<1>8. RowInv /\ KeptInv
  BY <1>1, <1>2, <1>3 DEF RowInv, KeptInv
<1>9. FileInv
  BY <1>1, <1>5 DEF FileInv
<1> QED
  BY <1>6, <1>7, <1>8, <1>9 DEF CatalogInv

\* Loading the files gives a table to each.
LEMMA CrashKeeps ==
  ASSUME CatalogInv, CrashAndRestart
  PROVE  CatalogInv'
<1>1. Types /\ RowInv
  BY DEF CatalogInv
<1> DEFINE R == [name : Names, rows : SUBSET Nat]
           F == DOMAIN disk
<1>2. PICK order \in SetToSeqs(F) :
        /\ heap' = [o \in DOMAIN order |-> [name |-> order[o], rows |-> disk[order[o]]]]
        /\ tables' = [o \in DOMAIN order |-> o]
  BY DEF CrashAndRestart
<1>3. /\ at' = [t \in Threads |-> Idle] /\ txn' = [t \in Threads |-> Nil]
      /\ kept' = kept \cap UNION {disk[n] : n \in F}
      /\ ghosts' = {} /\ shifted' = FALSE /\ UNCHANGED <<disk, nextRow>>
  BY DEF CrashAndRestart
<1>4. IsFiniteSet(F) /\ F \subseteq Names /\ \A n \in F : disk[n] \subseteq Nat
  BY <1>1 DEF Types
<1> DEFINE k == Cardinality(F)
<1>5. /\ DOMAIN order = 1 .. k /\ k \in Nat
      /\ \A i \in DOMAIN order : order[i] \in F
      /\ \A i, j \in DOMAIN order : order[i] = order[j] => i = j
      /\ \A n \in F : \E i \in DOMAIN order : order[i] = n
  BY <1>4, SequenceOfSet, FS_CardinalityType, ElementOfSeq
<1> HIDE DEF k, F
<1>6. Objects' = 1 .. k /\ \A o \in 1 .. k : heap'[o].name = order[o] /\ heap'[o].rows = disk[order[o]]
  BY <1>2, <1>5 DEF Objects
<1>7. Listed' = 1 .. k
  <2>1. Listed' = {tables'[i] : i \in DOMAIN tables'} \ {Nil}
    BY DEF Listed
  <2>2. DOMAIN tables' = 1 .. k /\ \A i \in 1 .. k : tables'[i] = i /\ i # Nil
    BY <1>2, <1>5, NilAssumption
  <2> QED
    BY <2>1, <2>2
<1>8. \A t \in Threads : at'[t].pc = "idle"
  BY <1>3 DEF Idle
<1>9. Tables' = 1 .. k
  BY <1>7, <1>8 DEF Tables
<1>10. NamesListed' = F
  BY <1>5, <1>6, <1>7 DEF NamesListed
<1>11. Types'
  <2>1. heap' \in Seq(R)
    <3>1. \A o \in 1 .. k : [name |-> order[o], rows |-> disk[order[o]]] \in R
      BY <1>4, <1>5
    <3>2. heap' \in [1 .. k -> R]
      <4> HIDE DEF R
      <4> QED
        BY <1>2, <1>5, <3>1
    <3> HIDE DEF R
    <3> QED
      BY <1>5, <3>2
  <2>2. tables' \in Seq(Nat \cup {Nil})
    <3>1. tables' \in [1 .. k -> Nat \cup {Nil}]
      BY <1>2, <1>5
    <3> QED
      BY <1>5, <3>1
  <2>3. DOMAIN at' = Threads /\ \A t \in Threads : Shape(t)'
    BY <1>3, <1>8 DEF Shape
  <2> QED
    BY <1>1, <1>3, <1>6, <1>7, <2>1, <2>2, <2>3 DEF Types
<1>12. Exclusive' /\ PassInv'
  BY <1>8 DEF Exclusive, PassInv, Passed, EngineSteps, CommitSteps, Iterating
<1>13. Dict'
  BY <1>5, <1>6, <1>8, <1>9 DEF Dict, Window
<1>14. RowInv'
  <2>1. \A n \in DOMAIN disk' : \A r \in disk'[n] : r < nextRow'
    BY <1>1, <1>3 DEF RowInv
  <2>2. \A o \in Objects' : \A r \in heap'[o].rows : r < nextRow'
    BY <1>3, <1>5, <1>6, <2>1 DEF F
  <2>3. \A r \in kept' : r < nextRow'
    BY <1>1, <1>3 DEF RowInv
  <2> QED
    BY <1>3, <1>8, <2>1, <2>2, <2>3 DEF RowInv
<1>15. KeptInv'
  <2> SUFFICES ASSUME NEW r \in kept'
               PROVE  \E o \in Tables' : r \in heap'[o].rows /\ Held(r, o)'
    BY DEF KeptInv
  <2>1. PICK n \in F : r \in disk[n]
    BY <1>3
  <2>2. PICK o \in 1 .. k : order[o] = n
    BY <1>5
  <2>3. r \in heap'[o].rows /\ heap'[o].name = n /\ n \in DOMAIN disk' /\ r \in disk'[n]
    BY <1>3, <1>6, <2>1, <2>2 DEF F
  <2>4. Held(r, o)'
    BY <2>3 DEF Safe, OnFile, Held
  <2> QED
    BY <1>9, <2>3, <2>4
<1>16. FileInv'
  BY <1>3, <1>10 DEF FileInv, F
<1> QED
  BY <1>11, <1>12, <1>13, <1>14, <1>15, <1>16 DEF CatalogInv

-----------------------------------------------------------------------------
(***************************************************************************)
(* The theorems.                                                           *)
(***************************************************************************)
LEMMA CatalogStep ==
  ASSUME CatalogInv, [Next]_vars
  PROVE  CatalogInv'
<1>1. CASE UNCHANGED vars
  BY <1>1 DEF vars, CatalogInv, Types, Objects, Listed, Tables, NamesListed, Shape, Exclusive, Dict,
              RowInv, KeptInv, Held, Safe, InWindow, OnFile, PassInv, Passed, FileInv
<1>2. CASE CrashAndRestart
  BY <1>2, CrashKeeps
<1>3. ASSUME NEW t \in Threads, Start(t)
      PROVE  CatalogInv'
  BY <1>3, AskKeeps, CreateKeeps, DropKeeps, RenameKeeps, BeginKeeps, IterationKeeps DEF Start
<1>4. ASSUME NEW t \in Threads, Continue(t)
      PROVE  CatalogInv'
  BY <1>4, RunKeeps, SaveAndAnswerKeeps, CreateSavedKeeps, DropRemovedKeeps, RenamedKeeps,
     OldRemovedKeeps, NewSavedKeeps, NextTableKeeps, FlushKeeps, UndoNextKeeps DEF Continue
<1> QED
  BY <1>1, <1>2, <1>3, <1>4 DEF Next

\* The dict of tables, the files, and what threads are doing to either are as
\* described, whatever CREATE, DROP, RENAME, INSERT, TRUNCATE, COMMIT, ROLLBACK and
\* crashes come at the same time (engine.py 97-193, 423-435, manager.py 103-157).
THEOREM CatalogInvariant == Spec => []CatalogInv
BY CatalogInit, CatalogStep, PTL DEF Spec

\* An acknowledged row is in a file, unless its table is being renamed, a dropped
\* table was saved over the file, or the dict closed its holes under the iterator of
\* the COMMIT, which passed the row's table over: any other change of the dict under
\* COMMIT makes it fail or loses nothing (engine.py 97-109, 156-193, 423-435,
\* manager.py 121-136).
THEOREM AcknowledgedRowsHaveAFile == Spec => []AckedRowsAreOnDisk
<1>1. ASSUME CatalogInv PROVE AckedRowsAreOnDisk
  <2> SUFFICES ASSUME NEW r \in kept
               PROVE  \/ \E n \in DOMAIN disk : r \in disk[n]
                      \/ \E t \in Threads : /\ at[t].pc \in {"popped", "renamed", "unlinked"}
                                             /\ r \in heap[at[t].obj].rows
                      \/ \E o \in Tables : r \in heap[o].rows /\ heap[o].name \in ghosts
                      \/ r \in skipped
    BY DEF AckedRowsAreOnDisk
  <2>1. PICK o \in Tables : r \in heap[o].rows /\ Held(r, o)
    BY <1>1 DEF CatalogInv, KeptInv
  <2> QED
    BY <2>1 DEF Held, Safe, InWindow, OnFile, Window
<1> QED
  BY <1>1, CatalogInvariant, PTL

\* Between statements that define tables every table has its file, and a file without
\* a table was written by a statement or COMMIT that had the table before it was
\* dropped (engine.py 97-105, 156-182, 423-435).
THEOREM FilesHaveTheirTables == Spec => []FilesAreOfTables
<1>1. ASSUME CatalogInv PROVE FilesAreOfTables
  BY <1>1, NobodyDefines DEF FilesAreOfTables
<1> QED
  BY <1>1, CatalogInvariant, PTL

=============================================================================
