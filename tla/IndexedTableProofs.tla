------------------------- MODULE IndexedTableProofs -------------------------
(***************************************************************************)
(* Proofs about IndexedTable, for any sessions, values, orders of them and *)
(* bounds: whose row an index entry is, what the index holds at the least, *)
(* and what that makes of the scans that use it.                           *)
(***************************************************************************)
EXTENDS IndexedTable, Ranks

(***************************************************************************)
(* The inductive invariant.  Beside the types it says of the entries that  *)
(* each is of the row at its position (Sound), that none of a live row is  *)
(* missing that the index has not refused or not reached (Full), that a    *)
(* unique index has one entry of a key (OneEach), and that keys of numbers *)
(* and of texts do not mix (OneKind), with the separators neither (Fits).  *)
(* While the index is whole, the rows it lacks are suspects (Noted); when  *)
(* a rebuilding has stopped half-way it no longer tells the other live     *)
(* rows apart, and the invariant keeps that they were (Distinct).          *)
(***************************************************************************)
Rows == [key : Values, xmin : Nat \ {0}, xmax : Nat, unindexed : BOOLEAN, suspect : BOOLEAN]
IndexEntries == [key : [place : Nat, number : BOOLEAN], pos : Nat \ {0}]

Sound(rs, es) == \A e \in es : \E i \in DOMAIN rs : e = Entry(rs[i].key, i)
Full(rs, es) ==
  \A i \in DOMAIN rs : rs[i].xmax = NotDeleted /\ ~rs[i].unindexed => Entry(rs[i].key, i) \in es
OneEach(es) == \A e, f \in es : e.key = f.key => e = f
OneKind(es) == \A e, f \in es : e.key.number = f.key.number
Fits(es, seps) == \A e \in es, number \in seps : number = e.key.number

Noted(rs) == \A i \in DOMAIN rs : rs[i].unindexed => rs[i].suspect
Certain(row) == row.xmax = NotDeleted /\ ~row.suspect
Apiece(v, w, u) == KeyOf(v).number = KeyOf(w).number /\ (u => KeyOf(v) # KeyOf(w))
Distinct(rs, u) ==
  \A i, j \in DOMAIN rs :
    Certain(rs[i]) /\ Certain(rs[j]) /\ i # j => Apiece(rs[i].key, rs[j].key, u)

IdsOK ==
  /\ mvcc \in [next : Nat \ {0}, active : SUBSET Nat, committed : SUBSET Nat]
  /\ \A i \in mvcc.active \cup mvcc.committed : i < mvcc.next
  /\ mvcc.active \cap mvcc.committed = {}
  /\ txn \in [Sessions -> [id : Nat, snap : Snapshots \cup {Nil}]]
  /\ \A s \in Sessions : Busy(s) => txn[s].id # AutoCommit /\ txn[s].id < mvcc.next

Indexes ==
  [entries : SUBSET IndexEntries, separators : SUBSET BOOLEAN, unique : BOOLEAN, whole : BOOLEAN]

IndexOK ==
  Indexed =>
    /\ index \in Indexes
    /\ Sound(rows, index.entries) /\ Full(rows, index.entries)
    /\ OneKind(index.entries) /\ Fits(index.entries, index.separators)
    /\ index.unique => OneEach(index.entries)
    /\ index.whole => Noted(rows)
    /\ ~index.whole => Distinct(rows, index.unique)

TableInv == rows \in Seq(Rows) /\ IdsOK /\ IndexOK
-----------------------------------------------------------------------------
(***************************************************************************)
(* Sets of numbers, and lists of chosen rows.                              *)
(***************************************************************************)
LEMMA MinIsLeast ==
  ASSUME NEW S \in SUBSET Nat, S # {}
  PROVE  Min(S) \in S /\ \A x \in S : Min(S) <= x
<1>1. PICK m \in S : \A y \in S : m <= y
  BY NatsHaveALeast
<1> QED
  BY <1>1 DEF Min

LEMMA ChosenAreFinite ==
  ASSUME NEW n \in Nat, NEW S \in SUBSET (1..n)
  PROVE  IsFiniteSet(S) /\ Cardinality(S) \in Nat /\ S \in SUBSET Nat
<1>1. IsFiniteSet(1..n)
  BY FS_Interval
<1>2. IsFiniteSet(S)
  BY <1>1, FS_Subset
<1> QED
  BY <1>2, FS_CardinalityType

\* Nth finds a place of its own for every number up to the size of the set.
LEMMA NthIsChosen ==
  ASSUME NEW n \in Nat, NEW S \in SUBSET (1..n)
  PROVE  /\ \A k \in 1..Cardinality(S) : Nth(S, k) \in S
         /\ \A j, k \in 1..Cardinality(S) : Nth(S, j) = Nth(S, k) => j = k
<1>1. IsFiniteSet(S) /\ Cardinality(S) \in Nat /\ S \in SUBSET Nat
  BY ChosenAreFinite
<1>2. ASSUME NEW k \in 1..Cardinality(S)
      PROVE  Nth(S, k) \in S /\ Rank(S, Nth(S, k)) = k - 1
  <2>1. k - 1 \in Nat /\ k - 1 < Cardinality(S)
    BY <1>1
  <2>2. \E i \in S : Rank(S, i) = k - 1
    BY <1>1, <2>1, RankIsOnto
  <2> QED
    BY <2>2 DEF Nth, Rank
<1>3. ASSUME NEW j \in 1..Cardinality(S), NEW k \in 1..Cardinality(S), Nth(S, j) = Nth(S, k)
      PROVE  j = k
  <2>1. Rank(S, Nth(S, j)) = j - 1 /\ Rank(S, Nth(S, k)) = k - 1
    BY <1>2
  <2>2. j - 1 = k - 1
    BY <1>3, <2>1
  <2> QED
    BY <1>1, <2>2
<1> QED
  BY <1>2, <1>3

LEMMA KeepIsAList ==
  ASSUME NEW rs \in Seq(Rows), NEW S \in SUBSET DOMAIN rs
  PROVE  /\ Keep(rs, S) \in Seq(Rows)
         /\ Len(Keep(rs, S)) = Cardinality(S) /\ DOMAIN Keep(rs, S) = 1..Cardinality(S)
         /\ \A k \in 1..Cardinality(S) : Nth(S, k) \in S /\ Keep(rs, S)[k] = rs[Nth(S, k)]
         /\ \A j, k \in 1..Cardinality(S) : Nth(S, j) = Nth(S, k) => j = k
<1>1. Len(rs) \in Nat /\ DOMAIN rs = 1..Len(rs) /\ \A i \in DOMAIN rs : rs[i] \in Rows
  OBVIOUS
<1>2. /\ \A k \in 1..Cardinality(S) : Nth(S, k) \in S
      /\ \A j, k \in 1..Cardinality(S) : Nth(S, j) = Nth(S, k) => j = k
  BY <1>1, NthIsChosen
<1>3. Cardinality(S) \in Nat
  BY <1>1, ChosenAreFinite
<1>4. Keep(rs, S) \in [1..Cardinality(S) -> Rows]
  BY <1>1, <1>2 DEF Keep
<1>5. Keep(rs, S) \in Seq(Rows) /\ Len(Keep(rs, S)) = Cardinality(S)
  BY <1>3, <1>4
<1> QED
  BY <1>2, <1>4, <1>5 DEF Keep

-----------------------------------------------------------------------------
(***************************************************************************)
(* What the index refuses, and what it then holds.                         *)
(***************************************************************************)
Accepts(f, u, e) == f.key.number = e.key.number /\ (u => f.key # e.key)

LEMMA EntryType ==
  ASSUME NEW v \in Values, NEW i \in Nat \ {0}
  PROVE  /\ Entry(v, i) \in IndexEntries /\ Entry(v, i).key = KeyOf(v) /\ Entry(v, i).pos = i
         /\ Entry(v, i).key.number \in BOOLEAN /\ (Entry(v, i).key.number <=> v \in Numeric)
<1>1. Key[v] \in Nat /\ (v \in Numeric) \in BOOLEAN
  BY ValuesAssumption
<1>2. KeyOf(v) \in [place : Nat, number : BOOLEAN] /\ (KeyOf(v).number <=> v \in Numeric)
  BY <1>1 DEF KeyOf
<1>3. KeyOf(v).number \in BOOLEAN
  BY <1>2
<1> QED
  BY <1>2, <1>3 DEF Entry, IndexEntries

LEMMA NotRefused ==
  ASSUME NEW es, NEW u \in BOOLEAN, NEW v \in Values, NEW i \in Nat \ {0},
         ~Refuses(es, u, v), NEW e \in es, e.key.number \in BOOLEAN
  PROVE  Accepts(e, u, Entry(v, i))
<1>1. e.key.number <=> v \in Numeric
  BY DEF Refuses, Mixed
<1>2. u => e.key # KeyOf(v)
  BY DEF Refuses, Lookup
<1>3. e.key.number = Entry(v, i).key.number
  BY <1>1, EntryType
<1> QED
  BY <1>2, <1>3, EntryType DEF Accepts

\* Entries f[i] that come one after the other, each accepted by those before it.
InOrder(kept, u, D, f, es) ==
  /\ OneKind(kept) /\ (u => OneEach(kept))
  /\ \A e \in es : e \in kept \/ \E i \in D : e = f[i]
  /\ \A i \in D, e \in kept : Accepts(e, u, f[i])
  /\ \A i, j \in D : j < i => Accepts(f[j], u, f[i])

LEMMA AddedInOrder ==
  ASSUME NEW kept, NEW u \in BOOLEAN, NEW D \in SUBSET Nat, NEW f, NEW es, InOrder(kept, u, D, f, es)
  PROVE  OneKind(es) /\ (u => OneEach(es))
<1>1. ASSUME NEW i \in D, NEW e \in kept
      PROVE  e.key.number = f[i].key.number /\ (u => e.key # f[i].key)
  BY DEF Accepts, InOrder
<1>2. ASSUME NEW i \in D, NEW j \in D, j < i
      PROVE  f[j].key.number = f[i].key.number /\ (u => f[j].key # f[i].key)
  BY <1>2 DEF Accepts, InOrder
<1>3. ASSUME NEW e \in es, NEW g \in es
      PROVE  e.key.number = g.key.number /\ (u /\ e.key = g.key => e = g)
  <2>1. CASE e \in kept /\ g \in kept
    BY <2>1 DEF OneKind, OneEach, InOrder
  <2>2. CASE e \in kept /\ g \notin kept
    <3>1. PICK i \in D : g = f[i]
      BY <2>2 DEF InOrder
    <3> QED
      BY <1>1, <2>2, <3>1
  <2>3. CASE e \notin kept /\ g \in kept
    <3>1. PICK i \in D : e = f[i]
      BY <2>3 DEF InOrder
    <3> QED
      BY <1>1, <2>3, <3>1
  <2>4. CASE e \notin kept /\ g \notin kept
    <3>1. PICK i \in D : e = f[i]
      BY <2>4 DEF InOrder
    <3>2. PICK j \in D : g = f[j]
      BY <2>4 DEF InOrder
    <3>3. i < j \/ j < i \/ i = j
      <4>1. i \in Nat /\ j \in Nat
        OBVIOUS
      <4> QED
        BY <4>1
    <3> QED
      BY <1>2, <3>1, <3>2, <3>3
  <2> QED
    BY <2>1, <2>2, <2>3, <2>4
<1> QED
  BY <1>3 DEF OneKind, OneEach

LEMMA RowsHaveKeys ==
  ASSUME NEW rs \in Seq(Rows)
  PROVE  Len(rs) \in Nat /\ DOMAIN rs = 1..Len(rs) /\ \A i \in DOMAIN rs : rs[i].key \in Values /\ i \in Nat \ {0}
<1>1. Len(rs) \in Nat /\ DOMAIN rs = 1..Len(rs) /\ \A i \in DOMAIN rs : rs[i] \in Rows
  OBVIOUS
<1>2. \A i \in DOMAIN rs : i \in Nat \ {0}
  BY <1>1
<1>3. \A r \in Rows : r.key \in Values
  BY DEF Rows
<1> QED
  BY <1>1, <1>2, <1>3

LEMMA SoundEntries ==
  ASSUME NEW rs \in Seq(Rows), NEW es, Sound(rs, es)
  PROVE  es \in SUBSET IndexEntries
<1> SUFFICES ASSUME NEW e \in es PROVE e \in IndexEntries
  OBVIOUS
<1>1. PICK i \in DOMAIN rs : e = Entry(rs[i].key, i)
  BY DEF Sound
<1>2. i \in Nat \ {0} /\ rs[i] \in Rows
  OBVIOUS
<1>3. rs[i].key \in Values
  BY <1>2 DEF Rows
<1> QED
  BY <1>1, <1>2, <1>3, EntryType

\* The entries of the rows in places 1..m, none of which has been refused.
LEMMA BuiltEntries ==
  ASSUME NEW rs \in Seq(Rows), NEW u \in BOOLEAN, NEW m \in 1..(Len(rs) + 1), NEW es,
         es = {Entry(rs[j].key, j) : j \in 1..(m - 1)},
         \A i \in 1..(m - 1) : ~Refuses({Entry(rs[j].key, j) : j \in 1..(i - 1)}, u, rs[i].key)
  PROVE  Sound(rs, es) /\ OneKind(es) /\ (u => OneEach(es))
<1> DEFINE f == [j \in DOMAIN rs |-> Entry(rs[j].key, j)]
           D == 1..(m - 1)
           none == {}
<1>1. Len(rs) \in Nat /\ DOMAIN rs = 1..Len(rs) /\ \A i \in DOMAIN rs : rs[i].key \in Values /\ i \in Nat \ {0}
  BY RowsHaveKeys
<1>2. D \in SUBSET DOMAIN rs /\ D \in SUBSET Nat
  BY <1>1
<1>3. Sound(rs, es)
  BY <1>2 DEF Sound
<1>4. OneKind(none) /\ OneEach(none)
  BY DEF OneKind, OneEach
<1>5. ASSUME NEW i \in D, NEW j \in D, j < i
      PROVE  Accepts(f[j], u, f[i])
  <2> DEFINE before == {Entry(rs[k].key, k) : k \in 1..(i - 1)}
  <2>1. i \in DOMAIN rs /\ j \in DOMAIN rs /\ j \in 1..(i - 1)
    BY <1>1, <1>2, <1>5
  <2>2. f[i] = Entry(rs[i].key, i) /\ f[j] = Entry(rs[j].key, j)
    BY <2>1
  <2>3. f[j] \in before /\ ~Refuses(before, u, rs[i].key)
    BY <2>1, <2>2
  <2>4. f[j].key.number \in BOOLEAN
    BY <1>1, <2>1, <2>2, EntryType
  <2> HIDE DEF before, f
  <2>5. Accepts(f[j], u, Entry(rs[i].key, i))
    BY <1>1, <2>1, <2>3, <2>4, NotRefused
  <2> QED
    BY <2>2, <2>5
<1>6. \A e \in es : e \in none \/ \E i \in D : e = f[i]
  BY <1>2
<1>7. \A i \in D, e \in none : Accepts(e, u, f[i])
  OBVIOUS
<1> HIDE DEF f, D, none
<1>8. \A i, j \in D : j < i => Accepts(f[j], u, f[i])
  BY <1>5
<1>9. InOrder(none, u, D, f, es)
  BY <1>4, <1>6, <1>7, <1>8 DEF InOrder
<1>10. OneKind(es) /\ (u => OneEach(es))
  BY <1>2, <1>9, AddedInOrder
<1> QED
  BY <1>3, <1>10

\* The history flags change in a row, its columns and stamps do not.
SameBut(new, rs) ==
  /\ new \in Seq(Rows) /\ DOMAIN new = DOMAIN rs /\ Len(new) = Len(rs)
  /\ \A i \in DOMAIN rs : new[i].key = rs[i].key /\ new[i].xmax = rs[i].xmax

LEMMA KnownRows ==
  ASSUME NEW rs \in Seq(Rows)
  PROVE  SameBut(Known(rs), rs) /\ \A i \in DOMAIN rs : ~Known(rs)[i].unindexed /\ ~Known(rs)[i].suspect
<1>1. Len(rs) \in Nat /\ DOMAIN rs = 1..Len(rs) /\ \A i \in DOMAIN rs : rs[i] \in Rows
  OBVIOUS
<1>2. ASSUME NEW i \in DOMAIN rs
      PROVE  /\ Known(rs)[i] \in Rows
             /\ Known(rs)[i].key = rs[i].key /\ Known(rs)[i].xmax = rs[i].xmax
             /\ ~Known(rs)[i].unindexed /\ ~Known(rs)[i].suspect
  <2>1. Known(rs)[i] = [rs[i] EXCEPT !.unindexed = FALSE, !.suspect = FALSE] /\ rs[i] \in Rows
    BY <1>1 DEF Known
  <2> HIDE DEF Known
  <2> QED
    BY <2>1 DEF Rows
<1>3. DOMAIN Known(rs) = 1..Len(rs) /\ Known(rs) = [i \in 1..Len(rs) |-> Known(rs)[i]]
  BY <1>1 DEF Known
<1>4. Known(rs) \in [1..Len(rs) -> Rows]
  BY <1>1, <1>2, <1>3
<1>5. Known(rs) \in Seq(Rows) /\ Len(Known(rs)) = Len(rs)
  BY <1>1, <1>3, <1>4
<1> QED
  BY <1>1, <1>2, <1>3, <1>5 DEF SameBut

LEMMA KnownRowsBefore ==
  ASSUME NEW rs \in Seq(Rows), NEW m \in Nat
  PROVE  /\ SameBut(KnownBefore(rs, m), rs)
         /\ \A i \in DOMAIN rs : /\ KnownBefore(rs, m)[i].unindexed <=> i >= m
                                 /\ KnownBefore(rs, m)[i].suspect = rs[i].suspect
<1> DEFINE new == KnownBefore(rs, m)
<1>1. Len(rs) \in Nat /\ DOMAIN rs = 1..Len(rs) /\ \A i \in DOMAIN rs : rs[i] \in Rows
  OBVIOUS
<1>2. ASSUME NEW i \in DOMAIN rs
      PROVE  /\ new[i] \in Rows
             /\ new[i].key = rs[i].key /\ new[i].xmax = rs[i].xmax
             /\ (new[i].unindexed <=> i >= m) /\ new[i].suspect = rs[i].suspect
  <2> DEFINE b == i >= m
  <2>1. new[i] = [rs[i] EXCEPT !.unindexed = b] /\ rs[i] \in Rows
    BY <1>1 DEF KnownBefore
  <2>2. b \in BOOLEAN /\ (b <=> i >= m)
    OBVIOUS
  <2> HIDE DEF new, b
  <2> QED
    BY <2>1, <2>2 DEF Rows
<1>3. DOMAIN new = 1..Len(rs) /\ new = [i \in 1..Len(rs) |-> new[i]]
  BY <1>1 DEF KnownBefore
<1> HIDE DEF new
<1>4. new \in [1..Len(rs) -> Rows]
  BY <1>1, <1>2, <1>3
<1>5. new \in Seq(Rows) /\ Len(new) = Len(rs)
  BY <1>1, <1>3, <1>4
<1>6. SameBut(new, rs)
  BY <1>1, <1>2, <1>3, <1>5 DEF SameBut
<1> QED
  BY <1>2, <1>6 DEF new

\* Index.build, whole or stopped: entries are of their rows and fit together, and the
\* rows without one are noted.
LEMMA BuildHolds ==
  ASSUME NEW rs \in Seq(Rows), NEW old, NEW u \in BOOLEAN
  PROVE  LET b == Build(rs, old, u) IN
         /\ b.ok \in BOOLEAN /\ SameBut(b.rows, rs)
         /\ Sound(b.rows, b.entries) /\ Full(b.rows, b.entries)
         /\ OneKind(b.entries) /\ (u => OneEach(b.entries))
         /\ b.ok => Noted(b.rows)
         /\ ~b.ok => \A i \in DOMAIN rs : b.rows[i].suspect = rs[i].suspect
<1> DEFINE before(i) == {Entry(rs[j].key, j) : j \in 1..(i - 1)}
           refused == {i \in DOMAIN rs : Refuses(before(i), u, rs[i].key)}
           b == Build(rs, old, u)
<1>1. b = IF refused = {} THEN Done(Known(rs), before(Len(rs) + 1))
          ELSE Raised(KnownBefore(rs, Min(refused)), before(Min(refused)))
  BY DEF Build
<1>2. Len(rs) \in Nat /\ DOMAIN rs = 1..Len(rs)
  OBVIOUS
<1>s. ASSUME NEW new, SameBut(new, rs), NEW es, Sound(rs, es)
      PROVE  Sound(new, es)
  BY <1>s DEF Sound, SameBut
<1>3. CASE refused = {}
  <2> DEFINE m == Len(rs) + 1
             new == Known(rs)
  <2>1. b.ok = TRUE /\ b.rows = new /\ b.entries = before(m)
    BY <1>1, <1>3 DEF Done
  <2>2. m \in 1..(Len(rs) + 1) /\ m - 1 = Len(rs)
    BY <1>2
  <2>3. \A i \in 1..(m - 1) : ~Refuses(before(i), u, rs[i].key)
    BY <1>2, <1>3, <2>2
  <2>4. SameBut(new, rs) /\ \A i \in DOMAIN rs : ~new[i].unindexed
    BY KnownRows
  <2> HIDE DEF new
  <2>5. Full(new, before(m)) /\ Noted(new)
    BY <1>2, <2>2, <2>4 DEF Full, Noted, SameBut
  <2> HIDE DEF refused, m
  <2>6. Sound(rs, before(m)) /\ OneKind(before(m)) /\ (u => OneEach(before(m)))
    BY <2>2, <2>3, BuiltEntries
  <2>7. Sound(new, before(m))
    BY <1>s, <2>4, <2>6
  <2> SUFFICES /\ b.ok \in BOOLEAN /\ SameBut(b.rows, rs)
               /\ Sound(b.rows, b.entries) /\ Full(b.rows, b.entries)
               /\ OneKind(b.entries) /\ (u => OneEach(b.entries))
               /\ b.ok => Noted(b.rows)
               /\ ~b.ok => \A i \in DOMAIN rs : b.rows[i].suspect = rs[i].suspect
    OBVIOUS
  <2> HIDE DEF b, before
  <2> QED
    BY <2>1, <2>4, <2>5, <2>6, <2>7
<1>4. CASE refused # {}
  <2> DEFINE m == Min(refused)
             new == KnownBefore(rs, m)
  <2>1. b.ok = FALSE /\ b.rows = new /\ b.entries = before(m)
    <3>1. b = Raised(new, before(m))
      BY <1>1, <1>4
    <3> HIDE DEF b, m, new, before
    <3> QED
      BY <3>1 DEF Raised
  <2>2. m \in refused /\ \A x \in refused : m <= x
    <3>1. refused \in SUBSET Nat
      BY <1>2
    <3> HIDE DEF refused
    <3> QED
      BY <1>4, <3>1, MinIsLeast
  <2>3. m \in 1..(Len(rs) + 1) /\ m \in 1..Len(rs) /\ m \in Nat
    BY <1>2, <2>2
  <2>4. \A i \in 1..(m - 1) : ~Refuses(before(i), u, rs[i].key)
    <3> SUFFICES ASSUME NEW i \in 1..(m - 1) PROVE i \notin refused /\ i \in DOMAIN rs
      OBVIOUS
    <3> HIDE DEF refused, m
    <3> QED
      BY <1>2, <2>2, <2>3
  <2> HIDE DEF refused, m
  <2>5. Sound(rs, before(m)) /\ OneKind(before(m)) /\ (u => OneEach(before(m)))
    BY <2>3, <2>4, BuiltEntries
  <2>6. /\ SameBut(new, rs)
        /\ \A i \in DOMAIN rs : (new[i].unindexed <=> i >= m) /\ new[i].suspect = rs[i].suspect
    BY <2>3, KnownRowsBefore
  <2> HIDE DEF new
  <2>7. Full(new, before(m))
    <3> SUFFICES ASSUME NEW i \in DOMAIN rs, ~new[i].unindexed PROVE Entry(rs[i].key, i) \in before(m)
      BY <2>6 DEF Full, SameBut
    <3>1. i \in 1..(m - 1)
      BY <1>2, <2>3, <2>6
    <3> QED
      BY <3>1
  <2>8. Sound(new, before(m))
    BY <1>s, <2>5, <2>6
  <2> SUFFICES /\ b.ok \in BOOLEAN /\ SameBut(b.rows, rs)
               /\ Sound(b.rows, b.entries) /\ Full(b.rows, b.entries)
               /\ OneKind(b.entries) /\ (u => OneEach(b.entries))
               /\ b.ok => Noted(b.rows)
               /\ ~b.ok => \A i \in DOMAIN rs : b.rows[i].suspect = rs[i].suspect
    OBVIOUS
  <2> HIDE DEF b, before
  <2> QED
    BY <2>1, <2>5, <2>6, <2>7, <2>8
<1> QED
  BY <1>3, <1>4

\* The inner nodes of a tree just built have keys of the kind there is.
LEMMA SplitsFit ==
  ASSUME NEW es \in SUBSET IndexEntries, OneKind(es), NEW seps \in Splits(es)
  PROVE  Fits(es, seps) /\ seps \in SUBSET BOOLEAN
<1>1. \A e \in es : e.key.number \in BOOLEAN
  BY DEF IndexEntries
<1> QED
  BY <1>1 DEF Splits, Fits, OneKind

\* Whether the index is whole or not, no two live rows without a mark collide.
LEMMA RowsAreDistinct ==
  ASSUME rows \in Seq(Rows), IndexOK, Indexed
  PROVE  Distinct(rows, index.unique)
<1>1. CASE ~index.whole
  BY <1>1 DEF IndexOK
<1>2. CASE index.whole
  <2> SUFFICES ASSUME NEW i \in DOMAIN rows, NEW j \in DOMAIN rows, Certain(rows[i]), Certain(rows[j]), i # j
               PROVE  Apiece(rows[i].key, rows[j].key, index.unique)
    BY DEF Distinct
  <2> DEFINE e == Entry(rows[i].key, i)
             f == Entry(rows[j].key, j)
  <2>1. e \in index.entries /\ f \in index.entries
    BY <1>2 DEF IndexOK, Noted, Certain, Full
  <2>2. e.key = KeyOf(rows[i].key) /\ e.pos = i /\ f.key = KeyOf(rows[j].key) /\ f.pos = j
    BY DEF Entry
  <2> HIDE DEF e, f
  <2>3. e.key.number = f.key.number
    BY <2>1 DEF IndexOK, OneKind
  <2>4. index.unique => e.key # f.key
    BY <2>1, <2>2 DEF IndexOK, OneEach
  <2> QED
    BY <2>2, <2>3, <2>4 DEF Apiece
<1> QED
  BY <1>1, <1>2
-----------------------------------------------------------------------------
(***************************************************************************)
(* What UPDATE and DELETE do to the rows they find.                        *)
(***************************************************************************)
\* A row after a statement is an old one, which may be stamped now, or a new one.
Follows(rs) ==
  \A i \in DOMAIN rs :
    \/ /\ i \in DOMAIN rows /\ rs[i].key = rows[i].key
       /\ rs[i].unindexed = rows[i].unindexed /\ rs[i].suspect = rows[i].suspect
       /\ rs[i].xmax = NotDeleted => rows[i].xmax = NotDeleted
    \/ (rs[i].unindexed => rs[i].suspect) /\ (~index.whole => rs[i].suspect)

\* What the rows and entries that a statement leaves keep; it inserts v if anything.
Sane(r, v) ==
  /\ Sound(r.rows, r.entries) /\ Full(r.rows, r.entries) /\ Follows(r.rows)
  /\ OneKind(r.entries) /\ Fits(r.entries, Separators)
  /\ index.unique => OneEach(r.entries)
  /\ \A e \in r.entries : e \in Entries \/ e.key.number = (v \in Numeric)

LEMMA FollowersAreDistinct ==
  ASSUME rows \in Seq(Rows), IndexOK, Indexed, NEW rs \in Seq(Rows), Follows(rs)
  PROVE  (index.whole => Noted(rs)) /\ (~index.whole => Distinct(rs, index.unique))
<1>1. ASSUME index.whole
      PROVE  Noted(rs)
  BY <1>1 DEF Follows, Noted, IndexOK
<1>2. ASSUME ~index.whole
      PROVE  Distinct(rs, index.unique)
  <2>1. \A i \in DOMAIN rs : Certain(rs[i]) => i \in DOMAIN rows /\ Certain(rows[i]) /\ rs[i].key = rows[i].key
    BY <1>2 DEF Follows, Certain
  <2> QED
    BY <1>2, <2>1 DEF IndexOK, Distinct
<1> QED
  BY <1>1, <1>2

LEMMA UpToCounts ==
  ASSUME NEW n \in Nat, NEW D \in SUBSET (1..n)
  PROVE  /\ Cardinality(D) \in Nat
         /\ \A i \in D : Cardinality(UpTo(D, i)) \in 1..Cardinality(D)
         /\ \A k \in 1..Cardinality(D) : \E i \in D : Cardinality(UpTo(D, i)) = k
<1>1. IsFiniteSet(D) /\ Cardinality(D) \in Nat /\ D \in SUBSET Nat
  BY ChosenAreFinite
<1>2. ASSUME NEW i \in D
      PROVE  Cardinality(UpTo(D, i)) = Rank(D, i) + 1
  <2> DEFINE B == {w \in D : w < i}
  <2>1. UpTo(D, i) = B \cup {i} /\ i \notin B /\ B \subseteq D
    <3>1. \A w \in D : w <= i <=> (w < i \/ w = i)
      <4> TAKE w \in D
      <4>1. w \in Nat /\ i \in Nat
        BY <1>1
      <4> QED
        BY <4>1
    <3>2. ~(i < i)
      BY <1>1
    <3>3. UpTo(D, i) = {w \in D : w < i \/ w = i}
      BY <3>1 DEF UpTo
    <3> QED
      BY <3>2, <3>3
  <2>2. IsFiniteSet(B)
    BY <1>1, <2>1, FS_Subset
  <2>3. Cardinality(B \cup {i}) = Cardinality(B) + 1
    <3> HIDE DEF B
    <3> QED
      BY <2>1, <2>2, FS_AddElement
  <2> QED
    BY <2>1, <2>3 DEF Rank
<1>3. \A i \in D : Rank(D, i) \in Nat /\ Rank(D, i) < Cardinality(D)
  BY <1>1, RankType
<1>4. ASSUME NEW i \in D
      PROVE  Cardinality(UpTo(D, i)) \in 1..Cardinality(D)
  <2> DEFINE r == Rank(D, i)
  <2>1. r \in Nat /\ r < Cardinality(D) /\ Cardinality(UpTo(D, i)) = r + 1
    BY <1>2, <1>3
  <2> HIDE DEF r
  <2> QED
    BY <1>1, <2>1
<1>5. ASSUME NEW k \in 1..Cardinality(D)
      PROVE  \E i \in D : Cardinality(UpTo(D, i)) = k
  <2>1. k - 1 \in Nat /\ k - 1 < Cardinality(D)
    BY <1>1
  <2>2. PICK i \in D : Rank(D, i) = k - 1
    BY <1>1, <2>1, RankIsOnto
  <2> QED
    BY <1>1, <1>2, <2>2
<1> QED
  BY <1>1, <1>4, <1>5

LEMMA StampedRows ==
  ASSUME rows \in Seq(Rows), NEW T \in SUBSET DOMAIN rows, NEW id \in Nat \ {0}
  PROVE  /\ Stamped(T, id) \in Seq(Rows) /\ DOMAIN Stamped(T, id) = DOMAIN rows
         /\ \A i \in DOMAIN rows :
              /\ Stamped(T, id)[i].key = rows[i].key
              /\ Stamped(T, id)[i].unindexed = rows[i].unindexed
              /\ Stamped(T, id)[i].suspect = rows[i].suspect
              /\ Stamped(T, id)[i].xmax = IF i \in T THEN id ELSE rows[i].xmax
<1>1. Len(rows) \in Nat /\ DOMAIN rows = 1..Len(rows) /\ \A i \in DOMAIN rows : rows[i] \in Rows
  OBVIOUS
<1>2. ASSUME NEW i \in DOMAIN rows
      PROVE  /\ Stamped(T, id)[i] \in Rows
             /\ Stamped(T, id)[i].key = rows[i].key
             /\ Stamped(T, id)[i].unindexed = rows[i].unindexed
             /\ Stamped(T, id)[i].suspect = rows[i].suspect
             /\ Stamped(T, id)[i].xmax = IF i \in T THEN id ELSE rows[i].xmax
  <2>1. rows[i] \in Rows
    BY <1>1
  <2>2. Stamped(T, id)[i] = IF i \in T THEN [rows[i] EXCEPT !.xmax = id] ELSE rows[i]
    BY DEF Stamped, StampDelete
  <2> HIDE DEF Stamped
  <2> QED
    BY <2>1, <2>2 DEF Rows
<1>3. Stamped(T, id) \in [1..Len(rows) -> Rows]
  <2>1. DOMAIN Stamped(T, id) = 1..Len(rows) /\ Stamped(T, id) = [i \in 1..Len(rows) |-> Stamped(T, id)[i]]
    BY <1>1 DEF Stamped
  <2> QED
    BY <1>1, <1>2, <2>1
<1>4. Stamped(T, id) \in Seq(Rows)
  BY <1>1, <1>3
<1> QED
  BY <1>1, <1>2, <1>3, <1>4

\* The entry that goes is of a row stamped now or before: never of a live one.
LEMMA GoneWereStamped ==
  ASSUME rows \in Seq(Rows), NEW T \in SUBSET DOMAIN rows, NEW id \in Nat \ {0}, NEW e \in Gone(T, id)
  PROVE  e.pos \in DOMAIN rows /\ (e.pos \in T \/ rows[e.pos].xmax # NotDeleted)
<1>1. PICK i \in T : e \in Removed(Stamped(UpTo(T, i), id), i)
  BY DEF Gone
<1> DEFINE U == UpTo(T, i)
           rs == Stamped(U, id)
           S == {j \in DOMAIN rs : Plain(rs[j]) = Plain(rs[i])}
<1>2. U \in SUBSET DOMAIN rows /\ U \subseteq T /\ i \in U
  <2>1. i \in Nat
    OBVIOUS
  <2> QED
    BY <2>1 DEF UpTo
<1>3. /\ DOMAIN rs = DOMAIN rows
      /\ \A j \in DOMAIN rows : rs[j].xmax = IF j \in U THEN id ELSE rows[j].xmax
  <2> HIDE DEF U
  <2> QED
    BY <1>2, StampedRows
<1>4. e.pos = Min(S)
  BY <1>1 DEF Removed, PositionOf, Entry
<1>5. i \in S /\ S \in SUBSET Nat
  <2>1. i \in DOMAIN rs /\ DOMAIN rs \subseteq Nat
    BY <1>2, <1>3
  <2> HIDE DEF rs
  <2> QED
    BY <2>1
<1>6. Min(S) \in S
  <2> HIDE DEF S
  <2> QED
    BY <1>5, MinIsLeast
<1>7. e.pos \in DOMAIN rows /\ rs[e.pos].xmax = rs[i].xmax
  <2>1. e.pos \in DOMAIN rs /\ Plain(rs[e.pos]) = Plain(rs[i])
    BY <1>4, <1>6
  <2> HIDE DEF rs
  <2> QED
    BY <1>3, <2>1 DEF Plain
<1> HIDE DEF U, rs, S
<1>8. rs[i].xmax = id
  BY <1>2, <1>3
<1> QED
  BY <1>2, <1>3, <1>7, <1>8 DEF NotDeleted

LEMMA GoneGrows ==
  ASSUME NEW T \in SUBSET Nat, NEW D \in SUBSET T, NEW id, \A i \in D : UpTo(D, i) = UpTo(T, i)
  PROVE  Gone(D, id) \subseteq Gone(T, id)
<1> SUFFICES ASSUME NEW e \in Gone(D, id) PROVE e \in Gone(T, id)
  OBVIOUS
<1>1. PICK i \in D : e \in Removed(Stamped(UpTo(D, i), id), i)
  BY DEF Gone
<1>2. e \in Removed(Stamped(UpTo(T, i), id), i) /\ i \in T
  BY <1>1
<1> QED
  BY <1>2 DEF Gone

\* What DELETE leaves, whether it stamps all rows it finds or not.
LEMMA DeleteHolds ==
  ASSUME rows \in Seq(Rows), IndexOK, Indexed, NEW T \in SUBSET DOMAIN rows, NEW id \in Nat \ {0},
         NEW r, r.rows = Stamped(T, id), r.entries = Entries \ Gone(T, id), NEW v
  PROVE  Sane(r, v)
<1> DEFINE rs == Stamped(T, id)
           es == index.entries \ Gone(T, id)
<1>1. r.rows = rs /\ r.entries = es /\ Entries = index.entries /\ Separators = index.separators
  BY DEF Entries, Separators
<1>2. /\ rs \in Seq(Rows) /\ DOMAIN rs = DOMAIN rows
      /\ \A i \in DOMAIN rows :
           /\ rs[i].key = rows[i].key /\ rs[i].unindexed = rows[i].unindexed
           /\ rs[i].suspect = rows[i].suspect
           /\ rs[i].xmax = IF i \in T THEN id ELSE rows[i].xmax
  BY StampedRows
<1>3. \A e \in Gone(T, id) : e.pos \in DOMAIN rows /\ (e.pos \in T \/ rows[e.pos].xmax # NotDeleted)
  BY GoneWereStamped
<1> HIDE DEF rs
<1>4. Sound(rs, es)
  BY <1>2 DEF Sound, IndexOK
<1>5. OneKind(es) /\ (index.unique => OneEach(es)) /\ Fits(es, index.separators)
  BY DEF OneKind, OneEach, Fits, IndexOK
<1>6. ASSUME NEW i \in DOMAIN rs, rs[i].xmax = NotDeleted, ~rs[i].unindexed
      PROVE  Entry(rs[i].key, i) \in es
  <2>1. i \notin T /\ rows[i].xmax = NotDeleted /\ ~rows[i].unindexed
    BY <1>2, <1>6 DEF NotDeleted
  <2>2. Entry(rows[i].key, i) \in index.entries
    BY <1>2, <1>6, <2>1 DEF IndexOK, Full
  <2>3. Entry(rows[i].key, i).pos = i
    BY DEF Entry
  <2> QED
    BY <1>2, <1>3, <2>1, <2>2, <2>3
<1>7. Full(rs, es)
  BY <1>6 DEF Full
<1>8. Follows(rs)
  BY <1>2 DEF Follows, NotDeleted
<1> QED
  BY <1>1, <1>4, <1>5, <1>7, <1>8 DEF Sane

\* What an insertion of v or of its entry has compared itself with.
LEMMA NotApart ==
  ASSUME NEW seps, NEW v, ~Apart(seps, v), NEW number \in seps
  PROVE  number = (v \in Numeric)
  BY DEF Apart

\* The entries of what INSERT leaves, refused or not.
LEMMA InsertHolds ==
  ASSUME rows \in Seq(Rows), IndexOK, NEW v \in Values, NEW id \in Nat \ {0}
  PROVE  LET r == InsertRow(v, id) IN r.rows \in Seq(Rows) /\ (Indexed => Sane(r, v))
<1> DEFINE refused == Indexed /\ (Apart(Separators, v) \/ Refuses(Entries, Unique, v))
           row == Version(v, id, refused)
           new == Append(rows, row)
           n == Len(rows) + 1
           es == IF refused THEN Entries ELSE Entries \cup {Entry(v, n)}
<1>1. /\ new \in Seq(Rows) /\ Len(new) = n /\ DOMAIN new = DOMAIN rows \cup {n} /\ n \in Nat \ {0}
      /\ n \notin DOMAIN rows /\ new[n] = row /\ \A i \in DOMAIN rows : new[i] = rows[i]
  <2>1. row \in Rows
    BY DEF Version, Rows, NotDeleted
  <2> HIDE DEF row
  <2> QED
    BY <2>1
<1>2. InsertRow(v, id).rows = new /\ InsertRow(v, id).entries = es
  <2>1. InsertRow(v, id) = IF refused THEN Raised(new, Entries) ELSE Done(new, Entries \cup {Entry(v, n)})
    BY <1>1 DEF InsertRow
  <2> HIDE DEF refused, new, n
  <2> QED
    BY <2>1 DEF Done, Raised
<1>3. row.key = v /\ row.unindexed = refused /\ (row.suspect <=> refused \/ (Indexed /\ ~index.whole))
  BY DEF Version
<1> HIDE DEF row, new
<1>4. ASSUME Indexed
      PROVE  /\ Sound(new, es) /\ Full(new, es) /\ Follows(new)
             /\ OneKind(es) /\ Fits(es, Separators)
             /\ index.unique => OneEach(es)
             /\ \A e \in es : e \in Entries \/ e.key.number = (v \in Numeric)
  <2>1. /\ Entries = index.entries /\ Unique = index.unique /\ index.unique \in BOOLEAN
        /\ Separators = index.separators
    BY <1>4 DEF IndexOK, Indexes, Entries, Separators, Unique
  <2>2. /\ Sound(rows, Entries) /\ OneKind(Entries) /\ (index.unique => OneEach(Entries))
        /\ Full(rows, Entries) /\ Fits(Entries, Separators)
    BY <1>4, <2>1 DEF IndexOK
  <2>3. Sound(new, es)
    <3>1. \A e \in Entries : \E i \in DOMAIN new : e = Entry(new[i].key, i)
      BY <1>1, <2>2 DEF Sound
    <3>2. Entry(v, n) = Entry(new[n].key, n) /\ n \in DOMAIN new
      BY <1>1, <1>3
    <3> QED
      BY <3>1, <3>2 DEF Sound
  <2>4. OneKind(es) /\ (index.unique => OneEach(es))
    <3>1. CASE refused
      BY <2>2, <3>1
    <3>2. CASE ~refused
      <4> DEFINE f == [i \in {n} |-> Entry(v, n)]
                 D == {n}
      <4>1. ASSUME NEW e \in Entries PROVE Accepts(e, index.unique, f[n])
        <5>1. ~Refuses(Entries, index.unique, v)
          BY <1>4, <2>1, <3>2
        <5>2. e.key.number \in BOOLEAN
          BY <2>2, SoundEntries DEF IndexEntries
        <5>3. Accepts(e, index.unique, Entry(v, n))
          BY <1>1, <2>1, <5>1, <5>2, NotRefused
        <5> QED
          BY <5>3
      <4>2. \A e \in es : e \in Entries \/ \E i \in D : e = f[i]
        BY <3>2
      <4>3. \A i, j \in D : ~(j < i)
        BY <1>1
      <4>4. D \in SUBSET Nat
        BY <1>1
      <4>5. \A i \in D : i = n
        OBVIOUS
      <4> HIDE DEF f, D, es
      <4>6. InOrder(Entries, index.unique, D, f, es)
        BY <2>2, <4>1, <4>2, <4>3, <4>5 DEF InOrder
      <4> QED
        BY <2>1, <4>4, <4>6, AddedInOrder
    <3> QED
      BY <3>1, <3>2
  <2>5. ASSUME NEW i \in DOMAIN new, new[i].xmax = NotDeleted, ~new[i].unindexed
        PROVE  Entry(new[i].key, i) \in es
    <3>1. CASE i \in DOMAIN rows
      BY <1>1, <2>2, <2>5, <3>1 DEF Full
    <3>2. CASE i = n
      BY <1>1, <1>3, <2>5, <3>2
    <3> QED
      BY <1>1, <3>1, <3>2
  <2>6. Full(new, es)
    BY <2>5 DEF Full
  <2>7. Follows(new)
    <3>1. \A i \in DOMAIN rows : new[i] = rows[i]
      BY <1>1
    <3>2. (new[n].unindexed => new[n].suspect) /\ (~index.whole => new[n].suspect)
      BY <1>1, <1>3, <1>4
    <3> QED
      BY <1>1, <3>1, <3>2 DEF Follows
  <2>8. \A e \in es : e \in Entries \/ e.key.number = (v \in Numeric)
    BY DEF Entry, KeyOf
  <2>9. Fits(es, Separators)
    <3>1. CASE refused
      BY <2>2, <3>1
    <3>2. CASE ~refused
      <4>1. \A number \in Separators : number = (v \in Numeric)
        BY <1>4, <3>2, NotApart
      <4> HIDE DEF es
      <4> QED
        BY <2>2, <2>8, <4>1 DEF Fits
    <3> QED
      BY <3>1, <3>2
  <2> QED
    BY <2>3, <2>4, <2>6, <2>7, <2>8, <2>9
<1> QED
  BY <1>1, <1>2, <1>4 DEF Sane
\* The entries that an UPDATE of the rows D, the first of the targets T, leaves: G are
\* those of D whose new version the index has taken.
LEMMA UpdatedEntries ==
  ASSUME rows \in Seq(Rows), IndexOK, Indexed, NEW T \in SUBSET DOMAIN rows, NEW D \in SUBSET T,
         NEW G \in SUBSET D, NEW id \in Nat \ {0}, NEW new \in Values, NEW seps, NEW es,
         \A i \in D : UpTo(D, i) = UpTo(T, i),
         \A i \in G : i \notin RefusedRows(T, new, id, seps),
         es = (Entries \ Gone(D, id)) \cup {Entry(new, Place(T, i)) : i \in G}
  PROVE  OneKind(es) /\ (index.unique => OneEach(es))
<1> DEFINE kept == Entries \ Gone(D, id)
           f == [i \in G |-> Entry(new, Place(T, i))]
<1>1. Len(rows) \in Nat /\ DOMAIN rows = 1..Len(rows) /\ T \in SUBSET Nat /\ D \in SUBSET Nat /\ G \in SUBSET Nat
  OBVIOUS
<1>2. Entries = index.entries /\ Unique = index.unique /\ index.unique \in BOOLEAN
  BY DEF IndexOK, Indexes, Entries, Unique
<1>3. Entries \in SUBSET IndexEntries /\ OneKind(Entries) /\ (index.unique => OneEach(Entries))
  BY <1>2, SoundEntries DEF IndexOK
<1>4. OneKind(kept) /\ (index.unique => OneEach(kept))
  BY <1>3 DEF OneKind, OneEach
<1>5. \A i \in T : Place(T, i) \in Nat \ {0}
  <2> TAKE i \in T
  <2>1. Cardinality(UpTo(T, i)) \in 1..Cardinality(T) /\ Cardinality(T) \in Nat
    BY <1>1, UpToCounts
  <2> HIDE DEF f, kept
  <2> QED
    BY <1>1, <2>1 DEF Place
<1>6. ASSUME NEW i \in G
      PROVE  /\ \A e \in kept : Accepts(e, index.unique, f[i])
             /\ \A j \in G : j < i => Accepts(f[j], index.unique, f[i])
  <2> DEFINE at == EntriesAt(T, new, id, i)
  <2>1. ~Refuses(at, index.unique, new)
    BY <1>2 DEF RefusedRows
  <2>2. kept \subseteq at
    <3>1. UpTo(T, i) \subseteq D /\ UpTo(T, i) \subseteq T
      BY DEF UpTo
    <3>2. \A j \in UpTo(T, i) : UpTo(UpTo(T, i), j) = UpTo(D, j)
      <4> TAKE j \in UpTo(T, i)
      <4> SUFFICES ASSUME NEW k \in Nat PROVE (k \in UpTo(UpTo(T, i), j)) <=> (k \in UpTo(D, j))
        <5>1. UpTo(UpTo(T, i), j) \subseteq Nat /\ UpTo(D, j) \subseteq Nat
          BY <1>1 DEF UpTo
        <5> QED
          BY <5>1
      <4>1. j \in D /\ j <= i /\ j \in Nat /\ i \in Nat
        BY <1>1, <3>1 DEF UpTo
      <4>2. (k \in UpTo(T, i)) <=> (k \in T /\ k <= i)
        BY DEF UpTo
      <4>3. (k \in UpTo(T, i)) <=> (k \in D /\ k <= i)
        BY <4>1 DEF UpTo
      <4>4. (k \in UpTo(UpTo(T, i), j)) <=> (k \in UpTo(T, i) /\ k <= j)
        BY DEF UpTo
      <4>5. (k \in UpTo(D, j)) <=> (k \in D /\ k <= j)
        BY DEF UpTo
      <4> QED
        BY <4>1, <4>3, <4>4, <4>5
    <3>3. Gone(UpTo(T, i), id) \subseteq Gone(D, id)
      <4> DEFINE C == UpTo(T, i)
      <4>1. C \in SUBSET D /\ \A j \in C : UpTo(C, j) = UpTo(D, j)
        BY <3>1, <3>2
      <4> HIDE DEF C
      <4>2. Gone(C, id) \subseteq Gone(D, id)
        BY <1>1, <4>1, GoneGrows
      <4> QED
        BY <4>2 DEF C
    <3> QED
      BY <3>3 DEF EntriesAt
  <2>3. \A j \in G : j < i => f[j] \in at
    <3> SUFFICES ASSUME NEW j \in G, j < i PROVE Entry(new, Place(T, j)) \in at
      OBVIOUS
    <3>1. j \in UpTo(T, i) \ {i}
      BY <1>1 DEF UpTo
    <3> QED
      BY <3>1 DEF EntriesAt
  <2>4. \A e \in kept : e.key.number \in BOOLEAN
    BY <1>3 DEF IndexEntries
  <2>5. \A j \in G : f[j].key.number \in BOOLEAN
    BY <1>5, EntryType
  <2>6. f[i] = Entry(new, Place(T, i)) /\ Place(T, i) \in Nat \ {0}
    BY <1>5
  <2> HIDE DEF at, f, kept
  <2>7. \A e \in at : e.key.number \in BOOLEAN => Accepts(e, index.unique, Entry(new, Place(T, i)))
    BY <1>2, <2>1, <2>6, NotRefused
  <2> QED
    BY <2>2, <2>3, <2>4, <2>5, <2>6, <2>7
<1>7. \A e \in es : e \in kept \/ \E i \in G : e = f[i]
  OBVIOUS
<1> HIDE DEF kept, f
<1>8. InOrder(kept, index.unique, G, f, es)
  BY <1>4, <1>6, <1>7 DEF InOrder
<1> QED
  BY <1>1, <1>2, <1>8, AddedInOrder
LEMMA UpdatedRowsType ==
  ASSUME rows \in Seq(Rows), NEW D \in SUBSET DOMAIN rows, NEW id \in Nat \ {0}, NEW new \in Values,
         NEW refused \in BOOLEAN, NEW rs, NEW n,
         rs = UpdatedRows(D, new, id, refused), n = Len(rows) + Cardinality(D)
  PROVE  /\ rs \in Seq(Rows) /\ DOMAIN rs = 1..n /\ Len(rs) = n
         /\ n \in Nat /\ Len(rows) \in Nat /\ DOMAIN rows = 1..Len(rows) /\ Cardinality(D) \in Nat
         /\ \A i \in DOMAIN rows :
              /\ rs[i].key = rows[i].key /\ rs[i].unindexed = rows[i].unindexed
              /\ rs[i].suspect = rows[i].suspect
              /\ rs[i].xmax = IF i \in D THEN id ELSE rows[i].xmax
         /\ \A i \in 1..n :
              i \notin DOMAIN rows =>
                /\ rs[i].key = new /\ (rs[i].unindexed <=> refused /\ i = n)
                /\ rs[i].unindexed \/ (Indexed /\ ~index.whole) => rs[i].suspect
<1>1. Len(rows) \in Nat /\ DOMAIN rows = 1..Len(rows)
  OBVIOUS
<1>2. Cardinality(D) \in Nat /\ n \in Nat /\ Len(rows) <= n
  <2>1. Cardinality(D) \in Nat
    BY <1>1, ChosenAreFinite
  <2> QED
    BY <1>1, <2>1
<1>3. /\ Stamped(D, id) \in Seq(Rows) /\ DOMAIN Stamped(D, id) = DOMAIN rows
      /\ \A i \in DOMAIN rows :
           /\ Stamped(D, id)[i].key = rows[i].key
           /\ Stamped(D, id)[i].unindexed = rows[i].unindexed
           /\ Stamped(D, id)[i].suspect = rows[i].suspect
           /\ Stamped(D, id)[i].xmax = IF i \in D THEN id ELSE rows[i].xmax
  BY StampedRows
<1>4. \A i \in DOMAIN rows : Stamped(D, id)[i] \in Rows
  BY <1>3
<1>5. \A i \in 1..n : /\ i \in DOMAIN rows => rs[i] = Stamped(D, id)[i]
                      /\ i \notin DOMAIN rows => rs[i] = Version(new, id, refused /\ i = n)
  <2> SUFFICES ASSUME NEW i \in 1..n
               PROVE  rs[i] = IF i <= Len(rows) THEN Stamped(D, id)[i] ELSE Version(new, id, refused /\ i = n)
    BY <1>1, <1>2
  <2> QED
    BY DEF UpdatedRows
<1>6. DOMAIN rs = 1..n /\ rs = [i \in 1..n |-> rs[i]]
  BY DEF UpdatedRows
<1>7. ASSUME NEW i \in 1..n, i \notin DOMAIN rows
      PROVE  /\ rs[i] \in Rows /\ rs[i].key = new /\ (rs[i].unindexed <=> refused /\ i = n)
             /\ rs[i].unindexed \/ (Indexed /\ ~index.whole) => rs[i].suspect
  <2>1. rs[i] = Version(new, id, refused /\ i = n)
    BY <1>5, <1>7
  <2> DEFINE b == refused /\ i = n
             c == b \/ (Indexed /\ ~index.whole)
  <2>2. /\ b \in BOOLEAN /\ (b <=> refused /\ i = n)
        /\ c \in BOOLEAN /\ (b \/ (Indexed /\ ~index.whole) => c)
    OBVIOUS
  <2>3. rs[i] = Version(new, id, b)
    BY <2>1
  <2>4. rs[i] = [key |-> new, xmin |-> id, xmax |-> 0, unindexed |-> b, suspect |-> c]
    BY <2>3 DEF Version, NotDeleted
  <2> HIDE DEF b, c
  <2>5. rs[i] \in Rows
    BY <2>2, <2>4 DEF Rows
  <2> QED
    BY <2>2, <2>4, <2>5
<1>8. rs \in [1..n -> Rows]
  BY <1>4, <1>5, <1>6, <1>7
<1>9. rs \in Seq(Rows) /\ Len(rs) = n
  BY <1>2, <1>8
<1>10. \A i \in DOMAIN rows : i \in 1..n
  BY <1>1, <1>2
<1>11. ASSUME NEW i \in DOMAIN rows
       PROVE  /\ rs[i].key = rows[i].key /\ rs[i].unindexed = rows[i].unindexed
              /\ rs[i].suspect = rows[i].suspect
              /\ rs[i].xmax = IF i \in D THEN id ELSE rows[i].xmax
  BY <1>3, <1>5, <1>10
<1> QED
  BY <1>1, <1>2, <1>6, <1>7, <1>9, <1>11

\* Whose the entries of an UPDATE are, and that none is missing.
LEMMA UpdatedEntriesFit ==
  ASSUME rows \in Seq(Rows), IndexOK, Indexed, NEW T \in SUBSET DOMAIN rows, NEW D \in SUBSET T,
         NEW G \in SUBSET D, NEW id \in Nat \ {0}, NEW new \in Values, NEW refused \in BOOLEAN, NEW es,
         \A i \in D : UpTo(D, i) = UpTo(T, i),
         \A i \in D \ G : refused /\ UpTo(D, i) = D,
         es = (Entries \ Gone(D, id)) \cup {Entry(new, Place(T, i)) : i \in G}
  PROVE  LET rs == UpdatedRows(D, new, id, refused) IN Sound(rs, es) /\ Full(rs, es) /\ Follows(rs)
<1> DEFINE rs == UpdatedRows(D, new, id, refused)
           n == Len(rows) + Cardinality(D)
<1>1. D \in SUBSET DOMAIN rows
  OBVIOUS
<1>2. /\ rs \in Seq(Rows) /\ DOMAIN rs = 1..n /\ Len(rs) = n
      /\ n \in Nat /\ Len(rows) \in Nat /\ DOMAIN rows = 1..Len(rows) /\ Cardinality(D) \in Nat
      /\ \A i \in DOMAIN rows :
           /\ rs[i].key = rows[i].key /\ rs[i].unindexed = rows[i].unindexed
           /\ rs[i].suspect = rows[i].suspect
           /\ rs[i].xmax = IF i \in D THEN id ELSE rows[i].xmax
      /\ \A i \in 1..n :
           i \notin DOMAIN rows =>
             /\ rs[i].key = new /\ (rs[i].unindexed <=> refused /\ i = n)
             /\ rs[i].unindexed \/ (Indexed /\ ~index.whole) => rs[i].suspect
  <2>1. rs = UpdatedRows(D, new, id, refused) /\ n = Len(rows) + Cardinality(D)
    OBVIOUS
  <2> HIDE DEF rs, n
  <2> QED
    BY <1>1, <2>1, UpdatedRowsType
<1>3. \A i \in DOMAIN rows : i \in DOMAIN rs
  BY <1>2
<1>4. Entries = index.entries /\ Sound(rows, Entries) /\ Full(rows, Entries)
  BY DEF IndexOK, Entries
<1>5. \A e \in Gone(D, id) : e.pos \in DOMAIN rows /\ (e.pos \in D \/ rows[e.pos].xmax # NotDeleted)
  BY <1>1, GoneWereStamped
<1>6. /\ \A i \in D : Cardinality(UpTo(D, i)) \in 1..Cardinality(D)
      /\ \A k \in 1..Cardinality(D) : \E i \in D : Cardinality(UpTo(D, i)) = k
  BY <1>1, <1>2, UpToCounts
<1>7. \A i \in D : Place(T, i) = Len(rows) + Cardinality(UpTo(D, i))
  BY DEF Place
<1>8. \A i \in D : Place(T, i) \in 1..n /\ Place(T, i) \notin DOMAIN rows
  <2> TAKE i \in D
  <2>1. Cardinality(UpTo(D, i)) \in 1..Cardinality(D)
    BY <1>6
  <2> HIDE DEF rs
  <2> QED
    BY <1>2, <1>7, <2>1
<1> HIDE DEF rs
<1>9. Sound(rs, es)
  <2> SUFFICES ASSUME NEW e \in es PROVE \E i \in DOMAIN rs : e = Entry(rs[i].key, i)
    BY DEF Sound
  <2>1. CASE e \in Entries
    <3>1. PICK i \in DOMAIN rows : e = Entry(rows[i].key, i)
      BY <1>4, <2>1 DEF Sound
    <3> QED
      BY <1>2, <1>3, <3>1
  <2>2. CASE e \notin Entries
    <3>1. PICK i \in G : e = Entry(new, Place(T, i))
      BY <2>2
    <3>2. Place(T, i) \in 1..n /\ Place(T, i) \notin DOMAIN rows
      BY <1>8
    <3>3. rs[Place(T, i)].key = new
      BY <1>2, <3>2
    <3> QED
      BY <1>2, <3>1, <3>2, <3>3
  <2> QED
    BY <2>1, <2>2
<1>10. ASSUME NEW i \in DOMAIN rs, rs[i].xmax = NotDeleted, ~rs[i].unindexed
       PROVE  Entry(rs[i].key, i) \in es
  <2>1. CASE i \in DOMAIN rows
    <3>1. i \notin D /\ rows[i].xmax = NotDeleted /\ ~rows[i].unindexed
      BY <1>2, <1>10, <2>1 DEF NotDeleted
    <3>2. Entry(rows[i].key, i) \in Entries
      BY <1>4, <1>10, <2>1, <3>1 DEF Full
    <3>3. Entry(rows[i].key, i).pos = i
      BY DEF Entry
    <3> QED
      BY <1>2, <1>5, <2>1, <3>1, <3>2, <3>3
  <2>2. CASE i \notin DOMAIN rows
    <3>1. rs[i].key = new /\ ~(refused /\ i = n)
      BY <1>2, <1>10, <2>2
    <3>2. i - Len(rows) \in 1..Cardinality(D)
      BY <1>2, <2>2 DEF n
    <3>3. PICK j \in D : Cardinality(UpTo(D, j)) = i - Len(rows)
      BY <1>6, <3>2
    <3>4. Place(T, j) = i
      BY <1>2, <1>7, <3>3
    <3>5. j \in G
      <4>1. j \notin G => i - Len(rows) = Cardinality(D) /\ refused
        BY <3>3
      <4> QED
        BY <1>2, <3>1, <4>1 DEF n
    <3> QED
      BY <3>1, <3>4, <3>5
  <2> QED
    BY <2>1, <2>2
<1>11. Full(rs, es)
  BY <1>10 DEF Full
<1>12. Follows(rs)
  <2>1. ASSUME NEW i \in DOMAIN rows
        PROVE  /\ rs[i].key = rows[i].key
               /\ rs[i].unindexed = rows[i].unindexed /\ rs[i].suspect = rows[i].suspect
               /\ rs[i].xmax = NotDeleted => rows[i].xmax = NotDeleted
    BY <1>2 DEF NotDeleted
  <2>2. ASSUME NEW i \in DOMAIN rs, i \notin DOMAIN rows
        PROVE  (rs[i].unindexed => rs[i].suspect) /\ (~index.whole => rs[i].suspect)
    BY <1>2, <2>2
  <2> QED
    BY <2>1, <2>2 DEF Follows
<1> QED
  BY <1>9, <1>11, <1>12 DEF rs
\* The rows done before one is refused are the first of those found.
LEMMA DoneRowsComeFirst ==
  ASSUME NEW T \in SUBSET Nat, NEW refused \in SUBSET T
  PROVE  LET D == DoneRows(T, refused) IN D \in SUBSET T /\ \A i \in D : UpTo(D, i) = UpTo(T, i)
<1> DEFINE D == DoneRows(T, refused)
<1>1. CASE refused = {}
  BY <1>1 DEF DoneRows
<1>2. CASE refused # {}
  <2> DEFINE m == Min(refused)
  <2>1. D = UpTo(T, m) /\ m \in Nat
    BY <1>2, MinIsLeast DEF DoneRows
  <2> HIDE DEF m, D
  <2>2. D \subseteq T
    BY <2>1 DEF UpTo
  <2>3. ASSUME NEW i \in D PROVE UpTo(D, i) = UpTo(T, i)
    <3>1. i <= m /\ i \in Nat
      BY <2>1, <2>2, <2>3 DEF UpTo
    <3>2. \A j \in T : j <= i => j <= m
      BY <2>1, <3>1
    <3> QED
      BY <2>1, <3>2 DEF UpTo
  <2> QED
    BY <2>2, <2>3 DEF D
<1> QED
  BY <1>1, <1>2

\* The entries of what UPDATE leaves, refused or not.
LEMMA UpdateHolds ==
  ASSUME rows \in Seq(Rows), IndexOK, NEW T \in SUBSET DOMAIN rows, NEW id \in Nat \ {0}, NEW new \in Values,
         NEW seps
  PROVE  LET r == UpdateRows(T, new, id, seps) IN r.rows \in Seq(Rows) /\ (Indexed => Sane(r, new))
<1> DEFINE refused == RefusedRows(T, new, id, seps)
           D == DoneRows(T, refused)
           b == refused # {}
           rs == UpdatedRows(D, new, id, b)
           n == Len(rows) + Cardinality(D)
           r == UpdateRows(T, new, id, seps)
<1>1. T \in SUBSET Nat /\ refused \subseteq T /\ (refused # {} => Indexed) /\ b \in BOOLEAN
  BY DEF RefusedRows
<1>2. r = IF refused # {} THEN Raised(rs, EntriesAt(T, new, id, Min(refused)))
          ELSE Done(rs, (Entries \ Gone(T, id)) \cup {Entry(new, Place(T, i)) : i \in T})
  BY DEF UpdateRows
<1>3. refused # {} => Min(refused) \in refused /\ \A i \in refused : Min(refused) <= i
  <2> HIDE DEF refused
  <2> QED
    BY <1>1, MinIsLeast
<1>4. D \in SUBSET T /\ \A i \in D : UpTo(D, i) = UpTo(T, i)
  <2> HIDE DEF refused
  <2> QED
    BY <1>1, DoneRowsComeFirst
<1>5. r.rows = rs /\ rs \in Seq(Rows)
  <2>1. r.rows = rs
    BY <1>2 DEF Done, Raised
  <2>2. rs = UpdatedRows(D, new, id, b) /\ n = Len(rows) + Cardinality(D)
    OBVIOUS
  <2>3. D \in SUBSET DOMAIN rows
    BY <1>4
  <2> HIDE DEF rs, n, r, D, b
  <2>4. rs \in Seq(Rows)
    BY <1>1, <2>2, <2>3, UpdatedRowsType
  <2> QED
    BY <2>1, <2>4
<1>6. ASSUME Indexed
      PROVE  /\ Sound(rs, r.entries) /\ Full(rs, r.entries) /\ Follows(rs)
             /\ OneKind(r.entries) /\ Fits(r.entries, Separators)
             /\ index.unique => OneEach(r.entries)
             /\ \A e \in r.entries : e \in Entries \/ e.key.number = (new \in Numeric)
  <2> DEFINE G == IF refused = {} THEN T ELSE D \ {Min(refused)}
             es == (Entries \ Gone(D, id)) \cup {Entry(new, Place(T, i)) : i \in G}
  <2>1. G \in SUBSET D
    BY DEF DoneRows
  <2>2. r.entries = es
    <3>1. CASE refused = {}
      BY <1>2, <3>1 DEF Done, DoneRows
    <3>2. CASE refused # {}
      BY <1>2, <3>2 DEF Raised, DoneRows, EntriesAt
    <3> QED
      BY <3>1, <3>2
  <2>3. \A i \in G : i \notin refused
    <3>1. CASE refused = {}
      BY <3>1
    <3>2. CASE refused # {}
      <4> DEFINE m == Min(refused)
      <4>1. m \in Nat /\ \A i \in refused : m <= i
        BY <1>1, <1>3, <3>2
      <4>2. D = UpTo(T, m) /\ G = D \ {m}
        BY <3>2 DEF DoneRows
      <4> HIDE DEF m, refused, D, G
      <4>3. \A i \in G : i \in Nat /\ i <= m /\ i # m
        BY <1>1, <4>2 DEF UpTo
      <4> SUFFICES ASSUME NEW i \in G, i \in refused PROVE FALSE
        OBVIOUS
      <4> QED
        BY <4>1, <4>3
    <3> QED
      BY <3>1, <3>2
  <2>4. \A i \in D \ G : b /\ UpTo(D, i) = D
    <3>1. CASE refused = {}
      BY <3>1 DEF DoneRows
    <3>2. CASE refused # {}
      <4>1. \A i \in D \ G : i = Min(refused)
        BY <3>2
      <4>2. D = UpTo(T, Min(refused))
        BY <3>2 DEF DoneRows
      <4> HIDE DEF D, G, refused
      <4> SUFFICES ASSUME NEW i \in D \ G PROVE UpTo(D, i) = D
        BY <3>2
      <4> QED
        BY <1>4, <4>1, <4>2
    <3> QED
      BY <3>1, <3>2
  <2>5. es = (Entries \ Gone(D, id)) \cup {Entry(new, Place(T, i)) : i \in G}
    OBVIOUS
  <2>6. rs = UpdatedRows(D, new, id, b)
    OBVIOUS
  <2>e. \A e \in es : e \in Entries \/ e.key.number = (new \in Numeric)
    BY DEF Entry, KeyOf
  <2>f. Fits(es, Separators)
    <3>1. Fits(Entries, Separators)
      BY <1>6 DEF IndexOK, Entries, Separators
    <3>2. ASSUME NEW i \in G
          PROVE  Min(T) \in T /\ Min(T) \notin refused
      <4>1. i \in T /\ T # {}
        BY <1>4, <2>1
      <4>2. Min(T) \in T /\ Min(T) <= i /\ Min(T) \in Nat /\ i \in Nat
        BY <1>1, <4>1, MinIsLeast
      <4>3. refused # {} => i <= Min(refused) /\ i # Min(refused)
        <5> HIDE DEF refused
        <5> QED
          BY <1>1 DEF DoneRows, UpTo
      <4>4. \A j \in refused : i <= j /\ i # j
        <5>1. \A j \in refused : Min(refused) <= j /\ j \in Nat /\ Min(refused) \in Nat
          <6> HIDE DEF refused
          <6> QED
            BY <1>1, <1>3
        <5> DEFINE m == Min(refused)
        <5>2. \A j \in refused : m <= j /\ j \in Nat /\ m \in Nat /\ i <= m /\ i # m
          BY <4>3, <5>1
        <5> HIDE DEF m, refused
        <5> QED
          BY <4>2, <5>2
      <4> DEFINE least == Min(T)
      <4> HIDE DEF refused, least
      <4>5. least \in refused => least <= i /\ i <= least /\ i # least
        BY <4>2, <4>4 DEF least
      <4>6. least \notin refused
        BY <4>2, <4>5 DEF least
      <4> QED
        BY <4>2, <4>6 DEF least
    <3>3. G # {} => \A number \in Separators : number = (new \in Numeric)
      <4> SUFFICES ASSUME G # {} PROVE \A number \in Separators : number = (new \in Numeric)
        OBVIOUS
      <4>1. Min(T) \in T /\ Min(T) \notin refused
        BY <3>2
      <4>2. ~Apart(Separators, new)
        BY <1>6, <4>1 DEF RefusedRows, Met
      <4> QED
        BY <4>2, NotApart
    <3>4. \A e \in es : e \in Entries \/ (G # {} /\ e.key.number = (new \in Numeric))
      BY <2>e
    <3> HIDE DEF es, G
    <3> QED
      BY <3>1, <3>3, <3>4 DEF Fits
  <2> HIDE DEF es, G, D, b, rs
  <2>7. OneKind(es) /\ (index.unique => OneEach(es))
    BY <1>4, <1>6, <2>1, <2>3, <2>5, UpdatedEntries
  <2>8. /\ Sound(UpdatedRows(D, new, id, b), es) /\ Full(UpdatedRows(D, new, id, b), es)
        /\ Follows(UpdatedRows(D, new, id, b))
    BY <1>1, <1>4, <1>6, <2>1, <2>4, <2>5, UpdatedEntriesFit
  <2> QED
    BY <2>2, <2>6, <2>7, <2>8, <2>e, <2>f
<1> HIDE DEF r, rs
<1> QED
  BY <1>5, <1>6 DEF Sane, r
-----------------------------------------------------------------------------
(***************************************************************************)
(* The steps keep the invariant.                                           *)
(***************************************************************************)
\* The separators after a statement still are of the kind that all entries have.
LEMMA SeparatorsFit ==
  ASSUME IndexOK, Indexed, NEW v, NEW r, Sane(r, v), NEW seps \in AfterInsert(v),
         seps = Separators \/ ~(r.entries \subseteq Entries)
  PROVE  Fits(r.entries, seps) /\ seps \in SUBSET BOOLEAN
<1>1. CASE seps = Separators
  BY <1>1 DEF Sane, Separators, IndexOK, Indexes
<1>2. CASE seps # Separators
  <2>1. seps = {v \in Numeric}
    BY <1>2 DEF AfterInsert
  <2>2. PICK e \in r.entries : e.key.number = (v \in Numeric)
    BY <1>2 DEF Sane
  <2>3. \A f \in r.entries : f.key.number = e.key.number
    BY DEF Sane, OneKind
  <2> QED
    BY <2>1, <2>2, <2>3 DEF Fits
<1> QED
  BY <1>1, <1>2

LEMMA LeaveKeeps ==
  ASSUME rows \in Seq(Rows), IndexOK, NEW r, NEW v, NEW seps \in AfterInsert(v), Leave(r, seps),
         r.rows \in Seq(Rows), Indexed => Sane(r, v)
  PROVE  rows' \in Seq(Rows) /\ IndexOK'
<1>1. /\ rows' = r.rows
      /\ seps = Separators \/ ~(r.entries \subseteq Entries)
      /\ index' = IF Indexed THEN [index EXCEPT !.entries = r.entries, !.separators = seps] ELSE index
  BY DEF Leave
<1>2. CASE ~Indexed
  BY <1>1, <1>2 DEF IndexOK, Indexed
<1>3. CASE Indexed
  <2>1. index \in Indexes
    BY <1>3 DEF IndexOK
  <2>2. r.entries \in SUBSET IndexEntries
    BY <1>3, SoundEntries DEF Sane
  <2>3. Fits(r.entries, seps) /\ seps \in SUBSET BOOLEAN
    BY <1>1, <1>3, SeparatorsFit
  <2>4. /\ index' \in Indexes /\ index'.entries = r.entries /\ index'.separators = seps
        /\ index'.unique = index.unique /\ index'.whole = index.whole
    BY <1>1, <1>3, <2>1, <2>2, <2>3 DEF Indexes
  <2>5. (index.whole => Noted(r.rows)) /\ (~index.whole => Distinct(r.rows, index.unique))
    BY <1>3, FollowersAreDistinct DEF Sane
  <2> QED
    BY <1>1, <1>3, <2>3, <2>4, <2>5 DEF IndexOK, Sane
<1> QED
  BY <1>2, <1>3

LEMMA StatementKeeps ==
  ASSUME IdsOK, NEW s \in Sessions, Statement(s)
  PROVE  IdsOK' /\ IdOf(s) \in Nat \ {0}
<1>1. /\ mvcc.next \in Nat \ {0} /\ mvcc.active \in SUBSET Nat /\ mvcc.committed \in SUBSET Nat
      /\ txn' = txn /\ txn[s].id \in Nat
  BY DEF IdsOK, Statement
<1>2. IdOf(s) \in Nat \ {0}
  BY <1>1 DEF IdsOK, IdOf, AutoCommit
<1>3. CASE Busy(s)
  BY <1>1, <1>2, <1>3 DEF Statement, IdsOK, Busy
<1>4. CASE ~Busy(s)
  <2> DEFINE n == mvcc.next + 1
             c == mvcc.committed \cup {mvcc.next}
  <2>1. mvcc' = [mvcc EXCEPT !.next = n, !.committed = c]
    BY <1>4 DEF Statement
  <2>2. n \in Nat \ {0} /\ c \in SUBSET Nat /\ mvcc.next < n /\ \A i \in Nat : i < mvcc.next => i < n
    BY <1>1
  <2> HIDE DEF n
  <2>3. mvcc' \in [next : Nat \ {0}, active : SUBSET Nat, committed : SUBSET Nat]
        /\ mvcc'.next = n /\ mvcc'.active = mvcc.active /\ mvcc'.committed = c
    BY <2>1, <2>2 DEF IdsOK
  <2>4. \A i \in mvcc'.active \cup mvcc'.committed : i < n
    BY <1>1, <2>2, <2>3 DEF IdsOK
  <2>5. mvcc'.active \cap mvcc'.committed = {}
    <3>1. \A i \in mvcc.active : i < mvcc.next /\ i \in Nat
      BY <1>1 DEF IdsOK
    <3>2. mvcc.next \notin mvcc.active
      BY <1>1, <3>1
    <3> QED
      BY <2>3, <3>2 DEF IdsOK
  <2>6. \A t \in Sessions : Busy(t)' => txn'[t].id # AutoCommit /\ txn'[t].id < n
    BY <1>1, <2>2 DEF IdsOK, Busy
  <2> QED
    BY <1>1, <1>2, <2>3, <2>4, <2>5, <2>6 DEF IdsOK
<1> QED
  BY <1>2, <1>3, <1>4

LEMMA SameRowsAreDistinct ==
  ASSUME NEW rs \in Seq(Rows), NEW u, Distinct(rs, u), NEW new, SameBut(new, rs),
         \A i \in DOMAIN rs : new[i].suspect = rs[i].suspect
  PROVE  Distinct(new, u)
BY DEF Distinct, SameBut, Certain

\* A copy of the rows with the index built again, or not to the end.
LEMMA ReplaceKeeps ==
  ASSUME IndexOK, NEW rs \in Seq(Rows), Indexed => Distinct(rs, index.unique), Replace(rs)
  PROVE  rows' \in Seq(Rows) /\ IndexOK'
<1>1. rows' = Rebuilt(rs).rows
  BY DEF Replace
<1>2. CASE ~Indexed
  <2>1. rows' = rs
    BY <1>1, <1>2 DEF Rebuilt, Done
  <2> QED
    BY <1>2, <2>1 DEF Replace, IndexOK, Indexed
<1>3. CASE Indexed
  <2> DEFINE b == Build(rs, index.entries, index.unique)
  <2>1. index \in Indexes /\ index.unique \in BOOLEAN
    BY <1>3 DEF IndexOK, Indexes
  <2>2. PICK seps \in Splits(b.entries) :
          rows' = b.rows /\ index' = [index EXCEPT !.entries = b.entries, !.separators = seps, !.whole = b.ok]
    BY <1>3 DEF Replace, Rebuilt
  <2>3. /\ b.ok \in BOOLEAN /\ SameBut(b.rows, rs)
        /\ Sound(b.rows, b.entries) /\ Full(b.rows, b.entries)
        /\ OneKind(b.entries) /\ (index.unique => OneEach(b.entries))
        /\ b.ok => Noted(b.rows)
        /\ ~b.ok => \A i \in DOMAIN rs : b.rows[i].suspect = rs[i].suspect
    BY <2>1, BuildHolds
  <2> HIDE DEF b
  <2>4. b.rows \in Seq(Rows)
    BY <2>3 DEF SameBut
  <2>5. b.entries \in SUBSET IndexEntries
    BY <2>3, <2>4, SoundEntries
  <2>6. Fits(b.entries, seps) /\ seps \in SUBSET BOOLEAN
    BY <2>3, <2>5, SplitsFit
  <2>7. ~b.ok => Distinct(b.rows, index.unique)
    BY <1>3, <2>3, SameRowsAreDistinct
  <2>8. /\ index' \in Indexes /\ index'.entries = b.entries /\ index'.separators = seps
        /\ index'.unique = index.unique /\ index'.whole = b.ok
    BY <2>1, <2>2, <2>3, <2>5, <2>6 DEF Indexes
  <2> QED
    BY <2>2, <2>3, <2>4, <2>6, <2>7, <2>8 DEF IndexOK
<1> QED
  BY <1>2, <1>3

\* Of the rows chosen for a copy none collide that did not before.
LEMMA KeptAreDistinct ==
  ASSUME NEW rs \in Seq(Rows), NEW u, Distinct(rs, u), NEW S \in SUBSET DOMAIN rs
  PROVE  Distinct(Keep(rs, S), u)
<1>1. /\ DOMAIN Keep(rs, S) = 1..Cardinality(S)
      /\ \A k \in 1..Cardinality(S) : Nth(S, k) \in S /\ Keep(rs, S)[k] = rs[Nth(S, k)]
      /\ \A j, k \in 1..Cardinality(S) : Nth(S, j) = Nth(S, k) => j = k
  BY KeepIsAList
<1> DEFINE kept == Keep(rs, S)
<1> SUFFICES ASSUME NEW j \in DOMAIN kept, NEW k \in DOMAIN kept, Certain(kept[j]), Certain(kept[k]), j # k
             PROVE  Apiece(kept[j].key, kept[k].key, u)
  BY DEF Distinct
<1> HIDE DEF kept
<1>2. kept[j] = rs[Nth(S, j)] /\ kept[k] = rs[Nth(S, k)] /\ Nth(S, j) # Nth(S, k)
      /\ Nth(S, j) \in DOMAIN rs /\ Nth(S, k) \in DOMAIN rs
  BY <1>1 DEF kept
<1> QED
  BY <1>2 DEF Distinct

LEMMA InsertKeeps ==
  ASSUME TableInv, NEW s \in Sessions, NEW v \in Writes, Insert(s, v)
  PROVE  TableInv'
<1> DEFINE r == InsertRow(v, IdOf(s))
<1>1. Statement(s) /\ v \in Values
  BY ValuesAssumption DEF Insert
<1>2. PICK seps \in AfterInsert(v) : Leave(r, seps)
  BY DEF Insert
<1>3. IdsOK' /\ IdOf(s) \in Nat \ {0}
  BY <1>1, StatementKeeps DEF TableInv
<1>4. r.rows \in Seq(Rows) /\ (Indexed => Sane(r, v))
  BY <1>1, <1>3, InsertHolds DEF TableInv
<1> HIDE DEF r
<1>5. rows' \in Seq(Rows) /\ IndexOK'
  BY <1>2, <1>4, LeaveKeeps DEF TableInv
<1> QED
  BY <1>3, <1>5 DEF TableInv

LEMMA TargetsAreRows ==
  ASSUME NEW v, NEW id, NEW sn
  PROVE  Targets(v, id, sn) \in SUBSET DOMAIN rows
  BY DEF Targets

LEMMA DeleteKeeps ==
  ASSUME TableInv, NEW s \in Sessions, NEW v \in Writes, Delete(s, v)
  PROVE  TableInv'
<1> DEFINE T == Targets(v, IdOf(s), SnapOf(s))
           refused == {i \in T : Apart(Separators, rows[i].key)}
           D == DoneRows(T, refused)
           r == DeleteRows(T, IdOf(s))
<1>1. Statement(s) /\ Leave(r, Separators)
  BY DEF Delete
<1>2. IdsOK' /\ IdOf(s) \in Nat \ {0}
  BY <1>1, StatementKeeps DEF TableInv
<1>3. T \in SUBSET DOMAIN rows /\ T \in SUBSET Nat /\ rows \in Seq(Rows) /\ IndexOK
  BY TargetsAreRows DEF TableInv
<1>4. r.rows = Stamped(D, IdOf(s)) /\ r.entries = Entries \ Gone(D, IdOf(s))
  BY DEF DeleteRows
<1>5. refused \in SUBSET T
  OBVIOUS
<1> HIDE DEF T, refused, r
<1>6. D \in SUBSET DOMAIN rows
  BY <1>3, <1>5, DoneRowsComeFirst
<1> HIDE DEF D
<1>7. r.rows \in Seq(Rows)
  BY <1>2, <1>3, <1>4, <1>6, StampedRows
<1>8. Indexed => Sane(r, v)
  BY <1>2, <1>3, <1>4, <1>6, DeleteHolds
<1>9. Separators \in AfterInsert(v)
  BY DEF AfterInsert
<1>10. rows' \in Seq(Rows) /\ IndexOK'
  BY <1>1, <1>3, <1>7, <1>8, <1>9, LeaveKeeps
<1> QED
  BY <1>2, <1>10 DEF TableInv

LEMMA UpdateKeeps ==
  ASSUME TableInv, NEW s \in Sessions, NEW v \in Writes, NEW new \in Writes, Update(s, v, new)
  PROVE  TableInv'
<1> DEFINE T == Targets(v, IdOf(s), SnapOf(s))
           r(seps) == UpdateRows(T, new, IdOf(s), seps)
<1>1. Statement(s) /\ new \in Values
  BY ValuesAssumption DEF Update
<1>2. PICK seps \in AfterInsert(new) : Leave(r(seps), seps)
  BY DEF Update
<1>3. IdsOK' /\ IdOf(s) \in Nat \ {0}
  BY <1>1, StatementKeeps DEF TableInv
<1>4. T \in SUBSET DOMAIN rows
  BY TargetsAreRows
<1> HIDE DEF T
<1>5. r(seps).rows \in Seq(Rows) /\ (Indexed => Sane(r(seps), new))
  BY <1>1, <1>3, <1>4, UpdateHolds DEF TableInv
<1> HIDE DEF r
<1>6. rows' \in Seq(Rows) /\ IndexOK'
  BY <1>2, <1>5, LeaveKeeps DEF TableInv
<1> QED
  BY <1>3, <1>6 DEF TableInv

LEMMA BeginKeeps ==
  ASSUME TableInv, NEW s \in Sessions, Begin(s)
  PROVE  TableInv'
<1> DEFINE n == mvcc.next + 1
           a == mvcc.active \cup {mvcc.next}
           sn == [Fresh EXCEPT !.active = a, !.max = mvcc.next]
<1>1. /\ mvcc \in [next : Nat \ {0}, active : SUBSET Nat, committed : SUBSET Nat]
      /\ mvcc' = [mvcc EXCEPT !.next = n, !.active = a]
      /\ txn' = [txn EXCEPT ![s] = [id |-> mvcc.next, snap |-> sn]]
      /\ rows' = rows /\ index' = index
  <2>1. Fresh.active = mvcc.active
    BY DEF Fresh
  <2> QED
    BY <2>1 DEF Begin, TableInv, IdsOK
<1>2. mvcc.next \in Nat \ {0} /\ n \in Nat \ {0} /\ mvcc.next < n /\ \A i \in Nat : i < mvcc.next => i < n
  BY <1>1
<1>3. a \in SUBSET Nat /\ mvcc.committed \in SUBSET Nat
  BY <1>1
<1>4. sn \in Snapshots
  <2>1. Fresh \in [active : SUBSET Nat, committed : SUBSET Nat, max : Int]
    BY <1>1, <1>2 DEF Fresh
  <2> HIDE DEF a
  <2> QED
    BY <1>2, <1>3, <2>1 DEF Snapshots
<1> HIDE DEF n, sn
<1>5. /\ mvcc' \in [next : Nat \ {0}, active : SUBSET Nat, committed : SUBSET Nat]
      /\ mvcc'.next = n /\ mvcc'.active = a /\ mvcc'.committed = mvcc.committed
  <2> HIDE DEF a
  <2> QED
    BY <1>1, <1>2, <1>3
<1>6. /\ txn' \in [Sessions -> [id : Nat, snap : Snapshots \cup {Nil}]]
      /\ txn'[s].id = mvcc.next
      /\ \A t \in Sessions : t # s => txn'[t] = txn[t]
  BY <1>1, <1>2, <1>4 DEF TableInv, IdsOK
<1>7. mvcc'.active \cap mvcc'.committed = {}
  <2>1. mvcc.next \notin mvcc.committed
    <3>1. \A i \in mvcc.committed : i < mvcc.next
      BY DEF TableInv, IdsOK
    <3> QED
      BY <1>2, <3>1
  <2> QED
    BY <1>5, <2>1 DEF TableInv, IdsOK
<1>8. \A i \in mvcc'.active \cup mvcc'.committed : i < mvcc'.next
  BY <1>1, <1>2, <1>3, <1>5 DEF TableInv, IdsOK
<1>9. ASSUME NEW t \in Sessions, Busy(t)'
      PROVE  txn'[t].id # AutoCommit /\ txn'[t].id < mvcc'.next
  <2>1. CASE t = s
    BY <1>2, <1>5, <1>6, <2>1 DEF AutoCommit
  <2>2. CASE t # s
    <3>1. Busy(t) /\ txn'[t] = txn[t]
      BY <1>6, <1>9, <2>2 DEF Busy
    <3>2. txn[t].id # AutoCommit /\ txn[t].id < mvcc.next /\ txn[t].id \in Nat
      BY <3>1 DEF TableInv, IdsOK
    <3> QED
      BY <1>2, <1>5, <3>1, <3>2
  <2> QED
    BY <2>1, <2>2
<1>10. IdsOK'
  BY <1>5, <1>6, <1>7, <1>8, <1>9 DEF IdsOK
<1>11. rows' \in Seq(Rows) /\ IndexOK'
  BY <1>1 DEF TableInv, IndexOK, Indexed
<1> QED
  BY <1>10, <1>11 DEF TableInv

\* A transaction that ends, one way or the other.
LEMMA EndKeepsIds ==
  ASSUME IdsOK, NEW s \in Sessions, txn' = [txn EXCEPT ![s] = NoTxn],
         NEW c \in SUBSET Nat, c = mvcc.committed \/ (c = mvcc.committed \cup {txn[s].id} /\ Busy(s)),
         mvcc' = [mvcc EXCEPT !.active = @ \ {txn[s].id}, !.committed = c]
  PROVE  IdsOK'
<1> DEFINE a == mvcc.active \ {txn[s].id}
<1>1. /\ mvcc \in [next : Nat \ {0}, active : SUBSET Nat, committed : SUBSET Nat]
      /\ txn \in [Sessions -> [id : Nat, snap : Snapshots \cup {Nil}]]
      /\ a \in SUBSET Nat
  BY DEF IdsOK
<1>2. /\ mvcc' \in [next : Nat \ {0}, active : SUBSET Nat, committed : SUBSET Nat]
      /\ mvcc'.next = mvcc.next /\ mvcc'.active = a /\ mvcc'.committed = c
  <2> HIDE DEF a
  <2>1. mvcc' = [mvcc EXCEPT !.active = a, !.committed = c]
    BY DEF a
  <2> QED
    BY <1>1, <2>1
<1>3. /\ txn' \in [Sessions -> [id : Nat, snap : Snapshots \cup {Nil}]]
      /\ \A t \in Sessions : txn'[t] = IF t = s THEN NoTxn ELSE txn[t]
  <2>1. NoTxn \in [id : Nat, snap : Snapshots \cup {Nil}]
    BY DEF NoTxn, AutoCommit
  <2> QED
    BY <1>1, <2>1
<1>4. \A t \in Sessions : Busy(t)' => Busy(t) /\ txn'[t] = txn[t]
  BY <1>3 DEF Busy, NoTxn
<1>5. \A i \in a \cup c : i < mvcc.next
  BY DEF IdsOK
<1>6. a \cap c = {}
  BY DEF IdsOK
<1>7. \A t \in Sessions : Busy(t) => txn[t].id # AutoCommit /\ txn[t].id < mvcc.next
  BY DEF IdsOK
<1> HIDE DEF a
<1> QED
  BY <1>2, <1>3, <1>4, <1>5, <1>6, <1>7 DEF IdsOK

LEMMA CommitKeeps ==
  ASSUME TableInv, NEW s \in Sessions, Commit(s)
  PROVE  TableInv'
<1> DEFINE c == mvcc.committed \cup {txn[s].id}
<1>1. c \in SUBSET Nat
  BY DEF TableInv, IdsOK
<1>2. /\ Busy(s) /\ txn' = [txn EXCEPT ![s] = NoTxn] /\ rows' = rows /\ index' = index
      /\ mvcc' = [mvcc EXCEPT !.active = @ \ {txn[s].id}, !.committed = c]
  BY DEF Commit
<1>3. c = mvcc.committed \cup {txn[s].id}
  OBVIOUS
<1> HIDE DEF c
<1>4. IdsOK
  BY DEF TableInv
<1>5. IdsOK'
  BY <1>1, <1>2, <1>3, <1>4, EndKeepsIds
<1>6. rows' \in Seq(Rows) /\ IndexOK'
  BY <1>2 DEF TableInv, IndexOK, Indexed
<1> QED
  BY <1>5, <1>6 DEF TableInv

\* What ROLLBACK leaves of the rows: those it revives are suspects.
LEMMA UndoneIsAList ==
  ASSUME rows \in Seq(Rows), NEW id \in Nat \ {0}
  PROVE  Undone(id) \in Seq(Rows) /\ \A u : Distinct(rows, u) => Distinct(Undone(id), u)
<1> DEFINE rs == [i \in DOMAIN rows |-> IF rows[i].xmax = id THEN Revived(rows[i]) ELSE rows[i]]
           S == {i \in DOMAIN rows : rows[i].xmin # id}
<1>1. Len(rows) \in Nat /\ DOMAIN rows = 1..Len(rows) /\ \A i \in DOMAIN rows : rows[i] \in Rows
  OBVIOUS
<1>2. \A r \in Rows : Revived(r) \in Rows /\ ~Certain(Revived(r))
  BY DEF Rows, Revived, Certain, NotDeleted
<1>3. rs \in [1..Len(rows) -> Rows]
  BY <1>1, <1>2
<1>4. rs \in Seq(Rows) /\ DOMAIN rs = DOMAIN rows
  BY <1>1, <1>3
<1>5. S \in SUBSET DOMAIN rs
  BY <1>4
<1>6. Undone(id) = Keep(rs, S)
  BY DEF Undone
<1>7. \A i \in DOMAIN rs : Certain(rs[i]) => rs[i] = rows[i]
  BY <1>1, <1>2
<1> HIDE DEF rs, S
<1>8. \A u : Distinct(rows, u) => Distinct(rs, u)
  BY <1>4, <1>7 DEF Distinct
<1> QED
  BY <1>4, <1>5, <1>6, <1>8, KeepIsAList, KeptAreDistinct

LEMMA RollbackKeeps ==
  ASSUME TableInv, NEW s \in Sessions, Rollback(s)
  PROVE  TableInv'
<1> DEFINE left == Undone(txn[s].id)
<1>0. Busy(s) /\ txn[s].id \in Nat \ {0} /\ rows \in Seq(Rows) /\ IndexOK
  BY DEF Rollback, TableInv, IdsOK, AutoCommit
<1>1. left \in Seq(Rows) /\ (Indexed => Distinct(left, index.unique))
  BY <1>0, UndoneIsAList, RowsAreDistinct
<1>2. /\ Replace(left)
      /\ \/ UNCHANGED <<mvcc, txn>>
         \/ /\ mvcc' = [mvcc EXCEPT !.active = @ \ {txn[s].id}]
            /\ txn' = [txn EXCEPT ![s] = NoTxn]
  BY DEF Rollback
<1>3. rows' \in Seq(Rows) /\ IndexOK'
  <2>1. IndexOK
    BY DEF TableInv
  <2> HIDE DEF left
  <2> QED
    BY <1>1, <1>2, <2>1, ReplaceKeeps
<1>4. IdsOK'
  <2>1. CASE UNCHANGED <<mvcc, txn>>
    BY <2>1 DEF TableInv, IdsOK, Busy
  <2>2. CASE mvcc' = [mvcc EXCEPT !.active = @ \ {txn[s].id}] /\ txn' = [txn EXCEPT ![s] = NoTxn]
    <3> DEFINE c == mvcc.committed
    <3>1. IdsOK /\ c \in SUBSET Nat
      BY DEF TableInv, IdsOK
    <3>2. mvcc' = [mvcc EXCEPT !.active = @ \ {txn[s].id}, !.committed = c]
      BY <2>2, <3>1 DEF IdsOK
    <3>3. c = mvcc.committed
      OBVIOUS
    <3> HIDE DEF c
    <3> QED
      BY <2>2, <3>1, <3>2, <3>3, EndKeepsIds
  <2> QED
    BY <1>2, <2>1, <2>2
<1> QED
  BY <1>3, <1>4 DEF TableInv

LEMMA VacuumKeeps ==
  ASSUME TableInv, Vacuum
  PROVE  TableInv'
<1> DEFINE oldest == IF mvcc.active = {} THEN mvcc.next ELSE Min(mvcc.active)
           S == {i \in DOMAIN rows : ~IsDead(rows[i], oldest, mvcc.committed)}
           kept == Keep(rows, S)
<1>1. Replace(kept) /\ UNCHANGED <<mvcc, txn>>
  BY DEF Vacuum
<1>2. S \in SUBSET DOMAIN rows /\ rows \in Seq(Rows) /\ IndexOK
  BY DEF TableInv
<1> HIDE DEF S
<1>3. kept \in Seq(Rows) /\ (Indexed => Distinct(kept, index.unique))
  BY <1>2, KeepIsAList, KeptAreDistinct, RowsAreDistinct
<1> HIDE DEF kept
<1>4. rows' \in Seq(Rows) /\ IndexOK'
  BY <1>1, <1>2, <1>3, ReplaceKeeps
<1>5. IdsOK'
  BY <1>1 DEF TableInv, IdsOK, Busy
<1> QED
  BY <1>4, <1>5 DEF TableInv

LEMMA TruncateKeeps ==
  ASSUME TableInv, Truncate
  PROVE  TableInv'
<1>1. rows' = << >> /\ UNCHANGED <<mvcc, txn>>
  BY DEF Truncate
<1>2. IdsOK'
  BY <1>1 DEF TableInv, IdsOK, Busy
<1>3. IndexOK'
  <2>1. CASE ~Indexed
    BY <2>1 DEF Truncate, IndexOK, Indexed
  <2>2. CASE Indexed
    <3>1. index \in Indexes
      BY <2>2 DEF TableInv, IndexOK
    <3>2. index' \in Indexes /\ index'.entries = {} /\ index'.whole
      BY <2>2, <3>1 DEF Truncate, Indexes
    <3> QED
      BY <1>1, <3>2 DEF IndexOK, Sound, Full, OneEach, OneKind, Fits, Noted
  <2> QED
    BY <2>1, <2>2
<1> QED
  BY <1>1, <1>2, <1>3 DEF TableInv

LEMMA CreateIndexKeeps ==
  ASSUME TableInv, NEW unique \in Uniques, CreateIndex(unique)
  PROVE  TableInv'
<1> DEFINE b == Build(rows, {}, unique)
<1>1. UNCHANGED <<mvcc, txn>> /\ ~Indexed
  BY DEF CreateIndex
<1>2. IdsOK'
  BY <1>1 DEF TableInv, IdsOK, Busy
<1>3. rows \in Seq(Rows) /\ unique \in BOOLEAN
  BY ValuesAssumption DEF TableInv
<1>4. /\ SameBut(b.rows, rows) /\ Sound(b.rows, b.entries) /\ Full(b.rows, b.entries)
      /\ OneKind(b.entries) /\ (unique => OneEach(b.entries))
      /\ b.ok => Noted(b.rows)
  BY <1>3, BuildHolds
<1>5. CASE b.ok
  <2>1. PICK seps \in Splits(b.entries) :
          /\ rows' = b.rows
          /\ index' = [entries |-> b.entries, separators |-> seps, unique |-> unique, whole |-> TRUE]
    BY <1>5 DEF CreateIndex
  <2> HIDE DEF b
  <2>2. b.rows \in Seq(Rows)
    BY <1>4 DEF SameBut
  <2>3. b.entries \in SUBSET IndexEntries
    BY <1>4, <2>2, SoundEntries
  <2>4. Fits(b.entries, seps) /\ seps \in SUBSET BOOLEAN
    BY <1>4, <2>3, SplitsFit
  <2>5. /\ index' \in Indexes /\ index'.entries = b.entries /\ index'.separators = seps
        /\ index'.unique = unique /\ index'.whole
    BY <1>3, <2>1, <2>3, <2>4 DEF Indexes
  <2>6. IndexOK'
    BY <1>4, <1>5, <2>1, <2>4, <2>5 DEF IndexOK
  <2> QED
    BY <1>2, <2>1, <2>2, <2>6 DEF TableInv
<1>6. CASE ~b.ok
  <2>1. UNCHANGED <<rows, index>>
    BY <1>6 DEF CreateIndex
  <2> QED
    BY <1>2, <1>3, <2>1 DEF TableInv, IndexOK, Indexed
<1> QED
  BY <1>5, <1>6

\* In every instance the index holds exactly what the steps of any sessions leave it:
\* entries of their rows, none of a live row missing that it took, one of a key where
\* it is unique, of one kind (table.py 308-597, index.py 68-152).
THEOREM IndexInvariant == Spec => []TableInv
<1>1. Init => TableInv
  <2> SUFFICES ASSUME Init PROVE TableInv
    OBVIOUS
  <2>1. rows \in Seq(Rows)
    BY DEF Init
  <2>2. IndexOK
    BY DEF Init, IndexOK, Indexed
  <2>3. IdsOK
    <3>1. /\ mvcc.next = 1 /\ mvcc.active = {} /\ mvcc.committed = {}
          /\ mvcc \in [next : Nat \ {0}, active : SUBSET Nat, committed : SUBSET Nat]
      BY DEF Init
    <3>2. txn \in [Sessions -> [id : Nat, snap : Snapshots \cup {Nil}]] /\ \A s \in Sessions : ~Busy(s)
      BY DEF Init, NoTxn, Busy, AutoCommit
    <3> QED
      BY <3>1, <3>2 DEF IdsOK
  <2> QED
    BY <2>1, <2>2, <2>3 DEF TableInv
<1>2. TableInv /\ [Next]_vars => TableInv'
  <2> SUFFICES ASSUME TableInv, [Next]_vars PROVE TableInv'
    OBVIOUS
  <2>1. ASSUME NEW s \in Sessions, Begin(s) PROVE TableInv'
    BY <2>1, BeginKeeps
  <2>2. ASSUME NEW s \in Sessions, Commit(s) PROVE TableInv'
    BY <2>2, CommitKeeps
  <2>3. ASSUME NEW s \in Sessions, Rollback(s) PROVE TableInv'
    BY <2>3, RollbackKeeps
  <2>4. ASSUME NEW s \in Sessions, NEW v \in Writes, Insert(s, v) PROVE TableInv'
    BY <2>4, InsertKeeps
  <2>5. ASSUME NEW s \in Sessions, NEW v \in Writes, Delete(s, v) PROVE TableInv'
    BY <2>5, DeleteKeeps
  <2>6. ASSUME NEW s \in Sessions, NEW v \in Writes, NEW new \in Writes, Update(s, v, new) PROVE TableInv'
    BY <2>6, UpdateKeeps
  <2>7. CASE Vacuum
    BY <2>7, VacuumKeeps
  <2>8. CASE Truncate
    BY <2>8, TruncateKeeps
  <2>9. CASE DropIndex
    BY <2>9 DEF DropIndex, TableInv, IdsOK, Busy, IndexOK, Indexed
  <2>10. ASSUME NEW unique \in Uniques, CreateIndex(unique) PROVE TableInv'
    BY <2>10, CreateIndexKeeps
  <2>11. CASE UNCHANGED vars
    BY <2>11 DEF vars, TableInv, IdsOK, Busy, IndexOK, Indexed
  <2> QED
    BY <2>1, <2>2, <2>3, <2>4, <2>5, <2>6, <2>7, <2>8, <2>9, <2>10, <2>11 DEF Next
<1> QED
  BY <1>1, <1>2, PTL DEF Spec
-----------------------------------------------------------------------------
(***************************************************************************)
(* What follows.                                                           *)
(***************************************************************************)
\* No statement, ROLLBACK, VACUUM or error half-way leaves an index entry that stands
\* for another row or for none, in any instance (table.py 308-597).
THEOREM EntriesStayWithTheirRows == Spec => []EntriesPointAtTheirRows
<1>1. TableInv => EntriesPointAtTheirRows
  <2> SUFFICES ASSUME TableInv, NEW e \in Entries
               PROVE  e.pos \in DOMAIN rows /\ e.key = KeyOf(rows[e.pos].key)
    BY DEF EntriesPointAtTheirRows
  <2>1. Indexed /\ e \in index.entries
    BY DEF Entries
  <2>2. PICK i \in DOMAIN rows : e = Entry(rows[i].key, i)
    BY <2>1 DEF TableInv, IndexOK, Sound
  <2> QED
    BY <2>2 DEF Entry
<1> QED
  BY <1>1, IndexInvariant, PTL

LEMMA FreshSeesTheCommitted ==
  ASSUME IdsOK, NEW row \in Rows, row.xmax = NotDeleted, row.xmin \in mvcc.committed
  PROVE  IsVisible(row, AutoCommit, Fresh)
<1>1. /\ mvcc.next \in Nat /\ row.xmin \in Nat /\ row.xmin # AutoCommit
      /\ row.xmin < mvcc.next /\ row.xmin \notin mvcc.active
  BY DEF IdsOK, Rows, AutoCommit
<1>2. Fresh.active = mvcc.active /\ Fresh.committed = mvcc.committed /\ Fresh.max = mvcc.next - 1
  BY DEF Fresh
<1>3. row.xmin <= Fresh.max
  BY <1>1, <1>2
<1> QED
  BY <1>1, <1>2, <1>3 DEF IsVisible, CreatorVisible, DeletionUnseen

LEMMA LiveRowsHaveEntries ==
  ASSUME TableInv, Indexed, NEW i \in DOMAIN rows, rows[i].xmax = NotDeleted, ~rows[i].unindexed
  PROVE  LET e == Entry(rows[i].key, i) IN
         e \in Entries /\ e.pos = i /\ e.key = KeyOf(rows[i].key) /\ rows[i].key \in Values
<1>1. rows[i].key \in Values
  BY RowsHaveKeys DEF TableInv
<1> QED
  BY <1>1 DEF TableInv, IndexOK, Full, Entries, Entry

\* What the full scan shows and the index scan does not.
LEMMA MissedByTheIndex ==
  ASSUME TableInv, Indexed, NEW s \in Sessions, NEW op \in {"=", "<", ">="}, NEW v \in Values,
         NEW i \in FullScan(s, op, v), i \notin IndexScan(s, op, v).rows
  PROVE  rows[i].xmax # NotDeleted \/ rows[i].unindexed \/ ~SameOrder(rows[i], v)
<1> SUFFICES ASSUME rows[i].xmax = NotDeleted, ~rows[i].unindexed, SameOrder(rows[i], v)
             PROVE  i \in IndexScan(s, op, v).rows
  OBVIOUS
<1>1. i \in DOMAIN rows /\ Where(rows[i], op, v)
  BY DEF FullScan
<1>2. rows[i].key \in Values
  BY <1>1, RowsHaveKeys DEF TableInv
<1> DEFINE e == Entry(rows[i].key, i)
<1>3. e \in Entries /\ e.pos = i /\ e.key = KeyOf(rows[i].key)
  BY <1>1, LiveRowsHaveEntries
<1>4. Shown(s, rows[i])
  BY DEF FullScan, Shown
<1> DEFINE found == IF op = "=" THEN Lookup(Entries, v)
                    ELSE {g.pos : g \in {h \in Entries : Compare(h.key.place, op, Key[v])}}
<1>5. i \in found
  <2> HIDE DEF e
  <2>1. CASE op = "="
    <3>1. Text[rows[i].key] = Text[v]
      BY <1>1, <2>1 DEF Where, Compare
    <3>2. rows[i].key = v
      BY <1>2, <3>1, ValuesAssumption
    <3> QED
      BY <1>3, <2>1, <3>2 DEF Lookup
  <2>2. CASE op # "="
    <3>1. op \in {"<", ">="}
      BY <2>2
    <3>2. Compare(Text[rows[i].key], op, Text[v]) = Compare(Key[rows[i].key], op, Key[v])
      BY <3>1 DEF SameOrder
    <3>3. Compare(Text[rows[i].key], op, Text[v])
      BY <1>1 DEF Where
    <3>4. e.key.place = Key[rows[i].key]
      BY <1>3 DEF KeyOf
    <3>5. Compare(e.key.place, op, Key[v])
      BY <3>2, <3>3, <3>4
    <3> QED
      BY <1>3, <2>2, <3>5
  <2> QED
    BY <2>1, <2>2
<1>6. IndexScan(s, op, v).rows = {j \in found \cap DOMAIN rows : Shown(s, rows[j]) /\ Where(rows[j], op, v)}
  BY DEF IndexScan
<1> HIDE DEF found
<1> QED
  BY <1>1, <1>4, <1>5, <1>6

\* What the index scan shows and the full scan does not.
LEMMA AddedByTheIndex ==
  ASSUME TableInv, NEW s \in Sessions, NEW op, NEW v,
         NEW i \in IndexScan(s, op, v).rows, i \notin FullScan(s, op, v)
  PROVE  ~Busy(s) /\ rows[i].xmin \notin mvcc.committed
<1>1. i \in DOMAIN rows /\ Shown(s, rows[i]) /\ Where(rows[i], op, v)
  BY DEF IndexScan
<1>2. ~IsVisible(rows[i], txn[s].id, IF Busy(s) THEN txn[s].snap ELSE Fresh)
  BY <1>1 DEF FullScan
<1>3. ~Busy(s)
  BY <1>1, <1>2 DEF Shown
<1>4. rows[i] \in Rows /\ rows[i].xmax = NotDeleted /\ txn[s].id = AutoCommit
  BY <1>1, <1>3 DEF TableInv, Shown, Busy, NoTxn
<1>5. ~IsVisible(rows[i], AutoCommit, Fresh)
  BY <1>2, <1>3, <1>4
<1> QED
  BY <1>3, <1>4, <1>5, FreshSeesTheCommitted DEF TableInv

\* An exact lookup that raises has no row to miss but those.
LEMMA MissedByALookup ==
  ASSUME TableInv, Indexed, NEW s \in Sessions, NEW v \in Values, Apart(Separators, v),
         NEW i \in FullScan(s, "=", v)
  PROVE  rows[i].xmax # NotDeleted \/ rows[i].unindexed
<1> SUFFICES ASSUME rows[i].xmax = NotDeleted, ~rows[i].unindexed PROVE FALSE
  OBVIOUS
<1>1. i \in DOMAIN rows /\ Text[rows[i].key] = Text[v]
  BY DEF FullScan, Where, Compare
<1> DEFINE e == Entry(rows[i].key, i)
<1>2. e \in Entries /\ e.key = KeyOf(rows[i].key) /\ rows[i].key \in Values
  BY <1>1, LiveRowsHaveEntries
<1> HIDE DEF e
<1>3. rows[i].key = v
  BY <1>1, <1>2, ValuesAssumption
<1>4. PICK number \in Separators : number # (v \in Numeric)
  BY DEF Apart
<1>5. number = e.key.number
  BY <1>2 DEF TableInv, IndexOK, Entries, Separators, Fits
<1> QED
  BY <1>2, <1>3, <1>4, <1>5 DEF KeyOf

\* A scan raises for a value of the kind that no entry has.
LEMMA RaisedByTheIndex ==
  ASSUME TableInv, Indexed, NEW s \in Sessions, NEW op, NEW v, ~IndexScan(s, op, v).ok,
         NEW e \in Entries
  PROVE  e.key.number # (v \in Numeric)
<1>1. Apart(Separators, v) \/ Mixed(Entries, v)
  BY DEF IndexScan
<1>2. CASE Apart(Separators, v)
  <2>1. PICK number \in Separators : number # (v \in Numeric)
    BY <1>2 DEF Apart
  <2>2. number = e.key.number
    BY DEF TableInv, IndexOK, Entries, Separators, Fits
  <2> QED
    BY <2>1, <2>2
<1>3. CASE Mixed(Entries, v)
  <2>1. PICK f \in Entries : f.key.number # (v \in Numeric)
    BY <1>3 DEF Mixed
  <2>2. f.key.number = e.key.number
    BY DEF TableInv, IndexOK, Entries, OneKind
  <2> QED
    BY <2>1, <2>2
<1> QED
  BY <1>1, <1>2, <1>3

\* For any values, their two orders and any work of any sessions, rebuildings that
\* stopped half-way among them, an index scan differs from a full scan in the named
\* ways only: it misses stamped versions, refused rows, rows that the last rebuilding
\* did not reach and texts of another order, and raises only for a value of the kind
\* that no entry has (executor.py 319-404, table.py 515-523, 593-597).
THEOREM ScansDifferAsNamed == Spec => []IndexScansAgree
<1>1. TableInv => IndexScansAgree
  <2> SUFFICES ASSUME TableInv, NEW s \in Sessions, NEW op \in {"=", "<", ">="}, NEW v \in Values, Indexed
               PROVE  LET full == FullScan(s, op, v)
                          scan == IndexScan(s, op, v)
                      IN /\ scan.ok => \A i \in scan.rows \ full : ~Busy(s) /\ rows[i].xmin \notin mvcc.committed
                         /\ scan.ok \/ op = "=" =>
                              \A i \in full \ (IF scan.ok THEN scan.rows ELSE {}) :
                                rows[i].xmax # NotDeleted \/ rows[i].unindexed \/ ~SameOrder(rows[i], v)
                         /\ ~scan.ok => \A e \in Entries : e.key.number # (v \in Numeric)
    BY DEF IndexScansAgree
  <2> DEFINE full == FullScan(s, op, v)
             scan == IndexScan(s, op, v)
  <2>1. ~scan.ok => \A e \in Entries : e.key.number # (v \in Numeric)
    BY RaisedByTheIndex
  <2>2. \A i \in scan.rows \ full : ~Busy(s) /\ rows[i].xmin \notin mvcc.committed
    BY AddedByTheIndex
  <2>3. \A i \in full \ scan.rows : rows[i].xmax # NotDeleted \/ rows[i].unindexed \/ ~SameOrder(rows[i], v)
    BY MissedByTheIndex
  <2>4. ASSUME op = "=", ~scan.ok, NEW i \in full
        PROVE  rows[i].xmax # NotDeleted \/ rows[i].unindexed
    <3>1. Apart(Separators, v)
      BY <2>4 DEF IndexScan
    <3> QED
      BY <2>4, <3>1, MissedByALookup
  <2> HIDE DEF full, scan
  <2> QED
    BY <2>1, <2>2, <2>3, <2>4 DEF full, scan
<1> QED
  BY <1>1, IndexInvariant, PTL

\* In any instance the undeleted rows never stop an index from being built again but
\* for those it has refused, those that came to an index built in part, and those a
\* ROLLBACK has revived (table.py 308-597, index.py 68-78).
THEOREM LiveRowsStayIndexable == Spec => []LiveRowsCanBeIndexed
<1>1. TableInv => LiveRowsCanBeIndexed
  <2> DEFINE S == {i \in DOMAIN rows : rows[i].xmax = NotDeleted /\ ~rows[i].suspect}
             rs == Keep(rows, S)
             u == index.unique
             before(i) == {Entry(rs[j].key, j) : j \in 1..(i - 1)}
             refused == {i \in DOMAIN rs : Refuses(before(i), u, rs[i].key)}
  <2> SUFFICES ASSUME TableInv, Indexed
               PROVE  Build(rs, {}, u).ok
    BY DEF LiveRowsCanBeIndexed
  <2>1. S \in SUBSET DOMAIN rows /\ rows \in Seq(Rows) /\ IndexOK /\ \A i \in S : Certain(rows[i])
    BY DEF TableInv, Certain
  <2>2. Distinct(rows, u)
    BY <2>1, RowsAreDistinct
  <2>3. /\ rs \in Seq(Rows) /\ DOMAIN rs = 1..Cardinality(S) /\ Cardinality(S) \in Nat
        /\ \A k \in 1..Cardinality(S) : Nth(S, k) \in S /\ rs[k] = rows[Nth(S, k)]
    <3>1. Len(rows) \in Nat /\ S \in SUBSET (1..Len(rows))
      BY <2>1
    <3> HIDE DEF S
    <3> QED
      BY <2>1, <3>1, KeepIsAList, ChosenAreFinite
  <2>4. Distinct(rs, u)
    <3> HIDE DEF S
    <3> QED
      BY <2>1, <2>2, KeptAreDistinct
  <2>5. \A k \in DOMAIN rs : Certain(rs[k])
    <3> HIDE DEF S, rs
    <3> QED
      BY <2>1, <2>3
  <2>6. Build(rs, {}, u) = IF refused = {} THEN Done(Known(rs), before(Len(rs) + 1))
                           ELSE Raised(KnownBefore(rs, Min(refused)), before(Min(refused)))
    BY DEF Build
  <2> HIDE DEF S, rs, u
  <2>7. ASSUME NEW i \in DOMAIN rs
        PROVE  ~Refuses(before(i), u, rs[i].key)
    <3>1. ASSUME NEW j \in 1..(i - 1)
          PROVE  /\ KeyOf(rs[j].key).number = (rs[i].key \in Numeric)
                 /\ u => KeyOf(rs[j].key) # KeyOf(rs[i].key)
      <4>1. j \in DOMAIN rs /\ j # i
        BY <2>3
      <4>2. Apiece(rs[j].key, rs[i].key, u)
        BY <2>4, <2>5, <4>1 DEF Distinct
      <4>3. KeyOf(rs[i].key).number = (rs[i].key \in Numeric)
        BY DEF KeyOf
      <4> QED
        BY <4>2, <4>3 DEF Apiece
    <3>2. \A e \in before(i) : \E j \in 1..(i - 1) : e.key = KeyOf(rs[j].key)
      BY DEF Entry
    <3> QED
      BY <3>1, <3>2 DEF Refuses, Mixed, Lookup
  <2>8. refused = {}
    BY <2>7
  <2> QED
    BY <2>6, <2>8 DEF Done
<1> QED
  BY <1>1, IndexInvariant, PTL

=============================================================================
