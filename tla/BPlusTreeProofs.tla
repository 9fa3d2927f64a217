-------------------------- MODULE BPlusTreeProofs --------------------------
(***************************************************************************)
(* Theorems about BPlusTree, for every order, every set of keys, entries   *)
(* and removals, and every number of nodes and readers.                    *)
(***************************************************************************)
EXTENDS BPlusTree, Ranks, SequenceTheorems, FiniteSetTheorems

-----------------------------------------------------------------------------
(***************************************************************************)
(* Lists.                                                                  *)
(***************************************************************************)
\* longer is list with x put at place i.
Inserted(longer, list, i, x) ==
  /\ i \in 1..Len(longer)
  /\ Len(longer) = Len(list) + 1
  /\ \A j \in 1..Len(longer) :
       longer[j] = IF j < i THEN list[j] ELSE IF j = i THEN x ELSE list[j - 1]

Ascending(list) == \A i, j \in 1..Len(list) : i < j => list[i] < list[j]

LEMMA PutAtInserts ==
  ASSUME NEW T, NEW list \in Seq(T), NEW i \in Nat \ {0}, NEW x \in T
  PROVE  /\ PutAt(list, i, x) \in Seq(T)
         /\ Len(PutAt(list, i, x)) = Len(list) + 1
         /\ i <= Len(list) + 1 => Inserted(PutAt(list, i, x), list, i, x)
<1> DEFINE k == IF i <= Len(list) THEN i ELSE Len(list) + 1
           a == SubSeq(list, 1, k - 1)
           b == SubSeq(list, k, Len(list))
<1>1. Len(list) \in Nat /\ k \in 1..(Len(list) + 1) /\ (i <= Len(list) + 1 => k = i)
  BY LenProperties
<1>2. PutAt(list, i, x) = (a \o <<x>>) \o b
  BY DEF PutAt, InsertAt
<1> HIDE DEF k
<1>3. a \in Seq(T) /\ Len(a) = k - 1 /\ \A j \in 1..(k - 1) : a[j] = list[j]
  <2>1. \A j \in 1..(k - 1) : list[j] \in T
    BY <1>1, ElementOfSeq
  <2> QED
    BY <1>1, <2>1, SubSeqProperties
<1>4. b \in Seq(T) /\ Len(b) = Len(list) - k + 1 /\ \A j \in 1..(Len(list) - k + 1) : b[j] = list[k + j - 1]
  <2>1. \A j \in k..Len(list) : list[j] \in T
    BY <1>1, ElementOfSeq
  <2> QED
    BY <1>1, <2>1, SubSeqProperties
<1> DEFINE c == a \o <<x>>
<1> HIDE DEF a, b
<1>5. c \in Seq(T) /\ Len(c) = k /\ \A j \in 1..k : c[j] = IF j < k THEN list[j] ELSE x
  BY <1>1, <1>3
<1> HIDE DEF c
<1> DEFINE d == c \o b
<1>6. /\ d \in Seq(T) /\ Len(d) = Len(c) + Len(b)
      /\ \A j \in 1..(Len(c) + Len(b)) : d[j] = IF j <= Len(c) THEN c[j] ELSE b[j - Len(c)]
  BY <1>4, <1>5, ConcatProperties
<1>7. PutAt(list, i, x) = d
  BY <1>2 DEF c
<1> HIDE DEF d
<1>8. Len(d) = Len(list) + 1
  BY <1>1, <1>4, <1>5, <1>6
<1>9. \A j \in 1..(Len(list) + 1) :
        d[j] = IF j < k THEN list[j] ELSE IF j = k THEN x ELSE list[j - 1]
  <2> TAKE j \in 1..(Len(list) + 1)
  <2>1. d[j] = IF j <= k THEN c[j] ELSE b[j - k]
    BY <1>1, <1>4, <1>5, <1>6
  <2>2. CASE j <= k
    BY <2>1, <2>2, <1>1, <1>5
  <2>3. CASE j > k
    <3>1. j - k \in 1..(Len(list) - k + 1) /\ k + (j - k) - 1 = j - 1
      BY <2>3, <1>1
    <3>2. b[j - k] = list[k + (j - k) - 1]
      BY <3>1, <1>4
    <3> QED
      BY <2>1, <2>3, <3>1, <3>2, <1>1
  <2> QED
    BY <2>2, <2>3, <1>1
<1> QED
  BY <1>1, <1>6, <1>7, <1>8, <1>9 DEF Inserted

LEMMA RemoveAtRemoves ==
  ASSUME NEW T, NEW list \in Seq(T), NEW i \in 1..Len(list)
  PROVE  /\ RemoveAt(list, i) \in Seq(T)
         /\ Len(RemoveAt(list, i)) = Len(list) - 1
         /\ Inserted(list, RemoveAt(list, i), i, list[i])
<1> DEFINE a == SubSeq(list, 1, i - 1)
           b == SubSeq(list, i + 1, Len(list))
<1>1. Len(list) \in Nat /\ i \in Nat /\ i >= 1 /\ i <= Len(list)
  BY LenProperties
<1>2. RemoveAt(list, i) = a \o b
  BY DEF RemoveAt
<1>3. a \in Seq(T) /\ Len(a) = i - 1 /\ \A j \in 1..(i - 1) : a[j] = list[j]
  <2>1. \A j \in 1..(i - 1) : list[j] \in T
    BY <1>1, ElementOfSeq
  <2> QED
    BY <1>1, <2>1, SubSeqProperties
<1>4. b \in Seq(T) /\ Len(b) = Len(list) - i /\ \A j \in 1..(Len(list) - i) : b[j] = list[i + j]
  <2>1. \A j \in (i + 1)..Len(list) : list[j] \in T
    BY <1>1, ElementOfSeq
  <2>2. /\ b \in Seq(T) /\ Len(b) = (IF i + 1 <= Len(list) THEN Len(list) - (i + 1) + 1 ELSE 0)
        /\ \A j \in 1..(Len(list) - (i + 1) + 1) : b[j] = list[(i + 1) + j - 1]
    BY <1>1, <2>1, SubSeqProperties
  <2> HIDE DEF b
  <2> QED
    BY <1>1, <2>2
<1> HIDE DEF a, b
<1> DEFINE d == a \o b
<1>5. /\ d \in Seq(T) /\ Len(d) = Len(a) + Len(b)
      /\ \A j \in 1..(Len(a) + Len(b)) : d[j] = IF j <= Len(a) THEN a[j] ELSE b[j - Len(a)]
  BY <1>3, <1>4, ConcatProperties
<1>6. RemoveAt(list, i) = d
  BY <1>2
<1> HIDE DEF d
<1>7. Len(d) = Len(list) - 1
  BY <1>1, <1>3, <1>4, <1>5
<1>8. \A j \in 1..(Len(list) - 1) : d[j] = IF j < i THEN list[j] ELSE list[j + 1]
  <2> TAKE j \in 1..(Len(list) - 1)
  <2>1. d[j] = IF j <= i - 1 THEN a[j] ELSE b[j - (i - 1)]
    BY <1>1, <1>3, <1>4, <1>5
  <2>2. CASE j < i
    BY <2>1, <2>2, <1>1, <1>3
  <2>3. CASE j >= i
    <3>1. j - (i - 1) \in 1..(Len(list) - i) /\ i + (j - (i - 1)) = j + 1
      BY <2>3, <1>1
    <3>2. b[j - (i - 1)] = list[i + (j - (i - 1))]
      BY <3>1, <1>4
    <3> QED
      BY <2>1, <2>3, <3>1, <3>2, <1>1
  <2> QED
    BY <2>2, <2>3, <1>1
<1>9. \A j \in 1..Len(list) :
        list[j] = IF j < i THEN d[j] ELSE IF j = i THEN list[i] ELSE d[j - 1]
  <2> TAKE j \in 1..Len(list)
  <2>1. CASE j < i
    BY <2>1, <1>1, <1>8
  <2>2. CASE j > i
    <3>1. j - 1 \in 1..(Len(list) - 1) /\ ~(j - 1 < i) /\ (j - 1) + 1 = j
      BY <2>2, <1>1
    <3> QED
      BY <2>2, <3>1, <1>1, <1>8
  <2> QED
    BY <2>1, <2>2, <1>1
<1> QED
  BY <1>1, <1>5, <1>6, <1>7, <1>9 DEF Inserted

\* What was put in comes out again.
LEMMA RemoveUndoesInsert ==
  ASSUME NEW T, NEW longer \in Seq(T), NEW list \in Seq(T), NEW i, NEW x, Inserted(longer, list, i, x)
  PROVE  RemoveAt(longer, i) = list
<1> DEFINE s == RemoveAt(longer, i)
<1>1. i \in 1..Len(longer) /\ Len(longer) = Len(list) + 1 /\ Len(list) \in Nat
  BY LenProperties DEF Inserted
<1>2. s \in Seq(T) /\ Len(s) = Len(longer) - 1 /\ Inserted(longer, s, i, longer[i])
  BY <1>1, RemoveAtRemoves
<1> HIDE DEF s
<1>3. \A j \in 1..Len(list) : s[j] = list[j]
  <2> TAKE j \in 1..Len(list)
  <2>1. CASE j < i
    BY <2>1, <1>1, <1>2 DEF Inserted
  <2>2. CASE j >= i
    <3>1. j + 1 \in 1..Len(longer) /\ ~(j + 1 < i) /\ j + 1 # i /\ (j + 1) - 1 = j
      BY <2>2, <1>1
    <3> QED
      BY <3>1, <1>2 DEF Inserted
  <2> QED
    BY <2>1, <2>2, <1>1
<1> QED
  BY <1>1, <1>2, <1>3, SeqEqual DEF s

\* Both halves of a split list.
LEMMA Halves ==
  ASSUME NEW T, NEW list \in Seq(T), NEW m \in Nat, m <= Len(list)
  PROVE  /\ Upto(list, m) \in Seq(T) /\ Len(Upto(list, m)) = m
         /\ \A j \in 1..m : Upto(list, m)[j] = list[j]
         /\ From(list, m + 1) \in Seq(T) /\ Len(From(list, m + 1)) = Len(list) - m
         /\ \A j \in 1..(Len(list) - m) : From(list, m + 1)[j] = list[m + j]
<1>1. Len(list) \in Nat /\ \A j \in 1..Len(list) : list[j] \in T
  BY LenProperties, ElementOfSeq
<1>2. /\ Upto(list, m) \in Seq(T) /\ Len(Upto(list, m)) = (IF 1 <= m THEN m - 1 + 1 ELSE 0)
      /\ \A j \in 1..(m - 1 + 1) : Upto(list, m)[j] = list[1 + j - 1]
  BY <1>1, SubSeqProperties DEF Upto
<1>3. /\ From(list, m + 1) \in Seq(T)
      /\ Len(From(list, m + 1)) = (IF m + 1 <= Len(list) THEN Len(list) - (m + 1) + 1 ELSE 0)
      /\ \A j \in 1..(Len(list) - (m + 1) + 1) : From(list, m + 1)[j] = list[(m + 1) + j - 1]
  BY <1>1, SubSeqProperties DEF From
<1> QED
  BY <1>1, <1>2, <1>3

-----------------------------------------------------------------------------
(***************************************************************************)
(* Trees.  A tree over the nodes D with root r is given by its key lists   *)
(* ks and lists of children cs; L[n] is the level of node n, 0 of leaves,  *)
(* and S[n] its territory: the keys it is the place for.  While a split is *)
(* not known to the parent, the new node has a part of the territory that  *)
(* the parent has for its old neighbour cur, from the key mid on; else cur *)
(* and new are no nodes.                                                   *)
(***************************************************************************)
InPart(keys, i, x) == (i > 1 => keys[i - 1] <= x) /\ (i <= Len(keys) => x < keys[i])

Whole(S, cur, new, n) == S[n] \cup (IF n = cur THEN S[new] ELSE {})

Lists(D, ks, cs) == ks \in [D -> Seq(Int)] /\ cs \in [D -> Seq(Nat)]

Levels(D, r, ks, cs, L) ==
  /\ r \in D /\ L \in [D -> Nat]
  /\ \A n \in D : L[n] <= L[r]
  /\ \A n \in D : L[n] > 0 =>
       /\ Len(ks[n]) > 0 /\ Len(cs[n]) = Len(ks[n]) + 1
       /\ \A i \in 1..Len(cs[n]) : cs[n][i] \in D /\ L[cs[n][i]] = L[n] - 1

Disjoint(D, L, S) ==
  /\ S \in [D -> SUBSET Int]
  /\ \A n \in D : S[n] # {}
  /\ \A m, n \in D : m # n /\ L[m] = L[n] => S[m] \cap S[n] = {}

Ordered(D, ks, S) ==
  \A n \in D : Ascending(ks[n]) /\ \A i \in 1..Len(ks[n]) : ks[n][i] \in S[n]

Divided(D, r, ks, cs, L, S, cur, new) ==
  /\ Whole(S, cur, new, r) = Int
  /\ \A n \in D : L[n] > 0 =>
       \A i \in 1..Len(cs[n]) :
         Whole(S, cur, new, cs[n][i]) = {x \in S[n] : InPart(ks[n], i, x)}

Pending(D, r, L, S, cur, new, mid) ==
  /\ cur \in D /\ new \in D /\ cur # new /\ new # r /\ L[cur] = L[new]
  /\ mid \in S[new] /\ (\A x \in S[new] : mid <= x) /\ (\A x \in S[cur] : x < mid)

TreeOK(D, r, ks, cs, L, S, cur, new) ==
  /\ Lists(D, ks, cs) /\ Levels(D, r, ks, cs, L) /\ Disjoint(D, L, S) /\ Ordered(D, ks, S)
  /\ Divided(D, r, ks, cs, L, S, cur, new)

\* A leaf may have any keys of its territory, in order.
LEMMA LeafKeysAreFree ==
  ASSUME NEW D, NEW r, NEW ks, NEW cs, NEW L, NEW S, NEW cur, NEW new,
         TreeOK(D, r, ks, cs, L, S, cur, new),
         NEW n \in D, L[n] = 0, NEW list \in Seq(Int),
         Ascending(list), \A i \in 1..Len(list) : list[i] \in S[n],
         NEW ks2, ks2 = [ks EXCEPT ![n] = list]
  PROVE  TreeOK(D, r, ks2, cs, L, S, cur, new)
<1>1. ks2 \in [D -> Seq(Int)] /\ ks2[n] = list /\ \A q \in D : q # n => ks2[q] = ks[q]
  BY DEF TreeOK, Lists
<1>2. \A q \in D : L[q] > 0 => ks2[q] = ks[q]
  BY <1>1
<1>3. Lists(D, ks2, cs)
  BY <1>1 DEF TreeOK, Lists
<1>4. Levels(D, r, ks2, cs, L)
  BY <1>2 DEF TreeOK, Levels
<1>5. Ordered(D, ks2, S)
  <2> SUFFICES ASSUME NEW q \in D
               PROVE  Ascending(ks2[q]) /\ \A i \in 1..Len(ks2[q]) : ks2[q][i] \in S[q]
    BY DEF Ordered
  <2>1. CASE q = n
    BY <2>1, <1>1
  <2>2. CASE q # n
    BY <2>2, <1>1 DEF TreeOK, Ordered
  <2> QED
    BY <2>1, <2>2
<1>6. Divided(D, r, ks2, cs, L, S, cur, new)
  BY <1>2 DEF TreeOK, Divided
<1> QED
  BY <1>3, <1>4, <1>5, <1>6 DEF TreeOK

\* What a split does to the territories.
Parted(D, L, S, n, new, k, D2, L2, S2) ==
  /\ n \in D /\ new \notin D /\ D2 = D \cup {new}
  /\ L2 = [q \in D2 |-> IF q = new THEN L[n] ELSE L[q]]
  /\ S2 = [q \in D2 |-> IF q = n THEN {x \in S[n] : x < k}
                        ELSE IF q = new THEN {x \in S[n] : k <= x} ELSE S[q]]

LEMMA SplitTerritory ==
  ASSUME NEW D, NEW L, NEW S, Disjoint(D, L, S),
         NEW n, NEW new, NEW k, NEW least, NEW D2, NEW L2, NEW S2,
         Parted(D, L, S, n, new, k, D2, L2, S2), k \in S[n], least \in S[n], least < k
  PROVE  /\ Disjoint(D2, L2, S2)
         /\ \A q \in D : Whole(S2, n, new, q) = S[q]
         /\ L2[n] = L2[new] /\ k \in S2[new] /\ (\A x \in S2[new] : k <= x) /\ (\A x \in S2[n] : x < k)
<1>0. /\ n \in D /\ new \notin D /\ D2 = D \cup {new}
      /\ L2 = [q \in D2 |-> IF q = new THEN L[n] ELSE L[q]]
      /\ S2 = [q \in D2 |-> IF q = n THEN {x \in S[n] : x < k}
                            ELSE IF q = new THEN {x \in S[n] : k <= x} ELSE S[q]]
  BY DEF Parted
<1>1. S[n] \in SUBSET Int /\ k \in Int /\ least \in Int /\ n # new
  BY <1>0 DEF Disjoint
<1>2. /\ S2[n] = {x \in S[n] : x < k} /\ S2[new] = {x \in S[n] : k <= x}
      /\ \A q \in D : q # n => S2[q] = S[q]
      /\ \A q \in D : L2[q] = L[q]
      /\ L2[new] = L[n]
  BY <1>0, <1>1
<1>3. S2[n] \cup S2[new] = S[n] /\ S2[n] \cap S2[new] = {}
  <2>1. \A x \in S[n] : (x < k \/ k <= x) /\ ~(x < k /\ k <= x)
    BY <1>1
  <2> QED
    BY <1>2, <2>1
<1>4. least \in S2[n] /\ k \in S2[new]
  BY <1>0, <1>1, <1>2
<1>5. Disjoint(D2, L2, S2)
  <2>1. S2 \in [D2 -> SUBSET Int]
    <3>1. \A q \in D2 : S2[q] \in SUBSET Int
      BY <1>0, <1>1, <1>2 DEF Disjoint
    <3> QED
      BY <3>1, <1>0
  <2>2. \A q \in D2 : S2[q] # {}
    BY <1>0, <1>2, <1>4 DEF Disjoint
  <2>3. ASSUME NEW p \in D2, NEW q \in D2, p # q, L2[p] = L2[q]
        PROVE  S2[p] \cap S2[q] = {}
    <3> DEFINE Home(a) == IF a = new THEN n ELSE a
    <3>1. \A a \in D2 : Home(a) \in D /\ S2[a] \subseteq S[Home(a)] /\ L2[a] = L[Home(a)]
      BY <1>0, <1>2, <1>3
    <3>2. CASE Home(p) = Home(q)
      <4>1. {p, q} = {n, new}
        BY <3>2, <2>3, <1>0, <1>1
      <4> QED
        BY <4>1, <1>3
    <3>3. CASE Home(p) # Home(q)
      <4> HIDE DEF Home
      <4>0. Home(p) \in D /\ Home(q) \in D /\ L[Home(p)] = L[Home(q)]
        BY <3>1, <2>3
      <4>1. S[Home(p)] \cap S[Home(q)] = {}
        BY <4>0, <3>3 DEF Disjoint
      <4> QED
        BY <4>1, <3>1
    <3> QED
      BY <3>2, <3>3
  <2> QED
    BY <2>1, <2>2, <2>3 DEF Disjoint
<1>6. \A q \in D : Whole(S2, n, new, q) = S[q]
  BY <1>0, <1>2, <1>3 DEF Whole
<1> QED
  BY <1>0, <1>1, <1>2, <1>4, <1>5, <1>6

\* A node n with enough keys is split: m keys stay, the others go to a new node,
\* of an inner node all but the first of them.
Split(D, ks, cs, L, S, n, new, m, up, D2, ks2, cs2, L2, S2) ==
  /\ 0 \notin D /\ new \in Nat /\ m \in Nat /\ m > 0 /\ up \in {0, 1} /\ m + up < Len(ks[n])
  /\ Parted(D, L, S, n, new, ks[n][m + 1], D2, L2, S2)
  /\ Lists(D2, ks2, cs2)
  /\ \A q \in D : q # n => ks2[q] = ks[q] /\ cs2[q] = cs[q]
  /\ Len(ks2[n]) = m /\ \A j \in 1..m : ks2[n][j] = ks[n][j]
  /\ Len(ks2[new]) = Len(ks[n]) - m - up
  /\ \A j \in 1..Len(ks2[new]) : ks2[new][j] = ks[n][m + up + j]
  /\ L[n] > 0 =>
       /\ up = 1
       /\ Len(cs2[n]) = m + 1 /\ \A j \in 1..(m + 1) : cs2[n][j] = cs[n][j]
       /\ Len(cs2[new]) = Len(cs[n]) - m - 1
       /\ \A j \in 1..Len(cs2[new]) : cs2[new][j] = cs[n][m + 1 + j]

LEMMA SplitTree ==
  ASSUME NEW D, NEW r, NEW ks, NEW cs, NEW L, NEW S, TreeOK(D, r, ks, cs, L, S, 0, 0),
         NEW n, NEW new, NEW m, NEW up, NEW D2, NEW ks2, NEW cs2, NEW L2, NEW S2,
         Split(D, ks, cs, L, S, n, new, m, up, D2, ks2, cs2, L2, S2)
  PROVE  /\ TreeOK(D2, r, ks2, cs2, L2, S2, n, new)
         /\ Pending(D2, r, L2, S2, n, new, ks[n][m + 1])
<1> DEFINE kn == ks[n]
           cn == cs[n]
           k == kn[m + 1]
           kl == ks2[n]
           kr == ks2[new]
<1>0. Parted(D, L, S, n, new, k, D2, L2, S2)
  BY DEF Split
<1>1. 0 \notin D /\ n \in D /\ new \in Nat /\ new \notin D /\ D2 = D \cup {new} /\ n # new
  BY <1>0 DEF Split, Parted
<1>2. /\ m \in Nat /\ m > 0 /\ up \in Nat /\ up <= 1 /\ m + up < Len(kn)
      /\ kn \in Seq(Int) /\ cn \in Seq(Nat) /\ Len(kn) \in Nat /\ Len(cn) \in Nat
  <2>1. kn \in Seq(Int) /\ cn \in Seq(Nat)
    BY <1>1 DEF TreeOK, Lists
  <2> QED
    BY <2>1, LenProperties DEF Split
<1>3. /\ L2 = [q \in D2 |-> IF q = new THEN L[n] ELSE L[q]]
      /\ S2 = [q \in D2 |-> IF q = n THEN {x \in S[n] : x < k}
                            ELSE IF q = new THEN {x \in S[n] : k <= x} ELSE S[q]]
  BY <1>0 DEF Parted
<1>4. /\ kl \in Seq(Int) /\ Len(kl) = m /\ \A j \in 1..m : kl[j] = kn[j]
      /\ kr \in Seq(Int) /\ Len(kr) = Len(kn) - m - up
      /\ \A j \in 1..Len(kr) : kr[j] = kn[m + up + j]
  BY <1>1 DEF Split, Lists
<1>5. \A q \in D : q # n => ks2[q] = ks[q] /\ cs2[q] = cs[q]
  BY DEF Split
<1>6. L[n] > 0 =>
        /\ up = 1
        /\ Len(cs2[n]) = m + 1 /\ \A j \in 1..(m + 1) : cs2[n][j] = cn[j]
        /\ Len(cs2[new]) = Len(cn) - m - 1
        /\ \A j \in 1..Len(cs2[new]) : cs2[new][j] = cn[m + 1 + j]
  BY DEF Split
<1>7. /\ Disjoint(D, L, S) /\ Levels(D, r, ks, cs, L) /\ Ordered(D, ks, S) /\ Divided(D, r, ks, cs, L, S, 0, 0)
      /\ Lists(D2, ks2, cs2)
  BY DEF TreeOK, Split
<1>8. /\ r \in D /\ L \in [D -> Nat] /\ \A q \in D : L[q] <= L[r]
      /\ \A q \in D : L[q] > 0 =>
           /\ Len(ks[q]) > 0 /\ Len(cs[q]) = Len(ks[q]) + 1
           /\ \A i \in 1..Len(cs[q]) : cs[q][i] \in D /\ L[cs[q][i]] = L[q] - 1
  BY <1>7 DEF Levels
<1>9. L[n] > 0 => Len(cn) = Len(kn) + 1 /\ \A i \in 1..Len(cn) : cn[i] \in D /\ L[cn[i]] = L[n] - 1
  BY <1>1, <1>8
<1>10. /\ S[r] = Int
       /\ \A q \in D : L[q] > 0 =>
            \A i \in 1..Len(cs[q]) : S[cs[q][i]] = {x \in S[q] : InPart(ks[q], i, x)}
  <2>1. \A q \in D : Whole(S, 0, 0, q) = S[q]
    BY <1>1 DEF Whole
  <2> QED
    BY <2>1, <1>7, <1>8 DEF Divided
<1>11. L[n] > 0 => \A i \in 1..Len(cn) : S[cn[i]] = {x \in S[n] : InPart(kn, i, x)}
  BY <1>1, <1>10
<1>12. /\ \A i, j \in 1..Len(kn) : i < j => kn[i] < kn[j]
       /\ \A i \in 1..Len(kn) : kn[i] \in S[n] /\ kn[i] \in Int
  <2>1. Ascending(kn) /\ \A i \in 1..Len(kn) : kn[i] \in S[n]
    BY <1>1, <1>7 DEF Ordered
  <2>2. \A i \in 1..Len(kn) : kn[i] \in Int
    BY <1>2, ElementOfSeq
  <2> HIDE DEF kn
  <2> QED
    BY <2>1, <2>2 DEF Ascending
<1> HIDE DEF kn, cn, kl, kr
<1>13. k \in S[n] /\ kn[1] \in S[n] /\ kn[1] < k /\ k \in Int /\ \A j \in 1..m : kn[j] < k
  <2>1. 1 \in 1..Len(kn) /\ m + 1 \in 1..Len(kn) /\ 1 < m + 1 /\ \A j \in 1..m : j < m + 1 /\ j \in 1..Len(kn)
    BY <1>2
  <2> QED
    BY <2>1, <1>12
<1>14. /\ S2[n] = {x \in S[n] : x < k} /\ S2[new] = {x \in S[n] : k <= x}
       /\ \A q \in D : q # n => S2[q] = S[q]
       /\ \A q \in D : L2[q] = L[q]
       /\ L2[new] = L[n]
  BY <1>1, <1>3
<1>15. \A j \in 1..Len(kn) : j > m + 1 => k < kn[j]
  <2>1. m + 1 \in 1..Len(kn)
    BY <1>2
  <2> QED
    BY <2>1, <1>12
<1> HIDE DEF k
<1>16. /\ Disjoint(D2, L2, S2)
       /\ \A q \in D : Whole(S2, n, new, q) = S[q]
       /\ L2[n] = L2[new] /\ k \in S2[new] /\ (\A x \in S2[new] : k <= x) /\ (\A x \in S2[n] : x < k)
  <2> DEFINE least == kn[1]
  <2>1. k \in S[n] /\ least \in S[n] /\ least < k
    BY <1>13
  <2> HIDE DEF least
  <2> QED
    BY <2>1, <1>0, <1>7, SplitTerritory
<1>17. Levels(D2, r, ks2, cs2, L2)
  <2>1. r \in D2 /\ L2 \in [D2 -> Nat] /\ \A q \in D2 : L2[q] <= L2[r]
    BY <1>1, <1>3, <1>14, <1>8
  <2>2. ASSUME NEW q \in D2, L2[q] > 0
        PROVE  /\ Len(ks2[q]) > 0 /\ Len(cs2[q]) = Len(ks2[q]) + 1
               /\ \A i \in 1..Len(cs2[q]) : cs2[q][i] \in D2 /\ L2[cs2[q][i]] = L2[q] - 1
    <3>1. CASE q # n /\ q # new
      <4>1. q \in D /\ L[q] > 0 /\ L2[q] = L[q] /\ ks2[q] = ks[q] /\ cs2[q] = cs[q]
        BY <3>1, <2>2, <1>1, <1>14, <1>5
      <4>2. \A i \in 1..Len(cs[q]) : cs[q][i] \in D2 /\ L2[cs[q][i]] = L[q] - 1
        BY <4>1, <1>8, <1>1, <1>14
      <4> QED
        BY <4>1, <4>2, <1>8
    <3>2. CASE q = n
      <4>1. L[n] > 0 /\ Len(cn) = Len(kn) + 1 /\ L2[n] = L[n]
        BY <3>2, <2>2, <1>1, <1>14, <1>9
      <4>2. \A i \in 1..(m + 1) : i \in 1..Len(cn)
        BY <4>1, <1>2
      <4>3. \A i \in 1..(m + 1) : cn[i] \in D2 /\ L2[cn[i]] = L[n] - 1
        BY <4>1, <4>2, <1>1, <1>9, <1>14
      <4> QED
        BY <3>2, <4>1, <4>3, <1>2, <1>4, <1>6 DEF kl
    <3>3. CASE q = new
      <4>1. L[n] > 0 /\ Len(cn) = Len(kn) + 1 /\ L2[new] = L[n]
        BY <3>3, <2>2, <1>1, <1>14, <1>9
      <4>2. \A i \in 1..(Len(cn) - m - 1) : m + 1 + i \in 1..Len(cn)
        BY <4>1, <1>2
      <4>3. \A i \in 1..(Len(cn) - m - 1) : cn[m + 1 + i] \in D2 /\ L2[cn[m + 1 + i]] = L[n] - 1
        BY <4>1, <4>2, <1>1, <1>9, <1>14
      <4>4. up = 1 /\ Len(cs2[new]) = Len(cn) - m - 1 /\ \A i \in 1..Len(cs2[new]) : cs2[new][i] = cn[m + 1 + i]
        BY <4>1, <1>6
      <4>5. Len(kr) > 0 /\ Len(cs2[new]) = Len(kr) + 1
        BY <4>1, <4>4, <1>2, <1>4
      <4>6. \A i \in 1..Len(cs2[new]) : cs2[new][i] \in D2 /\ L2[cs2[new][i]] = L2[new] - 1
        BY <4>1, <4>3, <4>4
      <4> QED
        BY <3>3, <4>5, <4>6 DEF kr
    <3> QED
      BY <3>1, <3>2, <3>3
  <2> QED
    BY <2>1, <2>2 DEF Levels
<1>18. Ordered(D2, ks2, S2)
  <2> SUFFICES ASSUME NEW q \in D2
               PROVE  Ascending(ks2[q]) /\ \A i \in 1..Len(ks2[q]) : ks2[q][i] \in S2[q]
    BY DEF Ordered
  <2>1. CASE q # n /\ q # new
    BY <2>1, <1>1, <1>14, <1>5, <1>7 DEF Ordered
  <2>2. CASE q = n
    <3>1. \A i \in 1..m : i \in 1..Len(kn)
      BY <1>2
    <3>2. \A i \in 1..m : kl[i] \in S2[n]
      BY <3>1, <1>4, <1>12, <1>13, <1>14
    <3>3. Ascending(kl)
      BY <3>1, <1>4, <1>12 DEF Ascending
    <3> QED
      BY <2>2, <3>2, <3>3, <1>4 DEF kl
  <2>3. CASE q = new
    <3>1. \A i \in 1..Len(kr) : m + up + i \in 1..Len(kn) /\ m + 1 <= m + up + i
      BY <1>2, <1>4
    <3>2. \A i \in 1..Len(kr) : kn[m + up + i] \in S[n] /\ k <= kn[m + up + i]
      <4> TAKE i \in 1..Len(kr)
      <4>1. CASE m + 1 = m + up + i
        BY <4>1, <3>1, <1>12, <1>13 DEF k
      <4>2. CASE m + 1 < m + up + i
        BY <4>2, <3>1, <1>12, <1>13, <1>15
      <4> QED
        BY <4>1, <4>2, <3>1, <1>2, <1>4
    <3>3. \A i \in 1..Len(kr) : kr[i] \in S2[new]
      BY <3>2, <1>4, <1>14
    <3>4. Ascending(kr)
      <4> SUFFICES ASSUME NEW i \in 1..Len(kr), NEW j \in 1..Len(kr), i < j
                   PROVE  kr[i] < kr[j]
        BY DEF Ascending
      <4>1. m + up + i < m + up + j
        BY <1>2, <1>4
      <4> QED
        BY <4>1, <3>1, <1>4, <1>12
    <3> QED
      BY <2>3, <3>3, <3>4 DEF kr
  <2> QED
    BY <2>1, <2>2, <2>3
<1>19. Divided(D2, r, ks2, cs2, L2, S2, n, new)
  <2>1. Whole(S2, n, new, r) = Int
    BY <1>16, <1>8, <1>10
  <2>2. ASSUME NEW q \in D2, L2[q] > 0, NEW i \in 1..Len(cs2[q])
        PROVE  Whole(S2, n, new, cs2[q][i]) = {x \in S2[q] : InPart(ks2[q], i, x)}
    <3>1. CASE q # n /\ q # new
      <4>1. q \in D /\ L[q] > 0 /\ cs2[q] = cs[q] /\ ks2[q] = ks[q] /\ S2[q] = S[q]
        BY <3>1, <2>2, <1>1, <1>14, <1>5
      <4>2. cs[q][i] \in D /\ S[cs[q][i]] = {x \in S[q] : InPart(ks[q], i, x)}
        BY <4>1, <1>8, <1>10
      <4>3. Whole(S2, n, new, cs[q][i]) = S[cs[q][i]]
        BY <4>2, <1>16
      <4> QED
        BY <4>1, <4>2, <4>3
    <3>2. CASE q = n
      <4>1. L[n] > 0 /\ Len(cn) = Len(kn) + 1 /\ i \in 1..(m + 1) /\ cs2[n][i] = cn[i]
        BY <3>2, <2>2, <1>1, <1>14, <1>6, <1>9
      <4>2. i \in 1..Len(cn) /\ i \in Nat /\ i >= 1 /\ i <= m + 1
        BY <4>1, <1>2
      <4>3. cn[i] \in D /\ S[cn[i]] = {x \in S[n] : InPart(kn, i, x)}
        BY <4>1, <4>2, <1>9, <1>11
      <4>4. Whole(S2, n, new, cs2[n][i]) = {x \in S[n] : InPart(kn, i, x)}
        BY <4>1, <4>3, <1>16
      <4>5. ASSUME NEW x \in S[n]
            PROVE  InPart(kn, i, x) <=> x < k /\ InPart(kl, i, x)
        <5>1. x \in Int
          BY <1>1, <1>7 DEF Disjoint
        <5>2. i > 1 => i - 1 \in 1..m
          BY <4>2, <1>2
        <5>3. i > 1 => kl[i - 1] = kn[i - 1]
          BY <5>2, <1>4
        <5>4. CASE i = m + 1
          <6>1. ~(i <= Len(kl)) /\ i <= Len(kn) /\ kn[i] = k
            BY <5>4, <1>2, <1>4 DEF k
          <6> QED
            BY <6>1, <5>3 DEF InPart
        <5>5. CASE i < m + 1
          <6>1. i \in 1..m /\ i <= Len(kl) /\ i <= Len(kn) /\ i \in 1..Len(kn)
            BY <5>5, <4>2, <1>2, <1>4
          <6>2. kn[i] < k /\ kn[i] \in Int /\ kl[i] = kn[i]
            BY <6>1, <1>4, <1>12, <1>13
          <6>3. x < kn[i] => x < k
            BY <6>2, <5>1, <1>13
          <6> QED
            BY <6>1, <6>2, <6>3, <5>3 DEF InPart
        <5> QED
          BY <5>4, <5>5, <4>2, <1>2
      <4> QED
        BY <3>2, <4>4, <4>5, <1>14 DEF kl
    <3>3. CASE q = new
      <4>1. L[n] > 0 /\ Len(cn) = Len(kn) + 1 /\ up = 1 /\ i \in 1..(Len(cn) - m - 1) /\ cs2[new][i] = cn[m + 1 + i]
        BY <3>3, <2>2, <1>1, <1>14, <1>6, <1>9
      <4> DEFINE j == m + 1 + i
      <4>2. j \in 1..Len(cn) /\ i \in Nat /\ i >= 1 /\ Len(cn) = Len(kn) + 1
        BY <4>1, <1>2
      <4>3. cn[j] \in D /\ S[cn[j]] = {x \in S[n] : InPart(kn, j, x)}
        BY <4>1, <4>2, <1>9, <1>11
      <4>4. Whole(S2, n, new, cs2[new][i]) = {x \in S[n] : InPart(kn, j, x)}
        BY <4>1, <4>3, <1>16
      <4>5. ASSUME NEW x \in S[n]
            PROVE  InPart(kn, j, x) <=> k <= x /\ InPart(kr, i, x)
        <5>1. x \in Int
          BY <1>1, <1>7 DEF Disjoint
        <5>2. j <= Len(kn) <=> i <= Len(kr)
          BY <4>1, <4>2, <1>2, <1>4
        <5>3. i <= Len(kr) => i \in 1..Len(kr)
          BY <4>2, <1>2, <1>4
        <5>4. i <= Len(kr) => kr[i] = kn[j]
          BY <5>3, <4>1, <1>4
        <5>5. j > 1 /\ j - 1 \in 1..Len(kn)
          <6>1. j \in Nat /\ j > 1 /\ j <= Len(kn) + 1
            BY <4>2, <1>2
          <6> HIDE DEF j
          <6> QED
            BY <6>1, <1>2
        <5>6. CASE i = 1
          <6>1. j - 1 = m + 1
            BY <5>6, <1>2
          <6>2. kn[j - 1] = k
            BY <6>1 DEF k
          <6> HIDE DEF j
          <6> QED
            BY <5>2, <5>4, <5>5, <5>6, <6>2 DEF InPart
        <5>7. CASE i > 1
          <6>1. i - 1 \in 1..Len(kr) /\ m + up + (i - 1) = j - 1 /\ j - 1 > m + 1
            BY <5>7, <4>1, <4>2, <1>2, <1>4
          <6>2. kr[i - 1] = kn[m + up + (i - 1)]
            BY <6>1, <1>4
          <6>3. kr[i - 1] = kn[j - 1]
            BY <6>1, <6>2
          <6> HIDE DEF j
          <6>4. k < kn[j - 1] /\ kn[j - 1] \in Int
            BY <5>5, <6>1, <1>12, <1>15
          <6>5. kn[j - 1] <= x => k <= x
            BY <6>4, <5>1, <1>13
          <6> QED
            BY <5>2, <5>4, <5>5, <5>7, <6>3, <6>5 DEF InPart
        <5> QED
          BY <5>6, <5>7, <4>2
      <4> HIDE DEF j
      <4> QED
        BY <3>3, <4>4, <4>5, <1>14 DEF kr
    <3> QED
      BY <3>1, <3>2, <3>3
  <2> QED
    BY <2>1, <2>2 DEF Divided
<1>20. Pending(D2, r, L2, S2, n, new, k)
  BY <1>1, <1>8, <1>16 DEF Pending
<1> QED
  BY <1>7, <1>16, <1>17, <1>18, <1>19, <1>20 DEF TreeOK, k, kn

\* No key belongs under two children of a node.
LEMMA OnePart ==
  ASSUME NEW keys \in Seq(Int), Ascending(keys), NEW x \in Int,
         NEW i \in 1..(Len(keys) + 1), NEW j \in 1..(Len(keys) + 1),
         InPart(keys, i, x), InPart(keys, j, x)
  PROVE  i = j
<1>0. Len(keys) \in Nat
  BY LenProperties
<1>1. ASSUME NEW a \in 1..(Len(keys) + 1), NEW b \in 1..(Len(keys) + 1), a < b,
             InPart(keys, a, x), InPart(keys, b, x)
      PROVE  FALSE
  <2>1. a \in 1..Len(keys) /\ b - 1 \in 1..Len(keys) /\ a <= Len(keys) /\ b > 1 /\ a <= b - 1
    BY <1>0, <1>1
  <2>2. keys[a] \in Int /\ keys[b - 1] \in Int
    BY <2>1, ElementOfSeq
  <2>3. keys[b - 1] <= x /\ x < keys[a]
    BY <2>1, <1>1 DEF InPart
  <2>4. CASE a = b - 1
    BY <2>2, <2>3, <2>4
  <2>5. CASE a < b - 1
    <3>1. keys[a] < keys[b - 1]
      BY <2>1, <2>5 DEF Ascending
    <3> QED
      BY <3>1, <2>2, <2>3
  <2> QED
    BY <2>1, <2>4, <2>5
<1> QED
  BY <1>0, <1>1

LEMMA InsertAscending ==
  ASSUME NEW list \in Seq(Int), NEW longer \in Seq(Int), Ascending(list), NEW i, NEW x \in Int,
         Inserted(longer, list, i, x), i > 1 => list[i - 1] < x, i <= Len(list) => x < list[i]
  PROVE  Ascending(longer)
<1>0. \A j \in 1..Len(longer) :
        longer[j] = IF j < i THEN list[j] ELSE IF j = i THEN x ELSE list[j - 1]
  BY DEF Inserted
<1>1. Len(list) \in Nat /\ i \in Nat /\ i >= 1 /\ i <= Len(list) + 1 /\ Len(longer) = Len(list) + 1
  BY LenProperties DEF Inserted
<1>2. \A j \in 1..Len(list) : list[j] \in Int
  BY ElementOfSeq
<1>3. \A j \in 1..Len(list) : (j < i => list[j] < x) /\ (j >= i => x < list[j])
  <2> TAKE j \in 1..Len(list)
  <2>1. ASSUME j < i
        PROVE  list[j] < x
    <3>1. i - 1 \in 1..Len(list) /\ i > 1 /\ j <= i - 1
      BY <2>1, <1>1
    <3>2. list[i - 1] < x /\ list[i - 1] \in Int
      BY <3>1, <1>2
    <3>3. CASE j = i - 1
      BY <3>2, <3>3
    <3>4. CASE j < i - 1
      <4>1. list[j] < list[i - 1]
        BY <3>1, <3>4 DEF Ascending
      <4> QED
        BY <4>1, <3>2, <1>2
    <3> QED
      BY <3>1, <3>3, <3>4, <1>1
  <2>2. ASSUME j >= i
        PROVE  x < list[j]
    <3>1. i \in 1..Len(list) /\ i <= Len(list)
      BY <2>2, <1>1
    <3>2. x < list[i] /\ list[i] \in Int
      BY <3>1, <1>2
    <3>3. CASE j = i
      BY <3>2, <3>3
    <3>4. CASE j > i
      <4>1. list[i] < list[j]
        BY <3>1, <3>4 DEF Ascending
      <4> QED
        BY <4>1, <3>2, <1>2
    <3> QED
      BY <3>1, <3>3, <3>4, <2>2
  <2> QED
    BY <2>1, <2>2
<1>4. ASSUME NEW a \in 1..Len(longer), NEW b \in 1..Len(longer), a < b
      PROVE  longer[a] < longer[b]
  <2>1. CASE b < i
    <3>1. a \in 1..Len(list) /\ b \in 1..Len(list) /\ a < i
      <4> DEFINE n == Len(list)
      <4>1. n \in Nat /\ i \in Nat /\ i <= n + 1 /\ a \in 1..(n + 1) /\ b \in 1..(n + 1) /\ a < b /\ b < i
        BY <2>1, <1>1, <1>4
      <4> HIDE DEF n
      <4>2. a \in 1..n /\ b \in 1..n /\ a < i
        BY <4>1
      <4> QED
        BY <4>2 DEF n
    <3> QED
      BY <3>1, <2>1, <1>0, <1>4 DEF Ascending
  <2>2. CASE b = i
    <3>1. a \in 1..Len(list) /\ a < i /\ ~(b < i)
      BY <2>2, <1>1, <1>4
    <3>2. longer[a] = list[a] /\ longer[b] = x
      BY <3>1, <2>2, <1>0
    <3>3. list[a] < x
      BY <3>1, <1>3
    <3> QED
      BY <3>2, <3>3
  <2>3. CASE b > i /\ a < i
    <3>1. a \in 1..Len(list) /\ b - 1 \in 1..Len(list) /\ b - 1 >= i /\ ~(b < i) /\ b # i
      BY <2>3, <1>1, <1>4
    <3>2. longer[a] = list[a] /\ longer[b] = list[b - 1]
      BY <3>1, <2>3, <1>0
    <3>3. list[a] < x /\ x < list[b - 1]
      BY <3>1, <2>3, <1>3
    <3> QED
      BY <3>1, <3>2, <3>3, <1>2
  <2>4. CASE b > i /\ a = i
    <3>1. b - 1 \in 1..Len(list) /\ b - 1 >= i /\ ~(b < i) /\ b # i /\ ~(a < i)
      BY <2>4, <1>1, <1>4
    <3> QED
      BY <3>1, <2>4, <1>0, <1>3
  <2>5. CASE b > i /\ a > i
    <3>1. a - 1 \in 1..Len(list) /\ b - 1 \in 1..Len(list) /\ a - 1 < b - 1
          /\ ~(a < i) /\ a # i /\ ~(b < i) /\ b # i
      BY <2>5, <1>1, <1>4
    <3>2. longer[a] = list[a - 1] /\ longer[b] = list[b - 1]
      BY <3>1, <1>0
    <3> QED
      BY <3>1, <3>2 DEF Ascending
  <2> QED
    BY <2>1, <2>2, <2>3, <2>4, <2>5, <1>1
<1> QED
  BY <1>4 DEF Ascending

\* The parent p of a split node gets the new node as a child.
LEMMA NewChild ==
  ASSUME NEW D, 0 \notin D, NEW r, NEW ks, NEW cs, NEW L, NEW S, NEW cur, NEW new, NEW mid,
         TreeOK(D, r, ks, cs, L, S, cur, new), Pending(D, r, L, S, cur, new, mid),
         NEW p \in D, L[p] > 0, NEW i \in 1..Len(cs[p]), cs[p][i] = cur,
         NEW kp \in Seq(Int), Inserted(kp, ks[p], i, mid),
         NEW cp \in Seq(Nat), Inserted(cp, cs[p], i + 1, new),
         NEW ks2, ks2 = [ks EXCEPT ![p] = kp], NEW cs2, cs2 = [cs EXCEPT ![p] = cp]
  PROVE  TreeOK(D, r, ks2, cs2, L, S, 0, 0)
<1> DEFINE k == ks[p]
           c == cs[p]
<1>1. /\ Lists(D, ks, cs) /\ Levels(D, r, ks, cs, L) /\ Disjoint(D, L, S) /\ Ordered(D, ks, S)
      /\ Divided(D, r, ks, cs, L, S, cur, new)
  BY DEF TreeOK
<1>2. /\ ks2 \in [D -> Seq(Int)] /\ cs2 \in [D -> Seq(Nat)] /\ ks2[p] = kp /\ cs2[p] = cp
      /\ \A q \in D : q # p => ks2[q] = ks[q] /\ cs2[q] = cs[q]
  BY <1>1 DEF Lists
<1>3. /\ r \in D /\ L \in [D -> Nat] /\ \A q \in D : L[q] <= L[r]
      /\ \A q \in D : L[q] > 0 =>
           /\ Len(ks[q]) > 0 /\ Len(cs[q]) = Len(ks[q]) + 1
           /\ \A j \in 1..Len(cs[q]) : cs[q][j] \in D /\ L[cs[q][j]] = L[q] - 1
  BY <1>1 DEF Levels
<1>4. /\ cur \in D /\ new \in D /\ cur # new /\ L[cur] = L[new]
      /\ mid \in S[new] /\ (\A x \in S[new] : mid <= x) /\ (\A x \in S[cur] : x < mid)
  BY DEF Pending
<1>5. L[cur] = L[p] - 1 /\ cur # r /\ L[p] \in Nat
  BY <1>3
<1>6. k \in Seq(Int) /\ c \in Seq(Nat) /\ Len(k) \in Nat /\ Len(c) = Len(k) + 1 /\ Ascending(k)
      /\ Len(k) > 0 /\ (\A j \in 1..Len(k) : k[j] \in S[p] /\ k[j] \in Int)
  <2>1. k \in Seq(Int) /\ c \in Seq(Nat)
    BY <1>1 DEF Lists
  <2>2. Ascending(k) /\ \A j \in 1..Len(k) : k[j] \in S[p]
    BY <1>1 DEF Ordered
  <2> QED
    BY <2>1, <2>2, <1>3, LenProperties, ElementOfSeq
<1>0. Len(k) \in Nat /\ i \in Nat /\ i >= 1 /\ i <= Len(k) + 1 /\ Len(c) = Len(k) + 1
      /\ Len(kp) = Len(k) + 1 /\ Len(cp) = Len(k) + 2
  BY <1>6 DEF Inserted
<1>7. /\ \A j \in 1..Len(kp) : kp[j] = IF j < i THEN k[j] ELSE IF j = i THEN mid ELSE k[j - 1]
      /\ \A j \in 1..Len(cp) : cp[j] = IF j < i + 1 THEN c[j] ELSE IF j = i + 1 THEN new ELSE c[j - 1]
  BY DEF Inserted
<1>8. \A q \in D : L[q] > 0 => \A j \in 1..Len(cs[q]) :
        Whole(S, cur, new, cs[q][j]) = {x \in S[q] : InPart(ks[q], j, x)}
  BY <1>1 DEF Divided
<1>9. \A j \in 1..Len(c) : Whole(S, cur, new, c[j]) = {x \in S[p] : InPart(k, j, x)}
  BY <1>8
<1>10. S[cur] \cup S[new] = {x \in S[p] : InPart(k, i, x)}
  <2>1. Whole(S, cur, new, cur) = S[cur] \cup S[new]
    BY DEF Whole
  <2> QED
    BY <2>1, <1>9
<1>11. /\ S \in [D -> SUBSET Int] /\ \A q \in D : S[q] # {}
       /\ \A m, n \in D : m # n /\ L[m] = L[n] => S[m] \cap S[n] = {}
  BY <1>1 DEF Disjoint
<1>12. mid \in Int /\ mid \in S[p] /\ InPart(k, i, mid)
  BY <1>4, <1>10, <1>11
<1>13. (i > 1 => k[i - 1] < mid) /\ (i <= Len(k) => mid < k[i])
  <2>1. PICK x \in S[cur] : x \in Int /\ InPart(k, i, x) /\ x < mid
    BY <1>4, <1>10, <1>11
  <2>2. i > 1 => k[i - 1] <= x /\ k[i - 1] \in Int
    <3> HAVE i > 1
    <3>1. i - 1 \in 1..Len(k)
      <4> HIDE DEF k
      <4>1. Len(k) \in Nat /\ i \in Nat /\ i <= Len(k) + 1
        BY <1>0
      <4> QED
        BY <4>1
    <3>2. k[i - 1] <= x
      BY <2>1 DEF InPart
    <3> QED
      BY <3>1, <3>2, <1>6
  <2>3. i <= Len(k) => mid < k[i]
    BY <1>12 DEF InPart
  <2> HIDE DEF k
  <2> QED
    BY <2>1, <2>2, <2>3, <1>12
<1>14. Ascending(kp) /\ \A j \in 1..Len(kp) : kp[j] \in S[p]
  <2>1. Ascending(kp)
    BY <1>6, <1>12, <1>13, InsertAscending
  <2>2. ASSUME NEW j \in 1..Len(kp)
        PROVE  kp[j] \in S[p]
    <3>1. (j < i => j \in 1..Len(k)) /\ (j > i => j - 1 \in 1..Len(k)) /\ j \in Nat
      BY <1>0
    <3>2. kp[j] = IF j < i THEN k[j] ELSE IF j = i THEN mid ELSE k[j - 1]
      BY <1>7
    <3>3. CASE j < i
      BY <3>1, <3>2, <3>3, <1>6
    <3>4. CASE j = i
      BY <3>2, <3>4, <1>0, <1>12
    <3>5. CASE j > i
      <4>1. ~(j < i) /\ j # i
        BY <3>5, <3>1, <1>0
      <4> QED
        BY <4>1, <3>1, <3>2, <3>5, <1>6
    <3> QED
      BY <3>1, <3>3, <3>4, <3>5, <1>0
  <2> QED
    BY <2>1, <2>2
<1> HIDE DEF k, c
<1>15. Lists(D, ks2, cs2)
  BY <1>2 DEF Lists
<1>16. Ordered(D, ks2, S)
  <2> SUFFICES ASSUME NEW q \in D
               PROVE  Ascending(ks2[q]) /\ \A j \in 1..Len(ks2[q]) : ks2[q][j] \in S[q]
    BY DEF Ordered
  <2>1. CASE q = p
    BY <2>1, <1>2, <1>14
  <2>2. CASE q # p
    BY <2>2, <1>1, <1>2 DEF Ordered
  <2> QED
    BY <2>1, <2>2
<1>17. \A j \in 1..Len(c) : c[j] \in D /\ L[c[j]] = L[p] - 1
  BY <1>3 DEF c
<1>18. Levels(D, r, ks2, cs2, L)
  <2>1. ASSUME NEW q \in D, L[q] > 0
        PROVE  /\ Len(ks2[q]) > 0 /\ Len(cs2[q]) = Len(ks2[q]) + 1
               /\ \A j \in 1..Len(cs2[q]) : cs2[q][j] \in D /\ L[cs2[q][j]] = L[q] - 1
    <3>1. CASE q = p
      <4>1. Len(kp) > 0 /\ Len(cp) = Len(kp) + 1
        BY <1>0
      <4>2. ASSUME NEW j \in 1..Len(cp)
            PROVE  cp[j] \in D /\ L[cp[j]] = L[p] - 1
        <5>1. (j < i + 1 => j \in 1..Len(c)) /\ (j > i + 1 => j - 1 \in 1..Len(c)) /\ j \in Nat
          BY <1>0
        <5>2. cp[j] = IF j < i + 1 THEN c[j] ELSE IF j = i + 1 THEN new ELSE c[j - 1]
          BY <1>7
        <5>3. CASE j < i + 1
          BY <5>1, <5>2, <5>3, <1>17
        <5>4. CASE j = i + 1
          <6>1. ~(j < i + 1)
            BY <5>4, <1>0
          <6>2. cp[j] = new
            BY <6>1, <5>2, <5>4
          <6> QED
            BY <6>2, <1>4, <1>5
        <5>5. CASE j > i + 1
          <6>1. ~(j < i + 1) /\ j # i + 1
            BY <5>5, <5>1, <1>0
          <6> QED
            BY <6>1, <5>1, <5>2, <5>5, <1>17
        <5>6. j < i + 1 \/ j = i + 1 \/ j > i + 1
          BY <5>1, <1>0
        <5> QED
          BY <5>3, <5>4, <5>5, <5>6
      <4> QED
        BY <3>1, <4>1, <4>2, <1>2
    <3>2. CASE q # p
      BY <3>2, <2>1, <1>2, <1>3
    <3> QED
      BY <3>1, <3>2
  <2> QED
    BY <2>1, <1>3 DEF Levels
<1>19. \A q \in D : Whole(S, 0, 0, q) = S[q]
  BY DEF Whole
<1>20. \A q \in D : q # cur => Whole(S, cur, new, q) = S[q]
  BY DEF Whole
<1>21. Divided(D, r, ks2, cs2, L, S, 0, 0)
  <2>1. Whole(S, 0, 0, r) = Int
    BY <1>1, <1>3, <1>5, <1>19, <1>20 DEF Divided
  <2>2. ASSUME NEW q \in D, L[q] > 0, NEW j \in 1..Len(cs2[q])
        PROVE  Whole(S, 0, 0, cs2[q][j]) = {x \in S[q] : InPart(ks2[q], j, x)}
    <3>1. CASE q # p
      <4>1. cs2[q] = cs[q] /\ ks2[q] = ks[q] /\ cs[q][j] \in D /\ L[cs[q][j]] = L[q] - 1
        BY <3>1, <2>2, <1>2, <1>3
      <4>2. Whole(S, cur, new, cs[q][j]) = {x \in S[q] : InPart(ks[q], j, x)}
        BY <4>1, <2>2, <1>8
      <4>3. cs[q][j] # cur
        <5> SUFFICES ASSUME cs[q][j] = cur
                     PROVE  FALSE
          OBVIOUS
        <5>1. L[q] = L[p]
          BY <4>1, <1>3, <1>5
        <5>2. S[q] \cap S[p] = {}
          BY <5>1, <3>1, <1>11
        <5>3. mid \in S[q]
          BY <4>2, <1>4 DEF Whole
        <5> QED
          BY <5>2, <5>3, <1>12
      <4> QED
        BY <4>1, <4>2, <4>3, <1>19, <1>20
    <3>2. CASE q = p
      <4>0. j \in Nat /\ j >= 1 /\ j <= Len(k) + 2 /\ j \in 1..Len(cp)
        BY <3>2, <1>2, <1>0
      <4>1. ASSUME NEW a \in 1..Len(c), a # i
            PROVE  c[a] \in D /\ S[c[a]] = {x \in S[p] : InPart(k, a, x)}
        <5>1. c[a] \in D /\ Whole(S, cur, new, c[a]) = {x \in S[p] : InPart(k, a, x)}
          BY <1>9, <1>17
        <5>2. c[a] # cur
          <6> SUFFICES ASSUME c[a] = cur
                       PROVE  FALSE
            OBVIOUS
          <6>1. InPart(k, a, mid)
            BY <5>1, <1>4 DEF Whole
          <6>2. a \in 1..(Len(k) + 1) /\ i \in 1..(Len(k) + 1)
            BY <1>0
          <6> QED
            BY <6>1, <6>2, <4>1, <1>6, <1>12, OnePart
        <5> QED
          BY <5>1, <5>2, <1>20
      <4>2. CASE j < i
        <5>0. j \in 1..Len(c) /\ j # i /\ j <= Len(k) /\ j <= Len(kp) /\ j \in 1..Len(kp) /\ j < i + 1
              /\ (j > 1 => j - 1 \in 1..Len(kp) /\ j - 1 < i)
          <6>1. j # i /\ j <= Len(k) /\ j < i + 1
            BY <4>0, <4>2, <1>0
          <6>2. j \in 1..Len(c) /\ j <= Len(kp) /\ j \in 1..Len(kp)
            BY <6>1, <4>0, <1>0
          <6>3. j > 1 => j - 1 \in 1..Len(kp) /\ j - 1 < i
            BY <6>1, <4>0, <4>2, <1>0
          <6> QED
            BY <6>1, <6>2, <6>3
        <5>1. cp[j] = c[j] /\ kp[j] = k[j] /\ (j > 1 => kp[j - 1] = k[j - 1])
          BY <5>0, <4>0, <4>2, <1>7
        <5>2. \A x : InPart(kp, j, x) <=> InPart(k, j, x)
          BY <5>0, <5>1 DEF InPart
        <5>3. c[j] \in D /\ S[c[j]] = {x \in S[p] : InPart(k, j, x)}
          BY <5>0, <4>1
        <5> QED
          BY <5>1, <5>2, <5>3, <3>2, <1>2, <1>19
      <4>3. CASE j = i
        <5>0. j <= Len(kp) /\ j \in 1..Len(kp) /\ j < i + 1 /\ ~(j < i) /\ c[i] = cur
              /\ (j > 1 => j - 1 \in 1..Len(kp) /\ j - 1 < i)
          BY <4>0, <4>3, <1>0 DEF c
        <5>1. cp[j] = cur /\ j <= Len(kp) /\ kp[j] = mid /\ (j > 1 => kp[j - 1] = k[j - 1])
          BY <5>0, <4>0, <4>3, <1>7
        <5>2. ASSUME NEW x \in S[p]
              PROVE  InPart(kp, j, x) <=> x \in S[cur]
          <6>1. x \in Int
            BY <1>11
          <6>2. InPart(k, i, x) <=> x \in S[cur] \cup S[new]
            BY <1>10
          <6>3. x \in S[new] => mid <= x
            BY <1>4
          <6>4. x \in S[cur] => x < mid
            BY <1>4
          <6>5. InPart(kp, j, x) <=> (i > 1 => k[i - 1] <= x) /\ x < mid
            BY <5>1, <4>3 DEF InPart
          <6>6. (i > 1 => k[i - 1] <= x) /\ x < mid => InPart(k, i, x)
            <7>1. i <= Len(k) => k[i] \in Int
              BY <4>0, <1>0, <1>6
            <7>2. x < mid => (i <= Len(k) => x < k[i])
              BY <7>1, <6>1, <1>12, <1>13
            <7> QED
              BY <7>2 DEF InPart
          <6>7. InPart(k, i, x) => (i > 1 => k[i - 1] <= x)
            BY DEF InPart
          <6> QED
            BY <6>1, <6>2, <6>3, <6>4, <6>5, <6>6, <6>7, <1>12
        <5>3. S[cur] \subseteq S[p]
          BY <1>10
        <5> QED
          BY <5>1, <5>2, <5>3, <3>2, <1>2, <1>4, <1>19
      <4>4. CASE j = i + 1
        <5>1. cp[j] = new /\ j > 1 /\ kp[j - 1] = mid /\ (j <= Len(kp) <=> i <= Len(k))
              /\ (i <= Len(k) => kp[j] = k[i])
          <6>1. /\ j > 1 /\ j - 1 \in 1..Len(kp) /\ ~(j - 1 < i) /\ j - 1 = i /\ ~(j < i + 1)
                /\ (j <= Len(kp) <=> i <= Len(k)) /\ (j <= Len(kp) => j \in 1..Len(kp)) /\ ~(j < i) /\ j # i
            BY <4>0, <4>4, <1>0
          <6> QED
            BY <6>1, <4>0, <4>4, <1>7
        <5>2. ASSUME NEW x \in S[p]
              PROVE  InPart(kp, j, x) <=> x \in S[new]
          <6>1. x \in Int
            BY <1>11
          <6>2. InPart(k, i, x) <=> x \in S[cur] \cup S[new]
            BY <1>10
          <6>3. x \in S[new] => mid <= x
            BY <1>4
          <6>4. x \in S[cur] => x < mid
            BY <1>4
          <6>5. InPart(kp, j, x) <=> mid <= x /\ (i <= Len(k) => x < k[i])
            BY <5>1 DEF InPart
          <6>6. mid <= x /\ (i <= Len(k) => x < k[i]) => InPart(k, i, x)
            <7>1. i > 1 => k[i - 1] \in Int
              BY <4>0, <1>0, <1>6
            <7>2. mid <= x => (i > 1 => k[i - 1] <= x)
              BY <7>1, <6>1, <1>12, <1>13
            <7> QED
              BY <7>2 DEF InPart
          <6>7. InPart(k, i, x) => (i <= Len(k) => x < k[i])
            BY DEF InPart
          <6> QED
            BY <6>1, <6>2, <6>3, <6>4, <6>5, <6>6, <6>7, <1>12
        <5>3. S[new] \subseteq S[p]
          BY <1>10
        <5> QED
          BY <5>1, <5>2, <5>3, <3>2, <1>2, <1>4, <1>19
      <4>5. CASE j > i + 1
        <5> DEFINE a == j - 1
        <5>1. /\ a \in 1..Len(c) /\ a # i /\ cp[j] = c[a] /\ j > 1 /\ a > 1
              /\ (j <= Len(kp) <=> a <= Len(k))
              /\ (a <= Len(k) => kp[j] = k[a]) /\ kp[j - 1] = k[a - 1]
          <6>1. /\ a \in 1..Len(c) /\ a # i /\ j > 1 /\ a > 1 /\ ~(j < i + 1) /\ j # i + 1
                /\ (j <= Len(kp) <=> a <= Len(k)) /\ (j <= Len(kp) => j \in 1..Len(kp)) /\ ~(j < i) /\ j # i
                /\ a \in 1..Len(kp) /\ ~(a < i) /\ a # i /\ a = j - 1
            BY <4>0, <4>5, <1>0
          <6> HIDE DEF a
          <6>2. cp[j] = c[a]
            BY <6>1, <4>0, <1>7
          <6>3. a <= Len(k) => kp[j] = k[a]
            BY <6>1, <1>7
          <6>4. kp[a] = k[a - 1]
            BY <6>1, <1>7
          <6> QED
            BY <6>1, <6>2, <6>3, <6>4
        <5>2. \A x : InPart(kp, j, x) <=> InPart(k, a, x)
          <6> HIDE DEF a
          <6> QED
            BY <5>1 DEF InPart
        <5> HIDE DEF a
        <5>3. c[a] \in D /\ S[c[a]] = {x \in S[p] : InPart(k, a, x)}
          BY <5>1, <4>1
        <5> QED
          BY <5>1, <5>2, <5>3, <3>2, <1>2, <1>19
      <4> QED
        BY <4>0, <4>2, <4>3, <4>4, <4>5
    <3> QED
      BY <3>1, <3>2
  <2> QED
    BY <2>1, <2>2 DEF Divided
<1> QED
  BY <1>1, <1>15, <1>16, <1>18, <1>21 DEF TreeOK

\* The root was split: a new root with the two halves.
\* The split root r and its new neighbour get a node top above them.
Grown(D, r, ks, cs, L, S, new, mid, top, D2, ks2, cs2, L2, S2) ==
  /\ 0 \notin D /\ r \in Nat /\ new \in Nat /\ top \in Nat /\ top \notin D /\ top # 0 /\ D2 = D \cup {top}
  /\ \E kt \in Seq(Int) : Len(kt) = 1 /\ kt[1] = mid /\ ks2 = [q \in D2 |-> IF q = top THEN kt ELSE ks[q]]
  /\ \E ct \in Seq(Nat) : /\ Len(ct) = 2 /\ ct[1] = r /\ ct[2] = new
                           /\ cs2 = [q \in D2 |-> IF q = top THEN ct ELSE cs[q]]
  /\ L2 = [q \in D2 |-> IF q = top THEN L[r] + 1 ELSE L[q]]
  /\ S2 = [q \in D2 |-> IF q = top THEN Int ELSE S[q]]

LEMMA TallerTree ==
  ASSUME NEW D, NEW r, NEW ks, NEW cs, NEW L, NEW S, NEW new, NEW mid,
         TreeOK(D, r, ks, cs, L, S, r, new), Pending(D, r, L, S, r, new, mid),
         NEW top, NEW D2, NEW ks2, NEW cs2, NEW L2, NEW S2,
         Grown(D, r, ks, cs, L, S, new, mid, top, D2, ks2, cs2, L2, S2)
  PROVE  TreeOK(D2, top, ks2, cs2, L2, S2, 0, 0)
<1>0. PICK kt \in Seq(Int), ct \in Seq(Nat) :
        /\ Len(kt) = 1 /\ kt[1] = mid /\ ks2 = [q \in D2 |-> IF q = top THEN kt ELSE ks[q]]
        /\ Len(ct) = 2 /\ ct[1] = r /\ ct[2] = new /\ cs2 = [q \in D2 |-> IF q = top THEN ct ELSE cs[q]]
        /\ 0 \notin D /\ r \in Nat /\ new \in Nat /\ top \in Nat /\ top \notin D /\ top # 0 /\ D2 = D \cup {top}
        /\ L2 = [q \in D2 |-> IF q = top THEN L[r] + 1 ELSE L[q]]
        /\ S2 = [q \in D2 |-> IF q = top THEN Int ELSE S[q]]
  BY DEF Grown
<1> USE <1>0
<1>1. /\ Lists(D, ks, cs) /\ Levels(D, r, ks, cs, L) /\ Disjoint(D, L, S) /\ Ordered(D, ks, S)
      /\ Divided(D, r, ks, cs, L, S, r, new)
  BY DEF TreeOK
<1>2. /\ ks2[top] = kt /\ cs2[top] = ct /\ L2[top] = L[r] + 1 /\ S2[top] = Int
      /\ \A q \in D : q # top /\ ks2[q] = ks[q] /\ cs2[q] = cs[q] /\ L2[q] = L[q] /\ S2[q] = S[q]
  OBVIOUS
<1>3. /\ r \in D /\ L \in [D -> Nat] /\ \A q \in D : L[q] <= L[r]
      /\ \A q \in D : L[q] > 0 =>
           /\ Len(ks[q]) > 0 /\ Len(cs[q]) = Len(ks[q]) + 1
           /\ \A j \in 1..Len(cs[q]) : cs[q][j] \in D /\ L[cs[q][j]] = L[q] - 1
  BY <1>1 DEF Levels
<1>4. /\ new \in D /\ r # new /\ L[r] = L[new] /\ L[r] \in Nat
      /\ mid \in S[new] /\ (\A x \in S[new] : mid <= x) /\ (\A x \in S[r] : x < mid)
  BY <1>3 DEF Pending
<1>5. S \in [D -> SUBSET Int] /\ (\A q \in D : S[q] # {})
      /\ \A m, n \in D : m # n /\ L[m] = L[n] => S[m] \cap S[n] = {}
  BY <1>1 DEF Disjoint
<1>6. S[r] \cup S[new] = Int /\ mid \in Int
  BY <1>1, <1>4, <1>5 DEF Divided, Whole
<1>7. Lists(D2, ks2, cs2)
  BY <1>1 DEF Lists
<1>8. Levels(D2, top, ks2, cs2, L2)
  <2>1. top \in D2 /\ L2 \in [D2 -> Nat]
    <3>1. \A q \in D2 : L2[q] \in Nat
      BY <1>2, <1>3, <1>4
    <3> QED
      BY <3>1
  <2>2. \A q \in D2 : L2[q] <= L2[top]
    BY <1>2, <1>3, <1>4
  <2>3. ASSUME NEW q \in D2, L2[q] > 0
        PROVE  /\ Len(ks2[q]) > 0 /\ Len(cs2[q]) = Len(ks2[q]) + 1
               /\ \A j \in 1..Len(cs2[q]) : cs2[q][j] \in D2 /\ L2[cs2[q][j]] = L2[q] - 1
    <3>1. CASE q = top
      <4>1. \A j \in 1..2 : j = 1 \/ j = 2
        OBVIOUS
      <4>2. L2[top] - 1 = L[r] /\ L2[r] = L[r] /\ L2[new] = L[r] /\ r \in D2 /\ new \in D2
        BY <1>2, <1>3, <1>4
      <4>3. \A j \in 1..Len(ct) : ct[j] \in D2 /\ L2[ct[j]] = L2[top] - 1
        BY <4>1, <4>2
      <4>4. Len(kt) > 0 /\ Len(ct) = Len(kt) + 1
        OBVIOUS
      <4> QED
        BY <3>1, <4>3, <4>4, <1>2
    <3>2. CASE q \in D
      BY <3>2, <2>3, <1>2, <1>3
    <3> QED
      BY <3>1, <3>2
  <2> QED
    BY <2>1, <2>2, <2>3 DEF Levels
<1>9. Disjoint(D2, L2, S2)
  <2>1. S2 \in [D2 -> SUBSET Int] /\ \A q \in D2 : S2[q] # {}
    BY <1>2, <1>5, <1>6
  <2>2. \A q \in D : L2[q] # L2[top]
    BY <1>2, <1>3, <1>4
  <2> QED
    BY <2>1, <2>2, <1>2, <1>5 DEF Disjoint
<1>10. Ordered(D2, ks2, S2)
  <2> SUFFICES ASSUME NEW q \in D2
               PROVE  Ascending(ks2[q]) /\ \A j \in 1..Len(ks2[q]) : ks2[q][j] \in S2[q]
    BY DEF Ordered
  <2>1. CASE q = top
    <3>1. \A j \in 1..1 : j = 1
      OBVIOUS
    <3>2. Ascending(kt)
      BY <3>1 DEF Ascending
    <3>3. \A j \in 1..Len(kt) : kt[j] \in Int
      BY <3>1, <1>6
    <3> QED
      BY <2>1, <3>2, <3>3, <1>2
  <2>2. CASE q \in D
    BY <2>2, <1>1, <1>2 DEF Ordered
  <2> QED
    BY <2>1, <2>2
<1>11. \A q \in D : Whole(S2, 0, 0, q) = S[q]
  BY <1>2 DEF Whole
<1>12. Divided(D2, top, ks2, cs2, L2, S2, 0, 0)
  <2>1. Whole(S2, 0, 0, top) = Int
    BY <1>2 DEF Whole
  <2>2. ASSUME NEW q \in D2, L2[q] > 0, NEW j \in 1..Len(cs2[q])
        PROVE  Whole(S2, 0, 0, cs2[q][j]) = {x \in S2[q] : InPart(ks2[q], j, x)}
    <3>1. CASE q = top
      <4>1. \A x \in Int : (x \in S[r] <=> x < mid) /\ (x \in S[new] <=> mid <= x)
        BY <1>4, <1>6
      <4>2. CASE j = 1
        <5>1. \A x \in Int : InPart(kt, 1, x) <=> x < mid
          BY DEF InPart
        <5>2. Whole(S2, 0, 0, cs2[q][j]) = S[r] /\ S[r] \subseteq Int
          BY <3>1, <4>2, <1>2, <1>3, <1>5, <1>11
        <5>3. S[r] = {x \in Int : InPart(kt, 1, x)}
          BY <5>1, <5>2, <4>1
        <5> QED
          BY <5>2, <5>3, <4>2, <3>1, <1>2
      <4>3. CASE j = 2
        <5>1. \A x \in Int : InPart(kt, 2, x) <=> mid <= x
          BY DEF InPart
        <5>2. Whole(S2, 0, 0, cs2[q][j]) = S[new] /\ S[new] \subseteq Int
          BY <3>1, <4>3, <1>2, <1>4, <1>5, <1>11
        <5>3. S[new] = {x \in Int : InPart(kt, 2, x)}
          BY <5>1, <5>2, <4>1
        <5> QED
          BY <5>2, <5>3, <4>3, <3>1, <1>2
      <4>4. j \in 1..2
        BY <3>1, <2>2, <1>2
      <4>5. j = 1 \/ j = 2
        BY <4>4
      <4> QED
        BY <4>2, <4>3, <4>5
    <3>2. CASE q \in D
      <4>1. /\ cs2[q] = cs[q] /\ ks2[q] = ks[q] /\ S2[q] = S[q]
            /\ cs[q][j] \in D /\ L[cs[q][j]] = L[q] - 1 /\ L[q] <= L[r] /\ L[q] \in Nat /\ j \in 1..Len(cs[q])
        BY <3>2, <2>2, <1>2, <1>3
      <4>2. cs[q][j] # r
        BY <4>1, <1>4
      <4>3. Whole(S, r, new, cs[q][j]) = S[cs[q][j]]
        BY <4>2 DEF Whole
      <4>4. Whole(S, r, new, cs[q][j]) = {x \in S[q] : InPart(ks[q], j, x)}
        BY <4>1, <3>2, <2>2, <1>1, <1>2 DEF Divided
      <4> QED
        BY <4>1, <4>3, <4>4, <1>11
    <3> QED
      BY <3>1, <3>2
  <2> QED
    BY <2>1, <2>2 DEF Divided
<1> QED
  BY <1>7, <1>8, <1>9, <1>10, <1>12 DEF TreeOK

-----------------------------------------------------------------------------
(***************************************************************************)
(* The chain of the leaves: P[n] is the place of leaf n among N, from the  *)
(* left, which is also the order of the territories; xs[n] follows it.     *)
(***************************************************************************)
ChainOK(Lv, xs, S, P, N) ==
  /\ N \in Nat /\ P \in [Lv -> 1..N]
  /\ \A i \in 1..N : \E n \in Lv : P[n] = i
  /\ \A m, n \in Lv : P[m] = P[n] => m = n
  /\ \A n \in Lv : IF P[n] = N THEN xs[n] = Nil ELSE xs[n] \in Lv /\ P[xs[n]] = P[n] + 1
  /\ \A m, n \in Lv : P[m] < P[n] => \A x \in S[m], y \in S[n] : x < y

\* A new leaf takes its place behind the leaf it was split from.
NextLeaf(Lv, xs, S, P, n, new, k, Lv2, xs2, S2, P2) ==
  /\ n \in Lv /\ new \notin Lv /\ k \in Int /\ Lv2 = Lv \cup {new}
  /\ \A q \in Lv : S[q] \subseteq Int
  /\ S2[n] = {x \in S[n] : x < k} /\ S2[new] = {x \in S[n] : k <= x}
  /\ \A q \in Lv : q # n => S2[q] = S[q] /\ xs2[q] = xs[q]
  /\ xs2[n] = new /\ xs2[new] = xs[n]
  /\ P2 = [q \in Lv2 |-> IF q = new THEN P[n] + 1 ELSE IF P[q] > P[n] THEN P[q] + 1 ELSE P[q]]

LEMMA SplitChain ==
  ASSUME NEW Lv, NEW xs, NEW S, NEW P, NEW N, ChainOK(Lv, xs, S, P, N),
         NEW n, NEW new, NEW k, NEW Lv2, NEW xs2, NEW S2, NEW P2,
         NextLeaf(Lv, xs, S, P, n, new, k, Lv2, xs2, S2, P2)
  PROVE  ChainOK(Lv2, xs2, S2, P2, N + 1)
<1> SUFFICES ASSUME n \in Lv, new \notin Lv, \A q \in Lv : S[q] \subseteq Int,
                    S2[n] = {x \in S[n] : x < k}, S2[new] = {x \in S[n] : k <= x}, k \in Int,
                    \A q \in Lv : q # n => S2[q] = S[q] /\ xs2[q] = xs[q],
                    xs2[n] = new, xs2[new] = xs[n], Lv2 = Lv \cup {new},
                    P2 = [q \in Lv2 |-> IF q = new THEN P[n] + 1
                                        ELSE IF P[q] > P[n] THEN P[q] + 1 ELSE P[q]]
             PROVE  ChainOK(Lv2, xs2, S2, P2, N + 1)
  BY DEF NextLeaf
<1>1. /\ N \in Nat /\ P \in [Lv -> 1..N]
      /\ \A i \in 1..N : \E q \in Lv : P[q] = i
      /\ \A m, q \in Lv : P[m] = P[q] => m = q
      /\ \A q \in Lv : IF P[q] = N THEN xs[q] = Nil ELSE xs[q] \in Lv /\ P[xs[q]] = P[q] + 1
      /\ \A m, q \in Lv : P[m] < P[q] => \A x \in S[m], y \in S[q] : x < y
  BY DEF ChainOK
<1>2. P[n] \in Nat /\ P[n] >= 1 /\ P[n] <= N /\ N \in Nat
  BY <1>1
<1>3. \A q \in Lv : P[q] \in Nat /\ P[q] >= 1 /\ P[q] <= N
  BY <1>1
<1>4. /\ P2[new] = P[n] + 1 /\ P2[n] = P[n]
      /\ \A q \in Lv : /\ q # new
                       /\ P[q] > P[n] => P2[q] = P[q] + 1
                       /\ ~(P[q] > P[n]) => P2[q] = P[q]
  BY <1>2
<1>5. \A q \in Lv2 : P2[q] \in Nat /\ P2[q] >= 1 /\ P2[q] <= N + 1
  BY <1>2, <1>3, <1>4
<1>6. N + 1 \in Nat /\ P2 \in [Lv2 -> 1..(N + 1)]
  <2>1. N + 1 \in Nat /\ \A q \in Lv2 : P2[q] \in 1..(N + 1)
    BY <1>2, <1>5
  <2> QED
    BY <2>1
<1>7. ASSUME NEW i \in 1..(N + 1)
      PROVE  \E q \in Lv2 : P2[q] = i
  <2>1. CASE i = P[n] + 1
    BY <2>1, <1>4
  <2>2. CASE i <= P[n]
    <3>1. PICK q \in Lv : P[q] = i
      BY <2>2, <1>1, <1>2
    <3> QED
      BY <3>1, <2>2, <1>2, <1>4
  <2>3. CASE i > P[n] + 1
    <3>1. i - 1 \in 1..N /\ i - 1 > P[n]
      BY <2>3, <1>2
    <3>2. PICK q \in Lv : P[q] = i - 1
      BY <3>1, <1>1
    <3>3. P2[q] = i
      BY <3>1, <3>2, <1>2, <1>4
    <3> QED
      BY <3>3
  <2>4. i = P[n] + 1 \/ i <= P[n] \/ i > P[n] + 1
    BY <1>2
  <2> QED
    BY <2>1, <2>2, <2>3, <2>4
<1>8. ASSUME NEW a \in Lv2, NEW b \in Lv2, P2[a] = P2[b]
      PROVE  a = b
  <2>1. \A q \in Lv : P2[q] # P[n] + 1
    BY <1>2, <1>3, <1>4
  <2>2. CASE a = new \/ b = new
    BY <2>1, <2>2, <1>4, <1>8
  <2>3. CASE a \in Lv /\ b \in Lv
    <3>1. P[a] = P[b]
      BY <2>3, <1>2, <1>3, <1>4, <1>8
    <3> QED
      BY <3>1, <2>3, <1>1
  <2> QED
    BY <2>2, <2>3
<1>9. ASSUME NEW q \in Lv2
      PROVE  IF P2[q] = N + 1 THEN xs2[q] = Nil ELSE xs2[q] \in Lv2 /\ P2[xs2[q]] = P2[q] + 1
  <2>1. CASE q = n
    <3>1. P2[n] # N + 1
      BY <1>2, <1>4
    <3> QED
      BY <2>1, <3>1, <1>4
  <2>2. CASE q = new
    <3>1. CASE P[n] = N
      BY <3>1, <2>2, <1>1, <1>4
    <3>2. CASE P[n] # N
      <4>1. xs[n] \in Lv /\ P[xs[n]] = P[n] + 1
        BY <3>2, <1>1
      <4>2. P2[xs[n]] = P[n] + 2 /\ P2[new] # N + 1
        BY <4>1, <3>2, <1>2, <1>4
      <4> QED
        BY <2>2, <4>1, <4>2, <1>2, <1>4
    <3> QED
      BY <3>1, <3>2
  <2>3. CASE q \in Lv /\ q # n
    <3>0. P[q] # P[n] /\ xs2[q] = xs[q]
      BY <2>3, <1>1
    <3>1. CASE P[q] = N
      <4>1. P2[q] = N + 1 /\ xs[q] = Nil
        BY <3>0, <3>1, <2>3, <1>1, <1>2, <1>4
      <4> QED
        BY <4>1, <3>0
    <3>2. CASE P[q] # N
      <4>1. xs[q] \in Lv /\ P[xs[q]] = P[q] + 1
        BY <3>2, <2>3, <1>1
      <4>2. P2[q] # N + 1 /\ P2[xs[q]] = P2[q] + 1
        <5>1. CASE P[q] > P[n]
          <6>1. P[xs[q]] > P[n]
            BY <5>1, <4>1, <2>3, <1>2, <1>3
          <6> QED
            BY <6>1, <5>1, <4>1, <3>2, <2>3, <1>2, <1>3, <1>4
        <5>2. CASE P[q] < P[n]
          <6>1. ~(P[xs[q]] > P[n]) /\ ~(P[q] > P[n])
            BY <5>2, <4>1, <2>3, <1>2, <1>3
          <6> QED
            BY <6>1, <5>2, <4>1, <3>2, <2>3, <1>2, <1>3, <1>4
        <5> QED
          BY <5>1, <5>2, <3>0, <2>3, <1>2, <1>3
      <4> QED
        BY <3>0, <4>1, <4>2
    <3> QED
      BY <3>1, <3>2
  <2> QED
    BY <2>1, <2>2, <2>3
<1>10. ASSUME NEW a \in Lv2, NEW b \in Lv2, P2[a] < P2[b], NEW x \in S2[a], NEW y \in S2[b]
       PROVE  x < y
  <2> DEFINE Home(q) == IF q = new THEN n ELSE q
  <2>1. \A q \in Lv2 : Home(q) \in Lv /\ S2[q] \subseteq S[Home(q)]
    OBVIOUS
  <2>2. CASE a = n /\ b = new
    <3>1. x \in Int /\ y \in Int /\ x < k /\ k <= y
      BY <2>2
    <3> QED
      BY <3>1
  <2>3. CASE ~(a = n /\ b = new)
    <3>1. P[Home(a)] < P[Home(b)]
      <4>1. CASE a = new
        <5>1. b \in Lv /\ b # new
          BY <4>1, <1>5, <1>10
        <5>2. P[b] > P[n]
          BY <5>1, <4>1, <1>2, <1>3, <1>4, <1>10
        <5> QED
          BY <5>1, <5>2, <4>1, <1>2, <1>3
      <4>2. CASE a # new /\ b = new
        <5>1. a \in Lv /\ P[a] # P[n]
          BY <4>2, <2>3, <1>1
        <5>2. P[a] < P[n]
          BY <5>1, <4>2, <1>2, <1>3, <1>4, <1>10
        <5> QED
          BY <5>2, <4>2
      <4>3. CASE a # new /\ b # new
        <5>1. a \in Lv /\ b \in Lv
          BY <4>3
        <5>2. P[a] < P[b]
          BY <5>1, <1>2, <1>3, <1>4, <1>10
        <5> QED
          BY <5>2, <4>3
      <4> QED
        BY <4>1, <4>2, <4>3
    <3> HIDE DEF Home
    <3> QED
      BY <3>1, <2>1, <1>1
  <2> QED
    BY <2>2, <2>3
<1> QED
  BY <1>6, <1>7, <1>8, <1>9, <1>10 DEF ChainOK

\* The chain depends on the leaves only.
LEMMA SameChain ==
  ASSUME NEW Lv, NEW xs, NEW S, NEW P, NEW N, ChainOK(Lv, xs, S, P, N), NEW xs2, NEW S2,
         \A n \in Lv : xs2[n] = xs[n] /\ S2[n] = S[n]
  PROVE  ChainOK(Lv, xs2, S2, P, N)
BY DEF ChainOK

-----------------------------------------------------------------------------
(***************************************************************************)
(* The way down.                                                           *)
(***************************************************************************)
LEMMA MinIsLeast ==
  ASSUME NEW S \in SUBSET Nat, S # {}
  PROVE  Min(S) \in S /\ \A x \in S : Min(S) <= x
<1>1. PICK m \in S : \A y \in S : m <= y
  BY NatsHaveALeast
<1> QED
  BY <1>1 DEF Min

\* A recursion that goes down the levels has a solution.
\* From every n of D, which is L[n] levels up, down[n] is one level down.
Descends(D, L, h, down, T, first) ==
  /\ L \in [D -> Nat] /\ h \in Nat /\ first \in [D -> Seq(T)]
  /\ \A n \in D : L[n] <= h
  /\ \A n \in D : L[n] > 0 => down[n] \in D /\ L[down[n]] = L[n] - 1

LEMMA DescentExists ==
  ASSUME NEW D, NEW L, NEW h, NEW down, NEW T, NEW first, Descends(D, L, h, down, T, first)
  PROVE  \E d \in [D -> Seq(T)] :
           \A n \in D : d[n] = IF L[n] = 0 THEN first[n] ELSE first[n] \o d[down[n]]
<1> DEFINE Low(i) == {n \in D : L[n] <= i}
           Solves(i, d) == \A n \in Low(i) : d[n] = IF L[n] = 0 THEN first[n] ELSE first[n] \o d[down[n]]
           Good == {i \in Nat : \E d \in [Low(i) -> Seq(T)] : Solves(i, d)}
<1> USE DEF Descends
<1>1. 0 \in Good
  <2> DEFINE d == [n \in Low(0) |-> first[n]]
  <2>1. \A n \in Low(0) : n \in D /\ L[n] = 0
    OBVIOUS
  <2>2. d \in [Low(0) -> Seq(T)] /\ Solves(0, d)
    BY <2>1
  <2> QED
    BY <2>2
<1>2. ASSUME NEW i \in Nat, i \in Good
      PROVE  i + 1 \in Good
  <2>1. PICK d \in [Low(i) -> Seq(T)] : Solves(i, d)
    BY <1>2
  <2> DEFINE e == [n \in Low(i + 1) |-> IF n \in Low(i) THEN d[n] ELSE first[n] \o d[down[n]]]
  <2>2. \A n \in Low(i + 1) : n \in D /\ L[n] \in Nat /\ (n \notin Low(i) => L[n] = i + 1 /\ L[n] > 0)
    OBVIOUS
  <2>3. \A n \in Low(i + 1) : L[n] > 0 => down[n] \in Low(i)
    BY <2>2
  <2>4. Low(i) \subseteq Low(i + 1)
    OBVIOUS
  <2> HIDE DEF Low
  <2>5. \A n \in Low(i + 1) : e[n] \in Seq(T)
    <3> TAKE n \in Low(i + 1)
    <3>1. CASE n \in Low(i)
      BY <3>1
    <3>2. CASE n \notin Low(i)
      <4>1. first[n] \in Seq(T) /\ d[down[n]] \in Seq(T)
        BY <3>2, <2>2, <2>3
      <4> QED
        BY <4>1, <3>2, ConcatProperties
    <3> QED
      BY <3>1, <3>2
  <2>6. ASSUME NEW n \in Low(i + 1)
        PROVE  e[n] = IF L[n] = 0 THEN first[n] ELSE first[n] \o e[down[n]]
    <3>0. \A q \in Low(i + 1) : e[q] = IF q \in Low(i) THEN d[q] ELSE first[q] \o d[down[q]]
      OBVIOUS
    <3> HIDE DEF e
    <3>1. L[n] > 0 => e[down[n]] = d[down[n]]
      BY <2>3, <2>4, <3>0
    <3>4. L[n] \in Nat /\ (n \notin Low(i) => L[n] > 0 /\ L[n] # 0) /\ (L[n] # 0 => L[n] > 0)
      BY <2>2
    <3>2. CASE n \in Low(i)
      <4>1. d[n] = IF L[n] = 0 THEN first[n] ELSE first[n] \o d[down[n]]
        BY <3>2, <2>1
      <4>2. e[n] = d[n]
        BY <3>0, <3>2
      <4> QED
        BY <4>1, <4>2, <3>1, <3>4
    <3>3. CASE n \notin Low(i)
      <4>1. e[n] = first[n] \o d[down[n]]
        BY <3>0, <3>3
      <4> QED
        BY <4>1, <3>1, <3>3, <3>4
    <3> QED
      BY <3>2, <3>3
  <2> HIDE DEF e
  <2>7. e \in [Low(i + 1) -> Seq(T)]
    BY <2>5 DEF e
  <2>8. i + 1 \in Nat /\ Solves(i + 1, e)
    BY <2>6
  <2> HIDE DEF Solves
  <2> QED
    BY <2>7, <2>8
<1> HIDE DEF Good
<1>3. h \in Good
  BY <1>1, <1>2, AllNats
<1>4. PICK d \in [Low(h) -> Seq(T)] : Solves(h, d)
  BY <1>3 DEF Good
<1>5. Low(h) = D
  OBVIOUS
<1> QED
  BY <1>4, <1>5

\* _find_child_index takes the part the key belongs to.
LEMMA ChildIndexFits ==
  ASSUME NEW n, nodes[n].keys \in Seq(Int), NEW key \in Int
  PROVE  /\ ChildIndex(n, key) \in 1..(Len(nodes[n].keys) + 1)
         /\ InPart(nodes[n].keys, ChildIndex(n, key), key)
<1> DEFINE k == nodes[n].keys
           I == {i \in 1..(Len(k) + 1) : i <= Len(k) => key < k[i]}
<1>1. Len(k) \in Nat /\ \A i \in 1..Len(k) : k[i] \in Int
  BY LenProperties, ElementOfSeq
<1>2. ChildIndex(n, key) = Min(I)
  BY DEF ChildIndex
<1> HIDE DEF k
<1>3. Len(k) + 1 \in I /\ I \subseteq Nat
  BY <1>1
<1>4. Min(I) \in I /\ \A i \in I : Min(I) <= i
  BY <1>3, MinIsLeast
<1> DEFINE j == Min(I)
<1>5. j \in 1..(Len(k) + 1) /\ (j <= Len(k) => key < k[j])
  BY <1>4
<1>6. j > 1 => k[j - 1] <= key
  <2> HAVE j > 1
  <2>1. j - 1 \in 1..Len(k) /\ j - 1 <= Len(k) /\ ~(j <= j - 1)
    BY <1>1, <1>5
  <2>2. j - 1 \notin I
    BY <2>1, <1>4
  <2>3. ~(key < k[j - 1])
    BY <2>1, <2>2, <1>1
  <2> QED
    BY <2>1, <2>3, <1>1
<1> HIDE DEF j
<1> QED
  BY <1>2, <1>5, <1>6 DEF InPart, j, k

LEMMA LeafIndexFits ==
  ASSUME NEW n, nodes[n].keys \in Seq(Int), NEW key \in Int
  PROVE  /\ LeafIndex(n, key) \in 1..(Len(nodes[n].keys) + 1)
         /\ LeafIndex(n, key) <= Len(nodes[n].keys) => key <= nodes[n].keys[LeafIndex(n, key)]
         /\ \A i \in 1..Len(nodes[n].keys) : i < LeafIndex(n, key) => nodes[n].keys[i] < key
<1> DEFINE k == nodes[n].keys
           I == {i \in 1..(Len(k) + 1) : i <= Len(k) => key <= k[i]}
<1>1. Len(k) \in Nat /\ \A i \in 1..Len(k) : k[i] \in Int
  BY LenProperties, ElementOfSeq
<1>2. LeafIndex(n, key) = Min(I)
  BY DEF LeafIndex
<1> HIDE DEF k
<1>3. Len(k) + 1 \in I /\ I \subseteq Nat
  BY <1>1
<1>4. Min(I) \in I /\ \A i \in I : Min(I) <= i
  BY <1>3, MinIsLeast
<1> DEFINE j == Min(I)
<1>5. j \in 1..(Len(k) + 1) /\ (j <= Len(k) => key <= k[j])
  BY <1>4
<1>6. ASSUME NEW i \in 1..Len(k), i < j
      PROVE  k[i] < key
  <2>1. i \in 1..(Len(k) + 1) /\ ~(j <= i) /\ i <= Len(k)
    BY <1>1, <1>5, <1>6
  <2>2. i \notin I
    BY <2>1, <1>4
  <2> QED
    BY <2>1, <2>2, <1>1
<1> HIDE DEF j
<1> QED
  BY <1>2, <1>5, <1>6 DEF j, k

\* A way from node n down, child by child.
Steps == [node : Nat, at : Nat]

WayOK(way, n, D, cs, L) ==
  /\ way \in Seq(Steps) /\ Len(way) > 0 /\ way[1].node = n
  /\ \A j \in 1..Len(way) : way[j].node \in D /\ L[way[j].node] = L[n] - j + 1
  /\ \A j \in 1..(Len(way) - 1) : /\ way[j].at \in 1..Len(cs[way[j].node])
                                  /\ cs[way[j].node][way[j].at] = way[j + 1].node

LongerWay(longer, n, i, way) == longer = <<[node |-> n, at |-> i]>> \o way

\* The ith child of n is c, one level down.
Leads(D, cs, L, n, i, c) ==
  /\ D \subseteq Nat /\ L \in [D -> Nat] /\ n \in D /\ c \in D
  /\ Len(cs[n]) \in Nat /\ i \in 1..Len(cs[n]) /\ cs[n][i] = c /\ L[c] = L[n] - 1

LEMMA OneStepMore ==
  ASSUME NEW D, NEW cs, NEW L, NEW n, NEW i, NEW c, Leads(D, cs, L, n, i, c),
         NEW way, WayOK(way, c, D, cs, L),
         NEW longer, LongerWay(longer, n, i, way)
  PROVE  /\ WayOK(longer, n, D, cs, L)
         /\ Len(longer) = Len(way) + 1
         /\ \A j \in 1..Len(way) : longer[j + 1] = way[j]
<1> DEFINE s == [node |-> n, at |-> i]
<1>0. /\ D \subseteq Nat /\ L \in [D -> Nat] /\ n \in D /\ c \in D
      /\ Len(cs[n]) \in Nat /\ i \in 1..Len(cs[n]) /\ cs[n][i] = c /\ L[c] = L[n] - 1
  BY DEF Leads
<1> USE <1>0
<1>1. /\ way \in Seq(Steps) /\ Len(way) > 0 /\ way[1].node = c /\ Len(way) \in Nat
      /\ \A j \in 1..Len(way) : way[j].node \in D /\ L[way[j].node] = L[c] - j + 1
      /\ \A j \in 1..(Len(way) - 1) : /\ way[j].at \in 1..Len(cs[way[j].node])
                                      /\ cs[way[j].node][way[j].at] = way[j + 1].node
  BY LenProperties DEF WayOK
<1>2. s \in Steps /\ s.node = n /\ s.at = i
  BY DEF Steps
<1> HIDE DEF s
<1>3. <<s>> \in Seq(Steps) /\ Len(<<s>>) = 1 /\ <<s>>[1] = s
  BY <1>2
<1> DEFINE w1 == <<s>>
<1>4. longer = w1 \o way
  BY DEF LongerWay, s
<1>5. w1 \in Seq(Steps) /\ Len(w1) = 1 /\ w1[1] = s
  BY <1>3
<1> HIDE DEF w1
<1>6. /\ longer \in Seq(Steps) /\ Len(longer) = Len(w1) + Len(way)
      /\ \A j \in 1..(Len(w1) + Len(way)) : longer[j] = IF j <= Len(w1) THEN w1[j] ELSE way[j - Len(w1)]
  BY <1>1, <1>4, <1>5, ConcatProperties
<1>7. longer \in Seq(Steps) /\ Len(longer) = Len(way) + 1 /\ longer[1] = s
  BY <1>1, <1>5, <1>6
<1>8. \A j \in 1..Len(way) : longer[j + 1] = way[j]
  <2> TAKE j \in 1..Len(way)
  <2>1. j + 1 \in 1..(Len(w1) + Len(way)) /\ ~(j + 1 <= Len(w1)) /\ j + 1 - Len(w1) = j
    BY <1>1, <1>5
  <2> QED
    BY <2>1, <1>6
<1>9. ASSUME NEW j \in 1..Len(longer)
      PROVE  longer[j].node \in D /\ L[longer[j].node] = L[n] - j + 1
  <2>1. CASE j = 1
    <3>1. longer[j].node = n /\ L[n] \in Nat
      BY <2>1, <1>2, <1>7
    <3> QED
      BY <2>1, <3>1
  <2>2. CASE j > 1
    <3>1. j - 1 \in 1..Len(way) /\ (j - 1) + 1 = j
      BY <2>2, <1>1, <1>7
    <3>2. longer[j] = way[j - 1] /\ L[way[j - 1].node] = L[c] - (j - 1) + 1 /\ way[j - 1].node \in D
      BY <3>1, <1>1, <1>8
    <3> QED
      BY <3>1, <3>2
  <2> QED
    BY <2>1, <2>2
<1>10. ASSUME NEW j \in 1..(Len(longer) - 1)
       PROVE  /\ longer[j].at \in 1..Len(cs[longer[j].node])
              /\ cs[longer[j].node][longer[j].at] = longer[j + 1].node
  <2>1. CASE j = 1
    <3>1. 1 \in 1..Len(way) /\ longer[1 + 1] = way[1]
      BY <1>1, <1>8
    <3> QED
      BY <2>1, <3>1, <1>1, <1>2, <1>7
  <2>2. CASE j > 1
    <3>1. j - 1 \in 1..(Len(way) - 1) /\ (j - 1) + 1 = j /\ j \in 1..Len(way) /\ j - 1 \in 1..Len(way)
      BY <2>2, <1>1, <1>7
    <3>2. longer[j] = way[j - 1] /\ longer[j + 1] = way[j]
      BY <3>1, <1>8
    <3>3. /\ way[j - 1].at \in 1..Len(cs[way[j - 1].node])
          /\ cs[way[j - 1].node][way[j - 1].at] = way[(j - 1) + 1].node
      BY <3>1, <1>1
    <3> QED
      BY <3>1, <3>2, <3>3
  <2> QED
    BY <2>1, <2>2
<1> QED
  BY <1>1, <1>2, <1>7, <1>8, <1>9, <1>10 DEF WayOK

\* Nodes form the tree that ks and cs describe.
Describe(D, ks, cs, L) ==
  /\ D = DOMAIN nodes /\ D \subseteq Nat /\ 0 \notin D
  /\ \A n \in D : nodes[n].keys = ks[n] /\ nodes[n].children = cs[n] /\ (nodes[n].leaf <=> L[n] = 0)

DownFrom(d, key) ==
  d = [n \in DOMAIN nodes |->
        IF nodes[n].leaf THEN <<[node |-> n, at |-> 0]>>
        ELSE LET i == ChildIndex(n, key) IN
             <<[node |-> n, at |-> i]>>
               \o (IF Child(n, i) = Nil THEN <<>> ELSE d[Child(n, i)])]

\* From everywhere the way goes down to the leaf in whose territory the key is.
LEMMA WayDown ==
  ASSUME NEW D, NEW ks, NEW cs, NEW L, NEW S, Describe(D, ks, cs, L),
         TreeOK(D, root, ks, cs, L, S, 0, 0), NEW key \in Int
  PROVE  /\ WayOK(Path(key), root, D, cs, L)
         /\ L[Last(Path(key)).node] = 0 /\ key \in S[Last(Path(key)).node]
<1> DEFINE at(n) == IF L[n] = 0 THEN 0 ELSE ChildIndex(n, key)
           first == [n \in D |-> <<[node |-> n, at |-> at(n)]>>]
           down == [n \in D |-> IF L[n] = 0 THEN n ELSE cs[n][at(n)]]
<1>1. /\ D = DOMAIN nodes /\ D \subseteq Nat /\ 0 \notin D
      /\ \A n \in D : nodes[n].keys = ks[n] /\ nodes[n].children = cs[n] /\ (nodes[n].leaf <=> L[n] = 0)
  BY DEF Describe
<1>2. /\ root \in D /\ L \in [D -> Nat] /\ \A n \in D : L[n] <= L[root]
      /\ \A n \in D : L[n] > 0 =>
           /\ Len(ks[n]) > 0 /\ Len(cs[n]) = Len(ks[n]) + 1
           /\ \A j \in 1..Len(cs[n]) : cs[n][j] \in D /\ L[cs[n][j]] = L[n] - 1
  BY DEF TreeOK, Levels
<1>3. ks \in [D -> Seq(Int)] /\ cs \in [D -> Seq(Nat)]
  BY DEF TreeOK, Lists
<1>4. \A n \in D : L[n] \in Nat /\ (L[n] # 0 <=> L[n] > 0)
  BY <1>2
<1>5. ASSUME NEW n \in D, L[n] > 0
      PROVE  /\ at(n) = ChildIndex(n, key) /\ at(n) \in 1..Len(cs[n]) /\ Len(cs[n]) \in Nat
             /\ cs[n][at(n)] \in D /\ L[cs[n][at(n)]] = L[n] - 1
             /\ Child(n, at(n)) = cs[n][at(n)] /\ cs[n][at(n)] # Nil
             /\ S[cs[n][at(n)]] = {x \in S[n] : InPart(ks[n], at(n), x)} /\ InPart(ks[n], at(n), key)
  <2>1. at(n) = ChildIndex(n, key)
    BY <1>4, <1>5
  <2>2. nodes[n].keys \in Seq(Int) /\ nodes[n].keys = ks[n] /\ nodes[n].children = cs[n] /\ cs[n] \in Seq(Nat)
    BY <1>1, <1>3
  <2> HIDE DEF at
  <2>3. at(n) \in 1..(Len(ks[n]) + 1) /\ InPart(ks[n], at(n), key)
    BY <2>1, <2>2, ChildIndexFits
  <2>4. at(n) \in 1..Len(cs[n])
    BY <2>3, <1>2, <1>5
  <2>5. cs[n][at(n)] \in D /\ L[cs[n][at(n)]] = L[n] - 1
    BY <2>4, <1>2, <1>5
  <2>6. DOMAIN cs[n] = 1..Len(cs[n]) /\ Len(cs[n]) \in Nat
    BY <2>2, LenProperties
  <2>7. Child(n, at(n)) = cs[n][at(n)]
    BY <2>2, <2>4, <2>6 DEF Child
  <2>8. cs[n][at(n)] # Nil
    BY <2>5, <1>1, NilAssumption
  <2>9. S[cs[n][at(n)]] = {x \in S[n] : InPart(ks[n], at(n), x)}
    <3>1. Divided(D, root, ks, cs, L, S, 0, 0)
      BY DEF TreeOK
    <3>2. Whole(S, 0, 0, cs[n][at(n)]) = S[cs[n][at(n)]]
      BY <2>5, <1>1 DEF Whole
    <3> QED
      BY <3>1, <3>2, <2>4, <1>5 DEF Divided
  <2> QED
    BY <2>1, <2>3, <2>4, <2>5, <2>6, <2>7, <2>8, <2>9
<1>6. \A n \in D : at(n) \in Nat
  <2> SUFFICES ASSUME NEW n \in D
               PROVE  at(n) \in Nat
    OBVIOUS
  <2>1. CASE L[n] = 0
    BY <2>1
  <2>2. CASE L[n] > 0
    <3>1. at(n) \in 1..Len(cs[n]) /\ Len(cs[n]) \in Nat
      BY <2>2, <1>5
    <3> HIDE DEF at
    <3> QED
      BY <3>1
  <2> QED
    BY <2>1, <2>2, <1>4
<1>7. first \in [D -> Seq(Steps)]
  <2> SUFFICES ASSUME NEW n \in D
               PROVE  <<[node |-> n, at |-> at(n)]>> \in Seq(Steps)
    OBVIOUS
  <2>1. at(n) \in Nat /\ n \in Nat
    BY <1>1, <1>6
  <2> HIDE DEF at
  <2>2. [node |-> n, at |-> at(n)] \in Steps
    BY <2>1 DEF Steps
  <2> QED
    BY <2>2
<1>8. \A n \in D : L[n] > 0 => down[n] = cs[n][at(n)] /\ down[n] \in D /\ L[down[n]] = L[n] - 1
  <2> SUFFICES ASSUME NEW n \in D, L[n] > 0
               PROVE  down[n] = cs[n][at(n)] /\ down[n] \in D /\ L[down[n]] = L[n] - 1
    OBVIOUS
  <2>1. down[n] = cs[n][at(n)]
    BY <1>4
  <2> HIDE DEF at, down
  <2> QED
    BY <2>1, <1>5
<1>9. \A n \in D : first[n] = <<[node |-> n, at |-> at(n)]>>
  OBVIOUS
<1>10. ASSUME NEW d
       PROVE  DownFrom(d, key) <=>
                d = [n \in D |-> IF L[n] = 0 THEN first[n] ELSE first[n] \o d[down[n]]]
  <2> DEFINE A(n) == IF nodes[n].leaf THEN <<[node |-> n, at |-> 0]>>
                     ELSE LET i == ChildIndex(n, key) IN
                          <<[node |-> n, at |-> i]>>
                            \o (IF Child(n, i) = Nil THEN <<>> ELSE d[Child(n, i)])
             B(n) == IF L[n] = 0 THEN first[n] ELSE first[n] \o d[down[n]]
  <2>1. ASSUME NEW n \in D
        PROVE  A(n) = B(n)
    <3>1. CASE L[n] = 0
      BY <3>1, <1>1
    <3>2. CASE L[n] > 0
      <4>1. at(n) = ChildIndex(n, key) /\ Child(n, at(n)) = down[n] /\ Child(n, at(n)) # Nil /\ ~nodes[n].leaf
        BY <3>2, <1>1, <1>4, <1>5, <1>8
      <4> HIDE DEF at, down, first
      <4> QED
        BY <4>1, <3>2, <1>4, <1>9
    <3> QED
      BY <3>1, <3>2, <1>4
  <2> HIDE DEF A, B
  <2>2. [n \in D |-> A(n)] = [n \in D |-> B(n)]
    BY <2>1
  <2> QED
    BY <2>2, <1>1 DEF DownFrom, A, B
<1> HIDE DEF at, first, down
<1>11. \E d : DownFrom(d, key)
  <2>1. PICK d \in [D -> Seq(Steps)] :
          \A n \in D : d[n] = IF L[n] = 0 THEN first[n] ELSE first[n] \o d[down[n]]
    <3>1. \A n \in D : L[n] > 0 => down[n] \in D /\ L[down[n]] = L[n] - 1
      BY <1>8
    <3> DEFINE h == L[root]
    <3>2. h \in Nat /\ L \in [D -> Nat] /\ \A n \in D : L[n] <= h
      BY <1>2
    <3> HIDE DEF h
    <3>3. Descends(D, L, h, down, Steps, first)
      BY <3>1, <3>2, <1>7 DEF Descends
    <3> QED
      BY <3>3, DescentExists
  <2>2. d = [n \in D |-> IF L[n] = 0 THEN first[n] ELSE first[n] \o d[down[n]]]
    BY <2>1
  <2> QED
    BY <2>2, <1>10
<1> DEFINE d == CHOOSE f : DownFrom(f, key)
<1>12. DownFrom(d, key)
  BY <1>11
<1>13. Path(key) = d[root]
  BY DEF Path, DownFrom
<1> HIDE DEF d
<1>14. d = [n \in D |-> IF L[n] = 0 THEN first[n] ELSE first[n] \o d[down[n]]]
  BY <1>10, <1>12
<1>15. \A n \in D : d[n] = IF L[n] = 0 THEN first[n] ELSE first[n] \o d[down[n]]
  BY <1>14
<1> DEFINE Fine(n) == /\ WayOK(d[n], n, D, cs, L)
                      /\ L[Last(d[n]).node] = 0
                      /\ key \in S[n] => key \in S[Last(d[n]).node]
           Done == {i \in Nat : \A n \in D : L[n] <= i => Fine(n)}
<1>16. ASSUME NEW n \in D, L[n] = 0
       PROVE  Fine(n)
  <2> DEFINE s == [node |-> n, at |-> at(n)]
  <2>1. d[n] = <<s>>
    BY <1>9, <1>15, <1>16
  <2>2. s \in Steps /\ s.node = n
    BY <1>1, <1>6 DEF Steps
  <2> HIDE DEF s
  <2>3. d[n] \in Seq(Steps) /\ Len(d[n]) = 1 /\ d[n][1] = s
    BY <2>1, <2>2
  <2>4. \A j \in 1..1 : j = 1
    OBVIOUS
  <2> QED
    BY <2>2, <2>3, <2>4, <1>16 DEF WayOK, Last
<1>17. 0 \in Done
  <2>1. \A n \in D : L[n] <= 0 => L[n] = 0
    BY <1>4
  <2> HIDE DEF Fine
  <2> QED
    BY <2>1, <1>16
<1>18. ASSUME NEW i \in Nat, i \in Done
       PROVE  i + 1 \in Done
  <2> SUFFICES ASSUME NEW n \in D, L[n] <= i + 1
               PROVE  Fine(n)
    OBVIOUS
  <2>1. CASE L[n] = 0
    BY <2>1, <1>16
  <2>2. CASE L[n] > 0
    <3>1. /\ at(n) \in 1..Len(cs[n]) /\ Len(cs[n]) \in Nat
          /\ down[n] = cs[n][at(n)] /\ down[n] \in D /\ L[down[n]] = L[n] - 1
          /\ S[down[n]] = {x \in S[n] : InPart(ks[n], at(n), x)} /\ InPart(ks[n], at(n), key)
      BY <2>2, <1>5, <1>8
    <3>2. L[down[n]] <= i
      BY <3>1, <1>4
    <3>3. Fine(down[n])
      <4> HIDE DEF Fine
      <4> QED
        BY <3>1, <3>2, <1>18
    <3>4. d[n] = first[n] \o d[down[n]]
      BY <2>2, <1>4, <1>15
    <3>5. LongerWay(d[n], n, at(n), d[down[n]])
      BY <3>4, <1>9 DEF LongerWay
    <3>6. WayOK(d[down[n]], cs[n][at(n)], D, cs, L)
      BY <3>1, <3>3
    <3>7. /\ WayOK(d[n], n, D, cs, L)
          /\ Len(d[n]) = Len(d[down[n]]) + 1
          /\ \A j \in 1..Len(d[down[n]]) : d[n][j + 1] = d[down[n]][j]
      <4> DEFINE a == at(n)
                 c == cs[n][at(n)]
                 way == d[down[n]]
                 longer == d[n]
      <4>1. D \in SUBSET Nat /\ L \in [D -> Nat]
        BY <1>1, <1>2
      <4>2. Leads(D, cs, L, n, a, c)
        BY <3>1, <4>1 DEF Leads
      <4>3. LongerWay(longer, n, a, way) /\ WayOK(way, c, D, cs, L)
        BY <3>5, <3>6
      <4> HIDE DEF a, c, way, longer
      <4>4. /\ WayOK(longer, n, D, cs, L) /\ Len(longer) = Len(way) + 1
            /\ \A j \in 1..Len(way) : longer[j + 1] = way[j]
        BY <4>2, <4>3, OneStepMore
      <4> QED
        BY <4>4 DEF longer, way
    <3>8. Len(d[down[n]]) \in Nat /\ Len(d[down[n]]) > 0
      BY <3>6, LenProperties DEF WayOK
    <3>9. Last(d[n]) = Last(d[down[n]])
      BY <3>7, <3>8 DEF Last
    <3>10. key \in S[n] => key \in S[down[n]]
      BY <3>1
    <3> QED
      BY <3>3, <3>7, <3>9, <3>10
  <2> QED
    BY <2>1, <2>2, <1>4
<1> HIDE DEF Done
<1>19. L[root] \in Done
  BY <1>2, <1>17, <1>18, AllNats
<1>20. Fine(root)
  BY <1>2, <1>19 DEF Done
<1>21. S[root] = Int
  <2>1. Divided(D, root, ks, cs, L, S, 0, 0)
    BY DEF TreeOK
  <2> QED
    BY <2>1, <1>1, <1>2 DEF Divided, Whole
<1> QED
  BY <1>13, <1>20, <1>21

-----------------------------------------------------------------------------
(***************************************************************************)
(* The settled tree.  A writer changes the lists of a node one by one; the *)
(* settled tree is the one before a change whose second half is missing,   *)
(* and in a split the one that is finished already.                        *)
(***************************************************************************)
RowsOf(k) == {e[2] : e \in {f \in Entries : f[1] = k}}
Rows == {e[2] : e \in Entries}

Node == [leaf : BOOLEAN, keys : Seq(Int), values : Seq(Seq(Rows)),
         children : Seq(Nat), next : Nat \cup {Nil}]

LeafStages  == {"leaf", "value", "remove", "popkey", "popvalue", "split", "splitvalues", "link"}
InnerStages == {"parent", "child", "splitinner", "splitchildren"}
Ops == [pc : LeafStages \cup InnerStages \cup {"root"}, key : Int, row : {e[2] : e \in Entries \cup Removals},
        path : Seq(Steps), at : Nat, mid : Int, new : Nat \cup {Nil}]

Typed == nodes \in Seq(Node) /\ root \in Nat /\ op \in [Writers -> {Idle} \cup Ops]

\* Writer w has come to this point, at node n.
Doing(w, pc, n) == op[w].pc = pc /\ Here(w) = n

TreeKeys(w) ==
  [n \in DOMAIN nodes |->
    IF Doing(w, "value", n) THEN RemoveAt(nodes[n].keys, op[w].at)
    ELSE IF Doing(w, "child", n) THEN RemoveAt(nodes[n].keys, At(w))
    ELSE nodes[n].keys]

TreeValues(w) ==
  [n \in DOMAIN nodes |->
    IF Doing(w, "popvalue", n) THEN RemoveAt(nodes[n].values, op[w].at)
    ELSE IF Doing(w, "splitvalues", n) THEN Upto(nodes[n].values, Len(nodes[n].keys))
    ELSE nodes[n].values]

TreeChildren(w) ==
  [n \in DOMAIN nodes |->
    IF Doing(w, "splitchildren", n) THEN Upto(nodes[n].children, Len(nodes[n].keys) + 1)
    ELSE nodes[n].children]

TreeNext(w) ==
  [n \in DOMAIN nodes |->
    IF op[w].pc \notin {"splitvalues", "link"} THEN nodes[n].next
    ELSE IF n = Here(w) THEN op[w].new
    ELSE IF n = op[w].new THEN nodes[Here(w)].next
    ELSE nodes[n].next]

TreeLeaf == [n \in DOMAIN nodes |-> nodes[n].leaf]

\* The two halves of a split of which the parent does not know yet.
Cur(w) ==
  IF op[w].pc \in {"splitvalues", "link", "splitchildren", "root"} THEN Here(w)
  ELSE IF op[w].pc \in {"parent", "child"} THEN nodes[Here(w)].children[At(w)]
  ELSE 0
New(w) ==
  IF op[w].pc \in {"splitvalues", "link", "splitchildren", "root", "parent", "child"} THEN op[w].new ELSE 0
Middle(w) == IF New(w) = 0 THEN 0 ELSE op[w].mid

\* Every key of a leaf has the list of its rows.
LeafLists(D, ks, vs, L) ==
  /\ vs \in [D -> Seq(Seq(Rows))]
  /\ \A n \in D : L[n] = 0 =>
       /\ Len(vs[n]) = Len(ks[n])
       /\ \A i \in 1..Len(ks[n]) : ks[n][i] \in Keys /\ vs[n][i] \in Seq(RowsOf(ks[n][i]))

Shape(D, r, ks, vs, cs, xs, lf, cur, new, mid, L, S, P, N) ==
  /\ TreeOK(D, r, ks, cs, L, S, cur, new)
  /\ cur # 0 => Pending(D, r, L, S, cur, new, mid)
  /\ ChainOK({n \in D : L[n] = 0}, xs, S, P, N)
  /\ \A n \in D : lf[n] <=> L[n] = 0
  /\ LeafLists(D, ks, vs, L)

Settled(w, L, S, P, N) ==
  Shape(DOMAIN nodes, root, TreeKeys(w), TreeValues(w), TreeChildren(w), TreeNext(w), TreeLeaf,
        Cur(w), New(w), Middle(w), L, S, P, N)

\* Only a node that is about to split is over-full.
Sizes(w) ==
  \A n \in DOMAIN nodes :
    IF Doing(w, "split", n) \/ Doing(w, "splitinner", n) THEN Len(TreeKeys(w)[n]) = Order
    ELSE Len(TreeKeys(w)[n]) < Order

\* What the writer knows.
LeafWork(w, L, S) ==
  LET n == nodes[Here(w)]  o == op[w] IN
  /\ o.pc \in LeafStages => L[Here(w)] = 0
  /\ o.pc \in {"leaf", "value"} => o.key \in S[Here(w)] /\ o.key \in Keys /\ o.row \in RowsOf(o.key)
  /\ o.pc = "value" => o.at \in 1..Len(n.keys) /\ n.keys[o.at] = o.key /\ Ascending(n.keys)
  /\ o.pc = "popkey" => o.at \in 1..Len(n.values) /\ n.values[o.at] = <<>>
  /\ o.pc = "popvalue" => o.at \in 1..Len(n.values) /\ n.values[o.at] = <<>>
  /\ o.pc = "splitvalues" => Len(n.keys) <= Len(n.values)

InnerWork(w, L) ==
  LET n == nodes[Here(w)]  o == op[w] IN
  /\ o.pc \in InnerStages => L[Here(w)] > 0
  /\ o.pc \in {"parent", "child"} => At(w) \in 1..Len(n.children)
  /\ o.pc = "child" => At(w) \in 1..Len(n.keys) /\ n.keys[At(w)] = o.mid
  /\ o.pc = "splitchildren" => Len(n.keys) + 1 <= Len(n.children)
  /\ o.pc = "root" => Len(o.path) = 1

Work(w, L, S) ==
  op[w] # Idle =>
    /\ WayOK(op[w].path, root, DOMAIN nodes, TreeChildren(w), L)
    /\ LeafWork(w, L, S) /\ InnerWork(w, L)

TreeInv(w) ==
  Typed /\ \E L, S, P, N : Settled(w, L, S, P, N) /\ Sizes(w) /\ Work(w, L, S)

\* Nodes change one at a time.
LEMMA OneElement ==
  ASSUME NEW T, NEW s \in Seq(T), NEW n \in 1..Len(s), NEW x \in T, NEW s2, s2 = [s EXCEPT ![n] = x]
  PROVE  /\ s2 \in Seq(T) /\ Len(s2) = Len(s) /\ DOMAIN s2 = DOMAIN s /\ DOMAIN s = 1..Len(s)
         /\ s2[n] = x /\ \A q \in 1..Len(s) : q # n => s2[q] = s[q]
<1>1. s2 \in Seq(T) /\ Len(s2) = Len(s) /\ \A j \in 1..Len(s) : s2[j] = IF j = n THEN x ELSE s[j]
  BY ExceptSeq
<1>2. DOMAIN s2 = 1..Len(s2) /\ DOMAIN s = 1..Len(s)
  BY <1>1, LenProperties
<1> QED
  BY <1>1, <1>2

LEMMA NodeFields ==
  ASSUME NEW node \in Node
  PROVE  /\ node.leaf \in BOOLEAN /\ node.keys \in Seq(Int) /\ node.values \in Seq(Seq(Rows))
         /\ node.children \in Seq(Nat) /\ node.next \in Nat \cup {Nil}
BY DEF Node

LEMMA OpFields ==
  ASSUME NEW o \in {Idle} \cup Ops, o.pc # "idle"
  PROVE  /\ o \in Ops /\ o # Idle /\ o.pc \in LeafStages \cup InnerStages \cup {"root"}
         /\ o.key \in Int /\ o.path \in Seq(Steps) /\ o.at \in Nat /\ o.mid \in Int /\ o.new \in Nat \cup {Nil}
         /\ o.row \in {e[2] : e \in Entries \cup Removals}
BY DEF Ops, Idle

\* A way is as good in a tree that differs below its last node only.
LEMMA SameWay ==
  ASSUME NEW way, NEW r, NEW D, NEW cs, NEW L, WayOK(way, r, D, cs, L), L[r] \in Nat,
         NEW D2, NEW cs2, NEW L2, D \subseteq D2, r \in D, \A q \in D : L2[q] = L[q],
         \A q \in D : q # Last(way).node => cs2[q] = cs[q]
  PROVE  WayOK(way, r, D2, cs2, L2)
<1>1. /\ way \in Seq(Steps) /\ Len(way) > 0 /\ way[1].node = r /\ Len(way) \in Nat
      /\ \A j \in 1..Len(way) : way[j].node \in D /\ L[way[j].node] = L[r] - j + 1
      /\ \A j \in 1..(Len(way) - 1) : /\ way[j].at \in 1..Len(cs[way[j].node])
                                      /\ cs[way[j].node][way[j].at] = way[j + 1].node
  BY LenProperties DEF WayOK
<1>2. \A j \in 1..Len(way) : way[j].node \in D2 /\ L2[way[j].node] = L2[r] - j + 1
  BY <1>1
<1>3. ASSUME NEW j \in 1..(Len(way) - 1)
      PROVE  /\ way[j].at \in 1..Len(cs2[way[j].node])
             /\ cs2[way[j].node][way[j].at] = way[j + 1].node
  <2>0. j \in 1..Len(way) /\ Len(way) \in 1..Len(way) /\ L[r] - j + 1 # L[r] - Len(way) + 1
    BY <1>1
  <2>1. way[j].node \in D /\ L[way[j].node] = L[r] - j + 1 /\ L[way[Len(way)].node] = L[r] - Len(way) + 1
    BY <2>0, <1>1
  <2>2. way[j].node # Last(way).node
    BY <2>0, <2>1 DEF Last
  <2>3. cs2[way[j].node] = cs[way[j].node]
    BY <2>1, <2>2
  <2> QED
    BY <2>3, <1>1
<1> QED
  BY <1>1, <1>2, <1>3 DEF WayOK

LEMMA EndOfWay ==
  ASSUME NEW way, NEW r, NEW D, NEW cs, NEW L, WayOK(way, r, D, cs, L)
  PROVE  /\ Len(way) \in Nat /\ Len(way) > 0
         /\ Last(way) \in Steps /\ Last(way).node \in D /\ Last(way).at \in Nat
         /\ L[Last(way).node] = L[r] - Len(way) + 1
         /\ Len(way) = 1 => Last(way).node = r
<1>1. /\ way \in Seq(Steps) /\ Len(way) > 0 /\ way[1].node = r /\ Len(way) \in Nat
      /\ \A j \in 1..Len(way) : way[j].node \in D /\ L[way[j].node] = L[r] - j + 1
  BY LenProperties DEF WayOK
<1>2. Len(way) \in 1..Len(way)
  BY <1>1
<1>3. way[Len(way)] \in Steps
  BY <1>1, <1>2, ElementOfSeq
<1> QED
  BY <1>1, <1>2, <1>3 DEF Last, Steps

\* One step back.
LEMMA ShorterWay ==
  ASSUME NEW way, NEW r, NEW D, NEW cs, NEW L, WayOK(way, r, D, cs, L), Len(way) # 1,
         L[r] \in Nat
  PROVE  /\ WayOK(Front(way), r, D, cs, L) /\ Front(way) \in Seq(Steps)
         /\ Last(Front(way)).at \in 1..Len(cs[Last(Front(way)).node])
         /\ cs[Last(Front(way)).node][Last(Front(way)).at] = Last(way).node
         /\ L[Last(Front(way)).node] = L[Last(way).node] + 1
         /\ Last(Front(way)).node # Last(way).node
<1> DEFINE front == Front(way)
           l == Len(way)
<1>1. /\ way \in Seq(Steps) /\ l > 0 /\ way[1].node = r /\ l \in Nat
      /\ \A j \in 1..l : way[j].node \in D /\ L[way[j].node] = L[r] - j + 1
      /\ \A j \in 1..(l - 1) : /\ way[j].at \in 1..Len(cs[way[j].node])
                               /\ cs[way[j].node][way[j].at] = way[j + 1].node
  BY LenProperties DEF WayOK
<1>0. l \in Nat /\ l > 0 /\ l # 1
  BY <1>1
<1>2. l > 1 /\ l - 1 \in 1..(l - 1) /\ l - 1 \in 1..l /\ l \in 1..l /\ (l - 1) + 1 = l
  <2> HIDE DEF l
  <2> QED
    BY <1>0
<1>3. front \in Seq(Steps) /\ Len(front) = l - 1 /\ \A j \in 1..(l - 1) : front[j] = way[j]
  <2>1. \A j \in 1..(l - 1) : way[j] \in Steps
    BY <1>1, ElementOfSeq
  <2>2. /\ front \in Seq(Steps) /\ Len(front) = (IF 1 <= l - 1 THEN (l - 1) - 1 + 1 ELSE 0)
        /\ \A j \in 1..((l - 1) - 1 + 1) : front[j] = way[1 + j - 1]
    BY <1>1, <2>1, SubSeqProperties DEF Front
  <2> HIDE DEF front, l
  <2>3. l \in Nat /\ 1 <= l - 1 /\ (l - 1) - 1 + 1 = l - 1
    BY <1>2
  <2>4. Len(front) = l - 1
    BY <2>2, <2>3
  <2>5. \A j \in 1..(l - 1) : 1 + j - 1 = j /\ front[j] = way[1 + j - 1]
    BY <2>2, <2>3
  <2>6. \A j \in 1..(l - 1) : front[j] = way[j]
    BY <2>5
  <2> QED
    BY <2>2, <2>4, <2>6
<1> HIDE DEF front
<1>4. Last(front) = way[l - 1] /\ Last(way) = way[l]
  BY <1>1, <1>2, <1>3 DEF Last
<1> HIDE DEF l
<1>5. \A j \in 1..((l - 1) - 1) : j \in 1..(l - 1) /\ j + 1 \in 1..(l - 1) /\ j \in 1..l
  BY <1>1
<1>6. WayOK(front, r, D, cs, L)
  <2>1. front[1].node = r /\ Len(front) > 0
    BY <1>1, <1>2, <1>3
  <2>0. \A j \in 1..Len(front) : j \in 1..l /\ front[j] = way[j]
    BY <1>0, <1>3, <1>5
  <2>2. \A j \in 1..Len(front) : front[j].node \in D /\ L[front[j].node] = L[r] - j + 1
    BY <1>1, <2>0
  <2>3. \A j \in 1..(Len(front) - 1) : /\ front[j].at \in 1..Len(cs[front[j].node])
                                       /\ cs[front[j].node][front[j].at] = front[j + 1].node
    BY <1>1, <1>3, <1>5
  <2> QED
    BY <1>3, <2>1, <2>2, <2>3 DEF WayOK
<1>7. /\ way[l - 1].at \in 1..Len(cs[way[l - 1].node])
      /\ cs[way[l - 1].node][way[l - 1].at] = way[l].node
  BY <1>1, <1>2
<1>8. L[way[l - 1].node] = L[r] - (l - 1) + 1 /\ L[way[l].node] = L[r] - l + 1
  BY <1>1, <1>2
<1>9. L[way[l - 1].node] = L[way[l].node] + 1 /\ way[l - 1].node # way[l].node
  <2> DEFINE a == way[l - 1].node
             b == way[l].node
             h == L[r]
  <2>1. L[a] = h - (l - 1) + 1 /\ L[b] = h - l + 1 /\ h \in Nat /\ l \in Nat
    BY <1>0, <1>8
  <2> HIDE DEF a, b, h
  <2>2. L[a] = L[b] + 1 /\ L[b] \in Int
    BY <2>1
  <2>3. a # b
    BY <2>2
  <2> QED
    BY <2>2, <2>3 DEF a, b
<1> QED
  BY <1>3, <1>4, <1>6, <1>7, <1>9 DEF front

\* What the invariant says of the node the writer is at.
LEMMA AtWork ==
  ASSUME NEW w \in Writers, Typed, op[w].pc # "idle", NEW cs, NEW L,
         WayOK(op[w].path, root, DOMAIN nodes, cs, L)
  PROVE  /\ DOMAIN nodes = 1..Len(nodes) /\ Len(nodes) \in Nat /\ nodes \in Seq(Node)
         /\ op[w] \in Ops /\ op[w] # Idle
         /\ Here(w) \in 1..Len(nodes) /\ At(w) \in Nat /\ nodes[Here(w)] \in Node
<1>1. nodes \in Seq(Node) /\ op[w] \in {Idle} \cup Ops
  BY DEF Typed
<1>2. DOMAIN nodes = 1..Len(nodes) /\ Len(nodes) \in Nat
  BY <1>1, LenProperties
<1>3. op[w] \in Ops /\ op[w] # Idle
  BY <1>1, OpFields
<1>4. Here(w) \in DOMAIN nodes /\ At(w) \in Nat
  BY EndOfWay DEF Here, At
<1> QED
  BY <1>1, <1>2, <1>3, <1>4, ElementOfSeq

\* What the settled tree says of the lists.
LEMMA Known ==
  ASSUME NEW w, NEW L, NEW S, NEW P, NEW N, Typed, Settled(w, L, S, P, N)
  PROVE  /\ DOMAIN nodes = 1..Len(nodes) /\ Len(nodes) \in Nat /\ nodes \in Seq(Node)
         /\ DOMAIN nodes \subseteq Nat /\ 0 \notin DOMAIN nodes
         /\ \A n \in DOMAIN nodes : nodes[n] \in Node
         /\ root \in DOMAIN nodes /\ root \in Nat
         /\ L \in [DOMAIN nodes -> Nat] /\ S \in [DOMAIN nodes -> SUBSET Int]
         /\ \A n \in DOMAIN nodes : L[n] \in Nat /\ (nodes[n].leaf <=> L[n] = 0)
         /\ TreeKeys(w) \in [DOMAIN nodes -> Seq(Int)]
         /\ TreeChildren(w) \in [DOMAIN nodes -> Seq(Nat)]
         /\ TreeValues(w) \in [DOMAIN nodes -> Seq(Seq(Rows))]
<1>1. nodes \in Seq(Node) /\ root \in Nat
  BY DEF Typed
<1>2. DOMAIN nodes = 1..Len(nodes) /\ Len(nodes) \in Nat
  BY <1>1, LenProperties
<1>3. DOMAIN nodes \subseteq Nat /\ 0 \notin DOMAIN nodes
  BY <1>2
<1>4. \A n \in DOMAIN nodes : nodes[n] \in Node
  BY <1>1, <1>2, ElementOfSeq
<1>5. root \in DOMAIN nodes /\ L \in [DOMAIN nodes -> Nat] /\ S \in [DOMAIN nodes -> SUBSET Int]
  BY DEF Settled, Shape, TreeOK, Levels, Disjoint
<1>6. \A n \in DOMAIN nodes : nodes[n].leaf <=> L[n] = 0
  BY DEF Settled, Shape, TreeLeaf
<1>7. TreeKeys(w) \in [DOMAIN nodes -> Seq(Int)] /\ TreeChildren(w) \in [DOMAIN nodes -> Seq(Nat)]
  BY DEF Settled, Shape, TreeOK, Lists
<1>8. TreeValues(w) \in [DOMAIN nodes -> Seq(Seq(Rows))]
  BY DEF Settled, Shape, LeafLists
<1> QED
  BY <1>1, <1>2, <1>3, <1>4, <1>5, <1>6, <1>7, <1>8

LEMMA OpChanges ==
  ASSUME NEW w \in Writers, Typed, NEW o \in {Idle} \cup Ops, op' = [op EXCEPT ![w] = o]
  PROVE  op' \in [Writers -> {Idle} \cup Ops] /\ op'[w] = o
BY DEF Typed

LEMMA Moves ==
  ASSUME NEW w \in Writers, Typed, op[w] \in Ops, NEW pc \in LeafStages \cup InnerStages \cup {"root"}, Go(w, pc)
  PROVE  /\ op' \in [Writers -> {Idle} \cup Ops] /\ op'[w] \in Ops
         /\ op'[w] = [op[w] EXCEPT !.pc = pc] /\ op'[w].pc = pc /\ op'[w].key = op[w].key
         /\ op'[w].row = op[w].row /\ op'[w].path = op[w].path /\ op'[w].at = op[w].at
         /\ op'[w].mid = op[w].mid /\ op'[w].new = op[w].new
         /\ Here(w)' = Here(w) /\ At(w)' = At(w)
<1> DEFINE o == [op[w] EXCEPT !.pc = pc]
<1>1. /\ o \in Ops /\ o.pc = pc /\ o.key = op[w].key /\ o.row = op[w].row /\ o.path = op[w].path
      /\ o.at = op[w].at /\ o.mid = op[w].mid /\ o.new = op[w].new
  BY DEF Ops
<1>2. op' = [op EXCEPT ![w] = o]
  BY DEF Go
<1> HIDE DEF o
<1>3. op' \in [Writers -> {Idle} \cup Ops] /\ op'[w] = o
  BY <1>1, <1>2, OpChanges
<1> QED
  BY <1>1, <1>3 DEF Here, At, o

LEMMA Rests ==
  ASSUME NEW w \in Writers, Typed, Finish(w)
  PROVE  op' \in [Writers -> {Idle} \cup Ops] /\ op'[w] = Idle /\ op'[w].pc = "idle"
<1>1. Idle \in {Idle} \cup Ops
  OBVIOUS
<1>2. op' \in [Writers -> {Idle} \cup Ops] /\ op'[w] = Idle
  BY <1>1, OpChanges DEF Finish
<1> QED
  BY <1>2 DEF Idle

\* Where no list is half changed, the settled tree is the nodes as they are.
Plain == {"idle", "leaf", "remove", "popkey", "split", "splitinner"}

LEMMA PlainTree ==
  ASSUME NEW w, op[w].pc \in Plain
  PROVE  /\ TreeKeys(w) = [n \in DOMAIN nodes |-> nodes[n].keys]
         /\ TreeValues(w) = [n \in DOMAIN nodes |-> nodes[n].values]
         /\ TreeChildren(w) = [n \in DOMAIN nodes |-> nodes[n].children]
         /\ TreeNext(w) = [n \in DOMAIN nodes |-> nodes[n].next]
         /\ Cur(w) = 0 /\ New(w) = 0 /\ Middle(w) = 0
BY DEF Plain, TreeKeys, TreeValues, TreeChildren, TreeNext, Cur, New, Middle, Doing

LEMMA PlainTreeNext ==
  ASSUME NEW w, op'[w].pc \in Plain
  PROVE  /\ TreeKeys(w)' = [n \in DOMAIN nodes' |-> nodes'[n].keys]
         /\ TreeValues(w)' = [n \in DOMAIN nodes' |-> nodes'[n].values]
         /\ TreeChildren(w)' = [n \in DOMAIN nodes' |-> nodes'[n].children]
         /\ TreeNext(w)' = [n \in DOMAIN nodes' |-> nodes'[n].next]
         /\ Cur(w)' = 0 /\ New(w)' = 0 /\ Middle(w)' = 0
BY DEF Plain, TreeKeys, TreeValues, TreeChildren, TreeNext, Cur, New, Middle, Doing

\* A call finds the way to the leaf of its key.
LEMMA CallKeeps ==
  ASSUME NEW w \in Writers, Typed, NEW L, NEW S, NEW P, NEW N, Settled(w, L, S, P, N), Sizes(w),
         NEW e \in Entries \cup Removals, NEW pc \in {"leaf", "remove"}, pc = "leaf" => e \in Entries,
         Call(w, e, pc)
  PROVE  /\ Typed' /\ Settled(w, L, S, P, N)' /\ Sizes(w)' /\ Work(w, L, S)'
         /\ TreeKeys(w)' = TreeKeys(w) /\ TreeValues(w)' = TreeValues(w)
<1> DEFINE o == [pc |-> pc, key |-> e[1], row |-> e[2], path |-> Path(e[1]), at |-> 0, mid |-> 0, new |-> Nil]
           D == DOMAIN nodes
           key == e[1]
<1>1. op[w] = Idle /\ op' = [op EXCEPT ![w] = o] /\ nodes' = nodes /\ root' = root
  BY DEF Call
<1>2. op[w].pc \in Plain
  BY <1>1 DEF Idle, Plain
<1>3. key \in Keys /\ key \in Int
  BY KeysAssumption
<1>4. /\ TreeKeys(w) = [n \in D |-> nodes[n].keys] /\ TreeValues(w) = [n \in D |-> nodes[n].values]
      /\ TreeChildren(w) = [n \in D |-> nodes[n].children] /\ TreeNext(w) = [n \in D |-> nodes[n].next]
      /\ Cur(w) = 0 /\ New(w) = 0 /\ Middle(w) = 0
  BY <1>2, PlainTree
<1>5. /\ WayOK(Path(key), root, D, TreeChildren(w), L)
      /\ L[Last(Path(key)).node] = 0 /\ key \in S[Last(Path(key)).node]
  <2>1. TreeOK(D, root, TreeKeys(w), TreeChildren(w), L, S, 0, 0)
    BY <1>4 DEF Settled, Shape
  <2>2. Describe(D, TreeKeys(w), TreeChildren(w), L)
    BY <1>4, Known DEF Describe
  <2> QED
    BY <2>1, <2>2, <1>3, WayDown
<1>6. o \in Ops /\ o.pc = pc /\ o.key = key /\ o.row = e[2] /\ o.path = Path(key)
  <2>1. Path(key) \in Seq(Steps)
    BY <1>5 DEF WayOK
  <2> QED
    BY <2>1, <1>3 DEF Ops, LeafStages
<1> HIDE DEF o
<1>7. op' \in [Writers -> {Idle} \cup Ops] /\ op'[w] = o
  BY <1>1, <1>6, OpChanges
<1>8. op'[w].pc \in Plain
  BY <1>6, <1>7 DEF Plain
<1>9. /\ TreeKeys(w)' = TreeKeys(w) /\ TreeValues(w)' = TreeValues(w) /\ TreeLeaf' = TreeLeaf
      /\ TreeChildren(w)' = TreeChildren(w) /\ TreeNext(w)' = TreeNext(w)
      /\ Cur(w)' = Cur(w) /\ New(w)' = New(w) /\ Middle(w)' = Middle(w)
  BY <1>1, <1>4, <1>8, PlainTreeNext DEF TreeLeaf
<1>10. Typed'
  BY <1>1, <1>7 DEF Typed
<1>11. Settled(w, L, S, P, N)'
  BY <1>1, <1>9 DEF Settled
<1>12. Sizes(w)'
  BY <1>1, <1>2, <1>6, <1>7, <1>9 DEF Sizes, Doing, Plain, Idle
<1>13. Here(w)' = Last(Path(key)).node
  BY <1>6, <1>7 DEF Here
<1>14. Work(w, L, S)'
  <2>1. WayOK(op'[w].path, root', DOMAIN nodes', TreeChildren(w)', L)
    BY <1>1, <1>5, <1>6, <1>7, <1>9
  <2>2. pc = "leaf" => e[2] \in RowsOf(key)
    BY DEF RowsOf
  <2>3. op'[w].pc = pc /\ op'[w].key = key /\ op'[w].row = e[2]
    BY <1>6, <1>7
  <2>4. LeafWork(w, L, S)'
    BY <2>2, <2>3, <1>3, <1>5, <1>13 DEF LeafWork
  <2>5. InnerWork(w, L)'
    BY <2>3 DEF InnerWork, InnerStages
  <2> QED
    BY <2>1, <2>4, <2>5 DEF Work
<1> QED
  BY <1>9, <1>10, <1>11, <1>12, <1>14

\* Where _leaf_insert finds a key, or puts it.
LEMMA KnownKey ==
  ASSUME NEW n, nodes[n].keys \in Seq(Int), Ascending(nodes[n].keys), NEW key \in Int, Has(n, key)
  PROVE  LeafIndex(n, key) \in 1..Len(nodes[n].keys) /\ nodes[n].keys[LeafIndex(n, key)] = key
<1> DEFINE keys == nodes[n].keys
           i == LeafIndex(n, key)
<1>1. keys \in Seq(Int) /\ Len(keys) \in Nat /\ DOMAIN keys = 1..Len(keys) /\ \A j \in 1..Len(keys) : keys[j] \in Int
  BY LenProperties, ElementOfSeq
<1>2. PICK j \in 1..Len(keys) : keys[j] = key
  BY <1>1 DEF Has
<1>3. /\ i \in 1..(Len(keys) + 1) /\ (i <= Len(keys) => key <= keys[i])
      /\ \A a \in 1..Len(keys) : a < i => keys[a] < key
  BY LeafIndexFits
<1>4. \A a, b \in 1..Len(keys) : a < b => keys[a] < keys[b]
  BY DEF Ascending
<1> HIDE DEF i, keys
<1>5. ~(j < i)
  BY <1>1, <1>2, <1>3
<1>6. i \in 1..Len(keys) /\ i <= j
  BY <1>1, <1>2, <1>3, <1>5
<1>7. key <= keys[i] /\ (i < j => keys[i] < keys[j]) /\ keys[i] \in Int
  BY <1>1, <1>2, <1>3, <1>4, <1>6
<1> QED
  BY <1>1, <1>2, <1>6, <1>7 DEF i, keys

LEMMA NewKey ==
  ASSUME NEW n, nodes[n].keys \in Seq(Int), NEW key \in Int, ~Has(n, key)
  PROVE  /\ LeafIndex(n, key) \in 1..(Len(nodes[n].keys) + 1)
         /\ LeafIndex(n, key) > 1 => nodes[n].keys[LeafIndex(n, key) - 1] < key
         /\ LeafIndex(n, key) <= Len(nodes[n].keys) => key < nodes[n].keys[LeafIndex(n, key)]
<1> DEFINE keys == nodes[n].keys
           i == LeafIndex(n, key)
<1>1. keys \in Seq(Int) /\ Len(keys) \in Nat /\ DOMAIN keys = 1..Len(keys) /\ \A j \in 1..Len(keys) : keys[j] \in Int
  BY LenProperties, ElementOfSeq
<1>2. \A j \in 1..Len(keys) : keys[j] # key
  BY <1>1 DEF Has
<1>3. /\ i \in 1..(Len(keys) + 1) /\ (i <= Len(keys) => key <= keys[i])
      /\ \A a \in 1..Len(keys) : a < i => keys[a] < key
  BY LeafIndexFits
<1> HIDE DEF i, keys
<1>4. i > 1 => i - 1 \in 1..Len(keys) /\ i - 1 < i
  BY <1>1, <1>3
<1>5. i <= Len(keys) => i \in 1..Len(keys) /\ keys[i] \in Int /\ keys[i] # key
  BY <1>1, <1>2, <1>3
<1> QED
  BY <1>3, <1>4, <1>5 DEF i, keys

\* A leaf that has its own keys only, each with a list of its own rows.
GoodLeaf(keys, values, T) ==
  /\ keys \in Seq(Int) /\ Ascending(keys) /\ values \in Seq(Seq(Rows)) /\ Len(values) = Len(keys)
  /\ \A i \in 1..Len(keys) : keys[i] \in T /\ keys[i] \in Keys /\ values[i] \in Seq(RowsOf(keys[i]))

LEMMA LeavesAreGood ==
  ASSUME NEW w, NEW L, NEW S, NEW P, NEW N, Typed, Settled(w, L, S, P, N), NEW n \in DOMAIN nodes, L[n] = 0
  PROVE  GoodLeaf(TreeKeys(w)[n], TreeValues(w)[n], S[n])
<1>1. TreeKeys(w)[n] \in Seq(Int) /\ TreeValues(w)[n] \in Seq(Seq(Rows))
  BY Known
<1>2. Ascending(TreeKeys(w)[n]) /\ \A i \in 1..Len(TreeKeys(w)[n]) : TreeKeys(w)[n][i] \in S[n]
  BY DEF Settled, Shape, TreeOK, Ordered
<1>3. /\ Len(TreeValues(w)[n]) = Len(TreeKeys(w)[n])
      /\ \A i \in 1..Len(TreeKeys(w)[n]) :
           TreeKeys(w)[n][i] \in Keys /\ TreeValues(w)[n][i] \in Seq(RowsOf(TreeKeys(w)[n][i]))
  BY DEF Settled, Shape, LeafLists
<1> QED
  BY <1>1, <1>2, <1>3 DEF GoodLeaf

\* A leaf changes; the rest of the tree stays.
LEMMA NewLeaf ==
  ASSUME NEW D, NEW r, NEW ks, NEW vs, NEW cs, NEW xs, NEW lf, NEW L, NEW S, NEW P, NEW N,
         Shape(D, r, ks, vs, cs, xs, lf, 0, 0, 0, L, S, P, N),
         NEW n \in D, L[n] = 0, NEW keys, NEW values, GoodLeaf(keys, values, S[n]),
         NEW ks2, ks2 = [ks EXCEPT ![n] = keys], NEW vs2, vs2 = [vs EXCEPT ![n] = values]
  PROVE  Shape(D, r, ks2, vs2, cs, xs, lf, 0, 0, 0, L, S, P, N)
<1>1. TreeOK(D, r, ks, cs, L, S, 0, 0) /\ LeafLists(D, ks, vs, L)
  BY DEF Shape
<1>2. /\ keys \in Seq(Int) /\ Ascending(keys) /\ values \in Seq(Seq(Rows)) /\ Len(values) = Len(keys)
      /\ \A i \in 1..Len(keys) : keys[i] \in S[n] /\ keys[i] \in Keys /\ values[i] \in Seq(RowsOf(keys[i]))
  BY DEF GoodLeaf
<1>3. TreeOK(D, r, ks2, cs, L, S, 0, 0)
  BY <1>1, <1>2, LeafKeysAreFree
<1>4. ks \in [D -> Seq(Int)] /\ vs \in [D -> Seq(Seq(Rows))]
  BY <1>1 DEF TreeOK, Lists, LeafLists
<1>5. LeafLists(D, ks2, vs2, L)
  <2>1. vs2 \in [D -> Seq(Seq(Rows))]
    BY <1>2, <1>4
  <2>2. ASSUME NEW q \in D, L[q] = 0
        PROVE  /\ Len(vs2[q]) = Len(ks2[q])
               /\ \A i \in 1..Len(ks2[q]) : ks2[q][i] \in Keys /\ vs2[q][i] \in Seq(RowsOf(ks2[q][i]))
    <3>1. CASE q = n
      <4>1. ks2[q] = keys /\ vs2[q] = values
        BY <3>1, <1>4
      <4> QED
        BY <4>1, <1>2
    <3>2. CASE q # n
      <4>1. ks2[q] = ks[q] /\ vs2[q] = vs[q]
        BY <3>2, <1>4
      <4> QED
        BY <4>1, <2>2, <1>1 DEF LeafLists
    <3> QED
      BY <3>1, <3>2
  <2> QED
    BY <2>1, <2>2 DEF LeafLists
<1> QED
  BY <1>3, <1>5 DEF Shape

\* In these stages only the lists of a leaf are half changed.
LeafOnly == Plain \cup {"value", "popvalue"}

LEMMA LeafOnlyTree ==
  ASSUME NEW w, op[w].pc \in LeafOnly
  PROVE  /\ TreeChildren(w) = [n \in DOMAIN nodes |-> nodes[n].children]
         /\ TreeNext(w) = [n \in DOMAIN nodes |-> nodes[n].next]
         /\ Cur(w) = 0 /\ New(w) = 0 /\ Middle(w) = 0
BY DEF LeafOnly, Plain, TreeChildren, TreeNext, Cur, New, Middle, Doing

LEMMA LeafOnlyTreeNext ==
  ASSUME NEW w, op'[w].pc \in LeafOnly
  PROVE  /\ TreeChildren(w)' = [n \in DOMAIN nodes' |-> nodes'[n].children]
         /\ TreeNext(w)' = [n \in DOMAIN nodes' |-> nodes'[n].next]
         /\ Cur(w)' = 0 /\ New(w)' = 0 /\ Middle(w)' = 0
BY DEF LeafOnly, Plain, TreeChildren, TreeNext, Cur, New, Middle, Doing

\* node replaces the leaf the writer is at.
LeafReplaced(w, node) ==
  /\ node \in Node /\ nodes' = [nodes EXCEPT ![Here(w)] = node] /\ root' = root
  /\ node.leaf /\ node.children = nodes[Here(w)].children /\ node.next = nodes[Here(w)].next

\* Its lists in the settled tree are then these, and the writer stays there.
LeafSettles(w, keys, values) ==
  /\ TreeKeys(w)'[Here(w)] = keys /\ TreeValues(w)'[Here(w)] = values
  /\ op' \in [Writers -> {Idle} \cup Ops] /\ op'[w].pc \in LeafOnly \ {"splitinner"}
  /\ op'[w].pc # "idle" => Here(w)' = Here(w) /\ op'[w].path = op[w].path
  /\ IF op'[w].pc = "split" THEN Len(keys) = Order ELSE Len(keys) < Order

LEMMA LeafStep ==
  ASSUME NEW w \in Writers, Typed, NEW L, NEW S, NEW P, NEW N,
         Settled(w, L, S, P, N), Sizes(w), Work(w, L, S),
         op[w].pc \in (LeafOnly \cap LeafStages) \ {"split"},
         NEW node, LeafReplaced(w, node),
         NEW keys, NEW values, GoodLeaf(keys, values, S[Here(w)]), LeafSettles(w, keys, values)
  PROVE  /\ Typed' /\ Settled(w, L, S, P, N)' /\ Sizes(w)'
         /\ LeafWork(w, L, S)' => Work(w, L, S)'
         /\ TreeKeys(w)' = [TreeKeys(w) EXCEPT ![Here(w)] = keys]
         /\ TreeValues(w)' = [TreeValues(w) EXCEPT ![Here(w)] = values]
<1> DEFINE n == Here(w)
           D == DOMAIN nodes
<1>1. op[w].pc \in LeafOnly /\ op[w].pc # "idle" /\ op[w].pc \in LeafStages
  BY DEF LeafStages
<1>2. op[w] # Idle
  BY <1>1 DEF Idle
<1>3. WayOK(op[w].path, root, D, TreeChildren(w), L) /\ L[n] = 0
  BY <1>1, <1>2 DEF Work, LeafWork
<1>4. D = 1..Len(nodes) /\ nodes \in Seq(Node) /\ n \in 1..Len(nodes)
  BY <1>1, <1>3, AtWork
<1>5. /\ node \in Node /\ nodes' = [nodes EXCEPT ![n] = node] /\ root' = root
      /\ node.leaf /\ node.children = nodes[n].children /\ node.next = nodes[n].next
  BY DEF LeafReplaced
<1>6. /\ TreeKeys(w)'[n] = keys /\ TreeValues(w)'[n] = values
      /\ op' \in [Writers -> {Idle} \cup Ops] /\ op'[w].pc \in LeafOnly /\ op'[w].pc # "splitinner"
      /\ op'[w].pc # "idle" => Here(w)' = n /\ op'[w].path = op[w].path
      /\ IF op'[w].pc = "split" THEN Len(keys) = Order ELSE Len(keys) < Order
  BY DEF LeafSettles
<1> HIDE DEF n
<1>7. /\ nodes' \in Seq(Node) /\ DOMAIN nodes' = D /\ nodes'[n] = node
      /\ \A q \in D : q # n => nodes'[q] = nodes[q]
  BY <1>4, <1>5, OneElement
<1>8. Typed'
  BY <1>5, <1>6, <1>7 DEF Typed
<1>9. \A q \in D : /\ nodes'[q].children = nodes[q].children /\ nodes'[q].next = nodes[q].next
                   /\ nodes'[q].leaf = nodes[q].leaf
  <2>1. nodes[n].leaf = TRUE /\ node.leaf = TRUE
    BY <1>3, <1>4, <1>5, Known, NodeFields
  <2> QED
    BY <2>1, <1>5, <1>7
<1>10. /\ TreeChildren(w)' = TreeChildren(w) /\ TreeNext(w)' = TreeNext(w) /\ TreeLeaf' = TreeLeaf
       /\ Cur(w) = 0 /\ New(w) = 0 /\ Middle(w) = 0
       /\ Cur(w)' = 0 /\ New(w)' = 0 /\ Middle(w)' = 0
  <2>1. /\ TreeChildren(w) = [q \in D |-> nodes[q].children] /\ TreeNext(w) = [q \in D |-> nodes[q].next]
        /\ Cur(w) = 0 /\ New(w) = 0 /\ Middle(w) = 0
    BY <1>1, LeafOnlyTree
  <2>2. /\ TreeChildren(w)' = [q \in D |-> nodes'[q].children] /\ TreeNext(w)' = [q \in D |-> nodes'[q].next]
        /\ Cur(w)' = 0 /\ New(w)' = 0 /\ Middle(w)' = 0
    BY <1>6, <1>7, LeafOnlyTreeNext
  <2>3. TreeLeaf' = TreeLeaf
    BY <1>7, <1>9 DEF TreeLeaf
  <2> QED
    BY <2>1, <2>2, <2>3, <1>9
<1>11. ASSUME NEW q \in D, q # n
       PROVE  TreeKeys(w)'[q] = TreeKeys(w)[q] /\ TreeValues(w)'[q] = TreeValues(w)[q]
  <2>1. \A pc : ~Doing(w, pc, q)
    BY <1>11 DEF Doing, n
  <2>2. \A pc : pc # "idle" => ~Doing(w, pc, q)'
    BY <1>6, <1>11 DEF Doing
  <2>3. TreeKeys(w)[q] = nodes[q].keys /\ TreeValues(w)[q] = nodes[q].values
    BY <2>1 DEF TreeKeys, TreeValues
  <2>4. TreeKeys(w)'[q] = nodes'[q].keys /\ TreeValues(w)'[q] = nodes'[q].values
    BY <2>2, <1>7 DEF TreeKeys, TreeValues
  <2> QED
    BY <2>3, <2>4, <1>7, <1>11
<1>12. /\ TreeKeys(w)' = [TreeKeys(w) EXCEPT ![n] = keys] /\ TreeValues(w)' = [TreeValues(w) EXCEPT ![n] = values]
  <2> DEFINE A == TreeKeys(w)
             B == TreeKeys(w)'
             E == TreeValues(w)
             F == TreeValues(w)'
  <2>1. A = [q \in D |-> A[q]] /\ E = [q \in D |-> E[q]]
    BY DEF TreeKeys, TreeValues
  <2>2. B = [q \in D |-> B[q]] /\ F = [q \in D |-> F[q]]
    BY <1>7 DEF TreeKeys, TreeValues
  <2>3. B[n] = keys /\ F[n] = values /\ \A q \in D : q # n => B[q] = A[q] /\ F[q] = E[q]
    BY <1>6, <1>11
  <2> HIDE DEF A, B, E, F
  <2>4. B = [A EXCEPT ![n] = keys] /\ F = [E EXCEPT ![n] = values]
    BY <2>1, <2>2, <2>3
  <2> QED
    BY <2>4 DEF A, B, E, F
<1>13. Settled(w, L, S, P, N)'
  <2>1. Shape(D, root, TreeKeys(w), TreeValues(w), TreeChildren(w), TreeNext(w), TreeLeaf, 0, 0, 0, L, S, P, N)
    BY <1>10 DEF Settled
  <2>2. GoodLeaf(keys, values, S[n])
    BY DEF n
  <2>3. Shape(D, root, TreeKeys(w)', TreeValues(w)', TreeChildren(w), TreeNext(w), TreeLeaf, 0, 0, 0, L, S, P, N)
    BY <2>1, <2>2, <1>3, <1>4, <1>12, NewLeaf
  <2> QED
    BY <2>3, <1>5, <1>7, <1>10 DEF Settled
<1>14. Sizes(w)'
  <2> SUFFICES ASSUME NEW q \in D
               PROVE  IF Doing(w, "split", q)' \/ Doing(w, "splitinner", q)' THEN Len(TreeKeys(w)'[q]) = Order
                      ELSE Len(TreeKeys(w)'[q]) < Order
    BY <1>7 DEF Sizes
  <2>1. CASE q = n
    <3>1. ~Doing(w, "splitinner", q)' /\ (Doing(w, "split", q)' <=> op'[w].pc = "split")
      BY <2>1, <1>6 DEF Doing
    <3> QED
      BY <2>1, <3>1, <1>6
  <2>2. CASE q # n
    <3>1. ~Doing(w, "splitinner", q)' /\ ~Doing(w, "split", q)'
      BY <2>2, <1>6 DEF Doing
    <3>2. ~Doing(w, "splitinner", q) /\ ~Doing(w, "split", q)
      BY <2>2 DEF Doing, n
    <3> QED
      BY <2>2, <3>1, <3>2, <1>11 DEF Sizes
  <2> QED
    BY <2>1, <2>2
<1>15. LeafWork(w, L, S)' => Work(w, L, S)'
  <2>1. op'[w] # Idle => op'[w].pc # "idle"
    BY <1>6, OpFields DEF Ops, LeafStages, InnerStages
  <2>2. op'[w].pc # "idle" => WayOK(op'[w].path, root', DOMAIN nodes', TreeChildren(w)', L)
    BY <1>3, <1>5, <1>6, <1>7, <1>10
  <2>3. InnerWork(w, L)'
    BY <1>6 DEF InnerWork, InnerStages, LeafOnly, Plain
  <2> QED
    BY <2>1, <2>2, <2>3 DEF Work
<1> QED
  BY <1>8, <1>12, <1>13, <1>14, <1>15 DEF n

LEMMA LeafContext ==
  ASSUME NEW w \in Writers, Typed, NEW L, NEW S, NEW P, NEW N, Settled(w, L, S, P, N), Work(w, L, S),
         op[w].pc \in LeafStages
  PROVE  /\ op[w] \in Ops /\ op[w].key \in Int /\ op[w].at \in Nat /\ op[w].mid \in Int
         /\ op[w].new \in Nat \cup {Nil} /\ op[w].path \in Seq(Steps)
         /\ DOMAIN nodes = 1..Len(nodes) /\ Len(nodes) \in Nat /\ nodes \in Seq(Node)
         /\ Here(w) \in DOMAIN nodes /\ L[Here(w)] = 0 /\ LeafWork(w, L, S)
         /\ WayOK(op[w].path, root, DOMAIN nodes, TreeChildren(w), L)
         /\ nodes[Here(w)] \in Node /\ nodes[Here(w)].leaf = TRUE /\ nodes[Here(w)].keys \in Seq(Int)
         /\ nodes[Here(w)].values \in Seq(Seq(Rows)) /\ nodes[Here(w)].next \in Nat \cup {Nil}
<1>1. op[w].pc # "idle" /\ op[w] # Idle
  BY DEF LeafStages, Idle
<1>2. WayOK(op[w].path, root, DOMAIN nodes, TreeChildren(w), L) /\ LeafWork(w, L, S)
  BY <1>1 DEF Work
<1>3. L[Here(w)] = 0
  BY <1>2 DEF LeafWork
<1>4. /\ DOMAIN nodes = 1..Len(nodes) /\ Len(nodes) \in Nat /\ nodes \in Seq(Node)
      /\ op[w] \in Ops /\ Here(w) \in 1..Len(nodes) /\ nodes[Here(w)] \in Node
  BY <1>1, <1>2, AtWork
<1>5. nodes[Here(w)].leaf = TRUE
  BY <1>3, <1>4, Known, NodeFields
<1>6. /\ nodes[Here(w)].keys \in Seq(Int)
      /\ nodes[Here(w)].values \in Seq(Seq(Rows)) /\ nodes[Here(w)].next \in Nat \cup {Nil}
  BY <1>4, NodeFields
<1>7. /\ op[w].key \in Int /\ op[w].at \in Nat /\ op[w].mid \in Int
      /\ op[w].new \in Nat \cup {Nil} /\ op[w].path \in Seq(Steps)
  BY <1>4 DEF Ops
<1> QED
  BY <1>2, <1>3, <1>4, <1>5, <1>6, <1>7

\* One list of a list of lists changes.
LEMMA OneValue ==
  ASSUME NEW keys, NEW values, NEW T, GoodLeaf(keys, values, T), NEW i \in 1..Len(values),
         NEW v \in Seq(RowsOf(keys[i])), NEW values2, values2 = [values EXCEPT ![i] = v]
  PROVE  GoodLeaf(keys, values2, T)
<1>1. /\ keys \in Seq(Int) /\ Ascending(keys) /\ values \in Seq(Seq(Rows)) /\ Len(values) = Len(keys)
      /\ \A j \in 1..Len(keys) : keys[j] \in T /\ keys[j] \in Keys /\ values[j] \in Seq(RowsOf(keys[j]))
  BY DEF GoodLeaf
<1>2. v \in Seq(Rows)
  <2>1. RowsOf(keys[i]) \subseteq Rows
    BY DEF RowsOf, Rows
  <2> QED
    BY <2>1, SeqMonotonic
<1>3. /\ values2 \in Seq(Seq(Rows)) /\ Len(values2) = Len(values)
      /\ values2[i] = v /\ \A j \in 1..Len(values) : j # i => values2[j] = values[j]
  BY <1>1, <1>2, OneElement
<1>4. \A j \in 1..Len(keys) : values2[j] \in Seq(RowsOf(keys[j]))
  BY <1>1, <1>3
<1> QED
  BY <1>1, <1>3, <1>4 DEF GoodLeaf

NewValue(vs2, vs, n, i, v) == vs2 = [vs EXCEPT ![n] = [vs[n] EXCEPT ![i] = v]]

\* One row more under a key that is there.
LEMMA LeafRowKeeps ==
  ASSUME NEW w \in Writers, Typed, NEW L, NEW S, NEW P, NEW N,
         Settled(w, L, S, P, N), Sizes(w), Work(w, L, S), LeafRow(w)
  PROVE  /\ Typed' /\ Settled(w, L, S, P, N)' /\ Sizes(w)' /\ Work(w, L, S)'
         /\ L[Here(w)] = 0 /\ Here(w) \in DOMAIN nodes /\ op[w].row \in RowsOf(op[w].key) /\ op[w].key \in Keys
         /\ \E i \in 1..Len(TreeKeys(w)[Here(w)]) :
              /\ TreeKeys(w)[Here(w)][i] = op[w].key
              /\ TreeKeys(w)' = TreeKeys(w)
              /\ NewValue(TreeValues(w)', TreeValues(w), Here(w), i,
                          Append(TreeValues(w)[Here(w)][i], op[w].row))
<1> DEFINE n == Here(w)
           key == op[w].key
           row == op[w].row
           i == LeafIndex(n, key)
           keys == nodes[n].keys
           values == nodes[n].values
           values2 == [values EXCEPT ![i] = Append(@, row)]
           node == [nodes[n] EXCEPT !.values = values2]
<1>1. op[w].pc = "leaf" /\ Has(n, key) /\ nodes' = [nodes EXCEPT ![n] = node] /\ Finish(w) /\ root' = root
  BY DEF LeafRow, Change
<1>2. op[w].pc \in LeafStages /\ op[w].pc \in Plain /\ op[w].pc \in (LeafOnly \cap LeafStages) \ {"split"}
  BY <1>1 DEF LeafStages, Plain, LeafOnly
<1>3. /\ key \in Int /\ n \in DOMAIN nodes /\ L[n] = 0 /\ LeafWork(w, L, S)
      /\ nodes[n] \in Node /\ nodes[n].leaf = TRUE
  BY <1>2, LeafContext
<1>4. key \in Keys /\ row \in RowsOf(key)
  BY <1>1, <1>3 DEF LeafWork
<1>5. TreeKeys(w)[n] = keys /\ TreeValues(w)[n] = values
  BY <1>2, <1>3, PlainTree
<1>6. GoodLeaf(keys, values, S[n])
  BY <1>3, <1>5, LeavesAreGood
<1>7. /\ keys \in Seq(Int) /\ Ascending(keys) /\ values \in Seq(Seq(Rows)) /\ Len(values) = Len(keys)
      /\ \A j \in 1..Len(keys) : values[j] \in Seq(RowsOf(keys[j]))
  BY <1>6 DEF GoodLeaf
<1>8. i \in 1..Len(keys) /\ keys[i] = key
  BY <1>1, <1>3, <1>7, KnownKey
<1> HIDE DEF i
<1>9. Append(values[i], row) \in Seq(RowsOf(keys[i]))
  <2>1. values[i] \in Seq(RowsOf(keys[i])) /\ row \in RowsOf(keys[i])
    BY <1>4, <1>7, <1>8
  <2> QED
    BY <2>1, AppendProperties
<1>10. values2 = [values EXCEPT ![i] = Append(values[i], row)]
  OBVIOUS
<1> HIDE DEF values2
<1>11. GoodLeaf(keys, values2, S[n])
  <2> HIDE DEF keys, values
  <2> QED
    BY <1>6, <1>7, <1>8, <1>9, <1>10, OneValue
<1>12. node \in Node /\ node.leaf = TRUE /\ node.keys = keys /\ node.values = values2
       /\ node.children = nodes[n].children /\ node.next = nodes[n].next
  BY <1>3, <1>11 DEF Node, GoodLeaf
<1> HIDE DEF node
<1>13. LeafReplaced(w, node)
  BY <1>1, <1>12 DEF LeafReplaced
<1>14. op' \in [Writers -> {Idle} \cup Ops] /\ op'[w] = Idle /\ op'[w].pc = "idle"
  BY <1>1, Rests
<1>15. nodes'[n] = node /\ n \in DOMAIN nodes'
  BY <1>1, <1>3
<1>16. TreeKeys(w)'[n] = keys /\ TreeValues(w)'[n] = values2
  <2>1. op'[w].pc \in Plain
    BY <1>14 DEF Plain
  <2> QED
    BY <2>1, <1>12, <1>15, PlainTreeNext
<1>17. Len(keys) < Order
  <2>1. ~Doing(w, "split", n) /\ ~Doing(w, "splitinner", n)
    BY <1>1 DEF Doing
  <2> QED
    BY <2>1, <1>3, <1>5 DEF Sizes
<1>18. LeafSettles(w, keys, values2)
  <2> HIDE DEF keys
  <2> QED
    BY <1>14, <1>16, <1>17 DEF LeafSettles, LeafOnly, Plain
<1>19. /\ Typed' /\ Settled(w, L, S, P, N)' /\ Sizes(w)'
       /\ LeafWork(w, L, S)' => Work(w, L, S)'
       /\ TreeKeys(w)' = [TreeKeys(w) EXCEPT ![n] = keys]
       /\ TreeValues(w)' = [TreeValues(w) EXCEPT ![n] = values2]
  <2> HIDE DEF keys
  <2> QED
    BY <1>2, <1>11, <1>13, <1>18, LeafStep
<1>20. Work(w, L, S)'
  BY <1>14 DEF Work
<1>21. TreeKeys(w)' = TreeKeys(w)
  <2>1. TreeKeys(w) = [TreeKeys(w) EXCEPT ![n] = TreeKeys(w)[n]]
    BY <1>3 DEF TreeKeys
  <2> QED
    BY <2>1, <1>5, <1>19
<1>22. NewValue(TreeValues(w)', TreeValues(w), n, i, Append(TreeValues(w)[n][i], row))
  BY <1>5, <1>10, <1>19 DEF NewValue
<1> QED
  BY <1>3, <1>4, <1>5, <1>8, <1>19, <1>20, <1>21, <1>22

\* A key with its rows comes in, or goes.
LEMMA LongerLeaf ==
  ASSUME NEW keys, NEW values, NEW T, GoodLeaf(keys, values, T), NEW i, NEW key, NEW v,
         NEW keys2 \in Seq(Int), Inserted(keys2, keys, i, key), Ascending(keys2),
         NEW values2 \in Seq(Seq(Rows)), Inserted(values2, values, i, v),
         key \in T, key \in Keys, v \in Seq(RowsOf(key))
  PROVE  GoodLeaf(keys2, values2, T)
<1>1. /\ keys \in Seq(Int) /\ Len(values) = Len(keys) /\ Len(keys) \in Nat
      /\ \A j \in 1..Len(keys) : keys[j] \in T /\ keys[j] \in Keys /\ values[j] \in Seq(RowsOf(keys[j]))
  BY LenProperties DEF GoodLeaf
<1>2. /\ i \in 1..Len(keys2) /\ Len(keys2) = Len(keys) + 1 /\ Len(values2) = Len(values) + 1
      /\ \A j \in 1..Len(keys2) : keys2[j] = IF j < i THEN keys[j] ELSE IF j = i THEN key ELSE keys[j - 1]
      /\ \A j \in 1..Len(values2) : values2[j] = IF j < i THEN values[j] ELSE IF j = i THEN v ELSE values[j - 1]
  BY DEF Inserted
<1>3. ASSUME NEW j \in 1..Len(keys2)
      PROVE  keys2[j] \in T /\ keys2[j] \in Keys /\ values2[j] \in Seq(RowsOf(keys2[j]))
  <2>0. /\ j \in 1..Len(values2) /\ i \in Int /\ j \in Int
        /\ (j < i => j \in 1..Len(keys)) /\ (j > i => j - 1 \in 1..Len(keys))
    BY <1>1, <1>2
  <2>1. CASE j < i
    <3>1. keys2[j] = keys[j] /\ values2[j] = values[j]
      BY <2>0, <2>1, <1>2
    <3> QED
      BY <2>0, <2>1, <3>1, <1>1
  <2>2. CASE j = i
    <3>1. keys2[j] = key /\ values2[j] = v
      BY <2>0, <2>2, <1>2
    <3> QED
      BY <3>1
  <2>3. CASE j > i
    <3>1. keys2[j] = keys[j - 1] /\ values2[j] = values[j - 1]
      BY <2>0, <2>3, <1>2
    <3> QED
      BY <2>0, <2>3, <3>1, <1>1
  <2> QED
    BY <2>0, <2>1, <2>2, <2>3
<1> QED
  BY <1>1, <1>2, <1>3 DEF GoodLeaf

LEMMA ShorterLeaf ==
  ASSUME NEW keys2, NEW values2, NEW T, GoodLeaf(keys2, values2, T), NEW i, NEW key, NEW v,
         NEW keys \in Seq(Int), Inserted(keys2, keys, i, key),
         NEW values \in Seq(Seq(Rows)), Inserted(values2, values, i, v)
  PROVE  GoodLeaf(keys, values, T)
<1>1. /\ keys2 \in Seq(Int) /\ Len(values2) = Len(keys2) /\ Len(keys2) \in Nat
      /\ Len(keys) \in Nat /\ Len(values) \in Nat
      /\ \A j \in 1..Len(keys2) : keys2[j] \in T /\ keys2[j] \in Keys /\ values2[j] \in Seq(RowsOf(keys2[j]))
      /\ \A a, b \in 1..Len(keys2) : a < b => keys2[a] < keys2[b]
  BY LenProperties DEF GoodLeaf, Ascending
<1>2. /\ i \in 1..Len(keys2) /\ Len(keys2) = Len(keys) + 1 /\ Len(values2) = Len(values) + 1
      /\ \A j \in 1..Len(keys2) : keys2[j] = IF j < i THEN keys[j] ELSE IF j = i THEN key ELSE keys[j - 1]
      /\ \A j \in 1..Len(values2) : values2[j] = IF j < i THEN values[j] ELSE IF j = i THEN v ELSE values[j - 1]
  BY DEF Inserted
<1> DEFINE place(j) == IF j < i THEN j ELSE j + 1
<1>3. ASSUME NEW j \in 1..Len(keys)
      PROVE  place(j) \in 1..Len(keys2) /\ keys[j] = keys2[place(j)] /\ values[j] = values2[place(j)]
  <2>0. /\ place(j) \in 1..Len(keys2) /\ place(j) \in 1..Len(values2) /\ place(j) # i
        /\ (j < i => place(j) = j /\ place(j) < i)
        /\ (~(j < i) => ~(place(j) < i) /\ place(j) - 1 = j)
    BY <1>1, <1>2
  <2> HIDE DEF place
  <2> QED
    BY <2>0, <1>2
<1>4. \A a, b \in 1..Len(keys) : a < b => place(a) < place(b)
  <2>1. i \in Int /\ \A j \in 1..Len(keys) : j \in Int
    BY <1>1, <1>2
  <2> QED
    BY <2>1
<1> HIDE DEF place
<1>5. Ascending(keys)
  BY <1>1, <1>3, <1>4 DEF Ascending
<1>6. \A j \in 1..Len(keys) : keys[j] \in T /\ keys[j] \in Keys /\ values[j] \in Seq(RowsOf(keys[j]))
  BY <1>1, <1>3
<1>7. Len(values) = Len(keys)
  BY <1>1, <1>2
<1> QED
  BY <1>5, <1>6, <1>7 DEF GoodLeaf

\* A new key is there before its list of rows.
LEMMA LeafKeyKeeps ==
  ASSUME NEW w \in Writers, Typed, NEW L, NEW S, NEW P, NEW N,
         Settled(w, L, S, P, N), Sizes(w), Work(w, L, S), LeafKey(w)
  PROVE  /\ Typed' /\ Settled(w, L, S, P, N)' /\ Sizes(w)' /\ Work(w, L, S)'
         /\ TreeKeys(w)' = TreeKeys(w) /\ TreeValues(w)' = TreeValues(w)
<1> DEFINE n == Here(w)
           key == op[w].key
           i == LeafIndex(n, key)
           keys == nodes[n].keys
           values == nodes[n].values
           keys2 == PutAt(keys, i, key)
           node == [nodes[n] EXCEPT !.keys = keys2]
           o == [op[w] EXCEPT !.pc = "value", !.at = i]
<1>1. op[w].pc = "leaf" /\ ~Has(n, key) /\ nodes' = [nodes EXCEPT ![n] = node] /\ root' = root
      /\ op' = [op EXCEPT ![w] = o]
  BY DEF LeafKey, Change
<1>2. op[w].pc \in LeafStages /\ op[w].pc \in Plain /\ op[w].pc \in (LeafOnly \cap LeafStages) \ {"split"}
  BY <1>1 DEF LeafStages, Plain, LeafOnly
<1>3. /\ key \in Int /\ n \in DOMAIN nodes /\ L[n] = 0 /\ LeafWork(w, L, S)
      /\ nodes[n] \in Node /\ nodes[n].leaf = TRUE /\ op[w] \in Ops
  BY <1>2, LeafContext
<1>4. key \in S[n] /\ key \in Keys /\ op[w].row \in RowsOf(key)
  BY <1>1, <1>3 DEF LeafWork
<1>5. TreeKeys(w)[n] = keys /\ TreeValues(w)[n] = values
  BY <1>2, <1>3, PlainTree
<1>6. GoodLeaf(keys, values, S[n])
  BY <1>3, <1>5, LeavesAreGood
<1>7. keys \in Seq(Int) /\ Ascending(keys) /\ values \in Seq(Seq(Rows)) /\ Len(keys) \in Nat
  BY <1>6, LenProperties DEF GoodLeaf
<1>8. /\ i \in 1..(Len(keys) + 1) /\ (i > 1 => keys[i - 1] < key)
      /\ (i <= Len(keys) => key < keys[i])
  BY <1>1, <1>3, <1>7, NewKey
<1> HIDE DEF i
<1>9. i \in Nat \ {0} /\ i <= Len(keys) + 1 /\ i \in Nat
  <2> HIDE DEF keys
  <2> QED
    BY <1>7, <1>8
<1>10. keys2 \in Seq(Int) /\ Inserted(keys2, keys, i, key) /\ Len(keys2) = Len(keys) + 1
  <2> HIDE DEF keys, key
  <2>1. /\ PutAt(keys, i, key) \in Seq(Int) /\ Len(PutAt(keys, i, key)) = Len(keys) + 1
        /\ i <= Len(keys) + 1 => Inserted(PutAt(keys, i, key), keys, i, key)
    BY <1>3, <1>7, <1>9, PutAtInserts
  <2> QED
    BY <2>1, <1>9
<1> HIDE DEF keys2
<1>11. Ascending(keys2) /\ RemoveAt(keys2, i) = keys
  <2> HIDE DEF keys
  <2>1. Ascending(keys2)
    BY <1>3, <1>7, <1>8, <1>10, InsertAscending
  <2>2. RemoveAt(keys2, i) = keys
    BY <1>7, <1>10, RemoveUndoesInsert
  <2> QED
    BY <2>1, <2>2
<1>12. node \in Node /\ node.leaf = TRUE /\ node.keys = keys2 /\ node.values = values
       /\ node.children = nodes[n].children /\ node.next = nodes[n].next
  BY <1>3, <1>10 DEF Node
<1> HIDE DEF node
<1>13. LeafReplaced(w, node)
  BY <1>1, <1>12 DEF LeafReplaced
<1>14. o \in Ops /\ o.pc = "value" /\ o.at = i /\ o.key = key /\ o.row = op[w].row /\ o.path = op[w].path
  BY <1>3, <1>9 DEF Ops, LeafStages
<1> HIDE DEF o
<1>15. op' \in [Writers -> {Idle} \cup Ops] /\ op'[w] = o
  BY <1>1, <1>14, OpChanges
<1>16. Here(w)' = n
  BY <1>14, <1>15 DEF Here
<1>17. nodes'[n] = node /\ n \in DOMAIN nodes'
  BY <1>1, <1>3
<1>18. TreeKeys(w)'[n] = keys /\ TreeValues(w)'[n] = values
  <2>1. ASSUME NEW q \in DOMAIN nodes', q = n
        PROVE  TreeKeys(w)'[q] = RemoveAt(nodes'[q].keys, op'[w].at) /\ TreeValues(w)'[q] = nodes'[q].values
    <3>1. Doing(w, "value", q)' /\ ~Doing(w, "popvalue", q)' /\ ~Doing(w, "splitvalues", q)'
      BY <2>1, <1>14, <1>15, <1>16 DEF Doing
    <3> QED
      BY <3>1 DEF TreeKeys, TreeValues
  <2> QED
    BY <2>1, <1>11, <1>12, <1>14, <1>15, <1>17
<1>19. Len(keys) < Order
  <2>1. ~Doing(w, "split", n) /\ ~Doing(w, "splitinner", n)
    BY <1>1 DEF Doing
  <2> QED
    BY <2>1, <1>3, <1>5 DEF Sizes
<1>20. LeafSettles(w, keys, values)
  <2> HIDE DEF keys
  <2> QED
    BY <1>14, <1>15, <1>16, <1>18, <1>19 DEF LeafSettles, LeafOnly, Plain
<1>21. /\ Typed' /\ Settled(w, L, S, P, N)' /\ Sizes(w)'
       /\ LeafWork(w, L, S)' => Work(w, L, S)'
       /\ TreeKeys(w)' = [TreeKeys(w) EXCEPT ![n] = keys]
       /\ TreeValues(w)' = [TreeValues(w) EXCEPT ![n] = values]
  <2> HIDE DEF keys, values
  <2> QED
    BY <1>2, <1>6, <1>13, <1>20, LeafStep
<1>22. LeafWork(w, L, S)'
  <2>1. i \in 1..Len(keys2) /\ keys2[i] = key
    BY <1>10 DEF Inserted
  <2>2. nodes'[Here(w)'].keys = keys2
    BY <1>12, <1>16, <1>17
  <2>3. op'[w].pc = "value" /\ op'[w].at = i /\ op'[w].key = key /\ op'[w].row = op[w].row
    BY <1>14, <1>15
  <2> HIDE DEF keys
  <2> QED
    BY <2>1, <2>2, <2>3, <1>3, <1>4, <1>11, <1>16 DEF LeafWork
<1>23. TreeKeys(w)' = TreeKeys(w) /\ TreeValues(w)' = TreeValues(w)
  <2>1. TreeKeys(w) = [TreeKeys(w) EXCEPT ![n] = TreeKeys(w)[n]] /\ TreeValues(w) = [TreeValues(w) EXCEPT ![n] = TreeValues(w)[n]]
    BY <1>3 DEF TreeKeys, TreeValues
  <2> QED
    BY <2>1, <1>5, <1>21
<1> QED
  BY <1>21, <1>22, <1>23

\* The list of rows follows: the key is in the settled tree now.
LEMMA LeafValueKeeps ==
  ASSUME NEW w \in Writers, Typed, NEW L, NEW S, NEW P, NEW N,
         Settled(w, L, S, P, N), Sizes(w), Work(w, L, S), LeafValue(w)
  PROVE  /\ Typed' /\ Settled(w, L, S, P, N)' /\ Sizes(w)' /\ Work(w, L, S)'
         /\ L[Here(w)] = 0 /\ Here(w) \in DOMAIN nodes /\ op[w].row \in RowsOf(op[w].key) /\ op[w].key \in Keys
         /\ \E keys \in Seq(Int), values \in Seq(Seq(Rows)), i \in Nat :
              /\ Inserted(keys, TreeKeys(w)[Here(w)], i, op[w].key)
              /\ Inserted(values, TreeValues(w)[Here(w)], i, <<op[w].row>>)
              /\ GoodLeaf(keys, values, S[Here(w)])
              /\ TreeKeys(w)' = [TreeKeys(w) EXCEPT ![Here(w)] = keys]
              /\ TreeValues(w)' = [TreeValues(w) EXCEPT ![Here(w)] = values]
<1> DEFINE n == Here(w)
           key == op[w].key
           row == op[w].row
           i == op[w].at
           keys == nodes[n].keys
           values == nodes[n].values
           short == RemoveAt(keys, i)
           values2 == PutAt(values, i, <<row>>)
           node == [nodes[n] EXCEPT !.values = values2]
<1>1. /\ op[w].pc = "value" /\ nodes' = [nodes EXCEPT ![n] = node] /\ root' = root
      /\ IF Len(nodes'[n].keys) >= Order THEN Go(w, "split") ELSE Finish(w)
  BY DEF LeafValue, Change, NextUp
<1>2. op[w].pc \in LeafStages /\ op[w].pc \in (LeafOnly \cap LeafStages) \ {"split"}
  BY <1>1 DEF LeafStages, LeafOnly
<1>3. /\ key \in Int /\ i \in Nat /\ n \in DOMAIN nodes /\ L[n] = 0 /\ LeafWork(w, L, S)
      /\ nodes[n] \in Node /\ nodes[n].leaf = TRUE /\ op[w] \in Ops
      /\ keys \in Seq(Int) /\ values \in Seq(Seq(Rows)) /\ Len(keys) \in Nat /\ Len(values) \in Nat
  BY <1>2, LeafContext, LenProperties
<1>4. /\ key \in S[n] /\ key \in Keys /\ row \in RowsOf(key)
      /\ i \in 1..Len(keys) /\ keys[i] = key /\ Ascending(keys)
  BY <1>1, <1>3 DEF LeafWork
<1>5. TreeKeys(w)[n] = short /\ TreeValues(w)[n] = values
  <2>1. Doing(w, "value", n) /\ ~Doing(w, "popvalue", n) /\ ~Doing(w, "splitvalues", n)
    BY <1>1 DEF Doing
  <2> HIDE DEF n
  <2> QED
    BY <2>1, <1>3 DEF TreeKeys, TreeValues
<1>6. GoodLeaf(short, values, S[n])
  BY <1>3, <1>5, LeavesAreGood
<1>7. short \in Seq(Int) /\ Len(short) = Len(keys) - 1 /\ Inserted(keys, short, i, key)
  BY <1>3, <1>4, RemoveAtRemoves
<1>8. Len(values) = Len(short)
  BY <1>6 DEF GoodLeaf
<1>9. <<row>> \in Seq(RowsOf(key)) /\ <<row>> \in Seq(Rows)
  <2>1. row \in Rows
    BY <1>4 DEF RowsOf, Rows
  <2> HIDE DEF row
  <2> QED
    BY <2>1, <1>4
<1>10. values2 \in Seq(Seq(Rows)) /\ Inserted(values2, values, i, <<row>>)
  <2>1. i \in Nat \ {0} /\ i <= Len(values) + 1
    BY <1>3, <1>4, <1>7, <1>8
  <2> HIDE DEF values, i, row
  <2>2. /\ PutAt(values, i, <<row>>) \in Seq(Seq(Rows))
        /\ i <= Len(values) + 1 => Inserted(PutAt(values, i, <<row>>), values, i, <<row>>)
    BY <2>1, <1>3, <1>9, PutAtInserts
  <2> QED
    BY <2>1, <2>2
<1> HIDE DEF values2
<1>11. GoodLeaf(keys, values2, S[n])
  <2> DEFINE T == S[n]
             v == <<row>>
  <2>1. GoodLeaf(short, values, T) /\ Inserted(values2, values, i, v) /\ key \in T /\ v \in Seq(RowsOf(key))
    BY <1>4, <1>6, <1>9, <1>10
  <2> HIDE DEF T, v, keys, values, short, i, key
  <2>2. GoodLeaf(keys, values2, T)
    BY <2>1, <1>3, <1>4, <1>7, <1>10, LongerLeaf
  <2> QED
    BY <2>2 DEF T
<1>12. node \in Node /\ node.leaf = TRUE /\ node.keys = keys /\ node.values = values2
       /\ node.children = nodes[n].children /\ node.next = nodes[n].next
  BY <1>3, <1>10 DEF Node
<1> HIDE DEF node
<1>13. LeafReplaced(w, node)
  BY <1>1, <1>12 DEF LeafReplaced
<1>14. nodes'[n] = node /\ n \in DOMAIN nodes'
  BY <1>1, <1>3
<1>15. Len(short) < Order
  <2>1. ~Doing(w, "split", n) /\ ~Doing(w, "splitinner", n)
    BY <1>1 DEF Doing
  <2> QED
    BY <2>1, <1>3, <1>5 DEF Sizes
<1>16. /\ op' \in [Writers -> {Idle} \cup Ops]
       /\ IF Len(keys) >= Order THEN /\ op'[w].pc = "split" /\ Here(w)' = n /\ op'[w].path = op[w].path
                                ELSE op'[w] = Idle /\ op'[w].pc = "idle"
  <2>1. nodes'[n].keys = keys
    BY <1>12, <1>14
  <2>2. CASE Len(keys) >= Order
    <3>1. Go(w, "split") /\ "split" \in LeafStages \cup InnerStages \cup {"root"}
      BY <2>1, <2>2, <1>1 DEF LeafStages
    <3> HIDE DEF keys
    <3> QED
      BY <2>2, <3>1, <1>3, Moves
  <2>3. CASE ~(Len(keys) >= Order)
    <3>1. Finish(w)
      BY <2>1, <2>3, <1>1
    <3> HIDE DEF keys
    <3> QED
      BY <2>3, <3>1, Rests
  <2> QED
    BY <2>2, <2>3
<1>17. op'[w].pc \in {"idle", "split"}
  BY <1>16
<1>18. TreeKeys(w)'[n] = keys /\ TreeValues(w)'[n] = values2
  <2>1. op'[w].pc \in Plain
    BY <1>17 DEF Plain
  <2> QED
    BY <2>1, <1>12, <1>14, PlainTreeNext
<1>19. IF op'[w].pc = "split" THEN Len(keys) = Order ELSE Len(keys) < Order
  <2>1. Len(keys) \in Nat /\ Len(keys) - 1 < Order /\ Order \in Nat
    BY <1>3, <1>7, <1>15, OrderAssumption
  <2> HIDE DEF keys
  <2> QED
    BY <2>1, <1>16
<1>20. LeafSettles(w, keys, values2)
  <2>1. op'[w].pc # "idle" => Here(w)' = n /\ op'[w].path = op[w].path
    BY <1>16
  <2>2. op'[w].pc \in LeafOnly \ {"splitinner"}
    BY <1>17 DEF LeafOnly, Plain
  <2> HIDE DEF keys
  <2> QED
    BY <2>1, <2>2, <1>16, <1>18, <1>19 DEF LeafSettles
<1>21. /\ Typed' /\ Settled(w, L, S, P, N)' /\ Sizes(w)'
       /\ LeafWork(w, L, S)' => Work(w, L, S)'
       /\ TreeKeys(w)' = [TreeKeys(w) EXCEPT ![n] = keys]
       /\ TreeValues(w)' = [TreeValues(w) EXCEPT ![n] = values2]
  <2> HIDE DEF keys
  <2> QED
    BY <1>2, <1>11, <1>13, <1>20, LeafStep
<1>22. LeafWork(w, L, S)'
  <2>1. op'[w].pc = "split" => L[Here(w)'] = 0
    BY <1>3, <1>16
  <2> QED
    BY <2>1, <1>17 DEF LeafWork, LeafStages
<1>23. /\ Inserted(keys, TreeKeys(w)[n], i, key) /\ Inserted(values2, TreeValues(w)[n], i, <<row>>)
  BY <1>5, <1>7, <1>10
<1>24. Work(w, L, S)'
  BY <1>21, <1>22
<1> HIDE DEF short, keys, values, i
<1> QED
  BY <1>3, <1>4, <1>10, <1>11, <1>21, <1>23, <1>24

LEMMA RemoveFirstRemoves ==
  ASSUME NEW T, NEW list \in Seq(T), NEW x
  PROVE  RemoveFirst(list, x) \in Seq(T) /\ (~Contains(list, x) => RemoveFirst(list, x) = list)
<1> DEFINE I == {i \in 1..Len(list) : list[i] = x}
<1>1. Len(list) \in Nat
  BY LenProperties
<1>2. CASE Contains(list, x)
  <2>1. I \in SUBSET Nat /\ I # {}
    BY <1>1, <1>2 DEF Contains
  <2>2. Min(I) \in I
    <3> HIDE DEF I
    <3> QED
      BY <2>1, MinIsLeast
  <2>3. RemoveFirst(list, x) = RemoveAt(list, Min(I))
    BY <1>2, <2>1 DEF RemoveFirst, SelectInSeq, Contains
  <2>4. RemoveAt(list, Min(I)) \in Seq(T)
    BY <2>2, RemoveAtRemoves
  <2> QED
    BY <2>3, <2>4, <1>2
<1>3. CASE ~Contains(list, x)
  BY <1>3 DEF RemoveFirst, Contains
<1> QED
  BY <1>2, <1>3

\* A row goes from under its key, or nothing happens.
LEMMA RemoveRowKeeps ==
  ASSUME NEW w \in Writers, Typed, NEW L, NEW S, NEW P, NEW N,
         Settled(w, L, S, P, N), Sizes(w), Work(w, L, S), RemoveRow(w)
  PROVE  /\ Typed' /\ Settled(w, L, S, P, N)' /\ Sizes(w)' /\ Work(w, L, S)'
         /\ L[Here(w)] = 0 /\ Here(w) \in DOMAIN nodes
         /\ TreeKeys(w)' = TreeKeys(w)
         /\ \/ TreeValues(w)' = TreeValues(w)
            \/ \E i \in 1..Len(TreeKeys(w)[Here(w)]) :
                 /\ TreeKeys(w)[Here(w)][i] = op[w].key
                 /\ NewValue(TreeValues(w)', TreeValues(w), Here(w), i,
                             RemoveFirst(TreeValues(w)[Here(w)][i], op[w].row))
<1> DEFINE n == Here(w)
           key == op[w].key
           row == op[w].row
           i == LeafIndex(n, key)
           keys == nodes[n].keys
           values == nodes[n].values
           found == Has(n, key) /\ i \in DOMAIN values
           values2 == IF found THEN [values EXCEPT ![i] = RemoveFirst(values[i], row)] ELSE values
           node == [nodes[n] EXCEPT !.values = values2]
           o == [op[w] EXCEPT !.pc = "popkey", !.at = i]
<1>1. op[w].pc = "remove" /\ root' = root
  BY DEF RemoveRow
<1>2. op[w].pc \in LeafStages /\ op[w].pc \in Plain /\ op[w].pc \in (LeafOnly \cap LeafStages) \ {"split"}
  BY <1>1 DEF LeafStages, Plain, LeafOnly
<1>3. /\ key \in Int /\ n \in DOMAIN nodes /\ L[n] = 0 /\ LeafWork(w, L, S)
      /\ nodes[n] \in Node /\ nodes[n].leaf = TRUE /\ op[w] \in Ops
  BY <1>2, LeafContext
<1>4. nodes' = [nodes EXCEPT ![n] = node]
  <2>1. CASE found
    <3>1. nodes' = [nodes EXCEPT ![n].values[i] = RemoveFirst(@, row)]
      BY <2>1 DEF RemoveRow
    <3>2. values2 = [nodes[n].values EXCEPT ![i] = RemoveFirst(nodes[n].values[i], row)]
      BY <2>1
    <3> HIDE DEF values2, found, i
    <3> QED
      BY <3>1, <3>2
  <2>2. CASE ~found
    <3>1. nodes' = nodes
      BY <2>2 DEF RemoveRow
    <3>2. values2 = nodes[n].values
      BY <2>2
    <3>3. node = nodes[n]
      <4> HIDE DEF values2
      <4> QED
        BY <3>2, <1>3 DEF Node
    <3>4. nodes \in [DOMAIN nodes -> Node]
      BY Known, LenProperties
    <3>5. nodes = [nodes EXCEPT ![n] = nodes[n]]
      BY <3>4, <1>3
    <3> HIDE DEF node, found
    <3> QED
      BY <3>1, <3>3, <3>5
  <2> QED
    BY <2>1, <2>2
<1>5. IF found /\ nodes'[n].values[i] = <<>> THEN op' = [op EXCEPT ![w] = o] ELSE Finish(w)
  BY DEF RemoveRow
<1>6. TreeKeys(w)[n] = keys /\ TreeValues(w)[n] = values
  BY <1>2, <1>3, PlainTree
<1>7. GoodLeaf(keys, values, S[n])
  BY <1>3, <1>6, LeavesAreGood
<1>8. /\ keys \in Seq(Int) /\ Ascending(keys) /\ values \in Seq(Seq(Rows)) /\ Len(values) = Len(keys)
      /\ \A j \in 1..Len(keys) : values[j] \in Seq(RowsOf(keys[j]))
      /\ DOMAIN values = 1..Len(values) /\ Len(values) \in Nat
  BY <1>7, LenProperties DEF GoodLeaf
<1>9. found => i \in 1..Len(keys) /\ keys[i] = key
  BY <1>3, <1>8, KnownKey
<1> HIDE DEF i
<1>10. GoodLeaf(keys, values2, S[n])
  <2>1. CASE found
    <3> DEFINE v == RemoveFirst(values[i], row)
               V == [values EXCEPT ![i] = v]
    <3>1. v \in Seq(RowsOf(keys[i])) /\ i \in 1..Len(values)
      BY <2>1, <1>8, <1>9, RemoveFirstRemoves
    <3> HIDE DEF v
    <3>2. GoodLeaf(keys, V, S[n])
      <4> HIDE DEF keys, values
      <4> QED
        BY <3>1, <1>7, OneValue
    <3> QED
      BY <2>1, <3>2 DEF v
  <2>2. CASE ~found
    BY <2>2, <1>7
  <2> QED
    BY <2>1, <2>2
<1>11. found => values2 = [values EXCEPT ![i] = RemoveFirst(values[i], row)] /\ i \in 1..Len(values2)
  BY <1>8
<1>12. ~found => values2 = values
  OBVIOUS
<1> HIDE DEF values2, found
<1>13. node \in Node /\ node.leaf = TRUE /\ node.keys = keys /\ node.values = values2
       /\ node.children = nodes[n].children /\ node.next = nodes[n].next
  BY <1>3, <1>10 DEF Node, GoodLeaf
<1> HIDE DEF node
<1>14. LeafReplaced(w, node)
  BY <1>1, <1>4, <1>13 DEF LeafReplaced
<1>15. nodes'[n] = node /\ n \in DOMAIN nodes'
  BY <1>3, <1>4
<1>16. Len(keys) < Order
  <2>1. ~Doing(w, "split", n) /\ ~Doing(w, "splitinner", n)
    BY <1>1 DEF Doing
  <2> QED
    BY <2>1, <1>3, <1>6 DEF Sizes
<1>17. i \in Nat => o \in Ops /\ o.pc = "popkey" /\ o.at = i /\ o.path = op[w].path
  BY <1>3 DEF Ops, LeafStages
<1> HIDE DEF o
<1>18. /\ op' \in [Writers -> {Idle} \cup Ops]
       /\ \/ /\ found /\ values2[i] = <<>> /\ op'[w].pc = "popkey" /\ op'[w].at = i
             /\ op'[w].path = op[w].path /\ Here(w)' = n
          \/ op'[w] = Idle /\ op'[w].pc = "idle"
  <2>1. CASE found /\ nodes'[n].values[i] = <<>>
    <3>1. i \in Nat /\ op' = [op EXCEPT ![w] = o]
      BY <2>1, <1>5, <1>9
    <3>2. op' \in [Writers -> {Idle} \cup Ops] /\ op'[w] = o
      BY <3>1, <1>17, OpChanges
    <3> QED
      BY <2>1, <3>1, <3>2, <1>13, <1>15, <1>17 DEF Here
  <2>2. CASE ~(found /\ nodes'[n].values[i] = <<>>)
    BY <2>2, <1>5, Rests
  <2> QED
    BY <2>1, <2>2
<1>19. op'[w].pc \in {"idle", "popkey"}
  BY <1>18
<1>20. TreeKeys(w)'[n] = keys /\ TreeValues(w)'[n] = values2
  <2>1. op'[w].pc \in Plain
    BY <1>19 DEF Plain
  <2> QED
    BY <2>1, <1>13, <1>15, PlainTreeNext
<1>21. LeafSettles(w, keys, values2)
  <2>1. op'[w].pc # "idle" => Here(w)' = n /\ op'[w].path = op[w].path
    BY <1>18
  <2>2. op'[w].pc \in LeafOnly \ {"splitinner"} /\ op'[w].pc # "split"
    BY <1>19 DEF LeafOnly, Plain
  <2> HIDE DEF keys
  <2> QED
    BY <2>1, <2>2, <1>18, <1>20, <1>16 DEF LeafSettles
<1>22. /\ Typed' /\ Settled(w, L, S, P, N)' /\ Sizes(w)'
       /\ LeafWork(w, L, S)' => Work(w, L, S)'
       /\ TreeKeys(w)' = [TreeKeys(w) EXCEPT ![n] = keys]
       /\ TreeValues(w)' = [TreeValues(w) EXCEPT ![n] = values2]
  <2> HIDE DEF keys
  <2> QED
    BY <1>2, <1>10, <1>14, <1>21, LeafStep
<1>23. LeafWork(w, L, S)'
  <2>1. op'[w].pc = "popkey" => /\ L[Here(w)'] = 0 /\ op'[w].at \in 1..Len(nodes'[Here(w)'].values)
                                /\ nodes'[Here(w)'].values[op'[w].at] = <<>>
    BY <1>3, <1>11, <1>13, <1>15, <1>18
  <2> QED
    BY <2>1, <1>19 DEF LeafWork, LeafStages
<1>24. TreeKeys(w)' = TreeKeys(w)
  <2>1. TreeKeys(w) = [TreeKeys(w) EXCEPT ![n] = TreeKeys(w)[n]]
    BY <1>3 DEF TreeKeys
  <2> QED
    BY <2>1, <1>6, <1>22
<1>25. ~found => TreeValues(w)' = TreeValues(w)
  <2>1. TreeValues(w) = [TreeValues(w) EXCEPT ![n] = TreeValues(w)[n]]
    BY <1>3 DEF TreeValues
  <2> QED
    BY <2>1, <1>6, <1>12, <1>22
<1>26. found => NewValue(TreeValues(w)', TreeValues(w), n, i, RemoveFirst(TreeValues(w)[n][i], row))
  BY <1>6, <1>11, <1>22 DEF NewValue
<1>27. Work(w, L, S)'
  BY <1>22, <1>23
<1>28. found => i \in 1..Len(TreeKeys(w)[n]) /\ TreeKeys(w)[n][i] = key
  BY <1>6, <1>9
<1> HIDE DEF keys, values
<1> QED
  BY <1>3, <1>22, <1>24, <1>25, <1>26, <1>27, <1>28

\* A key without rows goes first, its empty list after it.
LEMMA PopKeyKeeps ==
  ASSUME NEW w \in Writers, Typed, NEW L, NEW S, NEW P, NEW N,
         Settled(w, L, S, P, N), Sizes(w), Work(w, L, S), PopKey(w)
  PROVE  /\ Typed' /\ Settled(w, L, S, P, N)' /\ Sizes(w)' /\ Work(w, L, S)'
         /\ L[Here(w)] = 0 /\ Here(w) \in DOMAIN nodes
         /\ \E keys \in Seq(Int), values \in Seq(Seq(Rows)), i \in Nat, key \in Int :
              /\ Inserted(TreeKeys(w)[Here(w)], keys, i, key)
              /\ Inserted(TreeValues(w)[Here(w)], values, i, <<>>)
              /\ TreeKeys(w)' = [TreeKeys(w) EXCEPT ![Here(w)] = keys]
              /\ TreeValues(w)' = [TreeValues(w) EXCEPT ![Here(w)] = values]
<1> DEFINE n == Here(w)
           i == op[w].at
           keys == nodes[n].keys
           values == nodes[n].values
           keys2 == RemoveAt(keys, i)
           values2 == RemoveAt(values, i)
           node == [nodes[n] EXCEPT !.keys = PopAt(keys, i)]
<1>1. op[w].pc = "popkey" /\ nodes' = [nodes EXCEPT ![n] = node] /\ root' = root /\ Go(w, "popvalue")
  BY DEF PopKey, Change
<1>2. op[w].pc \in LeafStages /\ op[w].pc \in Plain /\ op[w].pc \in (LeafOnly \cap LeafStages) \ {"split"}
  BY <1>1 DEF LeafStages, LeafOnly, Plain
<1>3. /\ i \in Nat /\ n \in DOMAIN nodes /\ L[n] = 0 /\ LeafWork(w, L, S)
      /\ nodes[n] \in Node /\ nodes[n].leaf = TRUE /\ op[w] \in Ops
  BY <1>2, LeafContext
<1>4. i \in 1..Len(values) /\ values[i] = <<>>
  BY <1>1, <1>3 DEF LeafWork
<1>5. TreeKeys(w)[n] = keys /\ TreeValues(w)[n] = values
  BY <1>2, <1>3, PlainTree
<1>6. GoodLeaf(keys, values, S[n])
  BY <1>3, <1>5, LeavesAreGood
<1>7. /\ keys \in Seq(Int) /\ values \in Seq(Seq(Rows)) /\ Len(values) = Len(keys) /\ DOMAIN keys = 1..Len(keys)
  BY <1>6, LenProperties DEF GoodLeaf
<1>8. PopAt(keys, i) = keys2
  BY <1>4, <1>7 DEF PopAt
<1>9. keys2 \in Seq(Int) /\ Len(keys2) = Len(keys) - 1 /\ Inserted(keys, keys2, i, keys[i])
  <2> HIDE DEF keys, i
  <2> QED
    BY <1>4, <1>7, RemoveAtRemoves
<1>10. values2 \in Seq(Seq(Rows)) /\ Inserted(values, values2, i, <<>>)
  <2> HIDE DEF values, i
  <2> QED
    BY <1>4, <1>7, RemoveAtRemoves
<1> HIDE DEF keys2, values2
<1>11. GoodLeaf(keys2, values2, S[n])
  <2> DEFINE T == S[n]
             k == keys[i]
             v == <<>>
  <2>1. GoodLeaf(keys, values, T) /\ Inserted(keys, keys2, i, k) /\ Inserted(values, values2, i, v)
    BY <1>6, <1>9, <1>10
  <2> HIDE DEF T, v, keys, values, i, k
  <2>2. GoodLeaf(keys2, values2, T)
    BY <2>1, <1>9, <1>10, ShorterLeaf
  <2> QED
    BY <2>2 DEF T
<1>12. node \in Node /\ node.leaf = TRUE /\ node.keys = keys2 /\ node.values = values
       /\ node.children = nodes[n].children /\ node.next = nodes[n].next
  BY <1>3, <1>8, <1>9 DEF Node
<1> HIDE DEF node
<1>13. LeafReplaced(w, node)
  BY <1>1, <1>12 DEF LeafReplaced
<1>14. nodes'[n] = node /\ n \in DOMAIN nodes'
  BY <1>1, <1>3
<1>15. Len(keys2) < Order
  <2>1. ~Doing(w, "split", n) /\ ~Doing(w, "splitinner", n)
    BY <1>1 DEF Doing
  <2>2. Len(keys) < Order /\ Len(keys) \in Nat
    BY <2>1, <1>3, <1>5, <1>7, LenProperties DEF Sizes
  <2> HIDE DEF keys
  <2> QED
    BY <2>2, <1>9, OrderAssumption
<1>16. /\ op' \in [Writers -> {Idle} \cup Ops] /\ op'[w].pc = "popvalue" /\ Here(w)' = n
       /\ op'[w].path = op[w].path /\ op'[w].at = i
  <2>1. "popvalue" \in LeafStages \cup InnerStages \cup {"root"}
    BY DEF LeafStages
  <2> QED
    BY <2>1, <1>1, <1>3, Moves
<1>17. TreeKeys(w)'[n] = keys2 /\ TreeValues(w)'[n] = values2
  <2>1. ASSUME NEW q \in DOMAIN nodes', q = n
        PROVE  TreeKeys(w)'[q] = nodes'[q].keys /\ TreeValues(w)'[q] = RemoveAt(nodes'[q].values, op'[w].at)
    <3>1. ~Doing(w, "value", q)' /\ ~Doing(w, "child", q)' /\ Doing(w, "popvalue", q)'
      BY <2>1, <1>16 DEF Doing
    <3> QED
      BY <3>1 DEF TreeKeys, TreeValues
  <2> QED
    BY <2>1, <1>12, <1>14, <1>16 DEF values2
<1>18. LeafSettles(w, keys2, values2)
  BY <1>15, <1>16, <1>17 DEF LeafSettles, LeafOnly
<1>19. /\ Typed' /\ Settled(w, L, S, P, N)' /\ Sizes(w)'
       /\ LeafWork(w, L, S)' => Work(w, L, S)'
       /\ TreeKeys(w)' = [TreeKeys(w) EXCEPT ![n] = keys2]
       /\ TreeValues(w)' = [TreeValues(w) EXCEPT ![n] = values2]
  BY <1>2, <1>11, <1>13, <1>18, LeafStep
<1>20. LeafWork(w, L, S)'
  <2>1. nodes'[Here(w)'].values = values
    BY <1>12, <1>14, <1>16
  <2> HIDE DEF values, i
  <2> QED
    BY <2>1, <1>3, <1>4, <1>16 DEF LeafWork
<1>21. Inserted(TreeKeys(w)[n], keys2, i, keys[i]) /\ Inserted(TreeValues(w)[n], values2, i, <<>>)
  BY <1>5, <1>9, <1>10
<1>22. keys[i] \in Int
  BY <1>4, <1>7, ElementOfSeq
<1>23. Work(w, L, S)'
  BY <1>19, <1>20
<1> HIDE DEF keys, values, i
<1> QED
  BY <1>3, <1>9, <1>10, <1>19, <1>21, <1>22, <1>23

LEMMA PopValueKeeps ==
  ASSUME NEW w \in Writers, Typed, NEW L, NEW S, NEW P, NEW N,
         Settled(w, L, S, P, N), Sizes(w), Work(w, L, S), PopValue(w)
  PROVE  /\ Typed' /\ Settled(w, L, S, P, N)' /\ Sizes(w)' /\ Work(w, L, S)'
         /\ TreeKeys(w)' = TreeKeys(w) /\ TreeValues(w)' = TreeValues(w)
<1> DEFINE n == Here(w)
           i == op[w].at
           keys == nodes[n].keys
           values == nodes[n].values
           values2 == RemoveAt(values, i)
           node == [nodes[n] EXCEPT !.values = PopAt(values, i)]
<1>1. /\ op[w].pc = "popvalue" /\ nodes' = [nodes EXCEPT ![n] = node] /\ Finish(w)
      /\ root' = IF ~nodes'[root].leaf /\ nodes'[root].keys = <<>> THEN nodes'[root].children[1] ELSE root
  BY DEF PopValue, Change
<1>2. op[w].pc \in LeafStages /\ op[w].pc \in (LeafOnly \cap LeafStages) \ {"split"}
  BY <1>1 DEF LeafStages, LeafOnly
<1>3. /\ i \in Nat /\ n \in DOMAIN nodes /\ L[n] = 0 /\ LeafWork(w, L, S)
      /\ nodes[n] \in Node /\ nodes[n].leaf = TRUE /\ op[w] \in Ops
      /\ keys \in Seq(Int) /\ values \in Seq(Seq(Rows)) /\ DOMAIN values = 1..Len(values)
  BY <1>2, LeafContext, LenProperties
<1>4. i \in 1..Len(values)
  BY <1>1, <1>3 DEF LeafWork
<1>5. TreeKeys(w)[n] = keys /\ TreeValues(w)[n] = values2
  <2>1. ~Doing(w, "value", n) /\ ~Doing(w, "child", n) /\ Doing(w, "popvalue", n)
    BY <1>1 DEF Doing
  <2> HIDE DEF n
  <2> QED
    BY <2>1, <1>3 DEF TreeKeys, TreeValues
<1>6. GoodLeaf(keys, values2, S[n])
  BY <1>3, <1>5, LeavesAreGood
<1>7. PopAt(values, i) = values2
  BY <1>3, <1>4 DEF PopAt
<1>8. node \in Node /\ node.leaf = TRUE /\ node.keys = keys /\ node.values = values2
       /\ node.children = nodes[n].children /\ node.next = nodes[n].next
  <2>1. values2 \in Seq(Seq(Rows))
    BY <1>6 DEF GoodLeaf
  <2> HIDE DEF values2
  <2> QED
    BY <2>1, <1>3, <1>7 DEF Node
<1>9. nodes'[n] = node /\ n \in DOMAIN nodes' /\ \A q \in DOMAIN nodes : q # n => nodes'[q] = nodes[q]
  <2> HIDE DEF node, n
  <2> QED
    BY <1>1, <1>3
<1> HIDE DEF node, values2
<1>10. root' = root
  <2>1. CASE root = n
    BY <2>1, <1>1, <1>8, <1>9
  <2>2. CASE root # n
    <3>1. root \in DOMAIN nodes /\ L[root] \in Nat /\ (nodes[root].leaf <=> L[root] = 0)
      BY Known
    <3>2. nodes'[root] = nodes[root]
      BY <2>2, <3>1, <1>9
    <3>3. CASE L[root] = 0
      BY <3>1, <3>2, <3>3, <1>1
    <3>4. CASE L[root] # 0
      <4>1. Len(TreeKeys(w)[root]) > 0
        BY <3>1, <3>4 DEF Settled, Shape, TreeOK, Levels
      <4>2. ~Doing(w, "value", root) /\ ~Doing(w, "child", root)
        BY <1>1 DEF Doing
      <4>3. TreeKeys(w)[root] = nodes[root].keys
        BY <4>2, <3>1 DEF TreeKeys
      <4>4. nodes[root].keys # <<>>
        BY <4>1, <4>3
      <4> QED
        BY <4>4, <3>2, <1>1
    <3> QED
      BY <3>3, <3>4
  <2> QED
    BY <2>1, <2>2
<1>11. LeafReplaced(w, node)
  BY <1>1, <1>8, <1>10 DEF LeafReplaced
<1>12. Len(keys) < Order
  <2>1. ~Doing(w, "split", n) /\ ~Doing(w, "splitinner", n)
    BY <1>1 DEF Doing
  <2> QED
    BY <2>1, <1>3, <1>5 DEF Sizes
<1>13. op' \in [Writers -> {Idle} \cup Ops] /\ op'[w] = Idle /\ op'[w].pc = "idle"
  BY <1>1, Rests
<1>14. TreeKeys(w)'[n] = keys /\ TreeValues(w)'[n] = values2
  <2>1. op'[w].pc \in Plain
    BY <1>13 DEF Plain
  <2> QED
    BY <2>1, <1>8, <1>9, PlainTreeNext
<1>15. LeafSettles(w, keys, values2)
  <2> HIDE DEF keys
  <2> QED
    BY <1>12, <1>13, <1>14 DEF LeafSettles, LeafOnly, Plain
<1>16. /\ Typed' /\ Settled(w, L, S, P, N)' /\ Sizes(w)'
       /\ TreeKeys(w)' = [TreeKeys(w) EXCEPT ![n] = keys]
       /\ TreeValues(w)' = [TreeValues(w) EXCEPT ![n] = values2]
  <2> HIDE DEF keys
  <2> QED
    BY <1>2, <1>6, <1>11, <1>15, LeafStep
<1>17. Work(w, L, S)'
  BY <1>13 DEF Work
<1>18. TreeKeys(w)' = TreeKeys(w) /\ TreeValues(w)' = TreeValues(w)
  <2>1. /\ TreeKeys(w) = [TreeKeys(w) EXCEPT ![n] = TreeKeys(w)[n]]
        /\ TreeValues(w) = [TreeValues(w) EXCEPT ![n] = TreeValues(w)[n]]
    BY <1>3 DEF TreeKeys, TreeValues
  <2> QED
    BY <2>1, <1>5, <1>16
<1> QED
  BY <1>16, <1>17, <1>18

-----------------------------------------------------------------------------
(***************************************************************************)
(* Splits.                                                                 *)
(***************************************************************************)
LEMMA OneMore ==
  ASSUME NEW T, NEW s \in Seq(T), NEW n \in 1..Len(s), NEW x \in T, NEW y \in T,
         NEW s2, s2 = Append([s EXCEPT ![n] = x], y)
  PROVE  /\ s2 \in Seq(T) /\ DOMAIN s2 = (DOMAIN s) \cup {Len(s) + 1} /\ Len(s) + 1 \notin DOMAIN s
         /\ Len(s) + 1 \in Nat /\ Len(s) + 1 # 0
         /\ s2[n] = x /\ s2[Len(s) + 1] = y /\ \A q \in DOMAIN s : q # n => s2[q] = s[q]
<1> DEFINE t == [s EXCEPT ![n] = x]
<1>1. /\ t \in Seq(T) /\ Len(t) = Len(s) /\ DOMAIN t = DOMAIN s /\ DOMAIN s = 1..Len(s)
      /\ t[n] = x /\ \A q \in 1..Len(s) : q # n => t[q] = s[q]
  BY OneElement
<1>2. Len(s) \in Nat
  BY LenProperties
<1> HIDE DEF t
<1>3. /\ Append(t, y) \in Seq(T) /\ Len(Append(t, y)) = Len(s) + 1
      /\ \A i \in 1..Len(s) : Append(t, y)[i] = t[i]
      /\ Append(t, y)[Len(s) + 1] = y
  BY <1>1, AppendProperties
<1>4. s2 = Append(t, y)
  BY DEF t
<1>5. DOMAIN s2 = 1..(Len(s) + 1)
  BY <1>3, <1>4, LenProperties
<1>6. 1..(Len(s) + 1) = (1..Len(s)) \cup {Len(s) + 1} /\ Len(s) + 1 \notin 1..Len(s)
  BY <1>2
<1> QED
  BY <1>1, <1>2, <1>3, <1>4, <1>5, <1>6

\* Key k has the list v in one of the leaves.
InTree(lf, ks, vs, k, v) ==
  \E n \in DOMAIN lf : lf[n] /\ \E i \in 1..Len(ks[n]) : ks[n][i] = k /\ vs[n][i] = v

\* list is cut behind place m.
Cut(low, high, list, m) ==
  /\ m \in 0..Len(list) /\ Len(low) = m /\ Len(high) = Len(list) - m
  /\ \A j \in 1..m : low[j] = list[j]
  /\ \A j \in 1..Len(high) : high[j] = list[m + j]

\* The lists of leaf n are cut, and leaf new gets the upper halves.
LeafCut(D, lf, ks, vs, lf2, ks2, vs2, n, new, m) ==
  /\ DOMAIN lf = D /\ DOMAIN lf2 = D \cup {new} /\ n \in D /\ new \notin D /\ lf[n] /\ lf2[new]
  /\ \A q \in D : lf2[q] = lf[q] /\ (q # n => ks2[q] = ks[q] /\ vs2[q] = vs[q])
  /\ Len(ks[n]) \in Nat /\ Len(vs[n]) = Len(ks[n])
  /\ Cut(ks2[n], ks2[new], ks[n], m) /\ Cut(vs2[n], vs2[new], vs[n], m)

LEMMA CutKeepsLists ==
  ASSUME NEW D, NEW lf, NEW ks, NEW vs, NEW lf2, NEW ks2, NEW vs2, NEW n, NEW new, NEW m,
         LeafCut(D, lf, ks, vs, lf2, ks2, vs2, n, new, m), NEW k, NEW v
  PROVE  InTree(lf2, ks2, vs2, k, v) <=> InTree(lf, ks, vs, k, v)
<1>1. /\ DOMAIN lf = D /\ DOMAIN lf2 = D \cup {new} /\ n \in D /\ new \notin D /\ lf[n] /\ lf2[new]
      /\ \A q \in D : lf2[q] = lf[q] /\ (q # n => ks2[q] = ks[q] /\ vs2[q] = vs[q])
      /\ Len(ks[n]) \in Nat /\ Len(vs[n]) = Len(ks[n]) /\ m \in 0..Len(ks[n])
      /\ Len(ks2[n]) = m /\ Len(ks2[new]) = Len(ks[n]) - m
      /\ \A j \in 1..m : ks2[n][j] = ks[n][j] /\ vs2[n][j] = vs[n][j]
      /\ \A j \in 1..(Len(ks[n]) - m) : ks2[new][j] = ks[n][m + j] /\ vs2[new][j] = vs[n][m + j]
  BY DEF LeafCut, Cut
<1>2. ASSUME InTree(lf, ks, vs, k, v)
      PROVE  InTree(lf2, ks2, vs2, k, v)
  <2>1. PICK q \in D : lf[q] /\ \E i \in 1..Len(ks[q]) : ks[q][i] = k /\ vs[q][i] = v
    BY <1>1, <1>2 DEF InTree
  <2>2. PICK i \in 1..Len(ks[q]) : ks[q][i] = k /\ vs[q][i] = v
    BY <2>1
  <2>3. CASE q # n
    BY <2>1, <2>2, <2>3, <1>1 DEF InTree
  <2>4. CASE q = n /\ i <= m
    <3>1. i \in 1..Len(ks2[n]) /\ ks2[n][i] = k /\ vs2[n][i] = v
      BY <2>2, <2>4, <1>1
    <3> QED
      BY <3>1, <1>1 DEF InTree
  <2>5. CASE q = n /\ ~(i <= m)
    <3>0. i \in Nat /\ m \in Nat
      BY <2>2, <2>5, <1>1
    <3>1. i - m \in 1..Len(ks2[new]) /\ i - m \in 1..(Len(ks[n]) - m) /\ m + (i - m) = i
      BY <2>2, <2>5, <3>0, <1>1
    <3>2. ks2[new][i - m] = k /\ vs2[new][i - m] = v
      BY <2>2, <2>5, <3>1, <1>1
    <3> QED
      BY <3>1, <3>2, <1>1 DEF InTree
  <2> QED
    BY <2>3, <2>4, <2>5
<1>3. ASSUME InTree(lf2, ks2, vs2, k, v)
      PROVE  InTree(lf, ks, vs, k, v)
  <2>1. PICK q \in D \cup {new} : lf2[q] /\ \E i \in 1..Len(ks2[q]) : ks2[q][i] = k /\ vs2[q][i] = v
    BY <1>1, <1>3 DEF InTree
  <2>2. PICK i \in 1..Len(ks2[q]) : ks2[q][i] = k /\ vs2[q][i] = v
    BY <2>1
  <2>3. CASE q # n /\ q # new
    BY <2>1, <2>2, <2>3, <1>1 DEF InTree
  <2>4. CASE q = n
    <3>1. i \in 1..m /\ i \in 1..Len(ks[n])
      BY <2>2, <2>4, <1>1
    <3>2. ks[n][i] = k /\ vs[n][i] = v
      BY <2>2, <2>4, <3>1, <1>1
    <3> QED
      BY <3>1, <3>2, <1>1 DEF InTree
  <2>5. CASE q = new
    <3>1. i \in 1..(Len(ks[n]) - m) /\ m + i \in 1..Len(ks[n])
      BY <2>2, <2>5, <1>1
    <3>2. ks[n][m + i] = k /\ vs[n][m + i] = v
      BY <2>2, <2>5, <3>1, <1>1
    <3> QED
      BY <3>1, <3>2, <1>1 DEF InTree
  <2> QED
    BY <2>3, <2>4, <2>5
<1> QED
  BY <1>2, <1>3

\* Two halves of the lists of a leaf.
LEMMA CutLeafLists ==
  ASSUME NEW D, NEW lf, NEW ks, NEW vs, NEW lf2, NEW ks2, NEW vs2, NEW n, NEW new, NEW m, NEW L, NEW L2,
         LeafCut(D, lf, ks, vs, lf2, ks2, vs2, n, new, m), LeafLists(D, ks, vs, L), L[n] = 0,
         \A q \in D : L2[q] = L[q], vs2 \in [D \cup {new} -> Seq(Seq(Rows))]
  PROVE  LeafLists(D \cup {new}, ks2, vs2, L2)
<1>1. /\ n \in D /\ new \notin D
      /\ \A q \in D : q # n => ks2[q] = ks[q] /\ vs2[q] = vs[q]
      /\ Len(ks[n]) \in Nat /\ Len(vs[n]) = Len(ks[n]) /\ m \in 0..Len(ks[n])
      /\ Len(ks2[n]) = m /\ Len(ks2[new]) = Len(ks[n]) - m
      /\ Len(vs2[n]) = m /\ Len(vs2[new]) = Len(ks[n]) - m
      /\ \A j \in 1..m : ks2[n][j] = ks[n][j] /\ vs2[n][j] = vs[n][j]
      /\ \A j \in 1..(Len(ks[n]) - m) : ks2[new][j] = ks[n][m + j] /\ vs2[new][j] = vs[n][m + j]
  BY DEF LeafCut, Cut
<1>2. \A q \in D : L[q] = 0 =>
        /\ Len(vs[q]) = Len(ks[q])
        /\ \A i \in 1..Len(ks[q]) : ks[q][i] \in Keys /\ vs[q][i] \in Seq(RowsOf(ks[q][i]))
  BY DEF LeafLists
<1>3. ASSUME NEW q \in D \cup {new}, L2[q] = 0
      PROVE  /\ Len(vs2[q]) = Len(ks2[q])
             /\ \A i \in 1..Len(ks2[q]) : ks2[q][i] \in Keys /\ vs2[q][i] \in Seq(RowsOf(ks2[q][i]))
  <2>1. CASE q # n /\ q # new
    <3>1. q \in D /\ L[q] = 0 /\ ks2[q] = ks[q] /\ vs2[q] = vs[q]
      BY <2>1, <1>1, <1>3
    <3> QED
      BY <3>1, <1>2
  <2>2. CASE q = n
    <3>1. \A i \in 1..m : i \in 1..Len(ks[n])
      BY <1>1
    <3>2. \A i \in 1..m : ks2[n][i] \in Keys /\ vs2[n][i] \in Seq(RowsOf(ks2[n][i]))
      BY <3>1, <1>1, <1>2
    <3> QED
      BY <3>2, <2>2, <1>1
  <2>3. CASE q = new
    <3>1. \A i \in 1..(Len(ks[n]) - m) : m + i \in 1..Len(ks[n])
      BY <1>1
    <3>2. \A i \in 1..(Len(ks[n]) - m) : ks2[new][i] \in Keys /\ vs2[new][i] \in Seq(RowsOf(ks2[new][i]))
      BY <3>1, <1>1, <1>2
    <3> QED
      BY <3>2, <2>3, <1>1
  <2> QED
    BY <2>1, <2>2, <2>3
<1> QED
  BY <1>3 DEF LeafLists

\* The arithmetic of a split.
LEMMA MidFits ==
  ASSUME NEW l, l = Order, NEW m, m = l \div 2
  PROVE  /\ m \in Nat /\ m > 0 /\ m + 1 < l /\ m < l /\ m <= l /\ m + 1 \in 1..l /\ m \in 0..l
         /\ l - m < Order /\ m < Order /\ l - m - 1 < Order /\ l \in Nat
BY OrderAssumption

\* A leaf splits: the upper half moves to a new leaf behind it.
LEMMA SplitLeafKeysKeeps ==
  ASSUME NEW w \in Writers, Typed, NEW L, NEW S, NEW P, NEW N,
         Settled(w, L, S, P, N), Sizes(w), Work(w, L, S), SplitLeafKeys(w)
  PROVE  /\ Typed' /\ Sizes(w)'
         /\ \E L2, S2, P2, N2 : Settled(w, L2, S2, P2, N2)' /\ Work(w, L2, S2)'
         /\ \A k, v : InTree(TreeLeaf', TreeKeys(w)', TreeValues(w)', k, v)
                        <=> InTree(TreeLeaf, TreeKeys(w), TreeValues(w), k, v)
<1> DEFINE n == Here(w)
           D == DOMAIN nodes
           keys == nodes[n].keys
           values == nodes[n].values
           m == Mid(n)
           new == Len(nodes) + 1
           D2 == D \cup {new}
           k == keys[m + 1]
           low == [nodes[n] EXCEPT !.keys = Upto(keys, m)]
           high == Leaf(From(keys, m + 1), From(values, m + 1), Nil)
           o == [op[w] EXCEPT !.pc = "splitvalues", !.new = new, !.mid = k]
<1>1. /\ op[w].pc = "split" /\ nodes' = Append([nodes EXCEPT ![n] = low], high) /\ root' = root
      /\ op' = [op EXCEPT ![w] = o]
  BY DEF SplitLeafKeys
<1>2. op[w].pc \in LeafStages /\ op[w].pc \in Plain
  BY <1>1 DEF LeafStages, Plain
<1>3. /\ n \in D /\ L[n] = 0 /\ LeafWork(w, L, S) /\ n \in 1..Len(nodes) /\ nodes \in Seq(Node)
      /\ nodes[n] \in Node /\ nodes[n].leaf = TRUE /\ op[w] \in Ops /\ nodes[n].next \in Nat \cup {Nil}
      /\ WayOK(op[w].path, root, D, TreeChildren(w), L)
  BY <1>2, LeafContext
<1>4. /\ TreeKeys(w) = [q \in D |-> nodes[q].keys] /\ TreeValues(w) = [q \in D |-> nodes[q].values]
      /\ TreeChildren(w) = [q \in D |-> nodes[q].children] /\ TreeNext(w) = [q \in D |-> nodes[q].next]
      /\ Cur(w) = 0 /\ New(w) = 0 /\ Middle(w) = 0
  BY <1>2, PlainTree
<1>5. TreeKeys(w)[n] = keys /\ TreeValues(w)[n] = values
  BY <1>3, <1>4
<1>6. GoodLeaf(keys, values, S[n])
  BY <1>3, <1>5, LeavesAreGood
<1>7. /\ keys \in Seq(Int) /\ values \in Seq(Seq(Rows)) /\ Len(values) = Len(keys)
      /\ \A i \in 1..Len(keys) : keys[i] \in S[n]
  BY <1>6 DEF GoodLeaf
<1>8. Len(keys) = Order
  <2>1. Doing(w, "split", n)
    BY <1>1 DEF Doing
  <2> QED
    BY <2>1, <1>3, <1>5 DEF Sizes
<1>9. /\ m \in Nat /\ m > 0 /\ m < Len(keys) /\ m <= Len(keys) /\ m + 1 \in 1..Len(keys) /\ m \in 0..Len(keys)
      /\ Len(keys) - m < Order /\ m < Order /\ Len(keys) \in Nat
  <2>1. m = Len(keys) \div 2
    BY DEF Mid
  <2> HIDE DEF m, keys
  <2> QED
    BY <2>1, <1>8, MidFits
<1> HIDE DEF m
<1>10. k \in Int /\ k \in S[n] /\ keys[1] \in S[n] /\ keys[1] < k
  <2>1. 1 \in 1..Len(keys) /\ 1 < m + 1
    BY <1>9
  <2>2. keys[1] < keys[m + 1]
    BY <2>1, <1>6, <1>9 DEF GoodLeaf, Ascending
  <2>3. keys[m + 1] \in Int
    BY <1>7, <1>9, ElementOfSeq
  <2> QED
    BY <2>1, <2>2, <2>3, <1>7, <1>9
<1>11. /\ Upto(keys, m) \in Seq(Int) /\ Len(Upto(keys, m)) = m
       /\ \A j \in 1..m : Upto(keys, m)[j] = keys[j]
       /\ From(keys, m + 1) \in Seq(Int) /\ Len(From(keys, m + 1)) = Len(keys) - m
       /\ \A j \in 1..(Len(keys) - m) : From(keys, m + 1)[j] = keys[m + j]
  <2> HIDE DEF keys
  <2> QED
    BY <1>7, <1>9, Halves
<1>12. /\ Upto(values, m) \in Seq(Seq(Rows)) /\ Len(Upto(values, m)) = m
       /\ \A j \in 1..m : Upto(values, m)[j] = values[j]
       /\ From(values, m + 1) \in Seq(Seq(Rows)) /\ Len(From(values, m + 1)) = Len(values) - m
       /\ \A j \in 1..(Len(values) - m) : From(values, m + 1)[j] = values[m + j]
  <2>1. m <= Len(values)
    BY <1>7, <1>9
  <2> HIDE DEF values
  <2> QED
    BY <2>1, <1>7, <1>9, Halves
<1>13. /\ low \in Node /\ low.leaf = TRUE /\ low.keys = Upto(keys, m) /\ low.values = values
       /\ low.children = nodes[n].children /\ low.next = nodes[n].next
  BY <1>3, <1>11 DEF Node
<1>14. /\ high \in Node /\ high.leaf = TRUE /\ high.keys = From(keys, m + 1)
       /\ high.values = From(values, m + 1) /\ high.children = <<>> /\ high.next = Nil
  BY <1>11, <1>12 DEF Node, Leaf
<1> HIDE DEF low, high
<1>15. /\ nodes' \in Seq(Node) /\ DOMAIN nodes' = D2 /\ new \notin D /\ new \in Nat /\ new # 0
       /\ nodes'[n] = low /\ nodes'[new] = high /\ \A q \in D : q # n => nodes'[q] = nodes[q]
  BY <1>1, <1>3, <1>13, <1>14, OneMore
<1>16. o \in Ops /\ o.pc = "splitvalues" /\ o.new = new /\ o.mid = k /\ o.path = op[w].path
  <2> HIDE DEF new, k
  <2> QED
    BY <1>3, <1>10, <1>15 DEF Ops, LeafStages
<1> HIDE DEF o
<1>17. op' \in [Writers -> {Idle} \cup Ops] /\ op'[w] = o
  BY <1>1, <1>16, OpChanges
<1>18. Here(w)' = n
  BY <1>16, <1>17 DEF Here
<1> HIDE DEF new, k
<1>19. Typed'
  BY <1>1, <1>3, <1>15, <1>17 DEF Typed
<1>20. Cur(w)' = n /\ New(w)' = new /\ Middle(w)' = k
  BY <1>15, <1>16, <1>17, <1>18 DEF Cur, New, Middle
<1>21. ASSUME NEW q \in D2
       PROVE  /\ TreeKeys(w)'[q] = nodes'[q].keys /\ TreeChildren(w)'[q] = nodes'[q].children
              /\ TreeValues(w)'[q] = IF q = n THEN Upto(values, m) ELSE nodes'[q].values
              /\ TreeNext(w)'[q] = IF q = n THEN new ELSE IF q = new THEN nodes[n].next ELSE nodes'[q].next
  <2>1. /\ ~Doing(w, "value", q)' /\ ~Doing(w, "child", q)' /\ ~Doing(w, "popvalue", q)'
        /\ ~Doing(w, "splitchildren", q)' /\ (Doing(w, "splitvalues", q)' <=> q = n)
    BY <1>16, <1>17, <1>18 DEF Doing
  <2>2. TreeKeys(w)'[q] = nodes'[q].keys /\ TreeChildren(w)'[q] = nodes'[q].children
    BY <2>1, <1>15 DEF TreeKeys, TreeChildren
  <2>3. TreeValues(w)'[q] = IF q = n THEN Upto(nodes'[q].values, Len(nodes'[q].keys)) ELSE nodes'[q].values
    BY <2>1, <1>15 DEF TreeValues
  <2>4. q = n => Upto(nodes'[q].values, Len(nodes'[q].keys)) = Upto(values, m)
    BY <1>11, <1>13, <1>15
  <2>5. TreeNext(w)'[q] = IF q = n THEN new ELSE IF q = new THEN nodes'[n].next ELSE nodes'[q].next
    BY <1>15, <1>16, <1>17, <1>18 DEF TreeNext
  <2>6. nodes'[n].next = nodes[n].next
    BY <1>13, <1>15
  <2> QED
    BY <2>2, <2>3, <2>4, <2>5, <2>6
<1> DEFINE ks2 == TreeKeys(w)'
           cs2 == TreeChildren(w)'
           vs2 == TreeValues(w)'
           xs2 == TreeNext(w)'
           L2 == [q \in D2 |-> IF q = new THEN L[n] ELSE L[q]]
           S2 == [q \in D2 |-> IF q = n THEN {x \in S[n] : x < k}
                               ELSE IF q = new THEN {x \in S[n] : k <= x} ELSE S[q]]
           Lv == {q \in D : L[q] = 0}
           P2 == [q \in Lv \cup {new} |-> IF q = new THEN P[n] + 1
                                          ELSE IF P[q] > P[n] THEN P[q] + 1 ELSE P[q]]
<1>22. ks2 \in [D2 -> Seq(Int)] /\ cs2 \in [D2 -> Seq(Nat)] /\ vs2 \in [D2 -> Seq(Seq(Rows))]
  <2>1. ks2 = [q \in D2 |-> ks2[q]] /\ cs2 = [q \in D2 |-> cs2[q]] /\ vs2 = [q \in D2 |-> vs2[q]]
    BY <1>15 DEF TreeKeys, TreeChildren, TreeValues
  <2>2. \A q \in D2 : nodes'[q] \in Node
    BY <1>15, LenProperties, ElementOfSeq
  <2>3. \A q \in D2 : ks2[q] \in Seq(Int) /\ cs2[q] \in Seq(Nat) /\ vs2[q] \in Seq(Seq(Rows))
    BY <2>2, <1>12, <1>21, NodeFields
  <2> HIDE DEF ks2, cs2, vs2, D2
  <2> QED
    BY <2>1, <2>3
<1>23. /\ \A q \in D : q # n => /\ ks2[q] = TreeKeys(w)[q] /\ vs2[q] = TreeValues(w)[q]
                                /\ cs2[q] = TreeChildren(w)[q] /\ xs2[q] = TreeNext(w)[q]
       /\ ks2[n] = Upto(keys, m) /\ ks2[new] = From(keys, m + 1)
       /\ vs2[n] = Upto(values, m) /\ vs2[new] = From(values, m + 1)
       /\ xs2[n] = new /\ xs2[new] = TreeNext(w)[n]
  BY <1>3, <1>4, <1>13, <1>14, <1>15, <1>21
<1>24. \A q \in D2 : TreeLeaf'[q] = IF q = new THEN TRUE ELSE TreeLeaf[q]
  <2>1. \A q \in D2 : TreeLeaf'[q] = nodes'[q].leaf
    BY <1>15 DEF TreeLeaf
  <2>2. \A q \in D : TreeLeaf[q] = nodes[q].leaf
    BY DEF TreeLeaf
  <2> QED
    BY <2>1, <2>2, <1>3, <1>13, <1>14, <1>15
<1>25. /\ TreeOK(D, root, TreeKeys(w), TreeChildren(w), L, S, 0, 0)
       /\ ChainOK(Lv, TreeNext(w), S, P, N) /\ LeafLists(D, TreeKeys(w), TreeValues(w), L)
       /\ \A q \in D : TreeLeaf[q] <=> L[q] = 0
  BY <1>4 DEF Settled, Shape
<1>26. /\ L \in [D -> Nat] /\ S \in [D -> SUBSET Int] /\ 0 \notin D /\ root \in D
       /\ \A q \in D : L[q] \in Nat
  BY Known
<1>27. L2[new] = 0 /\ \A q \in D : L2[q] = L[q]
  BY <1>3, <1>15
<1>28. Parted(D, L, S, n, new, k, D2, L2, S2)
  BY <1>3, <1>15 DEF Parted
<1> HIDE DEF ks2, cs2, vs2, xs2, L2, S2
<1>29. Split(D, TreeKeys(w), TreeChildren(w), L, S, n, new, m, 0, D2, ks2, cs2, L2, S2)
  <2>1. Parted(D, L, S, n, new, TreeKeys(w)[n][m + 1], D2, L2, S2)
    BY <1>5, <1>28 DEF k
  <2>2. Lists(D2, ks2, cs2)
    BY <1>22 DEF Lists
  <2>3. \A q \in D : q # n => ks2[q] = TreeKeys(w)[q] /\ cs2[q] = TreeChildren(w)[q]
    BY <1>23
  <2>4. /\ Len(ks2[n]) = m /\ \A j \in 1..m : ks2[n][j] = TreeKeys(w)[n][j]
    BY <1>5, <1>11, <1>23
  <2>5. /\ Len(ks2[new]) = Len(TreeKeys(w)[n]) - m - 0
        /\ \A j \in 1..Len(ks2[new]) : ks2[new][j] = TreeKeys(w)[n][m + 0 + j]
    <3>1. Len(keys) - m - 0 = Len(keys) - m /\ \A j \in 1..(Len(keys) - m) : m + 0 + j = m + j
      <4>1. m \in Nat /\ Len(keys) \in Nat
        BY <1>9
      <4> HIDE DEF keys
      <4> QED
        BY <4>1
    <3> QED
      BY <3>1, <1>5, <1>11, <1>23
  <2>6. 0 \notin D /\ new \in Nat /\ m \in Nat /\ m > 0 /\ m + 0 < Len(TreeKeys(w)[n])
    BY <1>5, <1>9, <1>15, <1>26
  <2>7. ~(L[n] > 0)
    BY <1>3
  <2> QED
    BY <2>1, <2>2, <2>3, <2>4, <2>5, <2>6, <2>7 DEF Split
<1>30. TreeOK(D2, root, ks2, cs2, L2, S2, n, new) /\ Pending(D2, root, L2, S2, n, new, k)
  <2>1. TreeKeys(w)[n][m + 1] = k
    BY <1>5 DEF k
  <2> HIDE DEF D2, n, D, keys, values
  <2> QED
    BY <2>1, <1>25, <1>29, SplitTree
<1>31. {q \in D2 : L2[q] = 0} = Lv \cup {new}
  BY <1>15, <1>27
<1>32. ChainOK({q \in D2 : L2[q] = 0}, xs2, S2, P2, N + 1)
  <2>1. n \in Lv /\ new \notin Lv
    BY <1>3, <1>15
  <2>2. \A q \in Lv : S[q] \subseteq Int
    BY <1>26
  <2>3. S2[n] = {x \in S[n] : x < k} /\ S2[new] = {x \in S[n] : k <= x} /\ \A q \in Lv : q # n => S2[q] = S[q]
    BY <1>3, <1>15 DEF S2
  <2>4. \A q \in Lv : q # n => S2[q] = S[q] /\ xs2[q] = TreeNext(w)[q]
    BY <2>3, <1>23
  <2>5. xs2[n] = new /\ xs2[new] = TreeNext(w)[n]
    BY <1>23
  <2> DEFINE LL == Lv \cup {new}
             Q2 == P2
  <2>6. Q2 = [q \in LL |-> IF q = new THEN P[n] + 1 ELSE IF P[q] > P[n] THEN P[q] + 1 ELSE P[q]]
    OBVIOUS
  <2>7. LL = Lv \cup {new}
    OBVIOUS
  <2> HIDE DEF LL, Q2, Lv, n
  <2>8. ChainOK(LL, xs2, S2, Q2, N + 1)
    <3>1. NextLeaf(Lv, TreeNext(w), S, P, n, new, k, LL, xs2, S2, Q2)
      BY <2>1, <2>2, <2>3, <2>4, <2>5, <2>6, <2>7, <1>10 DEF NextLeaf
    <3> QED
      BY <3>1, <1>25, SplitChain
  <2> QED
    BY <2>8, <1>31 DEF LL, Q2
<1>33. LeafCut(D, TreeLeaf, TreeKeys(w), TreeValues(w), TreeLeaf', ks2, vs2, n, new, m)
  <2>1. DOMAIN TreeLeaf = D /\ DOMAIN TreeLeaf' = D \cup {new}
    BY <1>15 DEF TreeLeaf
  <2>2. TreeLeaf[n] /\ TreeLeaf'[new] /\ \A q \in D : TreeLeaf'[q] = TreeLeaf[q]
    BY <1>3, <1>15, <1>24, <1>25
  <2>3. Len(TreeKeys(w)[n]) \in Nat /\ Len(TreeValues(w)[n]) = Len(TreeKeys(w)[n])
    BY <1>5, <1>7, <1>9
  <2>4. Cut(ks2[n], ks2[new], TreeKeys(w)[n], m) /\ Cut(vs2[n], vs2[new], TreeValues(w)[n], m)
    BY <1>5, <1>7, <1>9, <1>11, <1>12, <1>23 DEF Cut
  <2> QED
    BY <2>1, <2>2, <2>3, <2>4, <1>3, <1>15, <1>23 DEF LeafCut
<1>34. LeafLists(D2, ks2, vs2, L2)
  BY <1>3, <1>22, <1>25, <1>27, <1>33, CutLeafLists
<1>35. \A q \in D2 : TreeLeaf'[q] <=> L2[q] = 0
  BY <1>15, <1>24, <1>25, <1>27
<1>36. PICK LL, SS, PP, NN : LL = L2 /\ SS = S2 /\ PP = P2 /\ NN = N + 1
  OBVIOUS
<1>37. Settled(w, LL, SS, PP, NN)'
  <2>1. Shape(D2, root, ks2, vs2, cs2, xs2, TreeLeaf', n, new, k, LL, SS, PP, NN)
    BY <1>15, <1>30, <1>32, <1>34, <1>35, <1>36 DEF Shape
  <2> QED
    BY <2>1, <1>1, <1>15, <1>20 DEF Settled, ks2, vs2, cs2, xs2
<1>38. Sizes(w)'
  <2>1. \A q \in D2 : ~Doing(w, "split", q)' /\ ~Doing(w, "splitinner", q)'
    BY <1>16, <1>17 DEF Doing
  <2>2. \A q \in D : q # n => ~Doing(w, "split", q) /\ ~Doing(w, "splitinner", q)
    BY <1>1 DEF Doing
  <2>3. \A q \in D : q # n => Len(TreeKeys(w)[q]) < Order
    BY <2>2 DEF Sizes
  <2>4. Len(ks2[n]) < Order /\ Len(ks2[new]) < Order
    BY <1>9, <1>11, <1>23
  <2>5. \A q \in D2 : Len(ks2[q]) < Order
    BY <2>3, <2>4, <1>23
  <2> QED
    BY <2>1, <2>5, <1>15 DEF Sizes, ks2
<1>39. Work(w, LL, SS)'
  <2>1. WayOK(op[w].path, root, D2, cs2, LL)
    <3>1. n = Last(op[w].path).node
      BY DEF Here
    <3>2. /\ D \subseteq D2 /\ L[root] \in Nat /\ \A q \in D : LL[q] = L[q]
          /\ \A q \in D : q # n => cs2[q] = TreeChildren(w)[q]
      BY <1>23, <1>26, <1>27, <1>36
    <3> HIDE DEF n, D2, D
    <3> QED
      BY <3>1, <3>2, <1>3, <1>26, SameWay
  <2>2. op'[w].path = op[w].path /\ op'[w].pc = "splitvalues"
    BY <1>16, <1>17
  <2>3. WayOK(op'[w].path, root', DOMAIN nodes', TreeChildren(w)', LL)
    BY <2>1, <2>2, <1>1, <1>15 DEF cs2
  <2>4. LL[Here(w)'] = 0
    BY <1>3, <1>18, <1>27, <1>36
  <2>5. Len(nodes'[Here(w)'].keys) <= Len(nodes'[Here(w)'].values)
    BY <1>7, <1>9, <1>11, <1>13, <1>15, <1>18
  <2>6. LeafWork(w, LL, SS)'
    BY <2>2, <2>4, <2>5 DEF LeafWork
  <2>7. InnerWork(w, LL)'
    BY <2>2 DEF InnerWork, InnerStages
  <2> QED
    BY <2>3, <2>6, <2>7 DEF Work
<1>40. \A key, v : InTree(TreeLeaf', TreeKeys(w)', TreeValues(w)', key, v)
                     <=> InTree(TreeLeaf, TreeKeys(w), TreeValues(w), key, v)
  BY <1>33, CutKeepsLists DEF ks2, vs2
<1> QED
  BY <1>19, <1>37, <1>38, <1>39, <1>40

\* The settled tree stays, and so does what it says.
TreeStays(w) ==
  /\ DOMAIN nodes' = DOMAIN nodes /\ root' = root /\ TreeLeaf' = TreeLeaf
  /\ TreeKeys(w)' = TreeKeys(w) /\ TreeValues(w)' = TreeValues(w)
  /\ TreeChildren(w)' = TreeChildren(w) /\ TreeNext(w)' = TreeNext(w)
  /\ Cur(w)' = Cur(w) /\ New(w)' = New(w) /\ Middle(w)' = Middle(w)

LEMMA StayingTree ==
  ASSUME NEW w, NEW L, NEW S, NEW P, NEW N, Settled(w, L, S, P, N), TreeStays(w)
  PROVE  Settled(w, L, S, P, N)'
BY DEF Settled, TreeStays

\* No node is over-full, before and after.
LEMMA StayingSizes ==
  ASSUME NEW w, Sizes(w), TreeStays(w), op[w].pc \notin {"split", "splitinner"},
         op'[w].pc \notin {"split", "splitinner"}
  PROVE  Sizes(w)'
BY DEF Sizes, TreeStays, Doing

LEMMA SplitLeafValuesKeeps ==
  ASSUME NEW w \in Writers, Typed, NEW L, NEW S, NEW P, NEW N,
         Settled(w, L, S, P, N), Sizes(w), Work(w, L, S), SplitLeafValues(w)
  PROVE  /\ Typed' /\ Settled(w, L, S, P, N)' /\ Sizes(w)' /\ Work(w, L, S)' /\ TreeStays(w)
<1> DEFINE n == Here(w)
           D == DOMAIN nodes
           keys == nodes[n].keys
           values == nodes[n].values
           node == [nodes[n] EXCEPT !.values = Upto(values, Len(keys))]
<1>1. op[w].pc = "splitvalues" /\ nodes' = [nodes EXCEPT ![n] = node] /\ root' = root /\ Go(w, "link")
  BY DEF SplitLeafValues, Change
<1>2. op[w].pc \in LeafStages
  BY <1>1 DEF LeafStages
<1>3. /\ n \in D /\ L[n] = 0 /\ LeafWork(w, L, S) /\ n \in 1..Len(nodes) /\ nodes \in Seq(Node)
      /\ nodes[n] \in Node /\ op[w] \in Ops /\ keys \in Seq(Int) /\ values \in Seq(Seq(Rows))
      /\ WayOK(op[w].path, root, D, TreeChildren(w), L)
  BY <1>2, LeafContext
<1>4. Len(keys) <= Len(values) /\ Len(keys) \in Nat
  BY <1>1, <1>3, LenProperties DEF LeafWork
<1>5. Upto(values, Len(keys)) \in Seq(Seq(Rows))
  <2> DEFINE m == Len(keys)
  <2>1. m \in Nat /\ m <= Len(values)
    BY <1>4
  <2> HIDE DEF m, values
  <2>2. Upto(values, m) \in Seq(Seq(Rows))
    BY <2>1, <1>3, Halves
  <2> QED
    BY <2>2 DEF m
<1>6. /\ node \in Node /\ node.leaf = nodes[n].leaf /\ node.keys = keys /\ node.values = Upto(values, Len(keys))
      /\ node.children = nodes[n].children /\ node.next = nodes[n].next
  BY <1>3, <1>5 DEF Node
<1> HIDE DEF node
<1>7. /\ nodes' \in Seq(Node) /\ DOMAIN nodes' = D /\ nodes'[n] = node
      /\ \A q \in D : q # n => nodes'[q] = nodes[q]
  BY <1>1, <1>3, <1>6, OneElement
<1>8. /\ op' \in [Writers -> {Idle} \cup Ops] /\ op'[w] \in Ops /\ op'[w].pc = "link"
      /\ op'[w].path = op[w].path /\ op'[w].mid = op[w].mid /\ op'[w].new = op[w].new
      /\ Here(w)' = n
  <2>1. "link" \in LeafStages \cup InnerStages \cup {"root"}
    BY DEF LeafStages
  <2> QED
    BY <2>1, <1>1, <1>3, Moves
<1>9. Typed'
  BY <1>1, <1>3, <1>7, <1>8 DEF Typed
<1>10. ASSUME NEW q \in D
       PROVE  /\ TreeKeys(w)'[q] = nodes'[q].keys /\ TreeChildren(w)'[q] = nodes'[q].children
              /\ TreeValues(w)'[q] = nodes'[q].values
              /\ TreeNext(w)'[q] = IF q = n THEN op[w].new ELSE IF q = op[w].new THEN nodes'[n].next ELSE nodes'[q].next
  <2>1. /\ ~Doing(w, "value", q)' /\ ~Doing(w, "child", q)' /\ ~Doing(w, "popvalue", q)'
        /\ ~Doing(w, "splitchildren", q)' /\ ~Doing(w, "splitvalues", q)'
    BY <1>8 DEF Doing
  <2> QED
    BY <2>1, <1>7, <1>8 DEF TreeKeys, TreeChildren, TreeValues, TreeNext
<1>11. ASSUME NEW q \in D
       PROVE  /\ TreeKeys(w)[q] = nodes[q].keys /\ TreeChildren(w)[q] = nodes[q].children
              /\ TreeValues(w)[q] = IF q = n THEN Upto(nodes[q].values, Len(nodes[q].keys)) ELSE nodes[q].values
              /\ TreeNext(w)[q] = IF q = n THEN op[w].new ELSE IF q = op[w].new THEN nodes[n].next ELSE nodes[q].next
  <2>1. /\ ~Doing(w, "value", q) /\ ~Doing(w, "child", q) /\ ~Doing(w, "popvalue", q)
        /\ ~Doing(w, "splitchildren", q) /\ (Doing(w, "splitvalues", q) <=> q = n)
    BY <1>1 DEF Doing
  <2> QED
    BY <2>1, <1>1 DEF TreeKeys, TreeChildren, TreeValues, TreeNext
<1>12. \A q \in D : /\ TreeKeys(w)'[q] = TreeKeys(w)[q] /\ TreeChildren(w)'[q] = TreeChildren(w)[q]
                    /\ TreeValues(w)'[q] = TreeValues(w)[q] /\ TreeNext(w)'[q] = TreeNext(w)[q]
                    /\ nodes'[q].leaf = nodes[q].leaf
  BY <1>3, <1>6, <1>7, <1>10, <1>11
<1>13. /\ TreeKeys(w)' = TreeKeys(w) /\ TreeChildren(w)' = TreeChildren(w)
       /\ TreeValues(w)' = TreeValues(w) /\ TreeNext(w)' = TreeNext(w) /\ TreeLeaf' = TreeLeaf
  <2>1. TreeKeys(w)' = [q \in D |-> TreeKeys(w)'[q]] /\ TreeKeys(w) = [q \in D |-> TreeKeys(w)[q]]
    BY <1>7 DEF TreeKeys
  <2>2. TreeChildren(w)' = [q \in D |-> TreeChildren(w)'[q]] /\ TreeChildren(w) = [q \in D |-> TreeChildren(w)[q]]
    BY <1>7 DEF TreeChildren
  <2>3. TreeValues(w)' = [q \in D |-> TreeValues(w)'[q]] /\ TreeValues(w) = [q \in D |-> TreeValues(w)[q]]
    BY <1>7 DEF TreeValues
  <2>4. TreeNext(w)' = [q \in D |-> TreeNext(w)'[q]] /\ TreeNext(w) = [q \in D |-> TreeNext(w)[q]]
    BY <1>7 DEF TreeNext
  <2>5. TreeLeaf' = TreeLeaf
    BY <1>7, <1>12 DEF TreeLeaf
  <2> QED
    BY <2>1, <2>2, <2>3, <2>4, <2>5, <1>12
<1>14. TreeStays(w)
  <2>1. Cur(w)' = Cur(w) /\ New(w)' = New(w) /\ Middle(w)' = Middle(w)
    BY <1>1, <1>8 DEF Cur, New, Middle
  <2> QED
    BY <2>1, <1>1, <1>7, <1>13 DEF TreeStays
<1>15. Settled(w, L, S, P, N)' /\ Sizes(w)'
  BY <1>1, <1>8, <1>14, StayingTree, StayingSizes
<1>16. Work(w, L, S)'
  <2>1. WayOK(op'[w].path, root', DOMAIN nodes', TreeChildren(w)', L)
    BY <1>1, <1>3, <1>7, <1>8, <1>13
  <2>2. LeafWork(w, L, S)'
    BY <1>3, <1>8 DEF LeafWork
  <2>3. InnerWork(w, L)'
    BY <1>8 DEF InnerWork, InnerStages
  <2> QED
    BY <2>1, <2>2, <2>3 DEF Work
<1> QED
  BY <1>9, <1>14, <1>15, <1>16

\* At the other nodes no list is half changed.
LEMMA Elsewhere ==
  ASSUME NEW w, NEW q \in DOMAIN nodes, q # Here(w)
  PROVE  /\ TreeKeys(w)[q] = nodes[q].keys /\ TreeValues(w)[q] = nodes[q].values
         /\ TreeChildren(w)[q] = nodes[q].children
<1>1. \A pc : ~Doing(w, pc, q)
  BY DEF Doing
<1> QED
  BY <1>1 DEF TreeKeys, TreeValues, TreeChildren

LEMMA ElsewhereNext ==
  ASSUME NEW w, NEW q \in DOMAIN nodes', q # Here(w)'
  PROVE  /\ TreeKeys(w)'[q] = nodes'[q].keys /\ TreeValues(w)'[q] = nodes'[q].values
         /\ TreeChildren(w)'[q] = nodes'[q].children
<1>1. \A pc : ~Doing(w, pc, q)'
  BY DEF Doing
<1> QED
  BY <1>1 DEF TreeKeys, TreeValues, TreeChildren

\* The tree is settled as it was when every node is.
LEMMA SameTree ==
  ASSUME NEW w, DOMAIN nodes' = DOMAIN nodes, root' = root,
         \A q \in DOMAIN nodes :
           /\ TreeKeys(w)'[q] = TreeKeys(w)[q] /\ TreeValues(w)'[q] = TreeValues(w)[q]
           /\ TreeChildren(w)'[q] = TreeChildren(w)[q] /\ TreeNext(w)'[q] = TreeNext(w)[q]
           /\ nodes'[q].leaf = nodes[q].leaf,
         Cur(w)' = Cur(w), New(w)' = New(w), Middle(w)' = Middle(w)
  PROVE  TreeStays(w)
<1> DEFINE D == DOMAIN nodes
<1>1. TreeKeys(w)' = [q \in D |-> TreeKeys(w)'[q]] /\ TreeKeys(w) = [q \in D |-> TreeKeys(w)[q]]
  BY DEF TreeKeys
<1>2. TreeChildren(w)' = [q \in D |-> TreeChildren(w)'[q]] /\ TreeChildren(w) = [q \in D |-> TreeChildren(w)[q]]
  BY DEF TreeChildren
<1>3. TreeValues(w)' = [q \in D |-> TreeValues(w)'[q]] /\ TreeValues(w) = [q \in D |-> TreeValues(w)[q]]
  BY DEF TreeValues
<1>4. TreeNext(w)' = [q \in D |-> TreeNext(w)'[q]] /\ TreeNext(w) = [q \in D |-> TreeNext(w)[q]]
  BY DEF TreeNext
<1>5. TreeLeaf' = TreeLeaf
  BY DEF TreeLeaf
<1> QED
  BY <1>1, <1>2, <1>3, <1>4, <1>5 DEF TreeStays

\* A split is done: on to the parent, or to a new root.
LEMMA GoesUp ==
  ASSUME NEW w \in Writers, Typed, op[w] \in Ops, Up(w), NEW D, NEW cs, NEW L,
         WayOK(op[w].path, root, D, cs, L), L[root] \in Nat
  PROVE  /\ op' \in [Writers -> {Idle} \cup Ops] /\ op'[w] \in Ops
         /\ op'[w].new = op[w].new /\ op'[w].mid = op[w].mid
         /\ WayOK(op'[w].path, root, D, cs, L)
         /\ \/ op'[w].pc = "root" /\ Len(op'[w].path) = 1 /\ Here(w)' = Here(w)
            \/ /\ op'[w].pc = "parent" /\ Here(w)' # Here(w)
               /\ At(w)' \in 1..Len(cs[Here(w)']) /\ cs[Here(w)'][At(w)'] = Here(w)
               /\ L[Here(w)'] = L[Here(w)] + 1
<1>1. CASE Len(op[w].path) = 1
  <2>1. Go(w, "root")
    BY <1>1 DEF Up
  <2>2. /\ op' \in [Writers -> {Idle} \cup Ops] /\ op'[w] \in Ops /\ op'[w].pc = "root"
        /\ op'[w].path = op[w].path /\ op'[w].mid = op[w].mid /\ op'[w].new = op[w].new
        /\ Here(w)' = Here(w)
    BY <2>1, Moves
  <2> QED
    BY <1>1, <2>2
<1>2. CASE Len(op[w].path) # 1
  <2> DEFINE o == [op[w] EXCEPT !.pc = "parent", !.path = Front(op[w].path)]
             front == Front(op[w].path)
  <2>1. op' = [op EXCEPT ![w] = o]
    BY <1>2 DEF Up
  <2>2. /\ WayOK(front, root, D, cs, L) /\ front \in Seq(Steps)
        /\ Last(front).at \in 1..Len(cs[Last(front).node])
        /\ cs[Last(front).node][Last(front).at] = Here(w)
        /\ L[Last(front).node] = L[Here(w)] + 1
        /\ Last(front).node # Here(w)
    BY <1>2, ShorterWay DEF Here
  <2>3. o \in Ops /\ o.pc = "parent" /\ o.path = front /\ o.new = op[w].new /\ o.mid = op[w].mid
    BY <2>2 DEF Ops, InnerStages
  <2> HIDE DEF o, front
  <2>4. op' \in [Writers -> {Idle} \cup Ops] /\ op'[w] = o
    BY <2>1, <2>3, OpChanges
  <2>5. Here(w)' = Last(front).node /\ At(w)' = Last(front).at
    BY <2>3, <2>4 DEF Here, At
  <2> QED
    BY <2>2, <2>3, <2>4, <2>5
<1> QED
  BY <1>1, <1>2

\* What the writer knows while it works on a node or above a split one.
LEMMA WorkContext ==
  ASSUME NEW w \in Writers, Typed, NEW L, NEW S, NEW P, NEW N, Settled(w, L, S, P, N), Work(w, L, S),
         op[w].pc \in LeafStages \cup InnerStages \cup {"root"}
  PROVE  /\ op[w] \in Ops /\ op[w].mid \in Int /\ op[w].new \in Nat \cup {Nil} /\ op[w].path \in Seq(Steps)
         /\ DOMAIN nodes = 1..Len(nodes) /\ Len(nodes) \in Nat /\ nodes \in Seq(Node)
         /\ Here(w) \in DOMAIN nodes /\ nodes[Here(w)] \in Node /\ Here(w) # 0
         /\ WayOK(op[w].path, root, DOMAIN nodes, TreeChildren(w), L)
         /\ LeafWork(w, L, S) /\ InnerWork(w, L) /\ L[root] \in Nat
<1>1. op[w].pc # "idle" /\ op[w] # Idle
  BY DEF LeafStages, InnerStages, Idle
<1>2. WayOK(op[w].path, root, DOMAIN nodes, TreeChildren(w), L) /\ LeafWork(w, L, S) /\ InnerWork(w, L)
  BY <1>1 DEF Work
<1>3. /\ DOMAIN nodes = 1..Len(nodes) /\ Len(nodes) \in Nat /\ nodes \in Seq(Node)
      /\ op[w] \in Ops /\ Here(w) \in 1..Len(nodes) /\ nodes[Here(w)] \in Node
  BY <1>1, <1>2, AtWork
<1>4. op[w].mid \in Int /\ op[w].new \in Nat \cup {Nil} /\ op[w].path \in Seq(Steps)
  BY <1>3 DEF Ops
<1>5. L[root] \in Nat
  BY Known
<1> QED
  BY <1>2, <1>3, <1>4, <1>5

\* The nodes have become what the settled tree says.
Realised(w) ==
  /\ nodes' \in Seq(Node) /\ DOMAIN nodes' = DOMAIN nodes /\ root' = root
  /\ \A q \in DOMAIN nodes :
       /\ nodes'[q].keys = TreeKeys(w)[q] /\ nodes'[q].values = TreeValues(w)[q]
       /\ nodes'[q].children = TreeChildren(w)[q] /\ nodes'[q].next = TreeNext(w)[q]
       /\ nodes'[q].leaf = nodes[q].leaf

LEMMA UpKeeps ==
  ASSUME NEW w \in Writers, Typed, NEW L, NEW S, NEW P, NEW N,
         Settled(w, L, S, P, N), Sizes(w), Work(w, L, S),
         op[w].pc \in {"link", "splitchildren"}, Up(w), Realised(w)
  PROVE  /\ Typed' /\ Settled(w, L, S, P, N)' /\ Sizes(w)' /\ Work(w, L, S)' /\ TreeStays(w)
<1> DEFINE D == DOMAIN nodes
<1>1. op[w].pc \in LeafStages \cup InnerStages \cup {"root"}
  BY DEF LeafStages, InnerStages
<1>2. /\ op[w] \in Ops /\ Here(w) \in D /\ L[root] \in Nat
      /\ WayOK(op[w].path, root, D, TreeChildren(w), L)
  BY <1>1, WorkContext
<1>3. /\ op' \in [Writers -> {Idle} \cup Ops] /\ op'[w] \in Ops
      /\ op'[w].new = op[w].new /\ op'[w].mid = op[w].mid
      /\ WayOK(op'[w].path, root, D, TreeChildren(w), L)
      /\ \/ op'[w].pc = "root" /\ Len(op'[w].path) = 1 /\ Here(w)' = Here(w)
         \/ /\ op'[w].pc = "parent" /\ Here(w)' # Here(w)
            /\ At(w)' \in 1..Len(TreeChildren(w)[Here(w)']) /\ TreeChildren(w)[Here(w)'][At(w)'] = Here(w)
            /\ L[Here(w)'] = L[Here(w)] + 1
  BY <1>2, GoesUp
<1>4. op'[w].pc \in {"root", "parent"}
  BY <1>3
<1>5. /\ nodes' \in Seq(Node) /\ DOMAIN nodes' = D /\ root' = root
      /\ \A q \in D :
           /\ nodes'[q].keys = TreeKeys(w)[q] /\ nodes'[q].values = TreeValues(w)[q]
           /\ nodes'[q].children = TreeChildren(w)[q] /\ nodes'[q].next = TreeNext(w)[q]
           /\ nodes'[q].leaf = nodes[q].leaf
  BY DEF Realised
<1>6. Typed'
  BY <1>3, <1>5 DEF Typed
<1>7. ASSUME NEW q \in D
      PROVE  /\ TreeKeys(w)'[q] = nodes'[q].keys /\ TreeChildren(w)'[q] = nodes'[q].children
             /\ TreeValues(w)'[q] = nodes'[q].values /\ TreeNext(w)'[q] = nodes'[q].next
  <2>1. /\ ~Doing(w, "value", q)' /\ ~Doing(w, "child", q)' /\ ~Doing(w, "popvalue", q)'
        /\ ~Doing(w, "splitchildren", q)' /\ ~Doing(w, "splitvalues", q)'
    BY <1>4 DEF Doing
  <2> QED
    BY <2>1, <1>4, <1>5 DEF TreeKeys, TreeChildren, TreeValues, TreeNext
<1>8. Here(w)' \in D
  BY <1>3, EndOfWay DEF Here
<1>9. Cur(w)' = Cur(w) /\ New(w)' = New(w) /\ Middle(w)' = Middle(w)
  <2>1. Cur(w) = Here(w) /\ New(w) = op[w].new
    BY DEF Cur, New
  <2>2. Cur(w)' = Here(w)
    <3>1. CASE op'[w].pc = "root"
      BY <3>1, <1>3 DEF Cur
    <3>2. CASE op'[w].pc = "parent"
      <4>1. Cur(w)' = nodes'[Here(w)'].children[At(w)']
        BY <3>2 DEF Cur
      <4>2. nodes'[Here(w)'].children = TreeChildren(w)[Here(w)']
        BY <1>5, <1>8
      <4> QED
        BY <3>2, <4>1, <4>2, <1>3
    <3> QED
      BY <3>1, <3>2, <1>4
  <2>3. New(w)' = op[w].new
    BY <1>3, <1>4 DEF New
  <2> QED
    BY <2>1, <2>2, <2>3, <1>3 DEF Middle
<1>10. TreeStays(w)
  BY <1>5, <1>7, <1>9, SameTree
<1>11. Settled(w, L, S, P, N)' /\ Sizes(w)'
  BY <1>4, <1>10, StayingTree, StayingSizes
<1>12. Work(w, L, S)'
  <2>1. WayOK(op'[w].path, root', DOMAIN nodes', TreeChildren(w)', L)
    BY <1>3, <1>10 DEF TreeStays
  <2>2. LeafWork(w, L, S)'
    BY <1>4 DEF LeafWork, LeafStages
  <2>3. InnerWork(w, L)'
    <3>1. CASE op'[w].pc = "root"
      BY <3>1, <1>3 DEF InnerWork, InnerStages
    <3>2. CASE op'[w].pc = "parent"
      <4>1. L[Here(w)] \in Nat
        BY <1>2, Known
      <4>2. L[Here(w)'] > 0
        BY <3>2, <4>1, <1>3
      <4>3. At(w)' \in 1..Len(nodes'[Here(w)'].children)
        BY <3>2, <1>3, <1>5, <1>8
      <4> QED
        BY <3>2, <4>2, <4>3 DEF InnerWork
    <3> QED
      BY <3>1, <3>2, <1>4
  <2> QED
    BY <2>1, <2>2, <2>3 DEF Work
<1> QED
  BY <1>6, <1>10, <1>11, <1>12

\* What is split stands for its old node's part of the tree.
LEMMA SplitContext ==
  ASSUME NEW w \in Writers, Typed, NEW L, NEW S, NEW P, NEW N, Settled(w, L, S, P, N),
         Cur(w) \in DOMAIN nodes
  PROVE  Pending(DOMAIN nodes, root, L, S, Cur(w), New(w), Middle(w))
<1>1. Cur(w) # 0
  BY Known
<1> QED
  BY <1>1 DEF Settled, Shape

\* The new leaf comes into the chain.
LEMMA LinkKeeps ==
  ASSUME NEW w \in Writers, Typed, NEW L, NEW S, NEW P, NEW N,
         Settled(w, L, S, P, N), Sizes(w), Work(w, L, S), Link(w)
  PROVE  /\ Typed' /\ Settled(w, L, S, P, N)' /\ Sizes(w)' /\ Work(w, L, S)' /\ TreeStays(w)
<1> DEFINE n == Here(w)
           D == DOMAIN nodes
           new == op[w].new
           a == [nodes[n] EXCEPT !.next = new]
           t == [nodes EXCEPT ![n] = a]
           b == [nodes[new] EXCEPT !.next = nodes[n].next]
<1>1. op[w].pc = "link" /\ nodes' = [nodes EXCEPT ![n].next = new, ![new].next = nodes[n].next] /\ Up(w) /\ root' = root
  BY DEF Link
<1>2. op[w].pc \in LeafStages
  BY <1>1 DEF LeafStages
<1>3. /\ n \in D /\ nodes[n] \in Node /\ op[w] \in Ops /\ new \in Nat \cup {Nil} /\ nodes \in Seq(Node)
      /\ D = 1..Len(nodes)
  BY <1>2, WorkContext
<1>4. Cur(w) = n /\ New(w) = new
  BY <1>1 DEF Cur, New
<1>5. new \in D /\ n # new
  BY <1>3, <1>4, SplitContext DEF Pending
<1>6. nodes[new] \in Node /\ nodes[n].next \in Nat \cup {Nil}
  BY <1>3, <1>5, Known, NodeFields
<1>7. /\ a \in Node /\ a.next = new /\ a.leaf = nodes[n].leaf /\ a.keys = nodes[n].keys
      /\ a.values = nodes[n].values /\ a.children = nodes[n].children
  BY <1>3 DEF Node
<1>8. /\ b \in Node /\ b.next = nodes[n].next /\ b.leaf = nodes[new].leaf /\ b.keys = nodes[new].keys
      /\ b.values = nodes[new].values /\ b.children = nodes[new].children
  BY <1>6 DEF Node
<1>9. nodes' = [t EXCEPT ![new] = b]
  BY <1>1, <1>3, <1>5
<1> HIDE DEF a, b
<1>10. /\ t \in Seq(Node) /\ Len(t) = Len(nodes) /\ DOMAIN t = D /\ t[n] = a
       /\ \A q \in D : q # n => t[q] = nodes[q]
  BY <1>3, <1>7, OneElement
<1> HIDE DEF t
<1>11. /\ nodes' \in Seq(Node) /\ DOMAIN nodes' = D /\ nodes'[new] = b /\ nodes'[n] = a
       /\ \A q \in D : q # n /\ q # new => nodes'[q] = nodes[q]
  <2>1. /\ nodes' \in Seq(Node) /\ DOMAIN nodes' = DOMAIN t /\ nodes'[new] = b
        /\ \A q \in 1..Len(t) : q # new => nodes'[q] = t[q]
    <3>1. new \in 1..Len(t)
      BY <1>3, <1>5, <1>10
    <3> HIDE DEF new
    <3> QED
      BY <3>1, <1>8, <1>9, <1>10, OneElement
  <2> QED
    BY <2>1, <1>3, <1>5, <1>10
<1>12. ASSUME NEW q \in D
       PROVE  /\ TreeKeys(w)[q] = nodes[q].keys /\ TreeChildren(w)[q] = nodes[q].children
              /\ TreeValues(w)[q] = nodes[q].values
              /\ TreeNext(w)[q] = IF q = n THEN new ELSE IF q = new THEN nodes[n].next ELSE nodes[q].next
  <2>1. /\ ~Doing(w, "value", q) /\ ~Doing(w, "child", q) /\ ~Doing(w, "popvalue", q)
        /\ ~Doing(w, "splitchildren", q) /\ ~Doing(w, "splitvalues", q)
    BY <1>1 DEF Doing
  <2> QED
    BY <2>1, <1>1 DEF TreeKeys, TreeChildren, TreeValues, TreeNext
<1>13. Realised(w)
  <2> SUFFICES ASSUME NEW q \in D
               PROVE  /\ nodes'[q].keys = TreeKeys(w)[q] /\ nodes'[q].values = TreeValues(w)[q]
                      /\ nodes'[q].children = TreeChildren(w)[q] /\ nodes'[q].next = TreeNext(w)[q]
                      /\ nodes'[q].leaf = nodes[q].leaf
    BY <1>1, <1>11 DEF Realised
  <2>1. CASE q = n
    BY <2>1, <1>7, <1>11, <1>12
  <2>2. CASE q = new
    BY <2>2, <1>5, <1>8, <1>11, <1>12
  <2>3. CASE q # n /\ q # new
    BY <2>3, <1>11, <1>12
  <2> QED
    BY <2>1, <2>2, <2>3
<1> QED
  BY <1>1, <1>13, UpKeeps

LEMMA SplitInnerChildrenKeeps ==
  ASSUME NEW w \in Writers, Typed, NEW L, NEW S, NEW P, NEW N,
         Settled(w, L, S, P, N), Sizes(w), Work(w, L, S), SplitInnerChildren(w)
  PROVE  /\ Typed' /\ Settled(w, L, S, P, N)' /\ Sizes(w)' /\ Work(w, L, S)' /\ TreeStays(w)
<1> DEFINE n == Here(w)
           D == DOMAIN nodes
           m == Len(nodes[n].keys) + 1
           children == Upto(nodes[n].children, m)
           node == [nodes[n] EXCEPT !.children = children]
<1>1. op[w].pc = "splitchildren" /\ nodes' = [nodes EXCEPT ![n] = node] /\ Up(w) /\ root' = root
  BY DEF SplitInnerChildren
<1>2. op[w].pc \in InnerStages
  BY <1>1 DEF InnerStages
<1>3. /\ n \in D /\ nodes[n] \in Node /\ op[w] \in Ops /\ nodes \in Seq(Node)
      /\ D = 1..Len(nodes) /\ InnerWork(w, L)
  BY <1>2, WorkContext
<1>4. m \in Nat /\ m <= Len(nodes[n].children) /\ nodes[n].children \in Seq(Nat)
  BY <1>1, <1>3, NodeFields, LenProperties DEF InnerWork
<1>5. children \in Seq(Nat)
  <2> HIDE DEF m, n
  <2> QED
    BY <1>4, Halves
<1>6. /\ node \in Node /\ node.leaf = nodes[n].leaf /\ node.keys = nodes[n].keys /\ node.values = nodes[n].values
      /\ node.children = children /\ node.next = nodes[n].next
  <2> HIDE DEF children
  <2> QED
    BY <1>3, <1>5 DEF Node
<1> HIDE DEF node
<1>7. /\ nodes' \in Seq(Node) /\ DOMAIN nodes' = D /\ nodes'[n] = node
      /\ \A q \in D : q # n => nodes'[q] = nodes[q]
  BY <1>1, <1>3, <1>6, OneElement
<1>8. ASSUME NEW q \in D
      PROVE  /\ TreeKeys(w)[q] = nodes[q].keys /\ TreeValues(w)[q] = nodes[q].values
             /\ TreeNext(w)[q] = nodes[q].next
             /\ TreeChildren(w)[q] = IF q = n THEN children ELSE nodes[q].children
  <2>1. /\ ~Doing(w, "value", q) /\ ~Doing(w, "child", q) /\ ~Doing(w, "popvalue", q)
        /\ (Doing(w, "splitchildren", q) <=> q = n) /\ ~Doing(w, "splitvalues", q)
    BY <1>1 DEF Doing
  <2> QED
    BY <2>1, <1>1 DEF TreeKeys, TreeChildren, TreeValues, TreeNext
<1>9. Realised(w)
  <2> HIDE DEF children
  <2> QED
    BY <1>1, <1>6, <1>7, <1>8 DEF Realised
<1> QED
  BY <1>1, <1>9, UpKeeps

\* Nothing but inner nodes changes, or comes in.
InnerOnly(D, ks, vs, xs, L, S, D2, ks2, vs2, xs2, L2, S2) ==
  /\ D \subseteq D2 /\ vs2 \in [D2 -> Seq(Seq(Rows))]
  /\ \A q \in D2 : L2[q] = 0 => q \in D
  /\ \A q \in D : L2[q] = L[q]
  /\ \A q \in D : L[q] = 0 => ks2[q] = ks[q] /\ vs2[q] = vs[q] /\ xs2[q] = xs[q] /\ S2[q] = S[q]

LEMMA LeavesStay ==
  ASSUME NEW D, NEW ks, NEW vs, NEW xs, NEW L, NEW S, NEW D2, NEW ks2, NEW vs2, NEW xs2, NEW L2, NEW S2,
         InnerOnly(D, ks, vs, xs, L, S, D2, ks2, vs2, xs2, L2, S2),
         NEW P, NEW N, ChainOK({q \in D : L[q] = 0}, xs, S, P, N), LeafLists(D, ks, vs, L),
         NEW lf, DOMAIN lf = D, \A q \in D : lf[q] <=> L[q] = 0,
         NEW lf2, DOMAIN lf2 = D2, \A q \in D2 : lf2[q] <=> L2[q] = 0
  PROVE  /\ ChainOK({q \in D2 : L2[q] = 0}, xs2, S2, P, N) /\ LeafLists(D2, ks2, vs2, L2)
         /\ \A k, v : InTree(lf2, ks2, vs2, k, v) <=> InTree(lf, ks, vs, k, v)
<1> DEFINE Lv == {q \in D : L[q] = 0}
<1>1. /\ D \subseteq D2 /\ vs2 \in [D2 -> Seq(Seq(Rows))]
      /\ \A q \in D2 : L2[q] = 0 => q \in D
      /\ \A q \in D : L2[q] = L[q]
      /\ \A q \in D : L[q] = 0 => ks2[q] = ks[q] /\ vs2[q] = vs[q] /\ xs2[q] = xs[q] /\ S2[q] = S[q]
  BY DEF InnerOnly
<1>2. {q \in D2 : L2[q] = 0} = Lv
  BY <1>1
<1>3. \A q \in Lv : xs2[q] = xs[q] /\ S2[q] = S[q]
  BY <1>1
<1>4. ChainOK(Lv, xs2, S2, P, N)
  <2> HIDE DEF Lv
  <2>1. ChainOK(Lv, xs, S, P, N)
    BY DEF Lv
  <2> QED
    BY <2>1, <1>3, SameChain
<1>5. LeafLists(D2, ks2, vs2, L2)
  BY <1>1 DEF LeafLists
<1>6. ASSUME NEW k, NEW v
      PROVE  InTree(lf2, ks2, vs2, k, v) <=> InTree(lf, ks, vs, k, v)
  <2>1. ASSUME InTree(lf, ks, vs, k, v)
        PROVE  InTree(lf2, ks2, vs2, k, v)
    <3>1. PICK q \in D : lf[q] /\ \E i \in 1..Len(ks[q]) : ks[q][i] = k /\ vs[q][i] = v
      BY <2>1 DEF InTree
    <3>2. L[q] = 0 /\ ks2[q] = ks[q] /\ vs2[q] = vs[q] /\ q \in D2 /\ lf2[q]
      BY <3>1, <1>1
    <3> QED
      BY <3>1, <3>2 DEF InTree
  <2>2. ASSUME InTree(lf2, ks2, vs2, k, v)
        PROVE  InTree(lf, ks, vs, k, v)
    <3>1. PICK q \in D2 : lf2[q] /\ \E i \in 1..Len(ks2[q]) : ks2[q][i] = k /\ vs2[q][i] = v
      BY <2>2 DEF InTree
    <3>2. L[q] = 0 /\ ks2[q] = ks[q] /\ vs2[q] = vs[q] /\ q \in D /\ lf[q]
      BY <3>1, <1>1
    <3> QED
      BY <3>1, <3>2 DEF InTree
  <2> QED
    BY <2>1, <2>2
<1> QED
  BY <1>2, <1>4, <1>5, <1>6

\* The middle key comes into the parent, whose new child is not there yet.
LEMMA ParentKeyKeeps ==
  ASSUME NEW w \in Writers, Typed, NEW L, NEW S, NEW P, NEW N,
         Settled(w, L, S, P, N), Sizes(w), Work(w, L, S), ParentKey(w)
  PROVE  /\ Typed' /\ Settled(w, L, S, P, N)' /\ Sizes(w)' /\ Work(w, L, S)' /\ TreeStays(w)
<1> DEFINE n == Here(w)
           D == DOMAIN nodes
           i == At(w)
           mid == op[w].mid
           keys == nodes[n].keys
           keys2 == PutAt(keys, i, mid)
           node == [nodes[n] EXCEPT !.keys = keys2]
<1>1. op[w].pc = "parent" /\ nodes' = [nodes EXCEPT ![n] = node] /\ Go(w, "child") /\ root' = root
  BY DEF ParentKey, Change
<1>2. op[w].pc \in InnerStages
  BY <1>1 DEF InnerStages
<1>3. /\ n \in D /\ nodes[n] \in Node /\ op[w] \in Ops /\ nodes \in Seq(Node) /\ mid \in Int
      /\ D = 1..Len(nodes) /\ InnerWork(w, L) /\ WayOK(op[w].path, root, D, TreeChildren(w), L)
  BY <1>2, WorkContext
<1>4. L[n] > 0 /\ i \in 1..Len(nodes[n].children)
  BY <1>1, <1>2, <1>3 DEF InnerWork
<1>5. ASSUME NEW q \in D
      PROVE  /\ TreeKeys(w)[q] = nodes[q].keys /\ TreeValues(w)[q] = nodes[q].values
             /\ TreeNext(w)[q] = nodes[q].next /\ TreeChildren(w)[q] = nodes[q].children
  <2>1. /\ ~Doing(w, "value", q) /\ ~Doing(w, "child", q) /\ ~Doing(w, "popvalue", q)
        /\ ~Doing(w, "splitchildren", q) /\ ~Doing(w, "splitvalues", q)
    BY <1>1 DEF Doing
  <2> QED
    BY <2>1, <1>1 DEF TreeKeys, TreeChildren, TreeValues, TreeNext
<1>6. keys \in Seq(Int) /\ Len(nodes[n].children) = Len(keys) + 1 /\ Len(keys) \in Nat
  <2>1. Len(TreeChildren(w)[n]) = Len(TreeKeys(w)[n]) + 1
    BY <1>3, <1>4 DEF Settled, Shape, TreeOK, Levels
  <2> QED
    BY <2>1, <1>3, <1>5, NodeFields, LenProperties
<1>7. i \in Nat \ {0} /\ i <= Len(keys) + 1
  BY <1>4, <1>6
<1>8. keys2 \in Seq(Int) /\ Inserted(keys2, keys, i, mid)
  <2> HIDE DEF keys, i, mid
  <2> QED
    BY <1>3, <1>6, <1>7, PutAtInserts
<1> HIDE DEF keys2
<1>9. RemoveAt(keys2, i) = keys /\ i \in 1..Len(keys2) /\ keys2[i] = mid
  <2>1. RemoveAt(keys2, i) = keys
    <3> HIDE DEF keys, i, mid
    <3> QED
      BY <1>6, <1>8, RemoveUndoesInsert
  <2>2. i \in 1..Len(keys2) /\ keys2[i] = mid
    BY <1>8 DEF Inserted
  <2> QED
    BY <2>1, <2>2
<1>10. /\ node \in Node /\ node.leaf = nodes[n].leaf /\ node.keys = keys2 /\ node.values = nodes[n].values
       /\ node.children = nodes[n].children /\ node.next = nodes[n].next
  BY <1>3, <1>8 DEF Node
<1> HIDE DEF node
<1>11. /\ nodes' \in Seq(Node) /\ DOMAIN nodes' = D /\ nodes'[n] = node
       /\ \A q \in D : q # n => nodes'[q] = nodes[q]
  BY <1>1, <1>3, <1>10, OneElement
<1>12. /\ op' \in [Writers -> {Idle} \cup Ops] /\ op'[w] \in Ops /\ op'[w].pc = "child"
       /\ op'[w].path = op[w].path /\ op'[w].mid = mid /\ op'[w].new = op[w].new
       /\ Here(w)' = n /\ At(w)' = i
  <2>1. "child" \in LeafStages \cup InnerStages \cup {"root"}
    BY DEF InnerStages
  <2> QED
    BY <2>1, <1>1, <1>3, Moves
<1>13. Typed'
  BY <1>1, <1>3, <1>11, <1>12 DEF Typed
<1>14. ASSUME NEW q \in D
       PROVE  /\ TreeKeys(w)'[q] = IF q = n THEN RemoveAt(nodes'[q].keys, i) ELSE nodes'[q].keys
              /\ TreeValues(w)'[q] = nodes'[q].values
              /\ TreeNext(w)'[q] = nodes'[q].next /\ TreeChildren(w)'[q] = nodes'[q].children
  <2>1. /\ ~Doing(w, "value", q)' /\ (Doing(w, "child", q)' <=> q = n) /\ ~Doing(w, "popvalue", q)'
        /\ ~Doing(w, "splitchildren", q)' /\ ~Doing(w, "splitvalues", q)'
    BY <1>12 DEF Doing
  <2> QED
    BY <2>1, <1>11, <1>12 DEF TreeKeys, TreeChildren, TreeValues, TreeNext
<1>15. ASSUME NEW q \in D
       PROVE  /\ TreeKeys(w)'[q] = TreeKeys(w)[q] /\ TreeValues(w)'[q] = TreeValues(w)[q]
              /\ TreeChildren(w)'[q] = TreeChildren(w)[q] /\ TreeNext(w)'[q] = TreeNext(w)[q]
              /\ nodes'[q].leaf = nodes[q].leaf
  <2> HIDE DEF i
  <2>1. CASE q = n
    BY <2>1, <1>5, <1>9, <1>10, <1>11, <1>14
  <2>2. CASE q # n
    BY <2>2, <1>5, <1>11, <1>14
  <2> QED
    BY <2>1, <2>2
<1>16. Cur(w)' = Cur(w) /\ New(w)' = New(w) /\ Middle(w)' = Middle(w)
  BY <1>1, <1>10, <1>11, <1>12 DEF Cur, New, Middle
<1>17. TreeStays(w)
  BY <1>1, <1>11, <1>15, <1>16, SameTree
<1>18. Settled(w, L, S, P, N)' /\ Sizes(w)'
  BY <1>1, <1>12, <1>17, StayingTree, StayingSizes
<1>19. Work(w, L, S)'
  <2>1. WayOK(op'[w].path, root', DOMAIN nodes', TreeChildren(w)', L)
    BY <1>3, <1>12, <1>17 DEF TreeStays
  <2>2. LeafWork(w, L, S)'
    BY <1>12 DEF LeafWork, LeafStages
  <2>3. nodes'[n].keys = keys2 /\ nodes'[n].children = nodes[n].children
    BY <1>10, <1>11
  <2>4. InnerWork(w, L)'
    BY <2>3, <1>4, <1>9, <1>12 DEF InnerWork
  <2> QED
    BY <2>1, <2>2, <2>4 DEF Work
<1> QED
  BY <1>13, <1>17, <1>18, <1>19

\* The lists of the leaves, as far as a reader of the whole tree is concerned.
SameLists(w) ==
  \A k, v : InTree(TreeLeaf', TreeKeys(w)', TreeValues(w)', k, v)
              <=> InTree(TreeLeaf, TreeKeys(w), TreeValues(w), k, v)

\* The new child comes in: the parent knows of the split, and is split itself when over-full.
LEMMA ParentChildKeeps ==
  ASSUME NEW w \in Writers, Typed, NEW L, NEW S, NEW P, NEW N,
         Settled(w, L, S, P, N), Sizes(w), Work(w, L, S), ParentChild(w)
  PROVE  /\ Typed' /\ Settled(w, L, S, P, N)' /\ Sizes(w)' /\ Work(w, L, S)' /\ SameLists(w)
<1> DEFINE n == Here(w)
           D == DOMAIN nodes
           i == At(w)
           new == op[w].new
           mid == op[w].mid
           keys == nodes[n].keys
           children == nodes[n].children
           children2 == PutAt(children, i + 1, new)
           node == [nodes[n] EXCEPT !.children = children2]
           K == TreeKeys(w)
           C == TreeChildren(w)
<1>1. op[w].pc = "child" /\ nodes' = [nodes EXCEPT ![n] = node] /\ NextUp(w, n, "splitinner") /\ root' = root
  BY DEF ParentChild, Change
<1>2. op[w].pc \in InnerStages
  BY <1>1 DEF InnerStages
<1>3. /\ n \in D /\ nodes[n] \in Node /\ op[w] \in Ops /\ nodes \in Seq(Node) /\ mid \in Int
      /\ D = 1..Len(nodes) /\ InnerWork(w, L) /\ WayOK(op[w].path, root, D, C, L) /\ L[root] \in Nat
  BY <1>2, WorkContext
<1>4. L[n] > 0 /\ i \in 1..Len(children) /\ i \in 1..Len(keys) /\ keys[i] = mid
  BY <1>1, <1>2, <1>3 DEF InnerWork
<1>5. ASSUME NEW q \in D
      PROVE  /\ TreeKeys(w)[q] = IF q = n THEN RemoveAt(keys, i) ELSE nodes[q].keys
             /\ TreeValues(w)[q] = nodes[q].values
             /\ TreeNext(w)[q] = nodes[q].next /\ TreeChildren(w)[q] = nodes[q].children
  <2>1. /\ ~Doing(w, "value", q) /\ (Doing(w, "child", q) <=> q = n) /\ ~Doing(w, "popvalue", q)
        /\ ~Doing(w, "splitchildren", q) /\ ~Doing(w, "splitvalues", q)
    BY <1>1 DEF Doing
  <2> QED
    BY <2>1, <1>1 DEF TreeKeys, TreeChildren, TreeValues, TreeNext
<1>6. Cur(w) = C[n][i] /\ New(w) = new /\ Middle(w) = (IF new = 0 THEN 0 ELSE mid) /\ C[n] = children
  BY <1>1, <1>3, <1>5 DEF Cur, New, Middle
<1>7. /\ TreeOK(D, root, K, C, L, S, Cur(w), new)
      /\ ChainOK({q \in D : L[q] = 0}, TreeNext(w), S, P, N) /\ LeafLists(D, K, TreeValues(w), L)
      /\ \A q \in D : TreeLeaf[q] <=> L[q] = 0
  BY <1>6 DEF Settled, Shape
<1>8. K \in [D -> Seq(Int)] /\ C \in [D -> Seq(Nat)] /\ TreeValues(w) \in [D -> Seq(Seq(Rows))] /\ 0 \notin D
  BY Known
<1>9. Cur(w) \in D
  <2>1. \A q \in D : L[q] > 0 => \A j \in 1..Len(C[q]) : C[q][j] \in D
    BY <1>7 DEF TreeOK, Levels
  <2> QED
    BY <2>1, <1>3, <1>4, <1>6
<1>10. Pending(D, root, L, S, Cur(w), new, mid) /\ new \in D /\ new \in Nat
  <2>1. Pending(D, root, L, S, Cur(w), New(w), Middle(w))
    BY <1>9, SplitContext
  <2>2. new \in D /\ new # 0
    BY <2>1, <1>6, <1>8 DEF Pending
  <2> QED
    BY <2>1, <2>2, <1>3, <1>6
<1>11. keys \in Seq(Int) /\ children \in Seq(Nat) /\ Len(keys) \in Nat /\ Len(children) \in Nat
  BY <1>3, NodeFields, LenProperties
<1>12. K[n] = RemoveAt(keys, i) /\ Inserted(keys, K[n], i, mid) /\ Len(keys) = Len(K[n]) + 1
  <2> DEFINE r == RemoveAt(keys, i)
  <2>1. Inserted(keys, r, i, keys[i])
    <3> HIDE DEF keys, i
    <3> QED
      BY <1>4, <1>11, RemoveAtRemoves
  <2>2. K[n] = r
    BY <1>3, <1>5
  <2> QED
    BY <2>1, <2>2, <1>4 DEF Inserted
<1>13. children2 \in Seq(Nat) /\ Inserted(children2, C[n], i + 1, new)
  <2>1. i + 1 \in Nat \ {0} /\ i + 1 <= Len(children) + 1
    BY <1>4, <1>11
  <2> HIDE DEF children, i, new
  <2>2. children2 \in Seq(Nat) /\ Inserted(children2, children, i + 1, new)
    BY <2>1, <1>10, <1>11, PutAtInserts
  <2> QED
    BY <2>2, <1>6
<1> HIDE DEF children2
<1>14. /\ node \in Node /\ node.leaf = nodes[n].leaf /\ node.keys = keys /\ node.values = nodes[n].values
       /\ node.children = children2 /\ node.next = nodes[n].next
  BY <1>3, <1>13 DEF Node
<1> HIDE DEF node
<1>15. /\ nodes' \in Seq(Node) /\ DOMAIN nodes' = D /\ nodes'[n] = node
       /\ \A q \in D : q # n => nodes'[q] = nodes[q]
  BY <1>1, <1>3, <1>14, OneElement
<1>16. Len(keys) <= Order /\ Order \in Nat
  <2>1. ~Doing(w, "split", n) /\ ~Doing(w, "splitinner", n)
    BY <1>1 DEF Doing
  <2>2. Len(K[n]) < Order
    BY <2>1, <1>3 DEF Sizes
  <2>3. K[n] \in Seq(Int) /\ Order \in Nat
    BY <1>3, <1>8, OrderAssumption
  <2> QED
    BY <2>2, <2>3, <1>12, LenProperties
<1>17. /\ op' \in [Writers -> {Idle} \cup Ops]
       /\ IF Len(keys) = Order
          THEN op'[w] \in Ops /\ op'[w].pc = "splitinner" /\ op'[w].path = op[w].path /\ Here(w)' = n
          ELSE op'[w] = Idle /\ op'[w].pc = "idle"
  <2>1. nodes'[n].keys = keys
    BY <1>14, <1>15
  <2>2. IF Len(keys) = Order THEN Go(w, "splitinner") ELSE Finish(w)
    BY <2>1, <1>1, <1>11, <1>16 DEF NextUp
  <2>3. CASE Len(keys) = Order
    <3>1. "splitinner" \in LeafStages \cup InnerStages \cup {"root"} /\ Go(w, "splitinner")
      BY <2>2, <2>3 DEF InnerStages
    <3> QED
      BY <2>3, <3>1, <1>3, Moves
  <2>4. CASE Len(keys) # Order
    BY <2>2, <2>4, Rests
  <2> QED
    BY <2>3, <2>4
<1>18. Typed'
  BY <1>1, <1>3, <1>15, <1>17 DEF Typed
<1>19. op'[w].pc \in Plain
  BY <1>17 DEF Plain
<1> DEFINE K2 == TreeKeys(w)'
           C2 == TreeChildren(w)'
           V2 == TreeValues(w)'
           X2 == TreeNext(w)'
<1>20. /\ K2 = [q \in D |-> nodes'[q].keys] /\ V2 = [q \in D |-> nodes'[q].values]
       /\ C2 = [q \in D |-> nodes'[q].children] /\ X2 = [q \in D |-> nodes'[q].next]
       /\ Cur(w)' = 0 /\ New(w)' = 0 /\ Middle(w)' = 0
  BY <1>15, <1>19, PlainTreeNext
<1> HIDE DEF K2, C2, V2, X2
<1>21. /\ K2[n] = keys /\ C2[n] = children2
       /\ \A q \in D : /\ q # n => K2[q] = K[q] /\ C2[q] = C[q]
                       /\ V2[q] = TreeValues(w)[q] /\ X2[q] = TreeNext(w)[q]
                       /\ nodes'[q].leaf = nodes[q].leaf
  BY <1>3, <1>5, <1>14, <1>15, <1>20
<1>22. K2 = [K EXCEPT ![n] = keys] /\ C2 = [C EXCEPT ![n] = children2] /\ V2 = TreeValues(w)
  <2>1. K2 = [q \in D |-> K2[q]] /\ C2 = [q \in D |-> C2[q]] /\ V2 = [q \in D |-> V2[q]]
    BY <1>20
  <2> HIDE DEF K, C, n, keys
  <2>2. K2 = [K EXCEPT ![n] = keys] /\ C2 = [C EXCEPT ![n] = children2]
    BY <2>1, <1>8, <1>21
  <2>3. TreeValues(w) = [q \in D |-> TreeValues(w)[q]]
    BY <1>8
  <2>4. V2 = TreeValues(w)
    BY <2>1, <2>3, <1>21
  <2> QED
    BY <2>2, <2>4
<1>23. TreeOK(D, root, K2, C2, L, S, 0, 0)
  <2> DEFINE cur == Cur(w)
  <2>1. TreeOK(D, root, K, C, L, S, cur, new) /\ Pending(D, root, L, S, cur, new, mid) /\ C[n][i] = cur
    BY <1>6, <1>7, <1>10
  <2>2. i \in 1..Len(C[n])
    BY <1>4, <1>6
  <2> HIDE DEF cur, K, C, n, i, keys, new, mid, D
  <2> QED
    BY <2>1, <2>2, <1>3, <1>4, <1>8, <1>11, <1>12, <1>13, <1>22, NewChild
<1>24. InnerOnly(D, K, TreeValues(w), TreeNext(w), L, S, D, K2, V2, X2, L, S)
  <2>1. \A q \in D : L[q] = 0 => q # n
    BY <1>4
  <2> QED
    BY <2>1, <1>8, <1>21, <1>22 DEF InnerOnly
<1>25. TreeLeaf' = TreeLeaf /\ DOMAIN TreeLeaf = D
  BY <1>15, <1>21 DEF TreeLeaf
<1>26. /\ ChainOK({q \in D : L[q] = 0}, X2, S, P, N) /\ LeafLists(D, K2, V2, L)
       /\ \A k, v : InTree(TreeLeaf', K2, V2, k, v) <=> InTree(TreeLeaf, K, TreeValues(w), k, v)
  <2>1. DOMAIN TreeLeaf' = D /\ \A q \in D : TreeLeaf'[q] <=> L[q] = 0
    BY <1>7, <1>25
  <2> HIDE DEF K
  <2> QED
    BY <2>1, <1>7, <1>24, <1>25, LeavesStay
<1>27. Settled(w, L, S, P, N)'
  <2>1. Shape(D, root, K2, V2, C2, X2, TreeLeaf', 0, 0, 0, L, S, P, N)
    BY <1>7, <1>23, <1>25, <1>26 DEF Shape
  <2> QED
    BY <2>1, <1>1, <1>15, <1>20 DEF Settled, K2, V2, C2, X2
<1>28. SameLists(w)
  BY <1>26 DEF SameLists, K2, V2
<1>29. Sizes(w)'
  <2> SUFFICES ASSUME NEW q \in D
               PROVE  IF Doing(w, "split", q)' \/ Doing(w, "splitinner", q)' THEN Len(K2[q]) = Order
                      ELSE Len(K2[q]) < Order
    BY <1>15 DEF Sizes, K2
  <2>1. CASE q = n
    <3>1. ~Doing(w, "split", q)' /\ (Doing(w, "splitinner", q)' <=> Len(keys) = Order)
      BY <2>1, <1>17 DEF Doing
    <3> QED
      BY <2>1, <3>1, <1>11, <1>16, <1>21
  <2>2. CASE q # n
    <3>1. ~Doing(w, "split", q)' /\ ~Doing(w, "splitinner", q)'
      BY <2>2, <1>17 DEF Doing
    <3>2. ~Doing(w, "splitinner", q) /\ ~Doing(w, "split", q)
      BY <1>1 DEF Doing
    <3> QED
      BY <2>2, <3>1, <3>2, <1>21 DEF Sizes
  <2> QED
    BY <2>1, <2>2
<1>30. Work(w, L, S)'
  <2>1. CASE Len(keys) = Order
    <3>1. op'[w].pc = "splitinner" /\ op'[w].path = op[w].path /\ Here(w)' = n
      BY <2>1, <1>17
    <3>2. WayOK(op[w].path, root, D, C2, L)
      <4>1. /\ root \in D /\ \A q \in D : q # Last(op[w].path).node => C2[q] = C[q]
        BY <1>21, Known DEF Here
      <4> HIDE DEF C, D
      <4> QED
        BY <4>1, <1>3, SameWay
    <3>3. WayOK(op'[w].path, root', DOMAIN nodes', TreeChildren(w)', L)
      BY <3>1, <3>2, <1>1, <1>15 DEF C2
    <3>4. LeafWork(w, L, S)'
      BY <3>1 DEF LeafWork, LeafStages
    <3>5. InnerWork(w, L)'
      BY <3>1, <1>4 DEF InnerWork
    <3> QED
      BY <3>3, <3>4, <3>5 DEF Work
  <2>2. CASE Len(keys) # Order
    BY <2>2, <1>17 DEF Work
  <2> QED
    BY <2>1, <2>2
<1> QED
  BY <1>18, <1>27, <1>28, <1>29, <1>30

\* An inner node splits: its middle key goes up, the keys behind it to a new node.
LEMMA SplitInnerKeysKeeps ==
  ASSUME NEW w \in Writers, Typed, NEW L, NEW S, NEW P, NEW N,
         Settled(w, L, S, P, N), Sizes(w), Work(w, L, S), SplitInnerKeys(w)
  PROVE  /\ Typed' /\ Sizes(w)' /\ SameLists(w)
         /\ \E L2, S2, P2, N2 : Settled(w, L2, S2, P2, N2)' /\ Work(w, L2, S2)'
<1> DEFINE n == Here(w)
           D == DOMAIN nodes
           keys == nodes[n].keys
           children == nodes[n].children
           m == Mid(n)
           new == Len(nodes) + 1
           D2 == D \cup {new}
           k == keys[m + 1]
           low == [nodes[n] EXCEPT !.keys = Upto(keys, m)]
           high == Inner(From(keys, m + 2), From(children, m + 2))
           o == [op[w] EXCEPT !.pc = "splitchildren", !.new = new, !.mid = k]
           K == TreeKeys(w)
           C == TreeChildren(w)
           V == TreeValues(w)
           X == TreeNext(w)
<1>1. /\ op[w].pc = "splitinner" /\ nodes' = Append([nodes EXCEPT ![n] = low], high) /\ root' = root
      /\ op' = [op EXCEPT ![w] = o]
  BY DEF SplitInnerKeys
<1>2. op[w].pc \in InnerStages /\ op[w].pc \in Plain
  BY <1>1 DEF InnerStages, Plain
<1>3. /\ n \in D /\ InnerWork(w, L) /\ n \in 1..Len(nodes) /\ nodes \in Seq(Node) /\ Len(nodes) \in Nat
      /\ nodes[n] \in Node /\ op[w] \in Ops /\ WayOK(op[w].path, root, D, C, L) /\ L[root] \in Nat
  BY <1>2, WorkContext
<1>4. L[n] > 0
  BY <1>2, <1>3 DEF InnerWork
<1>5. /\ K = [q \in D |-> nodes[q].keys] /\ V = [q \in D |-> nodes[q].values]
      /\ C = [q \in D |-> nodes[q].children] /\ X = [q \in D |-> nodes[q].next]
      /\ Cur(w) = 0 /\ New(w) = 0 /\ Middle(w) = 0
  BY <1>2, PlainTree
<1> HIDE DEF K, C, V, X
<1>6. K[n] = keys /\ C[n] = children
  BY <1>3, <1>5
<1>7. /\ TreeOK(D, root, K, C, L, S, 0, 0)
      /\ ChainOK({q \in D : L[q] = 0}, X, S, P, N) /\ LeafLists(D, K, V, L)
      /\ \A q \in D : TreeLeaf[q] <=> L[q] = 0
  BY <1>5 DEF Settled, Shape, K, C, V, X
<1>8. /\ L \in [D -> Nat] /\ S \in [D -> SUBSET Int] /\ 0 \notin D /\ root \in D /\ V \in [D -> Seq(Seq(Rows))]
      /\ \A q \in D : L[q] \in Nat
  BY Known DEF V
<1>9. /\ keys \in Seq(Int) /\ children \in Seq(Nat) /\ Len(children) = Len(keys) + 1 /\ Len(keys) \in Nat
      /\ Ascending(keys) /\ \A i \in 1..Len(keys) : keys[i] \in S[n]
  <2>1. Len(C[n]) = Len(K[n]) + 1
    BY <1>3, <1>4, <1>7 DEF TreeOK, Levels
  <2>2. Ascending(K[n]) /\ \A i \in 1..Len(K[n]) : K[n][i] \in S[n]
    BY <1>3, <1>7 DEF TreeOK, Ordered
  <2> QED
    BY <2>1, <2>2, <1>3, <1>6, NodeFields, LenProperties
<1>10. Len(keys) = Order
  <2>1. Doing(w, "splitinner", n)
    BY <1>1 DEF Doing
  <2>2. Len(K[n]) = Order
    BY <2>1, <1>3 DEF Sizes, K
  <2> QED
    BY <2>2, <1>6
<1>11. /\ m \in Nat /\ m > 0 /\ m + 1 < Len(keys) /\ m <= Len(keys) /\ m + 1 \in 1..Len(keys)
       /\ Len(keys) - m - 1 < Order /\ m < Order
  <2>1. m = Len(keys) \div 2
    BY DEF Mid
  <2> HIDE DEF m, keys
  <2> QED
    BY <2>1, <1>10, MidFits
<1> HIDE DEF m
<1>12. k \in Int
  BY <1>9, <1>11, ElementOfSeq
<1> HIDE DEF keys, children
<1>13. /\ Upto(keys, m) \in Seq(Int) /\ Len(Upto(keys, m)) = m
       /\ \A j \in 1..m : Upto(keys, m)[j] = keys[j]
       /\ From(keys, m + 2) \in Seq(Int) /\ Len(From(keys, m + 2)) = Len(keys) - m - 1
       /\ \A j \in 1..(Len(keys) - m - 1) : From(keys, m + 2)[j] = keys[m + 1 + j]
  <2>1. m + 1 \in Nat /\ m + 1 <= Len(keys) /\ (m + 1) + 1 = m + 2 /\ Len(keys) - (m + 1) = Len(keys) - m - 1
    BY <1>9, <1>11
  <2> DEFINE i == m + 1
             h == From(keys, i + 1)
  <2>2. h \in Seq(Int) /\ Len(h) = Len(keys) - i /\ \A j \in 1..(Len(keys) - i) : h[j] = keys[i + j]
    <3>1. i \in Nat /\ i <= Len(keys)
      BY <2>1
    <3> HIDE DEF i
    <3> QED
      BY <3>1, <1>9, Halves
  <2>3. h = From(keys, m + 2)
    BY <2>1
  <2>4. /\ Upto(keys, m) \in Seq(Int) /\ Len(Upto(keys, m)) = m
        /\ \A j \in 1..m : Upto(keys, m)[j] = keys[j]
    BY <1>9, <1>11, Halves
  <2> HIDE DEF h
  <2> QED
    BY <2>1, <2>2, <2>3, <2>4
<1>14. /\ From(children, m + 2) \in Seq(Nat) /\ Len(From(children, m + 2)) = Len(children) - m - 1
       /\ \A j \in 1..(Len(children) - m - 1) : From(children, m + 2)[j] = children[m + 1 + j]
       /\ Upto(children, m + 1) \in Seq(Nat) /\ Len(Upto(children, m + 1)) = m + 1
       /\ \A j \in 1..(m + 1) : Upto(children, m + 1)[j] = children[j]
  <2>1. m + 1 \in Nat /\ m + 1 <= Len(children) /\ (m + 1) + 1 = m + 2
        /\ Len(children) - (m + 1) = Len(children) - m - 1
    BY <1>9, <1>11
  <2> DEFINE i == m + 1
             h == From(children, i + 1)
             l == Upto(children, i)
  <2>2. /\ h \in Seq(Nat) /\ Len(h) = Len(children) - i /\ \A j \in 1..(Len(children) - i) : h[j] = children[i + j]
        /\ l \in Seq(Nat) /\ Len(l) = i /\ \A j \in 1..i : l[j] = children[j]
    <3>1. i \in Nat /\ i <= Len(children)
      BY <2>1
    <3> HIDE DEF i
    <3> QED
      BY <3>1, <1>9, Halves
  <2>3. h = From(children, m + 2) /\ l = Upto(children, m + 1)
    BY <2>1
  <2> HIDE DEF h, l
  <2> QED
    BY <2>1, <2>2, <2>3
<1>15. /\ low \in Node /\ low.leaf = nodes[n].leaf /\ low.keys = Upto(keys, m) /\ low.values = nodes[n].values
       /\ low.children = children /\ low.next = nodes[n].next
  BY <1>3, <1>13 DEF Node, children
<1>16. /\ high \in Node /\ high.leaf = FALSE /\ high.keys = From(keys, m + 2)
       /\ high.values = <<>> /\ high.children = From(children, m + 2) /\ high.next = Nil
  BY <1>13, <1>14 DEF Node, Inner
<1> HIDE DEF low, high
<1>17. /\ nodes' \in Seq(Node) /\ DOMAIN nodes' = D2 /\ new \notin D /\ new \in Nat /\ new # 0
       /\ nodes'[n] = low /\ nodes'[new] = high /\ \A q \in D : q # n => nodes'[q] = nodes[q]
  BY <1>1, <1>3, <1>15, <1>16, OneMore
<1>18. o \in Ops /\ o.pc = "splitchildren" /\ o.new = new /\ o.mid = k /\ o.path = op[w].path
  <2> HIDE DEF new, k
  <2> QED
    BY <1>3, <1>12, <1>17 DEF Ops, InnerStages
<1> HIDE DEF o
<1>19. op' \in [Writers -> {Idle} \cup Ops] /\ op'[w] = o
  BY <1>1, <1>18, OpChanges
<1>20. Here(w)' = n
  BY <1>18, <1>19 DEF Here
<1> HIDE DEF new, k
<1>21. Typed'
  BY <1>1, <1>3, <1>17, <1>19 DEF Typed
<1>22. Cur(w)' = n /\ New(w)' = new /\ Middle(w)' = k
  BY <1>17, <1>18, <1>19, <1>20 DEF Cur, New, Middle
<1> DEFINE K2 == TreeKeys(w)'
           C2 == TreeChildren(w)'
           V2 == TreeValues(w)'
           X2 == TreeNext(w)'
<1>23. ASSUME NEW q \in D2
       PROVE  /\ K2[q] = nodes'[q].keys /\ V2[q] = nodes'[q].values /\ X2[q] = nodes'[q].next
              /\ C2[q] = IF q = n THEN Upto(children, m + 1) ELSE nodes'[q].children
  <2>1. /\ ~Doing(w, "value", q)' /\ ~Doing(w, "child", q)' /\ ~Doing(w, "popvalue", q)'
        /\ (Doing(w, "splitchildren", q)' <=> q = n) /\ ~Doing(w, "splitvalues", q)'
    BY <1>18, <1>19, <1>20 DEF Doing
  <2>2. K2[q] = nodes'[q].keys /\ V2[q] = nodes'[q].values /\ X2[q] = nodes'[q].next
    BY <2>1, <1>17, <1>18, <1>19 DEF TreeKeys, TreeValues, TreeNext
  <2>3. C2[q] = IF q = n THEN Upto(nodes'[q].children, Len(nodes'[q].keys) + 1) ELSE nodes'[q].children
    BY <2>1, <1>17 DEF TreeChildren
  <2>4. q = n => Upto(nodes'[q].children, Len(nodes'[q].keys) + 1) = Upto(children, m + 1)
    BY <1>13, <1>15, <1>17
  <2> QED
    BY <2>2, <2>3, <2>4
<1> DEFINE L2 == [q \in D2 |-> IF q = new THEN L[n] ELSE L[q]]
           S2 == [q \in D2 |-> IF q = n THEN {x \in S[n] : x < k}
                               ELSE IF q = new THEN {x \in S[n] : k <= x} ELSE S[q]]
<1>24. K2 \in [D2 -> Seq(Int)] /\ C2 \in [D2 -> Seq(Nat)] /\ V2 \in [D2 -> Seq(Seq(Rows))]
  <2>1. K2 = [q \in D2 |-> K2[q]] /\ C2 = [q \in D2 |-> C2[q]] /\ V2 = [q \in D2 |-> V2[q]]
    BY <1>17 DEF TreeKeys, TreeChildren, TreeValues
  <2>2. \A q \in D2 : nodes'[q] \in Node
    BY <1>17, LenProperties, ElementOfSeq
  <2>3. \A q \in D2 : K2[q] \in Seq(Int) /\ C2[q] \in Seq(Nat) /\ V2[q] \in Seq(Seq(Rows))
    BY <2>2, <1>14, <1>23, NodeFields
  <2> HIDE DEF K2, C2, V2, D2
  <2> QED
    BY <2>1, <2>3
<1>25. /\ \A q \in D : q # n => /\ K2[q] = K[q] /\ V2[q] = V[q] /\ C2[q] = C[q] /\ X2[q] = X[q]
       /\ K2[n] = Upto(keys, m) /\ K2[new] = From(keys, m + 2)
       /\ C2[n] = Upto(children, m + 1) /\ C2[new] = From(children, m + 2)
  <2> HIDE DEF K2, C2, V2, X2
  <2> QED
    BY <1>3, <1>5, <1>15, <1>16, <1>17, <1>23
<1>26. \A q \in D2 : TreeLeaf'[q] = IF q = new THEN FALSE ELSE TreeLeaf[q]
  <2>1. \A q \in D2 : TreeLeaf'[q] = nodes'[q].leaf
    BY <1>17 DEF TreeLeaf
  <2>2. \A q \in D : TreeLeaf[q] = nodes[q].leaf
    BY DEF TreeLeaf
  <2> QED
    BY <2>1, <2>2, <1>3, <1>15, <1>16, <1>17
<1>27. L2[new] = L[n] /\ \A q \in D : L2[q] = L[q] /\ (q # n => S2[q] = S[q])
  BY <1>3, <1>17
<1>28. Parted(D, L, S, n, new, k, D2, L2, S2)
  BY <1>3, <1>17 DEF Parted
<1> HIDE DEF K2, C2, V2, X2, L2, S2
<1>29. Split(D, K, C, L, S, n, new, m, 1, D2, K2, C2, L2, S2)
  <2>1. Parted(D, L, S, n, new, K[n][m + 1], D2, L2, S2)
    BY <1>6, <1>28 DEF k
  <2>2. Lists(D2, K2, C2)
    BY <1>24 DEF Lists
  <2>3. \A q \in D : q # n => K2[q] = K[q] /\ C2[q] = C[q]
    BY <1>25
  <2>4. /\ Len(K2[n]) = m /\ \A j \in 1..m : K2[n][j] = K[n][j]
        /\ Len(K2[new]) = Len(K[n]) - m - 1
        /\ \A j \in 1..Len(K2[new]) : K2[new][j] = K[n][m + 1 + j]
    BY <1>6, <1>13, <1>25
  <2>5. /\ Len(C2[n]) = m + 1 /\ \A j \in 1..(m + 1) : C2[n][j] = C[n][j]
        /\ Len(C2[new]) = Len(C[n]) - m - 1
        /\ \A j \in 1..Len(C2[new]) : C2[new][j] = C[n][m + 1 + j]
    BY <1>6, <1>14, <1>25
  <2>6. 0 \notin D /\ new \in Nat /\ m \in Nat /\ m > 0 /\ m + 1 < Len(K[n])
    BY <1>6, <1>8, <1>11, <1>17
  <2> QED
    BY <2>1, <2>2, <2>3, <2>4, <2>5, <2>6 DEF Split
<1>30. TreeOK(D2, root, K2, C2, L2, S2, n, new) /\ Pending(D2, root, L2, S2, n, new, k)
  <2>1. K[n][m + 1] = k
    BY <1>6 DEF k
  <2> HIDE DEF D2, n, D
  <2> QED
    BY <2>1, <1>7, <1>29, SplitTree
<1>31. InnerOnly(D, K, V, X, L, S, D2, K2, V2, X2, L2, S2)
  <2>1. \A q \in D : L[q] = 0 => q # n
    BY <1>4
  <2>2. \A q \in D2 : L2[q] = 0 => q \in D
    BY <1>4, <1>27
  <2> QED
    BY <2>1, <2>2, <1>24, <1>25, <1>27 DEF InnerOnly
<1>32. \A q \in D2 : TreeLeaf'[q] <=> L2[q] = 0
  <2>1. L2[new] # 0 /\ TreeLeaf'[new] = FALSE
    <3>1. L2[new] # 0
      BY <1>4, <1>27
    <3>2. new \in D2
      OBVIOUS
    <3>3. TreeLeaf'[new] = FALSE
      BY <3>2, <1>26
    <3> QED
      BY <3>1, <3>3
  <2>2. \A q \in D : L2[q] = L[q] /\ TreeLeaf'[q] = TreeLeaf[q]
    BY <1>17, <1>26, <1>27
  <2> QED
    BY <2>1, <2>2, <1>7
<1>33. /\ ChainOK({q \in D2 : L2[q] = 0}, X2, S2, P, N) /\ LeafLists(D2, K2, V2, L2)
       /\ \A key, v : InTree(TreeLeaf', K2, V2, key, v) <=> InTree(TreeLeaf, K, V, key, v)
  <2>1. DOMAIN TreeLeaf = D /\ DOMAIN TreeLeaf' = D2
    BY <1>17 DEF TreeLeaf
  <2> HIDE DEF D2, D
  <2> QED
    BY <2>1, <1>7, <1>31, <1>32, LeavesStay
<1>34. PICK LL, SS, PP, NN : LL = L2 /\ SS = S2 /\ PP = P /\ NN = N
  OBVIOUS
<1>35. Settled(w, LL, SS, PP, NN)'
  <2>1. Shape(D2, root, K2, V2, C2, X2, TreeLeaf', n, new, k, LL, SS, PP, NN)
    BY <1>30, <1>32, <1>33, <1>34 DEF Shape
  <2> QED
    BY <2>1, <1>1, <1>17, <1>22 DEF Settled, K2, V2, C2, X2
<1>36. SameLists(w)
  BY <1>33 DEF SameLists, K2, V2, K, V
<1>37. Sizes(w)'
  <2>1. \A q \in D2 : ~Doing(w, "split", q)' /\ ~Doing(w, "splitinner", q)'
    BY <1>18, <1>19 DEF Doing
  <2>2. \A q \in D : q # n => ~Doing(w, "split", q) /\ ~Doing(w, "splitinner", q)
    BY DEF Doing
  <2>3. \A q \in D : q # n => Len(K[q]) < Order
    BY <2>2 DEF Sizes, K
  <2>4. Len(K2[n]) < Order /\ Len(K2[new]) < Order
    BY <1>11, <1>13, <1>25
  <2>5. \A q \in D2 : Len(K2[q]) < Order
    BY <2>3, <2>4, <1>25
  <2> QED
    BY <2>1, <2>5, <1>17 DEF Sizes, K2
<1>38. Work(w, LL, SS)'
  <2>1. WayOK(op[w].path, root, D2, C2, LL)
    <3>1. D \subseteq D2 /\ root \in D /\ L[root] \in Nat /\ \A q \in D : LL[q] = L[q]
      BY <1>8, <1>27, <1>34
    <3>2. \A q \in D : q # Last(op[w].path).node => C2[q] = C[q]
      BY <1>25 DEF Here
    <3>3. WayOK(op[w].path, root, D, C, L)
      BY <1>3
    <3> HIDE DEF D2, D
    <3> QED
      BY <3>1, <3>2, <3>3, SameWay
  <2>2. op'[w].path = op[w].path /\ op'[w].pc = "splitchildren"
    BY <1>18, <1>19
  <2>3. WayOK(op'[w].path, root', DOMAIN nodes', TreeChildren(w)', LL)
    BY <2>1, <2>2, <1>1, <1>17 DEF C2
  <2>4. LL[Here(w)'] > 0
    BY <1>3, <1>4, <1>20, <1>27, <1>34
  <2>5. Len(nodes'[Here(w)'].keys) + 1 <= Len(nodes'[Here(w)'].children)
    <3>1. nodes'[Here(w)'].keys = Upto(keys, m) /\ nodes'[Here(w)'].children = children
      BY <1>15, <1>17, <1>20
    <3> QED
      BY <3>1, <1>9, <1>11, <1>13
  <2>6. LeafWork(w, LL, SS)'
    BY <2>2 DEF LeafWork, LeafStages
  <2>7. InnerWork(w, LL)'
    BY <2>2, <2>4, <2>5 DEF InnerWork, InnerStages
  <2> QED
    BY <2>3, <2>6, <2>7 DEF Work
<1> QED
  BY <1>21, <1>35, <1>36, <1>37, <1>38

\* The split root gets a root above it.
LEMMA NewRootKeeps ==
  ASSUME NEW w \in Writers, Typed, NEW L, NEW S, NEW P, NEW N,
         Settled(w, L, S, P, N), Sizes(w), Work(w, L, S), NewRoot(w)
  PROVE  /\ Typed' /\ Sizes(w)' /\ SameLists(w)
         /\ \E L2, S2, P2, N2 : Settled(w, L2, S2, P2, N2)' /\ Work(w, L2, S2)'
<1> DEFINE D == DOMAIN nodes
           new == op[w].new
           mid == op[w].mid
           top == Len(nodes) + 1
           D2 == D \cup {top}
           node == Inner(<<mid>>, <<root, new>>)
           K == TreeKeys(w)
           C == TreeChildren(w)
           V == TreeValues(w)
           X == TreeNext(w)
<1>1. op[w].pc = "root" /\ nodes' = Append(nodes, node) /\ root' = top /\ Finish(w)
  BY DEF NewRoot
<1>2. op[w].pc \in LeafStages \cup InnerStages \cup {"root"}
  BY <1>1
<1>3. /\ op[w] \in Ops /\ InnerWork(w, L) /\ nodes \in Seq(Node) /\ Len(nodes) \in Nat /\ mid \in Int
      /\ D = 1..Len(nodes) /\ WayOK(op[w].path, root, D, C, L) /\ L[root] \in Nat
  BY <1>2, WorkContext
<1>4. Here(w) = root
  <2>1. Len(op[w].path) = 1
    BY <1>1, <1>3 DEF InnerWork
  <2> QED
    BY <2>1, <1>3, EndOfWay DEF Here
<1>5. /\ L \in [D -> Nat] /\ S \in [D -> SUBSET Int] /\ 0 \notin D /\ root \in D /\ root \in Nat
      /\ K \in [D -> Seq(Int)] /\ C \in [D -> Seq(Nat)] /\ V \in [D -> Seq(Seq(Rows))]
      /\ \A q \in D : L[q] \in Nat
  BY Known
<1>6. /\ \A q \in D : K[q] = nodes[q].keys /\ V[q] = nodes[q].values
                      /\ C[q] = nodes[q].children /\ X[q] = nodes[q].next
      /\ Cur(w) = root /\ New(w) = new /\ Middle(w) = (IF new = 0 THEN 0 ELSE mid)
  <2>1. \A q \in D : /\ ~Doing(w, "value", q) /\ ~Doing(w, "child", q) /\ ~Doing(w, "popvalue", q)
                     /\ ~Doing(w, "splitchildren", q) /\ ~Doing(w, "splitvalues", q)
    BY <1>1 DEF Doing
  <2> QED
    BY <2>1, <1>1, <1>4 DEF TreeKeys, TreeValues, TreeChildren, TreeNext, Cur, New, Middle
<1>7. /\ TreeOK(D, root, K, C, L, S, root, new)
      /\ ChainOK({q \in D : L[q] = 0}, X, S, P, N) /\ LeafLists(D, K, V, L)
      /\ \A q \in D : TreeLeaf[q] <=> L[q] = 0
  BY <1>6 DEF Settled, Shape
<1>8. Pending(D, root, L, S, root, new, mid) /\ new \in D /\ new \in Nat
  <2>1. Pending(D, root, L, S, Cur(w), New(w), Middle(w))
    BY <1>5, <1>6, SplitContext
  <2>2. new \in D /\ new # 0
    BY <2>1, <1>5, <1>6 DEF Pending
  <2> QED
    BY <2>1, <2>2, <1>3, <1>6
<1> HIDE DEF K, C, V, X
<1> DEFINE kt == <<mid>>
           ct == <<root, new>>
<1>9. /\ kt \in Seq(Int) /\ Len(kt) = 1 /\ kt[1] = mid
      /\ ct \in Seq(Nat) /\ Len(ct) = 2 /\ ct[1] = root /\ ct[2] = new
  BY <1>3, <1>5, <1>8
<1>10. /\ node \in Node /\ node.leaf = FALSE /\ node.keys = kt /\ node.values = <<>>
       /\ node.children = ct /\ node.next = Nil
  <2> HIDE DEF kt, ct
  <2>1. node = [leaf |-> FALSE, keys |-> kt, values |-> <<>>, children |-> ct, next |-> Nil]
    BY DEF Inner, kt, ct
  <2> HIDE DEF node
  <2> QED
    BY <2>1, <1>9 DEF Node
<1> HIDE DEF node, kt, ct
<1>11. /\ nodes' \in Seq(Node) /\ DOMAIN nodes' = D2 /\ top \notin D /\ top \in Nat /\ top # 0
       /\ nodes'[top] = node /\ \A q \in D : nodes'[q] = nodes[q]
  <2>1. /\ nodes' \in Seq(Node) /\ Len(nodes') = Len(nodes) + 1
        /\ \A i \in 1..Len(nodes) : nodes'[i] = nodes[i]
        /\ nodes'[Len(nodes) + 1] = node
    BY <1>1, <1>3, <1>10, AppendProperties
  <2>2. DOMAIN nodes' = 1..(Len(nodes) + 1)
    BY <2>1, LenProperties
  <2>3. 1..(Len(nodes) + 1) = (1..Len(nodes)) \cup {Len(nodes) + 1} /\ Len(nodes) + 1 \notin 1..Len(nodes)
    BY <1>3
  <2> QED
    BY <2>1, <2>2, <2>3, <1>3
<1> HIDE DEF top
<1>12. op' \in [Writers -> {Idle} \cup Ops] /\ op'[w] = Idle /\ op'[w].pc = "idle" /\ op'[w].pc \in Plain
  BY <1>1, Rests DEF Plain
<1>13. Typed'
  BY <1>1, <1>11, <1>12 DEF Typed
<1> DEFINE K2 == TreeKeys(w)'
           C2 == TreeChildren(w)'
           V2 == TreeValues(w)'
           X2 == TreeNext(w)'
           L2 == [q \in D2 |-> IF q = top THEN L[root] + 1 ELSE L[q]]
           S2 == [q \in D2 |-> IF q = top THEN Int ELSE S[q]]
<1>14. /\ K2 = [q \in D2 |-> nodes'[q].keys] /\ V2 = [q \in D2 |-> nodes'[q].values]
       /\ C2 = [q \in D2 |-> nodes'[q].children] /\ X2 = [q \in D2 |-> nodes'[q].next]
       /\ Cur(w)' = 0 /\ New(w)' = 0 /\ Middle(w)' = 0
  BY <1>11, <1>12, PlainTreeNext
<1> HIDE DEF K2, C2, V2, X2
<1>15. /\ \A q \in D : /\ K2[q] = K[q] /\ V2[q] = V[q] /\ C2[q] = C[q] /\ X2[q] = X[q]
       /\ K2[top] = kt /\ C2[top] = ct
  BY <1>6, <1>10, <1>11, <1>14
<1>16. /\ K2 = [q \in D2 |-> IF q = top THEN kt ELSE K[q]] /\ C2 = [q \in D2 |-> IF q = top THEN ct ELSE C[q]]
       /\ V2 \in [D2 -> Seq(Seq(Rows))]
  <2>1. K2 = [q \in D2 |-> K2[q]] /\ C2 = [q \in D2 |-> C2[q]]
    BY <1>14
  <2>2. \A q \in D2 : nodes'[q].values \in Seq(Seq(Rows))
    BY <1>11, LenProperties, ElementOfSeq, NodeFields
  <2> QED
    BY <2>1, <2>2, <1>14, <1>15
<1>17. /\ \A q \in D : L2[q] = L[q] /\ S2[q] = S[q] /\ q # top
       /\ L2[top] = L[root] + 1 /\ L2[top] > 0
  BY <1>3, <1>11
<1>18. TreeOK(D2, top, K2, C2, L2, S2, 0, 0)
  <2>1. L2 = [q \in D2 |-> IF q = top THEN L[root] + 1 ELSE L[q]] /\ S2 = [q \in D2 |-> IF q = top THEN Int ELSE S[q]]
    OBVIOUS
  <2>2. D2 = D \cup {top}
    OBVIOUS
  <2> HIDE DEF L2, S2, D, D2, new, mid
  <2>3. Grown(D, root, K, C, L, S, new, mid, top, D2, K2, C2, L2, S2)
    BY <2>1, <2>2, <1>5, <1>8, <1>9, <1>11, <1>16 DEF Grown
  <2> QED
    BY <2>3, <1>7, <1>8, TallerTree
<1> HIDE DEF L2, S2
<1>19. \A q \in D2 : TreeLeaf'[q] = IF q = top THEN FALSE ELSE TreeLeaf[q]
  BY <1>10, <1>11 DEF TreeLeaf
<1>20. \A q \in D2 : TreeLeaf'[q] <=> L2[q] = 0
  <2>1. L2[top] # 0 /\ TreeLeaf'[top] = FALSE
    <3>1. L2[top] # 0
      BY <1>17
    <3>2. top \in D2
      OBVIOUS
    <3>3. TreeLeaf'[top] = FALSE
      BY <3>2, <1>19
    <3> QED
      BY <3>1, <3>3
  <2>2. \A q \in D : L2[q] = L[q] /\ TreeLeaf'[q] = TreeLeaf[q]
    BY <1>17, <1>19
  <2> QED
    BY <2>1, <2>2, <1>7
<1>21. InnerOnly(D, K, V, X, L, S, D2, K2, V2, X2, L2, S2)
  <2>1. \A q \in D2 : L2[q] = 0 => q \in D
    BY <1>17
  <2> QED
    BY <2>1, <1>15, <1>16, <1>17 DEF InnerOnly
<1>22. /\ ChainOK({q \in D2 : L2[q] = 0}, X2, S2, P, N) /\ LeafLists(D2, K2, V2, L2)
       /\ \A key, v : InTree(TreeLeaf', K2, V2, key, v) <=> InTree(TreeLeaf, K, V, key, v)
  <2>1. DOMAIN TreeLeaf = D /\ DOMAIN TreeLeaf' = D2
    BY <1>11 DEF TreeLeaf
  <2> HIDE DEF D2, D
  <2> QED
    BY <2>1, <1>7, <1>20, <1>21, LeavesStay
<1>23. PICK LL, SS, PP, NN : LL = L2 /\ SS = S2 /\ PP = P /\ NN = N
  OBVIOUS
<1>24. Settled(w, LL, SS, PP, NN)'
  <2>1. Shape(D2, top, K2, V2, C2, X2, TreeLeaf', 0, 0, 0, LL, SS, PP, NN)
    BY <1>18, <1>20, <1>22, <1>23 DEF Shape
  <2> QED
    BY <2>1, <1>1, <1>11, <1>14 DEF Settled, K2, V2, C2, X2
<1>25. SameLists(w)
  BY <1>22 DEF SameLists, K2, V2, K, V
<1>26. Sizes(w)'
  <2>1. \A q \in D2 : ~Doing(w, "split", q)' /\ ~Doing(w, "splitinner", q)'
    BY <1>12 DEF Doing
  <2>2. \A q \in D : ~Doing(w, "split", q) /\ ~Doing(w, "splitinner", q)
    BY <1>1 DEF Doing
  <2>3. \A q \in D : Len(K[q]) < Order
    BY <2>2 DEF Sizes, K
  <2>4. Len(K2[top]) < Order
    BY <1>9, <1>15, OrderAssumption
  <2>5. \A q \in D2 : Len(K2[q]) < Order
    BY <2>3, <2>4, <1>15
  <2> QED
    BY <2>1, <2>5, <1>11 DEF Sizes, K2
<1>27. Work(w, LL, SS)'
  BY <1>12 DEF Work
<1> QED
  BY <1>13, <1>24, <1>25, <1>26, <1>27

\* A tree of one leaf without keys.
LEMMA FirstTree ==
  ASSUME NEW w \in Writers, Init
  PROVE  TreeInv(w)
<1> DEFINE D == {1}
           node == Leaf(<<>>, <<>>, Nil)
           L == [q \in D |-> 0]
           S == [q \in D |-> Int]
           P == [q \in D |-> 1]
           K == [q \in D |-> <<>>]
           X == [q \in D |-> Nil]
           F == [q \in D |-> TRUE]
<1>1. nodes = <<node>> /\ root = 1 /\ op[w] = Idle /\ op = [v \in Writers |-> Idle]
  BY DEF Init
<1>2. /\ node \in Node /\ node.leaf = TRUE /\ node.keys = <<>> /\ node.values = <<>>
      /\ node.children = <<>> /\ node.next = Nil
  <2> HIDE DEF node
  <2>1. node = [leaf |-> TRUE, keys |-> <<>>, values |-> <<>>, children |-> <<>>, next |-> Nil]
    BY DEF Leaf, node
  <2>2. <<>> \in Seq(Int) /\ <<>> \in Seq(Seq(Rows)) /\ <<>> \in Seq(Nat)
    OBVIOUS
  <2> QED
    BY <2>1, <2>2 DEF Node
<1> HIDE DEF node
<1>3. nodes \in Seq(Node) /\ DOMAIN nodes = D /\ nodes[1] = node
  BY <1>1, <1>2
<1>4. Typed
  BY <1>1, <1>3 DEF Typed
<1>5. op[w].pc \in Plain /\ op[w].pc = "idle"
  BY <1>1 DEF Plain, Idle
<1>6. /\ TreeKeys(w) = K /\ TreeValues(w) = K /\ TreeChildren(w) = K /\ TreeNext(w) = X /\ TreeLeaf = F
      /\ Cur(w) = 0 /\ New(w) = 0 /\ Middle(w) = 0
  <2>1. \A q \in D : q = 1
    OBVIOUS
  <2>2. \A q \in D : nodes[q] = node
    BY <2>1, <1>3
  <2>3. /\ TreeKeys(w) = [q \in D |-> nodes[q].keys] /\ TreeValues(w) = [q \in D |-> nodes[q].values]
        /\ TreeChildren(w) = [q \in D |-> nodes[q].children] /\ TreeNext(w) = [q \in D |-> nodes[q].next]
        /\ TreeLeaf = [q \in D |-> nodes[q].leaf]
        /\ Cur(w) = 0 /\ New(w) = 0 /\ Middle(w) = 0
    BY <1>3, <1>5, PlainTree DEF TreeLeaf
  <2> HIDE DEF D
  <2> QED
    BY <2>2, <2>3, <1>2
<1>7. /\ \A q \in D : q = 1 /\ L[q] = 0 /\ S[q] = Int /\ P[q] = 1 /\ K[q] = <<>> /\ X[q] = Nil /\ F[q] = TRUE
      /\ L \in [D -> Nat] /\ S \in [D -> SUBSET Int] /\ P \in [D -> 1..1]
  OBVIOUS
<1>8. K \in [D -> Seq(Int)] /\ K \in [D -> Seq(Nat)] /\ K \in [D -> Seq(Seq(Rows))]
  <2>1. <<>> \in Seq(Int) /\ <<>> \in Seq(Seq(Rows)) /\ <<>> \in Seq(Nat)
    OBVIOUS
  <2> HIDE DEF D
  <2> QED
    BY <2>1
<1>9. 1 \in D /\ \A q \in D : Len(K[q]) = 0
  BY <1>7
<1> HIDE DEF D, L, S, P, K, X, F
<1>10. TreeOK(D, 1, K, K, L, S, 0, 0)
  <2>1. Lists(D, K, K)
    BY <1>8 DEF Lists
  <2>2. Levels(D, 1, K, K, L)
    BY <1>7, <1>9 DEF Levels
  <2>3. Disjoint(D, L, S)
    <3>1. 0 \in Int
      OBVIOUS
    <3> QED
      BY <3>1, <1>7 DEF Disjoint
  <2>4. Ordered(D, K, S)
    BY <1>7, <1>9 DEF Ordered, Ascending
  <2>5. Divided(D, 1, K, K, L, S, 0, 0)
    BY <1>7, <1>9 DEF Divided, Whole
  <2> QED
    BY <2>1, <2>2, <2>3, <2>4, <2>5 DEF TreeOK
<1>11. ChainOK({q \in D : L[q] = 0}, X, S, P, 1)
  <2>1. {q \in D : L[q] = 0} = D
    BY <1>7
  <2>2. \A i \in 1..1 : \E q \in D : P[q] = i
    BY <1>7, <1>9
  <2>3. ChainOK(D, X, S, P, 1)
    BY <2>2, <1>7 DEF ChainOK
  <2> QED
    BY <2>1, <2>3
<1>12. LeafLists(D, K, K, L)
  BY <1>8, <1>9 DEF LeafLists
<1>13. Settled(w, L, S, P, 1)
  <2>1. Shape(D, 1, K, K, K, X, F, 0, 0, 0, L, S, P, 1)
    BY <1>7, <1>10, <1>11, <1>12 DEF Shape
  <2> QED
    BY <2>1, <1>1, <1>3, <1>6 DEF Settled
<1>14. Sizes(w)
  <2>1. \A q \in D : ~Doing(w, "split", q) /\ ~Doing(w, "splitinner", q)
    BY <1>5 DEF Doing
  <2> QED
    BY <2>1, <1>3, <1>6, <1>9, OrderAssumption DEF Sizes
<1>15. Work(w, L, S)
  BY <1>1 DEF Work
<1> QED
  BY <1>4, <1>13, <1>14, <1>15 DEF TreeInv

\* What a step leaves behind is a tree with some levels, territories and places.
LEMMA TreeFound ==
  ASSUME NEW w, NEW L, NEW S, NEW P, NEW N,
         Typed', Settled(w, L, S, P, N)', Sizes(w)', Work(w, L, S)'
  PROVE  TreeInv(w)'
BY DEF TreeInv

LEMMA WriteKeeps ==
  ASSUME NEW w \in Writers, TreeInv(w), Write(w)
  PROVE  TreeInv(w)'
<1>1. PICK L, S, P, N : Settled(w, L, S, P, N) /\ Sizes(w) /\ Work(w, L, S)
  BY DEF TreeInv
<1>2. Typed
  BY DEF TreeInv
<1>3. ASSUME NEW e \in Entries, CallInsert(w, e)
      PROVE  TreeInv(w)'
  <2>1. Call(w, e, "leaf")
    BY <1>3 DEF CallInsert
  <2>2. Typed' /\ Settled(w, L, S, P, N)' /\ Sizes(w)' /\ Work(w, L, S)'
    BY <2>1, <1>1, <1>2, CallKeeps
  <2> QED
    BY <2>2, TreeFound
<1>4. ASSUME NEW e \in Removals, CallDelete(w, e)
      PROVE  TreeInv(w)'
  <2>1. Call(w, e, "remove")
    BY <1>4 DEF CallDelete
  <2>2. Typed' /\ Settled(w, L, S, P, N)' /\ Sizes(w)' /\ Work(w, L, S)'
    BY <2>1, <1>1, <1>2, CallKeeps
  <2> QED
    BY <2>2, TreeFound
<1>5. CASE LeafRow(w)
  BY <1>1, <1>2, <1>5, LeafRowKeeps, TreeFound
<1>6. CASE LeafKey(w)
  BY <1>1, <1>2, <1>6, LeafKeyKeeps, TreeFound
<1>7. CASE LeafValue(w)
  BY <1>1, <1>2, <1>7, LeafValueKeeps, TreeFound
<1>8. CASE SplitLeafKeys(w)
  <2>1. Typed' /\ Sizes(w)' /\ \E L2, S2, P2, N2 : Settled(w, L2, S2, P2, N2)' /\ Work(w, L2, S2)'
    BY <1>1, <1>2, <1>8, SplitLeafKeysKeeps
  <2> QED
    BY <2>1, TreeFound
<1>9. CASE SplitLeafValues(w)
  BY <1>1, <1>2, <1>9, SplitLeafValuesKeeps, TreeFound
<1>10. CASE Link(w)
  BY <1>1, <1>2, <1>10, LinkKeeps, TreeFound
<1>11. CASE ParentKey(w)
  BY <1>1, <1>2, <1>11, ParentKeyKeeps, TreeFound
<1>12. CASE ParentChild(w)
  BY <1>1, <1>2, <1>12, ParentChildKeeps, TreeFound
<1>13. CASE SplitInnerKeys(w)
  <2>1. Typed' /\ Sizes(w)' /\ \E L2, S2, P2, N2 : Settled(w, L2, S2, P2, N2)' /\ Work(w, L2, S2)'
    BY <1>1, <1>2, <1>13, SplitInnerKeysKeeps
  <2> QED
    BY <2>1, TreeFound
<1>14. CASE SplitInnerChildren(w)
  BY <1>1, <1>2, <1>14, SplitInnerChildrenKeeps, TreeFound
<1>15. CASE NewRoot(w)
  <2>1. Typed' /\ Sizes(w)' /\ \E L2, S2, P2, N2 : Settled(w, L2, S2, P2, N2)' /\ Work(w, L2, S2)'
    BY <1>1, <1>2, <1>15, NewRootKeeps
  <2> QED
    BY <2>1, TreeFound
<1>16. CASE RemoveRow(w)
  BY <1>1, <1>2, <1>16, RemoveRowKeeps, TreeFound
<1>17. CASE PopKey(w)
  BY <1>1, <1>2, <1>17, PopKeyKeeps, TreeFound
<1>18. CASE PopValue(w)
  BY <1>1, <1>2, <1>18, PopValueKeeps, TreeFound
<1> QED
  BY <1>3, <1>4, <1>5, <1>6, <1>7, <1>8, <1>9, <1>10, <1>11, <1>12, <1>13, <1>14, <1>15, <1>16, <1>17,
     <1>18 DEF Write

\* A reader changes nothing.
LEMMA ReadersChangeNothing ==
  ASSUME NEW r, \/ \E c \in Lookups : CallSearch(r, c)
                \/ Read(r)
  PROVE  UNCHANGED <<nodes, root, op>>
BY DEF CallSearch, Read, Descend, ScanLeaf, Return

LEMMA UnchangedTree ==
  ASSUME NEW w, TreeInv(w), UNCHANGED <<nodes, root, op>>
  PROVE  TreeInv(w)' /\ TreeStays(w)
<1>1. nodes' = nodes /\ root' = root /\ op' = op
  OBVIOUS
<1>2. \A pc, q : Doing(w, pc, q)' <=> Doing(w, pc, q)
  BY <1>1 DEF Doing, Here
<1>3. TreeKeys(w)' = TreeKeys(w) /\ TreeValues(w)' = TreeValues(w) /\ TreeLeaf' = TreeLeaf
  BY <1>1, <1>2 DEF TreeKeys, TreeValues, TreeLeaf, At
<1>4. TreeChildren(w)' = TreeChildren(w) /\ TreeNext(w)' = TreeNext(w)
  BY <1>1, <1>2 DEF TreeChildren, TreeNext, Here
<1>5. Cur(w)' = Cur(w) /\ New(w)' = New(w) /\ Middle(w)' = Middle(w)
  BY <1>1 DEF Cur, New, Middle, Here, At
<1>6. TreeStays(w)
  BY <1>1, <1>3, <1>4, <1>5 DEF TreeStays
<1>7. Typed'
  BY <1>1 DEF TreeInv, Typed
<1>8. PICK L, S, P, N : Settled(w, L, S, P, N) /\ Sizes(w) /\ Work(w, L, S)
  BY DEF TreeInv
<1>9. Settled(w, L, S, P, N)'
  BY <1>6, <1>8, StayingTree
<1>10. Sizes(w)'
  BY <1>1, <1>2, <1>3, <1>8 DEF Sizes
<1>11. LeafWork(w, L, S)' = LeafWork(w, L, S) /\ InnerWork(w, L)' = InnerWork(w, L)
  BY <1>1 DEF LeafWork, InnerWork, Here, At
<1>12. Work(w, L, S)'
  BY <1>1, <1>4, <1>8, <1>11 DEF Work
<1> QED
  BY <1>6, <1>7, <1>8, <1>9, <1>10, <1>12, TreeFound

\* Every step is one of the writer, or leaves the tree alone.
LEMMA StepsOfOne ==
  ASSUME NEW w, Writers = {w}, [Next]_vars
  PROVE  Write(w) \/ UNCHANGED <<nodes, root, op>>
<1>1. CASE \E v \in Writers : Write(v)
  BY <1>1
<1>2. CASE \E r \in Readers : (\E c \in Lookups : CallSearch(r, c)) \/ Read(r)
  BY <1>2, ReadersChangeNothing
<1>3. CASE UNCHANGED vars
  BY <1>3 DEF vars
<1> QED
  BY <1>1, <1>2, <1>3 DEF Next

\* The writer's node, its way and the halves of a split fit together at every
\* step, and there always are levels, territories and places in the chain for
\* all nodes.
THEOREM TreeInvariant ==
  ASSUME NEW w, Writers = {w}
  PROVE  Spec => []TreeInv(w)
<1>1. w \in Writers
  OBVIOUS
<1>2. Init => TreeInv(w)
  BY <1>1, FirstTree
<1>3. TreeInv(w) /\ [Next]_vars => TreeInv(w)'
  BY <1>1, StepsOfOne, WriteKeeps, UnchangedTree
<1> QED
  BY <1>2, <1>3, PTL DEF Spec

-----------------------------------------------------------------------------
(***************************************************************************)
(* The tree between two operations.                                        *)
(***************************************************************************)
NodeKeys     == [n \in DOMAIN nodes |-> nodes[n].keys]
NodeValues   == [n \in DOMAIN nodes |-> nodes[n].values]
NodeChildren == [n \in DOMAIN nodes |-> nodes[n].children]
NodeNext     == [n \in DOMAIN nodes |-> nodes[n].next]

Resting(L, S, P, N) ==
  /\ nodes \in Seq(Node)
  /\ Shape(DOMAIN nodes, root, NodeKeys, NodeValues, NodeChildren, NodeNext, TreeLeaf, 0, 0, 0, L, S, P, N)
  /\ \A n \in DOMAIN nodes : Len(nodes[n].keys) < Order

LEMMA RestingTree ==
  ASSUME NEW w, Writers = {w}, TreeInv(w), AtRest
  PROVE  \E L, S, P, N : Resting(L, S, P, N) /\ Settled(w, L, S, P, N)
<1>1. PICK L, S, P, N : Settled(w, L, S, P, N) /\ Sizes(w)
  BY DEF TreeInv
<1>2. op[w].pc = "idle" /\ op[w].pc \in Plain
  BY DEF AtRest, Idle, Plain
<1>3. /\ TreeKeys(w) = NodeKeys /\ TreeValues(w) = NodeValues /\ TreeChildren(w) = NodeChildren
      /\ TreeNext(w) = NodeNext /\ Cur(w) = 0 /\ New(w) = 0 /\ Middle(w) = 0
  BY <1>2, PlainTree DEF NodeKeys, NodeValues, NodeChildren, NodeNext
<1>4. \A n \in DOMAIN nodes : Len(nodes[n].keys) < Order
  <2>1. \A n \in DOMAIN nodes : ~Doing(w, "split", n) /\ ~Doing(w, "splitinner", n)
    BY <1>2 DEF Doing
  <2> QED
    BY <2>1, <1>1, <1>3 DEF Sizes, NodeKeys
<1>5. nodes \in Seq(Node)
  BY DEF TreeInv, Typed
<1> QED
  BY <1>1, <1>3, <1>4, <1>5 DEF Resting, Settled

\* The parts of the settled tree, node by node.
LEMMA RestingNodes ==
  ASSUME NEW L, NEW S, NEW P, NEW N, Resting(L, S, P, N)
  PROVE  /\ DOMAIN nodes = 1..Len(nodes) /\ Len(nodes) \in Nat /\ root \in DOMAIN nodes
         /\ L \in [DOMAIN nodes -> Nat] /\ S \in [DOMAIN nodes -> SUBSET Int]
         /\ \A n \in DOMAIN nodes :
              /\ nodes[n] \in Node /\ (nodes[n].leaf <=> L[n] = 0) /\ L[n] <= L[root]
              /\ nodes[n].keys \in Seq(Int) /\ Ascending(nodes[n].keys) /\ Len(nodes[n].keys) < Order
              /\ \A i \in 1..Len(nodes[n].keys) : nodes[n].keys[i] \in S[n]
              /\ L[n] = 0 => /\ Len(nodes[n].values) = Len(nodes[n].keys)
                             /\ \A i \in 1..Len(nodes[n].keys) :
                                  /\ nodes[n].keys[i] \in Keys
                                  /\ nodes[n].values[i] \in Seq(RowsOf(nodes[n].keys[i]))
              /\ L[n] > 0 =>
                   /\ nodes[n].children \in Seq(Nat) /\ Len(nodes[n].keys) > 0
                   /\ Len(nodes[n].children) = Len(nodes[n].keys) + 1
                   /\ DOMAIN nodes[n].children = 1..Len(nodes[n].children)
                   /\ \A i \in DOMAIN nodes[n].children :
                        nodes[n].children[i] \in DOMAIN nodes /\ L[nodes[n].children[i]] = L[n] - 1
<1> DEFINE D == DOMAIN nodes
<1>1. /\ nodes \in Seq(Node)
      /\ TreeOK(D, root, NodeKeys, NodeChildren, L, S, 0, 0) /\ LeafLists(D, NodeKeys, NodeValues, L)
      /\ \A n \in D : TreeLeaf[n] <=> L[n] = 0
      /\ \A n \in D : Len(nodes[n].keys) < Order
  BY DEF Resting, Shape
<1>2. D = 1..Len(nodes) /\ Len(nodes) \in Nat /\ \A n \in D : nodes[n] \in Node
  BY <1>1, LenProperties, ElementOfSeq
<1>3. /\ root \in D /\ L \in [D -> Nat] /\ \A n \in D : L[n] <= L[root]
      /\ S \in [D -> SUBSET Int]
  BY <1>1 DEF TreeOK, Levels, Disjoint
<1>4. \A n \in D : nodes[n].leaf <=> L[n] = 0
  BY <1>1 DEF TreeLeaf
<1>5. \A n \in D : /\ nodes[n].keys \in Seq(Int) /\ Ascending(nodes[n].keys)
                   /\ \A i \in 1..Len(nodes[n].keys) : nodes[n].keys[i] \in S[n]
  BY <1>1, <1>2, NodeFields DEF TreeOK, Ordered, NodeKeys
<1>6. \A n \in D : L[n] = 0 => /\ Len(nodes[n].values) = Len(nodes[n].keys)
                               /\ \A i \in 1..Len(nodes[n].keys) :
                                  /\ nodes[n].keys[i] \in Keys
                                  /\ nodes[n].values[i] \in Seq(RowsOf(nodes[n].keys[i]))
  BY <1>1 DEF LeafLists, NodeKeys, NodeValues
<1>7. ASSUME NEW n \in D, L[n] > 0
      PROVE  /\ nodes[n].children \in Seq(Nat) /\ Len(nodes[n].keys) > 0
             /\ Len(nodes[n].children) = Len(nodes[n].keys) + 1
             /\ DOMAIN nodes[n].children = 1..Len(nodes[n].children)
             /\ \A i \in DOMAIN nodes[n].children :
                  nodes[n].children[i] \in D /\ L[nodes[n].children[i]] = L[n] - 1
  <2>1. nodes[n].children \in Seq(Nat)
    BY <1>2, NodeFields
  <2>2. DOMAIN nodes[n].children = 1..Len(nodes[n].children)
    BY <2>1, LenProperties
  <2>3. /\ Len(NodeKeys[n]) > 0 /\ Len(NodeChildren[n]) = Len(NodeKeys[n]) + 1
        /\ \A i \in 1..Len(NodeChildren[n]) : NodeChildren[n][i] \in D /\ L[NodeChildren[n][i]] = L[n] - 1
    BY <1>1, <1>7 DEF TreeOK, Levels
  <2>4. NodeKeys[n] = nodes[n].keys /\ NodeChildren[n] = nodes[n].children
    BY DEF NodeKeys, NodeChildren
  <2> QED
    BY <2>1, <2>2, <2>3, <2>4
<1> HIDE DEF D
<1>8. \A n \in D : /\ nodes[n] \in Node /\ (nodes[n].leaf <=> L[n] = 0) /\ L[n] <= L[root]
                   /\ nodes[n].keys \in Seq(Int) /\ Ascending(nodes[n].keys) /\ Len(nodes[n].keys) < Order
                   /\ \A i \in 1..Len(nodes[n].keys) : nodes[n].keys[i] \in S[n]
  BY <1>1, <1>2, <1>3, <1>4, <1>5
<1> QED
  BY <1>2, <1>3, <1>6, <1>7, <1>8 DEF D

\* How deep the leaves are under every node.
Depths(d) ==
  d = [n \in DOMAIN nodes |->
        IF nodes[n].leaf THEN {0}
        ELSE {k + 1 : k \in UNION {d[nodes[n].children[i]] : i \in DOMAIN nodes[n].children}}]

LEMMA OneDepth ==
  ASSUME NEW L, NEW S, NEW P, NEW N, Resting(L, S, P, N), NEW d, Depths(d)
  PROVE  d[root] = {L[root]}
<1> DEFINE D == DOMAIN nodes
           G == {h \in Nat : \A n \in D : L[n] = h => d[n] = {h}}
<1>1. /\ root \in D /\ L \in [D -> Nat]
      /\ \A n \in D : nodes[n].leaf <=> L[n] = 0
      /\ \A n \in D : L[n] > 0 => /\ Len(nodes[n].children) = Len(nodes[n].keys) + 1
                                  /\ Len(nodes[n].keys) \in Nat
                                  /\ DOMAIN nodes[n].children = 1..Len(nodes[n].children)
                                  /\ \A i \in DOMAIN nodes[n].children :
                                       nodes[n].children[i] \in D /\ L[nodes[n].children[i]] = L[n] - 1
  BY RestingNodes, LenProperties
<1>2. \A n \in D :
        d[n] = IF nodes[n].leaf THEN {0}
               ELSE {k + 1 : k \in UNION {d[nodes[n].children[i]] : i \in DOMAIN nodes[n].children}}
  BY DEF Depths
<1>3. 0 \in G
  BY <1>1, <1>2
<1>4. ASSUME NEW h \in Nat, h \in G
      PROVE  h + 1 \in G
  <2> SUFFICES ASSUME NEW n \in D, L[n] = h + 1
               PROVE  d[n] = {h + 1}
    OBVIOUS
  <2> DEFINE cs == nodes[n].children
  <2>1. L[n] > 0 /\ L[n] # 0 /\ L[n] - 1 = h
    OBVIOUS
  <2>2. \A i \in DOMAIN cs : cs[i] \in D /\ L[cs[i]] = h
    BY <2>1, <1>1
  <2>3. \A i \in DOMAIN cs : d[cs[i]] = {h}
    BY <2>2, <1>4
  <2>4. 1 \in DOMAIN cs
    BY <2>1, <1>1
  <2>5. d[n] = {k + 1 : k \in UNION {d[cs[i]] : i \in DOMAIN cs}}
    BY <2>1, <1>1, <1>2
  <2> HIDE DEF cs
  <2>6. UNION {d[cs[i]] : i \in DOMAIN cs} = {h}
    BY <2>3, <2>4
  <2> QED
    BY <2>5, <2>6
<1> HIDE DEF G
<1>5. \A h \in Nat : h \in G
  BY <1>3, <1>4, AllNats
<1> QED
  BY <1>1, <1>5 DEF G

LEMMA DepthsExist ==
  ASSUME NEW L, NEW S, NEW P, NEW N, Resting(L, S, P, N)
  PROVE  \E d : Depths(d)
<1> DEFINE D == DOMAIN nodes
           d == [n \in D |-> {L[n]}]
           A(n) == IF nodes[n].leaf THEN {0}
                   ELSE {k + 1 : k \in UNION {d[nodes[n].children[i]] : i \in DOMAIN nodes[n].children}}
<1>1. /\ root \in D /\ L \in [D -> Nat]
      /\ \A n \in D : nodes[n].leaf <=> L[n] = 0
      /\ \A n \in D : L[n] > 0 => /\ Len(nodes[n].children) = Len(nodes[n].keys) + 1
                                  /\ Len(nodes[n].keys) \in Nat
                                  /\ DOMAIN nodes[n].children = 1..Len(nodes[n].children)
                                  /\ \A i \in DOMAIN nodes[n].children :
                                       nodes[n].children[i] \in D /\ L[nodes[n].children[i]] = L[n] - 1
  BY RestingNodes, LenProperties
<1>2. \A n \in D : d[n] = {L[n]}
  OBVIOUS
<1>3. ASSUME NEW n \in D
      PROVE  A(n) = {L[n]}
  <2>1. CASE L[n] = 0
    BY <2>1, <1>1
  <2>2. CASE L[n] # 0
    <3> DEFINE cs == nodes[n].children
    <3>1. L[n] > 0 /\ L[n] \in Nat /\ ~nodes[n].leaf
      BY <2>2, <1>1
    <3>2. \A i \in DOMAIN cs : cs[i] \in D /\ L[cs[i]] = L[n] - 1
      BY <3>1, <1>1
    <3>3. \A i \in DOMAIN cs : d[cs[i]] = {L[n] - 1}
      BY <3>2, <1>2
    <3>4. 1 \in DOMAIN cs
      BY <3>1, <1>1
    <3>5. A(n) = {k + 1 : k \in UNION {d[cs[i]] : i \in DOMAIN cs}}
      BY <3>1
    <3> HIDE DEF cs, A, d
    <3>6. UNION {d[cs[i]] : i \in DOMAIN cs} = {L[n] - 1}
      BY <3>3, <3>4
    <3> DEFINE h == L[n] - 1
               U == UNION {d[cs[i]] : i \in DOMAIN cs}
    <3>7. h \in Nat /\ h + 1 = L[n] /\ U = {h} /\ A(n) = {k + 1 : k \in U}
      BY <3>1, <3>5, <3>6
    <3> HIDE DEF h, U
    <3>8. {k + 1 : k \in U} = {h + 1}
      BY <3>7
    <3> QED
      BY <3>7, <3>8
  <2> QED
    BY <2>1, <2>2
<1>4. d = [n \in D |-> A(n)]
  <2> HIDE DEF A
  <2> QED
    BY <1>3
<1>5. Depths(d)
  <2>1. d = [n \in D |-> A(n)] => Depths(d)
    <3> HIDE DEF d
    <3> QED
      BY DEF Depths
  <2> QED
    BY <1>4, <2>1
<1> QED
  BY <1>5

LEMMA BalancedAtRest ==
  ASSUME NEW w, Writers = {w}, TreeInv(w)
  PROVE  RestingTreeIsBalanced
<1> DEFINE depth == CHOOSE d : Depths(d)
<1>1. CASE ~AtRest
  BY <1>1 DEF RestingTreeIsBalanced
<1>2. CASE AtRest
  <2>1. PICK L, S, P, N : Resting(L, S, P, N)
    BY <1>2, RestingTree
  <2>2. \A n \in DOMAIN nodes :
          /\ Len(nodes[n].keys) < Order
          /\ nodes[n].leaf  => Len(nodes[n].values) = Len(nodes[n].keys)
          /\ ~nodes[n].leaf => Len(nodes[n].children) = Len(nodes[n].keys) + 1
    <3>1. \A n \in DOMAIN nodes : ~nodes[n].leaf => L[n] > 0
      BY <2>1, RestingNodes
    <3> QED
      BY <2>1, <3>1, RestingNodes
  <2>3. depth[root] = {L[root]}
    <3>1. Depths(depth)
      BY <2>1, DepthsExist
    <3> HIDE DEF depth
    <3> QED
      BY <2>1, <3>1, OneDepth
  <2>4. Cardinality(depth[root]) = 1
    BY <2>3, FS_Singleton
  <2> QED
    BY <2>2, <2>4 DEF RestingTreeIsBalanced, Depths
<1> QED
  BY <1>1, <1>2

\* Between two operations no node is over-full, inner nodes have one child more
\* than keys, and all leaves are equally deep (bplustree.py 61-111), whatever the
\* order of the tree and the entries.
THEOREM TreeIsBalanced ==
  ASSUME NEW w, Writers = {w}
  PROVE  Spec => []RestingTreeIsBalanced
<1>1. TreeInv(w) => RestingTreeIsBalanced
  BY BalancedAtRest
<1>2. Spec => []TreeInv(w)
  BY TreeInvariant
<1> QED
  BY <1>1, <1>2, PTL

\* The leftmost leaf under every node.
Lefts(d) == d = [n \in DOMAIN nodes |-> IF nodes[n].leaf THEN n ELSE d[nodes[n].children[1]]]

LEMMA LeftsExist ==
  ASSUME NEW L, NEW S, NEW P, NEW N, Resting(L, S, P, N)
  PROVE  \E d : Lefts(d)
<1> DEFINE D == DOMAIN nodes
           first == [n \in D |-> IF L[n] = 0 THEN <<n>> ELSE <<>>]
           down == [n \in D |-> nodes[n].children[1]]
           h == L[root]
<1>1. /\ D \subseteq Nat /\ root \in D /\ L \in [D -> Nat]
      /\ \A n \in D : L[n] <= L[root] /\ (nodes[n].leaf <=> L[n] = 0) /\ L[n] \in Nat
      /\ \A n \in D : L[n] > 0 => /\ Len(nodes[n].children) = Len(nodes[n].keys) + 1
                                  /\ Len(nodes[n].keys) \in Nat
                                  /\ DOMAIN nodes[n].children = 1..Len(nodes[n].children)
                                  /\ \A i \in DOMAIN nodes[n].children :
                                       nodes[n].children[i] \in D /\ L[nodes[n].children[i]] = L[n] - 1
  BY RestingNodes, LenProperties
<1>2. \A n \in D : L[n] > 0 => down[n] \in D /\ L[down[n]] = L[n] - 1 /\ down[n] = nodes[n].children[1]
  <2> SUFFICES ASSUME NEW n \in D, L[n] > 0
               PROVE  down[n] \in D /\ L[down[n]] = L[n] - 1 /\ down[n] = nodes[n].children[1]
    OBVIOUS
  <2>1. 1 \in DOMAIN nodes[n].children
    BY <1>1
  <2> QED
    BY <2>1, <1>1
<1>3. first \in [D -> Seq(Nat)] /\ \A n \in D : first[n] = IF L[n] = 0 THEN <<n>> ELSE <<>>
  <2>1. \A n \in D : <<n>> \in Seq(Nat) /\ <<>> \in Seq(Nat)
    BY <1>1
  <2> QED
    BY <2>1
<1> HIDE DEF first, down
<1>4. h \in Nat /\ \A n \in D : L[n] <= h
  BY <1>1
<1> HIDE DEF h
<1>5. Descends(D, L, h, down, Nat, first)
  BY <1>1, <1>2, <1>3, <1>4 DEF Descends
<1>6. PICK f \in [D -> Seq(Nat)] :
        \A n \in D : f[n] = IF L[n] = 0 THEN first[n] ELSE first[n] \o f[down[n]]
  BY <1>5, DescentExists
<1>7. \A n \in D : f[n] = IF L[n] = 0 THEN <<n>> ELSE f[down[n]]
  <2> SUFFICES ASSUME NEW n \in D
               PROVE  f[n] = IF L[n] = 0 THEN <<n>> ELSE f[down[n]]
    OBVIOUS
  <2>1. CASE L[n] = 0
    BY <2>1, <1>3, <1>6
  <2>2. CASE L[n] # 0
    <3>1. L[n] > 0
      BY <2>2, <1>1
    <3>2. f[n] = <<>> \o f[down[n]] /\ f[down[n]] \in Seq(Nat)
      BY <3>1, <2>2, <1>2, <1>3, <1>6
    <3> QED
      BY <3>2, <2>2, ConcatEmptySeq
  <2> QED
    BY <2>1, <2>2
<1> DEFINE d == [n \in D |-> f[n][1]]
           A(n) == IF nodes[n].leaf THEN n ELSE d[nodes[n].children[1]]
<1>8. ASSUME NEW n \in D
      PROVE  f[n][1] = A(n)
  <2>1. CASE L[n] = 0
    BY <2>1, <1>1, <1>7
  <2>2. CASE L[n] # 0
    <3>1. L[n] > 0
      BY <2>2, <1>1
    <3> QED
      BY <3>1, <2>2, <1>1, <1>2, <1>7
  <2> QED
    BY <2>1, <2>2
<1>9. d = [n \in D |-> A(n)]
  BY <1>8
<1>10. d = [n \in D |-> A(n)] => Lefts(d)
  <2> HIDE DEF d
  <2> QED
    BY DEF Lefts
<1> QED
  BY <1>9, <1>10

\* A territory that is open below.
Open(T) == \E b \in Int : \A x \in Int : x < b => x \in T

LEMMA FirstLeaf ==
  ASSUME NEW L, NEW S, NEW P, NEW N, Resting(L, S, P, N), NEW d, Lefts(d)
  PROVE  d[root] \in DOMAIN nodes /\ L[d[root]] = 0 /\ P[d[root]] = 1
<1> DEFINE D == DOMAIN nodes
           Fine(n) == n \in D /\ L[n] = 0 /\ Open(S[n])
           G == {h \in Nat : \A n \in D : L[n] = h /\ Open(S[n]) => Fine(d[n])}
<1>1. /\ 0 \notin D /\ root \in D /\ L \in [D -> Nat] /\ S \in [D -> SUBSET Int]
      /\ \A n \in D : /\ (nodes[n].leaf <=> L[n] = 0)
                      /\ nodes[n].keys \in Seq(Int) /\ Len(nodes[n].keys) \in Nat
      /\ \A n \in D : L[n] > 0 => /\ Len(nodes[n].children) = Len(nodes[n].keys) + 1
                                  /\ Len(nodes[n].keys) > 0
                                  /\ DOMAIN nodes[n].children = 1..Len(nodes[n].children)
                                  /\ \A i \in DOMAIN nodes[n].children :
                                       nodes[n].children[i] \in D /\ L[nodes[n].children[i]] = L[n] - 1
  BY RestingNodes, LenProperties
<1>2. \A n \in D : d[n] = IF nodes[n].leaf THEN n ELSE d[nodes[n].children[1]]
  BY DEF Lefts
<1>3. Divided(D, root, NodeKeys, NodeChildren, L, S, 0, 0)
  BY DEF Resting, Shape, TreeOK
<1>4. S[root] = Int
  BY <1>1, <1>3 DEF Divided, Whole
<1>5. 0 \in G
  BY <1>1, <1>2
<1>6. ASSUME NEW h \in Nat, h \in G
      PROVE  h + 1 \in G
  <2> SUFFICES ASSUME NEW n \in D, L[n] = h + 1, Open(S[n])
               PROVE  Fine(d[n])
    OBVIOUS
  <2> DEFINE c == nodes[n].children[1]
             k == nodes[n].keys[1]
  <2>1. L[n] > 0 /\ L[n] # 0 /\ L[n] - 1 = h
    OBVIOUS
  <2>2. 1 \in DOMAIN nodes[n].children /\ 1 \in 1..Len(NodeChildren[n]) /\ NodeChildren[n][1] = c
    BY <2>1, <1>1 DEF NodeChildren
  <2>3. c \in D /\ L[c] = h
    BY <2>1, <2>2, <1>1
  <2>4. S[c] = {x \in S[n] : InPart(nodes[n].keys, 1, x)}
    <3>1. Whole(S, 0, 0, NodeChildren[n][1]) = {x \in S[n] : InPart(NodeKeys[n], 1, x)}
      BY <2>1, <2>2, <1>3 DEF Divided
    <3>2. Whole(S, 0, 0, c) = S[c]
      BY <2>3, <1>1 DEF Whole
    <3> QED
      BY <2>2, <3>1, <3>2 DEF NodeKeys
  <2>5. k \in Int
    BY <2>1, <1>1, ElementOfSeq
  <2>6. \A x \in Int : x < k => InPart(nodes[n].keys, 1, x)
    BY DEF InPart
  <2> HIDE DEF c, k
  <2>7. Open(S[c])
    <3>1. PICK b \in Int : \A x \in Int : x < b => x \in S[n]
      BY DEF Open
    <3>2. \A x \in Int : x < (IF b < k THEN b ELSE k) => x < b /\ x < k
      BY <2>5
    <3>3. \A x \in Int : x < (IF b < k THEN b ELSE k) => x \in S[c]
      BY <3>1, <3>2, <2>4, <2>6
    <3>4. (IF b < k THEN b ELSE k) \in Int
      BY <2>5
    <3> QED
      BY <3>3, <3>4 DEF Open
  <2>8. d[n] = d[c]
    BY <2>1, <1>1, <1>2 DEF c
  <2> QED
    BY <2>3, <2>7, <2>8, <1>6
<1> HIDE DEF G
<1>7. \A h \in Nat : h \in G
  BY <1>5, <1>6, AllNats
<1>8. Open(S[root])
  BY <1>4 DEF Open
<1>9. Fine(d[root])
  BY <1>1, <1>7, <1>8 DEF G
<1> DEFINE m == d[root]
           Lv == {n \in D : L[n] = 0}
<1>10. m \in Lv /\ Open(S[m])
  BY <1>9
<1>11. ChainOK(Lv, NodeNext, S, P, N)
  BY DEF Resting, Shape
<1> HIDE DEF m, Lv
<1>12. P[m] = 1
  <2>1. /\ N \in Nat /\ P \in [Lv -> 1..N]
        /\ \A i \in 1..N : \E n \in Lv : P[n] = i
        /\ \A q, n \in Lv : P[q] < P[n] => \A x \in S[q], y \in S[n] : x < y
    BY <1>11 DEF ChainOK
  <2>2. SUFFICES ASSUME P[m] # 1
                 PROVE  FALSE
    OBVIOUS
  <2>3. P[m] \in 1..N /\ 1 \in 1..N /\ 1 < P[m]
    BY <2>1, <2>2, <1>10
  <2>4. PICK q \in Lv : P[q] = 1
    BY <2>1, <2>3
  <2>5. PICK x : x \in S[q] /\ x \in Int
    BY <1>1 DEF Lv, Resting, Shape, TreeOK, Disjoint
  <2>6. PICK b \in Int : \A y \in Int : y < b => y \in S[m]
    BY <1>10 DEF Open
  <2> DEFINE y == (IF b < x THEN b ELSE x) - 1
  <2>7. y \in Int /\ y < b /\ ~(x < y)
    BY <2>5
  <2>8. y \in S[m]
    BY <2>6, <2>7
  <2> HIDE DEF y
  <2>9. x < y
    BY <2>1, <2>3, <2>4, <2>5, <2>8, <1>10
  <2> QED
    BY <2>7, <2>9
<1> QED
  BY <1>9, <1>12 DEF m

\* The leaves are as many as their places.
LEMMA LeavesCounted ==
  ASSUME NEW L, NEW S, NEW P, NEW N, Resting(L, S, P, N)
  PROVE  Leaves = {n \in DOMAIN nodes : L[n] = 0} /\ Cardinality(Leaves) = N /\ N \in Nat
<1> DEFINE Lv == {n \in DOMAIN nodes : L[n] = 0}
           f == [i \in 1..N |-> CHOOSE n \in Lv : P[n] = i]
<1>1. Leaves = Lv
  BY RestingNodes DEF Leaves
<1>2. ChainOK(Lv, NodeNext, S, P, N)
  BY DEF Resting, Shape
<1> HIDE DEF Lv
<1>3. /\ N \in Nat /\ P \in [Lv -> 1..N] /\ \A i \in 1..N : \E n \in Lv : P[n] = i
      /\ \A m, n \in Lv : P[m] = P[n] => m = n
  BY <1>2 DEF ChainOK
<1>4. \A i \in 1..N : f[i] \in Lv /\ P[f[i]] = i
  BY <1>3
<1>5. f \in [1..N -> Lv]
  BY <1>4
<1> HIDE DEF f
<1>6. \A a, b \in 1..N : f[a] = f[b] => a = b
  BY <1>4
<1>7. \A n \in Lv : \E i \in 1..N : f[i] = n
  BY <1>3, <1>4
<1>8. f \in Bijection(1..N, Lv)
  <2>1. f \in Injection(1..N, Lv)
    BY <1>5, <1>6 DEF Injection, IsInjective
  <2>2. f \in Surjection(1..N, Lv)
    BY <1>5, <1>7 DEF Surjection
  <2> QED
    BY <2>1, <2>2 DEF Bijection
<1>9. Cardinality(Lv) = N
  <2>1. ExistsBijection(1..N, Lv)
    BY <1>8 DEF ExistsBijection
  <2> QED
    BY <2>1, <1>3, FS_CountingElements
<1> QED
  BY <1>1, <1>3, <1>9 DEF Lv

\* The leaves along the chain, from l on.
Places(at, l) ==
  at = [i \in 1..Cardinality(Leaves) |->
         IF i = 1 THEN l
         ELSE IF at[i - 1] = Nil THEN Nil ELSE nodes[at[i - 1]].next]

LEMMA PlacesAre ==
  ASSUME NEW L, NEW S, NEW P, NEW N, Resting(L, S, P, N), NEW l, l \in DOMAIN nodes, L[l] = 0, P[l] = 1
  PROVE  /\ \E at : Places(at, l)
         /\ \A at : Places(at, l) => \A i \in 1..N : at[i] \in Leaves /\ P[at[i]] = i
<1> DEFINE Lv == {n \in DOMAIN nodes : L[n] = 0}
<1>1. Leaves = Lv /\ Cardinality(Leaves) = N /\ N \in Nat
  BY LeavesCounted
<1>2. ChainOK(Lv, NodeNext, S, P, N)
  BY DEF Resting, Shape
<1>3. l \in Lv /\ Lv \subseteq Nat /\ \A n \in Lv : n # Nil /\ NodeNext[n] = nodes[n].next
  BY RestingNodes, NilAssumption DEF NodeNext
<1> HIDE DEF Lv
<1>4. /\ P \in [Lv -> 1..N] /\ \A i \in 1..N : \E n \in Lv : P[n] = i
      /\ \A m, n \in Lv : P[m] = P[n] => m = n
      /\ \A n \in Lv : IF P[n] = N THEN NodeNext[n] = Nil ELSE NodeNext[n] \in Lv /\ P[NodeNext[n]] = P[n] + 1
  BY <1>2 DEF ChainOK
<1>5. ASSUME NEW n \in Lv, NEW i \in 1..N, i # 1, P[n] = i - 1
      PROVE  nodes[n].next \in Lv /\ P[nodes[n].next] = i
  <2>1. P[n] # N /\ P[n] + 1 = i
    BY <1>1, <1>5
  <2> QED
    BY <2>1, <1>3, <1>4
<1>6. ASSUME NEW at, Places(at, l)
      PROVE  \A i \in 1..N : at[i] \in Lv /\ P[at[i]] = i
  <2> DEFINE G == {h \in Nat : h + 1 \in 1..N => at[h + 1] \in Lv /\ P[at[h + 1]] = h + 1}
  <2>1. \A i \in 1..N :
          at[i] = IF i = 1 THEN l ELSE IF at[i - 1] = Nil THEN Nil ELSE nodes[at[i - 1]].next
    BY <1>1, <1>6 DEF Places
  <2>2. 0 \in G
    BY <2>1, <1>3
  <2>3. ASSUME NEW h \in Nat, h \in G
        PROVE  h + 1 \in G
    <3> DEFINE i == (h + 1) + 1
    <3>0. i = (h + 1) + 1
      OBVIOUS
    <3> HIDE DEF i
    <3> SUFFICES ASSUME i \in 1..N
                 PROVE  at[i] \in Lv /\ P[at[i]] = i
      BY <3>0
    <3>1. i - 1 = h + 1 /\ h + 1 \in 1..N /\ i # 1
      BY <3>0, <1>1
    <3>2. at[i - 1] \in Lv /\ P[at[i - 1]] = i - 1
      BY <3>1, <2>3
    <3>3. at[i] = nodes[at[i - 1]].next
      BY <3>1, <3>2, <2>1, <1>3
    <3> QED
      BY <3>1, <3>2, <3>3, <1>5
  <2> HIDE DEF G
  <2>4. \A h \in Nat : h \in G
    BY <2>2, <2>3, AllNats
  <2> TAKE i \in 1..N
  <2>5. i - 1 \in Nat /\ (i - 1) + 1 = i
    BY <1>1
  <2>6. i - 1 \in G
    BY <2>4, <2>5
  <2> QED
    BY <2>5, <2>6 DEF G
<1>7. \E at : Places(at, l)
  <2> DEFINE f == [i \in 1..N |-> CHOOSE n \in Lv : P[n] = i]
             A(i) == IF i = 1 THEN l ELSE IF f[i - 1] = Nil THEN Nil ELSE nodes[f[i - 1]].next
  <2>1. \A i \in 1..N : f[i] \in Lv /\ P[f[i]] = i
    BY <1>4
  <2>2. f = [i \in 1..N |-> f[i]]
    OBVIOUS
  <2> HIDE DEF f
  <2>3. ASSUME NEW i \in 1..N
        PROVE  f[i] = A(i)
    <3>1. CASE i = 1
      BY <3>1, <2>1, <1>3, <1>4
    <3>2. CASE i # 1
      <4>1. i - 1 \in 1..N
        BY <3>2, <1>1
      <4>2. f[i - 1] \in Lv /\ P[f[i - 1]] = i - 1
        BY <4>1, <2>1
      <4>3. nodes[f[i - 1]].next \in Lv /\ P[nodes[f[i - 1]].next] = i
        BY <3>2, <4>2, <1>5
      <4>4. f[i] = nodes[f[i - 1]].next
        BY <4>3, <2>1, <1>4
      <4> QED
        BY <3>2, <4>2, <4>4, <1>3
    <3> QED
      BY <3>1, <3>2
  <2>4. f = [i \in 1..N |-> A(i)]
    <3> HIDE DEF A
    <3> QED
      BY <2>2, <2>3
  <2> QED
    BY <2>4, <1>1 DEF Places
<1> QED
  BY <1>1, <1>6, <1>7

\* The chain visits the leaves in the order of their places.
LEMMA ChainVisits ==
  ASSUME NEW L, NEW S, NEW P, NEW N, Resting(L, S, P, N)
  PROVE  /\ Chain \in Seq(Leaves) /\ Len(Chain) = N /\ N \in Nat /\ N > 0
         /\ \A i \in 1..N : Chain[i] \in Leaves /\ P[Chain[i]] = i
<1> DEFINE left == CHOOSE d : Lefts(d)
           l == left[root]
           at == CHOOSE a : Places(a, l)
<1>1. Lefts(left)
  BY LeftsExist
<1> HIDE DEF left
<1>2. l \in DOMAIN nodes /\ L[l] = 0 /\ P[l] = 1
  BY <1>1, FirstLeaf
<1>3. Places(at, l)
  <2> HIDE DEF l
  <2> QED
    BY <1>2, PlacesAre
<1>4. \A i \in 1..N : at[i] \in Leaves /\ P[at[i]] = i
  <2> HIDE DEF l, at
  <2> QED
    BY <1>2, <1>3, PlacesAre
<1>5. Cardinality(Leaves) = N /\ N \in Nat /\ l \in Leaves
  BY <1>2, LeavesCounted
<1>6. N > 0
  <2>1. P \in [Leaves -> 1..N]
    <3>1. Leaves = {n \in DOMAIN nodes : L[n] = 0}
      BY LeavesCounted
    <3> QED
      BY <3>1 DEF Resting, Shape, ChainOK
  <2> QED
    BY <2>1, <1>5
<1>7. Chain = [i \in 1..N |-> at[i]]
  BY <1>5 DEF Chain, Lefts, Places, left
<1> HIDE DEF at, l
<1>8. \A i \in 1..N : Chain[i] = at[i]
  BY <1>7
<1>9. Chain \in Seq(Leaves) /\ Len(Chain) = N
  <2>1. Chain \in [1..N -> Leaves]
    BY <1>4, <1>7
  <2> QED
    BY <2>1, <1>5, SeqDef, LenProperties
<1> QED
  BY <1>4, <1>5, <1>6, <1>8, <1>9

-----------------------------------------------------------------------------
(***************************************************************************)
(* Lists one behind the other.                                             *)
(***************************************************************************)
Behind(f, seqs) == f = [i \in 1..Len(seqs) |-> IF i = 1 THEN seqs[i] ELSE f[i - 1] \o seqs[i]]

\* Every list ascends, and from each list to the next ones.
Rising(seqs) ==
  /\ seqs \in Seq(Seq(Int))
  /\ \A i \in 1..Len(seqs) : Ascending(seqs[i])
  /\ \A i, j \in 1..Len(seqs) : i < j =>
       \A a \in 1..Len(seqs[i]), b \in 1..Len(seqs[j]) : seqs[i][a] < seqs[j][b]

LEMMA GluesExist ==
  ASSUME NEW seqs, Len(seqs) \in Nat
  PROVE  \E f : Behind(f, seqs)
<1> DEFINE Solves(f, h) == \A i \in 1..h : f[i] = IF i = 1 THEN seqs[i] ELSE f[i - 1] \o seqs[i]
           G == {h \in Nat : \E f : f = [i \in 1..h |-> f[i]] /\ Solves(f, h)}
<1>1. Len(seqs) \in Nat
  OBVIOUS
<1>2. 0 \in G
  <2> DEFINE f == [i \in 1..0 |-> seqs]
  <2>1. f = [i \in 1..0 |-> f[i]] /\ Solves(f, 0)
    OBVIOUS
  <2> QED
    BY <2>1
<1>3. ASSUME NEW h \in Nat, h \in G
      PROVE  h + 1 \in G
  <2>1. PICK f : Solves(f, h)
    BY <1>3
  <2> DEFINE e == [i \in 1..(h + 1) |->
                    IF i <= h THEN f[i] ELSE IF i = 1 THEN seqs[i] ELSE f[i - 1] \o seqs[i]]
  <2>2. e = [i \in 1..(h + 1) |-> e[i]]
    OBVIOUS
  <2>3. \A i \in 1..(h + 1) :
          e[i] = IF i <= h THEN f[i] ELSE IF i = 1 THEN seqs[i] ELSE f[i - 1] \o seqs[i]
    OBVIOUS
  <2> HIDE DEF e
  <2>4. ASSUME NEW i \in 1..(h + 1)
        PROVE  e[i] = IF i = 1 THEN seqs[i] ELSE e[i - 1] \o seqs[i]
    <3>1. i # 1 => i - 1 \in 1..(h + 1) /\ i - 1 <= h
      OBVIOUS
    <3>2. i # 1 => e[i - 1] = f[i - 1]
      BY <3>1, <2>3
    <3>3. CASE i <= h
      <4>1. i \in 1..h
        BY <3>3
      <4>2. f[i] = IF i = 1 THEN seqs[i] ELSE f[i - 1] \o seqs[i]
        BY <4>1, <2>1
      <4> QED
        BY <3>2, <3>3, <4>2, <2>3
    <3>4. CASE ~(i <= h)
      BY <3>2, <3>4, <2>3
    <3> QED
      BY <3>3, <3>4
  <2>5. Solves(e, h + 1)
    BY <2>4
  <2> HIDE DEF Solves
  <2> QED
    BY <2>2, <2>5
<1> HIDE DEF G
<1>4. Len(seqs) \in G
  <2>1. \A h \in Nat : h \in G
    BY <1>2, <1>3, AllNats
  <2> QED
    BY <2>1, <1>1
<1>5. PICK f : f = [i \in 1..Len(seqs) |-> f[i]] /\ Solves(f, Len(seqs))
  BY <1>4 DEF G
<1> DEFINE A(i) == IF i = 1 THEN seqs[i] ELSE f[i - 1] \o seqs[i]
<1>6. \A i \in 1..Len(seqs) : f[i] = A(i)
  BY <1>5
<1>7. f = [i \in 1..Len(seqs) |-> A(i)]
  <2> HIDE DEF A, Solves
  <2> QED
    BY <1>5, <1>6
<1> QED
  BY <1>7 DEF Behind

LEMMA BehindAscends ==
  ASSUME NEW seqs, Rising(seqs), NEW f, Behind(f, seqs)
  PROVE  \A i \in 1..Len(seqs) : f[i] \in Seq(Int) /\ Ascending(f[i])
<1> DEFINE From1(i, x) == \E j \in 1..i : \E b \in 1..Len(seqs[j]) : x = seqs[j][b]
           Fine(i) == /\ f[i] \in Seq(Int) /\ Ascending(f[i])
                      /\ \A a \in 1..Len(f[i]) : From1(i, f[i][a])
           G == {h \in Nat : h + 1 \in 1..Len(seqs) => Fine(h + 1)}
<1>1. /\ seqs \in Seq(Seq(Int)) /\ Len(seqs) \in Nat
      /\ \A i \in 1..Len(seqs) : seqs[i] \in Seq(Int) /\ Len(seqs[i]) \in Nat /\ Ascending(seqs[i])
      /\ \A i, j \in 1..Len(seqs) : i < j =>
           \A a \in 1..Len(seqs[i]), b \in 1..Len(seqs[j]) : seqs[i][a] < seqs[j][b]
  BY LenProperties, ElementOfSeq DEF Rising
<1>2. \A i \in 1..Len(seqs) : f[i] = IF i = 1 THEN seqs[i] ELSE f[i - 1] \o seqs[i]
  BY DEF Behind
<1>3. 0 \in G
  <2> SUFFICES ASSUME 1 \in 1..Len(seqs)
               PROVE  Fine(1)
    OBVIOUS
  <2>1. f[1] = seqs[1] /\ 1 \in 1..1
    BY <1>2
  <2> QED
    BY <2>1, <1>1
<1>4. ASSUME NEW h \in Nat, h \in G
      PROVE  h + 1 \in G
  <2> DEFINE i == h + 1
             j == (h + 1) + 1
  <2>0. i = h + 1 /\ j = i + 1 /\ i \in Nat /\ i >= 1
    OBVIOUS
  <2> HIDE DEF i, j
  <2> SUFFICES ASSUME j \in 1..Len(seqs)
               PROVE  Fine(j)
    BY <2>0
  <2>1. j # 1 /\ j - 1 = i /\ i \in 1..Len(seqs)
    BY <2>0, <1>1
  <2>2. Fine(i)
    BY <2>0, <2>1, <1>4
  <2> DEFINE a == f[i]
             b == seqs[j]
             c == a \o b
  <2>3. f[j] = c
    BY <2>1, <1>2
  <2>4. a \in Seq(Int) /\ b \in Seq(Int) /\ Ascending(a) /\ Ascending(b) /\ Len(a) \in Nat /\ Len(b) \in Nat
    BY <2>2, <1>1, LenProperties
  <2>5. \A x \in 1..Len(a) : From1(i, a[x])
    BY <2>2
  <2>6. \A x \in 1..Len(a) : \A y \in 1..Len(b) : a[x] < b[y]
    <3> TAKE x \in 1..Len(a)
    <3> TAKE y \in 1..Len(b)
    <3>1. PICK q \in 1..i : \E z \in 1..Len(seqs[q]) : a[x] = seqs[q][z]
      BY <2>5
    <3>2. q \in 1..Len(seqs) /\ q < j
      BY <2>0, <2>1, <1>1
    <3> QED
      BY <3>1, <3>2, <1>1
  <2>7. /\ c \in Seq(Int) /\ Len(c) = Len(a) + Len(b)
        /\ \A x \in 1..(Len(a) + Len(b)) : c[x] = IF x <= Len(a) THEN a[x] ELSE b[x - Len(a)]
    <3> HIDE DEF a, b
    <3> QED
      BY <2>4, ConcatProperties
  <2> HIDE DEF a, b, c
  <2>8. \A x \in 1..Len(c) : /\ x <= Len(a) => x \in 1..Len(a) /\ c[x] = a[x]
                             /\ ~(x <= Len(a)) => x - Len(a) \in 1..Len(b) /\ c[x] = b[x - Len(a)]
    <3> TAKE x \in 1..Len(c)
    <3> DEFINE la == Len(a)
               lb == Len(b)
    <3>1. la \in Nat /\ lb \in Nat /\ x \in 1..(la + lb)
      BY <2>4, <2>7
    <3>2. c[x] = IF x <= la THEN a[x] ELSE b[x - la]
      BY <3>1, <2>7
    <3> HIDE DEF la, lb
    <3>3. (x <= la => x \in 1..la) /\ (~(x <= la) => x - la \in 1..lb)
      BY <3>1
    <3> QED
      BY <3>2, <3>3 DEF la, lb
  <2>9. Ascending(c)
    <3> SUFFICES ASSUME NEW x \in 1..Len(c), NEW y \in 1..Len(c), x < y
                 PROVE  c[x] < c[y]
      BY DEF Ascending
    <3>1. CASE y <= Len(a)
      <4>1. x <= Len(a)
        BY <3>1, <2>4, <2>7
      <4> QED
        BY <3>1, <4>1, <2>4, <2>8 DEF Ascending
    <3>2. CASE x <= Len(a) /\ ~(y <= Len(a))
      BY <3>2, <2>6, <2>8
    <3>3. CASE ~(x <= Len(a))
      <4>1. ~(y <= Len(a)) /\ x - Len(a) < y - Len(a)
        BY <3>3, <2>4, <2>7
      <4> QED
        BY <3>3, <4>1, <2>4, <2>8 DEF Ascending
    <3> QED
      BY <3>1, <3>2, <3>3
  <2>10. ASSUME NEW x \in 1..Len(c)
         PROVE  From1(j, c[x])
    <3>1. CASE x <= Len(a)
      <4>1. PICK q \in 1..i : \E z \in 1..Len(seqs[q]) : a[x] = seqs[q][z]
        BY <3>1, <2>5, <2>8
      <4>2. q \in 1..j
        BY <2>0
      <4> QED
        BY <3>1, <4>1, <4>2, <2>8
    <3>2. CASE ~(x <= Len(a))
      <4>1. j \in 1..j
        BY <2>0
      <4> QED
        BY <3>2, <4>1, <2>8 DEF b
    <3> QED
      BY <3>1, <3>2
  <2> QED
    BY <2>3, <2>7, <2>9, <2>10
<1> HIDE DEF G
<1>5. \A h \in Nat : h \in G
  BY <1>3, <1>4, AllNats
<1> TAKE i \in 1..Len(seqs)
<1>6. i - 1 \in Nat /\ (i - 1) + 1 = i
  BY <1>1
<1>7. i - 1 \in G
  BY <1>5, <1>6
<1> QED
  BY <1>6, <1>7 DEF G

\* Rising lists make an ascending one.
LEMMA FlatAscends ==
  ASSUME NEW seqs, Rising(seqs), Len(seqs) > 0
  PROVE  FlattenSeq(seqs) \in Seq(Int) /\ Ascending(FlattenSeq(seqs))
<1> DEFINE f == CHOOSE g : Behind(g, seqs)
<1>2. Len(seqs) \in Nat /\ Len(seqs) \in 1..Len(seqs) /\ Len(seqs) # 0
  BY LenProperties DEF Rising
<1>1. Behind(f, seqs)
  BY <1>2, GluesExist
<1>3. FlattenSeq(seqs) = f[Len(seqs)]
  BY <1>2 DEF FlattenSeq, Behind
<1> HIDE DEF f
<1> QED
  BY <1>1, <1>2, <1>3, BehindAscends
\* The chain has every leaf, and the last one is followed by none.
LEMMA ChainHasAll ==
  ASSUME NEW L, NEW S, NEW P, NEW N, Resting(L, S, P, N)
  PROVE  (\A n \in Leaves : Contains(Chain, n)) /\ nodes[Last(Chain)].next = Nil
<1>1. /\ Len(Chain) = N /\ N \in Nat /\ N > 0
      /\ \A i \in 1..N : Chain[i] \in Leaves /\ P[Chain[i]] = i
  BY ChainVisits
<1>2. Leaves = {n \in DOMAIN nodes : L[n] = 0}
  BY LeavesCounted
<1>3. ChainOK(Leaves, NodeNext, S, P, N)
  BY <1>2 DEF Resting, Shape
<1>4. ASSUME NEW n \in Leaves
      PROVE  Contains(Chain, n)
  <2>1. P[n] \in 1..N
    BY <1>3 DEF ChainOK
  <2>2. Chain[P[n]] \in Leaves /\ P[Chain[P[n]]] = P[n]
    BY <2>1, <1>1
  <2>3. Chain[P[n]] = n
    BY <2>2, <1>3 DEF ChainOK
  <2> QED
    BY <2>1, <2>3, <1>1 DEF Contains
<1>5. nodes[Last(Chain)].next = Nil
  <2>1. Last(Chain) = Chain[N] /\ N \in 1..N
    BY <1>1 DEF Last
  <2>2. Chain[N] \in Leaves /\ P[Chain[N]] = N
    BY <2>1, <1>1
  <2>3. NodeNext[Chain[N]] = Nil
    BY <2>2, <1>3 DEF ChainOK
  <2> QED
    BY <2>1, <2>2, <2>3 DEF NodeNext, Leaves
<1> QED
  BY <1>4, <1>5

\* Along the chain the keys ascend.
LEMMA ChainAscends ==
  ASSUME NEW L, NEW S, NEW P, NEW N, Resting(L, S, P, N)
  PROVE  LET all == FlattenSeq([i \in DOMAIN Chain |-> nodes[Chain[i]].keys])
         IN  \A i, j \in DOMAIN all : i < j => all[i] < all[j]
<1> DEFINE seqs == [i \in DOMAIN Chain |-> nodes[Chain[i]].keys]
<1>1. /\ Len(Chain) = N /\ N \in Nat /\ N > 0 /\ Chain \in Seq(Leaves)
      /\ \A i \in 1..N : Chain[i] \in Leaves /\ P[Chain[i]] = i
  BY ChainVisits
<1>2. DOMAIN Chain = 1..N
  BY <1>1, LenProperties
<1>3. Leaves = {n \in DOMAIN nodes : L[n] = 0} /\ Leaves \subseteq DOMAIN nodes
  BY LeavesCounted
<1>4. ChainOK(Leaves, NodeNext, S, P, N)
  BY <1>3 DEF Resting, Shape
<1>5. \A n \in Leaves : /\ nodes[n].keys \in Seq(Int) /\ Ascending(nodes[n].keys)
                        /\ \A i \in 1..Len(nodes[n].keys) : nodes[n].keys[i] \in S[n]
  BY <1>3, RestingNodes
<1>6. \A i \in 1..N : seqs[i] = nodes[Chain[i]].keys
  BY <1>2
<1>7. seqs \in [1..N -> Seq(Int)]
  BY <1>1, <1>2, <1>5
<1> HIDE DEF seqs
<1>8. seqs \in Seq(Seq(Int)) /\ Len(seqs) = N
  BY <1>1, <1>7, SeqDef, LenProperties
<1>9. \A i \in 1..N : Ascending(seqs[i])
  BY <1>1, <1>5, <1>6
<1>10. ASSUME NEW i \in 1..N, NEW j \in 1..N, i < j, NEW a \in 1..Len(seqs[i]), NEW b \in 1..Len(seqs[j])
       PROVE  seqs[i][a] < seqs[j][b]
  <2>1. P[Chain[i]] < P[Chain[j]] /\ Chain[i] \in Leaves /\ Chain[j] \in Leaves
    BY <1>1, <1>10
  <2>2. seqs[i][a] \in S[Chain[i]] /\ seqs[j][b] \in S[Chain[j]]
    BY <2>1, <1>5, <1>6
  <2> QED
    BY <2>1, <2>2, <1>4 DEF ChainOK
<1>11. Rising(seqs)
  BY <1>8, <1>9, <1>10 DEF Rising
<1> DEFINE all == FlattenSeq(seqs)
<1>12. all \in Seq(Int) /\ Ascending(all)
  BY <1>1, <1>8, <1>11, FlatAscends
<1> HIDE DEF all
<1>13. DOMAIN all = 1..Len(all)
  BY <1>12, LenProperties
<1>14. \A i, j \in DOMAIN all : i < j => all[i] < all[j]
  BY <1>12, <1>13 DEF Ascending
<1> QED
  BY <1>14 DEF all, seqs

\* Between two operations a key with rows stands in a leaf.
LEMMA HeldKeys ==
  ASSUME NEW w, Writers = {w}, AtRest, NEW k \in Keys, Held[k] # <<>>
  PROVE  \E n \in Leaves : Has(n, k)
<1>1. op[w].pc = "idle"
  BY DEF AtRest, Idle
<1>2. \A n : Between(n, "value") = {}
  BY <1>1 DEF Between
<1>3. \A n : SettledKeys(n) = nodes[n].keys
  BY <1>2 DEF SettledKeys
<1>4. Under(k) # {}
  BY DEF Held
<1>5. PICK n \in Leaves : \E i \in DOMAIN SettledKeys(n) : SettledKeys(n)[i] = k
  BY <1>4 DEF Under
<1> QED
  BY <1>3, <1>5 DEF Has

\* The way down leads to the leaf that has the key.
LEMMA WayFinds ==
  ASSUME NEW L, NEW S, NEW P, NEW N, Resting(L, S, P, N), NEW k \in Keys, NEW n \in Leaves, Has(n, k)
  PROVE  Last(Path(k)).node = n
<1> DEFINE D == DOMAIN nodes
           m == Last(Path(k)).node
<1>1. /\ D = 1..Len(nodes) /\ Len(nodes) \in Nat
      /\ \A q \in D : /\ (nodes[q].leaf <=> L[q] = 0) /\ nodes[q].keys \in Seq(Int)
                      /\ \A i \in 1..Len(nodes[q].keys) : nodes[q].keys[i] \in S[q]
  BY RestingNodes
<1>2. k \in Int
  BY KeysAssumption
<1>3. TreeOK(D, root, NodeKeys, NodeChildren, L, S, 0, 0)
  BY DEF Resting, Shape
<1>4. Describe(D, NodeKeys, NodeChildren, L)
  <2>1. D \subseteq Nat /\ 0 \notin D
    BY <1>1
  <2>2. \A q \in D : nodes[q].keys = NodeKeys[q] /\ nodes[q].children = NodeChildren[q]
    BY DEF NodeKeys, NodeChildren
  <2> QED
    BY <2>1, <2>2, <1>1 DEF Describe
<1>5. L[m] = 0 /\ k \in S[m] /\ m \in D
  <2>1. WayOK(Path(k), root, D, NodeChildren, L) /\ L[m] = 0 /\ k \in S[m]
    BY <1>2, <1>3, <1>4, WayDown
  <2> QED
    BY <2>1, EndOfWay
<1>6. n \in D /\ L[n] = 0
  BY <1>1 DEF Leaves
<1>7. k \in S[n]
  <2>1. PICK i \in DOMAIN nodes[n].keys : nodes[n].keys[i] = k
    BY DEF Has
  <2>2. i \in 1..Len(nodes[n].keys)
    BY <1>1, <1>6, LenProperties
  <2> QED
    BY <2>1, <2>2, <1>1, <1>6
<1> HIDE DEF m, D
<1>8. m = n
  BY <1>3, <1>5, <1>6, <1>7 DEF TreeOK, Disjoint
<1> QED
  BY <1>8 DEF m

LEMMA SearchableAtRest ==
  ASSUME NEW w, Writers = {w}, TreeInv(w)
  PROVE  RestingTreeIsSearchable
<1>1. ASSUME AtRest
      PROVE  /\ \A n \in Leaves : Contains(Chain, n)
             /\ nodes[Last(Chain)].next = Nil
             /\ LET all == FlattenSeq([i \in DOMAIN Chain |-> nodes[Chain[i]].keys])
                IN  \A i, j \in DOMAIN all : i < j => all[i] < all[j]
             /\ \A k \in Keys : Held[k] # <<>> => Has(Last(Path(k)).node, k)
  <2>1. PICK L, S, P, N : Resting(L, S, P, N)
    BY <1>1, RestingTree
  <2>2. (\A n \in Leaves : Contains(Chain, n)) /\ nodes[Last(Chain)].next = Nil
    BY <2>1, ChainHasAll
  <2>3. LET all == FlattenSeq([i \in DOMAIN Chain |-> nodes[Chain[i]].keys])
        IN  \A i, j \in DOMAIN all : i < j => all[i] < all[j]
    BY <2>1, ChainAscends
  <2>4. ASSUME NEW k \in Keys, Held[k] # <<>>
        PROVE  Has(Last(Path(k)).node, k)
    <3>1. PICK n \in Leaves : Has(n, k)
      BY <1>1, <2>4, HeldKeys
    <3>2. Last(Path(k)).node = n
      BY <2>1, <3>1, WayFinds
    <3> QED
      BY <3>1, <3>2
  <2> QED
    BY <2>2, <2>3, <2>4
<1> QED
  BY <1>1 DEF RestingTreeIsSearchable

\* Between two operations the chain visits every leaf once, in key order, and
\* the way down from the root finds every key (bplustree.py 92-135), whatever
\* the order of the tree and the entries.
THEOREM TreeIsSearchable ==
  ASSUME NEW w, Writers = {w}
  PROVE  Spec => []RestingTreeIsSearchable
<1>1. TreeInv(w) => RestingTreeIsSearchable
  BY SearchableAtRest
<1>2. Spec => []TreeInv(w)
  BY TreeInvariant
<1> QED
  BY <1>1, <1>2, PTL
-----------------------------------------------------------------------------
(***************************************************************************)
(* The tree is the map it stands for.                                      *)
(***************************************************************************)
\* Key k has the list v in the settled tree.
In(w, k, v) == InTree(TreeLeaf, TreeKeys(w), TreeValues(w), k, v)

\* The map has what the tree has; an empty list may also be none.
Stands(w) ==
  \A k \in Keys : (\A v : In(w, k, v) => Held[k] = v) /\ (Held[k] # <<>> => In(w, k, Held[k]))

\* The lists of leaves on which the properties rest are those of the settled tree.
LEMMA SettledLeaf ==
  ASSUME NEW w, Writers = {w}, Typed, NEW L, NEW S, NEW P, NEW N, Settled(w, L, S, P, N), Work(w, L, S),
         NEW n \in Leaves
  PROVE  /\ SettledKeys(n) = TreeKeys(w)[n] /\ DOMAIN SettledKeys(n) = 1..Len(TreeKeys(w)[n])
         /\ \A i \in 1..Len(TreeKeys(w)[n]) : SettledValues(n)[i] = TreeValues(w)[n][i]
<1>1. n \in DOMAIN nodes /\ L[n] = 0 /\ TreeKeys(w)[n] \in Seq(Int) /\ nodes[n] \in Node
  BY Known DEF Leaves
<1>2. \A pc : Between(n, pc) = IF Doing(w, pc, n) THEN {op[w].at} ELSE {}
  BY DEF Between, Doing
<1>3. op[w] # Idle => InnerWork(w, L) /\ LeafWork(w, L, S)
  BY DEF Work
<1>4. ~Doing(w, "child", n)
  <2>1. SUFFICES ASSUME Doing(w, "child", n)
                 PROVE  FALSE
    OBVIOUS
  <2>2. op[w].pc = "child" /\ Here(w) = n /\ op[w] # Idle
    BY <2>1 DEF Doing, Idle
  <2>3. L[n] > 0
    BY <2>2, <1>3 DEF InnerWork, InnerStages
  <2> QED
    BY <2>3, <1>1
<1>5. SettledKeys(n) = TreeKeys(w)[n]
  <2>1. CASE Doing(w, "value", n)
    <3>1. (CHOOSE i \in Between(n, "value") : TRUE) = op[w].at /\ Between(n, "value") # {}
      BY <2>1, <1>2
    <3> QED
      BY <2>1, <3>1, <1>1 DEF SettledKeys, TreeKeys
  <2>2. CASE ~Doing(w, "value", n)
    <3>1. Between(n, "value") = {}
      BY <2>2, <1>2
    <3> QED
      BY <2>2, <3>1, <1>1, <1>4 DEF SettledKeys, TreeKeys
  <2> QED
    BY <2>1, <2>2
<1>6. ASSUME NEW i \in 1..Len(TreeKeys(w)[n])
      PROVE  SettledValues(n)[i] = TreeValues(w)[n][i]
  <2>1. CASE Doing(w, "popvalue", n)
    <3>1. (CHOOSE j \in Between(n, "popvalue") : TRUE) = op[w].at /\ Between(n, "popvalue") # {}
      BY <2>1, <1>2
    <3> QED
      BY <2>1, <3>1, <1>1 DEF SettledValues, TreeValues
  <2>2. CASE Doing(w, "splitvalues", n)
    <3>1. /\ op[w].pc = "splitvalues" /\ Here(w) = n /\ op[w] # Idle
          /\ ~Doing(w, "popvalue", n) /\ ~Doing(w, "value", n)
      BY <2>2 DEF Doing, Idle
    <3>2. Len(nodes[n].keys) <= Len(nodes[n].values)
      BY <3>1, <1>3 DEF LeafWork
    <3>3. TreeKeys(w)[n] = nodes[n].keys
      BY <3>1, <1>1, <1>4 DEF TreeKeys
    <3>4. TreeValues(w)[n] = Upto(nodes[n].values, Len(nodes[n].keys))
      BY <2>2, <3>1, <1>1 DEF TreeValues
    <3>5. SettledValues(n) = nodes[n].values
      BY <3>1, <1>2 DEF SettledValues
    <3>6. nodes[n].values \in Seq(Seq(Rows)) /\ Len(nodes[n].keys) \in Nat
      BY <1>1, NodeFields, LenProperties
    <3>7. \A j \in 1..Len(nodes[n].keys) :
            Upto(nodes[n].values, Len(nodes[n].keys))[j] = nodes[n].values[j]
      BY <3>2, <3>6, Halves
    <3> QED
      BY <3>3, <3>4, <3>5, <3>7
  <2>3. CASE ~Doing(w, "popvalue", n) /\ ~Doing(w, "splitvalues", n)
    <3>1. Between(n, "popvalue") = {}
      BY <2>3, <1>2
    <3> QED
      BY <2>3, <3>1, <1>1 DEF SettledValues, TreeValues
  <2> QED
    BY <2>1, <2>2, <2>3
<1> QED
  BY <1>1, <1>5, <1>6, LenProperties

\* A key has one place in the tree.
LEMMA OnePlace ==
  ASSUME NEW w, Typed, NEW L, NEW S, NEW P, NEW N, Settled(w, L, S, P, N),
         NEW m \in DOMAIN nodes, NEW n \in DOMAIN nodes, L[m] = 0, L[n] = 0,
         NEW i \in 1..Len(TreeKeys(w)[m]), NEW j \in 1..Len(TreeKeys(w)[n]),
         TreeKeys(w)[m][i] = TreeKeys(w)[n][j]
  PROVE  m = n /\ i = j
<1> DEFINE K == TreeKeys(w)
<1>1. K[m][i] \in S[m] /\ K[n][j] \in S[n] /\ Ascending(K[n])
  BY LeavesAreGood DEF GoodLeaf
<1>2. m = n
  BY <1>1 DEF Settled, Shape, TreeOK, Disjoint
<1>3. K[n] \in Seq(Int) /\ Len(K[n]) \in Nat /\ i \in 1..Len(K[n])
  BY <1>2, Known, LenProperties
<1> DEFINE list == K[n]
<1>4. list \in Seq(Int) /\ \A a \in 1..Len(list) : list[a] \in Int
  BY <1>3, ElementOfSeq
<1>5. list[i] = list[j]
  BY <1>2
<1>6. \A a, b \in 1..Len(list) : a < b => list[a] < list[b]
  BY <1>1 DEF Ascending
<1> HIDE DEF list, K
<1>7. i \in 1..Len(list) /\ j \in 1..Len(list) /\ Len(list) \in Nat
  BY <1>3 DEF list, K
<1>8. i = j
  BY <1>4, <1>5, <1>6, <1>7
<1> QED
  BY <1>2, <1>8

LEMMA HeldStands ==
  ASSUME NEW w, Writers = {w}, TreeInv(w)
  PROVE  Stands(w)
<1>1. PICK L, S, P, N : Settled(w, L, S, P, N) /\ Work(w, L, S)
  BY DEF TreeInv
<1>2. Typed
  BY DEF TreeInv
<1>3. DOMAIN TreeLeaf = DOMAIN nodes /\ \A n \in DOMAIN nodes : TreeLeaf[n] <=> n \in Leaves
  BY DEF TreeLeaf, Leaves
<1>4. \A n \in Leaves : n \in DOMAIN nodes /\ L[n] = 0
  BY <1>1, <1>2, Known DEF Leaves
<1>5. ASSUME NEW k, NEW v
      PROVE  v \in Under(k) <=> In(w, k, v)
  <2>1. ASSUME v \in Under(k)
        PROVE  In(w, k, v)
    <3>1. PICK n \in Leaves : v \in {SettledValues(n)[i] : i \in {j \in DOMAIN SettledKeys(n) : SettledKeys(n)[j] = k}}
      BY <2>1 DEF Under
    <3>2. PICK i \in DOMAIN SettledKeys(n) : SettledKeys(n)[i] = k /\ v = SettledValues(n)[i]
      BY <3>1
    <3>3. /\ SettledKeys(n) = TreeKeys(w)[n] /\ i \in 1..Len(TreeKeys(w)[n])
          /\ SettledValues(n)[i] = TreeValues(w)[n][i]
      BY <1>1, <1>2, SettledLeaf
    <3>4. n \in DOMAIN nodes /\ TreeLeaf[n]
      BY <1>3, <1>4
    <3> QED
      BY <3>2, <3>3, <3>4, <1>3 DEF In, InTree
  <2>2. ASSUME In(w, k, v)
        PROVE  v \in Under(k)
    <3>1. PICK n \in DOMAIN nodes :
            TreeLeaf[n] /\ \E i \in 1..Len(TreeKeys(w)[n]) : TreeKeys(w)[n][i] = k /\ TreeValues(w)[n][i] = v
      BY <2>2, <1>3 DEF In, InTree
    <3>2. n \in Leaves
      BY <3>1, <1>3
    <3>3. PICK i \in 1..Len(TreeKeys(w)[n]) : TreeKeys(w)[n][i] = k /\ TreeValues(w)[n][i] = v
      BY <3>1
    <3>4. SettledKeys(n)[i] = k /\ i \in DOMAIN SettledKeys(n) /\ SettledValues(n)[i] = v
      BY <3>2, <3>3, <1>1, <1>2, SettledLeaf
    <3> QED
      BY <3>2, <3>4 DEF Under
  <2> QED
    BY <2>1, <2>2
<1>6. ASSUME NEW k, NEW u, NEW v, In(w, k, u), In(w, k, v)
      PROVE  u = v
  <2>1. PICK m \in DOMAIN nodes :
          TreeLeaf[m] /\ \E i \in 1..Len(TreeKeys(w)[m]) : TreeKeys(w)[m][i] = k /\ TreeValues(w)[m][i] = u
    BY <1>3, <1>6 DEF In, InTree
  <2>2. PICK i \in 1..Len(TreeKeys(w)[m]) : TreeKeys(w)[m][i] = k /\ TreeValues(w)[m][i] = u
    BY <2>1
  <2>3. PICK n \in DOMAIN nodes :
          TreeLeaf[n] /\ \E j \in 1..Len(TreeKeys(w)[n]) : TreeKeys(w)[n][j] = k /\ TreeValues(w)[n][j] = v
    BY <1>3, <1>6 DEF In, InTree
  <2>4. PICK j \in 1..Len(TreeKeys(w)[n]) : TreeKeys(w)[n][j] = k /\ TreeValues(w)[n][j] = v
    BY <2>3
  <2>5. L[m] = 0 /\ L[n] = 0
    BY <2>1, <2>3, <1>3, <1>4
  <2>6. m = n /\ i = j
    BY <2>2, <2>4, <2>5, <1>1, <1>2, OnePlace
  <2> QED
    BY <2>2, <2>4, <2>6
<1>7. ASSUME NEW k \in Keys
      PROVE  (\A v : In(w, k, v) => Held[k] = v) /\ (Held[k] # <<>> => In(w, k, Held[k]))
  <2>1. Held[k] = IF Under(k) = {} THEN <<>> ELSE CHOOSE v \in Under(k) : TRUE
    BY DEF Held
  <2>2. Under(k) # {} => Held[k] \in Under(k)
    BY <2>1
  <2>3. Held[k] # <<>> => In(w, k, Held[k])
    BY <2>1, <2>2, <1>5
  <2>4. ASSUME NEW v, In(w, k, v)
        PROVE  Held[k] = v
    <3>1. Held[k] \in Under(k)
      BY <2>2, <2>4, <1>5
    <3> QED
      BY <3>1, <2>4, <1>5, <1>6
  <2> QED
    BY <2>3, <2>4
<1> QED
  BY <1>7 DEF Stands

LEMMA MapPut ==
  ASSUME NEW e \in Entries, Held' = [Held EXCEPT ![e[1]] = Append(@, e[2])]
  PROVE  Map!Next
BY DEF Map!Next, Map!Put

\* SortedMultimap has the library's operators under names of its own.
LEMMA MapOperators ==
  ASSUME NEW s, NEW x
  PROVE  (Map!Contains(s, x) <=> Contains(s, x)) /\ Map!RemoveFirst(s, x) = RemoveFirst(s, x)
<1>1. Map!Contains(s, x) <=> Contains(s, x)
  BY DEF Map!Contains, Contains
<1>2. Map!RemoveFirst(s, x) = RemoveFirst(s, x)
  BY DEF Map!RemoveFirst, Map!SelectInSeq, Map!Min, Map!RemoveAt, RemoveFirst, SelectInSeq, Min, RemoveAt
<1> QED
  BY <1>1, <1>2

LEMMA MapDrop ==
  ASSUME NEW e \in Entries, Contains(Held[e[1]], e[2]), Held' = [Held EXCEPT ![e[1]] = RemoveFirst(@, e[2])]
  PROVE  Map!Next
<1>1. Map!Contains(Held[e[1]], e[2]) /\ Map!RemoveFirst(Held[e[1]], e[2]) = RemoveFirst(Held[e[1]], e[2])
  BY MapOperators
<1>2. Map!Drop(e[1], e[2])
  BY <1>1 DEF Map!Drop
<1> QED
  BY <1>2 DEF Map!Next
\* The same after a step.
InNext(w, k, v) == InTree(TreeLeaf', TreeKeys(w)', TreeValues(w)', k, v)

LEMMA StandsNext ==
  ASSUME NEW w, Stands(w)', NEW k \in Keys
  PROVE  (\A v : InNext(w, k, v) => Held'[k] = v) /\ (Held'[k] # <<>> => InNext(w, k, Held'[k]))
BY DEF Stands, In, InNext

\* A key with the same rows as before has the same list.
LEMMA SameList ==
  ASSUME NEW w, Stands(w), Stands(w)', NEW k \in Keys,
         \A v : v # <<>> => (InNext(w, k, v) <=> In(w, k, v))
  PROVE  Held'[k] = Held[k]
<1> DEFINE a == Held[k]
           b == Held'[k]
<1>1. (\A v : In(w, k, v) => a = v) /\ (a # <<>> => In(w, k, a))
  BY DEF Stands
<1>2. (\A v : InNext(w, k, v) => b = v) /\ (b # <<>> => InNext(w, k, b))
  BY StandsNext
<1> SUFFICES a = b
  OBVIOUS
<1> HIDE DEF a, b
<1>3. CASE a # <<>>
  BY <1>1, <1>2, <1>3
<1>4. CASE b # <<>>
  BY <1>1, <1>2, <1>4
<1>5. CASE a = <<>> /\ b = <<>>
  BY <1>5
<1> QED
  BY <1>3, <1>4, <1>5

LEMMA SameMap ==
  ASSUME NEW w, Stands(w), Stands(w)',
         \A k \in Keys : \A v : v # <<>> => (InNext(w, k, v) <=> In(w, k, v))
  PROVE  Held' = Held
<1>1. \A k \in Keys : Held'[k] = Held[k]
  BY SameList
<1>2. Held = [k \in Keys |-> Held[k]]
  BY DEF Held
<1>3. Held' = [k \in Keys |-> Held'[k]]
  BY DEF Held
<1> QED
  BY <1>1, <1>2, <1>3

\* One key gets another list.
LEMMA OneKeyChanges ==
  ASSUME NEW w, Stands(w), Stands(w)', NEW k \in Keys, NEW x, InNext(w, k, x),
         \A q \in Keys : q # k => \A v : InNext(w, q, v) <=> In(w, q, v)
  PROVE  Held' = [Held EXCEPT ![k] = x]
<1>1. \A q \in Keys : q # k => Held'[q] = Held[q]
  BY SameList
<1>2. Held'[k] = x
  BY StandsNext
<1>3. Held = [q \in Keys |-> Held[q]]
  BY DEF Held
<1>4. Held' = [q \in Keys |-> Held'[q]]
  BY DEF Held
<1> QED
  BY <1>1, <1>2, <1>3, <1>4

\* Key k has the list v in one leaf.
ListAt(keys, values, k, v) == \E i \in 1..Len(keys) : keys[i] = k /\ values[i] = v

LEMMA InsertedPair ==
  ASSUME NEW keys, NEW values, NEW keys2, NEW values2, NEW i, NEW x, NEW y, Len(keys) \in Nat,
         Len(values) = Len(keys), Inserted(keys2, keys, i, x), Inserted(values2, values, i, y), NEW k, NEW v
  PROVE  ListAt(keys2, values2, k, v) <=> (ListAt(keys, values, k, v) \/ (k = x /\ v = y))
<1> DEFINE l == Len(keys)
<1>1. /\ l \in Nat /\ i \in 1..(l + 1) /\ Len(keys2) = l + 1
      /\ \A j \in 1..(l + 1) : keys2[j] = IF j < i THEN keys[j] ELSE IF j = i THEN x ELSE keys[j - 1]
      /\ \A j \in 1..(l + 1) : values2[j] = IF j < i THEN values[j] ELSE IF j = i THEN y ELSE values[j - 1]
  BY DEF Inserted
<1> HIDE DEF l
<1>2. ASSUME NEW j \in 1..(l + 1), keys2[j] = k, values2[j] = v
      PROVE  ListAt(keys, values, k, v) \/ (k = x /\ v = y)
  <2>1. CASE j = i
    BY <2>1, <1>1, <1>2
  <2>2. CASE j < i
    <3>1. j \in 1..l
      BY <2>2, <1>1
    <3>2. keys[j] = k /\ values[j] = v
      BY <2>2, <1>1, <1>2
    <3> QED
      BY <3>1, <3>2 DEF ListAt, l
  <2>3. CASE ~(j < i) /\ j # i
    <3>1. j - 1 \in 1..l
      BY <2>3, <1>1
    <3>2. keys[j - 1] = k /\ values[j - 1] = v
      BY <2>3, <1>1, <1>2
    <3> QED
      BY <3>1, <3>2 DEF ListAt, l
  <2> QED
    BY <2>1, <2>2, <2>3
<1>3. ASSUME NEW j \in 1..l, keys[j] = k, values[j] = v
      PROVE  ListAt(keys2, values2, k, v)
  <2>1. CASE j < i
    <3>1. j \in 1..(l + 1)
      BY <1>1
    <3>2. keys2[j] = k /\ values2[j] = v
      BY <2>1, <3>1, <1>1, <1>3
    <3> QED
      BY <3>1, <3>2, <1>1 DEF ListAt
  <2>2. CASE ~(j < i)
    <3>1. j + 1 \in 1..(l + 1) /\ ~(j + 1 < i) /\ j + 1 # i /\ (j + 1) - 1 = j
      BY <2>2, <1>1
    <3>2. keys2[j + 1] = k /\ values2[j + 1] = v
      BY <3>1, <1>1, <1>3
    <3> QED
      BY <3>1, <3>2, <1>1 DEF ListAt
  <2> QED
    BY <2>1, <2>2
<1>4. ListAt(keys2, values2, x, y)
  <2>1. keys2[i] = x /\ values2[i] = y
    BY <1>1
  <2> QED
    BY <2>1, <1>1 DEF ListAt
<1>5. ListAt(keys2, values2, k, v) => \E j \in 1..(l + 1) : keys2[j] = k /\ values2[j] = v
  BY <1>1 DEF ListAt
<1>6. ListAt(keys, values, k, v) => \E j \in 1..l : keys[j] = k /\ values[j] = v
  BY DEF ListAt, l
<1> QED
  BY <1>2, <1>3, <1>4, <1>5, <1>6

\* The lists of one leaf are exchanged.
OneLeaf(D, lf, ks, vs, n, keys, values, lf2, ks2, vs2) ==
  /\ DOMAIN lf = D /\ DOMAIN lf2 = D /\ \A q \in D : lf2[q] <=> lf[q]
  /\ n \in D /\ DOMAIN ks = D /\ DOMAIN vs = D
  /\ ks2 = [ks EXCEPT ![n] = keys] /\ vs2 = [vs EXCEPT ![n] = values]

LEMMA OneLeafChanges ==
  ASSUME NEW D, NEW lf, NEW ks, NEW vs, NEW n, NEW keys, NEW values, NEW lf2, NEW ks2, NEW vs2,
         OneLeaf(D, lf, ks, vs, n, keys, values, lf2, ks2, vs2),
         NEW k, NEW v, ListAt(keys, values, k, v) <=> ListAt(ks[n], vs[n], k, v)
  PROVE  InTree(lf2, ks2, vs2, k, v) <=> InTree(lf, ks, vs, k, v)
<1>0. /\ DOMAIN lf = D /\ DOMAIN lf2 = D /\ \A q \in D : lf2[q] <=> lf[q]
      /\ n \in D /\ DOMAIN ks = D /\ DOMAIN vs = D
      /\ ks2 = [ks EXCEPT ![n] = keys] /\ vs2 = [vs EXCEPT ![n] = values]
  BY DEF OneLeaf
<1>1. \A q \in D : q # n => ks2[q] = ks[q] /\ vs2[q] = vs[q]
  BY <1>0
<1>2. ks2[n] = keys /\ vs2[n] = values
  BY <1>0
<1>3. \A q \in D : ListAt(ks2[q], vs2[q], k, v) <=> ListAt(ks[q], vs[q], k, v)
  BY <1>1, <1>2
<1>4. InTree(lf, ks, vs, k, v) <=> \E q \in D : lf[q] /\ ListAt(ks[q], vs[q], k, v)
  BY <1>0 DEF InTree, ListAt
<1>5. InTree(lf2, ks2, vs2, k, v) <=> \E q \in D : lf2[q] /\ ListAt(ks2[q], vs2[q], k, v)
  BY <1>0 DEF InTree, ListAt
<1> QED
  BY <1>0, <1>3, <1>4, <1>5

\* Where the levels stay, so do the leaves.
LEMMA SameLeaves ==
  ASSUME NEW w, NEW L, NEW S, NEW P, NEW N, Settled(w, L, S, P, N), Settled(w, L, S, P, N)'
  PROVE  /\ DOMAIN TreeLeaf = DOMAIN nodes /\ DOMAIN TreeLeaf' = DOMAIN nodes /\ DOMAIN nodes' = DOMAIN nodes
         /\ \A q \in DOMAIN nodes : (TreeLeaf'[q] <=> TreeLeaf[q]) /\ (TreeLeaf[q] <=> L[q] = 0)
<1>1. L \in [DOMAIN nodes -> Nat] /\ \A q \in DOMAIN nodes : TreeLeaf[q] <=> L[q] = 0
  BY DEF Settled, Shape, TreeOK, Levels
<1>2. L \in [DOMAIN nodes' -> Nat] /\ \A q \in DOMAIN nodes' : TreeLeaf'[q] <=> L[q] = 0
  BY DEF Settled, Shape, TreeOK, Levels
<1>3. DOMAIN nodes' = DOMAIN nodes
  BY <1>1, <1>2
<1>4. DOMAIN TreeLeaf = DOMAIN nodes /\ DOMAIN TreeLeaf' = DOMAIN nodes'
  BY DEF TreeLeaf
<1> QED
  BY <1>1, <1>2, <1>3, <1>4
\* A half change of a list, or a split, leaves the map alone.
LEMMA SettledMap ==
  ASSUME NEW w, NEW L, NEW S, NEW P, NEW N, Settled(w, L, S, P, N), Settled(w, L, S, P, N)',
         TreeKeys(w)' = TreeKeys(w), TreeValues(w)' = TreeValues(w), Stands(w), Stands(w)'
  PROVE  Held' = Held
<1>1. /\ DOMAIN TreeLeaf' = DOMAIN TreeLeaf
      /\ \A q \in DOMAIN TreeLeaf : TreeLeaf'[q] <=> TreeLeaf[q]
  BY SameLeaves
<1>2. \A k, v : InNext(w, k, v) <=> In(w, k, v)
  BY <1>1 DEF In, InNext, InTree
<1> QED
  BY <1>2, SameMap

LEMMA StayingMap ==
  ASSUME NEW w, TreeStays(w), Stands(w), Stands(w)'
  PROVE  Held' = Held
<1>1. \A k, v : InNext(w, k, v) <=> In(w, k, v)
  BY DEF In, InNext, TreeStays
<1> QED
  BY <1>1, SameMap

LEMMA SplitMap ==
  ASSUME NEW w, SameLists(w), Stands(w), Stands(w)'
  PROVE  Held' = Held
<1>1. \A k, v : InNext(w, k, v) <=> In(w, k, v)
  BY DEF In, InNext, SameLists
<1> QED
  BY <1>1, SameMap

\* One list of one leaf becomes x.
LEMMA NewListMap ==
  ASSUME NEW w, Typed, NEW L, NEW S, NEW P, NEW N, Settled(w, L, S, P, N), Settled(w, L, S, P, N)',
         NEW n \in DOMAIN nodes, L[n] = 0, NEW i \in 1..Len(TreeKeys(w)[n]), NEW x,
         TreeKeys(w)' = TreeKeys(w), NewValue(TreeValues(w)', TreeValues(w), n, i, x),
         Stands(w), Stands(w)', NEW k \in Keys, TreeKeys(w)[n][i] = k
  PROVE  Held[k] = TreeValues(w)[n][i] /\ Held' = [Held EXCEPT ![k] = x]
<1> DEFINE D == DOMAIN nodes
<1>1. /\ DOMAIN TreeLeaf = D /\ DOMAIN TreeLeaf' = D
      /\ \A q \in D : (TreeLeaf'[q] <=> TreeLeaf[q]) /\ (TreeLeaf[q] <=> L[q] = 0)
  BY SameLeaves
<1>2. PICK K, V : K = TreeKeys(w) /\ V = TreeValues(w)
  OBVIOUS
<1>3. PICK V2 : V2 = TreeValues(w)'
  OBVIOUS
<1>4. V2 = [V EXCEPT ![n] = [V[n] EXCEPT ![i] = x]]
  BY <1>2, <1>3 DEF NewValue
<1>5. K \in [D -> Seq(Int)] /\ V \in [D -> Seq(Seq(Rows))] /\ Len(V[n]) = Len(K[n])
  BY <1>2, Known, LeavesAreGood DEF GoodLeaf
<1>6. i \in DOMAIN V[n] /\ DOMAIN V[n] = 1..Len(K[n])
  BY <1>2, <1>5, LenProperties
<1>7. /\ V2[n][i] = x /\ \A j \in 1..Len(K[n]) : j # i => V2[n][j] = V[n][j]
      /\ \A q \in D : q # n => V2[q] = V[q]
  BY <1>4, <1>5, <1>6
<1>8. In(w, k, V[n][i])
  BY <1>1, <1>2 DEF In, InTree
<1>9. InTree(TreeLeaf', K, V2, k, x)
  BY <1>1, <1>2, <1>7 DEF InTree
<1>10. InNext(w, k, x)
  BY <1>2, <1>3, <1>9 DEF InNext
<1>11. ASSUME NEW q, q # k, NEW v
       PROVE  InNext(w, q, v) <=> In(w, q, v)
  <2>1. \A j \in 1..Len(K[n]) : K[n][j] = q => V2[n][j] = V[n][j]
    BY <1>2, <1>7, <1>11
  <2>2. \A m \in D : \A j \in 1..Len(K[m]) : K[m][j] = q => V2[m][j] = V[m][j]
    BY <2>1, <1>7
  <2>3. InTree(TreeLeaf', K, V2, q, v) <=> InTree(TreeLeaf, K, V, q, v)
    BY <2>2, <1>1 DEF InTree
  <2> QED
    BY <2>3, <1>2, <1>3 DEF In, InNext
<1>12. Held[k] = V[n][i]
  BY <1>8 DEF Stands
<1>13. Held' = [Held EXCEPT ![k] = x]
  BY <1>10, <1>11, OneKeyChanges
<1> QED
  BY <1>2, <1>12, <1>13

\* A key comes into a leaf, with its first row.
LeafGrows(w, S, n, keys, values, i, k, x) ==
  /\ n \in DOMAIN nodes /\ keys \in Seq(Int) /\ values \in Seq(Seq(Rows)) /\ k \in Keys
  /\ Inserted(keys, TreeKeys(w)[n], i, k) /\ Inserted(values, TreeValues(w)[n], i, x)
  /\ GoodLeaf(keys, values, S[n])
  /\ TreeKeys(w)' = [TreeKeys(w) EXCEPT ![n] = keys] /\ TreeValues(w)' = [TreeValues(w) EXCEPT ![n] = values]

LEMMA NewKeyMap ==
  ASSUME NEW w, Typed, NEW L, NEW S, NEW P, NEW N, Settled(w, L, S, P, N), Settled(w, L, S, P, N)',
         NEW n, NEW keys, NEW values, NEW i, NEW k, NEW x,
         LeafGrows(w, S, n, keys, values, i, k, x), L[n] = 0,
         Stands(w), Stands(w)'
  PROVE  Held[k] = <<>> /\ Held' = [Held EXCEPT ![k] = x]
<1>0. /\ n \in DOMAIN nodes /\ keys \in Seq(Int) /\ values \in Seq(Seq(Rows)) /\ k \in Keys
      /\ Inserted(keys, TreeKeys(w)[n], i, k) /\ Inserted(values, TreeValues(w)[n], i, x)
      /\ GoodLeaf(keys, values, S[n])
      /\ TreeKeys(w)' = [TreeKeys(w) EXCEPT ![n] = keys] /\ TreeValues(w)' = [TreeValues(w) EXCEPT ![n] = values]
  BY DEF LeafGrows
<1> DEFINE D == DOMAIN nodes
           kn == TreeKeys(w)[n]
           vn == TreeValues(w)[n]
<1>1. /\ DOMAIN TreeLeaf = D /\ DOMAIN TreeLeaf' = D
      /\ \A q \in D : (TreeLeaf'[q] <=> TreeLeaf[q]) /\ (TreeLeaf[q] <=> L[q] = 0)
  BY SameLeaves
<1>2. TreeKeys(w) \in [D -> Seq(Int)] /\ TreeValues(w) \in [D -> Seq(Seq(Rows))]
  BY <1>0, Known
<1>3. kn \in Seq(Int) /\ Len(kn) \in Nat /\ Len(vn) = Len(kn)
  BY <1>0, <1>2, LeavesAreGood, LenProperties DEF GoodLeaf
<1>4. \A q, v : ListAt(keys, values, q, v) <=> (ListAt(kn, vn, q, v) \/ (q = k /\ v = x))
  <2> HIDE DEF kn, vn
  <2>1. Inserted(keys, kn, i, k) /\ Inserted(values, vn, i, x)
    BY <1>0 DEF kn, vn
  <2> QED
    BY <2>1, <1>3, InsertedPair
<1>5. ASSUME NEW q, q # k, NEW v
      PROVE  InNext(w, q, v) <=> In(w, q, v)
  <2>1. ListAt(keys, values, q, v) <=> ListAt(kn, vn, q, v)
    BY <1>4, <1>5
  <2>2. PICK K, V : K = TreeKeys(w) /\ V = TreeValues(w)
    OBVIOUS
  <2>3. PICK K2, V2, lf2 : K2 = TreeKeys(w)' /\ V2 = TreeValues(w)' /\ lf2 = TreeLeaf'
    OBVIOUS
  <2>4. InTree(lf2, K2, V2, q, v) <=> InTree(TreeLeaf, K, V, q, v)
    <3>1. K2 = [K EXCEPT ![n] = keys] /\ V2 = [V EXCEPT ![n] = values] /\ DOMAIN K = D /\ DOMAIN V = D
      BY <2>2, <2>3, <1>0, <1>2
    <3>2. ListAt(keys, values, q, v) <=> ListAt(K[n], V[n], q, v)
      BY <2>1, <2>2
    <3>3. DOMAIN lf2 = D /\ DOMAIN TreeLeaf = D /\ \A m \in D : lf2[m] <=> TreeLeaf[m]
      BY <2>3, <1>1
    <3>4. OneLeaf(D, TreeLeaf, K, V, n, keys, values, lf2, K2, V2)
      BY <3>1, <3>3, <1>0 DEF OneLeaf
    <3> HIDE DEF D
    <3> QED
      BY <3>2, <3>4, OneLeafChanges
  <2> QED
    BY <2>2, <2>3, <2>4 DEF In, InNext
<1>6. InNext(w, k, x)
  <2>1. ListAt(keys, values, k, x)
    BY <1>4
  <2>2. TreeKeys(w)'[n] = keys /\ TreeValues(w)'[n] = values /\ n \in DOMAIN TreeLeaf' /\ TreeLeaf'[n]
    BY <1>0, <1>1, <1>2
  <2> QED
    BY <2>1, <2>2 DEF InNext, InTree, ListAt
<1>7. Held[k] = <<>>
  <2>1. SUFFICES ASSUME Held[k] # <<>>
                 PROVE  FALSE
    OBVIOUS
  <2>2. In(w, k, Held[k])
    BY <2>1, <1>0 DEF Stands
  <2>3. PICK m \in D : TreeLeaf[m] /\ \E j \in 1..Len(TreeKeys(w)[m]) : TreeKeys(w)[m][j] = k
    BY <2>2, <1>1 DEF In, InTree
  <2>4. PICK j \in 1..Len(TreeKeys(w)[m]) : TreeKeys(w)[m][j] = k
    BY <2>3
  <2>5. L[m] = 0 /\ k \in S[m]
    <3>1. L[m] = 0
      BY <2>3, <1>1
    <3> QED
      BY <3>1, <2>4, LeavesAreGood DEF GoodLeaf
  <2>6. i \in 1..Len(keys) /\ keys[i] = k
    BY <1>0 DEF Inserted
  <2>7. k \in S[n]
    BY <2>6, <1>0 DEF GoodLeaf
  <2>8. m = n
    BY <2>5, <2>7, <1>0 DEF Settled, Shape, TreeOK, Disjoint
  <2>9. /\ j \in 1..Len(kn) /\ kn[j] = k /\ Len(kn) \in Nat /\ Len(keys) = Len(kn) + 1 /\ i \in 1..Len(keys)
        /\ \A a \in 1..Len(keys) : keys[a] = IF a < i THEN kn[a] ELSE IF a = i THEN k ELSE kn[a - 1]
    BY <2>4, <2>8, <1>0, <1>3 DEF Inserted
  <2> HIDE DEF kn
  <2>10. \E a \in 1..Len(keys), b \in 1..Len(keys) : a < b /\ keys[a] = k /\ keys[b] = k
    <3>1. CASE j < i
      <4>1. j \in 1..Len(keys)
        BY <2>9
      <4>2. keys[j] = k
        BY <4>1, <3>1, <2>9
      <4> QED
        BY <3>1, <4>1, <4>2, <2>6
    <3>2. CASE ~(j < i)
      <4>1. j + 1 \in 1..Len(keys) /\ i < j + 1 /\ ~(j + 1 < i) /\ j + 1 # i /\ (j + 1) - 1 = j
        BY <3>2, <2>9
      <4>2. keys[j + 1] = kn[(j + 1) - 1]
        BY <4>1, <2>9
      <4>3. keys[j + 1] = k
        BY <4>1, <4>2, <2>9
      <4> QED
        BY <4>1, <4>3, <2>6
    <3> QED
      BY <3>1, <3>2
  <2>11. PICK a \in 1..Len(keys), b \in 1..Len(keys) : a < b /\ keys[a] = k /\ keys[b] = k
    BY <2>10
  <2>12. keys[a] < keys[b]
    BY <2>11, <1>0 DEF GoodLeaf, Ascending
  <2>13. k < k /\ k \in Int
    BY <2>11, <2>12, <1>0, KeysAssumption
  <2> QED
    BY <2>13
<1>8. Held' = [Held EXCEPT ![k] = x]
  BY <1>0, <1>5, <1>6, OneKeyChanges
<1> QED
  BY <1>7, <1>8

\* A key without rows goes.
LEMMA OldKeyMap ==
  ASSUME NEW w, Typed, NEW L, NEW S, NEW P, NEW N, Settled(w, L, S, P, N), Settled(w, L, S, P, N)',
         NEW n \in DOMAIN nodes, L[n] = 0, NEW keys \in Seq(Int), NEW values \in Seq(Seq(Rows)), NEW i, NEW k,
         Inserted(TreeKeys(w)[n], keys, i, k), Inserted(TreeValues(w)[n], values, i, <<>>),
         TreeKeys(w)' = [TreeKeys(w) EXCEPT ![n] = keys], TreeValues(w)' = [TreeValues(w) EXCEPT ![n] = values],
         Stands(w), Stands(w)'
  PROVE  Held' = Held
<1> DEFINE D == DOMAIN nodes
           kn == TreeKeys(w)[n]
           vn == TreeValues(w)[n]
<1>1. /\ DOMAIN TreeLeaf = D /\ DOMAIN TreeLeaf' = D /\ \A q \in D : TreeLeaf'[q] <=> TreeLeaf[q]
  BY SameLeaves
<1>2. TreeKeys(w) \in [D -> Seq(Int)] /\ TreeValues(w) \in [D -> Seq(Seq(Rows))]
  BY Known
<1>3. Len(keys) \in Nat /\ Len(values) = Len(keys)
  <2>1. Len(vn) = Len(kn)
    BY LeavesAreGood DEF GoodLeaf
  <2>2. Len(kn) = Len(keys) + 1 /\ Len(vn) = Len(values) + 1
    BY DEF Inserted
  <2>3. Len(keys) \in Nat /\ Len(values) \in Nat
    BY LenProperties
  <2> QED
    BY <2>1, <2>2, <2>3
<1>4. \A q, v : ListAt(kn, vn, q, v) <=> (ListAt(keys, values, q, v) \/ (q = k /\ v = <<>>))
  <2> HIDE DEF kn, vn
  <2>1. Inserted(kn, keys, i, k) /\ Inserted(vn, values, i, <<>>)
    BY DEF kn, vn
  <2> QED
    BY <2>1, <1>3, InsertedPair
<1>5. ASSUME NEW q, NEW v, v # <<>>
      PROVE  InNext(w, q, v) <=> In(w, q, v)
  <2>1. ListAt(keys, values, q, v) <=> ListAt(kn, vn, q, v)
    BY <1>4, <1>5
  <2>2. PICK K, V : K = TreeKeys(w) /\ V = TreeValues(w)
    OBVIOUS
  <2>3. PICK K2, V2, lf2 : K2 = TreeKeys(w)' /\ V2 = TreeValues(w)' /\ lf2 = TreeLeaf'
    OBVIOUS
  <2>4. InTree(lf2, K2, V2, q, v) <=> InTree(TreeLeaf, K, V, q, v)
    <3>1. K2 = [K EXCEPT ![n] = keys] /\ V2 = [V EXCEPT ![n] = values] /\ DOMAIN K = D /\ DOMAIN V = D
      BY <2>2, <2>3, <1>2
    <3>2. ListAt(keys, values, q, v) <=> ListAt(K[n], V[n], q, v)
      BY <2>1, <2>2
    <3>3. DOMAIN lf2 = D /\ DOMAIN TreeLeaf = D /\ \A m \in D : lf2[m] <=> TreeLeaf[m]
      BY <2>3, <1>1
    <3>4. OneLeaf(D, TreeLeaf, K, V, n, keys, values, lf2, K2, V2)
      BY <3>1, <3>3 DEF OneLeaf
    <3> HIDE DEF D
    <3> QED
      BY <3>2, <3>4, OneLeafChanges
  <2> QED
    BY <2>2, <2>3, <2>4 DEF In, InNext
<1> QED
  BY <1>5, SameMap
LEMMA RowEntry ==
  ASSUME NEW k, NEW r \in RowsOf(k)
  PROVE  \E e \in Entries : e[1] = k /\ e[2] = r
BY DEF RowsOf

\* One row more under a key.
LEMMA LeafRowPuts ==
  ASSUME NEW w \in Writers, Typed, NEW L, NEW S, NEW P, NEW N, Settled(w, L, S, P, N), Sizes(w), Work(w, L, S),
         LeafRow(w), Stands(w), Stands(w)'
  PROVE  Map!Next
<1> DEFINE n == Here(w)
           k == op[w].key
           r == op[w].row
<1>1. /\ Settled(w, L, S, P, N)' /\ L[n] = 0 /\ n \in DOMAIN nodes /\ r \in RowsOf(k) /\ k \in Keys
      /\ TreeKeys(w)' = TreeKeys(w)
      /\ \E i \in 1..Len(TreeKeys(w)[n]) :
           /\ TreeKeys(w)[n][i] = k
           /\ NewValue(TreeValues(w)', TreeValues(w), n, i, Append(TreeValues(w)[n][i], r))
  BY LeafRowKeeps
<1>2. PICK i \in 1..Len(TreeKeys(w)[n]) :
           /\ TreeKeys(w)[n][i] = k
           /\ NewValue(TreeValues(w)', TreeValues(w), n, i, Append(TreeValues(w)[n][i], r))
  BY <1>1
<1>3. PICK e \in Entries : e[1] = k /\ e[2] = r
  BY <1>1, RowEntry
<1> HIDE DEF n, k, r
<1>4. /\ Held[k] = TreeValues(w)[n][i]
      /\ Held' = [Held EXCEPT ![k] = Append(TreeValues(w)[n][i], r)]
  <2> DEFINE x == Append(TreeValues(w)[n][i], r)
  <2>1. NewValue(TreeValues(w)', TreeValues(w), n, i, x)
    BY <1>2
  <2> HIDE DEF x
  <2>2. Held[k] = TreeValues(w)[n][i] /\ Held' = [Held EXCEPT ![k] = x]
    BY <2>1, <1>1, <1>2, NewListMap
  <2> QED
    BY <2>2 DEF x
<1>5. Held' = [Held EXCEPT ![e[1]] = Append(@, e[2])]
  BY <1>3, <1>4
<1> QED
  BY <1>5, MapPut

\* The first row of a key.
LEMMA LeafValuePuts ==
  ASSUME NEW w \in Writers, Typed, NEW L, NEW S, NEW P, NEW N, Settled(w, L, S, P, N), Sizes(w), Work(w, L, S),
         LeafValue(w), Stands(w), Stands(w)'
  PROVE  Map!Next
<1> DEFINE n == Here(w)
           k == op[w].key
           r == op[w].row
<1>1. /\ Settled(w, L, S, P, N)' /\ L[n] = 0 /\ n \in DOMAIN nodes /\ r \in RowsOf(k) /\ k \in Keys
      /\ \E keys \in Seq(Int), values \in Seq(Seq(Rows)), i \in Nat :
           /\ Inserted(keys, TreeKeys(w)[n], i, k)
           /\ Inserted(values, TreeValues(w)[n], i, <<r>>)
           /\ GoodLeaf(keys, values, S[n])
           /\ TreeKeys(w)' = [TreeKeys(w) EXCEPT ![n] = keys]
           /\ TreeValues(w)' = [TreeValues(w) EXCEPT ![n] = values]
  BY LeafValueKeeps
<1>2. PICK keys \in Seq(Int), values \in Seq(Seq(Rows)), i \in Nat :
           /\ Inserted(keys, TreeKeys(w)[n], i, k)
           /\ Inserted(values, TreeValues(w)[n], i, <<r>>)
           /\ GoodLeaf(keys, values, S[n])
           /\ TreeKeys(w)' = [TreeKeys(w) EXCEPT ![n] = keys]
           /\ TreeValues(w)' = [TreeValues(w) EXCEPT ![n] = values]
  BY <1>1
<1>3. PICK e \in Entries : e[1] = k /\ e[2] = r
  BY <1>1, RowEntry
<1> HIDE DEF n, k, r
<1>4. Held[k] = <<>> /\ Held' = [Held EXCEPT ![k] = <<r>>]
  <2> DEFINE x == <<r>>
  <2>1. LeafGrows(w, S, n, keys, values, i, k, x)
    BY <1>1, <1>2 DEF LeafGrows
  <2> HIDE DEF x
  <2>2. Settled(w, L, S, P, N)' /\ L[n] = 0
    BY <1>1
  <2>3. Held[k] = <<>> /\ Held' = [Held EXCEPT ![k] = x]
    BY <2>1, <2>2, NewKeyMap
  <2> QED
    BY <2>3 DEF x
<1>5. Append(<<>>, r) = <<r>>
  OBVIOUS
<1>6. Held' = [Held EXCEPT ![e[1]] = Append(@, e[2])]
  BY <1>3, <1>4, <1>5
<1> QED
  BY <1>6, MapPut

\* A row goes, if it is there.
LEMMA RemoveRowDrops ==
  ASSUME NEW w \in Writers, Typed, NEW L, NEW S, NEW P, NEW N, Settled(w, L, S, P, N), Sizes(w), Work(w, L, S),
         RemoveRow(w), Stands(w), Stands(w)'
  PROVE  Map!Next \/ Held' = Held
<1> DEFINE n == Here(w)
           k == op[w].key
           r == op[w].row
<1>1. /\ Settled(w, L, S, P, N)' /\ L[n] = 0 /\ n \in DOMAIN nodes /\ TreeKeys(w)' = TreeKeys(w)
      /\ \/ TreeValues(w)' = TreeValues(w)
         \/ \E i \in 1..Len(TreeKeys(w)[n]) :
              /\ TreeKeys(w)[n][i] = k
              /\ NewValue(TreeValues(w)', TreeValues(w), n, i, RemoveFirst(TreeValues(w)[n][i], r))
  BY RemoveRowKeeps
<1> HIDE DEF n, k, r
<1>2. CASE TreeValues(w)' = TreeValues(w)
  BY <1>1, <1>2, SettledMap
<1>3. ASSUME NEW i \in 1..Len(TreeKeys(w)[n]), TreeKeys(w)[n][i] = k,
             NewValue(TreeValues(w)', TreeValues(w), n, i, RemoveFirst(TreeValues(w)[n][i], r))
      PROVE  Map!Next \/ Held' = Held
  <2> DEFINE list == TreeValues(w)[n][i]
  <2>1. k \in Keys /\ list \in Seq(RowsOf(k))
    BY <1>1, <1>3, LeavesAreGood DEF GoodLeaf
  <2>2. Held[k] = list /\ Held' = [Held EXCEPT ![k] = RemoveFirst(list, r)]
    BY <2>1, <1>1, <1>3, NewListMap
  <2> HIDE DEF list
  <2>3. CASE Contains(list, r)
    <3>1. r \in RowsOf(k)
      BY <2>1, <2>3, ElementOfSeq DEF Contains
    <3>2. PICK e \in Entries : e[1] = k /\ e[2] = r
      BY <3>1, RowEntry
    <3>3. Contains(Held[e[1]], e[2])
      BY <3>2, <2>2, <2>3
    <3>4. Held' = [Held EXCEPT ![e[1]] = RemoveFirst(@, e[2])]
      BY <3>2, <2>2
    <3> QED
      BY <3>3, <3>4, MapDrop
  <2>4. CASE ~Contains(list, r)
    <3>1. RemoveFirst(list, r) = list
      BY <2>1, <2>4, RemoveFirstRemoves
    <3>2. Held = [q \in Keys |-> Held[q]]
      BY DEF Held
    <3> QED
      BY <3>1, <3>2, <2>2
  <2> QED
    BY <2>3, <2>4
<1> QED
  BY <1>1, <1>2, <1>3

\* Every step of the writer is a step of the map, or none.
LEMMA WriteImplements ==
  ASSUME NEW w \in Writers, TreeInv(w), Write(w), Stands(w), Stands(w)'
  PROVE  Map!Next \/ Held' = Held
<1>1. PICK L, S, P, N : Settled(w, L, S, P, N) /\ Sizes(w) /\ Work(w, L, S)
  BY DEF TreeInv
<1>2. Typed
  BY DEF TreeInv
<1>3. ASSUME NEW e \in Entries \cup Removals, NEW pc \in {"leaf", "remove"}, pc = "leaf" => e \in Entries,
             Call(w, e, pc)
      PROVE  Held' = Held
  <2>1. /\ Settled(w, L, S, P, N)' /\ TreeKeys(w)' = TreeKeys(w) /\ TreeValues(w)' = TreeValues(w)
    BY <1>1, <1>2, <1>3, CallKeeps
  <2> QED
    BY <2>1, <1>1, SettledMap
<1>4. ASSUME NEW e \in Entries, CallInsert(w, e)
      PROVE  Held' = Held
  BY <1>3, <1>4 DEF CallInsert
<1>5. ASSUME NEW e \in Removals, CallDelete(w, e)
      PROVE  Held' = Held
  BY <1>3, <1>5 DEF CallDelete
<1>6. CASE LeafRow(w)
  BY <1>1, <1>2, <1>6, LeafRowPuts
<1>7. CASE LeafKey(w)
  <2>1. Settled(w, L, S, P, N)' /\ TreeKeys(w)' = TreeKeys(w) /\ TreeValues(w)' = TreeValues(w)
    BY <1>1, <1>2, <1>7, LeafKeyKeeps
  <2> QED
    BY <2>1, <1>1, SettledMap
<1>8. CASE LeafValue(w)
  BY <1>1, <1>2, <1>8, LeafValuePuts
<1>9. CASE SplitLeafKeys(w)
  <2>1. SameLists(w)
    BY <1>1, <1>2, <1>9, SplitLeafKeysKeeps DEF SameLists
  <2> QED
    BY <2>1, SplitMap
<1>10. CASE SplitLeafValues(w)
  BY <1>1, <1>2, <1>10, SplitLeafValuesKeeps, StayingMap
<1>11. CASE Link(w)
  BY <1>1, <1>2, <1>11, LinkKeeps, StayingMap
<1>12. CASE ParentKey(w)
  BY <1>1, <1>2, <1>12, ParentKeyKeeps, StayingMap
<1>13. CASE ParentChild(w)
  BY <1>1, <1>2, <1>13, ParentChildKeeps, SplitMap
<1>14. CASE SplitInnerKeys(w)
  <2>1. SameLists(w)
    BY <1>1, <1>2, <1>14, SplitInnerKeysKeeps
  <2> QED
    BY <2>1, SplitMap
<1>15. CASE SplitInnerChildren(w)
  BY <1>1, <1>2, <1>15, SplitInnerChildrenKeeps, StayingMap
<1>16. CASE NewRoot(w)
  <2>1. SameLists(w)
    BY <1>1, <1>2, <1>16, NewRootKeeps
  <2> QED
    BY <2>1, SplitMap
<1>17. CASE RemoveRow(w)
  BY <1>1, <1>2, <1>17, RemoveRowDrops
<1>18. CASE PopKey(w)
  <2>1. /\ Settled(w, L, S, P, N)' /\ L[Here(w)] = 0 /\ Here(w) \in DOMAIN nodes
        /\ \E keys \in Seq(Int), values \in Seq(Seq(Rows)), i \in Nat, key \in Int :
             /\ Inserted(TreeKeys(w)[Here(w)], keys, i, key)
             /\ Inserted(TreeValues(w)[Here(w)], values, i, <<>>)
             /\ TreeKeys(w)' = [TreeKeys(w) EXCEPT ![Here(w)] = keys]
             /\ TreeValues(w)' = [TreeValues(w) EXCEPT ![Here(w)] = values]
    BY <1>1, <1>2, <1>18, PopKeyKeeps
  <2> QED
    BY <2>1, <1>1, <1>2, OldKeyMap
<1>19. CASE PopValue(w)
  <2>1. Settled(w, L, S, P, N)' /\ TreeKeys(w)' = TreeKeys(w) /\ TreeValues(w)' = TreeValues(w)
    BY <1>1, <1>2, <1>19, PopValueKeeps
  <2> QED
    BY <2>1, <1>1, SettledMap
<1> QED
  BY <1>4, <1>5, <1>6, <1>7, <1>8, <1>9, <1>10, <1>11, <1>12, <1>13, <1>14, <1>15, <1>16, <1>17, <1>18,
     <1>19 DEF Write

\* With one writer at a time the tree is the map it stands for, at every step of
\* a split or a removal: no key and no row gets lost, doubled or moved to another
\* key (bplustree.py 52-198), whatever the order of the tree and the entries.
THEOREM TreeIsAMap ==
  ASSUME NEW w, Writers = {w}
  PROVE  Spec => ImplementsMultimap
<1>1. w \in Writers
  OBVIOUS
<1>2. Spec => []TreeInv(w)
  BY TreeInvariant
<1>3. TreeInv(w) => Stands(w)
  BY HeldStands
<1>4. Init => Map!Init
  <2> SUFFICES ASSUME Init
               PROVE  Map!Init
    OBVIOUS
  <2>1. Leaves = {1} /\ nodes[1].keys = <<>> /\ \A v \in Writers : op[v] = Idle
    BY DEF Init, Leaves, Leaf
  <2>2. Between(1, "value") = {}
    BY <2>1 DEF Between, Idle
  <2>3. SettledKeys(1) = <<>>
    BY <2>1, <2>2 DEF SettledKeys
  <2>4. \A k \in Keys : Under(k) = {}
    BY <2>1, <2>3 DEF Under
  <2>5. Held = [k \in Keys |-> <<>>]
    BY <2>4 DEF Held
  <2> QED
    BY <2>5 DEF Map!Init
<1>5. TreeInv(w) /\ Stands(w) /\ Stands(w)' /\ [Next]_vars => [Map!Next]_Held
  <2> SUFFICES ASSUME TreeInv(w), Stands(w), Stands(w)', [Next]_vars
               PROVE  Map!Next \/ Held' = Held
    OBVIOUS
  <2>1. CASE Write(w)
    BY <2>1, <1>1, WriteImplements
  <2>2. CASE UNCHANGED <<nodes, root, op>>
    BY <2>2, UnchangedTree, StayingMap
  <2> QED
    BY <2>1, <2>2, StepsOfOne
<1> QED
  BY <1>2, <1>3, <1>4, <1>5, PTL DEF Spec, ImplementsMultimap, Map!Spec
-----------------------------------------------------------------------------
(***************************************************************************)
(* Lookups that no writer's step falls into.                               *)
(***************************************************************************)
\* A list of lists grows at its end.
LEMMA FlatGrows ==
  ASSUME NEW T, NEW n \in Nat, NEW a \in [1..n -> Seq(T)], NEW b \in [1..(n + 1) -> Seq(T)],
         \A i \in 1..n : b[i] = a[i]
  PROVE  FlattenSeq(a) \in Seq(T) /\ FlattenSeq(b) = FlattenSeq(a) \o b[n + 1]
<1>1. a \in Seq(Seq(T)) /\ Len(a) = n /\ Len(b) = n + 1
  <2>1. a \in Seq(Seq(T)) /\ b \in Seq(Seq(T)) /\ DOMAIN a = 1..n /\ DOMAIN b = 1..(n + 1)
    BY SeqDef
  <2> QED
    BY <2>1, LenProperties
<1> DEFINE f == CHOOSE d : Behind(d, a)
           g == CHOOSE d : Behind(d, b)
<1>2. Behind(f, a) /\ Behind(g, b)
  <2>1. Len(a) \in Nat /\ Len(b) \in Nat
    BY <1>1
  <2>2. (\E d : Behind(d, a)) /\ (\E d : Behind(d, b))
    BY <2>1, GluesExist
  <2> QED
    BY <2>2
<1>3. n > 0 => FlattenSeq(a) = f[n]
  BY <1>1 DEF FlattenSeq, Behind
<1>4. FlattenSeq(b) = g[n + 1]
  BY <1>1 DEF FlattenSeq, Behind
<1> HIDE DEF f, g
<1>5. \A i \in 1..n : f[i] = IF i = 1 THEN a[i] ELSE f[i - 1] \o a[i]
  BY <1>1, <1>2 DEF Behind
<1>6. \A i \in 1..(n + 1) : g[i] = IF i = 1 THEN b[i] ELSE g[i - 1] \o b[i]
  BY <1>1, <1>2 DEF Behind
<1> DEFINE G == {h \in Nat : h + 1 <= n => f[h + 1] = g[h + 1] /\ f[h + 1] \in Seq(T)}
<1>7. 0 \in G
  <2>1. 1 <= n => f[1] = a[1] /\ g[1] = b[1] /\ a[1] = b[1] /\ a[1] \in Seq(T)
    BY <1>5, <1>6
  <2> QED
    BY <2>1
<1>8. ASSUME NEW h \in Nat, h \in G
      PROVE  h + 1 \in G
  <2> DEFINE i == h + 1
             j == (h + 1) + 1
  <2>1. i \in Nat /\ j = i + 1 /\ j # 1 /\ j - 1 = i /\ (j <= n => i <= n /\ j \in 1..n /\ j \in 1..(n + 1))
    OBVIOUS
  <2>2. i <= n => f[i] = g[i] /\ f[i] \in Seq(T)
    BY <1>8
  <2> HIDE DEF i, j
  <2>3. ASSUME j <= n
        PROVE  f[j] = g[j] /\ f[j] \in Seq(T)
    <3>1. f[j] = f[i] \o a[j]
      BY <2>1, <2>3, <1>5
    <3>2. g[j] = g[i] \o b[j]
      BY <2>1, <2>3, <1>6
    <3>3. a[j] = b[j] /\ a[j] \in Seq(T) /\ f[i] = g[i] /\ f[i] \in Seq(T)
      BY <2>1, <2>2, <2>3
    <3> QED
      BY <3>1, <3>2, <3>3, ConcatProperties
  <2> QED
    BY <2>3 DEF i, j
<1> HIDE DEF G
<1>9. \A h \in Nat : h \in G
  BY <1>7, <1>8, AllNats
<1>10. n > 0 => f[n] = g[n] /\ f[n] \in Seq(T)
  <2> HAVE n > 0
  <2>1. n - 1 \in Nat /\ (n - 1) + 1 = n
    OBVIOUS
  <2>2. n - 1 \in G
    BY <2>1, <1>9
  <2> QED
    BY <2>1, <2>2 DEF G
<1>11. CASE n = 0
  <2>1. a = <<>> /\ FlattenSeq(a) = <<>> /\ <<>> \in Seq(T)
    BY <1>1, <1>11, EmptySeq DEF FlattenSeq
  <2>2. g[n + 1] = b[n + 1] /\ b[n + 1] \in Seq(T)
    BY <1>6, <1>11
  <2>3. <<>> \o b[n + 1] = b[n + 1]
    BY <2>2, ConcatEmptySeq
  <2> QED
    BY <2>1, <2>2, <2>3, <1>4
<1>12. CASE n > 0
  <2>1. g[n + 1] = g[n] \o b[n + 1]
    <3>1. n + 1 \in 1..(n + 1) /\ n + 1 # 1 /\ (n + 1) - 1 = n
      BY <1>12
    <3> QED
      BY <3>1, <1>6
  <2> QED
    BY <2>1, <1>3, <1>4, <1>10, <1>12
<1> QED
  BY <1>11, <1>12

LEMMA FlatOfNone ==
  ASSUME NEW a, DOMAIN a = 1..0, a = [i \in 1..0 |-> a[i]]
  PROVE  FlattenSeq(a) = <<>>
<1>1. a = <<>>
  OBVIOUS
<1>2. Len(<<>>) = 0
  OBVIOUS
<1> QED
  BY <1>1, <1>2 DEF FlattenSeq

\* The members of S have their places in order, and S is finite.
Sorted(S) == S \subseteq Keys /\ IsFiniteSet(S) /\ \A i \in 1..Cardinality(S) : InOrder(S)[i] \in S

LEMMA OrderGrows ==
  ASSUME NEW S, Sorted(S), NEW k \in Keys, \A x \in S : x < k
  PROVE  /\ Sorted(S \cup {k}) /\ Cardinality(S) \in Nat /\ Cardinality(S \cup {k}) = Cardinality(S) + 1
         /\ \A i \in 1..Cardinality(S) : InOrder(S \cup {k})[i] = InOrder(S)[i]
         /\ InOrder(S \cup {k})[Cardinality(S) + 1] = k
<1> DEFINE Z == S \cup {k}
           n == Cardinality(S)
           B(U, x) == {y \in U : y < x}
<1>1. S \subseteq Int /\ k \in Int /\ IsFiniteSet(S) /\ k \notin S
  BY KeysAssumption DEF Sorted
<1>2. n \in Nat /\ Cardinality(Z) = n + 1 /\ IsFiniteSet(Z)
  BY <1>1, FS_CardinalityType, FS_AddElement
<1>3. B(Z, k) = S
  <2>1. \A y \in Z : y < k <=> y \in S
    BY <1>1
  <2> QED
    BY <2>1
<1>4. ASSUME NEW x \in S
      PROVE  B(Z, x) = B(S, x) /\ Cardinality(B(S, x)) \in Nat /\ Cardinality(B(S, x)) < n
  <2>1. B(Z, x) = B(S, x)
    BY <1>1
  <2>2. B(S, x) \subseteq S /\ x \notin B(S, x)
    BY <1>1
  <2>3. Cardinality(B(S, x)) <= n /\ (Cardinality(B(S, x)) = n => B(S, x) = S) /\ IsFiniteSet(B(S, x))
    BY <2>2, <1>1, FS_Subset
  <2>4. Cardinality(B(S, x)) \in Nat
    BY <2>3, FS_CardinalityType
  <2> HIDE DEF B, n
  <2> QED
    BY <2>1, <2>2, <2>3, <2>4, <1>2
<1> DEFINE At1(U, i) == CHOOSE x \in U : Cardinality(B(U, x)) = i - 1
<1>5. InOrder(S) = [i \in 1..n |-> At1(S, i)] /\ InOrder(Z) = [i \in 1..(n + 1) |-> At1(Z, i)]
  BY <1>2 DEF InOrder
<1>6. ASSUME NEW i \in 1..n
      PROVE  At1(Z, i) = At1(S, i)
  <2> HIDE DEF B, n
  <2>1. i - 1 # n
    BY <1>2
  <2>2. \A x : (x \in Z /\ Cardinality(B(Z, x)) = i - 1) <=> (x \in S /\ Cardinality(B(S, x)) = i - 1)
    <3>0. Cardinality(B(Z, k)) = n
      BY <1>3 DEF n
    <3> QED
      BY <2>1, <3>0, <1>4
  <2> QED
    BY <2>2
<1>7. At1(Z, n + 1) = k
  <2>0. Cardinality(B(Z, k)) = n
    BY <1>3
  <2> HIDE DEF B, n
  <2>1. (n + 1) - 1 = n
    BY <1>2
  <2>2. \A x \in Z : Cardinality(B(Z, x)) = n => x = k
    BY <1>2, <1>4
  <2>3. k \in Z
    OBVIOUS
  <2> HIDE DEF Z
  <2> QED
    BY <2>0, <2>1, <2>2, <2>3
<1> HIDE DEF At1, B
<1>8. \A i \in 1..n : InOrder(Z)[i] = InOrder(S)[i] /\ InOrder(S)[i] \in S
  <2>1. \A i \in 1..n : i \in 1..(n + 1)
    BY <1>2
  <2>2. \A i \in 1..n : InOrder(S)[i] \in S
    BY DEF Sorted
  <2> HIDE DEF n, Z
  <2> QED
    BY <2>1, <2>2, <1>5, <1>6
<1>9. InOrder(Z)[n + 1] = k
  <2>1. n + 1 \in 1..(n + 1)
    BY <1>2
  <2> HIDE DEF n, Z
  <2> QED
    BY <2>1, <1>5, <1>7
<1>10. Sorted(Z)
  <2>1. \A i \in 1..(n + 1) : i \in 1..n \/ i = n + 1
    BY <1>2
  <2> HIDE DEF n
  <2>2. \A i \in 1..(n + 1) : InOrder(Z)[i] \in Z
    BY <2>1, <1>8, <1>9
  <2>3. Z \subseteq Keys
    BY DEF Sorted
  <2> HIDE DEF Z
  <2> QED
    BY <2>2, <2>3, <1>2 DEF Sorted
<1> QED
  BY <1>2, <1>8, <1>9, <1>10

LEMMA NoneSorted ==
  Sorted({}) /\ Cardinality({}) = 0
<1>1. IsFiniteSet({}) /\ Cardinality({}) = 0
  BY FS_EmptySet
<1> QED
  BY <1>1 DEF Sorted

\* The rows that map h has for the keys of S, in the order of the keys.
Listed(h, S) == LET in == InOrder(S) IN FlattenSeq([i \in DOMAIN in |-> h[in[i]]])

LEMMA ListGrows ==
  ASSUME NEW h \in [Keys -> Seq(Rows)], NEW S, Sorted(S), NEW k \in Keys, \A x \in S : x < k
  PROVE  Sorted(S \cup {k}) /\ Listed(h, S \cup {k}) = Listed(h, S) \o h[k]
<1> DEFINE Z == S \cup {k}
           n == Cardinality(S)
           a == [i \in 1..n |-> h[InOrder(S)[i]]]
           b == [i \in 1..(n + 1) |-> h[InOrder(Z)[i]]]
<1>1. /\ Sorted(Z) /\ n \in Nat /\ Cardinality(Z) = n + 1
      /\ \A i \in 1..n : InOrder(Z)[i] = InOrder(S)[i]
      /\ InOrder(Z)[n + 1] = k
  BY OrderGrows
<1>2. DOMAIN InOrder(S) = 1..n /\ DOMAIN InOrder(Z) = 1..(n + 1)
  BY <1>1 DEF InOrder
<1>3. Listed(h, S) = FlattenSeq(a) /\ Listed(h, Z) = FlattenSeq(b)
  BY <1>2 DEF Listed
<1>4. a \in [1..n -> Seq(Rows)]
  BY DEF Sorted
<1>5. b \in [1..(n + 1) -> Seq(Rows)]
  BY <1>1 DEF Sorted
<1>6. (\A i \in 1..n : b[i] = a[i]) /\ b[n + 1] = h[k]
  <2>1. (\A i \in 1..n : a[i] = h[InOrder(S)[i]]) /\ \A i \in 1..(n + 1) : b[i] = h[InOrder(Z)[i]]
    OBVIOUS
  <2>2. n + 1 \in 1..(n + 1) /\ \A i \in 1..n : i \in 1..(n + 1)
    BY <1>1
  <2> HIDE DEF a, b, n, Z
  <2> QED
    BY <2>1, <2>2, <1>1
<1> HIDE DEF a, b, n, Z
<1>7. FlattenSeq(b) = FlattenSeq(a) \o b[n + 1]
  BY <1>1, <1>4, <1>5, <1>6, FlatGrows
<1> QED
  BY <1>1, <1>3, <1>6, <1>7 DEF Z

LEMMA NoneListed ==
  ASSUME NEW h
  PROVE  Listed(h, {}) = <<>>
<1> DEFINE a == [i \in DOMAIN InOrder({}) |-> h[InOrder({})[i]]]
<1>1. DOMAIN InOrder({}) = 1..0
  BY NoneSorted DEF InOrder
<1>2. DOMAIN a = 1..0 /\ a = [i \in 1..0 |-> a[i]]
  BY <1>1
<1>3. Listed(h, {}) = FlattenSeq(a)
  BY DEF Listed
<1> HIDE DEF a
<1> QED
  BY <1>2, <1>3, FlatOfNone

\* What is listed is a list of rows.
LEMMA ListedRows ==
  ASSUME NEW h \in [Keys -> Seq(Rows)], NEW S, Sorted(S)
  PROVE  Listed(h, S) \in Seq(Rows)
<1> DEFINE n == Cardinality(S)
           a == [i \in 1..n |-> h[InOrder(S)[i]]]
           b == [i \in 1..(n + 1) |-> IF i = n + 1 THEN <<>> ELSE a[i]]
<1>1. n \in Nat
  BY FS_CardinalityType DEF Sorted
<1>2. DOMAIN InOrder(S) = 1..n
  BY DEF InOrder
<1>3. Listed(h, S) = FlattenSeq(a)
  BY <1>2 DEF Listed
<1>4. a \in [1..n -> Seq(Rows)]
  BY DEF Sorted
<1> HIDE DEF a, n
<1>5. b \in [1..(n + 1) -> Seq(Rows)] /\ \A i \in 1..n : b[i] = a[i]
  <2>1. \A i \in 1..(n + 1) : i # n + 1 => i \in 1..n
    BY <1>1
  <2>2. \A i \in 1..n : i \in 1..(n + 1) /\ i # n + 1
    BY <1>1
  <2>3. <<>> \in Seq(Rows)
    OBVIOUS
  <2> QED
    BY <2>1, <2>2, <2>3, <1>4
<1> HIDE DEF b
<1> QED
  BY <1>1, <1>3, <1>4, <1>5, FlatGrows

\* What a quiet index is, leaf by leaf: a map of the nodes as they are.
NodeUnder(k) ==
  UNION {{nodes[n].values[i] : i \in {j \in DOMAIN nodes[n].keys : nodes[n].keys[j] = k}} : n \in Leaves}
NodeHeld == [k \in Keys |-> IF NodeUnder(k) = {} THEN <<>> ELSE CHOOSE v \in NodeUnder(k) : TRUE]

\* A writer that has changed nothing yet.
Untouched == {"idle", "leaf", "remove"}

LEMMA HeldIsInNodes ==
  ASSUME NEW w, Writers = {w}, op[w].pc \in Untouched
  PROVE  Held = NodeHeld
<1>1. \A n : Between(n, "value") = {} /\ Between(n, "popvalue") = {}
  BY DEF Between, Untouched
<1>2. \A n : SettledKeys(n) = nodes[n].keys /\ SettledValues(n) = nodes[n].values
  BY <1>1 DEF SettledKeys, SettledValues
<1>3. \A k : Under(k) = NodeUnder(k)
  BY <1>2 DEF Under, NodeUnder
<1> DEFINE A(k) == IF Under(k) = {} THEN <<>> ELSE CHOOSE v \in Under(k) : TRUE
           B(k) == IF NodeUnder(k) = {} THEN <<>> ELSE CHOOSE v \in NodeUnder(k) : TRUE
<1>4. ASSUME NEW k \in Keys
      PROVE  A(k) = B(k)
  <2>1. Under(k) = NodeUnder(k)
    BY <1>3
  <2> QED
    BY <2>1
<1>5. Held = [k \in Keys |-> A(k)] /\ NodeHeld = [k \in Keys |-> B(k)]
  BY DEF Held, NodeHeld
<1> HIDE DEF A, B
<1> QED
  BY <1>4, <1>5

Indexed(S, P, N) ==
  /\ Leaves \subseteq Nat /\ ChainOK(Leaves, NodeNext, S, P, N)
  /\ \A n \in Leaves :
       /\ S[n] \subseteq Int /\ S[n] # {}
       /\ nodes[n].keys \in Seq(Int) /\ Ascending(nodes[n].keys)
       /\ nodes[n].values \in Seq(Seq(Rows)) /\ Len(nodes[n].values) = Len(nodes[n].keys)
       /\ \A i \in 1..Len(nodes[n].keys) :
            /\ nodes[n].keys[i] \in Keys /\ nodes[n].keys[i] \in S[n]
            /\ NodeHeld[nodes[n].keys[i]] = nodes[n].values[i]
  /\ NodeHeld \in [Keys -> Seq(Rows)]
  /\ \A k \in Keys : NodeHeld[k] # <<>> => \E n \in Leaves : \E i \in 1..Len(nodes[n].keys) : nodes[n].keys[i] = k

LEMMA QuietIndex ==
  ASSUME NEW w, Writers = {w}, TreeInv(w), op[w].pc \in Untouched,
         NEW L, NEW S, NEW P, NEW N, Resting(L, S, P, N)
  PROVE  Indexed(S, P, N)
<1>1. Held = NodeHeld /\ Stands(w)
  BY HeldIsInNodes, HeldStands
<1>2. TreeKeys(w) = NodeKeys /\ TreeValues(w) = NodeValues
  <2>1. op[w].pc \in Plain
    BY DEF Untouched, Plain
  <2> QED
    BY <2>1, PlainTree DEF NodeKeys, NodeValues
<1>3. Leaves = {n \in DOMAIN nodes : L[n] = 0} /\ Leaves \subseteq DOMAIN nodes
  BY LeavesCounted
<1>4. ChainOK(Leaves, NodeNext, S, P, N) /\ Leaves \subseteq Nat
  <2>1. DOMAIN nodes \subseteq Nat
    BY RestingNodes
  <2> QED
    BY <2>1, <1>3 DEF Resting, Shape
<1>5. DOMAIN TreeLeaf = DOMAIN nodes /\ \A n \in DOMAIN nodes : TreeLeaf[n] <=> n \in Leaves
  BY DEF TreeLeaf, Leaves
<1>6. \A n \in DOMAIN nodes : NodeKeys[n] = nodes[n].keys /\ NodeValues[n] = nodes[n].values
  BY DEF NodeKeys, NodeValues
<1>7. ASSUME NEW n \in Leaves
      PROVE  /\ S[n] \subseteq Int /\ S[n] # {}
             /\ nodes[n].keys \in Seq(Int) /\ Ascending(nodes[n].keys)
             /\ nodes[n].values \in Seq(Seq(Rows)) /\ Len(nodes[n].values) = Len(nodes[n].keys)
             /\ \A i \in 1..Len(nodes[n].keys) :
                  /\ nodes[n].keys[i] \in Keys /\ nodes[n].keys[i] \in S[n]
                  /\ NodeHeld[nodes[n].keys[i]] = nodes[n].values[i]
  <2>1. n \in DOMAIN nodes /\ L[n] = 0
    BY <1>3
  <2>2. /\ nodes[n] \in Node /\ S \in [DOMAIN nodes -> SUBSET Int]
        /\ nodes[n].keys \in Seq(Int) /\ Ascending(nodes[n].keys)
        /\ Len(nodes[n].values) = Len(nodes[n].keys)
        /\ \A i \in 1..Len(nodes[n].keys) : nodes[n].keys[i] \in S[n] /\ nodes[n].keys[i] \in Keys
    BY <2>1, RestingNodes
  <2>3. nodes[n].values \in Seq(Seq(Rows))
    BY <2>2, NodeFields
  <2>4. S[n] # {}
    BY <2>1 DEF Resting, Shape, TreeOK, Disjoint
  <2>5. ASSUME NEW i \in 1..Len(nodes[n].keys)
        PROVE  NodeHeld[nodes[n].keys[i]] = nodes[n].values[i]
    <3> DEFINE k == nodes[n].keys[i]
               v == nodes[n].values[i]
    <3>1. In(w, k, v)
      BY <2>1, <1>2, <1>5, <1>6 DEF In, InTree
    <3>2. k \in Keys
      BY <2>2
    <3> HIDE DEF k, v
    <3>3. Held[k] = v
      BY <3>1, <3>2, <1>1 DEF Stands
    <3> QED
      BY <3>3, <1>1 DEF k, v
  <2> QED
    BY <2>1, <2>2, <2>3, <2>4, <2>5
<1>8. ASSUME NEW k \in Keys, NodeHeld[k] # <<>>
      PROVE  \E n \in Leaves : \E i \in 1..Len(nodes[n].keys) : nodes[n].keys[i] = k /\ nodes[n].values[i] = NodeHeld[k]
  <2>1. In(w, k, NodeHeld[k])
    BY <1>1, <1>8 DEF Stands
  <2>2. PICK n \in DOMAIN nodes :
          TreeLeaf[n] /\ \E i \in 1..Len(TreeKeys(w)[n]) : TreeKeys(w)[n][i] = k /\ TreeValues(w)[n][i] = NodeHeld[k]
    BY <2>1, <1>5 DEF In, InTree
  <2> QED
    BY <2>2, <1>2, <1>5, <1>6
<1>9. NodeHeld \in [Keys -> Seq(Rows)]
  <2>1. ASSUME NEW k \in Keys
        PROVE  NodeHeld[k] \in Seq(Rows)
    <3>1. CASE NodeHeld[k] = <<>>
      BY <3>1
    <3>2. CASE NodeHeld[k] # <<>>
      <4>1. PICK n \in Leaves : \E i \in 1..Len(nodes[n].keys) : nodes[n].keys[i] = k /\ nodes[n].values[i] = NodeHeld[k]
        BY <3>2, <1>8
      <4>2. PICK i \in 1..Len(nodes[n].keys) : nodes[n].values[i] = NodeHeld[k]
        BY <4>1
      <4>3. i \in 1..Len(nodes[n].values) /\ nodes[n].values \in Seq(Seq(Rows))
        BY <1>7
      <4> QED
        BY <4>2, <4>3, ElementOfSeq
    <3> QED
      BY <3>1, <3>2
  <2>2. NodeHeld = [k \in Keys |-> NodeHeld[k]]
    BY DEF NodeHeld
  <2> QED
    BY <2>1, <2>2
<1>10. \A k \in Keys : NodeHeld[k] # <<>> => \E n \in Leaves : \E i \in 1..Len(nodes[n].keys) : nodes[n].keys[i] = k
  BY <1>8
<1> QED
  BY <1>4, <1>7, <1>9, <1>10 DEF Indexed

\* The keys condition c asks for, and those of them in leaves before leaf n.
Wanted(c) == {k \in Keys : Above(c, k) /\ Below(c, k) /\ NodeHeld[k] # <<>>}
Earlier(c, n, S, P) == {k \in Wanted(c) : \E m \in Leaves : P[m] < P[n] /\ k \in S[m]}

\* A condition as Lookups has them.
Condition(c) ==
  /\ c.lo \in Int \cup {Nil} /\ c.hi \in Int \cup {Nil}
  /\ c.point => c.lo # Nil /\ c.hi = c.lo

\* Beyond a key that is too large all keys are.
LEMMA BelowGoesDown ==
  ASSUME NEW c, Condition(c), NEW a \in Int, NEW b \in Int, a <= b, Below(c, b)
  PROVE  Below(c, a)
BY DEF Condition, Below

LEMMA StopFits ==
  ASSUME NEW n, NEW c, nodes[n].keys \in Seq(Int)
  PROVE  /\ Stop(n, c) \in 1..(Len(nodes[n].keys) + 1) /\ Len(nodes[n].keys) \in Nat
         /\ Stop(n, c) <= Len(nodes[n].keys) => ~Below(c, nodes[n].keys[Stop(n, c)])
         /\ \A i \in 1..(Stop(n, c) - 1) : i \in 1..Len(nodes[n].keys) /\ Below(c, nodes[n].keys[i])
<1> DEFINE k == nodes[n].keys
           I == {i \in 1..(Len(k) + 1) : i <= Len(k) => ~Below(c, k[i])}
           j == Min(I)
<1>1. Len(k) \in Nat
  BY LenProperties
<1>2. Stop(n, c) = j
  BY DEF Stop
<1> HIDE DEF k
<1>3. Len(k) + 1 \in I /\ I \subseteq Nat
  BY <1>1
<1>4. j \in I /\ \A i \in I : j <= i
  BY <1>3, MinIsLeast
<1> HIDE DEF j
<1>5. j \in 1..(Len(k) + 1) /\ (j <= Len(k) => ~Below(c, k[j]))
  BY <1>4
<1>6. ASSUME NEW i \in 1..(j - 1)
      PROVE  i \in 1..Len(k) /\ Below(c, k[i])
  <2>1. i \in 1..Len(k) /\ i \in 1..(Len(k) + 1) /\ i <= Len(k) /\ ~(j <= i)
    BY <1>1, <1>5
  <2>2. i \notin I
    BY <2>1, <1>4
  <2> QED
    BY <2>1, <2>2
<1> QED
  BY <1>1, <1>2, <1>5, <1>6 DEF k

\* The keys of leaf n up to place j that condition c asks for, and the earlier ones.
Upward(c, n, j, S, P) == Earlier(c, n, S, P) \cup {k \in Wanted(c) : \E i \in 1..j : nodes[n].keys[i] = k}

\* What the first j keys of leaf n contribute.
Share(c, n, j) == [i \in 1..j |-> IF i \in Hits(n, c) THEN nodes[n].values[i] ELSE <<>>]

LEMMA ShareGrows ==
  ASSUME NEW S, NEW P, NEW N, Indexed(S, P, N), NEW n \in Leaves, NEW c,
         NEW j \in Nat, j <= Stop(n, c) - 1
  PROVE  /\ Share(c, n, j) \in [1..j -> Seq(Rows)]
         /\ j = 0 => FlattenSeq(Share(c, n, j)) = <<>>
         /\ j + 1 <= Stop(n, c) - 1 =>
              /\ FlattenSeq(Share(c, n, j)) \in Seq(Rows)
              /\ FlattenSeq(Share(c, n, j + 1)) = FlattenSeq(Share(c, n, j)) \o Share(c, n, j + 1)[j + 1]
<1>1. /\ nodes[n].keys \in Seq(Int) /\ nodes[n].values \in Seq(Seq(Rows))
      /\ Len(nodes[n].values) = Len(nodes[n].keys)
  BY DEF Indexed
<1>2. /\ Stop(n, c) \in 1..(Len(nodes[n].keys) + 1) /\ Len(nodes[n].keys) \in Nat
      /\ \A i \in 1..(Stop(n, c) - 1) : i \in 1..Len(nodes[n].keys)
  BY <1>1, StopFits
<1>3. ASSUME NEW i \in 1..(Stop(n, c) - 1)
      PROVE  (IF i \in Hits(n, c) THEN nodes[n].values[i] ELSE <<>>) \in Seq(Rows)
  <2>1. nodes[n].values[i] \in Seq(Rows)
    BY <1>1, <1>2, ElementOfSeq
  <2> QED
    BY <2>1
<1>4. ASSUME NEW h \in Nat, h <= Stop(n, c) - 1
      PROVE  Share(c, n, h) \in [1..h -> Seq(Rows)]
  <2>1. \A i \in 1..h : i \in 1..(Stop(n, c) - 1)
    BY <1>2, <1>4
  <2> QED
    BY <2>1, <1>3 DEF Share
<1>5. j = 0 => FlattenSeq(Share(c, n, j)) = <<>>
  <2> HAVE j = 0
  <2> DEFINE a == Share(c, n, 0)
  <2>1. DOMAIN a = 1..0 /\ a = [i \in 1..0 |-> a[i]]
    BY DEF Share
  <2> HIDE DEF a
  <2>2. FlattenSeq(a) = <<>>
    BY <2>1, FlatOfNone
  <2> QED
    BY <2>2 DEF a
<1>6. ASSUME j + 1 <= Stop(n, c) - 1
      PROVE  /\ FlattenSeq(Share(c, n, j)) \in Seq(Rows)
             /\ FlattenSeq(Share(c, n, j + 1)) = FlattenSeq(Share(c, n, j)) \o Share(c, n, j + 1)[j + 1]
  <2> DEFINE a == Share(c, n, j)
             b == Share(c, n, j + 1)
  <2>1. a \in [1..j -> Seq(Rows)]
    BY <1>4
  <2>2. b \in [1..(j + 1) -> Seq(Rows)]
    BY <1>4, <1>6
  <2>3. \A i \in 1..j : b[i] = a[i]
    <3>1. \A i \in 1..j : i \in 1..(j + 1)
      OBVIOUS
    <3> QED
      BY <3>1 DEF Share
  <2> HIDE DEF a, b
  <2>4. FlattenSeq(a) \in Seq(Rows) /\ FlattenSeq(b) = FlattenSeq(a) \o b[j + 1]
    BY <2>1, <2>2, <2>3, FlatGrows
  <2> QED
    BY <2>4 DEF a, b
<1> QED
  BY <1>4, <1>5, <1>6

\* The first j keys of a leaf add what they contribute to the list.
LEMMA LeafIsListed ==
  ASSUME NEW S, NEW P, NEW N, Indexed(S, P, N), NEW n \in Leaves, NEW c,
         Sorted(Earlier(c, n, S, P)), NEW j \in Nat, j <= Stop(n, c) - 1
  PROVE  /\ Sorted(Upward(c, n, j, S, P))
         /\ Listed(NodeHeld, Upward(c, n, j, S, P)) =
              Listed(NodeHeld, Earlier(c, n, S, P)) \o FlattenSeq(Share(c, n, j))
<1> DEFINE E == Earlier(c, n, S, P)
           U(h) == Upward(c, n, h, S, P)
           keys == nodes[n].keys
           Fine(h) == Sorted(U(h)) /\ Listed(NodeHeld, U(h)) = Listed(NodeHeld, E) \o FlattenSeq(Share(c, n, h))
           G == {h \in Nat : h <= Stop(n, c) - 1 => Fine(h)}
<1>1. /\ ChainOK(Leaves, NodeNext, S, P, N) /\ S[n] \subseteq Int
      /\ keys \in Seq(Int) /\ Ascending(keys)
      /\ \A i \in 1..Len(keys) : keys[i] \in Keys /\ keys[i] \in S[n] /\ NodeHeld[keys[i]] = nodes[n].values[i]
      /\ NodeHeld \in [Keys -> Seq(Rows)]
  BY DEF Indexed
<1>2. /\ Stop(n, c) \in 1..(Len(keys) + 1) /\ Len(keys) \in Nat
      /\ \A i \in 1..(Stop(n, c) - 1) : i \in 1..Len(keys) /\ Below(c, keys[i])
  BY <1>1, StopFits
<1>3. E \subseteq Keys /\ Listed(NodeHeld, E) \in Seq(Rows)
  BY <1>1, ListedRows DEF Sorted
<1>4. 0 \in G
  <2>1. \A k : ~ \E i \in 1..0 : keys[i] = k
    OBVIOUS
  <2>2. U(0) = E
    BY <2>1 DEF Upward
  <2>3. 0 <= Stop(n, c) - 1
    BY <1>2
  <2>4. FlattenSeq(Share(c, n, 0)) = <<>>
    BY <2>3, ShareGrows
  <2>5. Listed(NodeHeld, E) \o <<>> = Listed(NodeHeld, E)
    BY <1>3, ConcatEmptySeq
  <2> HIDE DEF U, E
  <2>6. Sorted(E)
    BY DEF E
  <2> QED
    BY <2>2, <2>4, <2>5, <2>6
<1>5. ASSUME NEW h \in Nat, h \in G
      PROVE  h + 1 \in G
  <2> DEFINE i == h + 1
             k == keys[i]
             flat == FlattenSeq(Share(c, n, h))
  <2> SUFFICES ASSUME i <= Stop(n, c) - 1
               PROVE  Fine(i)
    OBVIOUS
  <2>0. i \in Nat /\ i \in 1..(Stop(n, c) - 1) /\ h <= Stop(n, c) - 1
    BY <1>2
  <2>1. i \in 1..Len(keys) /\ Below(c, k) /\ k \in Keys /\ k \in S[n] /\ NodeHeld[k] = nodes[n].values[i]
    BY <2>0, <1>1, <1>2
  <2>2. Fine(h)
    BY <2>0, <1>5
  <2>3. flat \in Seq(Rows) /\ FlattenSeq(Share(c, n, i)) = flat \o Share(c, n, i)[i]
    BY <2>0, ShareGrows
  <2>4. Share(c, n, i)[i] = IF i \in Hits(n, c) THEN nodes[n].values[i] ELSE <<>>
    <3>1. i \in 1..i
      BY <2>0
    <3> QED
      BY <3>1 DEF Share
  <2>5. i \in Hits(n, c) <=> Above(c, k)
    BY <2>0 DEF Hits
  <2>6. U(i) = U(h) \cup ({k} \cap Wanted(c))
    <3>1. \A x : (\E a \in 1..i : keys[a] = x) <=> (\E a \in 1..h : keys[a] = x) \/ x = k
      <4>1. \A a : a \in 1..i <=> a \in 1..h \/ a = i
        OBVIOUS
      <4> QED
        BY <4>1
    <3> HIDE DEF keys, k, i
    <3> QED
      BY <3>1 DEF Upward, keys
  <2>7. \A x \in U(h) : x < k
    <3> TAKE x \in U(h)
    <3>1. CASE x \in E
      <4>1. PICK m \in Leaves : P[m] < P[n] /\ x \in S[m]
        BY <3>1 DEF Earlier
      <4> QED
        BY <4>1, <2>1, <1>1 DEF ChainOK
    <3>2. CASE \E a \in 1..h : keys[a] = x
      <4>1. PICK a \in 1..h : keys[a] = x
        BY <3>2
      <4>2. a \in 1..Len(keys) /\ a < i
        BY <4>1, <2>1, <1>2
      <4> QED
        BY <4>1, <4>2, <2>1, <1>1 DEF Ascending
    <3> QED
      BY <3>1, <3>2 DEF Upward
  <2>8. CASE k \in Wanted(c)
    <3>1. U(i) = U(h) \cup {k}
      BY <2>6, <2>8
    <3>2. Share(c, n, i)[i] = NodeHeld[k]
      BY <2>1, <2>4, <2>5, <2>8 DEF Wanted
    <3> DEFINE u == U(h)
               v == U(i)
               r == Listed(NodeHeld, E)
               new == NodeHeld[k]
    <3>3. Sorted(u) /\ Listed(NodeHeld, u) = r \o flat /\ v = u \cup {k} /\ \A x \in u : x < k
      BY <2>2, <2>7, <3>1
    <3>4. new \in Seq(Rows) /\ r \in Seq(Rows) /\ flat \in Seq(Rows)
      BY <1>1, <1>3, <2>1, <2>3
    <3>5. FlattenSeq(Share(c, n, i)) = flat \o new
      BY <2>3, <3>2
    <3>6. Sorted(u \cup {k}) /\ Listed(NodeHeld, u \cup {k}) = Listed(NodeHeld, u) \o new
      <4> DEFINE map == NodeHeld
                 key == k
      <4>1. map \in [Keys -> Seq(Rows)] /\ key \in Keys /\ Sorted(u) /\ \A x \in u : x < key
        BY <3>3, <1>1, <2>1
      <4> HIDE DEF map, key, u
      <4>2. Sorted(u \cup {key}) /\ Listed(map, u \cup {key}) = Listed(map, u) \o map[key]
        BY <4>1, ListGrows
      <4> QED
        BY <4>2 DEF map, key
    <3> HIDE DEF u, v, r, new, flat
    <3>7. (r \o flat) \o new = r \o (flat \o new)
      BY <3>4, ConcatAssociative
    <3>8. Sorted(v) /\ Listed(NodeHeld, v) = r \o FlattenSeq(Share(c, n, i))
      BY <3>3, <3>5, <3>6, <3>7
    <3> QED
      BY <3>8 DEF v, r
  <2>9. CASE k \notin Wanted(c)
    <3>1. U(i) = U(h)
      BY <2>6, <2>9
    <3>2. Share(c, n, i)[i] = <<>>
      BY <2>1, <2>4, <2>5, <2>9 DEF Wanted
    <3>3. flat \o <<>> = flat
      BY <2>3, ConcatEmptySeq
    <3>4. FlattenSeq(Share(c, n, i)) = flat
      BY <2>3, <3>2, <3>3
    <3> HIDE DEF U, E, i
    <3> QED
      BY <3>1, <3>4, <2>2
  <2> QED
    BY <2>8, <2>9
<1> HIDE DEF G
<1>6. j \in G
  <2>1. \A h \in Nat : h \in G
    BY <1>4, <1>5, AllNats
  <2> QED
    BY <2>1
<1> QED
  BY <1>6 DEF G

LEMMA LeafEnds ==
  ASSUME NEW S, NEW P, NEW N, Indexed(S, P, N), NEW n \in Leaves, NEW c, Condition(c),
         c.point => c.lo \in S[n], Ends(n, c)
  PROVE  Upward(c, n, Stop(n, c) - 1, S, P) = Wanted(c)
<1> DEFINE keys == nodes[n].keys
           j == Stop(n, c)
<1>1. /\ ChainOK(Leaves, NodeNext, S, P, N) /\ S[n] \subseteq Int
      /\ keys \in Seq(Int) /\ Ascending(keys)
      /\ \A i \in 1..Len(keys) : keys[i] \in Keys /\ keys[i] \in S[n]
  BY DEF Indexed
<1>2. /\ j \in 1..(Len(keys) + 1) /\ Len(keys) \in Nat
      /\ j <= Len(keys) => ~Below(c, keys[j])
  BY <1>1, StopFits
<1>3. /\ N \in Nat /\ P \in [Leaves -> 1..N]
      /\ \A l, m \in Leaves : P[l] = P[m] => l = m
      /\ \A l, m \in Leaves : P[l] < P[m] => \A x \in S[l], y \in S[m] : x < y
      /\ IF P[n] = N THEN NodeNext[n] = Nil ELSE NodeNext[n] \in Leaves
  BY <1>1 DEF ChainOK
<1>4. ASSUME NEW k \in Wanted(c)
      PROVE  k \in Upward(c, n, j - 1, S, P)
  <2>1. k \in Keys /\ k \in Int /\ Above(c, k) /\ Below(c, k) /\ NodeHeld[k] # <<>>
    BY KeysAssumption DEF Wanted
  <2>2. PICK m \in Leaves : \E i \in 1..Len(nodes[m].keys) : nodes[m].keys[i] = k
    BY <2>1 DEF Indexed
  <2>3. k \in S[m] /\ P[m] \in Nat /\ P[n] \in Nat /\ P[m] <= N
    BY <2>2, <1>3 DEF Indexed
  <2>4. CASE P[m] < P[n]
    BY <2>3, <2>4 DEF Upward, Earlier
  <2>5. CASE P[m] = P[n]
    <3>1. m = n
      BY <2>5, <1>3
    <3>2. PICK i \in 1..Len(keys) : keys[i] = k
      BY <2>2, <3>1
    <3>3. ASSUME j <= i
          PROVE  FALSE
      <4>1. j \in 1..Len(keys) /\ j <= Len(keys)
        BY <3>3, <1>2
      <4>2. keys[j] \in Int /\ keys[j] <= k
        <5>1. keys[j] \in Int
          BY <4>1, <1>1, ElementOfSeq
        <5>2. CASE j = i
          BY <5>1, <5>2, <3>2
        <5>3. CASE j < i
          <6>1. keys[j] < keys[i]
            BY <5>3, <4>1, <1>1 DEF Ascending
          <6> QED
            BY <6>1, <5>1, <3>2, <2>1
        <5> QED
          BY <5>2, <5>3, <3>3, <4>1
      <4>3. Below(c, keys[j])
        <5> DEFINE a == keys[j]
        <5>1. a \in Int /\ a <= k
          BY <4>2
        <5> HIDE DEF a
        <5>2. Below(c, a)
          BY <5>1, <2>1, BelowGoesDown
        <5> QED
          BY <5>2 DEF a
      <4> QED
        BY <4>1, <4>3, <1>2
    <3>4. i \in 1..(j - 1)
      BY <3>3, <1>2
    <3> HIDE DEF j
    <3> QED
      BY <3>2, <3>4 DEF Upward
  <2>6. CASE P[n] < P[m]
    <3>1. CASE c.point
      <4>1. c.lo \in Int /\ c.lo < k /\ c.hi = c.lo /\ c.lo # Nil
        BY <2>3, <2>6, <3>1, <1>1, <1>3 DEF Condition
      <4> QED
        BY <4>1, <2>1 DEF Below
    <3>2. CASE j <= Len(keys)
      <4>1. j \in 1..Len(keys)
        BY <3>2, <1>2
      <4>2. keys[j] \in Int /\ keys[j] < k
        BY <4>1, <2>3, <2>6, <1>1, <1>3
      <4>3. Below(c, keys[j])
        <5> DEFINE a == keys[j]
        <5>1. a \in Int /\ a <= k
          BY <4>2, <2>1
        <5> HIDE DEF a
        <5>2. Below(c, a)
          BY <5>1, <2>1, BelowGoesDown
        <5> QED
          BY <5>2 DEF a
      <4> QED
        BY <4>3, <3>2, <1>2
    <3>3. CASE nodes[n].next = Nil
      <4>1. NodeNext[n] = Nil
        BY <3>3 DEF NodeNext, Leaves
      <4>2. P[n] # N
        BY <2>3, <2>6
      <4>3. Nil \in Leaves
        BY <4>1, <4>2, <1>3
      <4> QED
        BY <4>3, NilAssumption DEF Indexed
    <3> QED
      BY <3>1, <3>2, <3>3 DEF Ends
  <2> QED
    BY <2>3, <2>4, <2>5, <2>6
<1> HIDE DEF j
<1> QED
  BY <1>4 DEF Upward, Earlier, j

LEMMA LeafGoesOn ==
  ASSUME NEW S, NEW P, NEW N, Indexed(S, P, N), NEW n \in Leaves, NEW c, Condition(c), ~Ends(n, c)
  PROVE  /\ nodes[n].next \in Leaves
         /\ Upward(c, n, Stop(n, c) - 1, S, P) = Earlier(c, nodes[n].next, S, P)
<1> DEFINE keys == nodes[n].keys
           j == Stop(n, c)
           x == nodes[n].next
<1>1. /\ ChainOK(Leaves, NodeNext, S, P, N) /\ keys \in Seq(Int)
  BY DEF Indexed
<1>2. j = Len(keys) + 1 /\ x # Nil /\ Len(keys) \in Nat
  <2>1. j \in 1..(Len(keys) + 1) /\ Len(keys) \in Nat
    BY <1>1, StopFits
  <2> HIDE DEF j
  <2> QED
    BY <2>1 DEF Ends, j
<1>3. /\ N \in Nat /\ P \in [Leaves -> 1..N]
      /\ \A l, m \in Leaves : P[l] = P[m] => l = m
      /\ \A l, m \in Leaves : P[l] < P[m] => \A y \in S[l], z \in S[m] : y < z
      /\ IF P[n] = N THEN NodeNext[n] = Nil ELSE NodeNext[n] \in Leaves /\ P[NodeNext[n]] = P[n] + 1
  BY <1>1 DEF ChainOK
<1>4. NodeNext[n] = x
  BY DEF NodeNext, Leaves
<1> HIDE DEF x, j
<1>5. x \in Leaves /\ P[x] = P[n] + 1
  BY <1>2, <1>3, <1>4
<1>6. \A m \in Leaves : P[m] \in Nat /\ (P[m] < P[x] <=> P[m] < P[n] \/ m = n)
  BY <1>3, <1>5
<1>7. ASSUME NEW k \in Wanted(c)
      PROVE  k \in S[n] <=> \E i \in 1..Len(keys) : keys[i] = k
  <2>1. k \in Keys /\ k \in Int /\ NodeHeld[k] # <<>>
    BY KeysAssumption DEF Wanted
  <2>2. PICK m \in Leaves : \E i \in 1..Len(nodes[m].keys) : nodes[m].keys[i] = k
    BY <2>1 DEF Indexed
  <2>3. k \in S[m]
    BY <2>2 DEF Indexed
  <2>4. ASSUME k \in S[n]
        PROVE  \E i \in 1..Len(keys) : keys[i] = k
    <3>1. P[m] \in Nat /\ P[n] \in Nat /\ ~(P[m] < P[n]) /\ ~(P[n] < P[m])
      BY <2>1, <2>3, <2>4, <1>3
    <3>2. m = n
      BY <3>1, <1>3
    <3> QED
      BY <2>2, <3>2
  <2>5. (\E i \in 1..Len(keys) : keys[i] = k) => k \in S[n]
    BY DEF Indexed
  <2> QED
    BY <2>4, <2>5
<1>8. j - 1 = Len(keys)
  BY <1>2
<1>9. ASSUME NEW k \in Wanted(c)
      PROVE  k \in Upward(c, n, j - 1, S, P) <=> k \in Earlier(c, x, S, P)
  <2>1. k \in Earlier(c, x, S, P) <=> k \in Earlier(c, n, S, P) \/ k \in S[n]
    BY <1>6 DEF Earlier
  <2>2. k \in Upward(c, n, j - 1, S, P) <=> k \in Earlier(c, n, S, P) \/ \E i \in 1..Len(keys) : keys[i] = k
    BY <1>8 DEF Upward, Earlier
  <2> QED
    BY <2>1, <2>2, <1>7
<1>10. Upward(c, n, j - 1, S, P) = Earlier(c, x, S, P)
  <2>1. Upward(c, n, j - 1, S, P) \subseteq Wanted(c) /\ Earlier(c, x, S, P) \subseteq Wanted(c)
    BY DEF Upward, Earlier
  <2> QED
    BY <2>1, <1>9
<1> QED
  BY <1>5, <1>10 DEF x, j

\* The leaf, or the part of the tree, where the keys that condition c asks for begin.
Starts(c, T) == IF c.lo = Nil THEN \E y \in Int : \A z \in Int : z <= y => z \in T ELSE c.lo \in T

LEMMA NothingEarlier ==
  ASSUME NEW S, NEW P, NEW N, Indexed(S, P, N), NEW n \in Leaves, NEW c, Condition(c), Starts(c, S[n])
  PROVE  Earlier(c, n, S, P) = {}
<1> SUFFICES ASSUME NEW k \in Earlier(c, n, S, P)
             PROVE  FALSE
  OBVIOUS
<1>1. k \in Int /\ Above(c, k)
  BY KeysAssumption DEF Earlier, Wanted
<1>2. PICK m \in Leaves : P[m] < P[n] /\ k \in S[m]
  BY DEF Earlier
<1>3. \A y \in S[n] : k < y
  BY <1>2 DEF Indexed, ChainOK
<1>4. CASE c.lo = Nil
  <2>1. PICK y \in Int : \A z \in Int : z <= y => z \in S[n]
    BY <1>4 DEF Starts
  <2>2. CASE k <= y
    <3>1. k \in S[n]
      BY <2>1, <2>2, <1>1
    <3> QED
      BY <3>1, <1>1, <1>3
  <2>3. CASE y < k
    <3>1. y \in S[n]
      BY <2>1
    <3> QED
      BY <3>1, <2>3, <1>1, <1>3
  <2> QED
    BY <2>2, <2>3, <1>1
<1>5. CASE c.lo # Nil
  <2>1. c.lo \in Int /\ k < c.lo
    BY <1>3, <1>5 DEF Starts, Condition
  <2> QED
    BY <2>1, <1>1, <1>5 DEF Above
<1> QED
  BY <1>4, <1>5

LEMMA RootStarts ==
  ASSUME NEW L, NEW S, NEW P, NEW N, Resting(L, S, P, N), NEW c, Condition(c)
  PROVE  root \in DOMAIN nodes /\ Starts(c, S[root])
<1>1. root \in DOMAIN nodes /\ DOMAIN nodes = 1..Len(nodes) /\ Len(nodes) \in Nat
  BY RestingNodes
<1>2. Whole(S, 0, 0, root) = Int
  BY DEF Resting, Shape, TreeOK, Divided
<1>3. S[root] = Int
  BY <1>1, <1>2 DEF Whole
<1>4. 0 \in Int /\ \A z \in Int : z <= 0 => z \in S[root]
  BY <1>3
<1> QED
  BY <1>1, <1>3, <1>4 DEF Starts, Condition

LEMMA DownStarts ==
  ASSUME NEW L, NEW S, NEW P, NEW N, Resting(L, S, P, N), NEW c, Condition(c),
         NEW n \in DOMAIN nodes, ~nodes[n].leaf, Starts(c, S[n]),
         NEW i, i = IF c.lo = Nil THEN 1 ELSE ChildIndex(n, c.lo)
  PROVE  Child(n, i) # Nil /\ Child(n, i) \in DOMAIN nodes /\ Starts(c, S[Child(n, i)])
<1> DEFINE keys == nodes[n].keys
           cs == nodes[n].children
<1>1. /\ DOMAIN nodes = 1..Len(nodes) /\ Len(nodes) \in Nat
      /\ L[n] > 0 /\ keys \in Seq(Int) /\ Len(keys) \in Nat /\ Len(keys) > 0 /\ Len(cs) = Len(keys) + 1
      /\ DOMAIN cs = 1..Len(cs) /\ \A a \in DOMAIN cs : cs[a] \in DOMAIN nodes
      /\ S \in [DOMAIN nodes -> SUBSET Int]
  <2>1. L[n] > 0
    BY RestingNodes
  <2> QED
    BY <2>1, RestingNodes, LenProperties
<1>2. i \in 1..Len(cs) /\ (c.lo = Nil => i = 1) /\ (c.lo # Nil => InPart(keys, i, c.lo))
  <2>1. CASE c.lo = Nil
    BY <2>1, <1>1
  <2>2. CASE c.lo # Nil
    <3>1. c.lo \in Int
      BY <2>2 DEF Condition
    <3>2. ChildIndex(n, c.lo) \in 1..(Len(keys) + 1) /\ InPart(keys, ChildIndex(n, c.lo), c.lo)
      <4> DEFINE lo == c.lo
      <4>1. lo \in Int
        BY <3>1
      <4> HIDE DEF lo
      <4>2. ChildIndex(n, lo) \in 1..(Len(keys) + 1) /\ InPart(keys, ChildIndex(n, lo), lo)
        BY <4>1, <1>1, ChildIndexFits
      <4> QED
        BY <4>2 DEF lo
    <3>3. i = ChildIndex(n, c.lo)
      BY <2>2
    <3> QED
      BY <2>2, <3>2, <3>3, <1>1
  <2> QED
    BY <2>1, <2>2
<1> DEFINE d == cs[i]
<1>3. Child(n, i) = d /\ d \in DOMAIN nodes
  BY <1>1, <1>2 DEF Child
<1>4. d # Nil /\ d # 0
  BY <1>1, <1>3, NilAssumption
<1>5. S[d] = {x \in S[n] : InPart(keys, i, x)}
  <2>1. Divided(DOMAIN nodes, root, NodeKeys, NodeChildren, L, S, 0, 0)
    BY DEF Resting, Shape, TreeOK
  <2>2. NodeKeys[n] = keys /\ NodeChildren[n] = cs
    BY DEF NodeKeys, NodeChildren
  <2>3. Whole(S, 0, 0, d) = {x \in S[n] : InPart(keys, i, x)}
    <3>1. \A a \in 1..Len(NodeChildren[n]) :
            Whole(S, 0, 0, NodeChildren[n][a]) = {x \in S[n] : InPart(NodeKeys[n], a, x)}
      BY <2>1, <1>1 DEF Divided
    <3> QED
      BY <3>1, <2>2, <1>2
  <2> HIDE DEF d
  <2> QED
    BY <2>3, <1>4 DEF Whole
<1>6. Starts(c, S[d])
  <2>1. CASE c.lo = Nil
    <3>1. PICK y \in Int : \A z \in Int : z <= y => z \in S[n]
      BY <2>1 DEF Starts
    <3>2. keys[1] \in Int
      BY <1>1, ElementOfSeq
    <3>3. PICK u \in Int : u <= y /\ u < keys[1]
      <4>1. CASE y < keys[1]
        BY <4>1
      <4>2. CASE ~(y < keys[1])
        <5>1. keys[1] - 1 \in Int /\ keys[1] - 1 <= y /\ keys[1] - 1 < keys[1]
          BY <4>2, <3>2
        <5> QED
          BY <5>1
      <4> QED
        BY <4>1, <4>2
    <3>4. ASSUME NEW z \in Int, z <= u
          PROVE  z \in S[d]
      <4>1. z <= y /\ z < keys[1]
        BY <3>2, <3>3, <3>4
      <4>2. InPart(keys, 1, z)
        BY <4>1 DEF InPart
      <4> QED
        BY <4>1, <4>2, <3>1, <1>2, <1>5, <2>1
    <3> HIDE DEF d
    <3> QED
      BY <3>4, <2>1 DEF Starts
  <2>2. CASE c.lo # Nil
    <3>1. c.lo \in S[n]
      BY <2>2 DEF Starts
    <3> HIDE DEF d
    <3> QED
      BY <3>1, <2>2, <1>2, <1>5 DEF Starts
  <2> QED
    BY <2>1, <2>2
<1> HIDE DEF d
<1> QED
  BY <1>3, <1>4, <1>6

\* Where reader r has come to in an index that nobody changes.
ReaderOK(x, S, P) ==
  /\ x.pc \in {"down", "scan", "done"} /\ x.cond \in Lookups
  /\ x.pc = "down" => x.node \in DOMAIN nodes /\ x.out = <<>> /\ Starts(x.cond, S[x.node])
  /\ x.pc = "scan" => /\ x.node \in Leaves /\ Sorted(Earlier(x.cond, x.node, S, P))
                      /\ x.out = Listed(NodeHeld, Earlier(x.cond, x.node, S, P))
                      /\ x.cond.point => x.cond.lo \in S[x.node]
  /\ x.pc = "done" => x.out = Listed(NodeHeld, Wanted(x.cond))

IsReader(x) ==
  x = Idle \/ x = [pc |-> x.pc, cond |-> x.cond, node |-> x.node, out |-> x.out, quiet |-> x.quiet]

Quiet(r) == rd[r] # Idle /\ rd[r].quiet

ReaderInv(w) ==
  /\ rd = [r \in Readers |-> rd[r]] /\ \A r \in Readers : IsReader(rd[r])
  /\ \A r \in Readers : Quiet(r) =>
       /\ op[w].pc \in Untouched
       /\ \E L, S, P, N : Resting(L, S, P, N) /\ ReaderOK(rd[r], S, P)

\* As long as the nodes stay what they are so is their map.
LEMMA SameNodes ==
  ASSUME UNCHANGED <<nodes, root>>
  PROVE  /\ Leaves' = Leaves /\ NodeHeld' = NodeHeld /\ DOMAIN nodes' = DOMAIN nodes
         /\ \A L, S, P, N : Resting(L, S, P, N)' <=> Resting(L, S, P, N)
<1>1. \A L, S, P, N : Resting(L, S, P, N)' <=> Resting(L, S, P, N)
  BY DEF Resting, NodeKeys, NodeValues, NodeChildren, NodeNext, TreeLeaf
<1>2. Leaves' = Leaves /\ DOMAIN nodes' = DOMAIN nodes
  BY DEF Leaves
<1> DEFINE A(k) == IF NodeUnder(k) = {} THEN <<>> ELSE CHOOSE v \in NodeUnder(k) : TRUE
           B(k) == IF NodeUnder(k)' = {} THEN <<>> ELSE CHOOSE v \in NodeUnder(k)' : TRUE
<1>3. ASSUME NEW k
      PROVE  A(k) = B(k)
  <2>1. NodeUnder(k)' = NodeUnder(k)
    BY <1>2 DEF NodeUnder
  <2> QED
    BY <2>1
<1>4. NodeHeld = [k \in Keys |-> A(k)] /\ NodeHeld' = [k \in Keys |-> B(k)]
  BY DEF NodeHeld
<1> HIDE DEF A, B
<1>5. NodeHeld' = NodeHeld
  BY <1>3, <1>4
<1> QED
  BY <1>1, <1>2, <1>5

\* A reader that has come to x.
LEMMA ReaderComes ==
  ASSUME UNCHANGED <<nodes, root>>, NEW r, NEW x, rd'[r] = x, NEW S, NEW P, ReaderOK(x, S, P)
  PROVE  ReaderOK(rd[r], S, P)'
<1>1. Leaves' = Leaves /\ NodeHeld' = NodeHeld /\ DOMAIN nodes' = DOMAIN nodes
  BY SameNodes
<1> QED
  BY <1>1 DEF ReaderOK, Earlier, Wanted

\* A step that changes nothing a reader sees.
LEMMA UnseenStep ==
  ASSUME NEW w, ReaderInv(w), UNCHANGED <<nodes, root, rd>>,
         op[w].pc \in Untouched => op'[w].pc \in Untouched
  PROVE  ReaderInv(w)'
<1>1. ASSUME NEW r \in Readers, Quiet(r)'
      PROVE  /\ op'[w].pc \in Untouched
             /\ \E L, S, P, N : Resting(L, S, P, N)' /\ ReaderOK(rd[r], S, P)'
  <2>1. Quiet(r)
    BY <1>1 DEF Quiet
  <2>2. op[w].pc \in Untouched
    BY <2>1 DEF ReaderInv
  <2>3. PICK L, S, P, N : Resting(L, S, P, N) /\ ReaderOK(rd[r], S, P)
    BY <2>1 DEF ReaderInv
  <2> DEFINE x == rd[r]
  <2>4. rd'[r] = x /\ ReaderOK(x, S, P)
    BY <2>3
  <2> HIDE DEF x
  <2>5. Resting(L, S, P, N)'
    BY <2>3, SameNodes
  <2>6. ReaderOK(rd[r], S, P)'
    BY <2>4, ReaderComes
  <2> QED
    BY <2>2, <2>5, <2>6
<1>2. rd' = [r \in Readers |-> rd'[r]] /\ \A r \in Readers : IsReader(rd'[r])
  BY DEF ReaderInv
<1> QED
  BY <1>1, <1>2 DEF ReaderInv

\* A step of reader r.
LEMMA ReaderMoves ==
  ASSUME NEW w, ReaderInv(w), UNCHANGED <<nodes, root, op>>, NEW r \in Readers,
         NEW y, IsReader(y), rd' = [rd EXCEPT ![r] = y],
         y # Idle /\ y.quiet =>
           op[w].pc \in Untouched /\ \E L, S, P, N : Resting(L, S, P, N) /\ ReaderOK(y, S, P)
  PROVE  ReaderInv(w)'
<1>1. /\ rd' = [q \in Readers |-> rd'[q]] /\ rd'[r] = y /\ \A q \in Readers : q # r => rd'[q] = rd[q]
      /\ \A q \in Readers : IsReader(rd'[q])
  BY DEF ReaderInv
<1>2. ASSUME NEW q \in Readers, Quiet(q)'
      PROVE  /\ op'[w].pc \in Untouched
             /\ \E L, S, P, N : Resting(L, S, P, N)' /\ ReaderOK(rd[q], S, P)'
  <2> DEFINE x == rd'[q]
  <2>1. op[w].pc \in Untouched /\ \E L, S, P, N : Resting(L, S, P, N) /\ ReaderOK(x, S, P)
    <3>1. CASE q = r
      <4>1. y # Idle /\ y.quiet
        BY <3>1, <1>1, <1>2 DEF Quiet
      <4>2. x = y
        BY <3>1, <1>1
      <4> HIDE DEF x
      <4> QED
        BY <4>1, <4>2
    <3>2. CASE q # r
      <4>1. x = rd[q]
        BY <3>2, <1>1
      <4>2. Quiet(q)
        BY <4>1, <1>2 DEF Quiet
      <4>3. op[w].pc \in Untouched /\ \E L, S, P, N : Resting(L, S, P, N) /\ ReaderOK(rd[q], S, P)
        BY <4>2 DEF ReaderInv
      <4> HIDE DEF x
      <4> QED
        BY <4>1, <4>3
    <3> QED
      BY <3>1, <3>2
  <2>2. PICK L, S, P, N : Resting(L, S, P, N) /\ ReaderOK(x, S, P)
    BY <2>1
  <2>3. rd'[q] = x
    OBVIOUS
  <2> HIDE DEF x
  <2>4. ReaderOK(rd[q], S, P)'
    BY <2>2, <2>3, ReaderComes
  <2>5. Resting(L, S, P, N)'
    BY <2>2, SameNodes
  <2> QED
    BY <2>1, <2>4, <2>5
<1> QED
  BY <1>1, <1>2 DEF ReaderInv

\* A reader's record, whatever its fields.
ReaderAt(pc, cond, node, out, quiet) ==
  [pc |-> pc, cond |-> cond, node |-> node, out |-> out, quiet |-> quiet]

Moved(x, pc, node, out) == [x EXCEPT !.out = out, !.pc = pc, !.node = node]

LEMMA ReaderFields ==
  ASSUME NEW pc, NEW c, NEW node, NEW out, NEW q, NEW y, y = ReaderAt(pc, c, node, out, q)
  PROVE  IsReader(y) /\ y.pc = pc /\ y.node = node /\ y.out = out /\ y.cond = c /\ y.quiet = q
<1>1. y.pc = pc /\ y.node = node /\ y.out = out /\ y.cond = c /\ y.quiet = q
  BY DEF ReaderAt
<1>2. y = ReaderAt(y.pc, y.cond, y.node, y.out, y.quiet)
  BY <1>1
<1> QED
  BY <1>1, <1>2 DEF IsReader, ReaderAt

LEMMA FieldsChange ==
  ASSUME NEW x, x # Idle, IsReader(x), NEW pc, NEW node, NEW out
  PROVE  /\ [x EXCEPT !.pc = pc] = ReaderAt(pc, x.cond, x.node, x.out, x.quiet)
         /\ [x EXCEPT !.node = node] = ReaderAt(x.pc, x.cond, node, x.out, x.quiet)
         /\ Moved(x, pc, node, out) = ReaderAt(pc, x.cond, node, out, x.quiet)
<1> DEFINE a == x.pc
           b == x.node
           d == x.out
           c == x.cond
           q == x.quiet
<1>1. x = [pc |-> a, cond |-> c, node |-> b, out |-> d, quiet |-> q]
  BY DEF IsReader
<1> HIDE DEF a, b, c, d, q
<1>2. [x EXCEPT !.pc = pc] = ReaderAt(pc, c, b, d, q)
  BY <1>1 DEF ReaderAt
<1>3. [x EXCEPT !.node = node] = ReaderAt(a, c, node, d, q)
  BY <1>1 DEF ReaderAt
<1>4. Moved(x, pc, node, out) = ReaderAt(pc, c, node, out, q)
  <2> DEFINE y == [x EXCEPT !.out = out]
             z == [y EXCEPT !.pc = pc]
             u == [x EXCEPT !.out = out, !.pc = pc, !.node = node]
  <2>1. y = [pc |-> a, cond |-> c, node |-> b, out |-> out, quiet |-> q]
    BY <1>1
  <2>2. u = [z EXCEPT !.node = node]
    OBVIOUS
  <2>3. z = [pc |-> pc, cond |-> c, node |-> b, out |-> out, quiet |-> q]
    <3> HIDE DEF y
    <3> QED
      BY <2>1
  <2> HIDE DEF y, z, u
  <2>4. u = [pc |-> pc, cond |-> c, node |-> node, out |-> out, quiet |-> q]
    BY <2>2, <2>3
  <2> QED
    BY <2>4 DEF u, Moved, ReaderAt
<1> QED
  BY <1>2, <1>3, <1>4 DEF a, b, c, d, q

\* A condition that is looked up has bounds that are numbers or none.
LEMMA LookupsAreConditions ==
  \A c \in Lookups : Condition(c)
<1> TAKE c \in Lookups
<1>1. c.lo \in Int \cup {Nil} /\ c.hi \in Int \cup {Nil} /\ (c.point => c.lo # Nil /\ c.hi = c.lo)
  BY LookupsAssumption
<1> QED
  BY <1>1 DEF Condition

LEMMA CallSearchKeeps ==
  ASSUME NEW w, Writers = {w}, TreeInv(w), ReaderInv(w), NEW r \in Readers, NEW c \in Lookups, CallSearch(r, c)
  PROVE  ReaderInv(w)'
<1> DEFINE rest == \A v \in Writers : op[v] = Idle
           y == [pc |-> "down", cond |-> c, node |-> root, out |-> <<>>, quiet |-> rest]
<1>1. rd' = [rd EXCEPT ![r] = y] /\ UNCHANGED <<nodes, root, op>>
  BY DEF CallSearch
<1>2. IsReader(y) /\ y.pc = "down" /\ y.cond = c /\ y.node = root /\ y.out = <<>>
  BY DEF IsReader
<1>3. y.quiet <=> rest
  OBVIOUS
<1>4. ASSUME rest
      PROVE  op[w].pc \in Untouched /\ \E L, S, P, N : Resting(L, S, P, N) /\ ReaderOK(y, S, P)
  <2>1. AtRest
    BY <1>4 DEF AtRest
  <2>2. PICK L, S, P, N : Resting(L, S, P, N)
    BY <2>1, RestingTree
  <2>3. Condition(c)
    BY LookupsAreConditions
  <2>4. root \in DOMAIN nodes /\ Starts(c, S[root])
    BY <2>2, <2>3, RootStarts
  <2> HIDE DEF y
  <2>5. ReaderOK(y, S, P)
    BY <1>2, <2>4 DEF ReaderOK
  <2>6. op[w].pc \in Untouched
    BY <2>1 DEF AtRest, Idle, Untouched
  <2> QED
    BY <2>2, <2>5, <2>6
<1> HIDE DEF y, rest
<1> QED
  BY <1>1, <1>2, <1>3, <1>4, ReaderMoves

LEMMA DescendKeeps ==
  ASSUME NEW w, Writers = {w}, TreeInv(w), ReaderInv(w), NEW r \in Readers, Descend(r)
  PROVE  ReaderInv(w)'
<1> DEFINE x == rd[r]
           c == x.cond
           n == x.node
           i == IF c.lo = Nil THEN 1 ELSE ChildIndex(n, c.lo)
           child == Child(n, i)
           pc == IF nodes[n].leaf THEN "scan" ELSE IF child = Nil THEN "error" ELSE "down"
           next == IF ~nodes[n].leaf /\ child # Nil THEN child ELSE n
           y == ReaderAt(pc, c, next, x.out, x.quiet)
<1>1. x.pc = "down" /\ x # Idle /\ IsReader(x) /\ UNCHANGED <<nodes, root, op>>
  BY DEF Descend, Idle, ReaderInv
<1>2. rd' = [rd EXCEPT ![r] = y]
  <2>1. [x EXCEPT !.pc = "scan"] = ReaderAt("scan", c, n, x.out, x.quiet)
    BY <1>1, FieldsChange
  <2>2. [x EXCEPT !.pc = "error"] = ReaderAt("error", c, n, x.out, x.quiet)
    BY <1>1, FieldsChange
  <2>3. [x EXCEPT !.node = child] = ReaderAt("down", c, child, x.out, x.quiet)
    <3> DEFINE there == child
               z == x
    <3>1. z.pc = "down" /\ z # Idle /\ IsReader(z)
      BY <1>1
    <3> HIDE DEF there, z
    <3>2. [z EXCEPT !.node = there] = ReaderAt(z.pc, z.cond, there, z.out, z.quiet)
      BY <3>1, FieldsChange
    <3>3. [z EXCEPT !.node = there] = ReaderAt("down", z.cond, there, z.out, z.quiet)
      BY <3>1, <3>2
    <3> QED
      BY <3>3 DEF z, there
  <2>4. CASE nodes[n].leaf
    <3>1. rd' = [rd EXCEPT ![r] = [x EXCEPT !.pc = "scan"]]
      BY <2>4 DEF Descend
    <3>2. y = ReaderAt("scan", c, n, x.out, x.quiet)
      BY <2>4
    <3> QED
      BY <3>1, <3>2, <2>1
  <2>5. CASE ~nodes[n].leaf /\ child = Nil
    <3>1. rd' = [rd EXCEPT ![r] = [x EXCEPT !.pc = "error"]]
      BY <2>5 DEF Descend, Fail
    <3>2. y = ReaderAt("error", c, n, x.out, x.quiet)
      BY <2>5
    <3> QED
      BY <3>1, <3>2, <2>2
  <2>6. CASE ~nodes[n].leaf /\ child # Nil
    <3>1. rd' = [rd EXCEPT ![r] = [x EXCEPT !.node = child]]
      BY <2>6 DEF Descend
    <3>2. y = ReaderAt("down", c, child, x.out, x.quiet)
      BY <2>6
    <3> QED
      BY <3>1, <3>2, <2>3
  <2> QED
    BY <2>4, <2>5, <2>6
<1> HIDE DEF x
<1>3. IsReader(y) /\ y.pc = pc /\ y.node = next /\ y.out = x.out /\ y.cond = c /\ y.quiet = x.quiet
  <2> DEFINE next2 == next
             pc2 == pc
             c2 == c
             z == ReaderAt(pc2, c2, next2, x.out, x.quiet)
  <2>1. y = z
    OBVIOUS
  <2> HIDE DEF next2, pc2, c2
  <2>2. IsReader(z) /\ z.pc = pc2 /\ z.node = next2 /\ z.out = x.out /\ z.cond = c2 /\ z.quiet = x.quiet
    BY ReaderFields
  <2> HIDE DEF y, z
  <2> QED
    BY <2>1, <2>2 DEF next2, pc2, c2
<1>4. ASSUME x.quiet
      PROVE  op[w].pc \in Untouched /\ \E L, S, P, N : Resting(L, S, P, N) /\ ReaderOK(y, S, P)
  <2>1. Quiet(r)
    BY <1>1, <1>4 DEF Quiet, x
  <2>2. op[w].pc \in Untouched
    BY <2>1 DEF ReaderInv
  <2>3. PICK L, S, P, N : Resting(L, S, P, N) /\ ReaderOK(x, S, P)
    BY <2>1 DEF ReaderInv, x
  <2>4. n \in DOMAIN nodes /\ x.out = <<>> /\ c \in Lookups /\ Condition(c) /\ Starts(c, S[n])
    BY <1>1, <2>3, LookupsAreConditions DEF ReaderOK
  <2>5. Indexed(S, P, N)
    BY <2>2, <2>3, QuietIndex
  <2>6. CASE nodes[n].leaf
    <3>1. pc = "scan" /\ next = n /\ n \in Leaves
      BY <2>4, <2>6 DEF Leaves
    <3> HIDE DEF pc, next, y, n, c
    <3>2. Earlier(c, n, S, P) = {}
      BY <2>4, <2>5, <3>1, NothingEarlier
    <3>3. Sorted({}) /\ Listed(NodeHeld, {}) = <<>>
      BY NoneSorted, NoneListed
    <3>4. c.point => c.lo \in S[n]
      BY <2>4 DEF Starts, Condition
    <3>5. ReaderOK(y, S, P)
      BY <1>3, <2>4, <3>1, <3>2, <3>3, <3>4 DEF ReaderOK
    <3> QED
      BY <2>2, <2>3, <3>5
  <2>7. CASE ~nodes[n].leaf
    <3>1. child # Nil /\ child \in DOMAIN nodes /\ Starts(c, S[child])
      <4> DEFINE at == i
      <4>1. at = IF c.lo = Nil THEN 1 ELSE ChildIndex(n, c.lo)
        OBVIOUS
      <4> HIDE DEF at, c, n
      <4>2. Child(n, at) # Nil /\ Child(n, at) \in DOMAIN nodes /\ Starts(c, S[Child(n, at)])
        BY <4>1, <2>3, <2>4, <2>7, DownStarts
      <4> QED
        BY <4>2 DEF at
    <3>2. pc = "down" /\ next = child
      BY <2>7, <3>1
    <3> HIDE DEF pc, next, y, n, c, child
    <3>3. ReaderOK(y, S, P)
      BY <1>3, <2>4, <3>1, <3>2 DEF ReaderOK
    <3> QED
      BY <2>2, <2>3, <3>3
  <2> QED
    BY <2>6, <2>7
<1> HIDE DEF y
<1> QED
  BY <1>1, <1>2, <1>3, <1>4, ReaderMoves

LEMMA ScanLeafKeeps ==
  ASSUME NEW w, Writers = {w}, TreeInv(w), ReaderInv(w), NEW r \in Readers, ScanLeaf(r)
  PROVE  ReaderInv(w)'
<1> DEFINE x == rd[r]
           c == x.cond
           n == x.node
           there == Hits(n, c) \subseteq DOMAIN nodes[n].values
           found == Found(n, c)
           pc == IF ~there THEN "error" ELSE IF Ends(n, c) THEN "done" ELSE "scan"
           next == IF there /\ ~Ends(n, c) THEN nodes[n].next ELSE n
           out == IF there THEN x.out \o found ELSE x.out
           y == ReaderAt(pc, c, next, out, x.quiet)
<1>1. x.pc = "scan" /\ x # Idle /\ IsReader(x) /\ UNCHANGED <<nodes, root, op>>
  BY DEF ScanLeaf, Idle, ReaderInv
<1>2. rd' = [rd EXCEPT ![r] = y]
  <2>1. CASE ~there
    <3>1. [x EXCEPT !.pc = "error"] = ReaderAt("error", c, n, x.out, x.quiet)
      BY <1>1, FieldsChange
    <3>2. rd' = [rd EXCEPT ![r] = [x EXCEPT !.pc = "error"]]
      BY <2>1 DEF ScanLeaf, Fail
    <3>3. y = ReaderAt("error", c, n, x.out, x.quiet)
      BY <2>1
    <3> QED
      BY <3>1, <3>2, <3>3
  <2>2. CASE there
    <3> DEFINE out2 == x.out \o found
               ends == Ends(n, c)
               pc2 == IF ends THEN "done" ELSE "scan"
               next2 == IF ends THEN n ELSE nodes[n].next
               z == x
    <3>1. rd' = [rd EXCEPT ![r] = [z EXCEPT !.out = out2, !.pc = pc2, !.node = next2]]
      BY <2>2 DEF ScanLeaf
    <3>2. y = ReaderAt(pc2, z.cond, next2, out2, z.quiet)
      BY <2>2
    <3>3. z # Idle /\ IsReader(z)
      BY <1>1
    <3>4. rd' = [rd EXCEPT ![r] = Moved(z, pc2, next2, out2)]
      BY <3>1 DEF Moved
    <3> HIDE DEF z, out2, pc2, next2, y
    <3>5. Moved(z, pc2, next2, out2) = ReaderAt(pc2, z.cond, next2, out2, z.quiet)
      BY <3>3, FieldsChange
    <3> QED
      BY <3>2, <3>5, <3>4
  <2> QED
    BY <2>1, <2>2
<1> HIDE DEF x
<1>3. IsReader(y) /\ y.pc = pc /\ y.node = next /\ y.out = out /\ y.cond = c /\ y.quiet = x.quiet
  <2> DEFINE next2 == next
             pc2 == pc
             out2 == out
             c2 == c
             z == ReaderAt(pc2, c2, next2, out2, x.quiet)
  <2>1. y = z
    OBVIOUS
  <2> HIDE DEF next2, pc2, c2, out2
  <2>2. IsReader(z) /\ z.pc = pc2 /\ z.node = next2 /\ z.out = out2 /\ z.cond = c2 /\ z.quiet = x.quiet
    BY ReaderFields
  <2> HIDE DEF y, z
  <2> QED
    BY <2>1, <2>2 DEF next2, pc2, c2, out2
<1>4. ASSUME x.quiet
      PROVE  op[w].pc \in Untouched /\ \E L, S, P, N : Resting(L, S, P, N) /\ ReaderOK(y, S, P)
  <2>1. Quiet(r)
    BY <1>1, <1>4 DEF Quiet, x
  <2>2. op[w].pc \in Untouched
    BY <2>1 DEF ReaderInv
  <2>3. PICK L, S, P, N : Resting(L, S, P, N) /\ ReaderOK(x, S, P)
    BY <2>1 DEF ReaderInv, x
  <2>4. /\ n \in Leaves /\ Sorted(Earlier(c, n, S, P)) /\ x.out = Listed(NodeHeld, Earlier(c, n, S, P))
        /\ c \in Lookups /\ Condition(c) /\ (c.point => c.lo \in S[n])
    BY <1>1, <2>3, LookupsAreConditions DEF ReaderOK
  <2>5. Indexed(S, P, N)
    BY <2>2, <2>3, QuietIndex
  <2> DEFINE j == Stop(n, c) - 1
  <2>6. j \in Nat /\ j <= Stop(n, c) - 1 /\ \A i \in 1..j : i \in 1..Len(nodes[n].keys)
    <3>1. nodes[n].keys \in Seq(Int)
      BY <2>4, <2>5 DEF Indexed
    <3>2. /\ Stop(n, c) \in 1..(Len(nodes[n].keys) + 1) /\ Len(nodes[n].keys) \in Nat
          /\ \A i \in 1..(Stop(n, c) - 1) : i \in 1..Len(nodes[n].keys)
      BY <3>1, StopFits
    <3> QED
      BY <3>2
  <2>7. there
    <3>1. DOMAIN nodes[n].values = 1..Len(nodes[n].keys)
      <4>1. nodes[n].values \in Seq(Seq(Rows)) /\ Len(nodes[n].values) = Len(nodes[n].keys)
        BY <2>4, <2>5 DEF Indexed
      <4> QED
        BY <4>1, LenProperties
    <3>2. Hits(n, c) \subseteq 1..j
      BY DEF Hits
    <3> QED
      BY <2>6, <3>1, <3>2
  <2>8. found = FlattenSeq(Share(c, n, j))
    BY DEF Found, Share
  <2> HIDE DEF j, found, x
  <2>9. /\ Sorted(Upward(c, n, j, S, P))
        /\ Listed(NodeHeld, Upward(c, n, j, S, P)) = x.out \o found
    <3> DEFINE m == n
               d == c
    <3>1. m \in Leaves /\ Sorted(Earlier(d, m, S, P)) /\ j <= Stop(m, d) - 1
      BY <2>4, <2>6
    <3> HIDE DEF m, d
    <3>2. /\ Sorted(Upward(d, m, j, S, P))
          /\ Listed(NodeHeld, Upward(d, m, j, S, P)) =
               Listed(NodeHeld, Earlier(d, m, S, P)) \o FlattenSeq(Share(d, m, j))
      BY <3>1, <2>5, <2>6, LeafIsListed
    <3> QED
      BY <3>2, <2>4, <2>8 DEF m, d
  <2>10. CASE Ends(n, c)
    <3> DEFINE m == n
               d == c
    <3>1. m \in Leaves /\ Condition(d) /\ (d.point => d.lo \in S[m]) /\ Ends(m, d)
      BY <2>4, <2>10
    <3>2. pc = "done" /\ out = x.out \o found
      BY <2>7, <2>10
    <3> HIDE DEF m, d, pc, next, out, y, there
    <3>3. Upward(d, m, Stop(m, d) - 1, S, P) = Wanted(d)
      BY <3>1, <2>5, LeafEnds
    <3>4. Upward(c, n, j, S, P) = Wanted(c)
      BY <3>3 DEF j, m, d
    <3> HIDE DEF c, n
    <3>5. ReaderOK(y, S, P)
      BY <1>3, <2>4, <2>9, <3>2, <3>4 DEF ReaderOK
    <3> QED
      BY <2>2, <2>3, <3>5
  <2>11. CASE ~Ends(n, c)
    <3> DEFINE m == n
               d == c
    <3>1. m \in Leaves /\ Condition(d) /\ ~Ends(m, d)
      BY <2>4, <2>11
    <3>2. pc = "scan" /\ out = x.out \o found /\ next = nodes[n].next
      BY <2>7, <2>11
    <3>3. ~c.point
      BY <2>11 DEF Ends
    <3> HIDE DEF m, d, pc, next, out, y, there
    <3>4. nodes[m].next \in Leaves /\ Upward(d, m, Stop(m, d) - 1, S, P) = Earlier(d, nodes[m].next, S, P)
      BY <3>1, <2>5, LeafGoesOn
    <3>5. next \in Leaves /\ Upward(c, n, j, S, P) = Earlier(c, next, S, P)
      BY <3>2, <3>4 DEF j, m, d
    <3> HIDE DEF c, n
    <3>6. ReaderOK(y, S, P)
      BY <1>3, <2>4, <2>9, <3>2, <3>3, <3>5 DEF ReaderOK
    <3> QED
      BY <2>2, <2>3, <3>6
  <2> QED
    BY <2>10, <2>11
<1> HIDE DEF y
<1> QED
  BY <1>1, <1>2, <1>3, <1>4, ReaderMoves

LEMMA ReturnKeeps ==
  ASSUME NEW w, ReaderInv(w), NEW r \in Readers, Return(r)
  PROVE  ReaderInv(w)'
<1>1. rd' = [rd EXCEPT ![r] = Idle] /\ UNCHANGED <<nodes, root, op>>
  BY DEF Return
<1>2. IsReader(Idle)
  BY DEF IsReader
<1> DEFINE y == Idle
<1>3. y = Idle /\ IsReader(y) /\ rd' = [rd EXCEPT ![r] = y]
  BY <1>1, <1>2
<1> HIDE DEF y
<1> QED
  BY <1>1, <1>3, ReaderMoves

\* Where a writer has written no reader is quiet any more.
LEMMA DisturbedReaders ==
  ASSUME NEW w, ReaderInv(w), Disturb
  PROVE  ReaderInv(w)'
<1>1. rd' = [r \in Readers |-> IF rd[r] = Idle THEN Idle ELSE [rd[r] EXCEPT !.quiet = FALSE]]
  BY DEF Disturb
<1>2. ASSUME NEW r \in Readers
      PROVE  IsReader(rd'[r]) /\ ~Quiet(r)'
  <2> DEFINE x == rd[r]
             y == rd'[r]
  <2>1. y = IF x = Idle THEN Idle ELSE [x EXCEPT !.quiet = FALSE]
    BY <1>1
  <2>2. IsReader(x)
    BY DEF ReaderInv
  <2>3. Quiet(r)' <=> y # Idle /\ y.quiet
    BY DEF Quiet
  <2> HIDE DEF x, y
  <2>4. CASE x = Idle
    <3>1. y = Idle
      BY <2>1, <2>4
    <3> QED
      BY <3>1, <2>3 DEF IsReader, y
  <2>5. CASE x # Idle
    <3>1. y = ReaderAt(x.pc, x.cond, x.node, x.out, FALSE)
      <4> DEFINE a == x.pc
                 b == x.node
                 d == x.out
                 c == x.cond
                 q == x.quiet
      <4>1. x = [pc |-> a, cond |-> c, node |-> b, out |-> d, quiet |-> q] /\ y = [x EXCEPT !.quiet = FALSE]
        BY <2>1, <2>2, <2>5 DEF IsReader
      <4> HIDE DEF a, b, c, d, q
      <4>2. y = [pc |-> a, cond |-> c, node |-> b, out |-> d, quiet |-> FALSE]
        BY <4>1
      <4> QED
        BY <4>2 DEF ReaderAt, a, b, c, d
    <3>2. IsReader(y) /\ y.quiet = FALSE
      <4> DEFINE a == x.pc
                 b == x.node
                 d == x.out
                 c == x.cond
                 q == FALSE
      <4>1. y = ReaderAt(a, c, b, d, q)
        BY <3>1
      <4> HIDE DEF a, b, c, d, q
      <4>2. IsReader(y) /\ y.quiet = q
        BY <4>1, ReaderFields
      <4> QED
        BY <4>2 DEF q
    <3> QED
      BY <3>2, <2>3 DEF y
  <2> QED
    BY <2>4, <2>5
<1>3. rd' = [r \in Readers |-> rd'[r]]
  BY <1>1
<1> QED
  BY <1>2, <1>3 DEF ReaderInv

\* A write is a change that disturbs all readers, or the start or the end of an
\* operation that leaves the nodes alone.
LEMMA WritesAndReaders ==
  ASSUME NEW w \in Writers, TreeInv(w), ReaderInv(w), Write(w)
  PROVE  ReaderInv(w)'
<1>1. op \in [Writers -> {Idle} \cup Ops]
  BY DEF TreeInv, Typed
<1>2. ASSUME NEW e, NEW pc \in {"leaf", "remove"}, Call(w, e, pc)
      PROVE  ReaderInv(w)'
  <2>1. op'[w].pc \in Untouched /\ UNCHANGED <<nodes, root, rd>>
    BY <1>1, <1>2 DEF Call, Untouched
  <2> QED
    BY <2>1, UnseenStep
<1>3. CASE RemoveRow(w) /\ ~Disturb
  <2>1. op'[w].pc \in Untouched /\ UNCHANGED <<nodes, root, rd>>
    BY <1>1, <1>3 DEF RemoveRow, Finish, Untouched, Idle
  <2> QED
    BY <2>1, UnseenStep
<1>4. CASE Disturb
  BY <1>4, DisturbedReaders
<1>5. \/ \E e \in Entries : Call(w, e, "leaf")
      \/ \E e \in Removals : Call(w, e, "remove")
      \/ RemoveRow(w)
      \/ Disturb
  BY DEF Write, CallInsert, CallDelete, LeafRow, LeafKey, LeafValue, SplitLeafKeys, SplitLeafValues, Link,
         ParentKey, ParentChild, SplitInnerKeys, SplitInnerChildren, NewRoot, PopKey, PopValue, Change
<1> QED
  BY <1>2, <1>3, <1>4, <1>5

LEMMA ReadersKeep ==
  ASSUME NEW w, Writers = {w}, TreeInv(w), ReaderInv(w), [Next]_vars
  PROVE  ReaderInv(w)'
<1>1. CASE \E v \in Writers : Write(v)
  BY <1>1, WritesAndReaders
<1>2. ASSUME NEW r \in Readers, NEW c \in Lookups, CallSearch(r, c)
      PROVE  ReaderInv(w)'
  BY <1>2, CallSearchKeeps
<1>3. ASSUME NEW r \in Readers, Read(r)
      PROVE  ReaderInv(w)'
  BY <1>3, DescendKeeps, ScanLeafKeeps, ReturnKeeps DEF Read
<1>4. CASE UNCHANGED vars
  <2>1. UNCHANGED <<nodes, root, rd>> /\ op' = op
    BY <1>4 DEF vars
  <2> QED
    BY <2>1, UnseenStep
<1> QED
  BY <1>1, <1>2, <1>3, <1>4 DEF Next

LEMMA ReadersAreExact ==
  ASSUME NEW w, Writers = {w}, TreeInv(w), ReaderInv(w)
  PROVE  QuietLookupsAreExact
<1> SUFFICES ASSUME NEW r \in Readers, rd[r] # Idle, rd[r].quiet
             PROVE  rd[r].pc # "error" /\ (rd[r].pc = "done" => rd[r].out = Answer(rd[r].cond))
  BY DEF QuietLookupsAreExact
<1> DEFINE x == rd[r]
<1>1. op[w].pc \in Untouched /\ \E L, S, P, N : Resting(L, S, P, N) /\ ReaderOK(x, S, P)
  BY DEF ReaderInv, Quiet
<1>2. PICK L, S, P, N : Resting(L, S, P, N) /\ ReaderOK(x, S, P)
  BY <1>1
<1> HIDE DEF x
<1>3. x.pc # "error" /\ (x.pc = "done" => x.out = Listed(NodeHeld, Wanted(x.cond)))
  BY <1>2 DEF ReaderOK
<1> DEFINE c == x.cond
           W == {k \in Keys : Above(c, k) /\ Below(c, k) /\ Held[k] # <<>>}
<1>4. Held = NodeHeld
  BY <1>1, HeldIsInNodes
<1>5. Answer(c) = Listed(Held, W)
  BY DEF Answer, Listed
<1>6. W = Wanted(c)
  BY <1>4 DEF Wanted
<1> HIDE DEF c, W
<1>7. Answer(c) = Listed(NodeHeld, Wanted(c))
  BY <1>4, <1>5, <1>6
<1> QED
  BY <1>3, <1>7 DEF x, c

LEMMA FirstReaders ==
  ASSUME NEW w, Init
  PROVE  ReaderInv(w)
<1>1. rd = [r \in Readers |-> Idle]
  BY DEF Init
<1> QED
  BY <1>1 DEF ReaderInv, IsReader, Quiet

\* A lookup that no writer's step falls into never fails and returns exactly the
\* rows of the keys it asks for, in key order, whatever was written before and
\* after it (bplustree.py 117-174).
THEOREM QuietLookupsReturnAll ==
  ASSUME NEW w, Writers = {w}
  PROVE  Spec => []QuietLookupsAreExact
<1>1. Init => ReaderInv(w)
  BY FirstReaders
<1>2. TreeInv(w) /\ ReaderInv(w) /\ [Next]_vars => ReaderInv(w)'
  BY ReadersKeep
<1>3. TreeInv(w) /\ ReaderInv(w) => QuietLookupsAreExact
  BY ReadersAreExact
<1>4. Spec => []TreeInv(w)
  BY TreeInvariant
<1> QED
  BY <1>1, <1>2, <1>3, <1>4, PTL DEF Spec

=============================================================================
