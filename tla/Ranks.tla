-------------------------------- MODULE Ranks --------------------------------
(***************************************************************************)
(* The rank of a number in a finite set of numbers: how many of them are   *)
(* smaller.  It is the place of a row in a list from which rows are taken  *)
(* out, and to the end of which others are put.                            *)
(***************************************************************************)
EXTENDS Integers, FiniteSets, FiniteSetTheorems, WellFoundedInduction, TLAPS

Rank(D, v) == Cardinality({w \in D : w < v})

LEMMA RankType ==
  ASSUME NEW D \in SUBSET Nat, IsFiniteSet(D), NEW v \in D
  PROVE  Rank(D, v) \in Nat /\ Rank(D, v) < Cardinality(D) /\ Cardinality(D) \in Nat
<1> DEFINE B == {w \in D : w < v}
<1>1. B \subseteq D /\ v \notin B /\ v \in D
  OBVIOUS
<1>2. IsFiniteSet(B) /\ Cardinality(B) <= Cardinality(D) /\ (Cardinality(B) = Cardinality(D) => B = D)
  BY <1>1, FS_Subset
<1>3. Cardinality(B) \in Nat /\ Cardinality(D) \in Nat
  BY <1>2, FS_CardinalityType
<1> QED
  BY <1>1, <1>2, <1>3 DEF Rank

LEMMA RankGrows ==
  ASSUME NEW D \in SUBSET Nat, IsFiniteSet(D), NEW v \in D, NEW w \in D, v < w
  PROVE  Rank(D, v) < Rank(D, w)
<1> DEFINE B == {x \in D : x < v}
           C == {x \in D : x < w}
<1>1. B \subseteq C /\ v \in C /\ v \notin B
  <2>1. (\A x \in D : x \in Nat /\ (x < v => x < w)) /\ ~ (v < v)
    OBVIOUS
  <2> QED
    BY <2>1
<1>2. IsFiniteSet(C)
  <2>1. C \subseteq D
    OBVIOUS
  <2> QED
    BY <2>1, FS_Subset
<1>3. Cardinality(B) <= Cardinality(C) /\ (Cardinality(B) = Cardinality(C) => B = C) /\ IsFiniteSet(B)
  BY <1>1, <1>2, FS_Subset
<1>4. Cardinality(B) \in Nat /\ Cardinality(C) \in Nat
  BY <1>2, <1>3, FS_CardinalityType
<1> QED
  BY <1>1, <1>3, <1>4 DEF Rank

\* As many versions as there are places have a place below c.
LEMMA RanksFill ==
  ASSUME NEW D \in SUBSET Nat, IsFiniteSet(D), NEW c \in Nat, c <= Cardinality(D)
  PROVE  Cardinality({v \in D : Rank(D, v) < c}) = c
<1> DEFINE n == Cardinality(D)
           f == [v \in D |-> Rank(D, v)]
           L == {v \in D : Rank(D, v) < c}
           g == [v \in L |-> Rank(D, v)]
<1>1. n \in Nat
  BY FS_CardinalityType
<1>2. f \in Injection(D, 0 .. (n - 1))
  <2>1. \A v \in D : Rank(D, v) \in 0 .. (n - 1)
    <3> TAKE v \in D
    <3>1. Rank(D, v) \in Nat /\ Rank(D, v) < n
      BY RankType
    <3> QED
      BY <1>1, <3>1
  <2>2. \A v, w \in D : Rank(D, v) = Rank(D, w) => v = w
    <3> TAKE v, w \in D
    <3>1. Rank(D, v) \in Nat /\ Rank(D, w) \in Nat
      BY RankType
    <3>2. v < w => Rank(D, v) < Rank(D, w)
      BY RankGrows
    <3>3. w < v => Rank(D, w) < Rank(D, v)
      BY RankGrows
    <3> QED
      BY <3>1, <3>2, <3>3
  <2>3. f \in [D -> 0 .. (n - 1)]
    BY <2>1
  <2> QED
    BY <2>2, <2>3 DEF Injection, IsInjective
<1>3. IsFiniteSet(0 .. (n - 1)) /\ Cardinality(0 .. (n - 1)) = n
  <2> HIDE DEF n
  <2>1. n - 1 \in Int
    BY <1>1
  <2>2. IsFiniteSet(0 .. (n - 1)) /\ Cardinality(0 .. (n - 1)) = IF 0 > n - 1 THEN 0 ELSE (n - 1) - 0 + 1
    BY <2>1, FS_Interval
  <2> QED
    BY <1>1, <2>2
<1>4. f \in Surjection(D, 0 .. (n - 1))
  BY <1>2, <1>3, FS_Injection
<1>5. g \in Injection(L, 0 .. (c - 1)) /\ g \in Surjection(L, 0 .. (c - 1))
  <2>1. \A v \in L : Rank(D, v) \in 0 .. (c - 1)
    <3> TAKE v \in L
    <3>1. Rank(D, v) \in Nat
      BY RankType
    <3> QED
      BY <3>1
  <2>2. \A v, w \in L : Rank(D, v) = Rank(D, w) => v = w
    BY <1>2 DEF Injection, IsInjective
  <2>3. \A i \in 0 .. (c - 1) : \E v \in L : Rank(D, v) = i
    <3> TAKE i \in 0 .. (c - 1)
    <3>1. i \in 0 .. (n - 1) /\ i < c
      BY <1>1
    <3>2. PICK v \in D : f[v] = i
      BY <1>4, <3>1 DEF Surjection
    <3> QED
      BY <3>1, <3>2
  <2>4. g \in [L -> 0 .. (c - 1)]
    BY <2>1
  <2> QED
    BY <2>2, <2>3, <2>4 DEF Injection, IsInjective, Surjection
<1>6. Cardinality(0 .. (c - 1)) = c /\ IsFiniteSet(0 .. (c - 1))
  <2>1. c - 1 \in Int
    OBVIOUS
  <2>2. IsFiniteSet(0 .. (c - 1)) /\ Cardinality(0 .. (c - 1)) = IF 0 > c - 1 THEN 0 ELSE (c - 1) - 0 + 1
    BY <2>1, FS_Interval
  <2> QED
    BY <2>2
<1> HIDE DEF g, L
<1>8. Cardinality(L) = Cardinality(0 .. (c - 1))
  BY <1>5, <1>6, FS_Injection
<1> QED
  BY <1>6, <1>8 DEF L

\* Every place below the length of the list is somebody's, and only one's.
LEMMA RankIsOnto ==
  ASSUME NEW D \in SUBSET Nat, IsFiniteSet(D), NEW i \in Nat, i < Cardinality(D)
  PROVE  \E v \in D : Rank(D, v) = i
<1> DEFINE L == {v \in D : Rank(D, v) < i}
           M == {v \in D : Rank(D, v) < i + 1}
<1>1. Cardinality(D) \in Nat
  BY FS_CardinalityType
<1>2. Cardinality(L) = i
  BY <1>1, RanksFill
<1>3. i + 1 \in Nat /\ i + 1 <= Cardinality(D)
  BY <1>1
<1>4. Cardinality(M) = i + 1
  <2> DEFINE c == i + 1
  <2>1. c \in Nat /\ c <= Cardinality(D)
    BY <1>3
  <2> HIDE DEF c
  <2>2. Cardinality({v \in D : Rank(D, v) < c}) = c
    BY <2>1, RanksFill
  <2> QED
    BY <2>2 DEF c
<1>5. \A v \in D : Rank(D, v) \in Nat
  BY RankType
<1>6. L # M
  BY <1>2, <1>4
<1>7. PICK v \in D : Rank(D, v) < i + 1 /\ ~ (Rank(D, v) < i)
  <2>1. \A v \in D : Rank(D, v) < i => Rank(D, v) < i + 1
    BY <1>5
  <2> QED
    BY <1>6, <2>1
<1>8. Rank(D, v) \in Nat
  BY <1>5
<1> QED
  BY <1>7, <1>8

LEMMA RankIsOneToOne ==
  ASSUME NEW D \in SUBSET Nat, IsFiniteSet(D), NEW v \in D, NEW w \in D, Rank(D, v) = Rank(D, w)
  PROVE  v = w
<1>1. v < w => Rank(D, v) < Rank(D, w)
  BY RankGrows
<1>2. w < v => Rank(D, w) < Rank(D, v)
  BY RankGrows
<1>3. Rank(D, v) \in Nat /\ Rank(D, w) \in Nat
  BY RankType
<1> QED
  BY <1>1, <1>2, <1>3

\* Where nothing is taken out below c, places below c stay, and the others stay above.
LEMMA RanksBelowStay ==
  ASSUME NEW D \in SUBSET Nat, IsFiniteSet(D), NEW E \in SUBSET D,
         NEW c \in Nat, c <= Cardinality(D), \A v \in D : Rank(D, v) < c => v \in E
  PROVE  /\ IsFiniteSet(E) /\ c <= Cardinality(E)
         /\ \A v \in E : IF Rank(D, v) < c THEN Rank(E, v) = Rank(D, v) ELSE Rank(E, v) >= c
<1> DEFINE L == {v \in D : Rank(D, v) < c}
<1>1. L \subseteq E /\ L \subseteq D
  OBVIOUS
<1>2. IsFiniteSet(E) /\ Cardinality(E) \in Nat /\ IsFiniteSet(L)
  BY <1>1, FS_Subset, FS_CardinalityType
<1>3. Cardinality(L) = c
  BY RanksFill
<1>4. c <= Cardinality(E)
  BY <1>1, <1>2, <1>3, FS_Subset
<1>5. ASSUME NEW v \in E, Rank(D, v) < c
      PROVE  Rank(E, v) = Rank(D, v)
  <2>1. \A w \in D : w < v => w \in E
    <3> SUFFICES ASSUME NEW w \in D, w < v PROVE w \in E
      OBVIOUS
    <3>1. Rank(D, w) < Rank(D, v)
      BY RankGrows
    <3>2. Rank(D, w) \in Nat /\ Rank(D, v) \in Nat
      BY RankType
    <3> QED
      BY <1>5, <3>1, <3>2
  <2>2. {w \in D : w < v} = {w \in E : w < v}
    BY <2>1
  <2> QED
    BY <2>2 DEF Rank
<1>6. ASSUME NEW v \in E, ~(Rank(D, v) < c)
      PROVE  Rank(E, v) >= c
  <2> DEFINE B == {w \in E : w < v}
  <2>1. L \subseteq B
    <3> SUFFICES ASSUME NEW w \in L PROVE w < v
      BY <1>1
    <3>1. Rank(D, w) \in Nat /\ Rank(D, v) \in Nat
      BY RankType
    <3>2. v < w => Rank(D, v) < Rank(D, w)
      BY RankGrows
    <3> QED
      BY <1>6, <3>1, <3>2
  <2>2. IsFiniteSet(B) /\ B \subseteq E
    BY <1>2, FS_Subset
  <2>3. Cardinality(L) <= Cardinality(B) /\ Cardinality(B) \in Nat
    <3> HIDE DEF L, B
    <3> QED
      BY <2>1, <2>2, FS_Subset, FS_CardinalityType
  <2> QED
    BY <1>3, <2>3 DEF Rank
<1> QED
  BY <1>2, <1>4, <1>5, <1>6

\* What comes at the end of the table has no place below.
LEMMA RanksAppend ==
  ASSUME NEW D \in SUBSET Nat, NEW E \in SUBSET Nat, IsFiniteSet(E), D \subseteq E,
         \A x \in E \ D : \A v \in D : v < x
  PROVE  /\ IsFiniteSet(D) /\ Cardinality(D) <= Cardinality(E)
         /\ \A v \in D : Rank(E, v) = Rank(D, v)
         /\ \A x \in E \ D : Rank(E, x) >= Cardinality(D)
<1>1. IsFiniteSet(D) /\ Cardinality(D) <= Cardinality(E)
  BY FS_Subset
<1>2. ASSUME NEW v \in D PROVE Rank(E, v) = Rank(D, v)
  <2>1. {w \in D : w < v} = {w \in E : w < v}
    <3>1. \A x \in E \ D : ~ (x < v)
      <4> TAKE x \in E \ D
      <4>1. x \in Nat /\ v \in Nat /\ v < x
        OBVIOUS
      <4> QED
        BY <4>1
    <3> QED
      BY <3>1
  <2> QED
    BY <2>1 DEF Rank
<1>3. ASSUME NEW x \in E \ D PROVE Rank(E, x) >= Cardinality(D)
  <2> DEFINE B == {w \in E : w < x}
  <2>1. D \subseteq B /\ B \subseteq E
    OBVIOUS
  <2>2. IsFiniteSet(B)
    BY <2>1, FS_Subset
  <2>3. Cardinality(D) <= Cardinality(B) /\ Cardinality(B) \in Nat /\ Cardinality(D) \in Nat
    <3> HIDE DEF B
    <3> QED
      BY <1>1, <2>1, <2>2, FS_Subset, FS_CardinalityType
  <2> QED
    BY <2>3 DEF Rank
<1> QED
  BY <1>1, <1>2, <1>3

\* Of any numbers one is the least.
LEMMA NatsHaveALeast ==
  ASSUME NEW S \in SUBSET Nat, S # {}
  PROVE  \E m \in S : \A x \in S : m <= x
<1> DEFINE R == {ss \in Nat \X Nat : ss[1] < ss[2]}
<1>1. \E m \in S : \A y \in S : ~ (<<y, m>> \in R)
  <2>1. IsWellFoundedOn(R, Nat)
    BY NatLessThanWellFounded DEF OpToRel
  <2> HIDE DEF R
  <2> QED
    BY <2>1, WFMin
<1>2. PICK m \in S : \A y \in S : ~ (<<y, m>> \in R)
  BY <1>1
<1>3. \A y \in S : m <= y
  <2> TAKE y \in S
  <2>1. y \in Nat /\ m \in Nat
    OBVIOUS
  <2>2. ~ (y < m)
    BY <1>2, <2>1
  <2> QED
    BY <2>1, <2>2
<1> QED
  BY <1>3

\* Induction, over a set of numbers.
LEMMA AllNats ==
  ASSUME NEW S, 0 \in S, \A n \in Nat : n \in S => n + 1 \in S
  PROVE  \A n \in Nat : n \in S
<1> DEFINE B == {n \in Nat : n \notin S}
<1> SUFFICES ASSUME B # {}
             PROVE  FALSE
  OBVIOUS
<1>1. PICK m \in B : \A n \in B : m <= n
  BY NatsHaveALeast
<1>2. m \in Nat /\ m # 0 /\ m - 1 \in Nat
  OBVIOUS
<1>3. m - 1 \in S
  BY <1>1, <1>2
<1> QED
  BY <1>2, <1>3

=============================================================================
