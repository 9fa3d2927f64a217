--------------------------- MODULE MCIndexedTable ---------------------------
(***************************************************************************)
(* An instance of IndexedTable for TLC: a TEXT column with a number, an    *)
(* upper-case and a lower-case text, two sessions.                         *)
(***************************************************************************)
EXTENDS IndexedTable, TLC

CONSTANTS s1, s2, none

\* "7" is compared as the text it is, and is the number 7 in the tree.
Words == {"7", "B", "a"}
TextOrder == [v \in Words |-> CASE v = "7" -> 1 [] v = "B" -> 2 [] v = "a" -> 3]
KeyOrder == [v \in Words |-> CASE v = "7" -> 7 [] v = "B" -> 2 [] v = "a" -> 1]
Symmetry == Permutations(Sessions)
=============================================================================
