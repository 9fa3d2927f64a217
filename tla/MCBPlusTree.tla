---------------------------- MODULE MCBPlusTree ----------------------------
(***************************************************************************)
(* An instance of BPlusTree for TLC.                                       *)
(***************************************************************************)
EXTENDS BPlusTree

CONSTANTS w1, r1, none, MaxKey

AllKeys == 1..MaxKey

\* Every key has one row; the second key has a second one.
OneRowEach == {<<k, k>> : k \in AllKeys} \cup {<<2, MaxKey + 1>>}

\* Rows that are deleted again, one of two under its key.
SomeRemovals == {<<2, 2>>, <<3, 3>>}

\* A point in the middle, one at the end, and ranges open on either side.
PointsAndRanges == {
  Point(3),
  [lo |-> 2, hi |-> none, loIn |-> FALSE, hiIn |-> TRUE, point |-> FALSE],
  [lo |-> none, hi |-> 4, loIn |-> TRUE, hiIn |-> FALSE, point |-> FALSE]}
=============================================================================
