--------------------------- MODULE MCUniqueTable ---------------------------
(***************************************************************************)
(* An instance of UniqueTable for TLC.                                     *)
(***************************************************************************)
EXTENDS UniqueTable, TLC

CONSTANTS s1, s2, none

Insert(k) == [op |-> "insert", where |-> none, new |-> k]
Update(w, k) == [op |-> "update", where |-> w, new |-> k]
Delete(w) == [op |-> "delete", where |-> w, new |-> 1]

\* On disk: a row that an UPDATE made out of one that is still there, and one more.
OneDead == <<[key |-> 2, xmin |-> 0, xmax |-> 1], [key |-> 2, xmin |-> 1, xmax |-> 0],
             [key |-> 3, xmin |-> 0, xmax |-> 0]>>

\* Both sessions insert a new key and move all rows to it; one removes a known key,
\* which the other inserts.
Fights ==
  (s1 :> {Insert(1), Update(none, 1), Delete(2)}) @@ (s2 :> {Insert(1), Update(none, 1), Insert(2)})
=============================================================================
