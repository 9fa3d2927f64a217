--------------------------- MODULE MCTransactions ---------------------------
(***************************************************************************)
(* Instances of Transactions for TLC: two sessions over one or two keys.   *)
(***************************************************************************)
EXTENDS Transactions

CONSTANTS s1, s2, k1, k2

\* The table as two earlier transactions left it on disk.
OneRow  == << [key |-> k1, xmin |-> 1, xmax |-> 0] >>
TwoRows == OneRow \o << [key |-> k2, xmin |-> 2, xmax |-> 0] >>

\* Every kind of statement from both sessions, on the same key.
EveryStatement == [s \in Sessions |-> Kinds]
SameKeys == [s \in Sessions |-> {k1}]

\* Transactions that delete, and VACUUM.
DeleteAndVacuum == [s \in Sessions |-> {"begin", "delete", "vacuum"}]

\* A transaction beside auto-commit statements.
ReaderBesideAuto ==
  [s \in Sessions |-> IF s = s1 THEN {"begin"} ELSE {"auto", "insert", "delete"}]

\* Transactions that delete the same row, and may roll back.
DeleteAndRollback == [s \in Sessions |-> {"begin", "delete", "rollback"}]
=============================================================================
