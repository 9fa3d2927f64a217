----------------------------- MODULE MCIsolation -----------------------------
(***************************************************************************)
(* Instances of TransactionsIsolation for TLC.                             *)
(***************************************************************************)
EXTENDS TransactionsIsolation

CONSTANTS s1, s2, k1, k2

TwoRows == << [key |-> k1, xmin |-> 1, xmax |-> 0], [key |-> k2, xmin |-> 2, xmax |-> 0] >>

\* Both sessions run transactions, on keys of their own. Only s1 takes
\* savepoints and rolls back; s2 commits everything it begins.
Disjoint == [s \in Sessions |-> IF s = s1 THEN {k1} ELSE {k2}]
SavepointsBesideAWriter ==
  [s \in Sessions |-> IF s = s1
     THEN {"begin", "rollback", "insert", "update", "delete", "savepoint"}
     ELSE {"begin", "insert", "update", "delete"}]

ASSUME Does = SavepointsBesideAWriter => Apart

\* The same with a second session that may roll back.
SavepointsBesideARollback ==
  [s \in Sessions |-> IF s = s1 THEN {"begin", "insert", "savepoint"}
                                ELSE {"begin", "insert", "rollback"}]
=============================================================================
