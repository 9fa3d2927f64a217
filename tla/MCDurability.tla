---------------------------- MODULE MCDurability ----------------------------
(***************************************************************************)
(* Instances of Durability for TLC: two sessions that write the same row.  *)
(***************************************************************************)
EXTENDS Durability

CONSTANTS s1, s2, k1

OneRow == << [key |-> k1, xmin |-> 1, xmax |-> 0] >>

\* Beside it, a row without a creator that an id now forgotten has deleted.
TwoRows == OneRow \o << [key |-> k1, xmin |-> 0, xmax |-> 2] >>

\* s1 deletes outside transactions and looks after the table, s2 runs
\* transactions of every kind.
Mixed == [s \in Sessions |-> IF s = s1
            THEN {"auto", "delete", "truncate", "vacuum", "recover"}
            ELSE {"begin", "rollback", "savepoint", "insert", "update", "delete"}]

\* Sessions that delete rows outside transactions.
Deletes == [s \in Sessions |-> {"auto", "delete"}]

\* Sessions whose transactions insert rows.
Inserts == [s \in Sessions |-> {"begin", "insert"}]

\* One whose transactions update rows, and one that recovers.
UpdatesAndRecovers == [s \in Sessions |-> IF s = s1 THEN {"recover"} ELSE {"begin", "update"}]

SameKeys == [s \in Sessions |-> {k1}]
=============================================================================
