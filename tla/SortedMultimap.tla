--------------------------- MODULE SortedMultimap ---------------------------
(***************************************************************************)
(* What an index promises (index/bplustree.py, "Public API"): every key    *)
(* has the list of its row positions, in the order in which they came.     *)
(***************************************************************************)
EXTENDS Sequences, SequencesExt

CONSTANTS
  Keys,    \* the keys of the index
  Entries  \* the pairs <<key, row position>> a table may enter

VARIABLE held  \* held[k]: the row positions entered under k

Init == held = [k \in Keys |-> <<>>]

\* insert(key, row_index)
Put(k, r) == held' = [held EXCEPT ![k] = Append(@, r)]

\* delete(key, row_index): the first occurrence goes.
Drop(k, r) ==
  /\ Contains(held[k], r)
  /\ held' = [held EXCEPT ![k] = RemoveFirst(@, r)]

Next == \E e \in Entries : Put(e[1], e[2]) \/ Drop(e[1], e[2])

Spec == Init /\ [][Next]_held
=============================================================================
