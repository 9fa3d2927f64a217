----------------------------- MODULE Visibility -----------------------------
(***************************************************************************)
(* The multi-version rules of storage/mvcc.py as pure operators: the two   *)
(* stamps a row version carries, what a snapshot records, which versions   *)
(* it shows to a transaction, and which versions VACUUM may remove.        *)
(*                                                                         *)
(* A row version is a record with the fields xmin (its creator) and xmax   *)
(* (its deleter, 0 for none) and whatever else the using module adds.      *)
(***************************************************************************)
EXTENDS Naturals

\* TXN_AUTO_COMMIT, the id of a statement that runs outside a transaction,
\* and the value of xmax for a version nobody deleted.
AutoCommit == 0
NotDeleted == 0

Snapshots == [active : SUBSET Nat, committed : SUBSET Nat, max : Nat]

\* stamp_insert and stamp_delete.
StampInsert(key, me) == [key |-> key, xmin |-> me, xmax |-> NotDeleted]
StampDelete(row, me) == [row EXCEPT !.xmax = me]

\* First half of Snapshot.is_visible: is somebody else's version old enough?
CreatorVisible(row, sn) ==
  \/ row.xmin = AutoCommit
  \/ /\ row.xmin \notin sn.active
     /\ row.xmin <= sn.max
     /\ row.xmin \in sn.committed

\* A mistake to catch: any deletion stamp hides the version, committed or not.
AnyDeletionSeen(row, me, sn) == row.xmax = NotDeleted

\* Second half: the deletion of the version, if any, is not seen by `me`.
DeletionUnseen(row, me, sn) ==
  \/ row.xmax = NotDeleted
  \/ /\ row.xmax # me
     /\ row.xmax \in sn.active \/ row.xmax > sn.max \/ row.xmax \notin sn.committed

\* Snapshot.is_visible. A version of one's own is shown unless one deleted it
\* or its deleter is in the committed set of the snapshot. With me = 0 and a
\* row stamped <<0, 0>> the first test of the code already answers "deleted by
\* me": such a row is hidden.
IsVisible(row, me, sn) ==
  \/ /\ row.xmin = me
     /\ row.xmax # me
     /\ row.xmax = NotDeleted \/ row.xmax \notin sn.committed
  \/ /\ row.xmin # me
     /\ CreatorVisible(row, sn)
     /\ DeletionUnseen(row, me, sn)

\* A mistake to catch: the oldest transaction is not consulted.
IsDeadAtCommit(row, oldest, committedIds) ==
  row.xmax # NotDeleted /\ row.xmax \in committedIds

\* is_dead. Its branch for xmax = TXN_AUTO_COMMIT is unreachable: that value
\* is 0 and has already been taken for "not deleted".
IsDead(row, oldest, committedIds) ==
  /\ row.xmax # NotDeleted
  /\ row.xmax \in committedIds
  /\ row.xmax < oldest
=============================================================================
