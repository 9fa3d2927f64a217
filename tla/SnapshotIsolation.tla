-------------------------- MODULE SnapshotIsolation --------------------------
(***************************************************************************)
(* What MiniDB promises of its transactions (docs/04_transactions.md and   *)
(* the comments of storage/mvcc.py), without ids, stamps or list           *)
(* positions: a store of row versions that changes in one step per         *)
(* committed transaction, transactions that work on a frozen copy of it    *)
(* plus their own writes, and savepoints that stand for those writes.      *)
(***************************************************************************)
EXTENDS Naturals

CONSTANTS Sessions, SpNames, Versions

VARIABLES
  store,  \* the versions a new statement sees
  open,   \* the sessions with a transaction
  base,   \* per session: the store when its transaction began
  made,   \* per session: the versions it has made and not deleted
  gone,   \* per session: the versions of base it has deleted
  saved   \* per session: made and gone at each savepoint, and older savepoints

vars == <<store, open, base, made, gone, saved>>

NothingSaved == [n \in {} |-> {}]

\* N holds versions nobody has seen yet.
New(N) == N \cap (store \cup UNION {base[t] \cup made[t] : t \in Sessions}) = {}

Init ==
  /\ store \subseteq Versions
  /\ open = {}
  /\ base  = [s \in Sessions |-> {}]
  /\ made  = [s \in Sessions |-> {}]
  /\ gone  = [s \in Sessions |-> {}]
  /\ saved = [s \in Sessions |-> NothingSaved]

Begin(s) ==
  /\ s \notin open
  /\ open' = open \cup {s}
  /\ base' = [base EXCEPT ![s] = store]
  /\ UNCHANGED <<store, made, gone, saved>>

\* A statement deletes some of what the transaction sees and makes some
\* versions that are new to everybody.
Statement(s) ==
  /\ s \in open
  /\ made' = [made EXCEPT ![s] = made'[s]] /\ New(made'[s] \ made[s])
  /\ gone' = [gone EXCEPT ![s] = gone'[s]]
  /\ gone[s] \subseteq gone'[s] /\ gone'[s] \subseteq base[s]
  /\ UNCHANGED <<store, open, base, saved>>

End(s) ==
  /\ s \in open
  /\ open' = open \ {s}
  /\ base'  = [base EXCEPT ![s] = {}]
  /\ made'  = [made EXCEPT ![s] = {}]
  /\ gone'  = [gone EXCEPT ![s] = {}]
  /\ saved' = [saved EXCEPT ![s] = NothingSaved]

Commit(s)   == End(s) /\ store' = (store \ gone[s]) \cup made[s]
Rollback(s) == End(s) /\ UNCHANGED store

Savepoint(s, n) ==
  /\ s \in open /\ n \notin DOMAIN saved[s]
  /\ saved' = [saved EXCEPT ![s] =
       [m \in DOMAIN @ \cup {n} |->
          IF m = n THEN [made |-> made[s], gone |-> gone[s], older |-> DOMAIN @] ELSE @[m]]]
  /\ UNCHANGED <<store, open, base, made, gone>>

RollbackTo(s, n) ==
  /\ s \in open /\ n \in DOMAIN saved[s]
  /\ made'  = [made EXCEPT ![s] = saved[s][n].made]
  /\ gone'  = [gone EXCEPT ![s] = saved[s][n].gone]
  /\ saved' = [saved EXCEPT ![s] = [m \in {k \in DOMAIN @ : n \notin @[k].older} |-> @[m]]]
  /\ UNCHANGED <<store, open, base>>

Without(sv, n) == [m \in DOMAIN sv \ {n} |-> [sv[m] EXCEPT !.older = @ \ {n}]]

Release(s, n) ==
  /\ s \in open /\ n \in DOMAIN saved[s]
  /\ saved' = [saved EXCEPT ![s] = Without(@, n)]
  /\ UNCHANGED <<store, open, base, made, gone>>

Next == \E s \in Sessions :
  \/ Begin(s) \/ Statement(s) \/ Commit(s) \/ Rollback(s)
  \/ \E n \in SpNames : Savepoint(s, n) \/ RollbackTo(s, n) \/ Release(s, n)

Spec == Init /\ [][Next]_vars
=============================================================================
