----------------------------- MODULE MCCatalog ------------------------------
(***************************************************************************)
(* An instance of Catalog for TLC: two threads, two names. Rows do not     *)
(* meet each other, so that one is enough; a table of the same name can be *)
(* made twice, so that the dict may close a hole under a COMMIT.           *)
(***************************************************************************)
EXTENDS Catalog, TLC

CONSTANTS t1, t2, none

\* One thread commits, the other defines tables; both insert.
Work == t1 :> {"insert", "truncate", "transaction"} @@ t2 :> {"define", "insert"}
=============================================================================
