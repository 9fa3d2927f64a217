----------------------------- MODULE MCWebProxy -----------------------------
(***************************************************************************)
(* An instance of WebProxy for TLC: a session that begins a transaction    *)
(* and then uses it, patiently or with two requests at a time, and beside  *)
(* it a second session or an agent's page.                                 *)
(***************************************************************************)
EXTENDS WebProxy

CONSTANTS s1, s2, r1, r2, r3, none

Sent(session, stmt, after) == [session |-> session, stmt |-> stmt, after |-> after]

\* BEGIN, and then what the third and the second request do.
Plan(second, third) == r1 :> Sent(s1, "begin", {}) @@ r2 :> second @@ r3 :> third

Browsing ==
  {Plan(Sent(s1, "write", {r1}), third) :
     third \in {Sent(s1, "write", {r1}), Sent(s1, "commit", {r1}), Sent(s1, "commit", {r2}),
                Sent(s2, "write", {}), Sent(none, "write", {})}}
=============================================================================
