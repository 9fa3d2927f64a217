------------------------------ MODULE WebProxy ------------------------------
(***************************************************************************)
(* From the browser to the engine: the request threads of web_server.py,   *)
(* which share one connection (db_client.py) per browser session, and the  *)
(* thread db_server.py runs for each connection, whose thread-local        *)
(* transaction therefore belongs to that session.                          *)
(*                                                                         *)
(* A line is a request's statement on its way to the server, a reply its   *)
(* answer on the way back.  Connections break and the server crashes; then *)
(* any suffix of what was under way is lost.                               *)
(***************************************************************************)
EXTENDS SequencesExt, FiniteSetsExt

CONSTANTS
  Sessions,    \* values of the cookie minidb_session
  Requests,    \* HTTP requests, one thread each
  Plans,       \* what the browsers may be about to send
  MaxFaults,   \* bound: broken connections and crashes
  Nil

\* A plan gives each request its session, or Nil for an agent's page, its statement,
\* and the requests whose responses the browser waits for before it sends this one.
ASSUME PlansAssumption ==
  /\ Plans \subseteq [Requests -> [session : Sessions \cup {Nil}, after : SUBSET Requests,
                                  stmt : {"begin", "write", "commit"}]]
  /\ MaxFaults \in Nat

\* None is no connection and no cookie.
ASSUME NilAssumption == Nil \notin Nat /\ Nil \notin Sessions

VARIABLES
  plan,    \* the plan the browsers follow
  up,      \* db_server.py is running
  pool,    \* _pool
  conns,   \* the connections made so far, with both ends and what is between
  req,     \* req[r]: where request r is
  open,    \* open[s]: the connection on which session s was told that it has
           \* begun a transaction, or Nil (history)
  ran,     \* ran[r]: the executions of r: connection, in a transaction or not
  faults   \* how many faults are still to come

vars == <<plan, up, pool, conns, req, open, ran, faults>>

SessionOf(r) == plan[r].session
StmtOf(r) == plan[r].stmt

Error == [req |-> Nil, ok |-> FALSE]

Init ==
  /\ plan \in Plans
  /\ up = TRUE
  /\ pool = [s \in Sessions |-> Nil]
  /\ conns = <<>>
  /\ req = [r \in Requests |-> [pc |-> "none", conn |-> Nil, retried |-> FALSE,
                                reply |-> Nil, meant |-> Nil]]
  /\ open = [s \in Sessions |-> Nil]
  /\ ran = [r \in Requests |-> <<>>]
  /\ faults = MaxFaults

-----------------------------------------------------------------------------
(***************************************************************************)
(* A connection: what is under way in both directions, the client's _buf,  *)
(* and the server's thread with its transaction.  `shared` records that    *)
(* two requests have used the connection at one time, `dropped` that a     *)
(* request took it from the pool which had failed on another (history).    *)
(***************************************************************************)
NewConn(s) ==
  [session |-> s, broken |-> FALSE, shared |-> FALSE, dropped |-> FALSE,
   lines |-> <<>>, replies |-> <<>>, buf |-> <<>>, pc |-> "recv", txn |-> FALSE, answer |-> Nil]

Running(r) == req[r].pc \notin {"none", "done"}
Uses(r, c) == Running(r) /\ req[r].conn = c

\* A client object nobody refers to is freed at once, and its socket closed.
Referenced(c) == (\E s \in Sessions : pool[s] = c) \/ (\E r \in Requests : Uses(r, c))

-----------------------------------------------------------------------------
(***************************************************************************)
(* A request's thread: query() in web_server.py, or a page of an agent,    *)
(* which opens a connection for itself and does not try twice.             *)
(***************************************************************************)
At(r, pc) == req[r].pc = pc
Goto(r, pc) == req' = [req EXCEPT ![r].pc = pc]
ServerVars == <<plan, up, ran, faults>>

\* What the browser takes a reply for.
Told(r, reply) ==
  IF SessionOf(r) = Nil THEN open
  ELSE [open EXCEPT ![SessionOf(r)] =
          IF StmtOf(r) = "begin" /\ reply.ok THEN req[r].conn
          ELSE IF StmtOf(r) = "commit" THEN Nil ELSE @]

Done(r, reply) ==
  /\ req' = [req EXCEPT ![r].pc = "done", ![r].reply = reply]
  /\ open' = Told(r, reply)

\* A mistake to catch: it tries for as long as the server is down.
RetryAlways(r) ==
  IF SessionOf(r) = Nil THEN Done(r, Error) ELSE Goto(r, "pop") /\ UNCHANGED open

\* ConnectionError, ConnectionRefusedError among them: once more, or an error.
Failed(r) ==
  IF req[r].retried \/ SessionOf(r) = Nil THEN Done(r, Error) ELSE Goto(r, "pop") /\ UNCHANGED open

\* Any other exception is final (a mistake to catch: it is retried, too).
RetryUnexpected(r) == Failed(r)
Unexpected(r) == Done(r, Error)

\* A mistake to catch: a connection for each request.
NonePooled(s) == Nil

\* A mistake to catch: one pooled connection for all sessions.
AnyPooled(s) == IF \E t \in Sessions : pool[t] # Nil
                THEN pool[CHOOSE t \in Sessions : pool[t] # Nil] ELSE Nil

\* _pool.get; _sock is set in every client that got into the pool, also when the
\* other end is gone.
Pooled(s) == IF s = Nil THEN Nil ELSE pool[s]

\* The transaction the browser means its statement for (history).
Meant(r) == IF At(r, "get") \/ SessionOf(r) = Nil THEN req[r].meant ELSE open[SessionOf(r)]

\* _get_client under _pool_lock, which is held while the connection is made.
GetClient(r) ==
  LET s == SessionOf(r)
      c == Pooled(s)
  IN
  /\ \/ /\ c # Nil
        /\ req' = [req EXCEPT ![r].pc = "send", ![r].conn = c, ![r].meant = Meant(r)]
        /\ conns' = [conns EXCEPT ![c].shared = @ \/ \E q \in Requests : Uses(q, c)]
        /\ UNCHANGED <<pool, open>>
     \/ /\ c = Nil /\ up
        /\ conns' = Append(conns, NewConn(s))
        /\ pool' = IF s = Nil THEN pool ELSE [pool EXCEPT ![s] = Len(conns) + 1]
        /\ req' = [req EXCEPT ![r].pc = "send", ![r].conn = Len(conns) + 1, ![r].meant = Meant(r)]
        /\ UNCHANGED open
     \/ /\ c = Nil /\ ~up
        /\ Failed(r)
        /\ UNCHANGED <<conns, pool>>
  /\ UNCHANGED ServerVars

Arrive(r) ==
  /\ At(r, "none") /\ \A q \in plan[r].after : At(q, "done")
  /\ GetClient(r)

GetAgain(r) == At(r, "get") /\ GetClient(r)

\* _pool.pop(session_id), whatever client is there by now.
Pop(r) ==
  LET c == pool[SessionOf(r)] IN
  /\ At(r, "pop")
  /\ pool' = [pool EXCEPT ![SessionOf(r)] = Nil]
  /\ req' = [req EXCEPT ![r].pc = "get", ![r].retried = TRUE, ![r].conn = Nil]
  /\ conns' = IF c \in {Nil, req[r].conn} THEN conns ELSE [conns EXCEPT ![c].dropped = TRUE]
  /\ UNCHANGED <<open, ServerVars>>

\* sendall; on a broken connection it raises, or the bytes vanish.
Send(r) ==
  LET c == req[r].conn IN
  /\ At(r, "send")
  /\ \/ /\ ~conns[c].broken
        /\ conns' = [conns EXCEPT ![c].lines = Append(@, r)]
        /\ Goto(r, "check") /\ UNCHANGED open
     \/ /\ conns[c].broken
        /\ Goto(r, "check") /\ UNCHANGED <<conns, open>>
     \/ /\ conns[c].broken
        /\ Failed(r) /\ UNCHANGED conns
  /\ UNCHANGED <<pool, ServerVars>>

\* while b"\n" not in self._buf
Check(r) ==
  /\ At(r, "check")
  /\ Goto(r, IF conns[req[r].conn].buf = <<>> THEN "recv" ELSE "take")
  /\ UNCHANGED <<pool, conns, open, ServerVars>>

\* A chunk holds one reply or more; the end of the connection comes after them.
\* `self._buf += chunk` is one step here: a torn update needs a shared connection.
Recv(r) ==
  LET c == req[r].conn
      replies == conns[c].replies
  IN
  /\ At(r, "recv")
  /\ \/ /\ \E k \in DOMAIN replies :
             conns' = [conns EXCEPT ![c].buf = @ \o SubSeq(replies, 1, k),
                                    ![c].replies = SubSeq(replies, k + 1, Len(replies))]
        /\ Goto(r, "check") /\ UNCHANGED open
     \/ /\ replies = <<>> /\ conns[c].broken
        /\ Failed(r) /\ UNCHANGED conns
  /\ UNCHANGED <<pool, ServerVars>>

\* The first line of the buffer, whoever it is for; none is left when another
\* thread was faster, and the assignment raises ValueError.
Take(r) ==
  LET c == req[r].conn IN
  /\ At(r, "take")
  /\ IF conns[c].buf = <<>> THEN Unexpected(r) /\ UNCHANGED conns
     ELSE /\ Done(r, Head(conns[c].buf))
          /\ conns' = [conns EXCEPT ![c].buf = Tail(@)]
  /\ UNCHANGED <<pool, ServerVars>>

Request(r) ==
  GetAgain(r) \/ Pop(r) \/ Send(r) \/ Check(r) \/ Recv(r) \/ Take(r)

-----------------------------------------------------------------------------
(***************************************************************************)
(* A connection's thread in db_server.py: handle_client.                   *)
(***************************************************************************)
ClientVars == <<plan, pool, req, open>>

\* One line: parse and execute.
Execute(c) ==
  LET r == Head(conns[c].lines)
      txn == conns[c].txn
  IN
  /\ conns[c].pc = "recv" /\ conns[c].lines # <<>>
  /\ ran' = [ran EXCEPT ![r] = Append(@, [conn |-> c, txn |-> txn])]
  /\ conns' = [conns EXCEPT
       ![c].lines = Tail(@), ![c].pc = "reply",
       ![c].txn = IF StmtOf(r) = "begin" THEN TRUE ELSE IF StmtOf(r) = "commit" THEN FALSE ELSE @,
       ![c].answer = [req |-> r, ok |-> CASE StmtOf(r) = "begin" -> ~txn
                                          [] StmtOf(r) = "commit" -> txn
                                          [] OTHER -> TRUE]]
  /\ UNCHANGED <<ClientVars, up, faults>>

\* _send; on a broken connection it raises, or the bytes vanish.
Reply(c) ==
  /\ conns[c].pc = "reply"
  /\ \/ /\ ~conns[c].broken
        /\ conns' = [conns EXCEPT ![c].replies = Append(@, conns[c].answer), ![c].pc = "recv",
                                  ![c].answer = Nil]
     \/ /\ conns[c].broken
        /\ \E pc \in {"recv", "end"} :
             conns' = [conns EXCEPT ![c].pc = pc, ![c].answer = Nil]
  /\ UNCHANGED <<ClientVars, ServerVars>>

\* A mistake to catch: the thread ends without a ROLLBACK.
JustEnds(c) == [conns[c] EXCEPT !.pc = "ended", !.broken = TRUE, !.lines = <<>>]

\* finally: ROLLBACK if a transaction is active, then close.
Ended(c) == [conns[c] EXCEPT !.pc = "ended", !.broken = TRUE, !.lines = <<>>, !.txn = FALSE]

\* The ROLLBACK may raise (an index that cannot be built again, see IndexedTable);
\* `except Exception: pass`, and the transaction stays active.
Left(c) == [conns[c] EXCEPT !.pc = "left", !.broken = TRUE, !.lines = <<>>]
Endings(c) == {Ended(c)} \cup {k \in {Left(c)} : k.txn}

HangUp(c) ==
  /\ \/ conns[c].pc = "end"
     \/ conns[c].pc = "recv" /\ conns[c].lines = <<>> /\ (conns[c].broken \/ ~Referenced(c))
  /\ \E k \in Endings(c) : conns' = [conns EXCEPT ![c] = k]
  /\ UNCHANGED <<ClientVars, ServerVars>>

Serve(c) == c \in DOMAIN conns /\ (Execute(c) \/ Reply(c) \/ HangUp(c))

-----------------------------------------------------------------------------
(***************************************************************************)
(* Faults.                                                                 *)
(***************************************************************************)
Break(c) ==
  /\ faults > 0 /\ ~conns[c].broken
  /\ \E l \in Prefixes(conns[c].lines), p \in Prefixes(conns[c].replies) :
       conns' = [conns EXCEPT ![c].broken = TRUE, ![c].lines = l, ![c].replies = p]
  /\ faults' = faults - 1
  /\ UNCHANGED <<ClientVars, up, ran>>

\* The process dies, and its transactions with it.
Crash ==
  /\ faults > 0 /\ up
  /\ up' = FALSE
  /\ faults' = faults - 1
  /\ conns' = [c \in DOMAIN conns |-> [Ended(c) EXCEPT !.txn = FALSE]]
  /\ UNCHANGED <<ClientVars, ran>>

Restart ==
  /\ ~up /\ up' = TRUE
  /\ UNCHANGED <<ClientVars, conns, ran, faults>>

Next ==
  \/ \E r \in Requests : Arrive(r) \/ Request(r)
  \/ \E c \in DOMAIN conns : Serve(c) \/ Break(c)
  \/ Crash \/ Restart

\* A request makes two connections at most.
ConnIds == 1..(2 * Cardinality(Requests))

\* Threads run on both sides.
Spec ==
  /\ Init /\ [][Next]_vars
  /\ \A r \in Requests : WF_vars(Request(r))
  /\ \A c \in ConnIds : WF_vars(Serve(c))

-----------------------------------------------------------------------------
(***************************************************************************)
(* Properties.                                                             *)
(***************************************************************************)
InTransaction(c) == c \in DOMAIN conns /\ conns[c].txn
SharedIn(s) == \E c \in DOMAIN conns : conns[c].session = s /\ conns[c].shared

\* A reply goes to the request it answers.  Only when a browser has sent two
\* requests at a time over its connection can one of its requests get the reply
\* of another of its own (web_server.py 42-55, db_client.py 48-64, no lock there).
RepliesReachTheirRequest ==
  \A r \in Requests : req[r].pc = "done" /\ req[r].reply.req \notin {Nil, r} =>
    /\ SessionOf(r) # Nil /\ SessionOf(req[r].reply.req) = SessionOf(r)
    /\ conns[req[r].conn].shared

\* A statement is carried out once, or twice when the connection broke under its
\* first attempt, which the server's thread may get to after the second; never
\* more often, and never twice on one connection (web_server.py 742-751).
RunTwiceOnlyAfterABreak ==
  \A r \in Requests :
    /\ Len(ran[r]) <= 2
    /\ Len(ran[r]) = 2 => /\ SessionOf(r) # Nil
                          /\ ran[r][1].conn # ran[r][2].conn
                          /\ \E i \in 1..2 : conns[ran[r][i].conn].broken /\ ran[r][i].conn # req[r].conn

\* A write the browser sends after its BEGIN was answered is carried out in that
\* transaction.  Otherwise its connection broke, and the retry has carried it out,
\* and committed it, without the transaction; or the browser has sent several
\* requests at a time, one of which may also throw a healthy connection out of the
\* pool (web_server.py 742-748, db_server.py 170-177).
WritesStayInTheirTransaction ==
  \A r \in Requests : StmtOf(r) = "write" /\ req[r].meant # Nil =>
    \A i \in DOMAIN ran[r] :
      \/ ran[r][i].txn /\ ran[r][i].conn = req[r].meant
      \/ conns[req[r].meant].broken /\ ran[r][i].conn # req[r].meant
      \/ conns[req[r].meant].dropped \/ SharedIn(SessionOf(r))

\* A transaction whose connection is lost, or that no request can reach any more,
\* does not stay active for ever, which would stop VACUUM and writers of the same
\* keys: its thread gets to the ROLLBACK at its end, and only if that raises does
\* the transaction outlive its thread, until the server's end (db_server.py 170-177).
LostTransactionsEnd ==
  \A c \in ConnIds :
    (InTransaction(c) /\ (conns[c].broken \/ ~Referenced(c))) ~>
      (~InTransaction(c) \/ conns[c].pc = "left")

\* Every request is answered, unless another one of the same session has used its
\* connection at the same time: then a thread can sleep in recv while the other
\* one has its reply (web_server.py 737-753, db_client.py 56-64).
AnsweredUnlessShared ==
  \A r \in Requests :
    Running(r) ~> \/ req[r].pc = "done"
                  \/ SessionOf(r) # Nil /\ SharedIn(SessionOf(r))
=============================================================================
