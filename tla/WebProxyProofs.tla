--------------------------- MODULE WebProxyProofs ---------------------------
(***************************************************************************)
(* Replies, repetitions and transactions behind the web proxy, for any     *)
(* number of browsers, requests, connections and faults.                   *)
(***************************************************************************)
EXTENDS WebProxy, SequenceTheorems, TLAPS

-----------------------------------------------------------------------------
(***************************************************************************)
(* Types.                                                                  *)
(***************************************************************************)
Answers == [req : Requests, ok : BOOLEAN]
Connections ==
  [session : Sessions \cup {Nil}, broken : BOOLEAN, shared : BOOLEAN, dropped : BOOLEAN,
   lines : Seq(Requests), replies : Seq(Answers), buf : Seq(Answers),
   pc : {"recv", "reply", "end", "ended", "left"}, txn : BOOLEAN, answer : Answers \cup {Nil}]

Waiting == {"check", "recv", "take"}
RequestPCs == {"none", "send", "pop", "get", "done"} \cup Waiting
States(ids) ==
  [pc : RequestPCs, conn : ids \cup {Nil}, retried : BOOLEAN,
   reply : Answers \cup {Error, Nil}, meant : ids \cup {Nil}]
Runs(ids) == Seq([conn : ids, txn : BOOLEAN])

Ids == DOMAIN conns

WebTypes ==
  /\ plan \in Plans /\ up \in BOOLEAN
  /\ conns \in Seq(Connections)
  /\ pool \in [Sessions -> Ids \cup {Nil}]
  /\ open \in [Sessions -> Ids \cup {Nil}]
  /\ req \in [Requests -> States(Ids)]
  /\ ran \in [Requests -> Runs(Ids)]

-----------------------------------------------------------------------------
(***************************************************************************)
(* Who uses a connection, and what is under way on it.                     *)
(***************************************************************************)

\* The pool holds the only connection of a session that is neither broken nor thrown
\* out by mistake; a connection outside the pool is never shared.
PoolInv ==
  /\ \A s \in Sessions : pool[s] # Nil => conns[pool[s]].session = s
  /\ \A c \in Ids : IF conns[c].session = Nil THEN ~conns[c].shared
                    ELSE pool[conns[c].session] = c \/ conns[c].broken \/ conns[c].dropped

\* A request keeps to its session's connections, and leaves one only when it is broken.
Use(r) ==
  /\ req[r].pc \in {"send"} \cup Waiting => req[r].conn # Nil
  /\ req[r].pc \in {"none", "get"} => req[r].conn = Nil
  /\ req[r].conn # Nil => conns[req[r].conn].session = SessionOf(r)
  /\ req[r].pc = "pop" /\ req[r].conn # Nil => conns[req[r].conn].broken
  /\ req[r].pc \in {"pop", "get"} \/ req[r].retried => SessionOf(r) # Nil
  /\ req[r].pc = "none" => ~req[r].retried /\ req[r].meant = Nil
  /\ req[r].pc = "get" => req[r].retried
  /\ req[r].pc = "pop" => ~req[r].retried
  /\ req[r].pc = "done" => \/ req[r].reply = Error
                           \/ req[r].reply \in Answers /\ req[r].conn # Nil
  /\ SessionOf(r) = Nil => req[r].meant = Nil
UseInv == \A r \in Requests : Use(r)

\* All that is under way on a connection belongs to its session.
RequestsOf(s) == {r \in Requests : SessionOf(r) = s}
AnswersOf(s) == [req : RequestsOf(s), ok : BOOLEAN]
Belongs(k, s) ==
  /\ k.lines \in Seq(RequestsOf(s))
  /\ k.pc = "reply" => k.answer \in AnswersOf(s)
  /\ k.replies \in Seq(AnswersOf(s)) /\ k.buf \in Seq(AnswersOf(s))
TrafficInv == \A c \in Ids : Belongs(conns[c], conns[c].session)

\* No reply is under way, and none will be; a statement may be left over on a
\* broken connection.
Quiet(k) ==
  /\ k.buf = <<>> /\ k.replies = <<>>
  /\ \/ k.lines = <<>> /\ k.pc # "reply"
     \/ k.broken /\ \E q \in Requests : k.lines \in {<<>>, <<q>>}

\* The statement of r, or its reply, is all that is under way.
Awaits(k, r) ==
  \/ k.lines = <<r>> /\ k.pc # "reply" /\ k.replies = <<>> /\ k.buf = <<>>
  \/ k.lines = <<>> /\ k.pc = "reply" /\ k.answer.req = r /\ k.replies = <<>> /\ k.buf = <<>>
  \/ /\ k.lines = <<>> /\ k.pc # "reply"
     /\ \E a \in Answers : a.req = r /\ \/ k.replies = <<a>> /\ k.buf = <<>>
                                        \/ k.replies = <<>> /\ k.buf = <<a>>

\* On a connection that was never shared there is one user at a time, with nothing but
\* its own statement or reply under way.
Alone(c) ==
  /\ \A r, q \in Requests : Uses(r, c) /\ Uses(q, c) => r = q
  /\ (\A r \in Requests : ~Uses(r, c)) => Quiet(conns[c])
  /\ \A r \in Requests : Uses(r, c) =>
       /\ Quiet(conns[c]) \/ (req[r].pc \in Waiting /\ Awaits(conns[c], r))
       /\ req[r].pc = "recv" => conns[c].buf = <<>>
       /\ req[r].pc = "take" => conns[c].buf # <<>>
AloneInv == \A c \in Ids : ~conns[c].shared => Alone(c)

-----------------------------------------------------------------------------
(***************************************************************************)
(* How often a statement is sent.                                          *)
(***************************************************************************)
InLines(r, c) == \E i \in DOMAIN conns[c].lines : conns[c].lines[i] = r
Ran(r, c)     == \E i \in DOMAIN ran[r] : ran[r][i].conn = c
SentOn(r, c)  == InLines(r, c) \/ Ran(r, c)

\* Once on a connection; before the connection in use on one more at most, which is
\* broken and has left the pool.
NoneTwice(lines) == \A i, j \in DOMAIN lines : lines[i] = lines[j] => i = j
Once(r) ==
  /\ \A c \in Ids : InLines(r, c) => ~Ran(r, c)
  /\ \A i, j \in DOMAIN ran[r] : ran[r][i].conn = ran[r][j].conn => i = j
  /\ \A c \in Ids : SentOn(r, c) /\ c # req[r].conn =>
       /\ req[r].retried /\ conns[c].broken
       /\ \A s \in Sessions : pool[s] # c
       /\ \A d \in Ids : SentOn(r, d) => d \in {c, req[r].conn}
  /\ \A c \in Ids : SentOn(r, c) /\ c = req[r].conn => req[r].pc \notin {"none", "send", "get"}
OnceInv ==
  /\ \A c \in Ids : NoneTwice(conns[c].lines)
  /\ \A r \in Requests : Once(r)

-----------------------------------------------------------------------------
(***************************************************************************)
(* Where a transaction is.                                                 *)
(***************************************************************************)

\* What BEGIN answers is so.
Begun(c) ==
  \/ conns[c].pc # "reply" /\ conns[c].replies = <<>> /\ conns[c].buf = <<>>
  \/ conns[c].txn \/ conns[c].broken
BegunInv ==
  \A c \in Ids : ~conns[c].shared =>
    \A r \in Requests : Uses(r, c) /\ StmtOf(r) = "begin" => Begun(c)

\* The connection a browser was told about has the transaction, unless it is broken or
\* a COMMIT is on its way.
Opened(c) ==
  \/ conns[c].txn \/ conns[c].broken
  \/ \E q \in Requests : Uses(q, c) /\ StmtOf(q) = "commit"
OpenInv ==
  \A s \in Sessions : open[s] # Nil =>
    /\ conns[open[s]].session = s
    /\ SharedIn(s) \/ Opened(open[s])

\* A statement meant for a transaction is sent there, or the connection is broken.
Meaning(r, m) ==
  /\ Running(r) => \/ req[r].conn = m /\ conns[m].txn
                   \/ conns[m].broken
  /\ InLines(r, m) => conns[m].txn
  /\ \A c \in Ids \ {m} : InLines(r, c) => conns[m].broken
  /\ \A i \in DOMAIN ran[r] : \/ ran[r][i].txn /\ ran[r][i].conn = m
                              \/ conns[m].broken /\ ran[r][i].conn # m
MeantInv ==
  \A r \in Requests : StmtOf(r) = "write" /\ req[r].meant # Nil =>
    /\ conns[req[r].meant].session = SessionOf(r)
    /\ SharedIn(SessionOf(r)) \/ conns[req[r].meant].dropped \/ Meaning(r, req[r].meant)

WebInv ==
  /\ WebTypes
  /\ PoolInv /\ UseInv /\ TrafficInv /\ AloneInv
  /\ RepliesReachTheirRequest
  /\ OnceInv
  /\ BegunInv /\ OpenInv /\ MeantInv

-----------------------------------------------------------------------------
(***************************************************************************)
(* What a step does to a connection.                                       *)
(***************************************************************************)
Kept(k, k2) ==
  k2.session = k.session /\ k2.shared = k.shared /\ k2.dropped = k.dropped

Executes(k, k2) ==
  /\ Kept(k, k2) /\ k2.broken = k.broken /\ k2.replies = k.replies /\ k2.buf = k.buf
  /\ k.pc = "recv" /\ k.lines # <<>> /\ k2.lines = Tail(k.lines) /\ k2.pc = "reply"
  /\ k2.answer \in Answers /\ k2.answer.req = Head(k.lines)
  /\ StmtOf(Head(k.lines)) = "begin" => k2.txn
  /\ StmtOf(Head(k.lines)) = "write" => k2.txn = k.txn

Answering(k, k2) ==
  /\ Kept(k, k2) /\ k2.broken = k.broken /\ k2.lines = k.lines /\ k2.buf = k.buf /\ k2.txn = k.txn
  /\ k.pc = "reply" /\ k2.pc # "reply"
  /\ \/ ~k.broken /\ k2.replies = Append(k.replies, k.answer)
     \/ k.broken /\ k2.replies = k.replies

Ending(k, k2) ==
  /\ Kept(k, k2) /\ k2.replies = k.replies /\ k2.buf = k.buf
  /\ k2.broken /\ k2.lines = <<>> /\ k2.pc \in {"ended", "left"}

Breaking(k, k2) ==
  /\ Kept(k, k2) /\ k2.buf = k.buf /\ k2.txn = k.txn /\ k2.pc = k.pc /\ k2.answer = k.answer
  /\ k2.broken
  /\ \E l \in 0..Len(k.lines) : k2.lines = SubSeq(k.lines, 1, l)
  /\ \E l \in 0..Len(k.replies) : k2.replies = SubSeq(k.replies, 1, l)

\* The client's thread changes its end only.
ServerEnd(k, k2) == k2.broken = k.broken /\ k2.pc = k.pc /\ k2.txn = k.txn /\ k2.answer = k.answer

Sending(k, k2, r) ==
  /\ Kept(k, k2) /\ ServerEnd(k, k2) /\ k2.replies = k.replies /\ k2.buf = k.buf
  /\ ~k.broken /\ k2.lines = Append(k.lines, r)

Receiving(k, k2) ==
  /\ Kept(k, k2) /\ ServerEnd(k, k2) /\ k2.lines = k.lines
  /\ \E n \in DOMAIN k.replies : /\ k2.buf = k.buf \o SubSeq(k.replies, 1, n)
                                 /\ k2.replies = SubSeq(k.replies, n + 1, Len(k.replies))

Taking(k, k2) ==
  /\ Kept(k, k2) /\ ServerEnd(k, k2) /\ k2.lines = k.lines /\ k2.replies = k.replies
  /\ k.buf # <<>> /\ k2.buf = Tail(k.buf)

Marking(k, k2) ==
  /\ ServerEnd(k, k2) /\ k2.lines = k.lines /\ k2.replies = k.replies /\ k2.buf = k.buf
  /\ k2.session = k.session /\ (k.shared => k2.shared) /\ (k.dropped => k2.dropped)

Changes(c, k) ==
  /\ k \in Connections /\ DOMAIN conns' = Ids /\ conns'[c] = k
  /\ \A d \in Ids \ {c} : conns'[d] = conns[d]
  /\ conns' \in Seq(Connections)

\* Sequences of one element, and shorter ones.
LEMMA ShortSeqs ==
  /\ \A a : Tail(<<a>>) = <<>> /\ Head(<<a>>) = a /\ Append(<<>>, a) = <<a>>
  /\ \A a : <<a>> # <<>> /\ Len(<<a>>) = 1
  /\ \A a : \A l \in 0..1 : SubSeq(<<a>>, 1, l) \in {<<>>, <<a>>}
  /\ \A l \in 0..0 : SubSeq(<<>>, 1, l) = <<>>
  /\ \A a : \A n \in DOMAIN <<a>> : /\ <<>> \o SubSeq(<<a>>, 1, n) = <<a>>
                                    /\ SubSeq(<<a>>, n + 1, Len(<<a>>)) = <<>>
<1>1. \A a : Tail(<<a>>) = <<>> /\ Head(<<a>>) = a /\ Append(<<>>, a) = <<a>>
  OBVIOUS
<1>2. \A a : <<a>> # <<>> /\ Len(<<a>>) = 1 /\ DOMAIN <<a>> = {1}
  OBVIOUS
<1>3. \A a : SubSeq(<<a>>, 1, 0) = <<>> /\ SubSeq(<<a>>, 1, 1) = <<a>> /\ SubSeq(<<a>>, 2, 1) = <<>>
  <2> TAKE a
  <2>1. <<a>> \in Seq({a}) /\ Len(<<a>>) = 1
    OBVIOUS
  <2>2. SubSeq(<<a>>, 1, 1) = <<a>>
    BY <2>1, SubSeqFull
  <2> QED
    BY <2>2, SubSeqEmpty
<1>4. \A a : <<>> \o <<a>> = <<a>>
  OBVIOUS
<1>5. SubSeq(<<>>, 1, 0) = <<>>
  OBVIOUS
<1>6. \A l \in 0..1 : l = 0 \/ l = 1
  OBVIOUS
<1>7. \A l \in 0..0 : l = 0
  OBVIOUS
<1> QED
  BY <1>1, <1>2, <1>3, <1>4, <1>5, <1>6, <1>7

\* The two parts into which a sequence is cut.
LEMMA PartsOfSeq ==
  ASSUME NEW S, NEW q \in Seq(S), NEW n \in DOMAIN q, NEW p \in Seq(S)
  PROVE  p \o SubSeq(q, 1, n) \in Seq(S) /\ SubSeq(q, n + 1, Len(q)) \in Seq(S)
<1>1. Len(q) \in Nat /\ n \in 1..Len(q) /\ \A i \in 1..Len(q) : q[i] \in S
  BY LenProperties, ElementOfSeq
<1>2. SubSeq(q, 1, n) \in Seq(S)
  <2>1. n \in Int /\ \A i \in 1..n : q[i] \in S
    BY <1>1
  <2> QED
    BY <2>1, SubSeqProperties
<1>3. SubSeq(q, n + 1, Len(q)) \in Seq(S)
  <2>1. n + 1 \in Int /\ Len(q) \in Int /\ \A i \in (n + 1)..Len(q) : q[i] \in S
    BY <1>1
  <2> QED
    BY <2>1, SubSeqProperties
<1> QED
  BY <1>2, <1>3, ConcatProperties

LEMMA PrefixOfSeq ==
  ASSUME NEW S, NEW q \in Seq(S), NEW n \in 0..Len(q)
  PROVE  SubSeq(q, 1, n) \in Seq(S)
<1>1. n \in Int /\ 1 \in Int /\ \A i \in 1..n : q[i] \in S
  BY LenProperties, ElementOfSeq
<1> QED
  BY <1>1, SubSeqProperties

LEMMA ConnSet ==
  ASSUME conns \in Seq(Connections), NEW c \in Ids, NEW k \in Connections,
         conns' = [conns EXCEPT ![c] = k]
  PROVE  Changes(c, k)
<1>1. Ids = 1..Len(conns)
  BY LenProperties DEF Ids
<1> QED
  BY <1>1, ExceptSeq, LenProperties DEF Changes, Ids

LEMMA ConnAdd ==
  ASSUME conns \in Seq(Connections), NEW k \in Connections, conns' = Append(conns, k)
  PROVE  /\ conns' \in Seq(Connections)
         /\ Len(conns) + 1 \notin Ids /\ DOMAIN conns' = Ids \cup {Len(conns) + 1}
         /\ conns'[Len(conns) + 1] = k /\ \A d \in Ids : conns'[d] = conns[d]
<1>1. Ids = 1..Len(conns) /\ Len(conns) \in Nat
  BY LenProperties DEF Ids
<1>2. /\ conns' \in Seq(Connections) /\ Len(conns') = Len(conns) + 1
      /\ \A d \in 1..Len(conns) : conns'[d] = conns[d]
      /\ conns'[Len(conns) + 1] = k
  BY AppendProperties
<1>3. DOMAIN conns' = 1..(Len(conns) + 1)
  BY <1>2, LenProperties
<1> QED
  BY <1>1, <1>2, <1>3

-----------------------------------------------------------------------------
(***************************************************************************)
(* The steps of the server's threads and of the network.                   *)
(***************************************************************************)
LEMMA ExecuteForm ==
  ASSUME WebTypes, NEW c \in Ids, Execute(c)
  PROVE  \E k : /\ Changes(c, k) /\ Executes(conns[c], k)
                /\ ran' = [ran EXCEPT ![Head(conns[c].lines)] =
                             Append(@, [conn |-> c, txn |-> conns[c].txn])]
<1> DEFINE r == Head(conns[c].lines)
           a == [req |-> r, ok |-> CASE StmtOf(r) = "begin" -> ~conns[c].txn
                                     [] StmtOf(r) = "commit" -> conns[c].txn
                                     [] OTHER -> TRUE]
           t == IF StmtOf(r) = "begin" THEN TRUE
                ELSE IF StmtOf(r) = "commit" THEN FALSE ELSE conns[c].txn
           k == [conns[c] EXCEPT !.lines = Tail(conns[c].lines), !.pc = "reply", !.txn = t,
                                 !.answer = a]
<1>1. conns[c] \in Connections /\ conns[c].lines # <<>> /\ conns[c].pc = "recv"
  BY ElementOfSeq, LenProperties DEF Execute, WebTypes, Ids
<1>2. r \in Requests /\ Tail(conns[c].lines) \in Seq(Requests)
  BY <1>1, HeadTailProperties DEF Connections
<1>3. a \in Answers /\ a.req = r
  <2>1. a.ok \in BOOLEAN
    BY <1>1 DEF Connections
  <2> QED
    BY <1>2, <2>1 DEF Answers
<1>4. t \in BOOLEAN /\ (StmtOf(r) = "begin" => t) /\ (StmtOf(r) = "write" => t = conns[c].txn)
  BY <1>1 DEF Connections
<1>5. conns' = [conns EXCEPT ![c] = k]
  BY DEF Execute
<1> HIDE DEF a, t
<1>6. k \in Connections /\ Executes(conns[c], k)
  BY <1>1, <1>2, <1>3, <1>4 DEF Connections, Executes, Kept
<1> HIDE DEF k
<1> QED
  BY <1>5, <1>6, ConnSet DEF WebTypes, Execute

LEMMA ReplyForm ==
  ASSUME WebTypes, TrafficInv, NEW c \in Ids, Reply(c)
  PROVE  \E k : Changes(c, k) /\ Answering(conns[c], k)
<1>1. conns[c] \in Connections /\ conns[c].pc = "reply" /\ conns[c].answer \in Answers
  <2>1. conns[c] \in Connections /\ conns[c].pc = "reply"
    BY ElementOfSeq, LenProperties DEF Reply, WebTypes, Ids
  <2>2. conns[c].answer \in AnswersOf(conns[c].session)
    BY <2>1 DEF TrafficInv, Belongs
  <2> QED
    BY <2>1, <2>2 DEF AnswersOf, RequestsOf, Answers
<1>2. CASE ~conns[c].broken /\ conns' = [conns EXCEPT ![c].replies = Append(@, conns[c].answer),
                                                      ![c].pc = "recv", ![c].answer = Nil]
  <2> DEFINE k == [conns[c] EXCEPT !.replies = Append(conns[c].replies, conns[c].answer),
                                   !.pc = "recv", !.answer = Nil]
  <2>1. Append(conns[c].replies, conns[c].answer) \in Seq(Answers)
    BY <1>1, AppendProperties DEF Connections
  <2>2. k \in Connections /\ Answering(conns[c], k)
    BY <1>1, <1>2, <2>1 DEF Connections, Answering, Kept
  <2>3. conns' = [conns EXCEPT ![c] = k]
    BY <1>2
  <2> HIDE DEF k
  <2> QED
    BY <2>2, <2>3, ConnSet DEF WebTypes
<1>3. CASE conns[c].broken /\ \E pc \in {"recv", "end"} :
             conns' = [conns EXCEPT ![c].pc = pc, ![c].answer = Nil]
  <2>1. PICK pc \in {"recv", "end"} : conns' = [conns EXCEPT ![c].pc = pc, ![c].answer = Nil]
    BY <1>3
  <2> DEFINE k == [conns[c] EXCEPT !.pc = pc, !.answer = Nil]
  <2>2. k \in Connections /\ Answering(conns[c], k)
    BY <1>1, <1>3 DEF Connections, Answering, Kept
  <2>3. conns' = [conns EXCEPT ![c] = k]
    BY <2>1
  <2> HIDE DEF k
  <2> QED
    BY <2>2, <2>3, ConnSet DEF WebTypes
<1> QED
  BY <1>2, <1>3 DEF Reply

LEMMA EndedForm ==
  ASSUME conns \in Seq(Connections), NEW c \in Ids
  PROVE  /\ Ended(c) \in Connections /\ Ending(conns[c], Ended(c))
         /\ [Ended(c) EXCEPT !.txn = FALSE] = Ended(c)
<1>1. conns[c] \in Connections
  BY ElementOfSeq, LenProperties DEF Ids
<1>2. Ended(c) \in Connections /\ Ended(c).txn = FALSE
  BY <1>1, EmptySeq DEF Connections, Ended
<1>3. Ending(conns[c], Ended(c))
  BY <1>1 DEF Connections, Ended, Ending, Kept
<1> QED
  BY <1>2, <1>3 DEF Connections

LEMMA LeftForm ==
  ASSUME conns \in Seq(Connections), NEW c \in Ids
  PROVE  Left(c) \in Connections /\ Ending(conns[c], Left(c))
<1>1. conns[c] \in Connections
  BY ElementOfSeq, LenProperties DEF Ids
<1>2. Left(c) \in Connections
  BY <1>1, EmptySeq DEF Connections, Left
<1>3. Ending(conns[c], Left(c))
  BY <1>1 DEF Connections, Left, Ending, Kept
<1> QED
  BY <1>2, <1>3

LEMMA HangUpForm ==
  ASSUME WebTypes, NEW c \in Ids, HangUp(c)
  PROVE  \E k : Changes(c, k) /\ Ending(conns[c], k)
<1>1. PICK k \in Endings(c) : conns' = [conns EXCEPT ![c] = k]
  BY DEF HangUp
<1>2. k \in Connections /\ Ending(conns[c], k)
  BY <1>1, EndedForm, LeftForm DEF Endings, WebTypes
<1> QED
  BY <1>1, <1>2, ConnSet DEF WebTypes

LEMMA BreakForm ==
  ASSUME WebTypes, NEW c \in Ids, Break(c)
  PROVE  \E k : Changes(c, k) /\ Breaking(conns[c], k)
<1>1. conns[c] \in Connections
  BY ElementOfSeq, LenProperties DEF WebTypes, Ids
<1>2. PICK l \in Prefixes(conns[c].lines), p \in Prefixes(conns[c].replies) :
        conns' = [conns EXCEPT ![c].broken = TRUE, ![c].lines = l, ![c].replies = p]
  BY DEF Break
<1>3. /\ \E n \in 0..Len(conns[c].lines) : l = SubSeq(conns[c].lines, 1, n)
      /\ \E n \in 0..Len(conns[c].replies) : p = SubSeq(conns[c].replies, 1, n)
  BY DEF Prefixes
<1>5. l \in Seq(Requests) /\ p \in Seq(Answers)
  BY <1>1, <1>3, PrefixOfSeq DEF Connections
<1> DEFINE k == [conns[c] EXCEPT !.broken = TRUE, !.lines = l, !.replies = p]
<1>6. k \in Connections /\ Breaking(conns[c], k)
  BY <1>1, <1>3, <1>5 DEF Connections, Breaking, Kept
<1>7. conns' = [conns EXCEPT ![c] = k]
  BY <1>2
<1> HIDE DEF k
<1> QED
  BY <1>6, <1>7, ConnSet DEF WebTypes

LEMMA CrashForm ==
  ASSUME WebTypes, Crash
  PROVE  /\ conns' \in Seq(Connections) /\ DOMAIN conns' = Ids
         /\ \A c \in Ids : Ending(conns[c], conns'[c])
<1>1. conns' = [c \in Ids |-> Ended(c)]
  BY EndedForm DEF Crash, WebTypes, Ids
<1>2. Ids = 1..Len(conns) /\ Len(conns) \in Nat
  BY LenProperties DEF WebTypes, Ids
<1>3. \A c \in Ids : Ended(c) \in Connections /\ Ending(conns[c], Ended(c))
  BY EndedForm DEF WebTypes
<1>4. conns' \in Seq(Connections)
  BY <1>1, <1>2, <1>3
<1> QED
  BY <1>1, <1>3, <1>4

-----------------------------------------------------------------------------
(***************************************************************************)
(* The steps of a request's thread.                                        *)
(***************************************************************************)
Becomes(r, pc, conn, retried, meant) ==
  /\ req' \in [Requests -> States(Ids')]
  /\ \A q \in Requests \ {r} : req'[q] = req[q]
  /\ req'[r].pc = pc /\ req'[r].conn = conn /\ req'[r].retried = retried /\ req'[r].meant = meant

\* What the browser knows of its transaction after a reply.
Tells(r, ok) ==
  /\ open' \in [Sessions -> Ids \cup {Nil}]
  /\ \A s \in Sessions :
       \/ open'[s] = open[s] /\ ~(s = SessionOf(r) /\ StmtOf(r) = "commit")
       \/ s = SessionOf(r) /\ StmtOf(r) = "commit" /\ open'[s] = Nil
       \/ s = SessionOf(r) /\ StmtOf(r) = "begin" /\ ok /\ open'[s] = req[r].conn

Ends(r, reply) ==
  /\ Becomes(r, "done", req[r].conn, req[r].retried, req[r].meant)
  /\ req'[r].reply = reply /\ Tells(r, reply.ok)

Fails(r) ==
  \/ Ends(r, Error)
  \/ /\ ~req[r].retried /\ SessionOf(r) # Nil /\ open' = open
     /\ Becomes(r, "pop", req[r].conn, FALSE, req[r].meant)

Goes(r, pc) ==
  Becomes(r, pc, req[r].conn, req[r].retried, req[r].meant) /\ open' = open

LEMMA RequestTypes ==
  ASSUME WebTypes, NEW r \in Requests
  PROVE  /\ SessionOf(r) \in Sessions \cup {Nil}
         /\ SessionOf(r) # Nil <=> SessionOf(r) \in Sessions
         /\ StmtOf(r) \in {"begin", "write", "commit"}
         /\ req[r] \in States(Ids) /\ req[r].pc \in RequestPCs
         /\ req[r].conn \in Ids \cup {Nil} /\ req[r].meant \in Ids \cup {Nil}
         /\ req[r].retried \in BOOLEAN
<1>1. plan \in [Requests -> [session : Sessions \cup {Nil}, after : SUBSET Requests,
                             stmt : {"begin", "write", "commit"}]]
  BY PlansAssumption DEF WebTypes
<1>2. SessionOf(r) \in Sessions \cup {Nil} /\ StmtOf(r) \in {"begin", "write", "commit"}
  BY <1>1 DEF SessionOf, StmtOf
<1>3. req[r] \in States(Ids)
  BY DEF WebTypes
<1>4. SessionOf(r) # Nil <=> SessionOf(r) \in Sessions
  BY <1>2, NilAssumption
<1> QED
  BY <1>2, <1>3, <1>4 DEF States

\* A record in the place of another.
LEMMA ReqSet ==
  ASSUME WebTypes, NEW r \in Requests, NEW q \in States(Ids'), Ids \subseteq Ids',
         req' = [req EXCEPT ![r] = q]
  PROVE  Becomes(r, q.pc, q.conn, q.retried, q.meant) /\ req'[r] = q
<1>1. req \in [Requests -> States(Ids)]
  BY DEF WebTypes
<1>2. \A u \in Requests : req[u] \in States(Ids')
  BY <1>1 DEF States
<1> QED
  BY <1>1, <1>2 DEF Becomes

LEMMA GotoForm ==
  ASSUME WebTypes, NEW r \in Requests, NEW pc \in RequestPCs, Goto(r, pc), open' = open,
         Ids' = Ids
  PROVE  Goes(r, pc)
<1> DEFINE q == [req[r] EXCEPT !.pc = pc]
<1>1. req[r] \in States(Ids)
  BY RequestTypes
<1>2. q \in States(Ids) /\ q.pc = pc /\ q.conn = req[r].conn /\ q.retried = req[r].retried
      /\ q.meant = req[r].meant
  BY <1>1 DEF States
<1>3. req' = [req EXCEPT ![r] = q]
  BY DEF Goto
<1> HIDE DEF q
<1> QED
  BY <1>2, <1>3, ReqSet DEF Goes

LEMMA DoneForm ==
  ASSUME WebTypes, NEW r \in Requests, NEW reply \in Answers \cup {Error}, Done(r, reply),
         Ids' = Ids
  PROVE  Ends(r, reply)
<1> DEFINE q == [req[r] EXCEPT !.pc = "done", !.reply = reply]
<1>1. req[r] \in States(Ids) /\ req[r].conn \in Ids \cup {Nil}
  BY RequestTypes
<1>2. q \in States(Ids) /\ q.pc = "done" /\ q.conn = req[r].conn /\ q.retried = req[r].retried
      /\ q.meant = req[r].meant /\ q.reply = reply
  BY <1>1 DEF States, RequestPCs
<1>3. req' = [req EXCEPT ![r] = q]
  BY DEF Done
<1>4. Tells(r, reply.ok)
  <2>1. open \in [Sessions -> Ids \cup {Nil}] /\ open' = Told(r, reply)
    BY DEF WebTypes, Done
  <2>2. CASE SessionOf(r) = Nil
    BY <2>1, <2>2, NilAssumption DEF Told, Tells
  <2>3. CASE SessionOf(r) # Nil
    <3>1. SessionOf(r) \in Sessions
      BY <2>3, RequestTypes
    <3> DEFINE v == IF StmtOf(r) = "begin" /\ reply.ok THEN req[r].conn
                    ELSE IF StmtOf(r) = "commit" THEN Nil ELSE open[SessionOf(r)]
    <3>2. open' = [open EXCEPT ![SessionOf(r)] = v]
      BY <2>1, <2>3 DEF Told
    <3>3. v \in Ids \cup {Nil}
      BY <1>1, <2>1, <3>1
    <3> QED
      BY <2>1, <3>1, <3>2, <3>3 DEF Tells
  <2> QED
    BY <2>2, <2>3
<1> HIDE DEF q
<1> QED
  BY <1>2, <1>3, <1>4, ReqSet DEF Ends

LEMMA FailedForm ==
  ASSUME WebTypes, NEW r \in Requests, Failed(r), Ids' = Ids
  PROVE  Fails(r)
<1>1. CASE Done(r, Error)
  BY <1>1, DoneForm DEF Fails
<1>2. CASE ~(req[r].retried \/ SessionOf(r) = Nil) /\ Goto(r, "pop") /\ open' = open
  <2>1. Goes(r, "pop") /\ req[r].retried = FALSE
    BY <1>2, GotoForm, RequestTypes DEF RequestPCs
  <2> QED
    BY <1>2, <2>1 DEF Fails, Goes
<1> QED
  BY <1>1, <1>2 DEF Failed

\* The three outcomes of _get_client.
GetPooled(r, c) ==
  /\ SessionOf(r) \in Sessions /\ c \in Ids /\ pool[SessionOf(r)] = c
  /\ Becomes(r, "send", c, req[r].retried, Meant(r))
  /\ \E k : /\ Changes(c, k) /\ Marking(conns[c], k) /\ k.dropped = conns[c].dropped
            /\ k.shared <=> (conns[c].shared \/ \E q \in Requests : Uses(q, c))
  /\ pool' = pool /\ open' = open

GetNew(r, c) ==
  /\ Becomes(r, "send", c, req[r].retried, Meant(r))
  /\ conns' \in Seq(Connections) /\ c \notin Ids /\ c # Nil /\ DOMAIN conns' = Ids \cup {c}
  /\ conns'[c] = NewConn(SessionOf(r)) /\ \A d \in Ids : conns'[d] = conns[d]
  /\ pool' \in [Sessions -> Ids' \cup {Nil}]
  /\ \A s \in Sessions : IF s = SessionOf(r) THEN pool[s] = Nil /\ pool'[s] = c
                         ELSE pool'[s] = pool[s]
  /\ open' = open

GetNone(r) ==
  Fails(r) /\ conns' = conns /\ pool' = pool /\ (SessionOf(r) \in Sessions => pool[SessionOf(r)] = Nil)

LEMMA GetClientForms ==
  ASSUME WebTypes, NEW r \in Requests, GetClient(r)
  PROVE  /\ (\E c : GetPooled(r, c) \/ GetNew(r, c)) \/ GetNone(r)
         /\ UNCHANGED ServerVars
<1> DEFINE s == SessionOf(r)
           c == Pooled(s)
<1>0. req[r] \in States(Ids) /\ s \in Sessions \cup {Nil}
  BY RequestTypes
<1>1. /\ conns \in Seq(Connections) /\ pool \in [Sessions -> Ids \cup {Nil}]
      /\ req[r] \in States(Ids) /\ s \in Sessions \cup {Nil}
      /\ open \in [Sessions -> Ids \cup {Nil}]
  BY <1>0 DEF WebTypes
<1>2. Meant(r) \in Ids \cup {Nil}
  BY <1>1, RequestTypes DEF Meant
<1>3. /\ c # Nil => s \in Sessions /\ c \in Ids /\ pool[s] = c
      /\ c = Nil => (s \in Sessions => pool[s] = Nil)
  BY <1>1, NilAssumption DEF Pooled
<1>4. CASE /\ c # Nil
           /\ req' = [req EXCEPT ![r].pc = "send", ![r].conn = c, ![r].meant = Meant(r)]
           /\ conns' = [conns EXCEPT ![c].shared = @ \/ \E q \in Requests : Uses(q, c)]
           /\ UNCHANGED <<pool, open>>
  <2> DEFINE k == [conns[c] EXCEPT !.shared = conns[c].shared \/ \E q \in Requests : Uses(q, c)]
             q == [req[r] EXCEPT !.pc = "send", !.conn = c, !.meant = Meant(r)]
  <2>1. conns[c] \in Connections
    BY <1>1, <1>3, <1>4, ElementOfSeq, LenProperties DEF Ids
  <2>2. /\ k \in Connections /\ Marking(conns[c], k) /\ k.dropped = conns[c].dropped
        /\ k.shared <=> (conns[c].shared \/ \E u \in Requests : Uses(u, c))
    BY <2>1 DEF Connections, Marking, ServerEnd
  <2>3. /\ q \in States(Ids) /\ q.pc = "send" /\ q.conn = c /\ q.retried = req[r].retried
        /\ q.meant = Meant(r)
    BY <1>1, <1>2, <1>3, <1>4 DEF States, RequestPCs
  <2>4. conns' = [conns EXCEPT ![c] = k] /\ req' = [req EXCEPT ![r] = q]
    BY <1>4
  <2> HIDE DEF k, q, c
  <2>5. Changes(c, k) /\ Ids' = Ids
    BY <1>1, <1>3, <1>4, <2>2, <2>4, ConnSet DEF Changes, Ids
  <2>6. Becomes(r, "send", c, req[r].retried, Meant(r))
    BY <2>3, <2>4, <2>5, ReqSet
  <2>7. GetPooled(r, c)
    BY <1>3, <1>4, <2>2, <2>5, <2>6 DEF GetPooled
  <2> QED
    BY <2>7 DEF GetClient
<1>5. CASE /\ c = Nil /\ up
           /\ conns' = Append(conns, NewConn(s))
           /\ pool' = IF s = Nil THEN pool ELSE [pool EXCEPT ![s] = Len(conns) + 1]
           /\ req' = [req EXCEPT ![r].pc = "send", ![r].conn = Len(conns) + 1, ![r].meant = Meant(r)]
           /\ UNCHANGED open
  <2> DEFINE d == Len(conns) + 1
             q == [req[r] EXCEPT !.pc = "send", !.conn = d, !.meant = Meant(r)]
  <2>1. NewConn(s) \in Connections
    BY <1>1, EmptySeq DEF NewConn, Connections
  <2>2. /\ conns' \in Seq(Connections) /\ d \notin Ids /\ DOMAIN conns' = Ids \cup {d}
        /\ conns'[d] = NewConn(s) /\ \A e \in Ids : conns'[e] = conns[e]
    BY <1>1, <1>5, <2>1, ConnAdd
  <2>3. Ids' = Ids \cup {d} /\ d # Nil
    BY <1>1, <2>2, LenProperties, NilAssumption DEF Ids
  <2>4. /\ q \in States(Ids') /\ q.pc = "send" /\ q.conn = d /\ q.retried = req[r].retried
        /\ q.meant = Meant(r)
    BY <1>1, <1>2, <2>3 DEF States, RequestPCs
  <2>5. req' = [req EXCEPT ![r] = q]
    BY <1>5
  <2>6. Becomes(r, "send", d, req[r].retried, Meant(r))
    <3>1. Ids \subseteq Ids'
      BY <2>3
    <3> HIDE DEF q, d
    <3> QED
      BY <3>1, <2>4, <2>5, ReqSet
  <2>7. /\ pool' \in [Sessions -> Ids' \cup {Nil}]
        /\ \A t \in Sessions : IF t = s THEN pool[t] = Nil /\ pool'[t] = d ELSE pool'[t] = pool[t]
    <3>1. pool \in [Sessions -> Ids' \cup {Nil}] /\ d \in Ids' /\ c = Nil
      BY <1>1, <1>5, <2>3
    <3>2. CASE s = Nil
      <4>1. pool' = pool /\ s \notin Sessions
        BY <1>5, <3>2, NilAssumption
      <4> QED
        BY <3>1, <4>1
    <3>3. CASE s \in Sessions
      <4>1. pool' = [pool EXCEPT ![s] = d] /\ pool[s] = Nil
        BY <1>3, <1>5, <3>1, <3>3, NilAssumption
      <4> HIDE DEF d, c
      <4> QED
        BY <3>1, <3>3, <4>1
    <3> QED
      BY <1>1, <3>2, <3>3
  <2>8. GetNew(r, d)
    BY <1>5, <2>2, <2>3, <2>6, <2>7 DEF GetNew
  <2> QED
    BY <2>8 DEF GetClient
<1>6. CASE c = Nil /\ ~up /\ Failed(r) /\ UNCHANGED <<conns, pool>>
  <2>1. Ids' = Ids
    BY <1>6 DEF Ids
  <2> QED
    BY <1>3, <1>6, <2>1, FailedForm DEF GetNone, GetClient
<1> QED
  BY <1>4, <1>5, <1>6 DEF GetClient

Popped(r, k) ==
  LET s == SessionOf(r) IN
  /\ s \in Sessions /\ pool' = [pool EXCEPT ![s] = Nil] /\ open' = open
  /\ At(r, "pop") /\ Becomes(r, "get", Nil, TRUE, req[r].meant)
  /\ \/ conns' = conns /\ pool[s] \in {Nil, req[r].conn}
     \/ /\ pool[s] \in Ids \ {req[r].conn}
        /\ Changes(pool[s], k) /\ Marking(conns[pool[s]], k)
        /\ k.dropped /\ k.shared = conns[pool[s]].shared

LEMMA PopForm ==
  ASSUME WebTypes, UseInv, NEW r \in Requests, Pop(r)
  PROVE  (\E k : Popped(r, k)) /\ UNCHANGED ServerVars
<1> DEFINE s == SessionOf(r)
           c == pool[s]
           q == [req[r] EXCEPT !.pc = "get", !.retried = TRUE, !.conn = Nil]
           k == [conns[c] EXCEPT !.dropped = TRUE]
<1>1. s \in Sessions
  BY RequestTypes DEF UseInv, Use, Pop, At
<1>2. c \in Ids \cup {Nil} /\ conns \in Seq(Connections) /\ req[r] \in States(Ids)
  BY <1>1, RequestTypes DEF WebTypes
<1>3. q \in States(Ids) /\ q.pc = "get" /\ q.conn = Nil /\ q.retried = TRUE /\ q.meant = req[r].meant
  BY <1>2 DEF States, RequestPCs
<1>4. req' = [req EXCEPT ![r] = q]
  BY DEF Pop
<1>5. ASSUME Ids' = Ids PROVE Becomes(r, "get", Nil, TRUE, req[r].meant)
  <2>1. Ids \subseteq Ids' /\ q \in States(Ids')
    BY <1>3, <1>5
  <2> HIDE DEF q
  <2> QED
    BY <1>3, <1>4, <2>1, ReqSet
<1>6. CASE c \in {Nil, req[r].conn}
  <2>1. conns' = conns /\ Ids' = Ids
    BY <1>6 DEF Pop, Ids
  <2> QED
    BY <1>1, <1>5, <1>6, <2>1 DEF Pop, Popped
<1>7. CASE c \notin {Nil, req[r].conn}
  <2>1. conns[c] \in Connections /\ c \in Ids
    BY <1>2, <1>7, ElementOfSeq, LenProperties DEF Ids
  <2>2. k \in Connections /\ Marking(conns[c], k) /\ k.dropped /\ k.shared = conns[c].shared
    BY <2>1 DEF Connections, Marking, ServerEnd
  <2>3. conns' = [conns EXCEPT ![c] = k]
    BY <1>7 DEF Pop
  <2> HIDE DEF k
  <2>4. Changes(c, k) /\ Ids' = Ids
    BY <1>2, <2>1, <2>2, <2>3, ConnSet DEF Changes, Ids
  <2>5. Popped(r, k)
    BY <1>1, <1>5, <1>7, <2>1, <2>2, <2>4 DEF Pop, Popped
  <2> QED
    BY <2>5 DEF Pop
<1> QED
  BY <1>6, <1>7

\* Sending, receiving and taking, on the connection of the request.
Sent(r, k) ==
  LET c == req[r].conn IN
  /\ At(r, "send") /\ c \in Ids /\ pool' = pool
  /\ \/ Changes(c, k) /\ Sending(conns[c], k, r) /\ Goes(r, "check")
     \/ conns' = conns /\ conns[c].broken /\ (Goes(r, "check") \/ Fails(r))

Checked(r) ==
  LET c == req[r].conn IN
  /\ At(r, "check") /\ c \in Ids /\ pool' = pool /\ conns' = conns
  /\ \/ conns[c].buf = <<>> /\ Goes(r, "recv")
     \/ conns[c].buf # <<>> /\ Goes(r, "take")

Received(r, k) ==
  LET c == req[r].conn IN
  /\ At(r, "recv") /\ c \in Ids /\ pool' = pool
  /\ \/ Changes(c, k) /\ Receiving(conns[c], k) /\ Goes(r, "check")
     \/ conns' = conns /\ conns[c].broken /\ conns[c].replies = <<>> /\ Fails(r)

Took(r, k) ==
  LET c == req[r].conn IN
  /\ At(r, "take") /\ c \in Ids /\ pool' = pool
  /\ \/ Changes(c, k) /\ Taking(conns[c], k) /\ Ends(r, Head(conns[c].buf))
     \/ conns' = conns /\ conns[c].buf = <<>> /\ Ends(r, Error)

\* A request that sends or waits has a connection.
LEMMA HasConnection ==
  ASSUME WebTypes, UseInv, NEW r \in Requests, req[r].pc \in {"send"} \cup Waiting
  PROVE  req[r].conn \in Ids /\ conns[req[r].conn] \in Connections
<1>1. req[r].conn \in Ids
  BY RequestTypes DEF UseInv, Use
<1> QED
  BY <1>1, ElementOfSeq, LenProperties DEF WebTypes, Ids

LEMMA SendForm ==
  ASSUME WebTypes, UseInv, NEW r \in Requests, Send(r)
  PROVE  (\E k : Sent(r, k)) /\ UNCHANGED ServerVars
<1> DEFINE c == req[r].conn
<1>1. c \in Ids /\ conns[c] \in Connections
  BY HasConnection DEF Send, At
<1>2. CASE /\ ~conns[c].broken
           /\ conns' = [conns EXCEPT ![c].lines = Append(@, r)]
           /\ Goto(r, "check") /\ UNCHANGED open
  <2> DEFINE k == [conns[c] EXCEPT !.lines = Append(conns[c].lines, r)]
  <2>1. Append(conns[c].lines, r) \in Seq(Requests)
    BY <1>1, AppendProperties DEF Connections
  <2>2. k \in Connections /\ Sending(conns[c], k, r)
    BY <1>1, <1>2, <2>1 DEF Connections, Sending, Kept, ServerEnd
  <2>3. conns' = [conns EXCEPT ![c] = k]
    BY <1>2
  <2> HIDE DEF k
  <2>4. Changes(c, k) /\ Ids' = Ids
    BY <1>1, <2>2, <2>3, ConnSet DEF Changes, Ids, WebTypes
  <2>5. Goes(r, "check")
    BY <1>2, <2>4, GotoForm DEF RequestPCs, Waiting
  <2>6. Sent(r, k)
    BY <1>1, <2>2, <2>4, <2>5 DEF Send, Sent
  <2> QED
    BY <2>6 DEF Send
<1>3. CASE conns[c].broken /\ Goto(r, "check") /\ UNCHANGED <<conns, open>>
  <2>1. Goes(r, "check")
    BY <1>3, GotoForm DEF RequestPCs, Waiting, Ids
  <2> QED
    BY <1>1, <1>3, <2>1 DEF Send, Sent
<1>4. CASE conns[c].broken /\ Failed(r) /\ UNCHANGED conns
  <2>1. Fails(r)
    BY <1>4, FailedForm DEF Ids
  <2> QED
    BY <1>1, <1>4, <2>1 DEF Send, Sent
<1> QED
  BY <1>2, <1>3, <1>4 DEF Send

LEMMA CheckForm ==
  ASSUME WebTypes, UseInv, NEW r \in Requests, Check(r)
  PROVE  Checked(r) /\ UNCHANGED ServerVars
<1>1. req[r].conn \in Ids
  BY HasConnection DEF Check, At, Waiting
<1>2. Ids' = Ids
  BY DEF Check, Ids
<1>3. CASE conns[req[r].conn].buf = <<>>
  BY <1>1, <1>2, <1>3, GotoForm DEF Check, Checked, RequestPCs, Waiting
<1>4. CASE conns[req[r].conn].buf # <<>>
  BY <1>1, <1>2, <1>4, GotoForm DEF Check, Checked, RequestPCs, Waiting
<1> QED
  BY <1>3, <1>4

LEMMA RecvForm ==
  ASSUME WebTypes, UseInv, NEW r \in Requests, Recv(r)
  PROVE  (\E k : Received(r, k)) /\ UNCHANGED ServerVars
<1> DEFINE c == req[r].conn
           replies == conns[c].replies
<1>1. c \in Ids /\ conns[c] \in Connections
  BY HasConnection DEF Recv, At, Waiting
<1>2. ASSUME NEW n \in DOMAIN replies,
             conns' = [conns EXCEPT ![c].buf = @ \o SubSeq(replies, 1, n),
                                    ![c].replies = SubSeq(replies, n + 1, Len(replies))],
             Goto(r, "check"), UNCHANGED open
      PROVE  \E k : Received(r, k)
  <2> DEFINE b == conns[c].buf \o SubSeq(replies, 1, n)
             rest == SubSeq(replies, n + 1, Len(replies))
             k == [conns[c] EXCEPT !.buf = b, !.replies = rest]
  <2>1. replies \in Seq(Answers) /\ conns[c].buf \in Seq(Answers)
    BY <1>1 DEF Connections
  <2>2. b \in Seq(Answers) /\ rest \in Seq(Answers)
    BY <2>1, PartsOfSeq
  <2>3. k \in Connections /\ Receiving(conns[c], k)
    <3> HIDE DEF b, rest
    <3>1. k \in Connections /\ k.buf = b /\ k.replies = rest /\ k.lines = conns[c].lines
          /\ Kept(conns[c], k) /\ ServerEnd(conns[c], k)
      BY <1>1, <2>2 DEF Connections, Kept, ServerEnd
    <3> HIDE DEF k
    <3> QED
      BY <3>1 DEF Receiving, b, rest
  <2>4. conns' = [conns EXCEPT ![c] = k]
    BY <1>2
  <2> HIDE DEF k
  <2>5. Changes(c, k) /\ Ids' = Ids
    BY <1>1, <2>3, <2>4, ConnSet DEF Changes, Ids, WebTypes
  <2>6. Goes(r, "check")
    BY <1>2, <2>5, GotoForm DEF RequestPCs, Waiting
  <2> QED
    BY <1>1, <2>3, <2>5, <2>6 DEF Recv, Received
<1>3. CASE replies = <<>> /\ conns[c].broken /\ Failed(r) /\ UNCHANGED conns
  <2>1. Fails(r)
    BY <1>3, FailedForm DEF Ids
  <2> QED
    BY <1>1, <1>3, <2>1 DEF Recv, Received
<1> QED
  BY <1>2, <1>3 DEF Recv

LEMMA TakeForm ==
  ASSUME WebTypes, UseInv, NEW r \in Requests, Take(r)
  PROVE  (\E k : Took(r, k)) /\ UNCHANGED ServerVars
<1> DEFINE c == req[r].conn
<1>1. c \in Ids /\ conns[c] \in Connections
  BY HasConnection DEF Take, At, Waiting
<1>2. CASE conns[c].buf = <<>>
  <2>1. conns' = conns /\ Ids' = Ids /\ Done(r, Error)
    BY <1>2 DEF Take, Unexpected, Ids
  <2> QED
    BY <1>1, <1>2, <2>1, DoneForm DEF Take, Took
<1>3. CASE conns[c].buf # <<>>
  <2> DEFINE k == [conns[c] EXCEPT !.buf = Tail(conns[c].buf)]
  <2>1. Head(conns[c].buf) \in Answers /\ Tail(conns[c].buf) \in Seq(Answers)
    BY <1>1, <1>3, HeadTailProperties DEF Connections
  <2>2. k \in Connections /\ Taking(conns[c], k)
    BY <1>1, <1>3, <2>1 DEF Connections, Taking, Kept, ServerEnd
  <2>3. conns' = [conns EXCEPT ![c] = k] /\ Done(r, Head(conns[c].buf))
    BY <1>3 DEF Take
  <2> HIDE DEF k
  <2>4. Changes(c, k) /\ Ids' = Ids
    BY <1>1, <2>2, <2>3, ConnSet DEF Changes, Ids, WebTypes
  <2>5. Ends(r, Head(conns[c].buf))
    BY <2>1, <2>3, <2>4, DoneForm
  <2> QED
    BY <1>1, <2>2, <2>4, <2>5 DEF Take, Took
<1> QED
  BY <1>2, <1>3

-----------------------------------------------------------------------------
(***************************************************************************)
(* What each step keeps of one connection.                                 *)
(***************************************************************************)
Rests(k, k2) == k2 = k \/ Answering(k, k2) \/ Ending(k, k2) \/ Breaking(k, k2)
Moves(k, k2) == Rests(k, k2) \/ Executes(k, k2)

LEMMA QuietStays ==
  ASSUME NEW k \in Connections, NEW k2 \in Connections, Quiet(k), Moves(k, k2)
  PROVE  Quiet(k2)
<1>1. CASE k2 = k
  BY <1>1
<1>2. CASE Answering(k, k2)
  BY <1>2 DEF Answering, Quiet
<1>3. CASE Ending(k, k2)
  BY <1>3 DEF Ending, Quiet
<1>4. CASE Breaking(k, k2)
  <2>1. PICK l \in 0..Len(k.lines) : k2.lines = SubSeq(k.lines, 1, l)
    BY <1>4 DEF Breaking
  <2>2. PICK n \in 0..Len(k.replies) : k2.replies = SubSeq(k.replies, 1, n)
    BY <1>4 DEF Breaking
  <2>3. k2.replies = <<>>
    <3>1. n \in 0..0
      BY <2>2 DEF Quiet
    <3> QED
      BY <2>2, <3>1, ShortSeqs DEF Quiet
  <2>4. CASE k.lines = <<>>
    <3>1. l \in 0..0
      BY <2>1, <2>4
    <3>2. k2.lines = <<>>
      BY <2>1, <2>4, <3>1, ShortSeqs
    <3> QED
      BY <1>4, <2>3, <3>2 DEF Quiet, Breaking
  <2>5. ASSUME NEW q \in Requests, k.lines = <<q>> PROVE Quiet(k2)
    <3>1. l \in 0..1
      BY <2>1, <2>5, ShortSeqs
    <3>2. k2.lines \in {<<>>, <<q>>}
      BY <2>1, <2>5, <3>1, ShortSeqs
    <3> QED
      BY <1>4, <2>3, <3>2 DEF Quiet, Breaking
  <2> QED
    BY <2>4, <2>5 DEF Quiet
<1>5. CASE Executes(k, k2)
  <2>1. PICK q \in Requests : k.lines = <<q>> /\ k.broken
    BY <1>5 DEF Executes, Quiet
  <2>2. k2.lines = <<>>
    BY <1>5, <2>1, ShortSeqs DEF Executes
  <2> QED
    BY <1>5, <2>1, <2>2 DEF Executes, Quiet
<1> QED
  BY <1>1, <1>2, <1>3, <1>4, <1>5 DEF Moves, Rests

LEMMA AwaitsStays ==
  ASSUME NEW k \in Connections, NEW k2 \in Connections, NEW r \in Requests,
         k.pc = "reply" => k.answer \in Answers, Awaits(k, r), Moves(k, k2)
  PROVE  Awaits(k2, r) \/ Quiet(k2)
<1>1. CASE k2 = k
  BY <1>1
<1>2. CASE Answering(k, k2)
  <2>1. k.lines = <<>> /\ k.answer \in Answers /\ k.answer.req = r /\ k.replies = <<>> /\ k.buf = <<>>
    BY <1>2 DEF Answering, Awaits
  <2>2. CASE k.broken
    BY <1>2, <2>1, <2>2 DEF Answering, Quiet
  <2>3. CASE ~k.broken
    BY <1>2, <2>1, <2>3, ShortSeqs DEF Answering, Awaits
  <2> QED
    BY <2>2, <2>3
<1>3. CASE Ending(k, k2)
  <2>1. CASE k.replies = <<>> /\ k.buf = <<>>
    BY <1>3, <2>1 DEF Ending, Quiet
  <2>2. CASE ~(k.replies = <<>> /\ k.buf = <<>>)
    BY <1>3, <2>2 DEF Ending, Awaits
  <2> QED
    BY <2>1, <2>2
<1>4. CASE Breaking(k, k2)
  <2>1. PICK l \in 0..Len(k.lines) : k2.lines = SubSeq(k.lines, 1, l)
    BY <1>4 DEF Breaking
  <2>2. PICK n \in 0..Len(k.replies) : k2.replies = SubSeq(k.replies, 1, n)
    BY <1>4 DEF Breaking
  <2>3. k2.broken /\ k2.buf = k.buf /\ k2.pc = k.pc /\ k2.answer = k.answer
    BY <1>4 DEF Breaking
  <2>4. k.replies = <<>> => k2.replies = <<>>
    <3>1. k.replies = <<>> => n \in 0..0
      BY <2>2
    <3> QED
      BY <2>2, <3>1, ShortSeqs
  <2>5. k.lines = <<>> => k2.lines = <<>>
    <3>1. k.lines = <<>> => l \in 0..0
      BY <2>1
    <3> QED
      BY <2>1, <3>1, ShortSeqs
  <2>6. CASE k.lines = <<r>> /\ k.pc # "reply" /\ k.replies = <<>> /\ k.buf = <<>>
    <3>1. l \in 0..1
      BY <2>1, <2>6, ShortSeqs
    <3>2. k2.lines \in {<<>>, <<r>>}
      BY <2>1, <2>6, <3>1, ShortSeqs
    <3> QED
      BY <2>3, <2>4, <2>6, <3>2 DEF Awaits, Quiet
  <2>7. CASE k.lines = <<>> /\ k.pc = "reply" /\ k.answer.req = r /\ k.replies = <<>> /\ k.buf = <<>>
    BY <2>3, <2>4, <2>5, <2>7 DEF Awaits
  <2>8. ASSUME NEW a \in Answers, k.lines = <<>>, k.pc # "reply", a.req = r,
               k.replies = <<a>> /\ k.buf = <<>>
        PROVE  Awaits(k2, r) \/ Quiet(k2)
    <3>1. n \in 0..1
      BY <2>2, <2>8, ShortSeqs
    <3>2. k2.replies \in {<<>>, <<a>>}
      BY <2>2, <2>8, <3>1, ShortSeqs
    <3> QED
      BY <2>3, <2>5, <2>8, <3>2 DEF Awaits, Quiet
  <2>9. ASSUME NEW a \in Answers, k.lines = <<>>, k.pc # "reply", a.req = r,
               k.replies = <<>> /\ k.buf = <<a>>
        PROVE  Awaits(k2, r) \/ Quiet(k2)
    BY <2>3, <2>4, <2>5, <2>9 DEF Awaits
  <2> QED
    BY <2>6, <2>7, <2>8, <2>9 DEF Awaits
<1>5. CASE Executes(k, k2)
  <2>1. k.lines = <<r>> /\ k.replies = <<>> /\ k.buf = <<>>
    BY <1>5 DEF Executes, Awaits
  <2>2. k2.lines = <<>> /\ k2.answer.req = r
    BY <1>5, <2>1, ShortSeqs DEF Executes
  <2> QED
    BY <1>5, <2>1, <2>2 DEF Executes, Awaits
<1> QED
  BY <1>1, <1>2, <1>3, <1>4, <1>5 DEF Moves, Rests

LEMMA BelongsStays ==
  ASSUME NEW k \in Connections, NEW k2 \in Connections, NEW s, Belongs(k, s), Moves(k, k2)
  PROVE  Belongs(k2, s)
<1> DEFINE R == RequestsOf(s)
           A == AnswersOf(s)
<1>1. k.lines \in Seq(R) /\ k.replies \in Seq(A) /\ k.buf \in Seq(A) /\ (k.pc = "reply" => k.answer \in A)
  BY DEF Belongs
<1>2. CASE k2 = k
  BY <1>2
<1>3. CASE Answering(k, k2)
  BY <1>1, <1>3, AppendProperties DEF Answering, Belongs
<1>4. CASE Ending(k, k2)
  BY <1>1, <1>4, EmptySeq DEF Ending, Belongs
<1>5. CASE Breaking(k, k2)
  BY <1>1, <1>5, PrefixOfSeq DEF Breaking, Belongs
<1>6. CASE Executes(k, k2)
  <2>1. Head(k.lines) \in R /\ Tail(k.lines) \in Seq(R)
    BY <1>1, <1>6, HeadTailProperties DEF Executes
  <2>2. k2.answer \in A
    BY <1>6, <2>1 DEF Executes, Answers, AnswersOf
  <2> QED
    BY <1>1, <1>6, <2>1, <2>2 DEF Executes, Belongs
<1> QED
  BY <1>2, <1>3, <1>4, <1>5, <1>6 DEF Moves, Rests

LEMMA BelongsToClient ==
  ASSUME NEW k \in Connections, NEW k2 \in Connections, NEW s, NEW r \in RequestsOf(s), Belongs(k, s),
         Sending(k, k2, r) \/ Receiving(k, k2) \/ Taking(k, k2) \/ Marking(k, k2)
  PROVE  Belongs(k2, s)
<1> DEFINE R == RequestsOf(s)
           A == AnswersOf(s)
<1>1. k.lines \in Seq(R) /\ k.replies \in Seq(A) /\ k.buf \in Seq(A) /\ (k.pc = "reply" => k.answer \in A)
  BY DEF Belongs
<1>2. CASE Sending(k, k2, r)
  BY <1>1, <1>2, AppendProperties DEF Sending, ServerEnd, Belongs
<1>3. CASE Receiving(k, k2)
  BY <1>1, <1>3, PartsOfSeq DEF Receiving, ServerEnd, Belongs
<1>4. CASE Taking(k, k2)
  BY <1>1, <1>4, HeadTailProperties DEF Taking, ServerEnd, Belongs
<1>5. CASE Marking(k, k2)
  BY <1>1, <1>5 DEF Marking, ServerEnd, Belongs
<1> QED
  BY <1>2, <1>3, <1>4, <1>5

-----------------------------------------------------------------------------
(***************************************************************************)
(* The server's threads and the network keep the invariants.               *)
(***************************************************************************)
ServerMoves ==
  /\ UNCHANGED <<plan, pool, req, open>> /\ up' \in BOOLEAN
  /\ conns' \in Seq(Connections) /\ Ids' = Ids
  /\ \A c \in Ids : Moves(conns[c], conns'[c])

NetStep == ServerMoves /\ ran' = ran /\ \A c \in Ids : Rests(conns[c], conns'[c])

ExecStep(c) ==
  /\ ServerMoves /\ Executes(conns[c], conns'[c])
  /\ \A d \in Ids \ {c} : conns'[d] = conns[d]
  /\ ran' = [ran EXCEPT ![Head(conns[c].lines)] = Append(@, [conn |-> c, txn |-> conns[c].txn])]

LEMMA ServerForms ==
  ASSUME WebTypes, TrafficInv, (\E c \in Ids : Serve(c) \/ Break(c)) \/ Crash \/ Restart
  PROVE  NetStep \/ \E c \in Ids : ExecStep(c)
<1>0. up \in BOOLEAN /\ conns \in Seq(Connections)
  BY DEF WebTypes
<1>1. ASSUME NEW c \in Ids, Execute(c) PROVE ExecStep(c)
  <2>1. PICK k : /\ Changes(c, k) /\ Executes(conns[c], k)
                 /\ ran' = [ran EXCEPT ![Head(conns[c].lines)] =
                              Append(@, [conn |-> c, txn |-> conns[c].txn])]
    BY <1>1, ExecuteForm
  <2>2. UNCHANGED <<plan, pool, req, open, up>>
    BY <1>1 DEF Execute, ClientVars
  <2>3. ServerMoves
    BY <1>0, <2>1, <2>2 DEF Changes, ServerMoves, Moves, Rests, Ids
  <2> QED
    BY <2>1, <2>3 DEF ExecStep, Changes
<1>2. ASSUME NEW c \in Ids, NEW k, Changes(c, k), Rests(conns[c], k),
             UNCHANGED <<plan, pool, req, open, up, ran>>
      PROVE  NetStep
  <2>1. \A d \in Ids : Rests(conns[d], conns'[d])
    BY <1>2 DEF Changes, Rests
  <2> QED
    BY <1>0, <1>2, <2>1 DEF Changes, NetStep, ServerMoves, Moves, Ids
<1>3. ASSUME NEW c \in Ids, Reply(c) PROVE NetStep
  <2>1. UNCHANGED <<plan, pool, req, open, up, ran>>
    BY <1>3 DEF Reply, ClientVars, ServerVars
  <2> QED
    BY <1>2, <1>3, <2>1, ReplyForm DEF Rests
<1>4. ASSUME NEW c \in Ids, HangUp(c) PROVE NetStep
  <2>1. UNCHANGED <<plan, pool, req, open, up, ran>>
    BY <1>4 DEF HangUp, ClientVars, ServerVars
  <2> QED
    BY <1>2, <1>4, <2>1, HangUpForm DEF Rests
<1>5. ASSUME NEW c \in Ids, Break(c) PROVE NetStep
  <2>1. UNCHANGED <<plan, pool, req, open, up, ran>>
    BY <1>5 DEF Break, ClientVars
  <2> QED
    BY <1>2, <1>5, <2>1, BreakForm DEF Rests
<1>6. CASE Crash
  <2>1. UNCHANGED <<plan, pool, req, open, ran>> /\ up' \in BOOLEAN
    BY <1>6 DEF Crash, ClientVars
  <2>2. /\ conns' \in Seq(Connections) /\ DOMAIN conns' = Ids
        /\ \A c \in Ids : Ending(conns[c], conns'[c])
    BY <1>6, CrashForm
  <2> QED
    BY <2>1, <2>2 DEF NetStep, ServerMoves, Moves, Rests, Ids
<1>7. CASE Restart
  <2>1. UNCHANGED <<plan, pool, req, open, ran, conns>> /\ up' \in BOOLEAN
    BY <1>7 DEF Restart, ClientVars
  <2> QED
    BY <1>0, <2>1 DEF NetStep, ServerMoves, Moves, Rests, Ids
<1> QED
  BY <1>1, <1>3, <1>4, <1>5, <1>6, <1>7 DEF Serve

\* Users, sessions and marks stay; a broken connection stays broken.
LEMMA ServerFrame ==
  ASSUME WebTypes, ServerMoves
  PROVE  /\ \A c \in Ids : /\ conns[c] \in Connections /\ conns'[c] \in Connections
                           /\ Kept(conns[c], conns'[c])
                           /\ conns[c].broken => conns'[c].broken
         /\ \A c : \A r \in Requests : Uses(r, c)' <=> Uses(r, c)
         /\ \A r \in Requests : SessionOf(r)' = SessionOf(r) /\ StmtOf(r)' = StmtOf(r)
         /\ \A s : SharedIn(s)' <=> SharedIn(s)
<1>1. \A c \in Ids : conns[c] \in Connections /\ conns'[c] \in Connections
  <2>1. Ids = DOMAIN conns /\ Ids = DOMAIN conns' /\ conns \in Seq(Connections) /\ conns' \in Seq(Connections)
    BY DEF Ids, ServerMoves, WebTypes
  <2> QED
    BY <2>1, ElementOfSeq, LenProperties
<1>2. \A c \in Ids : Kept(conns[c], conns'[c]) /\ (conns[c].broken => conns'[c].broken)
  BY <1>1 DEF ServerMoves, Moves, Rests, Executes, Answering, Ending, Breaking, Kept, Connections
<1>3. \A s : SharedIn(s)' <=> SharedIn(s)
  <2>1. DOMAIN conns' = DOMAIN conns
    BY DEF ServerMoves, Ids
  <2> QED
    BY <1>2, <2>1 DEF SharedIn, Kept, Ids
<1> QED
  BY <1>1, <1>2, <1>3 DEF ServerMoves, Uses, Running, SessionOf, StmtOf

LEMMA ServerSimple ==
  ASSUME WebTypes, ServerMoves, PoolInv, UseInv, TrafficInv, RepliesReachTheirRequest
  PROVE  PoolInv' /\ UseInv' /\ TrafficInv' /\ RepliesReachTheirRequest'
<1>1. /\ UNCHANGED <<plan, pool, req, open>> /\ Ids' = Ids
      /\ pool \in [Sessions -> Ids \cup {Nil}]
      /\ \A r \in Requests : req[r].conn \in Ids \cup {Nil}
  BY RequestTypes DEF WebTypes, ServerMoves
<1>2. PoolInv'
  BY <1>1, ServerFrame DEF PoolInv, Kept
<1>3. UseInv'
  BY <1>1, ServerFrame DEF UseInv, Use, Kept, SessionOf
<1>4. TrafficInv'
  <2>1. \A c \in Ids : Belongs(conns'[c], conns[c].session)
    BY ServerFrame, BelongsStays DEF TrafficInv, ServerMoves
  <2>2. \A s : RequestsOf(s)' = RequestsOf(s) /\ AnswersOf(s)' = AnswersOf(s)
    BY <1>1 DEF RequestsOf, AnswersOf, SessionOf
  <2>3. \A c \in Ids : conns'[c].session = conns[c].session
    BY ServerFrame DEF Kept
  <2> QED
    BY <1>1, <2>1, <2>2, <2>3 DEF TrafficInv, Belongs
<1>5. RepliesReachTheirRequest'
  <2> SUFFICES ASSUME NEW r \in Requests, req[r].pc = "done" /\ req[r].reply.req \notin {Nil, r}
               PROVE  conns'[req[r].conn].shared
    BY <1>1 DEF RepliesReachTheirRequest, SessionOf
  <2>1. conns[req[r].conn].shared /\ req[r].conn \in Ids
    BY <1>1 DEF RepliesReachTheirRequest, UseInv, Use, Error
  <2> QED
    BY <2>1, <1>1, ServerFrame DEF Kept
<1> QED
  BY <1>2, <1>3, <1>4, <1>5

LEMMA ServerTypes ==
  ASSUME WebTypes, NetStep \/ \E c \in Ids : ExecStep(c)
  PROVE  WebTypes'
<1>1. ServerMoves
  BY DEF NetStep, ExecStep
<1>2. ran' \in [Requests -> Runs(Ids)]
  <2>1. CASE ran' = ran
    BY <2>1 DEF WebTypes
  <2>2. ASSUME NEW c \in Ids, ExecStep(c) PROVE ran' \in [Requests -> Runs(Ids)]
    <3> DEFINE h == Head(conns[c].lines)
               e == [conn |-> c, txn |-> conns[c].txn]
    <3>1. conns[c] \in Connections
      BY <1>1, ServerFrame
    <3>2. h \in Requests /\ e \in [conn : Ids, txn : BOOLEAN]
      BY <2>2, <3>1, HeadTailProperties DEF ExecStep, Executes, Connections
    <3>3. ran[h] \in Runs(Ids) /\ ran \in [Requests -> Runs(Ids)]
      BY <3>2 DEF WebTypes
    <3>4. Append(ran[h], e) \in Runs(Ids)
      BY <3>2, <3>3, AppendProperties DEF Runs
    <3>5. ran' = [ran EXCEPT ![h] = Append(ran[h], e)]
      BY <2>2 DEF ExecStep
    <3> QED
      BY <3>3, <3>4, <3>5
  <2> QED
    BY <2>1, <2>2 DEF NetStep
<1> QED
  BY <1>1, <1>2 DEF WebTypes, ServerMoves

\* On a connection that was never shared, one statement is under way at most.
LEMMA OneLine ==
  ASSUME WebTypes, AloneInv, NEW c \in Ids, ~conns[c].shared
  PROVE  conns[c].lines = <<>> \/ \E q \in Requests : conns[c].lines = <<q>>
BY DEF AloneInv, Alone, Quiet, Awaits

\* While it is whole, that is the statement of its only user.
LEMMA ExecutesOwn ==
  ASSUME WebTypes, AloneInv, NEW c \in Ids, ~conns[c].shared, ~conns[c].broken, NEW k,
         Executes(conns[c], k)
  PROVE  \E u \in Requests : /\ Uses(u, c) /\ Head(conns[c].lines) = u
                             /\ \A r \in Requests : Uses(r, c) => r = u
<1>1. conns[c].lines # <<>> /\ Alone(c)
  BY DEF AloneInv, Executes
<1>2. ~Quiet(conns[c])
  BY <1>1 DEF Quiet
<1>3. PICK u \in Requests : Uses(u, c)
  BY <1>1, <1>2 DEF Alone
<1>4. conns[c].lines = <<u>>
  BY <1>1, <1>2, <1>3 DEF Alone, Awaits
<1> QED
  BY <1>1, <1>3, <1>4, ShortSeqs DEF Alone

LEMMA ServerAlone ==
  ASSUME WebTypes, ServerMoves, TrafficInv, AloneInv
  PROVE  AloneInv'
<1> SUFFICES ASSUME NEW c \in Ids, ~conns'[c].shared PROVE Alone(c)'
  BY DEF AloneInv, ServerMoves
<1> DEFINE k == conns[c]
           k2 == conns'[c]
<1>1. k \in Connections /\ k2 \in Connections /\ ~k.shared /\ Alone(c) /\ Moves(k, k2)
  BY ServerFrame DEF Kept, AloneInv, ServerMoves
<1>2. k.pc = "reply" => k.answer \in Answers
  BY DEF TrafficInv, Belongs, AnswersOf, RequestsOf, Answers
<1>3. k2.buf = k.buf
  BY <1>1 DEF Moves, Rests, Executes, Answering, Ending, Breaking
<1>4. Quiet(k) => Quiet(k2)
  BY <1>1, QuietStays
<1>5. \A r \in Requests : Awaits(k, r) => Awaits(k2, r) \/ Quiet(k2)
  BY <1>1, <1>2, AwaitsStays
<1>6. \A r \in Requests : (Uses(r, c)' <=> Uses(r, c)) /\ req'[r] = req[r]
  BY ServerFrame DEF ServerMoves
<1> HIDE DEF k, k2
<1>7. Alone(c)'
  BY <1>1, <1>3, <1>4, <1>5, <1>6 DEF Alone, k, k2
<1> QED
  BY <1>7

LEMMA ServerBegun ==
  ASSUME WebTypes, ServerMoves, AloneInv, BegunInv
  PROVE  BegunInv'
<1> SUFFICES ASSUME NEW c \in Ids, ~conns'[c].shared, NEW r \in Requests, Uses(r, c)',
                    (StmtOf(r) = "begin")'
             PROVE  Begun(c)'
  BY DEF BegunInv, ServerMoves
<1> DEFINE k == conns[c]
           k2 == conns'[c]
<1>1. /\ k \in Connections /\ k2 \in Connections /\ ~k.shared /\ Moves(k, k2)
      /\ k.broken => k2.broken
  BY ServerFrame DEF Kept, ServerMoves
<1>2. Uses(r, c) /\ StmtOf(r) = "begin"
  BY ServerFrame
<1>3. Begun(c)
  BY <1>1, <1>2 DEF BegunInv
<1>4. CASE Rests(k, k2)
  BY <1>1, <1>3, <1>4 DEF Rests, Answering, Ending, Breaking, Begun
<1>5. CASE Executes(k, k2) /\ ~k.broken
  <2>1. Head(k.lines) = r
    BY <1>1, <1>2, <1>5, ExecutesOwn
  <2> QED
    BY <1>2, <1>5, <2>1 DEF Executes, Begun
<1> QED
  BY <1>1, <1>4, <1>5 DEF Moves, Begun

LEMMA ServerOpen ==
  ASSUME WebTypes, ServerMoves, AloneInv, OpenInv
  PROVE  OpenInv'
<1> SUFFICES ASSUME NEW s \in Sessions, open[s] # Nil
             PROVE  /\ conns'[open[s]].session = s
                    /\ SharedIn(s)' \/ Opened(open[s])'
  BY DEF OpenInv, ServerMoves
<1> DEFINE c == open[s]
           k == conns[c]
           k2 == conns'[c]
           Committing == \E q \in Requests : Uses(q, c) /\ StmtOf(q) = "commit"
<1>1. c \in Ids /\ c' = c
  BY DEF WebTypes, ServerMoves
<1>2. k \in Connections /\ k2 \in Connections /\ Kept(k, k2) /\ Moves(k, k2) /\ (k.broken => k2.broken)
  BY <1>1, ServerFrame DEF ServerMoves
<1>3. k2.session = s
  BY <1>2 DEF OpenInv, Kept
<1>4. ASSUME ~SharedIn(s) PROVE k2.txn \/ k2.broken \/ Committing
  <2>1. ~k.shared /\ (k.txn \/ k.broken \/ Committing)
    BY <1>1, <1>2, <1>3, <1>4 DEF SharedIn, OpenInv, Opened, Ids, Kept
  <2>2. CASE k.txn /\ ~k.broken /\ Rests(k, k2)
    BY <2>2 DEF Rests, Answering, Ending, Breaking
  <2>3. CASE k.txn /\ ~k.broken /\ Executes(k, k2)
    <3>1. PICK u \in Requests : Uses(u, c) /\ Head(k.lines) = u
      BY <1>1, <2>1, <2>3, ExecutesOwn
    <3>2. StmtOf(u) \in {"begin", "write", "commit"}
      BY RequestTypes
    <3> QED
      BY <2>3, <3>1, <3>2 DEF Executes
  <2> QED
    BY <1>2, <2>1, <2>2, <2>3 DEF Moves
<1>5. k2.txn \/ k2.broken \/ Committing => Opened(c)'
  <2>1. \A q \in Requests : (Uses(q, c)' <=> Uses(q, c)) /\ StmtOf(q)' = StmtOf(q)
    BY ServerFrame DEF ServerMoves, Uses, Running
  <2> HIDE DEF c
  <2> QED
    BY <1>1, <2>1 DEF Opened
<1> QED
  BY <1>1, <1>3, <1>4, <1>5, ServerFrame

\* Unless it executes, a connection keeps a part of its lines, in their places.
LEMMA RestsLines ==
  ASSUME NEW k \in Connections, NEW k2 \in Connections, Rests(k, k2)
  PROVE  \A i \in DOMAIN k2.lines : i \in DOMAIN k.lines /\ k2.lines[i] = k.lines[i]
<1>1. CASE k2 = k \/ Answering(k, k2)
  BY <1>1 DEF Answering
<1>2. CASE Ending(k, k2)
  BY <1>2 DEF Ending
<1>3. CASE Breaking(k, k2)
  <2>1. PICK l \in 0..Len(k.lines) : k2.lines = SubSeq(k.lines, 1, l)
    BY <1>3 DEF Breaking
  <2>2. k.lines \in Seq(Requests)
    BY DEF Connections
  <2>3. Len(k.lines) \in Nat /\ l \in Int /\ \A i \in 1..l : k.lines[i] \in Requests
    BY <2>2, LenProperties, ElementOfSeq
  <2>4. CASE l = 0
    <3>1. k2.lines = <<>>
      BY <2>1, <2>4, SubSeqEmpty
    <3> QED
      BY <3>1
  <2>5. CASE l # 0
    <3>1. /\ Len(SubSeq(k.lines, 1, l)) = l /\ SubSeq(k.lines, 1, l) \in Seq(Requests)
          /\ \A i \in 1..l : SubSeq(k.lines, 1, l)[i] = k.lines[i]
      BY <2>3, <2>5, SubSeqProperties
    <3>2. DOMAIN k2.lines = 1..l /\ DOMAIN k.lines = 1..Len(k.lines)
      BY <2>1, <2>2, <3>1, LenProperties
    <3> QED
      BY <2>1, <2>3, <3>1, <3>2
  <2> QED
    BY <2>4, <2>5
<1> QED
  BY <1>1, <1>2, <1>3 DEF Rests

\* Without its head, a sequence has its other elements one place earlier.
LEMMA TailElements ==
  ASSUME NEW S, NEW q \in Seq(S), q # <<>>
  PROVE  /\ 1 \in DOMAIN q /\ q[1] = Head(q) /\ 1 \in Int
         /\ \A i \in DOMAIN Tail(q) : i \in Nat \ {0} /\ i + 1 \in DOMAIN q /\ Tail(q)[i] = q[i + 1]
<1>1. Len(q) \in Nat /\ Len(q) # 0 /\ DOMAIN q = 1..Len(q)
  BY LenProperties, EmptySeq
<1>2. /\ Tail(q) \in Seq(S) /\ Len(Tail(q)) = Len(q) - 1 /\ Head(q) = q[1]
      /\ \A i \in 1..Len(q) - 1 : Tail(q)[i] = q[i + 1]
  BY HeadTailProperties
<1>3. DOMAIN Tail(q) = 1..Len(q) - 1
  BY <1>2, LenProperties
<1> QED
  BY <1>1, <1>2, <1>3

LEMMA AddedElement ==
  ASSUME NEW S, NEW q \in Seq(S), NEW e \in S
  PROVE  LET q2 == Append(q, e)
             n == Len(q) + 1
         IN /\ n \notin DOMAIN q /\ DOMAIN q2 = DOMAIN q \cup {n} /\ q2[n] = e
            /\ \A i \in DOMAIN q : q2[i] = q[i]
<1>1. Len(q) \in Nat /\ DOMAIN q = 1..Len(q)
  BY LenProperties
<1>2. /\ Append(q, e) \in Seq(S) /\ Len(Append(q, e)) = Len(q) + 1
      /\ \A i \in 1..Len(q) : Append(q, e)[i] = q[i]
      /\ Append(q, e)[Len(q) + 1] = e
  BY AppendProperties
<1>3. DOMAIN Append(q, e) = 1..(Len(q) + 1)
  BY <1>2, LenProperties
<1> QED
  BY <1>1, <1>2, <1>3

\* A line executed is one line less, and one execution more.
LEMMA ExecSent ==
  ASSUME WebTypes, OnceInv, NEW c \in Ids, ExecStep(c)
  PROVE  LET h == Head(conns[c].lines) IN
         /\ h \in Requests /\ InLines(h, c)
         /\ \A d \in Ids : \A r \in Requests : InLines(r, d)' => InLines(r, d)
         /\ \A i \in DOMAIN conns'[c].lines : conns'[c].lines[i] # h
         /\ NoneTwice(conns'[c].lines)
         /\ \A r \in Requests \ {h} : ran'[r] = ran[r]
         /\ \E n : /\ n \notin DOMAIN ran[h] /\ DOMAIN ran'[h] = DOMAIN ran[h] \cup {n}
                   /\ ran'[h][n].conn = c /\ ran'[h][n].txn = conns[c].txn
                   /\ \A i \in DOMAIN ran[h] : ran'[h][i] = ran[h][i]
<1> DEFINE k == conns[c]
           k2 == conns'[c]
           h == Head(k.lines)
           e == [conn |-> c, txn |-> k.txn]
<1>1. k \in Connections /\ ServerMoves /\ Executes(k, k2)
  BY ServerFrame DEF ExecStep
<1>2. k.lines \in Seq(Requests) /\ k.lines # <<>> /\ k2.lines = Tail(k.lines) /\ k.txn \in BOOLEAN
  BY <1>1 DEF Connections, Executes
<1>3. /\ 1 \in DOMAIN k.lines /\ k.lines[1] = h /\ 1 \in Int
      /\ \A i \in DOMAIN k2.lines : /\ i \in Nat \ {0} /\ i + 1 \in DOMAIN k.lines
                                    /\ k2.lines[i] = k.lines[i + 1]
  BY <1>2, TailElements
<1>4. h \in Requests /\ InLines(h, c)
  BY <1>2, <1>3, HeadTailProperties DEF InLines
<1>5. NoneTwice(k.lines)
  BY DEF OnceInv
<1>6. NoneTwice(k2.lines)
  BY <1>3, <1>5 DEF NoneTwice
<1>7. \A i \in DOMAIN k2.lines : k2.lines[i] # h
  BY <1>3, <1>5 DEF NoneTwice
<1>8. ASSUME NEW d \in Ids, NEW r \in Requests, InLines(r, d)' PROVE InLines(r, d)
  <2>1. CASE d = c
    BY <1>3, <1>8, <2>1 DEF InLines
  <2>2. CASE d \in Ids \ {c}
    BY <1>8, <2>2 DEF InLines, ExecStep
  <2> QED
    BY <2>1, <2>2
<1>9. ran \in [Requests -> Runs(Ids)] /\ ran[h] \in Seq([conn : Ids, txn : BOOLEAN])
  BY <1>4 DEF WebTypes, Runs
<1>10. e \in [conn : Ids, txn : BOOLEAN] /\ e.conn = c /\ e.txn = k.txn
  BY <1>2
<1>11. ran' = [ran EXCEPT ![h] = Append(ran[h], e)]
  BY DEF ExecStep
<1>12. \A r \in Requests \ {h} : ran'[r] = ran[r]
  BY <1>9, <1>11
<1>13. ran'[h] = Append(ran[h], e)
  BY <1>4, <1>9, <1>11
<1> HIDE DEF e
<1>14. \E n : /\ n \notin DOMAIN ran[h] /\ DOMAIN ran'[h] = DOMAIN ran[h] \cup {n}
              /\ ran'[h][n].conn = c /\ ran'[h][n].txn = k.txn
              /\ \A i \in DOMAIN ran[h] : ran'[h][i] = ran[h][i]
  BY <1>9, <1>10, <1>13, AddedElement
<1> QED
  BY <1>4, <1>6, <1>7, <1>8, <1>12, <1>14

\* Without an execution, nothing is sent, and nothing twice.
LEMMA NetSent ==
  ASSUME WebTypes, OnceInv, NetStep
  PROVE  \A c \in Ids : /\ \A r \in Requests : InLines(r, c)' => InLines(r, c)
                        /\ NoneTwice(conns'[c].lines)
<1> TAKE c \in Ids
<1>1. conns[c] \in Connections /\ conns'[c] \in Connections /\ Rests(conns[c], conns'[c])
  BY ServerFrame DEF NetStep
<1>2. \A i \in DOMAIN conns'[c].lines : /\ i \in DOMAIN conns[c].lines
                                        /\ conns'[c].lines[i] = conns[c].lines[i]
  BY <1>1, RestsLines
<1> QED
  BY <1>2 DEF InLines, NoneTwice, OnceInv

LEMMA ServerOnce ==
  ASSUME WebTypes, OnceInv, NetStep \/ \E c \in Ids : ExecStep(c)
  PROVE  OnceInv'
<1>1. /\ ServerMoves /\ Ids' = Ids /\ UNCHANGED <<pool, req>>
      /\ \A c \in Ids : conns[c].broken => conns'[c].broken
  <2>1. ServerMoves
    BY DEF NetStep, ExecStep
  <2> QED
    BY <2>1, ServerFrame DEF ServerMoves
<1>2. ASSUME \A c \in Ids : NoneTwice(conns'[c].lines),
             \A r \in Requests, c \in Ids : SentOn(r, c)' => SentOn(r, c),
             \A r \in Requests, c \in Ids : InLines(r, c)' => ~Ran(r, c)',
             \A r \in Requests : \A i, j \in DOMAIN ran'[r] : ran'[r][i].conn = ran'[r][j].conn => i = j
      PROVE  OnceInv'
  <2> SUFFICES ASSUME NEW r \in Requests PROVE Once(r)'
    BY <1>1, <1>2 DEF OnceInv
  <2>1. Once(r)
    BY DEF OnceInv
  <2> QED
    BY <1>1, <1>2, <2>1 DEF Once
<1>3. CASE NetStep
  <2>1. ran' = ran
    BY <1>3 DEF NetStep
  <2>2. \A c \in Ids : /\ \A r \in Requests : InLines(r, c)' => InLines(r, c)
                       /\ NoneTwice(conns'[c].lines)
    BY <1>3, NetSent
  <2>3. \A r \in Requests, c \in Ids : Ran(r, c)' <=> Ran(r, c)
    BY <2>1 DEF Ran
  <2> QED
    BY <1>2, <2>1, <2>2, <2>3 DEF OnceInv, Once, SentOn
<1>4. ASSUME NEW c \in Ids, ExecStep(c) PROVE OnceInv'
  <2> DEFINE h == Head(conns[c].lines)
  <2>1. /\ h \in Requests /\ InLines(h, c)
        /\ \A d \in Ids : \A r \in Requests : InLines(r, d)' => InLines(r, d)
        /\ \A i \in DOMAIN conns'[c].lines : conns'[c].lines[i] # h
        /\ NoneTwice(conns'[c].lines)
        /\ \A r \in Requests \ {h} : ran'[r] = ran[r]
    BY <1>4, ExecSent
  <2>2. PICK n : /\ n \notin DOMAIN ran[h] /\ DOMAIN ran'[h] = DOMAIN ran[h] \cup {n}
                 /\ ran'[h][n].conn = c
                 /\ \A i \in DOMAIN ran[h] : ran'[h][i] = ran[h][i]
    BY <1>4, ExecSent
  <2>3. ~Ran(h, c) /\ \A r \in Requests : Once(r)
    BY <2>1 DEF OnceInv, Once
  <2>4. \A r \in Requests, d \in Ids : Ran(r, d)' <=> (Ran(r, d) \/ (r = h /\ d = c))
    <3> TAKE r \in Requests, d \in Ids
    <3>1. CASE r # h
      BY <2>1, <3>1 DEF Ran
    <3>2. CASE r = h
      <4> HIDE DEF h
      <4> QED
        BY <2>2, <3>2 DEF Ran
    <3> QED
      BY <3>1, <3>2
  <2>5. \A d \in Ids : NoneTwice(conns'[d].lines)
    BY <1>4, <2>1 DEF ExecStep, OnceInv
  <2>6. \A r \in Requests, d \in Ids : SentOn(r, d)' => SentOn(r, d)
    BY <2>1, <2>4 DEF SentOn
  <2>7. ASSUME NEW r \in Requests, NEW d \in Ids, InLines(r, d)', Ran(r, d)' PROVE FALSE
    <3>1. InLines(r, d) /\ ~Ran(r, d)
      BY <2>1, <2>3, <2>7 DEF Once
    <3>2. r = h /\ d = c
      BY <2>4, <2>7, <3>1
    <3> QED
      BY <2>1, <2>7, <3>2 DEF InLines
  <2>8. ASSUME NEW r \in Requests, NEW i \in DOMAIN ran'[r], NEW j \in DOMAIN ran'[r],
               ran'[r][i].conn = ran'[r][j].conn
        PROVE  i = j
    <3>1. CASE r # h
      BY <2>1, <2>3, <2>8, <3>1 DEF Once
    <3>2. CASE r = h
      <4> HIDE DEF h
      <4>1. \A l \in DOMAIN ran[r] : ran[r][l].conn # c
        BY <2>3, <3>2 DEF Ran
      <4>2. \A l, m \in DOMAIN ran[r] : ran[r][l].conn = ran[r][m].conn => l = m
        BY <2>3 DEF Once
      <4> QED
        BY <2>2, <2>8, <3>2, <4>1, <4>2
    <3> QED
      BY <3>1, <3>2
  <2> QED
    BY <1>2, <2>5, <2>6, <2>7, <2>8
<1> QED
  BY <1>3, <1>4

LEMMA ServerMeant ==
  ASSUME WebTypes, AloneInv, OnceInv, MeantInv, NetStep \/ \E c \in Ids : ExecStep(c)
  PROVE  MeantInv'
<1>0. ServerMoves
  BY DEF NetStep, ExecStep
<1> SUFFICES ASSUME NEW r \in Requests, StmtOf(r) = "write", req[r].meant # Nil
             PROVE  /\ conns'[req[r].meant].session = SessionOf(r)
                    /\ \/ SharedIn(SessionOf(r))' \/ conns'[req[r].meant].dropped
                       \/ Meaning(r, req[r].meant)'
  BY <1>0, ServerFrame DEF MeantInv, ServerMoves
<1> DEFINE m == req[r].meant
           k == conns[m]
           k2 == conns'[m]
<1>1. m \in Ids /\ m' = m /\ req'[r] = req[r]
  BY <1>0, RequestTypes DEF ServerMoves
<1>2. k \in Connections /\ k2 \in Connections /\ Kept(k, k2) /\ Moves(k, k2) /\ (k.broken => k2.broken)
  BY <1>0, <1>1, ServerFrame DEF ServerMoves
<1>3. k2.session = SessionOf(r) /\ k.session = SessionOf(r)
  BY <1>2 DEF MeantInv, Kept
<1>4. CASE SharedIn(SessionOf(r)) \/ k.dropped
  BY <1>0, <1>2, <1>3, <1>4, ServerFrame DEF Kept, ServerMoves, SessionOf
<1>5. CASE ~(SharedIn(SessionOf(r)) \/ k.dropped)
  <2>1. ~k.shared /\ Meaning(r, m)
    BY <1>1, <1>3, <1>5 DEF SharedIn, MeantInv, Ids
  <2>2. Running(r)' <=> Running(r)
    BY <1>1 DEF Running
  <2>3. \A c \in Ids : InLines(r, c)' => InLines(r, c)
    BY NetSent, ExecSent
  <2>4. Running(r) => \/ req[r].conn = m /\ k2.txn
                      \/ k2.broken
    <3>1. CASE Rests(k, k2)
      BY <1>2, <2>1, <3>1 DEF Rests, Answering, Ending, Breaking, Meaning
    <3>2. CASE Executes(k, k2) /\ ~k.broken /\ Running(r)
      <4>1. req[r].conn = m /\ k.txn /\ Uses(r, m)
        BY <2>1, <3>2 DEF Meaning, Uses
      <4>2. Head(k.lines) = r
        BY <1>1, <2>1, <3>2, <4>1, ExecutesOwn
      <4> QED
        BY <3>2, <4>1, <4>2 DEF Executes
    <3> QED
      BY <1>2, <3>1, <3>2 DEF Moves
  <2>5. (\E i \in DOMAIN k2.lines : k2.lines[i] = r) => k2.txn
    <3>1. (\E i \in DOMAIN k2.lines : k2.lines[i] = r) => InLines(r, m)
      BY <1>1, <2>3 DEF InLines
    <3>2. CASE Rests(k, k2)
      <4>1. InLines(r, m) => k.txn
        BY <2>1 DEF Meaning
      <4>2. k2.txn = k.txn \/ k2.lines = <<>>
        BY <3>2 DEF Rests, Answering, Ending, Breaking
      <4>3. k2.lines = <<>> => ~\E i \in DOMAIN k2.lines : k2.lines[i] = r
        OBVIOUS
      <4> QED
        BY <3>1, <4>1, <4>2, <4>3
    <3>3. CASE Executes(k, k2)
      <4>1. k.lines # <<>> /\ k2.lines = Tail(k.lines)
        BY <3>3 DEF Executes
      <4>2. k2.lines = <<>>
        BY <1>1, <2>1, <4>1, OneLine, ShortSeqs
      <4> QED
        BY <4>2
    <3> QED
      BY <1>2, <3>2, <3>3 DEF Moves
  <2>6. \A c \in Ids \ {m} : InLines(r, c)' => k2.broken
    BY <1>2, <2>1, <2>3 DEF Meaning
  <2>7. \A i \in DOMAIN ran'[r] : \/ ran'[r][i].txn /\ ran'[r][i].conn = m
                                  \/ k2.broken /\ ran'[r][i].conn # m
    <3>1. \A i \in DOMAIN ran[r] : \/ ran[r][i].txn /\ ran[r][i].conn = m
                                   \/ k2.broken /\ ran[r][i].conn # m
      BY <1>2, <2>1 DEF Meaning
    <3>2. CASE ran'[r] = ran[r]
      BY <3>1, <3>2
    <3>3. ASSUME NEW c \in Ids, ExecStep(c), r = Head(conns[c].lines)
          PROVE  \A i \in DOMAIN ran'[r] : \/ ran'[r][i].txn /\ ran'[r][i].conn = m
                                           \/ k2.broken /\ ran'[r][i].conn # m
      <4>1. InLines(r, c)
        BY <3>3, ExecSent
      <4>2. PICK n : /\ DOMAIN ran'[r] = DOMAIN ran[r] \cup {n}
                     /\ ran'[r][n].conn = c /\ ran'[r][n].txn = conns[c].txn
                     /\ \A i \in DOMAIN ran[r] : ran'[r][i] = ran[r][i]
        BY <3>3, ExecSent
      <4>3. c = m => conns[c].txn
        BY <2>1, <4>1 DEF Meaning
      <4>4. c # m => k2.broken
        BY <1>2, <2>1, <4>1 DEF Meaning
      <4> QED
        BY <3>1, <4>2, <4>3, <4>4
    <3>4. ran'[r] = ran[r] \/ \E c \in Ids : ExecStep(c) /\ r = Head(conns[c].lines)
      BY ExecSent DEF NetStep
    <3> QED
      BY <3>2, <3>3, <3>4
  <2>8. Meaning(r, m)'
    <3> HIDE DEF m
    <3> QED
      BY <1>0, <1>1, <2>2, <2>4, <2>5, <2>6, <2>7 DEF Meaning, InLines, ServerMoves, k2
  <2> QED
    BY <1>1, <1>3, <2>8
<1> QED
  BY <1>4, <1>5

-----------------------------------------------------------------------------
(***************************************************************************)
(* The requests' threads keep the invariants.                              *)
(***************************************************************************)
Gets(r) ==
  /\ req[r].pc \in {"none", "get"}
  /\ (\E c : GetPooled(r, c) \/ GetNew(r, c)) \/ GetNone(r)

ClientStep(r) ==
  /\ UNCHANGED <<plan, ran, up>>
  /\ Gets(r) \/ Checked(r) \/ \E k : Popped(r, k) \/ Sent(r, k) \/ Received(r, k) \/ Took(r, k)

LEMMA ClientForms ==
  ASSUME WebTypes, UseInv, NEW r \in Requests, Arrive(r) \/ Request(r)
  PROVE  ClientStep(r)
<1>1. CASE Arrive(r) \/ GetAgain(r)
  <2>1. GetClient(r) /\ req[r].pc \in {"none", "get"}
    BY <1>1 DEF Arrive, GetAgain, At
  <2> QED
    BY <2>1, GetClientForms DEF ClientStep, Gets, ServerVars
<1>2. CASE Pop(r)
  BY <1>2, PopForm DEF ClientStep, ServerVars
<1>3. CASE Send(r)
  BY <1>3, SendForm DEF ClientStep, ServerVars
<1>4. CASE Check(r)
  BY <1>4, CheckForm DEF ClientStep, ServerVars
<1>5. CASE Recv(r)
  BY <1>5, RecvForm DEF ClientStep, ServerVars
<1>6. CASE Take(r)
  BY <1>6, TakeForm DEF ClientStep, ServerVars
<1> QED
  BY <1>1, <1>2, <1>3, <1>4, <1>5, <1>6 DEF Request

\* What a request's thread may do to a connection it finds.
Touches(r, d) ==
  \/ conns'[d] = conns[d]
  \/ Marking(conns[d], conns'[d])
  \/ /\ d = req[r].conn
     /\ \/ Sending(conns[d], conns'[d], r)
        \/ Receiving(conns[d], conns'[d]) \/ Taking(conns[d], conns'[d])

LEMMA ClientTouches ==
  ASSUME WebTypes, UseInv, NEW r \in Requests, ClientStep(r)
  PROVE  /\ conns' \in Seq(Connections) /\ Ids \subseteq Ids'
         /\ \A d \in Ids : Touches(r, d)
         /\ \A d \in Ids' \ Ids : conns'[d] = NewConn(SessionOf(r))
<1>0. conns \in Seq(Connections)
  BY DEF WebTypes
<1>1. ASSUME NEW c, GetPooled(r, c)
      PROVE  /\ conns' \in Seq(Connections) /\ Ids' = Ids /\ \A d \in Ids : Touches(r, d)
  BY <1>1 DEF GetPooled, Changes, Touches, Ids
<1>2. ASSUME NEW c, GetNew(r, c)
      PROVE  /\ conns' \in Seq(Connections) /\ Ids \subseteq Ids'
             /\ \A d \in Ids : Touches(r, d)
             /\ \A d \in Ids' \ Ids : conns'[d] = NewConn(SessionOf(r))
  BY <1>2 DEF GetNew, Touches, Ids
<1>3. ASSUME NEW k, Popped(r, k)
      PROVE  /\ conns' \in Seq(Connections) /\ Ids' = Ids /\ \A d \in Ids : Touches(r, d)
  BY <1>0, <1>3 DEF Popped, Changes, Touches, Ids
<1>4. ASSUME NEW k, Sent(r, k) \/ Received(r, k) \/ Took(r, k)
      PROVE  /\ conns' \in Seq(Connections) /\ Ids' = Ids /\ \A d \in Ids : Touches(r, d)
  BY <1>0, <1>4 DEF Sent, Received, Took, Changes, Touches, Ids
<1>5. ASSUME GetNone(r) \/ Checked(r)
      PROVE  /\ conns' \in Seq(Connections) /\ Ids' = Ids /\ \A d \in Ids : Touches(r, d)
  BY <1>0, <1>5 DEF GetNone, Checked, Touches, Ids
<1> QED
  BY <1>1, <1>2, <1>3, <1>4, <1>5 DEF ClientStep, Gets

LEMMA ClientFrame ==
  ASSUME WebTypes, UseInv, NEW r \in Requests, ClientStep(r)
  PROVE  /\ \A d \in Ids : /\ conns[d] \in Connections /\ conns'[d] \in Connections /\ d \in Ids'
                           /\ conns'[d].session = conns[d].session
                           /\ ServerEnd(conns[d], conns'[d])
                           /\ conns[d].shared => conns'[d].shared
                           /\ conns[d].dropped => conns'[d].dropped
         /\ \A q \in Requests : SessionOf(q)' = SessionOf(q) /\ StmtOf(q)' = StmtOf(q)
         /\ \A s : SharedIn(s) => SharedIn(s)'
<1>1. \A d \in Ids : conns[d] \in Connections /\ conns'[d] \in Connections /\ d \in Ids'
  <2>1. conns \in Seq(Connections) /\ conns' \in Seq(Connections) /\ Ids \subseteq DOMAIN conns'
        /\ Ids = DOMAIN conns
    BY ClientTouches DEF WebTypes, Ids
  <2> QED
    BY <2>1, ElementOfSeq, LenProperties, ClientTouches
<1>2. \A d \in Ids : /\ conns'[d].session = conns[d].session
                     /\ ServerEnd(conns[d], conns'[d])
                     /\ conns[d].shared => conns'[d].shared
                     /\ conns[d].dropped => conns'[d].dropped
  BY ClientTouches DEF Touches, Marking, Sending, Receiving, Taking, ServerEnd, Kept
<1>3. \A s : SharedIn(s) => SharedIn(s)'
  BY <1>1, <1>2 DEF SharedIn, Ids
<1> QED
  BY <1>1, <1>2, <1>3 DEF ClientStep, SessionOf, StmtOf

\* One request moves on.
LEMMA ClientRequest ==
  ASSUME WebTypes, UseInv, NEW r \in Requests, ClientStep(r)
  PROVE  /\ req' \in [Requests -> States(Ids')]
         /\ \A q \in Requests \ {r} : req'[q] = req[q]
BY DEF ClientStep, Gets, GetPooled, GetNew, GetNone, Checked, Popped, Sent, Received, Took,
       Goes, Fails, Ends, Becomes

LEMMA ClientTypes ==
  ASSUME WebTypes, UseInv, NEW r \in Requests, ClientStep(r)
  PROVE  WebTypes'
<1>1. /\ plan' = plan /\ up' = up /\ ran' = ran /\ plan \in Plans /\ up \in BOOLEAN
      /\ ran \in [Requests -> Runs(Ids)]
      /\ pool \in [Sessions -> Ids \cup {Nil}] /\ open \in [Sessions -> Ids \cup {Nil}]
  BY DEF ClientStep, WebTypes
<1>2. conns' \in Seq(Connections) /\ Ids \subseteq Ids'
  BY ClientTouches
<1>3. pool' \in [Sessions -> Ids' \cup {Nil}]
  <2>1. CASE pool' = pool
    BY <1>1, <1>2, <2>1
  <2>2. CASE \E c : GetNew(r, c)
    BY <2>2 DEF GetNew
  <2>3. ASSUME NEW k, Popped(r, k) PROVE pool' \in [Sessions -> Ids' \cup {Nil}]
    BY <1>1, <1>2, <2>3 DEF Popped
  <2> QED
    BY <2>1, <2>2, <2>3 DEF ClientStep, Gets, GetPooled, GetNone, Checked, Sent, Received, Took
<1>4. open' \in [Sessions -> Ids \cup {Nil}]
  BY <1>1 DEF ClientStep, Gets, GetPooled, GetNew, GetNone, Checked, Popped, Sent, Received,
              Took, Goes, Fails, Ends, Tells
<1>5. open' \in [Sessions -> Ids' \cup {Nil}] /\ ran' \in [Requests -> Runs(Ids')]
  <2>1. Runs(Ids) \subseteq Runs(Ids')
    <3> DEFINE E == [conn : Ids, txn : BOOLEAN]
               F == [conn : Ids', txn : BOOLEAN]
    <3>1. E \subseteq F
      BY <1>2
    <3> SUFFICES ASSUME NEW q \in Seq(E) PROVE q \in Seq(F)
      BY DEF Runs
    <3> HIDE DEF E, F
    <3>2. q \in [1..Len(q) -> F] /\ Len(q) \in Nat
      BY <3>1, LenProperties
    <3> QED
      BY <3>2, SeqDef
  <2> QED
    BY <1>1, <1>2, <1>4, <2>1
<1> QED
  BY <1>1, <1>2, <1>3, <1>5, ClientRequest DEF WebTypes

LEMMA NotNil ==
  ASSUME WebTypes
  PROVE  Nil \notin Ids
BY LenProperties, NilAssumption DEF WebTypes, Ids

\* Connections get shared only when they are taken from the pool.
LEMMA ClientShared ==
  ASSUME WebTypes, UseInv, NEW r \in Requests, ClientStep(r), NEW d \in Ids,
         ~GetPooled(r, d)
  PROVE  conns'[d].shared = conns[d].shared
<1>1. ASSUME NEW c, GetPooled(r, c) PROVE conns'[d].shared = conns[d].shared
  BY <1>1 DEF GetPooled, Changes
<1>2. ASSUME NEW k, Popped(r, k) PROVE conns'[d].shared = conns[d].shared
  BY <1>2 DEF Popped, Changes
<1>3. ASSUME NEW k, Sent(r, k) \/ Received(r, k) \/ Took(r, k)
      PROVE  conns'[d].shared = conns[d].shared
  BY <1>3 DEF Sent, Received, Took, Changes, Sending, Receiving, Taking, Kept
<1>4. ASSUME NEW c, GetNew(r, c) PROVE conns'[d].shared = conns[d].shared
  BY <1>4 DEF GetNew
<1>5. ASSUME GetNone(r) \/ Checked(r) PROVE conns'[d].shared = conns[d].shared
  BY <1>5 DEF GetNone, Checked
<1> QED
  BY <1>1, <1>2, <1>3, <1>4, <1>5 DEF ClientStep, Gets

LEMMA ClientPool ==
  ASSUME WebTypes, UseInv, PoolInv, NEW r \in Requests, ClientStep(r)
  PROVE  PoolInv'
<1> DEFINE s == SessionOf(r)
<1>0. pool \in [Sessions -> Ids \cup {Nil}]
  BY DEF WebTypes
<1>1. \A d \in Ids : conns'[d].session = Nil => ~conns'[d].shared
  <2> SUFFICES ASSUME NEW d \in Ids, conns'[d].session = Nil PROVE ~conns'[d].shared
    OBVIOUS
  <2>1. conns[d].session = Nil /\ ~conns[d].shared
    BY ClientFrame DEF PoolInv
  <2>2. ~GetPooled(r, d)
    BY <2>1, NotNil, NilAssumption DEF GetPooled, PoolInv
  <2> QED
    BY <2>1, <2>2, ClientShared
<1>2. \A d \in Ids : LET t == conns[d].session IN
        t # Nil => t \in Sessions /\ (pool[t] = d \/ conns'[d].broken \/ conns'[d].dropped)
  BY ClientFrame DEF PoolInv, ServerEnd, Connections
<1>3. CASE pool' = pool /\ Ids' = Ids
  BY <1>0, <1>1, <1>2, <1>3, ClientFrame DEF PoolInv
<1>4. ASSUME NEW c, GetNew(r, c) PROVE PoolInv'
  <2>1. c \notin Ids /\ c # Nil /\ Ids' = Ids \cup {c}
    BY <1>4 DEF GetNew, Ids
  <2>2. conns'[c].session = s /\ ~conns'[c].shared /\ s \in Sessions \cup {Nil}
    BY <1>4, RequestTypes DEF GetNew, NewConn
  <2>3. \A t \in Sessions : IF t = s THEN pool[t] = Nil /\ pool'[t] = c ELSE pool'[t] = pool[t]
    BY <1>4 DEF GetNew
  <2>4. \A d \in Ids : d # Nil
    BY NotNil
  <2>5. \A t \in Sessions : pool'[t] # Nil => conns'[pool'[t]].session = t
    BY <1>0, <2>2, <2>3, ClientFrame DEF PoolInv
  <2>6. ASSUME NEW d \in Ids, conns'[d].session # Nil
        PROVE  pool'[conns'[d].session] = d \/ conns'[d].broken \/ conns'[d].dropped
    BY <1>2, <2>3, <2>4, <2>6, ClientFrame
  <2>7. conns'[c].session # Nil => pool'[conns'[c].session] = c
    BY <2>2, <2>3
  <2> QED
    BY <1>1, <2>1, <2>2, <2>5, <2>6, <2>7 DEF PoolInv
<1>5. ASSUME NEW k, Popped(r, k) PROVE PoolInv'
  <2>1. s \in Sessions /\ pool' = [pool EXCEPT ![s] = Nil] /\ Ids' = Ids
    BY <1>5 DEF Popped, Changes, Ids
  <2>2. \A t \in Sessions : pool'[t] = IF t = s THEN Nil ELSE pool[t]
    BY <1>0, <2>1
  <2>3. ASSUME NEW d \in Ids, pool[s] = d PROVE conns'[d].broken \/ conns'[d].dropped
    <3>1. CASE conns' = conns /\ pool[s] \in {Nil, req[r].conn}
      <4>1. d # Nil
        BY NotNil
      <4> QED
        BY <1>5, <2>3, <3>1, <4>1 DEF UseInv, Use, Popped, At
    <3>2. CASE Changes(pool[s], k) /\ k.dropped
      BY <2>3, <3>2 DEF Changes
    <3> QED
      BY <1>5, <3>1, <3>2 DEF Popped
  <2>4. ASSUME NEW d \in Ids, conns'[d].session # Nil
        PROVE  pool'[conns'[d].session] = d \/ conns'[d].broken \/ conns'[d].dropped
    BY <1>2, <2>2, <2>3, <2>4, ClientFrame
  <2>5. \A t \in Sessions : pool'[t] # Nil => conns'[pool'[t]].session = t
    BY <1>0, <2>2, ClientFrame DEF PoolInv
  <2> QED
    BY <1>1, <2>1, <2>4, <2>5 DEF PoolInv
<1>6. ASSUME ~\E c : GetNew(r, c), ~\E k : Popped(r, k) PROVE pool' = pool /\ Ids' = Ids
  BY <1>6 DEF ClientStep, Gets, GetPooled, GetNone, Checked, Sent, Received, Took, Changes, Ids
<1> QED
  BY <1>3, <1>4, <1>5, <1>6

LEMMA ClientTraffic ==
  ASSUME WebTypes, UseInv, TrafficInv, NEW r \in Requests, ClientStep(r)
  PROVE  TrafficInv'
<1>1. ASSUME NEW d \in Ids PROVE Belongs(conns'[d], conns[d].session)
  <2>1. CASE conns'[d] = conns[d]
    BY <2>1 DEF TrafficInv
  <2>2. CASE Marking(conns[d], conns'[d])
    BY <2>2, ClientFrame DEF TrafficInv, Marking, ServerEnd, Belongs
  <2>3. CASE d = req[r].conn /\ \/ Sending(conns[d], conns'[d], r)
                                \/ Receiving(conns[d], conns'[d])
                                \/ Taking(conns[d], conns'[d])
    <3>1. d # Nil
      BY NotNil
    <3>2. r \in RequestsOf(conns[d].session)
      BY <2>3, <3>1 DEF UseInv, Use, RequestsOf
    <3> QED
      BY <2>3, <3>2, BelongsToClient, ClientFrame DEF TrafficInv
  <2> QED
    BY <2>1, <2>2, <2>3, ClientTouches DEF Touches
<1>2. ASSUME NEW d \in Ids' \ Ids PROVE Belongs(conns'[d], conns'[d].session)
  <2>1. conns'[d] = NewConn(SessionOf(r))
    BY ClientTouches
  <2> QED
    BY <2>1, EmptySeq DEF NewConn, Belongs
<1>3. \A q : RequestsOf(q)' = RequestsOf(q) /\ AnswersOf(q)' = AnswersOf(q)
  BY ClientFrame DEF RequestsOf, AnswersOf, SessionOf, ClientStep
<1>4. \A d \in Ids : conns'[d].session = conns[d].session
  BY ClientFrame
<1>5. \A d \in Ids' : Belongs(conns'[d], conns'[d].session)
  BY <1>1, <1>2, <1>4
<1> QED
  BY <1>3, <1>5 DEF TrafficInv, Belongs

\* The use a request makes of its connections, from what it becomes.
LEMMA UseBecomes ==
  ASSUME WebTypes, UseInv, PoolInv, NEW r \in Requests, ClientStep(r)
  PROVE  Use(r)'
<1>1. /\ req[r] \in States(Ids) /\ req'[r] \in States(Ids') /\ Use(r) /\ Nil \notin Ids
      /\ SessionOf(r)' = SessionOf(r)
  BY RequestTypes, ClientRequest, NotNil, ClientFrame DEF UseInv
<1>2. \A d \in Ids : conns'[d].session = conns[d].session /\ conns'[d].broken = conns[d].broken
  BY ClientFrame DEF ServerEnd
<1>3. req[r].conn \in Ids \cup {Nil}
  BY <1>1 DEF States
<1>4. ASSUME NEW pc \in Waiting, Goes(r, pc), req[r].conn \in Ids PROVE Use(r)'
  BY <1>1, <1>2, <1>4 DEF Use, Goes, Becomes, Waiting
<1>5. ASSUME Ends(r, Error) PROVE Use(r)'
  BY <1>1, <1>2, <1>3, <1>5 DEF Use, Ends, Becomes, Waiting
<1>6. ASSUME NEW a \in Answers, Ends(r, a), req[r].conn \in Ids PROVE Use(r)'
  BY <1>1, <1>2, <1>6 DEF Use, Ends, Becomes, Waiting
<1>7. ASSUME Fails(r), req[r].conn # Nil => conns[req[r].conn].broken PROVE Use(r)'
  <2>1. CASE Ends(r, Error)
    BY <1>5, <2>1
  <2>2. CASE ~req[r].retried /\ SessionOf(r) # Nil /\ Becomes(r, "pop", req[r].conn, FALSE, req[r].meant)
    BY <1>1, <1>2, <1>3, <1>7, <2>2 DEF Use, Becomes, Waiting
  <2> QED
    BY <1>7, <2>1, <2>2 DEF Fails
<1>8. ASSUME NEW c \in Ids', Becomes(r, "send", c, req[r].retried, Meant(r)),
             conns'[c].session = SessionOf(r)
      PROVE  Use(r)'
  <2>1. SessionOf(r) = Nil => Meant(r) = Nil
    BY <1>1 DEF Use, Meant
  <2>2. c # Nil
    <3>1. conns' \in Seq(Connections) /\ c \in DOMAIN conns'
      BY <1>8, ClientTouches DEF Ids
    <3> QED
      BY <3>1, LenProperties, NilAssumption
  <2> QED
    BY <1>1, <1>8, <2>1, <2>2 DEF Use, Becomes, Waiting
<1>9. CASE Gets(r)
  <2>1. req[r].conn = Nil
    BY <1>1, <1>9 DEF Gets, Use
  <2>2. ASSUME NEW c, GetPooled(r, c) PROVE Use(r)'
    <3>1. c \in Ids /\ conns[c].session = SessionOf(r)
      BY <1>1, <2>2 DEF GetPooled, PoolInv
    <3> QED
      BY <1>2, <1>8, <2>2, <3>1, ClientTouches DEF GetPooled
  <2>3. ASSUME NEW c, GetNew(r, c) PROVE Use(r)'
    <3>1. c \in Ids' /\ conns'[c].session = SessionOf(r)
      BY <2>3 DEF GetNew, NewConn, Ids
    <3> QED
      BY <1>8, <2>3, <3>1 DEF GetNew
  <2>4. CASE GetNone(r)
    BY <1>7, <2>1, <2>4 DEF GetNone
  <2> QED
    BY <1>9, <2>2, <2>3, <2>4 DEF Gets
<1>10. ASSUME NEW k, Popped(r, k) PROVE Use(r)'
  BY <1>1, <1>10, NilAssumption DEF Use, Popped, Becomes, Waiting
<1>11. CASE Checked(r)
  BY <1>4, <1>11 DEF Checked, Waiting
<1>12. ASSUME NEW k, Sent(r, k) PROVE Use(r)'
  BY <1>4, <1>7, <1>12 DEF Sent, Waiting
<1>13. ASSUME NEW k, Received(r, k) PROVE Use(r)'
  BY <1>4, <1>7, <1>13 DEF Received, Waiting
<1>14. ASSUME NEW k, Took(r, k) PROVE Use(r)'
  <2>1. CASE Taking(conns[req[r].conn], k) /\ Ends(r, Head(conns[req[r].conn].buf))
    <3>1. conns[req[r].conn] \in Connections /\ req[r].conn \in Ids
      BY <1>14, ClientFrame DEF Took
    <3>2. Head(conns[req[r].conn].buf) \in Answers
      BY <2>1, <3>1, HeadTailProperties DEF Taking, Connections
    <3> QED
      BY <1>6, <2>1, <3>1, <3>2
  <2> QED
    BY <1>5, <1>14, <2>1 DEF Took
<1> QED
  BY <1>9, <1>10, <1>11, <1>12, <1>13, <1>14 DEF ClientStep

LEMMA ClientUse ==
  ASSUME WebTypes, UseInv, PoolInv, NEW r \in Requests, ClientStep(r)
  PROVE  UseInv'
<1> SUFFICES ASSUME NEW q \in Requests \ {r} PROVE Use(q)'
  BY UseBecomes DEF UseInv
<1>1. req'[q] = req[q] /\ Use(q) /\ req[q].conn \in Ids \cup {Nil} /\ SessionOf(q)' = SessionOf(q)
  BY ClientRequest, RequestTypes, ClientFrame DEF UseInv
<1>2. \A d \in Ids : conns'[d].session = conns[d].session /\ conns'[d].broken = conns[d].broken
  BY ClientFrame DEF ServerEnd
<1> QED
  BY <1>1, <1>2 DEF Use

LEMMA ClientReplies ==
  ASSUME WebTypes, UseInv, PoolInv, TrafficInv, AloneInv, RepliesReachTheirRequest,
         NEW r \in Requests, ClientStep(r)
  PROVE  RepliesReachTheirRequest'
<1>1. ASSUME NEW q \in Requests \ {r}, req'[q].pc = "done" /\ req'[q].reply.req \notin {Nil, q}
      PROVE  /\ SessionOf(q) # Nil /\ SessionOf(req'[q].reply.req) = SessionOf(q)
             /\ conns'[req'[q].conn].shared
  <2>1. req'[q] = req[q] /\ Use(q) /\ req[q].conn \in Ids \cup {Nil}
    BY ClientRequest, RequestTypes DEF UseInv
  <2>2. req[q].conn \in Ids
    BY <1>1, <2>1 DEF Use, Error
  <2> QED
    BY <1>1, <2>1, <2>2, ClientFrame DEF RepliesReachTheirRequest
<1>2. ASSUME req'[r].pc = "done", req'[r].reply.req \notin {Nil, r}
      PROVE  /\ SessionOf(r) # Nil /\ SessionOf(req'[r].reply.req) = SessionOf(r)
             /\ conns'[req'[r].conn].shared
  <2> DEFINE c == req[r].conn
             a == Head(conns[c].buf)
  <2>1. PICK k : Took(r, k) /\ Taking(conns[c], k) /\ Ends(r, a)
    <3>1. ~Ends(r, Error)
      <4>1. Error.req = Nil
        BY DEF Error
      <4>2. Ends(r, Error) => req'[r].reply = Error
        BY DEF Ends
      <4> QED
        BY <1>2, <4>1, <4>2
    <3>2. \A pc \in Waiting \cup {"send", "pop", "get"} : \A d, b, m : ~Becomes(r, pc, d, b, m)
      BY <1>2 DEF Becomes, Waiting
    <3> QED
      BY <3>1, <3>2 DEF ClientStep, Gets, GetPooled, GetNew, GetNone, Checked, Popped, Sent,
                        Received, Took, Goes, Fails, Waiting
  <2>2. /\ c \in Ids /\ c # Nil /\ conns[c] \in Connections /\ conns[c].buf # <<>>
        /\ req[r].pc = "take" /\ req'[r].conn = c /\ req'[r].reply = a
    BY <2>1, NotNil, ClientFrame DEF Took, Taking, Ends, Becomes, At
  <2>3. conns[c].session = SessionOf(r)
    BY <2>2 DEF UseInv, Use
  <2>4. a \in AnswersOf(SessionOf(r))
    BY <2>2, <2>3, HeadTailProperties DEF TrafficInv, Belongs
  <2>5. CASE conns[c].shared
    BY <2>2, <2>3, <2>4, <2>5, ClientFrame DEF AnswersOf, RequestsOf, PoolInv
  <2>6. CASE ~conns[c].shared
    <3>1. Alone(c) /\ Uses(r, c)
      BY <2>2, <2>6 DEF AloneInv, Uses, Running
    <3>2. Awaits(conns[c], r)
      BY <2>2, <3>1 DEF Alone, Quiet
    <3>3. a.req = r
      BY <2>2, <3>2, ShortSeqs DEF Awaits
    <3> QED
      BY <1>2, <2>2, <3>3
  <2> QED
    BY <2>5, <2>6
<1> QED
  BY <1>1, <1>2 DEF RepliesReachTheirRequest, SessionOf, ClientStep

\* The other requests use what they used.
LEMMA OtherUses ==
  ASSUME WebTypes, UseInv, NEW r \in Requests, ClientStep(r), NEW d
  PROVE  \A q \in Requests \ {r} : (Uses(q, d)' <=> Uses(q, d)) /\ req'[q] = req[q]
BY ClientRequest DEF Uses, Running

\* A connection the request has nothing to do with.
LEMMA AloneElsewhere ==
  ASSUME WebTypes, UseInv, NEW r \in Requests, ClientStep(r), NEW d, Alone(d),
         conns'[d] = conns[d] \/ Marking(conns[d], conns'[d]), ~Uses(r, d), ~Uses(r, d)'
  PROVE  Alone(d)'
<1>1. \A q \in Requests : Uses(q, d)' <=> Uses(q, d)
  BY OtherUses
<1>2. \A q \in Requests : Uses(q, d) => req'[q] = req[q]
  BY OtherUses
<1>3. Quiet(conns[d]) => Quiet(conns'[d])
  BY DEF Quiet, Marking, ServerEnd
<1>4. \A q \in Requests : Awaits(conns[d], q) => Awaits(conns'[d], q)
  BY DEF Awaits, Marking, ServerEnd
<1>5. conns'[d].buf = conns[d].buf
  BY DEF Marking
<1> QED
  BY <1>1, <1>2, <1>3, <1>4, <1>5 DEF Alone

\* A connection the request alone uses after its step.
LEMMA AloneUser ==
  ASSUME WebTypes, UseInv, NEW r \in Requests, ClientStep(r), NEW d,
         \A q \in Requests \ {r} : ~Uses(q, d), Uses(r, d)',
         Quiet(conns'[d]) \/ (req'[r].pc \in Waiting /\ Awaits(conns'[d], r)),
         req'[r].pc = "recv" => conns'[d].buf = <<>>,
         req'[r].pc = "take" => conns'[d].buf # <<>>
  PROVE  Alone(d)'
<1>1. \A q \in Requests \ {r} : ~Uses(q, d)'
  BY OtherUses
<1> QED
  BY <1>1 DEF Alone

\* A connection nobody uses after the request's step.
LEMMA AloneLeft ==
  ASSUME WebTypes, UseInv, NEW r \in Requests, ClientStep(r), NEW d,
         \A q \in Requests \ {r} : ~Uses(q, d), ~Uses(r, d)', Quiet(conns'[d])
  PROVE  Alone(d)'
<1>1. \A q \in Requests : ~Uses(q, d)'
  BY OtherUses
<1> QED
  BY <1>1 DEF Alone

\* Whether the request goes on with its connection or fails, nothing being under way.
LEMMA AloneQuiet ==
  ASSUME WebTypes, UseInv, NEW r \in Requests, ClientStep(r), NEW d \in Ids, d = req[r].conn,
         \A q \in Requests \ {r} : ~Uses(q, d), Quiet(conns'[d]),
         Goes(r, "check") \/ Goes(r, "recv") \/ Fails(r) \/ Ends(r, Error)
  PROVE  Alone(d)'
<1>1. Quiet(conns'[d]) => conns'[d].buf = <<>>
  BY DEF Quiet
<1>2. CASE Goes(r, "check") \/ Goes(r, "recv")
  <2>1. Uses(r, d)' /\ req'[r].pc \in {"check", "recv"}
    BY <1>2 DEF Goes, Becomes, Uses, Running
  <2> QED
    BY <1>1, <2>1, AloneUser
<1>3. CASE Ends(r, Error)
  <2>1. ~Uses(r, d)'
    BY <1>3 DEF Ends, Becomes, Uses, Running
  <2> QED
    BY <2>1, AloneLeft
<1>4. CASE Becomes(r, "pop", req[r].conn, FALSE, req[r].meant)
  <2>1. Uses(r, d)' /\ req'[r].pc = "pop"
    BY <1>4 DEF Becomes, Uses, Running
  <2> QED
    BY <2>1, AloneUser
<1> QED
  BY <1>2, <1>3, <1>4 DEF Fails

LEMMA ClientAlone ==
  ASSUME WebTypes, UseInv, PoolInv, AloneInv, NEW r \in Requests, ClientStep(r)
  PROVE  AloneInv'
<1> SUFFICES ASSUME NEW d \in Ids', ~conns'[d].shared PROVE Alone(d)'
  BY DEF AloneInv
<1>1. d \in Ids => Alone(d) /\ ~conns[d].shared
  BY ClientFrame DEF AloneInv
<1>2. /\ Use(r) /\ req[r].conn \in Ids \cup {Nil} /\ Nil \notin Ids
      /\ \A q \in Requests : req[q].conn \in Ids \cup {Nil}
  BY RequestTypes, NotNil DEF UseInv
<1>3. ASSUME d \in Ids, conns'[d] = conns[d] \/ Marking(conns[d], conns'[d]), ~Uses(r, d), ~Uses(r, d)'
      PROVE  Alone(d)'
  BY <1>1, <1>3, AloneElsewhere
<1>4. ASSUME NEW c, GetPooled(r, c), req[r].conn = Nil PROVE Alone(d)'
  <2>1. req'[r].pc = "send" /\ req'[r].conn = c /\ c \in Ids /\ Ids' = Ids
    BY <1>4 DEF GetPooled, Becomes, Changes, Ids
  <2>2. CASE d # c
    BY <1>2, <1>3, <1>4, <2>1, <2>2 DEF GetPooled, Changes, Uses
  <2>3. CASE d = c
    <3>1. Marking(conns[c], conns'[c]) /\ \A q \in Requests : ~Uses(q, c)
      BY <1>4, <2>3 DEF GetPooled, Changes
    <3>2. Quiet(conns'[c])
      BY <1>1, <2>1, <2>3, <3>1 DEF Alone, Quiet, Marking, ServerEnd
    <3>3. Uses(r, c)'
      BY <2>1 DEF Uses, Running
    <3> QED
      BY <2>1, <2>3, <3>1, <3>2, <3>3, AloneUser
  <2> QED
    BY <2>2, <2>3
<1>5. ASSUME NEW c, GetNew(r, c), req[r].conn = Nil PROVE Alone(d)'
  <2>1. /\ req'[r].pc = "send" /\ req'[r].conn = c /\ c \notin Ids /\ c # Nil
        /\ conns'[c] = NewConn(SessionOf(r)) /\ Ids' = Ids \cup {c}
    BY <1>5 DEF GetNew, Becomes, Ids
  <2>2. CASE d # c
    <3>1. conns'[d] = conns[d] /\ d \in Ids
      BY <1>5, <2>1, <2>2 DEF GetNew
    <3> QED
      BY <1>2, <1>3, <1>5, <2>1, <2>2, <3>1 DEF Uses
  <2>3. CASE d = c
    <3>1. Quiet(conns'[c])
      BY <2>1 DEF Quiet, NewConn
    <3>2. Uses(r, c)' /\ \A q \in Requests \ {r} : ~Uses(q, c)
      BY <1>2, <2>1 DEF Uses, Running
    <3> QED
      BY <2>1, <2>3, <3>1, <3>2, AloneUser
  <2> QED
    BY <2>2, <2>3
<1>6. CASE GetNone(r) /\ req[r].conn = Nil
  <2>1. req'[r].conn = Nil /\ conns' = conns /\ d \in Ids
    BY <1>6 DEF GetNone, Fails, Ends, Becomes, Ids
  <2> QED
    BY <1>2, <1>3, <1>6, <2>1 DEF Uses
<1>7. ASSUME NEW k, Popped(r, k) PROVE Alone(d)'
  <2>1. /\ req[r].pc = "pop" /\ req'[r].conn = Nil /\ d \in Ids
        /\ conns'[d] = conns[d] \/ (Marking(conns[d], conns'[d]) /\ d # req[r].conn)
    BY <1>7 DEF Popped, At, Becomes, Changes, Ids
  <2>2. CASE d # req[r].conn
    BY <1>2, <1>3, <2>1, <2>2 DEF Uses
  <2>3. CASE d = req[r].conn
    <3>1. Uses(r, d) /\ ~Uses(r, d)'
      BY <1>2, <2>1, <2>3 DEF Uses, Running
    <3>2. Quiet(conns[d]) /\ \A q \in Requests \ {r} : ~Uses(q, d)
      BY <1>1, <2>1, <3>1 DEF Alone, Waiting
    <3> QED
      BY <2>1, <2>3, <3>1, <3>2, AloneLeft
  <2> QED
    BY <2>2, <2>3
<1>8. ASSUME Checked(r) \/ \E k : Sent(r, k) \/ Received(r, k) \/ Took(r, k)
      PROVE  /\ d \in Ids /\ req[r].conn \in Ids /\ req'[r].conn = req[r].conn
             /\ d # req[r].conn => conns'[d] = conns[d]
             /\ req[r].pc \in {"send"} \cup Waiting
  BY <1>8 DEF Checked, Sent, Received, Took, Changes, Goes, Fails, Ends, Becomes, Ids, At, Waiting
<1>9. ASSUME Checked(r) \/ \E k : Sent(r, k) \/ Received(r, k) \/ Took(r, k), d # req[r].conn
      PROVE  Alone(d)'
  BY <1>3, <1>8, <1>9 DEF Uses
<1>10. ASSUME Checked(r) \/ \E k : Sent(r, k) \/ Received(r, k) \/ Took(r, k), d = req[r].conn
       PROVE  /\ Uses(r, d) /\ \A q \in Requests \ {r} : ~Uses(q, d)
              /\ Quiet(conns[d]) \/ (req[r].pc \in Waiting /\ Awaits(conns[d], r))
              /\ req[r].pc = "recv" => conns[d].buf = <<>>
              /\ req[r].pc = "take" => conns[d].buf # <<>>
              /\ d \in Ids
  <2>1. Uses(r, d) /\ d \in Ids
    BY <1>8, <1>10 DEF Uses, Running, Waiting
  <2> QED
    BY <1>1, <2>1 DEF Alone
<1>11. ASSUME NEW k, Sent(r, k), d = req[r].conn PROVE Alone(d)'
  <2>1. Quiet(conns[d]) /\ req[r].pc = "send"
    BY <1>10, <1>11 DEF Sent, At, Waiting
  <2>2. CASE conns' = conns /\ (Goes(r, "check") \/ Fails(r))
    BY <1>10, <1>11, <2>1, <2>2, AloneQuiet
  <2>3. CASE Changes(d, k) /\ Sending(conns[d], k, r) /\ Goes(r, "check")
    <3>1. /\ k = conns'[d] /\ conns[d].lines = <<>> /\ conns[d].pc # "reply"
          /\ conns[d].replies = <<>> /\ conns[d].buf = <<>>
      BY <2>1, <2>3 DEF Quiet, Sending, Changes
    <3>2. Awaits(conns'[d], r)
      BY <2>3, <3>1, ShortSeqs DEF Sending, ServerEnd, Awaits
    <3>3. Uses(r, d)' /\ req'[r].pc = "check"
      BY <1>11, <2>3 DEF Goes, Becomes, Uses, Running
    <3> QED
      BY <1>10, <1>11, <3>2, <3>3, AloneUser DEF Waiting
  <2> QED
    BY <1>11, <2>2, <2>3 DEF Sent
<1>12. ASSUME Checked(r), d = req[r].conn PROVE Alone(d)'
  <2>1. conns' = conns
    BY <1>12 DEF Checked
  <2>2. PICK pc \in {"recv", "take"} : /\ Goes(r, pc)
                                       /\ pc = "recv" => conns[d].buf = <<>>
                                       /\ pc = "take" => conns[d].buf # <<>>
    BY <1>12 DEF Checked
  <2>3. Uses(r, d)' /\ req'[r].pc = pc
    BY <1>12, <2>2 DEF Goes, Becomes, Uses, Running
  <2> QED
    BY <1>10, <1>12, <2>1, <2>2, <2>3, AloneUser DEF Waiting
<1>13. ASSUME NEW k, Received(r, k), d = req[r].conn PROVE Alone(d)'
  <2>1. conns[d].buf = <<>> /\ req[r].pc = "recv"
    BY <1>10, <1>13 DEF Received, At
  <2>2. CASE conns' = conns /\ conns[d].broken /\ conns[d].replies = <<>> /\ Fails(r)
    <3>1. Quiet(conns[d])
      BY <1>10, <1>13, <2>1, <2>2, ShortSeqs DEF Quiet, Awaits
    <3> QED
      BY <1>10, <1>13, <2>2, <3>1, AloneQuiet
  <2>3. CASE Changes(d, k) /\ Receiving(conns[d], k) /\ Goes(r, "check")
    <3>1. k = conns'[d] /\ conns[d].replies # <<>>
      BY <2>3 DEF Receiving, Changes
    <3>2. PICK a \in Answers : /\ a.req = r /\ conns[d].replies = <<a>>
                               /\ conns[d].lines = <<>> /\ conns[d].pc # "reply"
      BY <1>10, <1>13, <3>1 DEF Quiet, Awaits
    <3>3. k.buf = <<a>> /\ k.replies = <<>>
      BY <2>1, <2>3, <3>2, ShortSeqs DEF Receiving
    <3>4. Awaits(conns'[d], r)
      BY <2>3, <3>1, <3>2, <3>3 DEF Receiving, ServerEnd, Awaits
    <3>5. Uses(r, d)' /\ req'[r].pc = "check"
      BY <1>13, <2>3 DEF Goes, Becomes, Uses, Running
    <3> QED
      BY <1>10, <1>13, <3>4, <3>5, AloneUser DEF Waiting
  <2> QED
    BY <1>13, <2>2, <2>3 DEF Received
<1>14. ASSUME NEW k, Took(r, k), d = req[r].conn PROVE Alone(d)'
  <2>1. conns[d].buf # <<>>
    BY <1>10, <1>14 DEF Took, At
  <2>2. Changes(d, k) /\ Taking(conns[d], k) /\ Ends(r, Head(conns[d].buf))
    BY <1>14, <2>1 DEF Took
  <2>3. PICK a \in Answers : /\ conns[d].buf = <<a>> /\ conns[d].replies = <<>>
                             /\ conns[d].lines = <<>> /\ conns[d].pc # "reply"
    BY <1>10, <1>14, <2>1 DEF Quiet, Awaits
  <2>4. Quiet(conns'[d])
    BY <2>2, <2>3, ShortSeqs DEF Taking, ServerEnd, Changes, Quiet
  <2>5. ~Uses(r, d)'
    BY <2>2 DEF Ends, Becomes, Uses, Running
  <2> QED
    BY <1>10, <1>14, <2>4, <2>5, AloneLeft
<1>15. Gets(r) => req[r].conn = Nil
  BY <1>2 DEF Gets, Use
<1> QED
  BY <1>4, <1>5, <1>6, <1>7, <1>9, <1>11, <1>12, <1>13, <1>14, <1>15 DEF ClientStep, Gets

\* Lines are added by the request that sends, on its whole connection.
Sends(r, d) ==
  /\ d = req[r].conn /\ req[r].pc = "send" /\ ~conns[d].broken
  /\ Goes(r, "check") /\ conns'[d].lines = Append(conns[d].lines, r)

LEMMA ClientLines ==
  ASSUME WebTypes, UseInv, NEW r \in Requests, ClientStep(r)
  PROVE  /\ \A d \in Ids : conns'[d].lines = conns[d].lines \/ Sends(r, d)
         /\ \A d \in Ids' \ Ids : conns'[d].lines = <<>>
<1>1. \A d \in Ids' \ Ids : conns'[d].lines = <<>>
  <2>1. NewConn(SessionOf(r)).lines = <<>>
    BY DEF NewConn
  <2> QED
    BY <2>1, ClientTouches
<1> SUFFICES ASSUME NEW d \in Ids PROVE conns'[d].lines = conns[d].lines \/ Sends(r, d)
  BY <1>1
<1>2. CASE Gets(r)
  BY <1>2 DEF Gets, GetPooled, GetNew, GetNone, Changes, Marking
<1>3. CASE Checked(r)
  BY <1>3 DEF Checked
<1>4. ASSUME NEW k, Popped(r, k) PROVE conns'[d].lines = conns[d].lines
  BY <1>4 DEF Popped, Changes, Marking
<1>5. ASSUME NEW k, Received(r, k) \/ Took(r, k) PROVE conns'[d].lines = conns[d].lines
  BY <1>5 DEF Received, Took, Changes, Receiving, Taking
<1>6. ASSUME NEW k, Sent(r, k) PROVE conns'[d].lines = conns[d].lines \/ Sends(r, d)
  BY <1>6 DEF Sent, Changes, Sending, Sends, At
<1> QED
  BY <1>2, <1>3, <1>4, <1>5, <1>6 DEF ClientStep

LEMMA ClientSent ==
  ASSUME WebTypes, UseInv, OnceInv, NEW r \in Requests, ClientStep(r)
  PROVE  /\ \A q \in Requests : \A d \in Ids' :
              /\ Ran(q, d)' <=> Ran(q, d)
              /\ Ran(q, d) => d \in Ids
              /\ InLines(q, d)' => d \in Ids /\ (InLines(q, d) \/ (q = r /\ Sends(r, d)))
         /\ \A d \in Ids' : NoneTwice(conns'[d].lines)
<1>1. \A q \in Requests : \A d : (Ran(q, d)' <=> Ran(q, d)) /\ (Ran(q, d) => d \in Ids)
  <2> TAKE q \in Requests
  <2>1. ran[q] \in Seq([conn : Ids, txn : BOOLEAN]) /\ ran' = ran
    BY DEF WebTypes, Runs, ClientStep
  <2>2. \A i \in DOMAIN ran[q] : ran[q][i] \in [conn : Ids, txn : BOOLEAN]
    BY <2>1, ElementOfSeq, LenProperties
  <2> QED
    BY <2>1, <2>2 DEF Ran
<1>2. ASSUME NEW d \in Ids' \ Ids
      PROVE  NoneTwice(conns'[d].lines) /\ \A q \in Requests : ~InLines(q, d)'
  <2>1. conns'[d].lines = <<>>
    BY ClientLines
  <2> QED
    BY <2>1 DEF NoneTwice, InLines
<1>3. ASSUME NEW d \in Ids, conns'[d].lines = conns[d].lines
      PROVE  NoneTwice(conns'[d].lines) /\ \A q \in Requests : InLines(q, d)' => InLines(q, d)
  BY <1>3 DEF OnceInv, InLines
<1>4. ASSUME NEW d \in Ids, Sends(r, d)
      PROVE  /\ NoneTwice(conns'[d].lines)
             /\ \A q \in Requests : InLines(q, d)' => InLines(q, d) \/ q = r
  <2> DEFINE lines == conns[d].lines
             lines2 == conns'[d].lines
             n == Len(lines) + 1
  <2>1. lines \in Seq(Requests) /\ lines2 = Append(lines, r)
    BY <1>4, ClientFrame DEF Sends, Connections
  <2>2. /\ n \notin DOMAIN lines /\ DOMAIN lines2 = DOMAIN lines \cup {n} /\ lines2[n] = r
        /\ \A i \in DOMAIN lines : lines2[i] = lines[i]
    BY <2>1, AddedElement
  <2>3. \A i \in DOMAIN lines : lines[i] # r
    BY <1>4 DEF OnceInv, Once, SentOn, InLines, Sends
  <2>4. NoneTwice(lines)
    BY DEF OnceInv
  <2> HIDE DEF n
  <2>5. NoneTwice(lines2)
    BY <2>2, <2>3, <2>4 DEF NoneTwice
  <2> QED
    BY <2>2, <2>5 DEF InLines
<1> QED
  BY <1>1, <1>2, <1>3, <1>4, ClientLines

\* What has left the pool does not come back.
LEMMA ClientPoolOld ==
  ASSUME WebTypes, UseInv, NEW r \in Requests, ClientStep(r), NEW s \in Sessions, NEW d \in Ids,
         pool'[s] = d
  PROVE  pool[s] = d
<1>0. pool \in [Sessions -> Ids \cup {Nil}] /\ Nil \notin Ids
  BY NotNil DEF WebTypes
<1>1. ASSUME NEW c, GetNew(r, c) PROVE pool[s] = d
  BY <1>1 DEF GetNew
<1>2. ASSUME NEW k, Popped(r, k) PROVE pool[s] = d
  BY <1>0, <1>2 DEF Popped
<1> QED
  BY <1>1, <1>2 DEF ClientStep, Gets, GetPooled, GetNone, Checked, Sent, Received, Took

LEMMA ClientOnce ==
  ASSUME WebTypes, UseInv, PoolInv, OnceInv, NEW r \in Requests, ClientStep(r)
  PROVE  OnceInv'
<1> SUFFICES ASSUME NEW q \in Requests PROVE Once(q)'
  BY ClientSent DEF OnceInv
<1>0. \A d \in Ids : conns'[d].broken = conns[d].broken /\ d \in Ids' /\ d # Nil
  BY ClientFrame, NotNil DEF ServerEnd
<1>1. Once(q)
  BY DEF OnceInv
<1>2. \A d \in Ids' : SentOn(q, d)' => d \in Ids /\ (SentOn(q, d) \/ (q = r /\ Sends(r, d)))
  BY ClientSent DEF SentOn
<1>3. \A d \in Ids' : InLines(q, d)' => ~Ran(q, d)'
  <2> SUFFICES ASSUME NEW d \in Ids', InLines(q, d)', Ran(q, d) PROVE FALSE
    BY ClientSent
  <2>1. d \in Ids /\ q = r /\ Sends(r, d)
    BY <1>1, ClientSent DEF Once
  <2> QED
    BY <1>1, <2>1 DEF Once, SentOn, Sends
<1>4. \A i, j \in DOMAIN ran'[q] : ran'[q][i].conn = ran'[q][j].conn => i = j
  BY <1>1 DEF Once, ClientStep
<1>5. ASSUME \A d \in Ids' : SentOn(q, d)' /\ d # req'[q].conn =>
                /\ req'[q].retried /\ conns[d].broken
                /\ \A s \in Sessions : pool'[s] # d
                /\ \A e \in Ids' : SentOn(q, e)' => e \in {d, req'[q].conn},
             \A d \in Ids' : SentOn(q, d)' /\ d = req'[q].conn =>
                req'[q].pc \notin {"none", "send", "get"}
      PROVE  Once(q)'
  BY <1>0, <1>2, <1>3, <1>4, <1>5 DEF Once
<1>6. ASSUME NEW d \in Ids, SentOn(q, d), d # req[q].conn
      PROVE  /\ req[q].retried /\ conns[d].broken
             /\ \A s \in Sessions : pool'[s] # d
             /\ \A e \in Ids : SentOn(q, e) => e \in {d, req[q].conn}
  BY <1>1, <1>6, ClientPoolOld DEF Once
\* The request keeps its connection, and may have been sent on it.
<1>7. ASSUME req'[q].conn = req[q].conn, req'[q].retried = req[q].retried,
             req'[q].pc \notin {"none", "send", "get"} \/ req'[q].pc = req[q].pc
      PROVE  Once(q)'
  <2>1. \A d \in Ids' : Sends(r, d) /\ q = r => d = req[q].conn /\ req'[q].pc = "check"
    BY DEF Sends, Goes, Becomes
  <2>2. ASSUME NEW d \in Ids', SentOn(q, d)', d # req[q].conn
        PROVE  /\ d \in Ids /\ SentOn(q, d) /\ req[q].retried /\ conns[d].broken
               /\ \A s \in Sessions : pool'[s] # d
               /\ \A e \in Ids' : SentOn(q, e)' => e \in {d, req[q].conn}
    <3>1. d \in Ids /\ SentOn(q, d)
      BY <1>2, <2>1, <2>2
    <3>2. /\ req[q].retried /\ conns[d].broken
          /\ \A s \in Sessions : pool'[s] # d
          /\ \A e \in Ids : SentOn(q, e) => e \in {d, req[q].conn}
      BY <1>6, <2>2, <3>1
    <3> QED
      BY <1>2, <2>1, <3>1, <3>2
  <2>3. ASSUME NEW d \in Ids', SentOn(q, d)', d = req[q].conn
        PROVE  req'[q].pc \notin {"none", "send", "get"}
    <3>1. CASE SentOn(q, d) /\ d \in Ids
      BY <1>1, <1>7, <2>3, <3>1 DEF Once
    <3>2. CASE q = r /\ Sends(r, d)
      BY <2>1, <3>2
    <3> QED
      BY <1>2, <2>3, <3>1, <3>2
  <2> QED
    BY <1>5, <1>7, <2>2, <2>3
<1>8. CASE q # r
  BY <1>7, <1>8, ClientRequest
\* It gets one on which it was not sent.
<1>9. ASSUME q = r, req[r].conn = Nil, NEW c, Becomes(r, "send", c, req[r].retried, Meant(r)),
             c \in Ids => \E s \in Sessions : pool[s] = c
      PROVE  Once(q)'
  <2>1. \A d \in Ids' : SentOn(q, d)' => d \in Ids /\ SentOn(q, d)
    BY <1>2, <1>9 DEF Sends, Goes, Becomes
  <2>2. ~(c \in Ids /\ SentOn(q, c))
    BY <1>0, <1>1, <1>9 DEF Once
  <2>3. req'[q].conn = c /\ req'[q].retried = req[q].retried
    BY <1>9 DEF Becomes
  <2> QED
    BY <1>0, <1>5, <1>6, <1>9, <2>1, <2>2, <2>3
<1>10. CASE q = r /\ Gets(r)
  <2>1. req[r].conn = Nil
    BY <1>10 DEF Gets, UseInv, Use
  <2>2. ASSUME NEW c, GetPooled(r, c) PROVE Once(q)'
    BY <1>9, <1>10, <2>1, <2>2 DEF GetPooled
  <2>3. ASSUME NEW c, GetNew(r, c) PROVE Once(q)'
    BY <1>9, <1>10, <2>1, <2>3 DEF GetNew
  <2>4. CASE GetNone(r)
    <3>1. /\ req'[r].conn = req[r].conn /\ req'[r].retried = req[r].retried
          /\ req'[r].pc \in {"pop", "done"}
      BY <2>4, RequestTypes DEF GetNone, Fails, Ends, Becomes
    <3> QED
      BY <1>7, <1>10, <3>1
  <2> QED
    BY <1>10, <2>2, <2>3, <2>4 DEF Gets
\* It gives up the one that broke.
<1>11. ASSUME q = r, NEW k, Popped(r, k) PROVE Once(q)'
  <2>1. /\ req'[q].conn = Nil /\ req'[q].retried /\ req'[q].pc = "get" /\ req[q].pc = "pop"
        /\ SessionOf(r) \in Sessions /\ pool' = [pool EXCEPT ![SessionOf(r)] = Nil]
    BY <1>11 DEF Popped, Becomes, At
  <2>2. ~req[q].retried /\ \A d \in Ids : SentOn(q, d) => d = req[q].conn
    BY <1>1, <1>11, <2>1 DEF Once, UseInv, Use
  <2>3. \A d \in Ids' : SentOn(q, d)' => d \in Ids /\ SentOn(q, d)
    BY <1>2, <1>11, <2>1 DEF Sends
  <2>4. ASSUME NEW d \in Ids, d = req[q].conn
        PROVE  conns[d].broken /\ \A s \in Sessions : pool'[s] # d
    <3>1. conns[d].broken /\ conns[d].session = SessionOf(r)
      BY <1>0, <1>11, <2>1, <2>4 DEF UseInv, Use
    <3>2. ASSUME NEW s \in Sessions, pool'[s] = d PROVE FALSE
      <4>1. pool[s] = d /\ pool \in [Sessions -> Ids \cup {Nil}]
        BY <3>2, ClientPoolOld DEF WebTypes
      <4>2. s = SessionOf(r)
        BY <1>0, <3>1, <4>1 DEF PoolInv
      <4> QED
        BY <1>0, <2>1, <3>2, <4>1, <4>2
    <3> QED
      BY <3>1, <3>2
  <2> QED
    BY <1>0, <1>5, <2>1, <2>2, <2>3, <2>4
<1>12. ASSUME q = r, Checked(r) \/ \E k : Sent(r, k) \/ Received(r, k) \/ Took(r, k) PROVE Once(q)'
  <2>1. \/ \E pc \in {"check", "recv", "take"} : Goes(r, pc)
        \/ Fails(r) \/ \E a : Ends(r, a)
    BY <1>12 DEF Checked, Sent, Received, Took
  <2>2. /\ req'[r].conn = req[r].conn /\ req'[r].retried = req[r].retried
        /\ req'[r].pc \in {"check", "recv", "take", "pop", "done"}
    BY <2>1, RequestTypes DEF Goes, Fails, Ends, Becomes
  <2> QED
    BY <1>7, <1>12, <2>2
<1> QED
  BY <1>8, <1>10, <1>11, <1>12 DEF ClientStep

LEMMA ClientBegun ==
  ASSUME WebTypes, UseInv, PoolInv, AloneInv, BegunInv, NEW r \in Requests, ClientStep(r)
  PROVE  BegunInv'
<1> SUFFICES ASSUME NEW d \in Ids', ~conns'[d].shared, NEW q \in Requests, Uses(q, d)',
                    StmtOf(q) = "begin"
             PROVE  Begun(d)'
  BY ClientFrame DEF BegunInv
<1>1. ASSUME d \in Ids PROVE /\ Alone(d) /\ ~conns[d].shared /\ ServerEnd(conns[d], conns'[d])
                             /\ d # Nil
                             /\ Uses(q, d) => Begun(d)
  BY <1>1, ClientFrame, NotNil DEF AloneInv, BegunInv
<1>2. Quiet(conns[d]) => Begun(d)
  BY DEF Quiet, Begun
<1>3. ASSUME d \in Ids, conns'[d].replies = conns[d].replies /\ conns'[d].buf = conns[d].buf, Begun(d)
      PROVE  Begun(d)'
  BY <1>1, <1>3 DEF Begun, ServerEnd
\* Where answers are read, the transaction is on.
<1>4. ASSUME d \in Ids, Uses(q, d), conns[d].replies # <<>> \/ conns[d].buf # <<>> PROVE Begun(d)'
  BY <1>1, <1>4 DEF Begun, ServerEnd
<1>5. ASSUME d \in Ids, Uses(q, d) PROVE Begun(d)'
  <2>1. CASE conns'[d] = conns[d] \/ Marking(conns[d], conns'[d]) \/ Sending(conns[d], conns'[d], r)
    BY <1>1, <1>3, <1>5, <2>1 DEF Marking, Sending
  <2>2. CASE Receiving(conns[d], conns'[d]) \/ Taking(conns[d], conns'[d])
    BY <1>4, <1>5, <2>2 DEF Receiving, Taking
  <2> QED
    BY <1>5, <2>1, <2>2, ClientTouches DEF Touches
\* Who takes a connection finds it quiet.
<1>6. ASSUME ~Uses(q, d) PROVE Begun(d)'
  <2>1. q = r
    BY <1>6, OtherUses
  <2>2. ASSUME NEW k, Popped(r, k) PROVE FALSE
    <3>1. req'[r].conn = Nil /\ Ids' = Ids
      BY <2>2 DEF Popped, Becomes, Changes, Ids
    <3> QED
      BY <2>1, <3>1, <1>1 DEF Uses
  <2>3. ASSUME Checked(r) \/ \E k : Sent(r, k) \/ Received(r, k) \/ Took(r, k) PROVE FALSE
    <3>1. req'[r].conn = req[r].conn /\ req[r].pc \in {"send"} \cup Waiting
      BY <2>3 DEF Checked, Sent, Received, Took, Goes, Fails, Ends, Becomes, At, Waiting
    <3> QED
      BY <1>6, <2>1, <3>1 DEF Uses, Running, Waiting
  <2>4. CASE GetNone(r) /\ Gets(r)
    <3>1. req'[r].conn = Nil /\ Ids' = Ids
      BY <2>4 DEF GetNone, Gets, Fails, Ends, Becomes, UseInv, Use, Ids
    <3> QED
      BY <2>1, <3>1, <1>1 DEF Uses
  <2>5. ASSUME NEW c, GetPooled(r, c) PROVE Begun(d)'
    <3>1. /\ d = c /\ c \in Ids /\ Marking(conns[c], conns'[c]) /\ \A u \in Requests : ~Uses(u, c)
      BY <2>1, <2>5 DEF GetPooled, Becomes, Uses, Changes
    <3>2. Quiet(conns[c])
      BY <1>1, <3>1 DEF Alone
    <3> QED
      BY <1>2, <1>3, <3>1, <3>2 DEF Marking
  <2>6. ASSUME NEW c, GetNew(r, c) PROVE Begun(d)'
    <3>1. d = c /\ conns'[c] = NewConn(SessionOf(r))
      BY <2>1, <2>6 DEF GetNew, Becomes, Uses
    <3> QED
      BY <3>1 DEF NewConn, Begun
  <2> QED
    BY <2>2, <2>3, <2>4, <2>5, <2>6 DEF ClientStep, Gets
<1>7. Uses(q, d) => d \in Ids
  <2>1. req[q].conn \in Ids \cup {Nil} /\ Nil \notin Ids'
    <3>1. conns' \in Seq(Connections)
      BY ClientTouches
    <3> QED
      BY <3>1, RequestTypes, LenProperties, NilAssumption DEF Ids
  <2> QED
    BY <2>1 DEF Uses
<1> QED
  BY <1>5, <1>6, <1>7

LEMMA ClientOpen ==
  ASSUME WebTypes, UseInv, PoolInv, AloneInv, BegunInv, OpenInv, NEW r \in Requests, ClientStep(r)
  PROVE  OpenInv'
<1>0. /\ open \in [Sessions -> Ids \cup {Nil}] /\ Nil \notin Ids /\ Use(r)
      /\ \A d \in Ids : /\ conns'[d].session = conns[d].session
                        /\ conns'[d].broken = conns[d].broken /\ conns'[d].txn = conns[d].txn
  BY NotNil, ClientFrame DEF WebTypes, UseInv, ServerEnd
<1> SUFFICES ASSUME NEW s \in Sessions, NEW c, c = open'[s], c # Nil
             PROVE  /\ c \in Ids /\ conns'[c].session = s
                    /\ ~SharedIn(s) =>
                         \/ conns'[c].txn \/ conns'[c].broken
                         \/ \E q \in Requests : Uses(q, c)' /\ StmtOf(q) = "commit"
  <2>1. \A q \in Requests : StmtOf(q)' = StmtOf(q)
    BY ClientFrame
  <2>2. \A t : SharedIn(t) => SharedIn(t)'
    BY ClientFrame
  <2> QED
    BY <2>1, <2>2 DEF OpenInv, Opened
<1>1. ASSUME c = open[s], ~\E q \in Requests : Uses(q, c) /\ ~Uses(q, c)' /\ StmtOf(q) = "commit" /\ ~conns[c].broken
      PROVE  /\ c \in Ids /\ conns'[c].session = s
             /\ ~SharedIn(s) =>
                  \/ conns'[c].txn \/ conns'[c].broken
                  \/ \E q \in Requests : Uses(q, c)' /\ StmtOf(q) = "commit"
  BY <1>0, <1>1 DEF OpenInv, Opened
\* A COMMIT leaves its connection when it is answered, or when the connection is broken.
<1>2. ASSUME c = open[s], Uses(r, c), ~Uses(r, c)', StmtOf(r) = "commit", ~conns[c].broken
      PROVE  FALSE
  <2>1. c = req[r].conn /\ c \in Ids /\ req[r].pc \notin {"none", "done"} /\ s = SessionOf(r)
    BY <1>0, <1>2 DEF Uses, Running, OpenInv, Use
  <2>2. ~\E k : Popped(r, k)
    BY <1>0, <1>2, <2>1 DEF Popped, At, Use
  <2>3. ~Gets(r)
    BY <1>0, <2>1 DEF Gets, Use
  <2>4. \/ \E pc \in {"check", "recv", "take"} : Goes(r, pc)
        \/ Fails(r) \/ \E a : Ends(r, a)
    BY <2>2, <2>3 DEF ClientStep, Checked, Sent, Received, Took
  <2>5. ~\E a : Ends(r, a)
    BY <1>0, <1>2, <2>1 DEF Ends, Tells
  <2> QED
    BY <1>2, <2>1, <2>4, <2>5 DEF Goes, Fails, Becomes, Uses, Running
\* The browser is told of a transaction by the answer to its BEGIN.
<1>3. ASSUME c # open[s]
      PROVE  /\ c \in Ids /\ conns'[c].session = s
             /\ ~SharedIn(s) => conns'[c].txn \/ conns'[c].broken
  <2>1. ~Ends(r, Error)
    BY <1>3 DEF Ends, Tells, Error
  <2>2. PICK k : Took(r, k) /\ \E a : Ends(r, a)
    BY <1>3, <2>1 DEF ClientStep, Gets, GetPooled, GetNew, GetNone, Checked, Popped, Sent,
                      Received, Took, Goes, Fails
  <2>3. s = SessionOf(r) /\ StmtOf(r) = "begin" /\ c = req[r].conn
    BY <1>3, <2>2 DEF Ends, Tells
  <2>4. c \in Ids /\ conns[c].session = s /\ Uses(r, c) /\ conns[c].buf # <<>>
    BY <1>0, <2>1, <2>2, <2>3 DEF Took, Taking, Use, Uses, Running, At
  <2>5. ~conns[c].shared => conns[c].txn \/ conns[c].broken
    BY <2>3, <2>4 DEF BegunInv, Begun
  <2> QED
    BY <1>0, <2>4, <2>5 DEF SharedIn, Ids
<1>4. ASSUME c = open[s], NEW q \in Requests, Uses(q, c) /\ ~Uses(q, c)' /\ StmtOf(q) = "commit" /\ ~conns[c].broken
      PROVE  FALSE
  BY <1>2, <1>4, OtherUses
<1> QED
  BY <1>1, <1>3, <1>4

\* A request that keeps what it was meant for.
LEMMA MeaningKept ==
  ASSUME WebTypes, UseInv, OnceInv, NEW r \in Requests, ClientStep(r), NEW q \in Requests,
         req'[q].meant = req[q].meant, NEW m \in Ids, m = req[q].meant, Meaning(q, m)
  PROVE  Meaning(q, m)'
<1>1. /\ conns'[m].broken = conns[m].broken /\ conns'[m].txn = conns[m].txn /\ m # Nil
      /\ Use(r) /\ Ids \subseteq Ids'
  BY ClientFrame, NotNil, ClientTouches DEF ServerEnd, UseInv
<1>2. Running(q)' => \/ req'[q].conn = m /\ conns[m].txn
                     \/ conns[m].broken
  <2>1. CASE q # r
    BY <2>1, ClientRequest DEF Meaning, Running
  <2>2. CASE q = r /\ Gets(r)
    BY <1>1, <2>2 DEF Gets, Use, Meaning, Running
  <2>3. ASSUME q = r, NEW k, Popped(r, k) PROVE conns[m].broken
    BY <1>1, <2>3 DEF Popped, At, Use, Meaning, Running
  <2>4. ASSUME q = r, Checked(r) \/ \E k : Sent(r, k) \/ Received(r, k) \/ Took(r, k)
        PROVE  Running(q) /\ req'[q].conn = req[q].conn
    <3>1. \/ \E pc \in {"check", "recv", "take"} : Goes(r, pc)
          \/ Fails(r) \/ \E a : Ends(r, a)
      BY <2>4 DEF Checked, Sent, Received, Took
    <3>2. req[r].pc \in {"send", "check", "recv", "take"}
      BY <2>4 DEF Checked, Sent, Received, Took, At
    <3> QED
      BY <2>4, <3>1, <3>2 DEF Goes, Fails, Ends, Becomes, Running
  <2> QED
    BY <2>1, <2>2, <2>3, <2>4 DEF ClientStep, Meaning
<1>3. ASSUME NEW d \in Ids', InLines(q, d)'
      PROVE  /\ d = m => conns[m].txn
             /\ d # m => conns[m].broken
  <2>1. d \in Ids /\ (InLines(q, d) \/ (q = r /\ Sends(r, d)))
    BY <1>3, ClientSent
  <2>2. CASE InLines(q, d)
    BY <2>1, <2>2 DEF Meaning
  <2>3. CASE q = r /\ Sends(r, d)
    BY <2>3 DEF Sends, Meaning, Running
  <2> QED
    BY <2>1, <2>2, <2>3
<1>4. ran' = ran
  BY DEF ClientStep
<1>5. \A i \in DOMAIN ran'[q] : \/ ran'[q][i].txn /\ ran'[q][i].conn = m
                                \/ conns'[m].broken /\ ran'[q][i].conn # m
  BY <1>1, <1>4 DEF Meaning
<1> QED
  BY <1>1, <1>2, <1>3, <1>5 DEF Meaning

\* A request that comes: it means the transaction its browser was told of.
LEMMA MeaningNew ==
  ASSUME WebTypes, UseInv, PoolInv, OnceInv, OpenInv, NEW r \in Requests, ClientStep(r),
         req'[r].meant # req[r].meant, req'[r].meant # Nil
  PROVE  LET m == req'[r].meant IN
         /\ m \in Ids /\ conns'[m].session = SessionOf(r)
         /\ SharedIn(SessionOf(r))' \/ conns'[m].dropped \/ Meaning(r, req[r].meant)'
<1> DEFINE m == req'[r].meant
           s == SessionOf(r)
<1>0. Use(r) /\ Nil \notin Ids /\ open \in [Sessions -> Ids \cup {Nil}]
  BY NotNil DEF UseInv, WebTypes
<1>1. Gets(r) /\ m = Meant(r) /\ (\E c : GetPooled(r, c) \/ GetNew(r, c))
  BY DEF ClientStep, Gets, GetPooled, GetNew, GetNone, Checked, Popped, Sent, Received, Took,
         Goes, Fails, Ends, Becomes
<1>2. s \in Sessions /\ m = open[s] /\ req[r].pc = "none" /\ req[r].conn = Nil /\ ~req[r].retried
  BY <1>0, <1>1, RequestTypes DEF Meant, Gets, At, Use
<1>3. m \in Ids /\ conns[m].session = s /\ (SharedIn(s) \/ Opened(m))
  BY <1>0, <1>2 DEF OpenInv
<1>4. conns'[m].session = s /\ conns'[m].broken = conns[m].broken /\ conns'[m].txn = conns[m].txn
      /\ (conns[m].dropped => conns'[m].dropped)
  BY <1>3, ClientFrame DEF ServerEnd
<1>5. \A d \in Ids : ~SentOn(r, d)
  BY <1>0, <1>2 DEF OnceInv, Once
<1>6. \A d \in Ids' : ~InLines(r, d)'
  BY <1>2, <1>5, ClientSent DEF SentOn, Sends
<1>7. \A i \in DOMAIN ran'[r] : FALSE
  <2>1. ran' = ran /\ ran[r] \in Seq([conn : Ids, txn : BOOLEAN])
    BY DEF ClientStep, WebTypes, Runs
  <2>2. \A i \in DOMAIN ran[r] : ran[r][i] \in [conn : Ids, txn : BOOLEAN]
    BY <2>1, ElementOfSeq, LenProperties
  <2> QED
    BY <1>5, <2>1, <2>2 DEF SentOn, Ran
<1>8. ASSUME ~SharedIn(s)', ~conns'[m].dropped
      PROVE  \/ req'[r].conn = m /\ conns[m].txn
             \/ conns[m].broken
  <2> SUFFICES ASSUME ~conns[m].broken PROVE req'[r].conn = m /\ conns[m].txn
    OBVIOUS
  <2>1. pool[s] = m
    BY <1>2, <1>3, <1>4, <1>8, NilAssumption DEF PoolInv
  <2>2. GetPooled(r, m)
    BY <1>0, <1>1, <1>2, <1>3, <2>1 DEF GetPooled, GetNew
  <2>3. ~conns'[m].shared
    BY <1>3, <1>4, <1>8, ClientFrame DEF SharedIn, Ids
  <2>4. \A q \in Requests : ~Uses(q, m)
    BY <2>2, <2>3 DEF GetPooled, Changes
  <2>5. ~SharedIn(s)
    BY <1>8, ClientFrame
  <2> QED
    BY <1>3, <2>2, <2>4, <2>5 DEF Opened, GetPooled, Becomes
<1>9. ASSUME ~SharedIn(s)', ~conns'[m].dropped PROVE Meaning(r, req[r].meant)'
  <2>1. \/ req'[r].conn = m /\ conns'[m].txn
        \/ conns'[m].broken
    BY <1>4, <1>8, <1>9
  <2>2. \A d \in Ids' : ~InLines(r, d)'
    BY <1>6
  <2>3. m \in Ids'
    BY <1>3, ClientTouches
  <2> QED
    BY <1>7, <2>1, <2>2, <2>3 DEF Meaning
<1> QED
  BY <1>3, <1>4, <1>9

LEMMA ClientMeant ==
  ASSUME WebTypes, UseInv, PoolInv, OnceInv, OpenInv, MeantInv, NEW r \in Requests, ClientStep(r)
  PROVE  MeantInv'
<1> SUFFICES ASSUME NEW q \in Requests, StmtOf(q) = "write", NEW m, m = req'[q].meant, m # Nil
             PROVE  /\ conns'[m].session = SessionOf(q)
                    /\ SharedIn(SessionOf(q))' \/ conns'[m].dropped \/ Meaning(q, m)'
  BY ClientFrame DEF MeantInv, SessionOf, StmtOf, ClientStep
<1>1. CASE q = r /\ m # req[r].meant
  BY <1>1, MeaningNew
<1>2. CASE m = req[q].meant
  <2>1. m \in Ids
    BY <1>2, RequestTypes
  <2>2. /\ conns[m].session = SessionOf(q)
        /\ SharedIn(SessionOf(q)) \/ conns[m].dropped \/ Meaning(q, m)
    BY <1>2 DEF MeantInv
  <2>3. Meaning(q, m) => Meaning(q, m)'
    BY <1>2, <2>1, MeaningKept
  <2>4. SharedIn(SessionOf(q)) => SharedIn(SessionOf(q))'
    BY ClientFrame DEF SessionOf
  <2> QED
    BY <2>1, <2>2, <2>3, <2>4, ClientFrame
<1> QED
  BY <1>1, <1>2, ClientRequest

-----------------------------------------------------------------------------
(***************************************************************************)
(* Every step keeps the invariant.                                         *)
(***************************************************************************)
LEMMA WebInit ==
  ASSUME Init
  PROVE  WebInv
<1>1. /\ plan \in Plans /\ up = TRUE /\ pool = [s \in Sessions |-> Nil] /\ conns = <<>>
      /\ open = [s \in Sessions |-> Nil] /\ ran = [r \in Requests |-> <<>>]
      /\ \A r \in Requests :
           /\ req[r].pc = "none" /\ req[r].conn = Nil /\ req[r].meant = Nil /\ ~req[r].retried
  BY DEF Init
<1>2. Ids = {}
  BY <1>1 DEF Ids
<1>3. WebTypes
  <2>1. conns \in Seq(Connections) /\ \A r \in Requests : ran[r] \in Runs(Ids)
    BY <1>1, EmptySeq DEF Runs
  <2>2. req \in [Requests -> States(Ids)]
    BY DEF Init, States, RequestPCs
  <2> QED
    BY <1>1, <2>1, <2>2 DEF WebTypes
<1>4. PoolInv /\ UseInv /\ TrafficInv /\ AloneInv
  BY <1>1, <1>2 DEF PoolInv, UseInv, Use, TrafficInv, AloneInv, Waiting
<1>5. RepliesReachTheirRequest /\ BegunInv /\ OpenInv /\ MeantInv
  BY <1>1, <1>2 DEF RepliesReachTheirRequest, BegunInv, OpenInv, MeantInv
<1>6. OnceInv
  <2>1. \A r \in Requests : ran[r] = <<>>
    BY <1>1
  <2> QED
    BY <1>2, <2>1 DEF OnceInv, Once
<1> QED
  BY <1>3, <1>4, <1>5, <1>6 DEF WebInv

LEMMA ServerKeeps ==
  ASSUME WebInv, NetStep \/ \E c \in Ids : ExecStep(c)
  PROVE  WebInv'
<1>1. ServerMoves
  BY DEF NetStep, ExecStep
<1> QED
  BY <1>1, ServerTypes, ServerSimple, ServerAlone, ServerBegun, ServerOpen, ServerOnce, ServerMeant
     DEF WebInv

LEMMA ClientKeeps ==
  ASSUME WebInv, NEW r \in Requests, ClientStep(r)
  PROVE  WebInv'
BY ClientTypes, ClientPool, ClientUse, ClientTraffic, ClientAlone, ClientReplies, ClientBegun,
   ClientOpen, ClientOnce, ClientMeant DEF WebInv

LEMMA WebStep ==
  ASSUME WebInv, [Next]_vars
  PROVE  WebInv'
<1>0. WebTypes /\ UseInv /\ TrafficInv
  BY DEF WebInv
<1>1. ASSUME NEW r \in Requests, Arrive(r) \/ Request(r) PROVE WebInv'
  BY <1>0, <1>1, ClientForms, ClientKeeps
<1>2. CASE (\E c \in DOMAIN conns : Serve(c) \/ Break(c)) \/ Crash \/ Restart
  BY <1>0, <1>2, ServerForms, ServerKeeps DEF Ids
<1>3. CASE UNCHANGED vars
  <2>1. NetStep
    BY <1>0, <1>3 DEF vars, NetStep, ServerMoves, Moves, Rests, WebTypes, Ids
  <2> QED
    BY <2>1, ServerKeeps
<1> QED
  BY <1>1, <1>2, <1>3 DEF Next

\* However many browsers, requests and faults: the pool, the connections and what is
\* under way on them are as described, for query() of web_server.py and its threads on
\* the server (web_server.py 42-55, 737-753; db_client.py 48-64; db_server.py 122-177).
THEOREM WebInvariant == Spec => []WebInv
<1>1. Init => WebInv
  BY WebInit
<1>2. WebInv /\ [Next]_vars => WebInv'
  BY WebStep
<1> QED
  BY <1>1, <1>2, PTL DEF Spec

\* No request gets the reply of another one, unless its session has had two requests on
\* one connection at a time, and then only a reply of that session: neither breaks nor
\* crashes, nor the retry, cross the lines (web_server.py 42-55, db_client.py 48-64).
THEOREM RepliesGoHome == Spec => []RepliesReachTheirRequest
<1>1. WebInv => RepliesReachTheirRequest
  BY DEF WebInv
<1> QED
  BY <1>1, WebInvariant, PTL

\* The retry of query() carries a statement out a second time at most, never twice on a
\* connection, and only when the first one broke (web_server.py 742-751).
THEOREM RetryRunsTwiceAtMost == Spec => []RunTwiceOnlyAfterABreak
<1>1. ASSUME WebInv PROVE RunTwiceOnlyAfterABreak
  <2> SUFFICES ASSUME NEW r \in Requests
               PROVE  /\ Len(ran[r]) <= 2
                      /\ Len(ran[r]) = 2 =>
                           /\ SessionOf(r) # Nil
                           /\ ran[r][1].conn # ran[r][2].conn
                           /\ \E i \in 1..2 : /\ conns[ran[r][i].conn].broken
                                              /\ ran[r][i].conn # req[r].conn
    BY DEF RunTwiceOnlyAfterABreak
  <2>1. Once(r) /\ Use(r) /\ ran[r] \in Seq([conn : Ids, txn : BOOLEAN])
    BY <1>1 DEF WebInv, OnceInv, UseInv, WebTypes, Runs
  <2>2. Len(ran[r]) \in Nat /\ DOMAIN ran[r] = 1..Len(ran[r])
    BY <2>1, LenProperties
  <2>3. \A i \in DOMAIN ran[r] : ran[r][i] \in [conn : Ids, txn : BOOLEAN]
    BY <2>1, <2>2, ElementOfSeq
  <2>4. \A i \in DOMAIN ran[r] : ran[r][i].conn \in Ids /\ SentOn(r, ran[r][i].conn)
    BY <2>3 DEF SentOn, Ran
  <2>5. \A i, j \in DOMAIN ran[r] : ran[r][i].conn # req[r].conn =>
          /\ req[r].retried /\ conns[ran[r][i].conn].broken
          /\ ran[r][j].conn \in {ran[r][i].conn, req[r].conn}
    BY <2>1, <2>4 DEF Once
  <2>6. \A i, j \in DOMAIN ran[r] : ran[r][i].conn = ran[r][j].conn => i = j
    BY <2>1 DEF Once
  <2>7. Len(ran[r]) <= 2
    <3> SUFFICES ASSUME Len(ran[r]) > 2 PROVE FALSE
      BY <2>2
    <3>1. 1 \in DOMAIN ran[r] /\ 2 \in DOMAIN ran[r] /\ 3 \in DOMAIN ran[r]
      BY <2>2
    <3>2. ran[r][1].conn # ran[r][2].conn /\ ran[r][1].conn # ran[r][3].conn
          /\ ran[r][2].conn # ran[r][3].conn
      BY <2>6, <3>1
    <3> QED
      BY <2>5, <3>1, <3>2
  <2>8. ASSUME Len(ran[r]) = 2
        PROVE  /\ SessionOf(r) # Nil /\ ran[r][1].conn # ran[r][2].conn
               /\ \E i \in 1..2 : conns[ran[r][i].conn].broken /\ ran[r][i].conn # req[r].conn
    <3>1. 1 \in DOMAIN ran[r] /\ 2 \in DOMAIN ran[r]
      BY <2>2, <2>8
    <3>2. ran[r][1].conn # ran[r][2].conn
      BY <2>6, <3>1
    <3>3. PICK i \in {1, 2} : ran[r][i].conn # req[r].conn
      BY <3>2
    <3>4. req[r].retried /\ conns[ran[r][i].conn].broken
      BY <2>5, <3>1, <3>3
    <3> QED
      BY <2>1, <3>2, <3>3, <3>4 DEF Use
  <2> QED
    BY <2>7, <2>8
<1> QED
  BY <1>1, WebInvariant, PTL

\* What a browser sends after its BEGIN was answered runs in that transaction, but for
\* the three ways out of it: a broken connection, whose retry runs outside, two requests
\* of the session at a time, and a healthy connection thrown out of the pool
\* (web_server.py 742-748, db_server.py 170-177).
THEOREM WritesKeepTheirTransaction == Spec => []WritesStayInTheirTransaction
<1>1. WebInv => WritesStayInTheirTransaction
  BY DEF WebInv, MeantInv, Meaning, WritesStayInTheirTransaction
<1> QED
  BY <1>1, WebInvariant, PTL

=============================================================================
