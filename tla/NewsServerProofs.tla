-------------------------- MODULE NewsServerProofs --------------------------
(***************************************************************************)
(* What the news server keeps of its connections, for every set of         *)
(* connections, every backlog and every way of cutting messages short, and *)
(* any number of crashes.                                                  *)
(***************************************************************************)
EXTENDS NewsServer, TLAPS

Waits(c) == \E i \in 1..Len(backlog) : backlog[i] = c

\* The backlog is what waits, each connection once: nothing that TCP has
\* completed is forgotten, nothing that was closed or taken is accepted again.
BacklogIsWaiting ==
  /\ \A c \in Conns : conns[c].server = "queued" <=> Waits(c)
  /\ \A i, j \in 1..Len(backlog) : backlog[i] = backlog[j] => i = j

\* The loop and its thread serve one connection, whose server's end is open.
Serving ==
  /\ client = NoConn <=> server \in {"accept", "down"}
  /\ client # NoConn => conns[client].server = "open"

\* The exchange on the connection that is served: no answer before Reply, so
\* nothing but the handshake has come by then, and a notice after it.
Exchange ==
  /\ \A c \in Conns : conns[c].server = "queued" => conns[c].down = "none"
  /\ server \in {"handshake", "reply"} => conns[client].down = "none"
  /\ server = "reply" => conns[client].up = Nothing
  /\ server = "content" => conns[client].up \in Messages \cup {Nothing}
  /\ server = "insert" => received \in Messages

\* The inductive invariant.
IInv ==
  /\ TypeOK
  /\ NoConnectionLeaks
  /\ BacklogIsWaiting
  /\ Serving
  /\ Exchange

-----------------------------------------------------------------------------
(* What the operators on messages and connections return.                   *)

\* The messages without a notice differ from each other and from every notice.
LEMMA BlanksAreSegments ==
  /\ Short \in Messages /\ Broken \in Messages /\ Hollow \in Messages
  /\ Messages \subseteq Segments /\ WholeMessages \subseteq Messages
  /\ Handshake \in Segments /\ Remainder \in Segments
  /\ Nothing \notin Segments
BY DEF Messages, Segments, WholeMessages, Short, Broken, Hollow, Handshake,
       Remainder, Nothing, Blank

LEMMA FreshType == Free \in Connections /\ Fresh \in Connections
BY DEF Free, Fresh, Connections, ClientEnds, ServerEnds, Answers

LEMMA ClientClosesType ==
  ASSUME NEW c \in Connections
  PROVE  ClientCloses(c) \in Connections
BY FreshType DEF ClientCloses, Connections, ClientEnds

LEMMA ClientDiesType ==
  ASSUME NEW c \in Connections, NEW d \in ClientDies(c)
  PROVE  d \in Connections
BY FreshType DEF ClientDies, Connections, ClientEnds

LEMMA ServerClosesType ==
  ASSUME NEW c \in Connections
  PROVE  ServerCloses(c) \in Connections
BY FreshType DEF ServerCloses, Connections, ServerEnds

LEMMA SentType ==
  ASSUME NEW c \in Connections, NEW segment \in Segments
  PROVE  Sent(c, segment) \in Connections
BY DEF Sent, Connections

-----------------------------------------------------------------------------
(* Facts about the backlog and the data. *)

Distinct == \A i, j \in 1..Len(backlog) : backlog[i] = backlog[j] => i = j

\* Taking the oldest connection takes it away altogether.
LEMMA TakeFromBacklog ==
  ASSUME backlog \in Seq(Conns), backlog # <<>>, Distinct, backlog' = Tail(backlog)
  PROVE  /\ backlog' \in Seq(Conns) /\ Len(backlog') = Len(backlog) - 1
         /\ Head(backlog) \in Conns /\ Waits(Head(backlog))
         /\ \A c : Waits(c)' <=> Waits(c) /\ c # Head(backlog)
         /\ Distinct'
<1>1. /\ backlog' \in Seq(Conns) /\ Len(backlog') = Len(backlog) - 1
      /\ Len(backlog) \in Nat \ {0}
      /\ Head(backlog) = backlog[1] /\ backlog[1] \in Conns
      /\ \A i \in 1..Len(backlog') : backlog'[i] = backlog[i + 1]
  OBVIOUS
<1>2. Waits(Head(backlog))
  BY <1>1 DEF Waits
<1>3. ASSUME NEW c, Waits(c)' PROVE Waits(c) /\ c # Head(backlog)
  <2>1. PICK i \in 1..Len(backlog') : backlog'[i] = c
    BY <1>3 DEF Waits
  <2>2. i + 1 \in 1..Len(backlog) /\ backlog[i + 1] = c /\ i + 1 # 1
    BY <1>1, <2>1
  <2> QED BY <1>1, <2>2 DEF Waits, Distinct
<1>4. ASSUME NEW c, Waits(c), c # Head(backlog) PROVE Waits(c)'
  <2>1. PICK i \in 1..Len(backlog) : backlog[i] = c
    BY <1>4 DEF Waits
  <2>2. i - 1 \in 1..Len(backlog') /\ backlog'[i - 1] = c
    BY <1>1, <1>4, <2>1
  <2> QED BY <2>2 DEF Waits
<1>5. Distinct'
  <2> SUFFICES ASSUME NEW i \in 1..Len(backlog'), NEW j \in 1..Len(backlog'),
                      backlog'[i] = backlog'[j]
               PROVE  i = j
    BY DEF Distinct
  <2>1. /\ i + 1 \in 1..Len(backlog) /\ j + 1 \in 1..Len(backlog)
        /\ backlog[i + 1] = backlog[j + 1]
    BY <1>1
  <2> QED BY <2>1 DEF Distinct
<1> QED BY <1>1, <1>2, <1>3, <1>4, <1>5

\* A connection that did not wait joins those that do.
LEMMA PutInBacklog ==
  ASSUME backlog \in Seq(Conns), Distinct, NEW c \in Conns, ~Waits(c),
         backlog' = Append(backlog, c)
  PROVE  /\ backlog' \in Seq(Conns) /\ Len(backlog') = Len(backlog) + 1
         /\ \A d : Waits(d)' <=> Waits(d) \/ d = c
         /\ Distinct'
<1>1. /\ backlog' \in Seq(Conns) /\ Len(backlog') = Len(backlog) + 1
      /\ Len(backlog) \in Nat
      /\ backlog'[Len(backlog) + 1] = c
      /\ \A i \in 1..Len(backlog) : backlog'[i] = backlog[i]
  OBVIOUS
<1>2. \A i \in 1..Len(backlog') : i \in 1..Len(backlog) \/ i = Len(backlog) + 1
  BY <1>1
<1>3. \A d : Waits(d)' <=> Waits(d) \/ d = c
  BY <1>1, <1>2 DEF Waits
<1>4. Distinct'
  BY <1>1, <1>2 DEF Distinct, Waits
<1> QED BY <1>1, <1>3, <1>4

\* Nothing waits in an empty backlog.
LEMMA EmptyBacklog ==
  ASSUME backlog' = <<>>
  PROVE  /\ backlog' \in Seq(Conns) /\ Len(backlog') = 0
         /\ \A c : ~Waits(c)'
         /\ Distinct'
BY DEF Waits, Distinct

\* After the server closes its end, that end is neither open nor queued.
LEMMA ServerClosed ==
  ASSUME NEW c \in Connections
  PROVE  ServerCloses(c).server \in {"none", "closed"}
BY DEF ServerCloses, Free, Connections

\* What can be read of a message or a nothing that is there is a message.
LEMMA ReadableIsMessage ==
  ASSUME NEW m \in Messages, NEW r \in Readable(m)
  PROVE  r \in Messages
BY BlanksAreSegments DEF Readable

LEMMA BrokenIsNoHandshake == ~Authenticates(Broken) /\ Handshake # Nothing
BY DEF Authenticates, Broken, Handshake, Nothing, Blank

-----------------------------------------------------------------------------
(* The invariant. *)

LEMMA InvInit == Init => IInv
<1> SUFFICES ASSUME Init PROVE IInv
  OBVIOUS
<1> USE DEF Init
<1>1. TypeOK
  BY FreshType, BacklogAssumption DEF TypeOK, ServerSteps, Startups
<1>2. NoConnectionLeaks /\ BacklogIsWaiting /\ Serving /\ Exchange
  BY DEF NoConnectionLeaks, BacklogIsWaiting, Waits, Serving, Exchange, Free
<1> QED BY <1>1, <1>2 DEF IInv

\* What a client may do to its connection: leave, write, take the answer.  It
\* writes before the server has read, or a message that the server does not
\* take for what it replies to.
LEMMA OneClient ==
  ASSUME IInv, NEW c \in Conns, NEW n \in Connections,
         conns' = [conns EXCEPT ![c] = n],
         UNCHANGED <<backlog, server, client, received, startups, crashes,
                     queueVars>>,
         \/ n.server = conns[c].server
         \/ conns[c].server = "closed" /\ n.server = "none",
         n.down \in {conns[c].down, "none"},
         \/ n.up \in {conns[c].up, Nothing}
         \/ NotGreeted(c)
         \/ n.up \in Messages /\ (c = client => server # "reply")
  PROVE  IInv'
<1> USE DEF IInv, queueVars
<1>1. conns' \in [Conns -> Connections] /\ conns'[c] = n
      /\ \A d \in Conns \ {c} : conns'[d] = conns[d]
  BY DEF TypeOK
<1>2. TypeOK'
  BY <1>1 DEF TypeOK
<1>3. NoConnectionLeaks'
  BY <1>1 DEF NoConnectionLeaks
<1>4. BacklogIsWaiting'
  BY <1>1 DEF BacklogIsWaiting, Waits
<1>5. Serving'
  BY <1>1 DEF Serving, TypeOK
<1>6. Exchange'
  <2>1. server \in {"handshake", "reply", "content", "insert"} => client \in Conns
    BY DEF TypeOK, Serving
  <2>2. c = client => conns[c].server = "open"
    BY ConnsAssumption DEF Serving
  <2> QED BY <1>1, <2>1, <2>2 DEF Exchange, NotGreeted
<1> QED BY <1>2, <1>3, <1>4, <1>5, <1>6

LEMMA ClientConnectsKeeps ==
  ASSUME IInv, NEW c \in Conns, ClientConnects(c)
  PROVE  IInv'
<1> USE DEF ClientConnects, Enqueue, queueVars, IInv
<1>1. ~Waits(c) /\ Distinct
  BY DEF BacklogIsWaiting, Distinct, Free
<1>2. /\ backlog' \in Seq(Conns) /\ Len(backlog') = Len(backlog) + 1
      /\ \A d : Waits(d)' <=> Waits(d) \/ d = c
      /\ Distinct'
  BY <1>1, PutInBacklog DEF TypeOK
<1>3. conns' \in [Conns -> Connections] /\ conns'[c] = Fresh
      /\ \A d \in Conns \ {c} : conns'[d] = conns[d]
  BY FreshType DEF TypeOK
<1>4. TypeOK'
  BY <1>2, <1>3, BacklogAssumption DEF TypeOK
<1>5. NoConnectionLeaks'
  BY <1>3 DEF NoConnectionLeaks, Fresh
<1>6. BacklogIsWaiting'
  BY <1>2, <1>3 DEF BacklogIsWaiting, Distinct, Fresh
<1>7. c # client
  BY ConnsAssumption DEF Serving, Free
<1>8. Serving'
  BY <1>3, <1>7 DEF Serving, TypeOK
<1>9. Exchange'
  BY <1>3, <1>7 DEF Exchange, Serving, TypeOK, Fresh
<1> QED BY <1>4, <1>5, <1>6, <1>8, <1>9

LEMMA ClientGreetsKeeps ==
  ASSUME IInv, NEW c \in Conns, ClientGreets(c)
  PROVE  IInv'
<1>1. PICK m \in WholeMessages \cup {Handshake} :
        conns' = [conns EXCEPT ![c] = Sent(conns[c], m)]
  BY DEF ClientGreets
<1>2. Sent(conns[c], m) \in Connections /\ conns[c] \in Connections
  BY SentType, BlanksAreSegments DEF IInv, TypeOK
<1> QED BY <1>1, <1>2, OneClient DEF ClientGreets, Sent, Connections

\* The notice comes after the answer, and there is none before Reply.
LEMMA ClientSendsKeeps ==
  ASSUME IInv, NEW c \in Conns, ClientSends(c)
  PROVE  IInv'
<1>1. PICK m \in WholeMessages :
        conns' = [conns EXCEPT ![c] = [Sent(conns[c], m) EXCEPT !.down = "none"]]
  BY DEF ClientSends
<1>2. Sent(conns[c], m) \in Connections /\ conns[c] \in Connections
  BY SentType, BlanksAreSegments DEF IInv, TypeOK
<1>3. [Sent(conns[c], m) EXCEPT !.down = "none"] \in Connections
  BY <1>2 DEF Connections, Answers
<1>4. c = client => server # "reply"
  BY DEF ClientSends, IInv, Exchange
<1> QED BY <1>1, <1>2, <1>3, <1>4, OneClient, BlanksAreSegments
        DEF ClientSends, Sent, Connections

LEMMA ClientLeavesKeeps ==
  ASSUME IInv, NEW c \in Conns, ClientLeaves(c)
  PROVE  IInv'
<1>1. conns[c] \in Connections /\ ClientCloses(conns[c]) \in Connections
  BY ClientClosesType DEF IInv, TypeOK
<1> QED BY <1>1, OneClient DEF ClientLeaves, ClientCloses, Free, Connections

LEMMA ClientAbortsKeeps ==
  ASSUME IInv, NEW c \in Conns, ClientAborts(c)
  PROVE  IInv'
<1>1. PICK aborted \in ClientDies(conns[c]) :
        conns' = [conns EXCEPT ![c] = aborted]
  BY DEF ClientAborts
<1>2. conns[c] \in Connections /\ aborted \in Connections
  BY ClientDiesType DEF IInv, TypeOK
<1> QED BY <1>1, <1>2, OneClient DEF ClientAborts, ClientDies, Free, Connections

\* Whoever takes notices out of the queue leaves messages in it.
LEMMA QueueKeeps ==
  ASSUME IInv, queue' \in Seq(Messages), inserted' = inserted,
         UNCHANGED <<conns, backlog, server, client, received, startups, crashes>>
  PROVE  IInv'
BY DEF IInv, TypeOK, NoConnectionLeaks, BacklogIsWaiting, Waits, Serving, Exchange

LEMMA TakeNewsKeeps == IInv /\ TakeNews => IInv'
<1> SUFFICES ASSUME IInv, TakeNews PROVE IInv'
  OBVIOUS
<1>1. queue' \in Seq(Messages)
  BY DEF IInv, TypeOK, TakeNews
<1> QED BY <1>1, QueueKeeps DEF TakeNews

\* The connection accepted was waiting: its end opens while no other is open.
LEMMA AcceptKeeps == IInv /\ Accept => IInv'
<1> SUFFICES ASSUME IInv, Accept PROVE IInv'
  OBVIOUS
<1> DEFINE c == Head(backlog)
<1> USE DEF IInv, Accept, Goto, queueVars
<1>1. /\ backlog' \in Seq(Conns) /\ Len(backlog') = Len(backlog) - 1
      /\ c \in Conns /\ Waits(c)
      /\ \A d : Waits(d)' <=> Waits(d) /\ d # c
      /\ Distinct'
  BY TakeFromBacklog DEF TypeOK, BacklogIsWaiting, Distinct
<1>2. /\ conns' \in [Conns -> Connections]
      /\ conns'[c] = [conns[c] EXCEPT !.server = "open"]
      /\ conns'[c].server = "open" /\ conns'[c].down = conns[c].down
      /\ \A d \in Conns \ {c} : conns'[d] = conns[d]
  BY <1>1 DEF TypeOK, Connections, ServerEnds
<1>3. conns[c].server = "queued"
  BY <1>1 DEF BacklogIsWaiting
<1>4. TypeOK'
  BY <1>1, <1>2, BacklogAssumption DEF TypeOK, ServerSteps
<1>5. NoConnectionLeaks'
  BY <1>2, ConnsAssumption DEF NoConnectionLeaks, Serving
<1>6. BacklogIsWaiting'
  BY <1>1, <1>2 DEF BacklogIsWaiting, Distinct
<1>7. Serving' /\ Exchange'
  BY <1>1, <1>2, <1>3, ConnsAssumption DEF Serving, Exchange
<1> QED BY <1>4, <1>5, <1>6, <1>7

\* Closing some connections' ends opens and queues none.
LEMMA CloseAllFacts ==
  ASSUME TypeOK, NEW closing \in SUBSET Conns, CloseAll(closing)
  PROVE  /\ conns' \in [Conns -> Connections]
         /\ \A c \in closing : conns'[c].server \in {"none", "closed"}
         /\ \A c \in Conns \ closing : conns'[c] = conns[c]
BY ServerClosesType, ServerClosed DEF TypeOK, CloseAll

\* With the listening socket goes the whole backlog, with one reset
\* connection only that one.
LEMMA AcceptFailsKeeps == IInv /\ AcceptFails => IInv'
<1> SUFFICES ASSUME IInv, AcceptFails PROVE IInv'
  OBVIOUS
<1> USE DEF IInv
<1>1. /\ server = "accept" /\ startups \in 1..Startups /\ startups' = startups - 1
      /\ backlog # <<>> /\ client = NoConn
      /\ UNCHANGED <<server, client, received, crashes, queue, inserted>>
  BY DEF AcceptFails, Listening, TypeOK, Startups, Serving, queueVars
<1>2. PICK closing \in SUBSET Conns :
        /\ CloseAll(closing)
        /\ backlog' \in Seq(Conns) /\ Len(backlog') <= Backlog
        /\ Distinct'
        /\ \A c \in Conns : Waits(c)' <=> Waits(c) /\ c \notin closing
  <2>1. CASE startups = 1
    <3>1. CloseAll(Queued) /\ backlog' = <<>> /\ Queued \in SUBSET Conns
      BY <2>1 DEF AcceptFails, Queued
    <3>2. \A c \in Conns : Waits(c)' <=> Waits(c) /\ c \notin Queued
      BY <3>1, EmptyBacklog DEF BacklogIsWaiting, Queued
    <3> QED BY <3>1, <3>2, EmptyBacklog, BacklogAssumption
  <2>2. CASE startups # 1
    <3>1. CloseAll({Head(backlog)}) /\ backlog' = Tail(backlog)
      BY <2>2 DEF AcceptFails
    <3>2. /\ backlog' \in Seq(Conns) /\ Len(backlog') = Len(backlog) - 1
          /\ Head(backlog) \in Conns
          /\ \A c : Waits(c)' <=> Waits(c) /\ c # Head(backlog)
          /\ Distinct'
      BY <1>1, <3>1, TakeFromBacklog DEF TypeOK, BacklogIsWaiting, Distinct
    <3>3. Len(backlog') <= Backlog
      BY <3>2, BacklogAssumption DEF TypeOK
    <3> QED BY <3>1, <3>2, <3>3
  <2> QED BY <2>1, <2>2
<1>3. /\ conns' \in [Conns -> Connections]
      /\ \A c \in closing : conns'[c].server \in {"none", "closed"}
      /\ \A c \in Conns \ closing : conns'[c] = conns[c]
  BY <1>2, CloseAllFacts
<1>4. TypeOK'
  BY <1>1, <1>2, <1>3 DEF TypeOK, Startups
<1>5. NoConnectionLeaks'
  BY <1>1, <1>3 DEF NoConnectionLeaks
<1>6. BacklogIsWaiting'
  BY <1>2, <1>3 DEF BacklogIsWaiting, Distinct
<1>7. Serving' /\ Exchange'
  BY <1>1, <1>3 DEF Serving, Exchange
<1> QED BY <1>4, <1>5, <1>6, <1>7

\* What the thread does to the connection it serves, short of closing it.
LEMMA OneExchange ==
  ASSUME IInv, client \in Conns, NEW n \in Connections,
         conns' = [conns EXCEPT ![client] = n], n.server = "open",
         server' \in ServerSteps \ {"accept", "down"},
         UNCHANGED <<backlog, client, startups, crashes, queueVars>>,
         received' \in Messages \cup {Nothing},
         server' \in {"handshake", "reply"} => n.down = "none",
         server' = "reply" => n.up = Nothing,
         server' = "content" => n.up \in Messages \cup {Nothing},
         server' = "insert" => received' \in Messages
  PROVE  IInv'
<1> USE DEF IInv, queueVars
<1>1. conns' \in [Conns -> Connections] /\ conns'[client] = n
      /\ \A d \in Conns \ {client} : conns'[d] = conns[d]
  BY DEF TypeOK
<1>2. TypeOK'
  BY <1>1 DEF TypeOK
<1>3. NoConnectionLeaks'
  BY <1>1 DEF NoConnectionLeaks
<1>4. conns[client].server = "open"
  BY ConnsAssumption DEF Serving
<1>5. BacklogIsWaiting'
  BY <1>1, <1>4 DEF BacklogIsWaiting, Waits
<1>6. Serving' /\ Exchange'
  BY <1>1, ConnsAssumption DEF Serving, Exchange
<1> QED BY <1>2, <1>3, <1>5, <1>6

\* While a connection is served the thread's client is one, and open.
LEMMA ServedIsOpen ==
  ASSUME IInv, server \notin {"accept", "down"}
  PROVE  /\ client \in Conns /\ conns[client] \in Connections
         /\ conns[client].server = "open"
BY ConnsAssumption DEF IInv, TypeOK, Serving

LEMMA ReadHandshakeKeeps == IInv /\ ReadHandshake => IInv'
<1> SUFFICES ASSUME IInv, ReadHandshake PROVE IInv'
  OBVIOUS
<1>1. /\ server = "handshake"
      /\ client \in Conns /\ conns[client] \in Connections
      /\ conns[client].server = "open" /\ conns[client].down = "none"
  BY ServedIsOpen DEF ReadHandshake, IInv, Exchange
<1>2. UNCHANGED <<backlog, client, received, startups, crashes, queueVars>>
      /\ received \in Messages \cup {Nothing}
  BY DEF ReadHandshake, IInv, TypeOK
<1>3. PICK rest \in {Nothing, Remainder} :
        /\ conns' = [conns EXCEPT ![client] = [conns[client] EXCEPT !.up = rest]]
        /\ server' \in {"reply", "close"}
        /\ server' = "reply" => rest = Nothing
  BY BrokenIsNoHandshake DEF ReadHandshake
<1>4. [conns[client] EXCEPT !.up = rest] \in Connections
  BY <1>1, BlanksAreSegments DEF Connections
<1> QED BY <1>1, <1>2, <1>3, <1>4, OneExchange DEF Connections, ServerSteps

LEMMA ReplyKeeps == IInv /\ Reply => IInv'
<1> SUFFICES ASSUME IInv, Reply PROVE IInv'
  OBVIOUS
<1> DEFINE n == IF conns[client].client = "open"
                THEN [conns[client] EXCEPT !.down = "00"] ELSE conns[client]
<1>1. /\ server = "reply" /\ server' = "content"
      /\ client \in Conns /\ conns[client] \in Connections
      /\ conns[client].server = "open" /\ conns[client].up = Nothing
  BY ServedIsOpen DEF Reply, Goto, IInv, Exchange
<1>2. /\ conns' = [conns EXCEPT ![client] = n]
      /\ UNCHANGED <<backlog, client, received, startups, crashes, queueVars>>
      /\ received \in Messages \cup {Nothing}
  BY DEF Reply, IInv, TypeOK
<1>3. n \in Connections /\ n.server = "open" /\ n.up = Nothing
  BY <1>1 DEF Connections, Answers
<1> QED BY <1>1, <1>2, <1>3, OneExchange DEF ServerSteps

LEMMA ReadNoContentKeeps == IInv /\ ReadNoContent => IInv'
<1> SUFFICES ASSUME IInv, ReadNoContent PROVE IInv'
  OBVIOUS
<1>1. /\ server = "content" /\ server' = "close"
      /\ client \in Conns /\ conns[client] \in Connections
      /\ conns[client].server = "open"
      /\ conns' = [conns EXCEPT ![client] = conns[client]]
      /\ UNCHANGED <<backlog, client, received, startups, crashes, queueVars>>
      /\ received \in Messages \cup {Nothing}
  BY ServedIsOpen DEF ReadNoContent, Goto, IInv, TypeOK
<1> QED BY <1>1, OneExchange DEF ServerSteps

\* Whatever is read of a notice is a message: the protocol lets nothing else
\* come after the answer.
LEMMA ReadContentKeeps == IInv /\ ReadContent => IInv'
<1> SUFFICES ASSUME IInv, ReadContent PROVE IInv'
  OBVIOUS
<1>1. /\ server = "content" /\ server' = "insert"
      /\ client \in Conns /\ conns[client] \in Connections
      /\ conns[client].server = "open"
      /\ conns[client].up \in Messages
      /\ UNCHANGED <<backlog, client, startups, crashes, queueVars>>
  BY ServedIsOpen DEF ReadContent, Goto, IInv, Exchange
<1>2. received' \in Messages
  BY <1>1, ReadableIsMessage DEF ReadContent
<1>3. PICK rest \in {Nothing, Remainder} :
        conns' = [conns EXCEPT ![client] = [conns[client] EXCEPT !.up = rest]]
  BY DEF ReadContent
<1>4. [conns[client] EXCEPT !.up = rest] \in Connections
  BY <1>1, BlanksAreSegments DEF Connections
<1> QED BY <1>1, <1>2, <1>3, <1>4, OneExchange DEF Connections, ServerSteps

LEMMA InsertNewsKeeps == IInv /\ InsertNews => IInv'
<1> SUFFICES ASSUME IInv, InsertNews PROVE IInv'
  OBVIOUS
<1> USE DEF InsertNews, Goto, IInv
<1>1. received \in Messages
  BY DEF Exchange
<1>2. TypeOK'
  BY <1>1 DEF TypeOK, ServerSteps
<1>3. BacklogIsWaiting'
  BY DEF BacklogIsWaiting, Waits
<1> QED BY <1>2, <1>3 DEF NoConnectionLeaks, Serving, Exchange

\* OnConnect's last statement: the end that was open is closed, so that none
\* is when the loop accepts again.
LEMMA CloseKeeps == IInv /\ Close => IInv'
<1> SUFFICES ASSUME IInv, Close PROVE IInv'
  OBVIOUS
<1> USE DEF IInv
<1>1. /\ server = "close" /\ server' = "accept" /\ client' = NoConn
      /\ client \in Conns /\ conns[client] \in Connections
      /\ conns[client].server = "open"
      /\ conns' = [conns EXCEPT ![client] = ServerCloses(conns[client])]
      /\ UNCHANGED <<backlog, received, startups, crashes, queue, inserted>>
  BY ServedIsOpen DEF Close, Goto, queueVars
<1>2. /\ conns' \in [Conns -> Connections]
      /\ conns'[client].server \in {"none", "closed"}
      /\ \A c \in Conns \ {client} : conns'[c] = conns[c]
  BY <1>1, ServerClosesType, ServerClosed DEF TypeOK
<1>3. TypeOK'
  BY <1>1, <1>2 DEF TypeOK, ServerSteps
<1>4. NoConnectionLeaks'
  BY <1>1, <1>2 DEF NoConnectionLeaks
<1>5. BacklogIsWaiting'
  BY <1>1, <1>2 DEF BacklogIsWaiting, Waits
<1>6. Serving' /\ Exchange'
  BY <1>1, <1>2 DEF Serving, Exchange
<1> QED BY <1>3, <1>4, <1>5, <1>6

\* The end of the process closes what it served and what waited.
LEMMA EndProcessKeeps ==
  ASSUME IInv, EndProcess, UNCHANGED <<startups, queueVars>>,
         crashes' = crashes + 1
  PROVE  IInv'
<1> DEFINE closing == {c \in Conns : conns[c].server \in {"queued", "open"}}
<1> USE DEF IInv
<1>1. /\ server' = "down" /\ client' = NoConn /\ received' = Nothing
      /\ backlog' = <<>> /\ CloseAll(closing)
  BY DEF EndProcess
<1>2. /\ conns' \in [Conns -> Connections]
      /\ \A c \in Conns : conns'[c].server \notin {"queued", "open"}
  BY <1>1, CloseAllFacts
<1>3. TypeOK'
  BY <1>1, <1>2, EmptyBacklog, BacklogAssumption DEF TypeOK, ServerSteps, queueVars
<1>4. NoConnectionLeaks'
  BY <1>2 DEF NoConnectionLeaks
<1>5. BacklogIsWaiting'
  BY <1>1, <1>2, EmptyBacklog DEF BacklogIsWaiting, Distinct
<1>6. Serving' /\ Exchange'
  BY <1>1, <1>2 DEF Serving, Exchange
<1> QED BY <1>3, <1>4, <1>5, <1>6

LEMMA RestartKeeps == IInv /\ Restart => IInv'
<1> SUFFICES ASSUME IInv, Restart PROVE IInv'
  OBVIOUS
<1> USE DEF IInv, Restart, Goto, queueVars
<1>1. TypeOK'
  BY DEF TypeOK, ServerSteps, Startups
<1>2. BacklogIsWaiting'
  BY DEF BacklogIsWaiting, Waits
<1> QED BY <1>1, <1>2 DEF NoConnectionLeaks, Serving, Exchange

LEMMA InvNext == IInv /\ [Next]_vars => IInv'
<1> SUFFICES ASSUME IInv, [Next]_vars PROVE IInv'
  OBVIOUS
<1>1. CASE UNCHANGED vars
  BY <1>1 DEF vars, IInv, TypeOK, NoConnectionLeaks, BacklogIsWaiting, Waits,
              Serving, Exchange
<1>2. CASE Serve
  <2>1. CASE AcceptSpins
    BY <1>1, <2>1 DEF AcceptSpins
  <2>2. CASE ReadFaults
    BY <2>2, EndProcessKeeps DEF ReadFaults
  <2> QED BY <1>2, <2>1, <2>2, AcceptKeeps, AcceptFailsKeeps, ReadHandshakeKeeps,
             ReplyKeeps, ReadNoContentKeeps, ReadContentKeeps, InsertNewsKeeps,
             CloseKeeps DEF Serve
<1>3. CASE Kill
  BY <1>3, EndProcessKeeps DEF Kill
<1>4. CASE Restart
  BY <1>4, RestartKeeps
<1>5. CASE Surroundings
  BY <1>5, ClientConnectsKeeps, ClientGreetsKeeps, ClientSendsKeeps,
     ClientLeavesKeeps, ClientAbortsKeeps, TakeNewsKeeps DEF Surroundings
<1> QED BY <1>1, <1>2, <1>3, <1>4, <1>5 DEF Next, ServerStep

LEMMA Invariance == Spec => []IInv
<1> QED BY InvInit, InvNext, PTL DEF Spec

-----------------------------------------------------------------------------
\* Every step keeps the types; in particular what is queued is a message, and
\* WSACleanup is never called more often than WSAStartup.
THEOREM TypeCorrect == Spec => []TypeOK
<1>1. IInv => TypeOK
  BY DEF IInv
<1> QED BY <1>1, Invariance, PTL

\* The server's end of a connection is open only while it is served: OnConnect
\* closes on each of its ways out, and the end of the process closes the rest.
THEOREM NothingLeaks == Spec => []NoConnectionLeaks
<1>1. IInv => NoConnectionLeaks
  BY DEF IInv
<1> QED BY <1>1, Invariance, PTL

\* The backlog holds the connections that wait and no other, each once: a
\* failed accept, a crash or a slot used again neither forgets a waiting
\* connection nor makes the loop accept one twice.
THEOREM NobodyForgotten == Spec => []BacklogIsWaiting
<1>1. IInv => BacklogIsWaiting
  BY DEF IInv
<1> QED BY <1>1, Invariance, PTL

=============================================================================
