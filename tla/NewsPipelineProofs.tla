------------------------- MODULE NewsPipelineProofs -------------------------
(***************************************************************************)
(* The way of a notice, for any number of editors, connections, notices,   *)
(* faults, exits and crashes: the programs together implement NewsDelivery *)
(* and, on days without deaths and cuts, no notice vanishes.               *)
(*                                                                         *)
(* Each program's part of the invariant is that of its own proofs; what is *)
(* proved here is that the steps of the others keep it, and what ties the  *)
(* three together: the dialogue on a connection and where notices come     *)
(* from.                                                                   *)
(***************************************************************************)
EXTENDS NewsPipeline, TLAPS

PP == INSTANCE PublisherProofs
SP == INSTANCE NewsServerProofs WITH MaxQueued <- 0
AP == INSTANCE DataAccessProofs WITH Arrivals <- Messages

-----------------------------------------------------------------------------
(* The dialogue. *)

\* A sender has a connection from its connect to its close, for itself alone.
Sockets ==
  \A p \in Publishers :
    /\ sock[p] = NoConn <=> sender[p] \in {"idle", "started"}
    /\ sock[p] # NoConn =>
         /\ conns[sock[p]].client = "open"
         /\ conns[sock[p]].server # "none"
         /\ \A q \in Publishers : sock[q] = sock[p] => q = p

\* The server waits for the notice on this connection, or has died.
Attended(k) ==
  /\ k.server \in {"open", "closed"}
  /\ k.server = "open" => server = "content" /\ k.up = Nothing

\* What the server can have done, by where the sender is.
Dialogue(p) ==
  LET k == conns[sock[p]]
  IN  /\ sender[p] \in {"scan", "test", "shake"} =>
           /\ k.up = Nothing /\ k.down = "none"
           /\ k.server = "open" => server = "handshake"
      /\ sender[p] = "await" /\ k.down = "00" => Attended(k)
      /\ sender[p] = "content" => Attended(k)

\* A message on its way is read by a server that waits for it, and by nothing
\* else.
InFlight ==
  \A c \in Conns :
    conns[c].up \in Messages => conns[c].server = "open" /\ server = "content"

\* The server holds a message only until it inserts it.
Held == received # Nothing => server = "insert"

Link == Sockets /\ InFlight /\ Held /\ \A p \in Publishers : Dialogue(p)

-----------------------------------------------------------------------------
(* Where notices come from. *)

Entered(p, id, item) == P!Notice(p, id, item) \in entered

Typed(m) == [id |-> m.id, item |-> m.item] \in typedNotices

\* On its way from the publisher to the queue, or there at some time.
OnWay(m) == (\E c \in Conns : conns[c].up = m) \/ received = m \/ m \in inserted

\* What is in a database or in a sender's hands was typed there, and what is
\* on its way was typed somewhere.
Origins ==
  /\ \A n \in entered : n.by \in Publishers /\ n.id \in Ids /\ n.item \in Items
  /\ \A p \in Publishers : \A id \in P!RowIds :
       /\ db[p][id].item # NoItem => Entered(p, id, db[p][id].item)
       /\ disk[p][id].item # NoItem => Entered(p, id, disk[p][id].item)
  /\ \A p \in Publishers :
       current[p].item # NoItem => Entered(p, current[p].id, current[p].item)
  /\ \A m \in WholeMessages : OnWay(m) => Typed(m)

-----------------------------------------------------------------------------
(* Days on which nothing dies and nothing is cut short. *)

GoodDays == ends = 0 /\ crashes = 0 /\ Cuts \subseteq {"tiny"}

\* Once it has answered the server stays until it has the notice, and what a
\* sender marks, or has marked, is on its way.
Arriving ==
  GoodDays =>
    /\ \A p \in Publishers :
         /\ \/ sender[p] = "content"
            \/ sender[p] = "await" /\ conns[sock[p]].down = "00"
            => conns[sock[p]].server = "open"
         /\ sender[p] = "mark" /\ current[p].item # NoItem =>
              OnWay(Whole(current[p].id, current[p].item))
    /\ \A n \in entered :
         db[n.by][n.id].item = n.item =>
           db[n.by][n.id].state = "unsent" \/ OnWay(Whole(n.id, n.item))

\* The inductive invariant.
IInv ==
  /\ PP!IInv /\ SP!IInv /\ AP!IInv /\ AP!Sources
  /\ Link /\ Origins /\ Arriving

-----------------------------------------------------------------------------
(* What the operators on messages and connections return.                   *)

\* The messages without a notice differ from each other and from every notice.
LEMMA BlanksAreSegments ==
  /\ Short \in Messages /\ Broken \in Messages /\ Hollow \in Messages
  /\ Messages \subseteq Segments /\ WholeMessages \subseteq Messages
  /\ Handshake \in Segments /\ Remainder \in Segments
  /\ Nothing \notin Segments
BY DEF Messages, Segments, WholeMessages, Short, Broken, Hollow, Handshake,
       Remainder, Nothing, Blank

LEMMA WholeIsMessage ==
  ASSUME NEW id \in Ids, NEW item \in Items
  PROVE  Whole(id, item) \in WholeMessages
BY DEF Whole, WholeMessages

-----------------------------------------------------------------------------
(* The instances made for the proofs are the instances of the model. *)

LEMMA Assumptions ==
  /\ Ids \subseteq Nat /\ NoId \notin Ids /\ NoItem \notin Items
  /\ NoConn \notin Conns
  /\ Backlog \in Nat \ {0} /\ Cuts \subseteq {"tiny", "short", "broken"}
  /\ MaxEnds \in Nat /\ MaxCrashes \in Nat /\ MaxFaults \in Nat /\ 0 \in Nat
BY IdsAssumption, SentinelAssumption, ConnsAssumption, PipelineAssumption

LEMMA SameData ==
  /\ SP!Messages = Messages /\ AP!Messages = Messages
  /\ SP!Connections = Connections /\ PP!Connections = Connections
  /\ SP!Nothing = Nothing /\ AP!WholeMessages = WholeMessages
BY DEF Connections, ClientEnds, ServerEnds, Answers, Segments, Messages,
       WholeMessages, Nothing, Short, Broken, Hollow, Handshake, Remainder, Blank,
       SP!Connections, SP!ClientEnds, SP!ServerEnds, SP!Answers, SP!Segments,
       SP!Messages, SP!WholeMessages, SP!Nothing, SP!Short, SP!Broken, SP!Hollow,
       SP!Handshake, SP!Remainder, SP!Blank,
       PP!Connections, PP!ClientEnds, PP!ServerEnds, PP!Answers, PP!Segments,
       PP!Messages, PP!WholeMessages, PP!Nothing, PP!Short, PP!Broken, PP!Hollow,
       PP!Handshake, PP!Remainder, PP!Blank,
       AP!Messages, AP!WholeMessages, AP!Short, AP!Broken, AP!Hollow, AP!Blank

LEMMA SameInit ==
  (P!Init <=> PP!Init) /\ (S!Init <=> SP!Init) /\ (A!Init <=> AP!Init)
BY DEF P!Init, P!Free, P!Nothing, P!Blank, P!Absent, P!RowIds, P!Uninitialised,
       PP!Init, PP!Free, PP!Nothing, PP!Blank, PP!Absent, PP!RowIds,
       PP!Uninitialised,
       S!Init, S!Free, S!Nothing, S!Blank, S!Startups,
       SP!Init, SP!Free, SP!Nothing, SP!Blank, SP!Startups,
       A!Init, A!Nothing, A!Short, A!Blank,
       AP!Init, AP!Nothing, AP!Short, AP!Blank
LEMMA SamePublisher ==
  ASSUME NEW p \in Publishers
  PROVE  /\ P!SenderStep(p) <=> PP!SenderStep(p)
         /\ P!EditorStep(p) <=> PP!EditorStep(p)
         /\ P!ProcessStep(p) <=> PP!ProcessStep(p)
         /\ P!ConnectFails(p) <=> PP!ConnectFails(p)
BY DEF P!SenderStep, P!EditorStep, P!ProcessStep, P!ConnectFails,
       P!StartSender, P!GetRow, P!ScanReturns, P!ScanGoesOn, P!ScanEnds,
       P!WriteHandshake, P!ReadOk, P!ReadFails, P!WriteContent,
       P!MarkExported, P!CloseSocket, P!Save, P!Quit, P!Finish, P!Kill,
       P!Restart, P!Goto, P!fileVars, P!senderVars, P!historyVars, P!Ahead,
       P!StatusSeen, P!CurrentSeen, P!Sent, P!Handshake, P!XmlOf, P!Notice,
       P!Put, P!Exported, P!ClientCloses, P!ForgetLocals, P!Unsent,
       P!ClientDies, P!Files, P!RowIds, P!Absent, P!Uninitialised,
       P!ZeroRecord, P!Blank, P!Hollow, P!Whole, P!Free, P!Nothing, P!File,
       PP!SenderStep, PP!EditorStep, PP!ProcessStep, PP!ConnectFails,
       PP!StartSender, PP!GetRow, PP!ScanReturns, PP!ScanGoesOn, PP!ScanEnds,
       PP!WriteHandshake, PP!ReadOk, PP!ReadFails, PP!WriteContent,
       PP!MarkExported, PP!CloseSocket, PP!Save, PP!Quit, PP!Finish, PP!Kill,
       PP!Restart, PP!Goto, PP!fileVars, PP!senderVars, PP!historyVars,
       PP!Ahead, PP!StatusSeen, PP!CurrentSeen, PP!Sent, PP!Handshake,
       PP!XmlOf, PP!Notice, PP!Put, PP!Exported, PP!ClientCloses,
       PP!ForgetLocals, PP!Unsent, PP!ClientDies, PP!Files, PP!RowIds,
       PP!Absent, PP!Uninitialised, PP!ZeroRecord, PP!Blank, PP!Hollow,
       PP!Whole, PP!Free, PP!Nothing, PP!File

LEMMA SameConnect ==
  ASSUME NEW p \in Publishers, NEW c \in Conns
  PROVE  P!Connect(p, c) <=> PP!Connect(p, c)
BY DEF P!Connect, P!Goto, P!Free, P!Fresh, P!fileVars, P!historyVars,
       P!Nothing, P!Blank, PP!Connect, PP!Goto, PP!Free, PP!Fresh,
       PP!fileVars, PP!historyVars, PP!Nothing, PP!Blank

LEMMA SameServer == S!ServerStep <=> SP!ServerStep
BY DEF S!ServerStep, S!Serve, S!Kill, S!Restart, S!Accept, S!AcceptFails,
       S!AcceptSpins, S!ReadHandshake, S!Reply, S!ReadNoContent,
       S!ReadContent, S!ReadFaults, S!InsertNews, S!Close, S!EndProcess,
       S!queueVars, S!Goto, S!Startups, S!Listening, S!CloseAll, S!Queued,
       S!vars, S!CanRead, S!Authenticates, S!Nothing, S!Broken, S!Remainder,
       S!Readable, S!ServerCloses, S!Handshake, S!Blank, S!Short, S!Free,
       SP!ServerStep, SP!Serve, SP!Kill, SP!Restart, SP!Accept,
       SP!AcceptFails, SP!AcceptSpins, SP!ReadHandshake, SP!Reply,
       SP!ReadNoContent, SP!ReadContent, SP!ReadFaults, SP!InsertNews,
       SP!Close, SP!EndProcess, SP!queueVars, SP!Goto, SP!Startups,
       SP!Listening, SP!CloseAll, SP!Queued, SP!vars, SP!CanRead,
       SP!Authenticates, SP!Nothing, SP!Broken, SP!Remainder, SP!Readable,
       SP!ServerCloses, SP!Handshake, SP!Blank, SP!Short, SP!Free

LEMMA SameAccess ==
  /\ A!Saver <=> AP!Saver
  /\ A!Terminate <=> AP!Terminate
  /\ A!Environment <=> AP!Environment
BY DEF A!Saver, A!Terminate, A!Environment, A!Receive, A!ReceiveTimesOut,
       A!Assign, A!Discard, A!Parse, A!ParseFaults, A!UploadStores,
       A!UploadFails, A!UploadUnanswered, A!LdapFails, A!WakeUp,
       A!TerminateTests, A!TerminateInserts, A!TerminateFaults,
       A!TerminateExits, A!Signal, A!Kill, A!Start, A!LdapGoesDown,
       A!LdapComesUp, A!ldapVars, A!Nothing, A!historyVars, A!IsValid,
       A!ParseCrashes, A!EndProcess, A!AtRisk, A!Insert, A!saverVars, A!Short,
       A!LateAtRisk, A!Running, A!Blank, A!Broken, A!Hollow, A!InHand,
       AP!Saver, AP!Terminate, AP!Environment, AP!Receive, AP!ReceiveTimesOut,
       AP!Assign, AP!Discard, AP!Parse, AP!ParseFaults, AP!UploadStores,
       AP!UploadFails, AP!UploadUnanswered, AP!LdapFails, AP!WakeUp,
       AP!TerminateTests, AP!TerminateInserts, AP!TerminateFaults,
       AP!TerminateExits, AP!Signal, AP!Kill, AP!Start, AP!LdapGoesDown,
       AP!LdapComesUp, AP!ldapVars, AP!Nothing, AP!historyVars, AP!IsValid,
       AP!ParseCrashes, AP!EndProcess, AP!AtRisk, AP!Insert, AP!saverVars,
       AP!Short, AP!LateAtRisk, AP!Running, AP!Blank, AP!Broken, AP!Hollow,
       AP!InHand

LEMMA SamePublisherTypes == P!TypeOK <=> PP!TypeOK
BY DEF P!TypeOK, P!Connections, P!RowIds, P!Row, P!SenderSteps, P!Records,
       P!Notices, P!ClientEnds, P!ServerEnds, P!Segments, P!Nothing,
       P!Answers, P!Messages, P!Handshake, P!Remainder, P!Blank,
       P!WholeMessages, P!Short, P!Broken, P!Hollow, PP!TypeOK,
       PP!Connections, PP!RowIds, PP!Row, PP!SenderSteps, PP!Records,
       PP!Notices, PP!ClientEnds, PP!ServerEnds, PP!Segments, PP!Nothing,
       PP!Answers, PP!Messages, PP!Handshake, PP!Remainder, PP!Blank,
       PP!WholeMessages, PP!Short, PP!Broken, PP!Hollow

LEMMA SameServerTypes == S!TypeOK <=> SP!TypeOK
BY DEF S!TypeOK, S!Connections, S!ServerSteps, S!Messages, S!Nothing,
       S!Startups, S!ClientEnds, S!ServerEnds, S!Segments, S!Answers,
       S!WholeMessages, S!Short, S!Broken, S!Hollow, S!Blank, S!Handshake,
       S!Remainder, SP!TypeOK, SP!Connections, SP!ServerSteps, SP!Messages,
       SP!Nothing, SP!Startups, SP!ClientEnds, SP!ServerEnds, SP!Segments,
       SP!Answers, SP!WholeMessages, SP!Short, SP!Broken, SP!Hollow, SP!Blank,
       SP!Handshake, SP!Remainder

LEMMA SameAccessTypes == A!TypeOK <=> AP!TypeOK
BY DEF A!TypeOK, A!Messages, A!SaverSteps, A!Nothing, A!HandlerSteps,
       A!Failures, A!WholeMessages, A!Short, A!Broken, A!Hollow, A!Blank,
       AP!TypeOK, AP!Messages, AP!SaverSteps, AP!Nothing, AP!HandlerSteps,
       AP!Failures, AP!WholeMessages, AP!Short, AP!Broken, AP!Hollow,
       AP!Blank

-----------------------------------------------------------------------------
(* Each program's part of the invariant, under the steps of the others. *)

PublisherMoves(p) ==
  PP!SenderStep(p) \/ PP!EditorStep(p) \/ PP!ProcessStep(p) \/ PP!ConnectFails(p)

LEMMA PublishersUnderPublisher ==
  ASSUME PP!IInv, NEW p \in Publishers,
         PublisherMoves(p) \/ \E c \in Conns : PP!Connect(p, c)
  PROVE  PP!IInv'
BY PP!InvNext, Assumptions DEF PublisherMoves, PP!Next

LEMMA PublishersUnderOthers ==
  ASSUME PP!IInv, SP!IInv', UNCHANGED publisherVars
  PROVE  PP!IInv'
<1>1. conns' \in [Conns -> PP!Connections]
  BY SameData DEF SP!IInv, SP!TypeOK
<1>2. PP!TypeOK'
  BY <1>1 DEF PP!IInv, PP!TypeOK, publisherVars
<1> QED BY <1>2, PP!Elsewhere, Assumptions DEF publisherVars

LEMMA ServerUnderServer ==
  ASSUME SP!IInv, SP!ServerStep
  PROVE  SP!IInv'
BY SP!InvNext, Assumptions DEF SP!Next

LEMMA AccessUnderAccess ==
  ASSUME AP!IInv, AP!Sources, AP!Saver \/ AP!Terminate \/ AP!Environment
  PROVE  AP!IInv' /\ AP!Sources'
BY AP!InvNext, AP!SourcesNext, Assumptions, SameData DEF AP!Next

LEMMA ServerUnderAccess ==
  ASSUME SP!IInv, AP!IInv', AP!Saver \/ AP!Terminate \/ AP!Environment,
         UNCHANGED <<conns, serverVars>>
  PROVE  SP!IInv'
<1>1. queue' \in Seq(SP!Messages)
  BY SameData DEF AP!IInv, AP!TypeOK
<1>2. inserted' = inserted
  BY DEF AP!Saver, AP!Terminate, AP!Environment, AP!Receive, AP!ReceiveTimesOut,
       AP!Assign, AP!Discard, AP!Parse, AP!ParseFaults, AP!UploadStores,
       AP!UploadFails, AP!UploadUnanswered, AP!LdapFails, AP!WakeUp,
       AP!TerminateTests, AP!TerminateInserts, AP!TerminateFaults,
       AP!TerminateExits, AP!Signal, AP!Kill, AP!Start, AP!LdapGoesDown,
       AP!LdapComesUp
<1> QED BY <1>1, <1>2, SP!QueueKeeps, Assumptions DEF serverVars

\* The saver and the signal handler see the server's work as arrivals.
LEMMA AccessUnderServer ==
  ASSUME SP!IInv, AP!IInv, AP!Sources, SP!ServerStep, UNCHANGED accessVars
  PROVE  AP!IInv' /\ AP!Sources'
<1>1. CASE SP!InsertNews
  <2>1. /\ received \in AP!Messages
        /\ queue' = Append(queue, received)
        /\ inserted' = inserted \cup {received}
    BY <1>1, SameData DEF SP!InsertNews, SP!Goto, SP!IInv, SP!Exchange
  <2>2. UNCHANGED <<AP!ldapVars, AP!saverVars, handler, faults, AP!historyVars>>
    BY DEF accessVars, AP!ldapVars, AP!saverVars, AP!historyVars
  <2>3. UNCHANGED <<directory, xmlNew, qMsg>>
    BY DEF accessVars
  <2>4. AP!IInv'
    BY <2>1, <2>2, AP!EnqueueKeeps, Assumptions, SameData
  <2>5. AP!Sources'
    BY <2>1, <2>3, AP!SourcesEnqueue, Assumptions, SameData
  <2> QED BY <2>4, <2>5
<1>2. CASE ~SP!InsertNews
  <2>1. UNCHANGED <<queue, inserted>>
    BY <1>2 DEF SP!ServerStep, SP!Serve, SP!Kill, SP!Restart, SP!Accept,
         SP!AcceptFails, SP!AcceptSpins, SP!ReadHandshake, SP!Reply,
         SP!ReadNoContent, SP!ReadContent, SP!ReadFaults, SP!Close,
         SP!queueVars, SP!vars
  <2>2. UNCHANGED AP!vars
    BY <2>1 DEF accessVars, AP!vars
  <2> QED BY <2>2, AP!InvNext, AP!SourcesNext, Assumptions, SameData
<1> QED BY <1>1, <1>2

LEMMA AccessUnderPublisher ==
  ASSUME AP!IInv, AP!Sources, UNCHANGED <<queue, inserted, accessVars>>
  PROVE  AP!IInv' /\ AP!Sources'
<1>1. UNCHANGED AP!vars
  BY DEF accessVars, AP!vars
<1> QED BY <1>1, AP!InvNext, AP!SourcesNext, Assumptions, SameData

\* A sender that has a connection has one of the slots.
LEMMA SenderHasSlot ==
  ASSUME PP!IInv, Link, NEW p \in Publishers, sender[p] \notin {"idle", "started"}
  PROVE  /\ sock[p] \in Conns /\ conns[sock[p]] \in Connections
         /\ conns[sock[p]].client = "open" /\ conns[sock[p]].server # "none"
         /\ \A q \in Publishers : sock[q] = sock[p] => q = p
BY SameData DEF PP!IInv, PP!TypeOK, Link, Sockets

\* What the publishers do to the connections, for the server: they write the
\* handshake first and the notice after the answer.
LEMMA ServerUnderSender ==
  ASSUME IInv, NEW p \in Publishers, PublisherMoves(p),
         UNCHANGED <<queue, inserted, serverVars>>
  PROVE  SP!IInv'
<1> DEFINE c == sock[p]
<1> USE DEF IInv
<1>1. PP!IInv'
  BY PublishersUnderPublisher
<1>2. /\ conns \in [Conns -> SP!Connections] /\ conns' \in [Conns -> SP!Connections]
      /\ c \in Conns \cup {NoConn}
  BY <1>1, SameData DEF PP!IInv, PP!TypeOK
<1>3. ASSUME conns' = conns PROVE SP!IInv'
  <2>1. UNCHANGED SP!vars
    BY <1>3 DEF SP!vars, serverVars
  <2> QED BY <2>1, SP!InvNext, Assumptions
<1>4. ASSUME c \in Conns, NEW n, conns' = [conns EXCEPT ![c] = n],
             n.server = conns[c].server
               \/ (conns[c].server = "closed" /\ n.server = "none"),
             n.down \in {conns[c].down, "none"},
             \/ n.up \in {conns[c].up, Nothing}
             \/ SP!NotGreeted(c)
             \/ n.up \in Messages /\ (c = client => server # "reply")
      PROVE  SP!IInv'
  <2>1. n \in SP!Connections
    BY <1>2, <1>4
  <2>2. UNCHANGED <<backlog, server, client, received, startups, crashes,
                    SP!queueVars>>
    BY DEF serverVars, SP!queueVars
  <2> QED BY <1>4, <2>1, <2>2, SP!OneClient, Assumptions, SameData
<1>5. ASSUME conns[c].server = "open", c \in Conns
      PROVE  c = client
  BY <1>5 DEF SP!IInv, SP!NoConnectionLeaks
<1>6. CASE PP!WriteHandshake(p)
  <2>1. /\ sender[p] = "shake"
        /\ conns' = [conns EXCEPT ![c] = PP!Sent(conns[c], PP!Handshake)]
    BY <1>6 DEF PP!WriteHandshake, PP!Goto
  <2>2. c \in Conns /\ conns[c] \in Connections /\ conns[c].server # "none"
    BY <2>1, SenderHasSlot
  <2>3. conns[c].server = "open" => server = "handshake" /\ client = c
    BY <1>5, <2>1, <2>2 DEF Link, Dialogue
  <2>4. conns[c].server # "closed" => SP!NotGreeted(c)
    BY <2>2, <2>3 DEF SP!NotGreeted, Connections, ServerEnds
  <2> QED BY <1>4, <2>1, <2>2, <2>4 DEF PP!Sent, Connections
<1>7. CASE PP!ReadOk(p)
  <2>1. /\ sender[p] = "await"
        /\ conns' = [conns EXCEPT ![c] = [conns[c] EXCEPT !.down = "none"]]
    BY <1>7 DEF PP!ReadOk, PP!Goto
  <2>2. c \in Conns /\ conns[c] \in Connections
    BY <2>1, SenderHasSlot
  <2> QED BY <1>4, <2>1, <2>2 DEF Connections
<1>8. CASE PP!WriteContent(p)
  <2>1. /\ sender[p] = "content"
        /\ conns' = [conns EXCEPT ![c] = PP!Sent(conns[c], PP!XmlOf(current[p]))]
    BY <1>8 DEF PP!WriteContent, PP!Goto
  <2>2. c \in Conns /\ conns[c] \in Connections /\ conns[c].server # "none"
    BY <2>1, SenderHasSlot
  <2>3. Attended(conns[c])
    BY <2>1 DEF Link, Dialogue
  <2>4. c = client => conns[c].server = "open"
    BY <2>2, Assumptions DEF SP!IInv, SP!Serving
  <2>5. c = client => server # "reply"
    BY <2>3, <2>4 DEF Attended
  <2>6. PP!XmlOf(current[p]) \in Messages
    <3>1. /\ current[p].item \in Items \cup {NoItem}
          /\ current[p].item # NoItem => current[p].id \in Ids
      BY DEF PP!IInv, PP!TypeOK, PP!Records, PP!Senders, PP!Scanning
    <3> QED BY <3>1 DEF PP!XmlOf, PP!Hollow, PP!Blank, PP!Whole, Messages,
                 WholeMessages, Hollow, Blank
  <2> QED BY <1>4, <2>1, <2>2, <2>5, <2>6 DEF PP!Sent, Connections
<1>9. CASE PP!CloseSocket(p)
  <2>1. /\ sender[p] = "close"
        /\ conns' = [conns EXCEPT ![c] = PP!ClientCloses(conns[c])]
    BY <1>9 DEF PP!CloseSocket, PP!Goto
  <2>2. c \in Conns /\ conns[c] \in Connections /\ conns[c].server # "none"
    BY <2>1, SenderHasSlot
  <2>3. PP!Nothing = Nothing
    BY DEF PP!Nothing, PP!Blank, Nothing, Blank
  <2> QED BY <1>4, <2>1, <2>2, <2>3 DEF PP!ClientCloses, PP!Free, Connections
<1>10. CASE PP!Kill(p)
  <2>1. CASE c = NoConn
    BY <1>3, <1>10, <2>1 DEF PP!Kill
  <2>2. CASE c # NoConn
    <3>1. PICK n \in PP!ClientDies(conns[c]) : conns' = [conns EXCEPT ![c] = n]
      BY <1>10, <2>2 DEF PP!Kill
    <3>2. c \in Conns /\ conns[c] \in Connections
      BY <1>2, <2>2, SameData
    <3>3. PP!Nothing = Nothing
      BY DEF PP!Nothing, PP!Blank, Nothing, Blank
    <3> QED BY <1>4, <3>1, <3>2, <3>3 DEF PP!ClientDies, PP!Free, Connections
  <2> QED BY <2>1, <2>2
<1>11. CASE ~(\/ PP!WriteHandshake(p) \/ PP!ReadOk(p) \/ PP!WriteContent(p)
              \/ PP!CloseSocket(p) \/ PP!Kill(p))
  BY <1>3, <1>11 DEF PublisherMoves, PP!SenderStep, PP!EditorStep, PP!ProcessStep,
     PP!ConnectFails, PP!StartSender, PP!GetRow, PP!ScanReturns, PP!ScanGoesOn,
     PP!ScanEnds, PP!ReadFails, PP!MarkExported, PP!Save, PP!Quit, PP!Finish,
     PP!Restart
<1> QED BY <1>6, <1>7, <1>8, <1>9, <1>10, <1>11

LEMMA ServerUnderConnect ==
  ASSUME SP!IInv, NEW p \in Publishers, NEW c \in Conns, PP!Connect(p, c),
         SP!Enqueue(c)
  PROVE  SP!IInv'
<1>1. SP!ClientConnects(c)
  BY DEF PP!Connect, PP!Free, PP!Fresh, PP!Nothing, PP!Blank, SP!ClientConnects,
         SP!Free, SP!Fresh, SP!Nothing, SP!Blank
<1> QED BY <1>1, SP!ClientConnectsKeeps, Assumptions

-----------------------------------------------------------------------------
(* The dialogue, under the publishers' steps. *)

\* A step of one sender, on its own connection c, leaves the dialogues of the
\* others alone.
LEMMA LinkOne ==
  ASSUME IInv, NEW p \in Publishers, NEW c,
         c = sock[p] \/ (c \in Conns /\ conns[c].client = "none"),
         \A d \in Conns \ {c} : conns'[d] = conns[d],
         \A q \in Publishers \ {p} : sender'[q] = sender[q] /\ sock'[q] = sock[q],
         UNCHANGED <<server, received>>,
         sock'[p] = NoConn <=> sender'[p] \in {"idle", "started"},
         sock'[p] # NoConn =>
           sock'[p] = c /\ conns'[c].client = "open" /\ conns'[c].server # "none",
         c \in Conns /\ conns'[c].up \in Messages =>
           conns'[c].server = "open" /\ server = "content",
         Dialogue(p)'
  PROVE  Link'
<1> USE DEF IInv, Link
<1>1. ASSUME NEW q \in Publishers \ {p}, sock[q] # NoConn
      PROVE  sock[q] \in Conns \ {c} /\ conns'[sock[q]] = conns[sock[q]]
  <2>1. sock[q] \in Conns /\ conns[sock[q]].client = "open"
    BY <1>1 DEF PP!IInv, PP!TypeOK, Sockets
  <2>2. sock[q] # c
    BY <1>1, <2>1 DEF Sockets
  <2> QED BY <2>1, <2>2
<1>2. Sockets'
  BY <1>1 DEF Sockets
<1>3. InFlight'
  BY DEF InFlight
<1>4. Held'
  BY DEF Held
<1>5. ASSUME NEW q \in Publishers PROVE Dialogue(q)'
  <2>1. CASE q = p
    BY <2>1
  <2>2. CASE q # p /\ sock[q] = NoConn
    BY <2>2 DEF Sockets, Dialogue
  <2>3. CASE q # p /\ sock[q] # NoConn
    BY <1>1, <2>3 DEF Dialogue, Attended
  <2> QED BY <2>1, <2>2, <2>3
<1> QED BY <1>2, <1>3, <1>4, <1>5

\* A step that does not touch the connections, nor the sender's own, and does
\* not start a part of the dialogue.
LEMMA LinkQuiet ==
  ASSUME IInv, NEW p \in Publishers, UNCHANGED <<conns, sock, server, received>>,
         \A q \in Publishers \ {p} : sender'[q] = sender[q],
         \/ sender'[p] = sender[p]
         \/ {sender[p], sender'[p]} \subseteq {"idle", "started"}
         \/ {sender[p], sender'[p]} \subseteq {"scan", "test", "shake"}
         \/ /\ sender[p] \notin {"idle", "started"}
            /\ sender'[p] \in {"mark", "close"}
  PROVE  Link'
<1> SUFFICES ASSUME NEW c, c = sock[p] PROVE Link'
  OBVIOUS
<1> USE DEF IInv, Link
<1>1. sock'[p] = NoConn <=> sender'[p] \in {"idle", "started"}
  BY DEF Sockets
<1>2. sock'[p] # NoConn =>
        sock'[p] = c /\ conns'[c].client = "open" /\ conns'[c].server # "none"
  BY DEF Sockets
<1>3. c \in Conns /\ conns'[c].up \in Messages =>
        conns'[c].server = "open" /\ server = "content"
  BY DEF InFlight
<1>4. Dialogue(p)'
  BY DEF Dialogue, Attended
<1> QED BY <1>1, <1>2, <1>3, <1>4, LinkOne

LEMMA LinkUnderConnect ==
  ASSUME IInv, NEW p \in Publishers, NEW c \in Conns, PP!Connect(p, c),
         UNCHANGED <<server, received>>
  PROVE  Link'
<1>1. /\ sender' = [sender EXCEPT ![p] = "scan"]
      /\ conns' = [conns EXCEPT ![c] = PP!Fresh]
      /\ sock' = [sock EXCEPT ![p] = c]
      /\ conns[c].client = "none"
  BY DEF PP!Connect, PP!Goto, PP!Free
<1>2. /\ sender'[p] = "scan" /\ sock'[p] = c /\ conns'[c] = PP!Fresh
      /\ \A d \in Conns \ {c} : conns'[d] = conns[d]
      /\ \A q \in Publishers \ {p} : sender'[q] = sender[q] /\ sock'[q] = sock[q]
  BY <1>1 DEF IInv, PP!IInv, PP!TypeOK
<1>3. /\ conns'[c].client = "open" /\ conns'[c].server = "queued"
      /\ conns'[c].up = Nothing /\ conns'[c].down = "none"
      /\ Nothing \notin Messages /\ c # NoConn
  BY <1>2, BlanksAreSegments, Assumptions
     DEF PP!Fresh, PP!Nothing, PP!Blank, Nothing, Blank
<1>4. Dialogue(p)'
  BY <1>2, <1>3 DEF Dialogue
<1> QED BY <1>1, <1>2, <1>3, <1>4, LinkOne

\* What a publisher's step leaves alone of the other publishers.
LEMMA OtherSenders ==
  ASSUME PP!IInv, NEW p \in Publishers, PublisherMoves(p)
  PROVE  \A q \in Publishers \ {p} :
           /\ sender'[q] = sender[q] /\ sock'[q] = sock[q]
           /\ current'[q] = current[q]
BY DEF PP!IInv, PP!TypeOK, PublisherMoves, PP!SenderStep, PP!EditorStep,
       PP!ProcessStep, PP!ConnectFails, PP!StartSender, PP!GetRow,
       PP!ScanReturns, PP!ScanGoesOn, PP!ScanEnds, PP!WriteHandshake, PP!ReadOk,
       PP!ReadFails, PP!WriteContent, PP!MarkExported, PP!CloseSocket, PP!Save,
       PP!Quit, PP!Finish, PP!Kill, PP!Restart, PP!Goto, PP!ForgetLocals,
       PP!senderVars

LEMMA LinkUnderSender ==
  ASSUME IInv, NEW p \in Publishers, PublisherMoves(p), UNCHANGED <<server, received>>
  PROVE  Link'
<1> SUFFICES ASSUME NEW c, c = sock[p] PROVE Link'
  OBVIOUS
<1>1. /\ \A q \in Publishers \ {p} : sender'[q] = sender[q] /\ sock'[q] = sock[q]
      /\ conns \in [Conns -> Connections] /\ conns' \in [Conns -> Connections]
      /\ sender \in [Publishers -> PP!SenderSteps]
      /\ sock \in [Publishers -> Conns \cup {NoConn}]
      /\ PP!IInv /\ Link
  BY OtherSenders, PublishersUnderPublisher, SameData DEF IInv, PP!IInv, PP!TypeOK
<1>2. /\ PP!Nothing = Nothing /\ PP!Handshake = Handshake
      /\ Handshake \notin Messages /\ Nothing \notin Messages
      /\ Nothing # Handshake
  BY DEF PP!Nothing, PP!Handshake, PP!Blank, Nothing, Handshake, Blank,
         Messages, WholeMessages, Short, Broken, Hollow
<1>3. ASSUME UNCHANGED <<conns, sock>>,
             \/ sender'[p] = sender[p]
             \/ {sender[p], sender'[p]} \subseteq {"idle", "started"}
             \/ {sender[p], sender'[p]} \subseteq {"scan", "test", "shake"}
             \/ /\ sender[p] \notin {"idle", "started"}
                /\ sender'[p] \in {"mark", "close"}
      PROVE  Link'
  BY <1>1, <1>3, LinkQuiet
<1>4. CASE PP!WriteHandshake(p)
  <2>1. /\ sender[p] = "shake" /\ sender'[p] = "await" /\ sock' = sock
        /\ conns' = [conns EXCEPT ![c] = PP!Sent(conns[c], Handshake)]
    BY <1>1, <1>2, <1>4 DEF PP!WriteHandshake, PP!Goto, PP!senderVars
  <2>2. /\ c \in Conns /\ c # NoConn /\ conns[c] \in Connections
        /\ conns[c].client = "open" /\ conns[c].server # "none"
        /\ conns[c].up = Nothing /\ conns[c].down = "none"
    BY <1>1, <2>1, SenderHasSlot, Assumptions DEF Link, Dialogue
  <2>3. /\ \A d \in Conns \ {c} : conns'[d] = conns[d]
        /\ conns'[c].client = "open" /\ conns'[c].server = conns[c].server
        /\ conns'[c].up \in {Nothing, Handshake} /\ conns'[c].down = "none"
    BY <1>1, <2>1, <2>2 DEF PP!Sent, Connections
  <2>4. Dialogue(p)'
    BY <2>1, <2>3 DEF Dialogue
  <2> QED BY <1>1, <1>2, <2>1, <2>2, <2>3, <2>4, LinkOne
<1>5. CASE PP!ReadOk(p)
  <2>1. /\ sender[p] = "await" /\ sender'[p] = "content" /\ sock' = sock
        /\ conns[c].down = "00"
        /\ conns' = [conns EXCEPT ![c] = [conns[c] EXCEPT !.down = "none"]]
    BY <1>1, <1>5 DEF PP!ReadOk, PP!Goto, PP!senderVars
  <2>2. /\ c \in Conns /\ c # NoConn /\ conns[c] \in Connections
        /\ conns[c].client = "open" /\ conns[c].server # "none"
        /\ Attended(conns[c])
    BY <1>1, <2>1, SenderHasSlot, Assumptions DEF Link, Dialogue
  <2>3. /\ \A d \in Conns \ {c} : conns'[d] = conns[d]
        /\ conns'[c].client = "open" /\ conns'[c].server = conns[c].server
        /\ conns'[c].up = conns[c].up
    BY <1>1, <2>1, <2>2 DEF Connections
  <2>4. Dialogue(p)'
    BY <2>1, <2>2, <2>3 DEF Dialogue, Attended
  <2>5. conns'[c].up \in Messages => conns'[c].server = "open" /\ server = "content"
    BY <1>1, <2>2, <2>3 DEF Link, InFlight
  <2> QED BY <1>1, <2>1, <2>2, <2>3, <2>4, <2>5, LinkOne
<1>6. CASE PP!WriteContent(p)
  <2>1. /\ sender[p] = "content" /\ sender'[p] = "mark" /\ sock' = sock
        /\ conns' = [conns EXCEPT ![c] = PP!Sent(conns[c], PP!XmlOf(current[p]))]
    BY <1>1, <1>6 DEF PP!WriteContent, PP!Goto, PP!senderVars
  <2>2. /\ c \in Conns /\ c # NoConn /\ conns[c] \in Connections
        /\ conns[c].client = "open" /\ conns[c].server # "none"
        /\ Attended(conns[c])
        /\ conns[c].up \in Messages => conns[c].server = "open"
    BY <1>1, <2>1, SenderHasSlot, Assumptions DEF Link, Dialogue, InFlight
  <2>3. /\ \A d \in Conns \ {c} : conns'[d] = conns[d]
        /\ conns'[c].client = "open" /\ conns'[c].server = conns[c].server
        /\ conns[c].server = "closed" => conns'[c].up = conns[c].up
    BY <1>1, <2>1, <2>2 DEF PP!Sent, Connections
  <2>4. Dialogue(p)'
    BY <2>1 DEF Dialogue
  <2>5. conns'[c].up \in Messages => conns'[c].server = "open" /\ server = "content"
    BY <2>2, <2>3 DEF Attended
  <2> QED BY <1>1, <2>1, <2>2, <2>3, <2>4, <2>5, LinkOne
<1>7. ASSUME NEW n, sock'[p] = NoConn, sender'[p] = "idle", c \in Conns,
             conns' = [conns EXCEPT ![c] = n],
             \/ n.up = Nothing
             \/ /\ n.up = conns[c].up
                /\ conns[c].server = "open" => n.server = "open"
      PROVE  Link'
  <2>1. Dialogue(p)'
    BY <1>7 DEF Dialogue
  <2>2. /\ \A d \in Conns \ {c} : conns'[d] = conns[d]
        /\ conns'[c] = n
    BY <1>1, <1>7
  <2>3. conns'[c].up \in Messages => conns'[c].server = "open" /\ server = "content"
    BY <1>1, <1>2, <1>7, <2>2 DEF Link, InFlight
  <2> QED BY <1>1, <1>7, <2>1, <2>2, <2>3, LinkOne
<1>8. CASE PP!CloseSocket(p)
  <2>1. /\ sender[p] = "close" /\ sender'[p] = "idle" /\ sock'[p] = NoConn
        /\ conns' = [conns EXCEPT ![c] = PP!ClientCloses(conns[c])]
    BY <1>1, <1>8 DEF PP!CloseSocket, PP!Goto, PP!ForgetLocals
  <2>2. c \in Conns /\ conns[c] \in Connections
    BY <1>1, <2>1, SenderHasSlot
  <2> QED BY <1>2, <1>7, <2>1, <2>2 DEF PP!ClientCloses, PP!Free, Connections
<1>9. CASE PP!Kill(p)
  <2>1. sender'[p] = "idle" /\ sock'[p] = NoConn
    BY <1>1, <1>9 DEF PP!Kill, PP!ForgetLocals
  <2>2. CASE c = NoConn
    <3>1. conns' = conns /\ sock' = sock /\ sender[p] \in {"idle", "started"}
      BY <1>1, <1>9, <2>2 DEF PP!Kill, PP!ForgetLocals, Link, Sockets
    <3> QED BY <1>3, <2>1, <3>1
  <2>3. CASE c # NoConn
    <3>1. PICK n \in PP!ClientDies(conns[c]) : conns' = [conns EXCEPT ![c] = n]
      BY <1>9, <2>3 DEF PP!Kill
    <3>2. c \in Conns /\ conns[c] \in Connections
      BY <1>1, <2>3
    <3> QED BY <1>2, <1>7, <2>1, <3>1, <3>2
            DEF PP!ClientDies, PP!Free, Connections
  <2> QED BY <2>2, <2>3
<1>10. CASE PP!SenderStep(p) /\ ~(\/ PP!WriteHandshake(p) \/ PP!ReadOk(p)
                                  \/ PP!WriteContent(p) \/ PP!CloseSocket(p))
  BY <1>1, <1>3, <1>10 DEF PP!SenderStep, PP!StartSender, PP!GetRow,
     PP!ScanReturns, PP!ScanGoesOn, PP!ScanEnds, PP!ReadFails, PP!MarkExported,
     PP!Goto, PP!senderVars
<1>11. CASE \/ PP!EditorStep(p) \/ PP!ConnectFails(p)
            \/ PP!ProcessStep(p) /\ ~PP!Kill(p)
  BY <1>1, <1>3, <1>11 DEF PP!EditorStep, PP!ProcessStep, PP!ConnectFails,
     PP!Save, PP!Quit, PP!Finish, PP!Restart, PP!Goto, PP!senderVars
<1> QED BY <1>4, <1>5, <1>6, <1>8, <1>9, <1>10, <1>11 DEF PublisherMoves

-----------------------------------------------------------------------------
(* The dialogue, under the server's steps. *)

\* An end that is still open sees nothing but that the other was closed.
LEMMA AfterServerCloses ==
  ASSUME NEW k \in Connections
  PROVE  /\ SP!ServerCloses(k).up = Nothing
         /\ k.client = "open" =>
              /\ SP!ServerCloses(k).client = "open"
              /\ SP!ServerCloses(k).server = "closed"
              /\ SP!ServerCloses(k).down = k.down
BY SameData DEF SP!ServerCloses, SP!Free, Connections

\* The server works on one connection k, or none; the others it leaves as they
\* are (their ends at the server are not open), closes, or takes up.
LEMMA LinkAt ==
  ASSUME IInv, NEW k, UNCHANGED <<sender, sock>>,
         \A c \in Conns \ {k} :
           \/ conns'[c] = conns[c] /\ conns[c].server # "open"
           \/ conns'[c] = SP!ServerCloses(conns[c])
           \/ /\ conns'[c] = [conns[c] EXCEPT !.server = "open"]
              /\ conns[c].server = "queued" /\ server' = "handshake",
         received' # Nothing => server' = "insert",
         k \in Conns /\ conns'[k].up \in Messages =>
           conns'[k].server = "open" /\ server' = "content",
         \A p \in Publishers : sock[p] = k /\ k \in Conns =>
           /\ conns'[k].client = "open" /\ conns'[k].server # "none"
           /\ Dialogue(p)'
  PROVE  Link'
<1> USE DEF IInv, Link
<1>1. /\ SP!Nothing = Nothing /\ Nothing \notin Messages
      /\ conns \in [Conns -> Connections]
      /\ sock \in [Publishers -> Conns \cup {NoConn}]
  BY SameData, BlanksAreSegments DEF PP!IInv, PP!TypeOK
<1>2. ASSUME NEW c \in Conns \ {k}
      PROVE  /\ conns'[c].up \in Messages => conns'[c].server = "open" /\ server' = "content"
             /\ conns[c].client = "open" /\ conns[c].server # "none" =>
                  /\ conns'[c].client = "open" /\ conns'[c].server # "none"
                  /\ conns'[c].down = conns[c].down
                  /\ \/ conns'[c] = conns[c] /\ conns[c].server # "open"
                     \/ conns'[c].server = "closed" /\ conns'[c].up = Nothing
                     \/ /\ conns[c].server = "queued" /\ server' = "handshake"
                        /\ conns'[c].up = conns[c].up
  <2>1. conns[c] \in Connections
    BY <1>1
  <2>2. conns[c].up \in Messages => conns[c].server = "open"
    BY DEF InFlight
  <2>3. CASE conns'[c] = conns[c] /\ conns[c].server # "open"
    BY <2>2, <2>3
  <2>4. CASE conns'[c] = SP!ServerCloses(conns[c])
    <3>1. /\ conns'[c].up = Nothing
          /\ conns[c].client = "open" =>
               /\ conns'[c].client = "open" /\ conns'[c].server = "closed"
               /\ conns'[c].down = conns[c].down
      BY <2>1, <2>4, AfterServerCloses
    <3> QED BY <1>1, <3>1
  <2>5. CASE /\ conns'[c] = [conns[c] EXCEPT !.server = "open"]
             /\ conns[c].server = "queued" /\ server' = "handshake"
    BY <2>1, <2>2, <2>5 DEF Connections
  <2> QED BY <2>3, <2>4, <2>5
<1>3. InFlight'
  BY <1>2 DEF InFlight
<1>4. Sockets'
  BY <1>1, <1>2 DEF Sockets
<1>5. ASSUME NEW p \in Publishers PROVE Dialogue(p)'
  <2>1. CASE sock[p] = NoConn
    BY <2>1 DEF Sockets, Dialogue
  <2>2. CASE sock[p] # NoConn /\ sock[p] = k
    BY <1>1, <2>2
  <2>3. CASE sock[p] # NoConn /\ sock[p] # k
    <3>1. /\ sock[p] \in Conns \ {k}
          /\ conns[sock[p]].client = "open" /\ conns[sock[p]].server # "none"
      BY <1>1, <2>3 DEF Sockets
    <3> QED BY <1>2, <3>1 DEF Dialogue, Attended
  <2> QED BY <2>1, <2>2, <2>3
<1> QED BY <1>3, <1>4, <1>5 DEF Held

\* What a sender's dialogue is like on the connection that is served.
LEMMA ServedDialogue ==
  ASSUME IInv, NEW p \in Publishers, sock[p] = client, client \in Conns
  PROVE  /\ conns[client].client = "open" /\ conns[client].server = "open"
         /\ conns[client] \in Connections
         /\ sender[p] \in {"scan", "test", "shake"} =>
              server = "handshake" /\ conns[client].up = Nothing
         /\ \/ sender[p] = "await" /\ conns[client].down = "00"
            \/ sender[p] = "content"
            => server = "content" /\ conns[client].up = Nothing
         /\ server \in {"handshake", "reply"} => conns[client].down = "none"
         /\ server = "reply" => conns[client].up = Nothing
BY Assumptions, SameData
   DEF IInv, PP!IInv, PP!TypeOK, Link, Sockets, Dialogue, Attended, SP!IInv,
       SP!Serving, SP!Exchange

\* The other connections while one is served, or none.
LEMMA NotServed ==
  ASSUME IInv, NEW c \in Conns \ {client}
  PROVE  conns[c].server # "open"
BY DEF IInv, SP!IInv, SP!NoConnectionLeaks

LEMMA LinkUnderServer ==
  ASSUME IInv, SP!ServerStep, UNCHANGED <<sender, sock>>
  PROVE  Link'
<1>1. /\ SP!Nothing = Nothing /\ SP!Handshake = Handshake
      /\ SP!Remainder = Remainder /\ Remainder \notin Messages
      /\ Nothing \notin Messages
      /\ conns \in [Conns -> Connections]
      /\ received \in Messages \cup {Nothing}
      /\ SP!IInv /\ Link /\ PP!TypeOK
      /\ server \notin {"accept", "down"} => client \in Conns
  BY Assumptions, SameData
     DEF SP!Handshake, SP!Remainder, SP!Blank, Handshake, Remainder, Blank,
         Nothing, Messages, WholeMessages, Short, Broken, Hollow, IInv, SP!IInv,
         SP!TypeOK, SP!Serving, PP!IInv
<1>2. CASE SP!Accept
  <2> DEFINE c == Head(backlog)
  <2>1. /\ server = "accept" /\ server' = "handshake" /\ received' = received
        /\ conns' = [conns EXCEPT ![c].server = "open"]
        /\ c \in Conns /\ conns[c].server = "queued" /\ client = NoConn
    BY <1>1, <1>2 DEF SP!Accept, SP!Goto, SP!IInv, SP!TypeOK, SP!Serving,
         SP!BacklogIsWaiting, SP!Waits
  <2>2. /\ conns'[c] = [conns[c] EXCEPT !.server = "open"]
        /\ \A d \in Conns \ {c} : conns'[d] = conns[d]
        /\ \A d \in Conns \ {client} : conns[d].server # "open"
        /\ client \notin Conns
    BY <1>1, <2>1, NotServed, Assumptions
  <2>3. received' = Nothing
    BY <1>1, <2>1 DEF Link, Held
  <2> QED BY <2>1, <2>2, <2>3, LinkAt
<1>3. CASE SP!AcceptFails
  <2>1. /\ server = "accept" /\ server' = server /\ received' = received
        /\ client = NoConn
        /\ \A c \in Conns : conns'[c] \in {conns[c], SP!ServerCloses(conns[c])}
    BY <1>1, <1>3 DEF SP!AcceptFails, SP!CloseAll, SP!IInv, SP!Serving
  <2>2. /\ \A d \in Conns \ {client} : conns[d].server # "open"
        /\ client \notin Conns
    BY <2>1, NotServed, Assumptions
  <2>3. received' = Nothing
    BY <1>1, <2>1 DEF Link, Held
  <2> QED BY <2>1, <2>2, <2>3, LinkAt
<1>4. CASE SP!ReadFaults \/ SP!Kill
  <2>1. SP!EndProcess
    BY <1>4 DEF SP!ReadFaults, SP!Kill
  <2>2. /\ received' = Nothing
        /\ \A c \in Conns : \/ conns'[c] = SP!ServerCloses(conns[c])
                            \/ conns'[c] = conns[c] /\ conns[c].server # "open"
    BY <1>1, <2>1 DEF SP!EndProcess, SP!CloseAll
  <2>3. NoConn \notin Conns
    BY Assumptions
  <2> QED BY <2>2, <2>3, LinkAt
<1>5. CASE SP!Restart
  <2>1. /\ server = "down" /\ conns' = conns /\ received' = received
        /\ client = NoConn
    BY <1>1, <1>5 DEF SP!Restart, SP!Goto, SP!IInv, SP!Serving
  <2>2. /\ \A d \in Conns \ {client} : conns[d].server # "open"
        /\ client \notin Conns
    BY <2>1, NotServed, Assumptions
  <2>3. received' = Nothing
    BY <1>1, <2>1 DEF Link, Held
  <2> QED BY <2>1, <2>2, <2>3, LinkAt
<1>6. CASE SP!AcceptSpins
  BY <1>1, <1>6 DEF SP!AcceptSpins, SP!vars, Link, Sockets, InFlight, Held,
       Dialogue, Attended
\* The steps of an exchange.
<1>7. ASSUME client \in Conns, NEW n, conns' = [conns EXCEPT ![client] = n],
             received' # Nothing => server' = "insert",
             n.up \in Messages => n.server = "open" /\ server' = "content",
             \A p \in Publishers : sock[p] = client =>
               n.client = "open" /\ n.server # "none" /\ Dialogue(p)'
      PROVE  Link'
  <2>1. /\ conns'[client] = n
        /\ \A c \in Conns \ {client} :
             conns'[c] = conns[c] /\ conns[c].server # "open"
    BY <1>1, <1>7, NotServed
  <2> QED BY <1>7, <2>1, LinkAt
<1>8. ASSUME server # "insert" PROVE received = Nothing
  BY <1>1, <1>8 DEF Link, Held
<1>9. ASSUME server # "content", client \in Conns PROVE conns[client].up \notin Messages
  BY <1>1, <1>9 DEF Link, InFlight
<1>10. CASE SP!ReadHandshake
  <2>1. /\ server = "handshake" /\ client \in Conns /\ SP!CanRead
        /\ received' = received
    BY <1>1, <1>10 DEF SP!ReadHandshake
  <2>2. PICK rest \in {Nothing, Remainder} :
          conns' = [conns EXCEPT ![client] = [conns[client] EXCEPT !.up = rest]]
    BY <1>1, <1>10 DEF SP!ReadHandshake
  <2> DEFINE n == [conns[client] EXCEPT !.up = rest]
  <2>3. n.up = rest /\ n.client = conns[client].client
        /\ n.server = conns[client].server /\ n.down = conns[client].down
        /\ conns'[client] = n
    BY <1>1, <2>1, <2>2 DEF Connections
  <2>4. ASSUME NEW p \in Publishers, sock[p] = client
        PROVE  n.client = "open" /\ n.server # "none" /\ Dialogue(p)'
    BY <1>1, <2>1, <2>3, <2>4, ServedDialogue DEF SP!CanRead, Dialogue
  <2> QED BY <1>1, <1>7, <1>8, <2>1, <2>2, <2>3, <2>4
<1>11. CASE SP!Reply
  <2> DEFINE n == IF conns[client].client = "open"
                  THEN [conns[client] EXCEPT !.down = "00"] ELSE conns[client]
  <2>1. /\ server = "reply" /\ server' = "content" /\ client \in Conns
        /\ received' = received /\ conns' = [conns EXCEPT ![client] = n]
    BY <1>1, <1>11 DEF SP!Reply, SP!Goto
  <2>2. /\ n.up = conns[client].up /\ n.client = conns[client].client
        /\ n.server = conns[client].server /\ conns'[client] = n
    BY <1>1, <2>1 DEF Connections
  <2>3. ASSUME NEW p \in Publishers, sock[p] = client
        PROVE  n.client = "open" /\ n.server # "none" /\ Dialogue(p)'
    BY <2>1, <2>2, <2>3, ServedDialogue DEF Dialogue, Attended
  <2> HIDE DEF n
  <2> QED BY <1>7, <1>8, <1>9, <2>1, <2>2, <2>3
<1>12. CASE SP!ReadNoContent
  <2>1. /\ server = "content" /\ client \in Conns /\ received' = received
        /\ conns[client].client # "open" /\ conns[client].up = Nothing
        /\ conns' = [conns EXCEPT ![client] = conns[client]]
    BY <1>1, <1>12 DEF SP!ReadNoContent, SP!Goto, SP!CanRead
  <2>2. \A p \in Publishers : sock[p] # client
    BY <2>1, ServedDialogue
  <2> QED BY <1>1, <1>7, <1>8, <2>1, <2>2
<1>13. CASE SP!ReadContent
  <2>1. /\ server = "content" /\ server' = "insert" /\ client \in Conns
        /\ conns[client].up # Nothing
    BY <1>1, <1>13 DEF SP!ReadContent, SP!Goto
  <2>2. PICK rest \in {Nothing, Remainder} :
          conns' = [conns EXCEPT ![client] = [conns[client] EXCEPT !.up = rest]]
    BY <1>1, <1>13 DEF SP!ReadContent
  <2> DEFINE n == [conns[client] EXCEPT !.up = rest]
  <2>3. n.up = rest /\ n.client = conns[client].client
        /\ n.server = conns[client].server /\ n.down = conns[client].down
        /\ conns'[client] = n
    BY <1>1, <2>1, <2>2 DEF Connections
  <2>4. ASSUME NEW p \in Publishers, sock[p] = client
        PROVE  n.client = "open" /\ n.server # "none" /\ Dialogue(p)'
    BY <2>1, <2>3, <2>4, ServedDialogue DEF Dialogue
  <2> QED BY <1>1, <1>7, <2>1, <2>2, <2>3, <2>4
<1>14. CASE SP!InsertNews
  <2>1. /\ server = "insert" /\ server' = "close" /\ client \in Conns
        /\ received' = Nothing
        /\ conns' = [conns EXCEPT ![client] = conns[client]]
    BY <1>1, <1>14 DEF SP!InsertNews, SP!Goto
  <2>2. ASSUME NEW p \in Publishers, sock[p] = client
        PROVE  /\ conns[client].client = "open" /\ conns[client].server # "none"
               /\ Dialogue(p)'
    BY <1>14, <2>1, <2>2, ServedDialogue DEF SP!InsertNews, Dialogue
  <2> QED BY <1>7, <1>9, <2>1, <2>2
<1>15. CASE SP!Close
  <2> DEFINE n == SP!ServerCloses(conns[client])
  <2>1. /\ server = "close" /\ client \in Conns /\ received' = received
        /\ conns' = [conns EXCEPT ![client] = n]
    BY <1>1, <1>15 DEF SP!Close, SP!Goto
  <2>2. /\ conns[client] \in Connections /\ n.up = Nothing /\ conns'[client] = n
        /\ conns[client].client = "open" =>
             /\ n.client = "open" /\ n.server = "closed"
             /\ n.down = conns[client].down
    BY <1>1, <2>1, AfterServerCloses
  <2>3. ASSUME NEW p \in Publishers, sock[p] = client
        PROVE  n.client = "open" /\ n.server # "none" /\ Dialogue(p)'
    BY <2>1, <2>2, <2>3, ServedDialogue DEF Dialogue
  <2> HIDE DEF n
  <2> QED BY <1>1, <1>7, <1>8, <2>1, <2>2, <2>3
<1> QED BY <1>2, <1>3, <1>4, <1>5, <1>6, <1>10, <1>11, <1>12, <1>13, <1>14,
           <1>15 DEF SP!ServerStep, SP!Serve

-----------------------------------------------------------------------------
(* Where notices come from, under the publishers' steps. *)

LEMMA AfterClient ==
  ASSUME NEW k \in Connections
  PROVE  /\ PP!Sent(k, PP!Handshake).up \in {k.up, PP!Handshake}
         /\ PP!ClientCloses(k).up \in {k.up, PP!Nothing}
         /\ \A n \in PP!ClientDies(k) : n.up \in {k.up, PP!Nothing}
<1>1. PP!Sent(k, PP!Handshake).up \in {k.up, PP!Handshake}
  BY DEF PP!Sent, Connections
<1>2. PP!ClientCloses(k).up \in {k.up, PP!Nothing}
  BY DEF PP!ClientCloses, PP!Free, Connections
<1>3. ASSUME NEW n \in PP!ClientDies(k) PROVE n.up \in {k.up, PP!Nothing}
  <2>1. CASE k.server = "closed"
    BY <2>1 DEF PP!ClientDies, PP!Free
  <2>2. CASE k.server # "closed"
    <3>1. \/ n = [k EXCEPT !.client = "reset"]
          \/ n = [k EXCEPT !.client = "reset", !.up = PP!Nothing]
      BY <2>2 DEF PP!ClientDies
    <3> QED BY <3>1 DEF Connections
  <2> QED BY <2>1, <2>2
<1> QED BY <1>1, <1>2, <1>3

\* The only message a publisher's step puts on a connection is the notice in
\* its sender's hands.
LEMMA MessageSent ==
  ASSUME IInv, NEW p \in Publishers, PublisherMoves(p), NEW c \in Conns,
         conns'[c].up \in WholeMessages, conns'[c].up # conns[c].up
  PROVE  /\ current[p].item \in Items /\ current[p].id \in Ids
         /\ conns'[c].up = Whole(current[p].id, current[p].item)
<1>1. /\ PP!Nothing \notin WholeMessages /\ PP!Handshake \notin WholeMessages
      /\ PP!Hollow \notin WholeMessages
  BY DEF WholeMessages, PP!Nothing, PP!Handshake, PP!Hollow, PP!Blank
<1>2. /\ conns \in [Conns -> Connections] /\ PP!IInv /\ Link
      /\ sock[p] \in Conns \cup {NoConn} /\ current[p] \in PP!Records
      /\ current[p].item # NoItem => current[p].id \in Ids
  BY SameData DEF IInv, PP!IInv, PP!TypeOK, PP!Senders, PP!Scanning
<1>3. ASSUME NEW n, conns' = [conns EXCEPT ![sock[p]] = n],
             n.up \in {conns[sock[p]].up, PP!Nothing, PP!Handshake}
      PROVE  FALSE
  BY <1>1, <1>2, <1>3
<1>4. CASE PP!WriteContent(p)
  <2>1. conns' = [conns EXCEPT ![sock[p]] =
                    PP!Sent(conns[sock[p]], PP!XmlOf(current[p]))]
        /\ sender[p] = "content"
    BY <1>4 DEF PP!WriteContent, PP!Goto
  <2>2. sock[p] \in Conns /\ conns[sock[p]] \in Connections
    BY <1>2, <2>1, SenderHasSlot
  <2>3. c = sock[p] /\ conns'[c].up = PP!XmlOf(current[p])
    BY <1>2, <2>1, <2>2 DEF PP!Sent, Connections
  <2> QED BY <1>1, <1>2, <2>3 DEF PP!XmlOf, PP!Whole, Whole, PP!Records
<1>5. CASE PP!WriteHandshake(p) \/ PP!ReadOk(p) \/ PP!CloseSocket(p)
  <2>1. sock[p] \in Conns /\ conns[sock[p]] \in Connections
    BY <1>2, <1>5, SenderHasSlot
       DEF PP!WriteHandshake, PP!ReadOk, PP!CloseSocket, PP!Goto
  <2>2. CASE PP!WriteHandshake(p)
    BY <1>3, <2>1, <2>2, AfterClient DEF PP!WriteHandshake
  <2>3. CASE PP!ReadOk(p)
    BY <1>3, <2>1, <2>3 DEF PP!ReadOk, Connections
  <2>4. CASE PP!CloseSocket(p)
    BY <1>3, <2>1, <2>4, AfterClient DEF PP!CloseSocket
  <2> QED BY <1>5, <2>2, <2>3, <2>4
<1>6. CASE PP!Kill(p)
  <2>1. CASE sock[p] = NoConn
    BY <1>6, <2>1 DEF PP!Kill
  <2>2. CASE sock[p] # NoConn
    <3>1. PICK n \in PP!ClientDies(conns[sock[p]]) :
            conns' = [conns EXCEPT ![sock[p]] = n]
      BY <1>6, <2>2 DEF PP!Kill
    <3>2. conns[sock[p]] \in Connections
      BY <1>2, <2>2
    <3>3. n.up \in {conns[sock[p]].up, PP!Nothing}
      BY <3>1, <3>2, AfterClient
    <3> QED BY <1>3, <3>1, <3>3
  <2> QED BY <2>1, <2>2
<1>7. CASE ~(\/ PP!WriteHandshake(p) \/ PP!ReadOk(p) \/ PP!WriteContent(p)
             \/ PP!CloseSocket(p) \/ PP!Kill(p))
  <2>1. conns' = conns
    BY <1>7 DEF PublisherMoves, PP!SenderStep, PP!EditorStep, PP!ProcessStep,
       PP!ConnectFails, PP!StartSender, PP!GetRow, PP!ScanReturns, PP!ScanGoesOn,
       PP!ScanEnds, PP!ReadFails, PP!MarkExported, PP!Save, PP!Quit, PP!Finish,
       PP!Restart
  <2> QED BY <2>1
<1> QED BY <1>4, <1>5, <1>6, <1>7

LEMMA OriginsUnderSender ==
  ASSUME IInv, NEW p \in Publishers, PublisherMoves(p),
         UNCHANGED <<queue, inserted, serverVars>>
  PROVE  Origins'
<1>1. /\ entered \subseteq entered'
      /\ \A n \in entered' : n \in entered \/ (n.by = p /\ n.id \in Ids /\ n.item \in Items)
      /\ \A q \in Publishers, i \in P!RowIds :
           /\ \/ db'[q][i].item \in {db[q][i].item, disk[q][i].item}
              \/ db'[q][i].item = current[q].item /\ i = current[q].id
              \/ P!Notice(q, i, db'[q][i].item) \in entered'
           /\ disk'[q][i].item \in {db[q][i].item, disk[q][i].item}
  BY PP!RowContents, Assumptions
     DEF IInv, PublisherMoves, PP!Moves, P!RowIds, PP!RowIds, P!Notice, PP!Notice
<1>2. /\ \A q \in Publishers : \A i \in P!RowIds :
           /\ db[q][i].item # NoItem => P!Notice(q, i, db[q][i].item) \in entered'
           /\ disk[q][i].item # NoItem => P!Notice(q, i, disk[q][i].item) \in entered'
      /\ \A q \in Publishers :
           current[q].item # NoItem =>
             P!Notice(q, current[q].id, current[q].item) \in entered'
      /\ \A m \in WholeMessages : OnWay(m) => Typed(m)'
  BY <1>1 DEF IInv, Origins, Entered, Typed, typedNotices
<1>3. \A n \in entered' : n.by \in Publishers /\ n.id \in Ids /\ n.item \in Items
  BY <1>1 DEF IInv, Origins
<1>4. ASSUME NEW q \in Publishers, NEW i \in P!RowIds
      PROVE  /\ db'[q][i].item # NoItem => P!Notice(q, i, db'[q][i].item) \in entered'
             /\ disk'[q][i].item # NoItem =>
                  P!Notice(q, i, disk'[q][i].item) \in entered'
  BY <1>1, <1>2
<1>5. ASSUME NEW q \in Publishers, current'[q].item # NoItem
      PROVE  P!Notice(q, current'[q].id, current'[q].item) \in entered'
  <2>1. CASE q = p
    <3>1. \/ current'[p].item = current[p].item /\ current'[p].id = current[p].id
          \/ /\ current'[p].id \in P!RowIds
             /\ current'[p].item = db[p][current'[p].id].item
      BY <1>5, <2>1, PP!RecordContents, Assumptions
         DEF IInv, PublisherMoves, PP!Moves, P!RowIds, PP!RowIds
    <3> QED BY <1>2, <1>5, <2>1, <3>1
  <2>2. CASE q # p
    <3>1. current'[q] = current[q]
      BY <2>2, OtherSenders DEF IInv
    <3> QED BY <1>2, <1>5, <3>1
  <2> QED BY <2>1, <2>2
<1>6. ASSUME NEW m \in WholeMessages, OnWay(m)' PROVE Typed(m)'
  <2>1. CASE OnWay(m)
    BY <1>2, <2>1
  <2>2. CASE ~OnWay(m)
    <3>1. PICK c \in Conns : conns'[c].up = m
      BY <1>6, <2>2 DEF OnWay, serverVars
    <3>2. conns[c].up # m
      BY <2>2 DEF OnWay
    <3>3. /\ current[p].item \in Items
          /\ m = Whole(current[p].id, current[p].item)
      BY <3>1, <3>2, MessageSent
    <3>4. P!Notice(p, current[p].id, current[p].item) \in entered'
      BY <1>2, <3>3, Assumptions
    <3> QED BY <3>3, <3>4 DEF Typed, typedNotices, Whole, P!Notice
  <2> QED BY <2>1, <2>2
<1> QED BY <1>3, <1>4, <1>5, <1>6 DEF Origins, Entered, P!RowIds

\* A step that types nothing, copies nothing and puts nothing on its way.
LEMMA OriginsStay ==
  ASSUME Origins, UNCHANGED <<entered, db, disk, current>>,
         \A m \in WholeMessages : OnWay(m)' => OnWay(m)
  PROVE  Origins'
BY DEF Origins, Entered, P!Notice, Typed, typedNotices, P!RowIds

LEMMA OriginsUnderConnect ==
  ASSUME IInv, NEW p \in Publishers, NEW c \in Conns, PP!Connect(p, c),
         UNCHANGED <<queue, inserted, received>>
  PROVE  Origins'
<1>1. conns' = [conns EXCEPT ![c] = PP!Fresh] /\ UNCHANGED <<entered, db, disk, current>>
  BY DEF PP!Connect, PP!fileVars, PP!historyVars
<1>2. \A d \in Conns : conns'[d].up = conns[d].up \/ conns'[d].up \notin WholeMessages
  BY <1>1 DEF IInv, PP!IInv, PP!TypeOK, PP!Fresh, PP!Nothing, PP!Blank,
       WholeMessages
<1>3. \A m \in WholeMessages : OnWay(m)' => OnWay(m)
  BY <1>2 DEF OnWay
<1> QED BY <1>1, <1>3, OriginsStay DEF IInv

-----------------------------------------------------------------------------
(* What is on its way, under the server's steps. *)

\* What a step of the server does to the segments that have come.
LEMMA SegmentsRead ==
  ASSUME IInv, SP!ServerStep, NEW c \in Conns
  PROVE  /\ conns'[c].up \in {conns[c].up, Nothing, Remainder}
         /\ conns'[c].up # conns[c].up /\ conns[c].up \in Messages =>
              crashes' # crashes \/ (SP!ReadContent /\ c = client)
<1>1. /\ SP!Nothing = Nothing /\ SP!Remainder = Remainder
      /\ conns \in [Conns -> Connections] /\ conns[c] \in Connections
      /\ crashes \in Nat /\ SP!IInv
      /\ server \notin {"accept", "down"} => client \in Conns
  BY Assumptions, SameData
     DEF SP!Remainder, SP!Blank, Remainder, Blank, IInv, SP!IInv, SP!TypeOK,
         SP!Serving
<1>2. conns[c].up \in Messages => server = "content"
  BY DEF IInv, Link, InFlight
<1>3. SP!ServerCloses(conns[c]).up = Nothing
  BY <1>1, AfterServerCloses
<1>4. CASE SP!Accept
  <2>1. Head(backlog) \in Conns
    BY <1>4 DEF SP!Accept, IInv, SP!IInv, SP!TypeOK
  <2> QED BY <1>1, <1>4, <2>1 DEF SP!Accept, Connections
<1>5. CASE SP!AcceptFails
  BY <1>2, <1>3, <1>5 DEF SP!AcceptFails, SP!CloseAll
<1>6. CASE SP!ReadFaults \/ SP!Kill
  BY <1>1, <1>3, <1>6 DEF SP!ReadFaults, SP!Kill, SP!EndProcess, SP!CloseAll
<1>7. CASE SP!ReadHandshake \/ SP!Reply
  BY <1>1, <1>2, <1>7 DEF SP!ReadHandshake, SP!Reply, SP!Goto, Connections
<1>8. CASE SP!ReadContent
  BY <1>1, <1>8 DEF SP!ReadContent, SP!Goto, Connections
<1>9. CASE SP!Close
  BY <1>1, <1>2, <1>3, <1>9 DEF SP!Close, SP!Goto
<1>10. CASE SP!AcceptSpins \/ SP!ReadNoContent \/ SP!InsertNews \/ SP!Restart
  BY <1>10 DEF SP!AcceptSpins, SP!ReadNoContent, SP!InsertNews, SP!Restart, SP!vars
<1> QED BY <1>4, <1>5, <1>6, <1>7, <1>8, <1>9, <1>10 DEF SP!ServerStep, SP!Serve

\* The server puts nothing on its way; on a good day it loses nothing either.
LEMMA OnWayUnderServer ==
  ASSUME IInv, SP!ServerStep, NEW m \in WholeMessages
  PROVE  /\ OnWay(m)' => OnWay(m)
         /\ OnWay(m) /\ crashes' = crashes /\ Cuts \subseteq {"tiny"} => OnWay(m)'
<1>1. /\ m \in Messages /\ m \notin {Nothing, Remainder, SP!Short, SP!Broken}
      /\ SP!Nothing = Nothing /\ SP!IInv
      /\ received # Nothing => server = "insert"
  BY BlanksAreSegments, SameData
     DEF Nothing, Remainder, SP!Short, SP!Broken, SP!Blank, Blank, WholeMessages,
         IInv, Link, Held
<1>2. CASE SP!ReadContent
  <2>1. /\ server = "content" /\ client \in Conns /\ inserted' = inserted
        /\ received = Nothing
        /\ received' \in {conns[client].up, SP!Short, SP!Broken}
        /\ Cuts \subseteq {"tiny"} => received' = conns[client].up
    BY <1>1, <1>2, Assumptions DEF SP!ReadContent, SP!Goto, SP!Readable, SP!IInv,
       SP!TypeOK, SP!Serving, SP!queueVars
  <2>2. \A c \in Conns :
          /\ conns'[c].up \in {conns[c].up, Nothing, Remainder}
          /\ c # client => conns'[c].up = conns[c].up
    <3>1. \A c \in Conns \ {client} : conns'[c] = conns[c]
      BY <1>2 DEF SP!ReadContent, IInv, SP!IInv, SP!TypeOK
    <3> QED BY <3>1, SegmentsRead
  <2> QED BY <1>1, <2>1, <2>2 DEF OnWay
<1>3. CASE ~SP!ReadContent
  <2>1. \A c \in Conns :
          /\ conns'[c].up = m => conns[c].up = m
          /\ conns[c].up = m /\ crashes' = crashes => conns'[c].up = m
    BY <1>1, <1>3, SegmentsRead
  <2>2. CASE SP!InsertNews
    BY <1>1, <2>1, <2>2 DEF SP!InsertNews, OnWay
  <2>3. CASE ~SP!InsertNews
    <3>1. inserted' = inserted
      BY <1>3, <2>3 DEF SP!ServerStep, SP!Serve, SP!Kill, SP!Restart, SP!Accept,
         SP!AcceptFails, SP!AcceptSpins, SP!ReadHandshake, SP!Reply,
         SP!ReadNoContent, SP!ReadFaults, SP!Close, SP!queueVars, SP!vars
    <3>2. received' = received \/ (received' = Nothing /\ crashes' = crashes + 1)
      BY <1>1, <1>3, <2>3 DEF SP!ServerStep, SP!Serve, SP!Kill, SP!Restart,
         SP!Accept, SP!AcceptFails, SP!AcceptSpins, SP!ReadHandshake, SP!Reply,
         SP!ReadNoContent, SP!ReadFaults, SP!Close, SP!EndProcess, SP!vars
    <3>3. crashes \in Nat
      BY DEF IInv, SP!IInv, SP!TypeOK
    <3> QED BY <1>1, <2>1, <3>1, <3>2, <3>3 DEF OnWay
  <2> QED BY <2>2, <2>3
<1> QED BY <1>2, <1>3

\* Without a crash the server closes only what it has finished with, and it
\* answers where it is going to read.
LEMMA ServerStays ==
  ASSUME IInv, SP!ServerStep, crashes' = crashes, NEW c \in Conns
  PROVE  /\ conns[c].server = "open" =>
              conns'[c].server = "open" \/ server = "close"
         /\ conns'[c].down = "00" /\ conns[c].down # "00" =>
              conns'[c].server = "open"
<1>1. /\ conns \in [Conns -> Connections] /\ conns[c] \in Connections
      /\ crashes \in Nat /\ SP!IInv
      /\ server \notin {"accept", "down"} =>
           client \in Conns /\ conns[client].server = "open"
      /\ server = "accept" => conns[c].server # "open"
  BY Assumptions, SameData, NotServed
     DEF IInv, SP!IInv, SP!TypeOK, SP!Serving
<1>2. SP!ServerCloses(conns[c]).down \in {conns[c].down, "none"}
  BY <1>1 DEF SP!ServerCloses, SP!Free, Connections
<1>3. CASE SP!Accept
  <2>1. Head(backlog) \in Conns
    BY <1>3 DEF SP!Accept, IInv, SP!IInv, SP!TypeOK
  <2> QED BY <1>1, <1>3, <2>1 DEF SP!Accept, SP!Goto, Connections
<1>4. CASE SP!AcceptFails
  BY <1>1, <1>2, <1>4 DEF SP!AcceptFails, SP!CloseAll
<1>5. CASE SP!ReadFaults \/ SP!Kill
  BY <1>1, <1>5 DEF SP!ReadFaults, SP!Kill
<1>6. CASE SP!ReadHandshake \/ SP!ReadContent
  BY <1>1, <1>6 DEF SP!ReadHandshake, SP!ReadContent, SP!Goto, Connections
<1>7. CASE SP!Reply
  BY <1>1, <1>7 DEF SP!Reply, SP!Goto, Connections
<1>8. CASE SP!Close
  BY <1>1, <1>2, <1>8 DEF SP!Close, SP!Goto
<1>9. CASE SP!AcceptSpins \/ SP!ReadNoContent \/ SP!InsertNews \/ SP!Restart
  BY <1>9 DEF SP!AcceptSpins, SP!ReadNoContent, SP!InsertNews, SP!Restart, SP!vars
<1> QED BY <1>3, <1>4, <1>5, <1>6, <1>7, <1>8, <1>9 DEF SP!ServerStep, SP!Serve

LEMMA OriginsUnderServer ==
  ASSUME IInv, SP!ServerStep, UNCHANGED publisherVars
  PROVE  Origins'
BY OnWayUnderServer, OriginsStay DEF IInv, publisherVars

LEMMA ArrivingUnderServer ==
  ASSUME IInv, SP!ServerStep, UNCHANGED publisherVars
  PROVE  Arriving'
<1> SUFFICES ASSUME GoodDays' PROVE
      /\ \A p \in Publishers :
           /\ \/ sender[p] = "content"
              \/ sender[p] = "await" /\ conns'[sock[p]].down = "00"
              => conns'[sock[p]].server = "open"
           /\ sender[p] = "mark" /\ current[p].item # NoItem =>
                OnWay(Whole(current[p].id, current[p].item))'
      /\ \A n \in entered :
           db[n.by][n.id].item = n.item =>
             db[n.by][n.id].state = "unsent" \/ OnWay(Whole(n.id, n.item))'
  BY DEF Arriving, publisherVars
<1>1. crashes' = crashes /\ GoodDays /\ Cuts \subseteq {"tiny"}
  <2>1. crashes \in Nat /\ crashes' = 0 /\ ends = 0 /\ Cuts \subseteq {"tiny"}
    BY DEF IInv, SP!IInv, SP!TypeOK, GoodDays, publisherVars
  <2>2. crashes' \in {crashes, crashes + 1}
    BY DEF SP!ServerStep, SP!Serve, SP!Kill, SP!Restart, SP!Accept,
       SP!AcceptFails, SP!AcceptSpins, SP!ReadHandshake, SP!Reply,
       SP!ReadNoContent, SP!ReadContent, SP!ReadFaults, SP!InsertNews, SP!Close,
       SP!vars
  <2> QED BY <2>1, <2>2 DEF GoodDays
<1>2. \A m \in WholeMessages : OnWay(m) => OnWay(m)'
  BY <1>1, OnWayUnderServer
<1>3. ASSUME NEW p \in Publishers,
             \/ sender[p] = "content"
             \/ sender[p] = "await" /\ conns'[sock[p]].down = "00"
      PROVE  conns'[sock[p]].server = "open"
  <2>1. sock[p] \in Conns
    BY <1>3, SenderHasSlot DEF IInv
  <2>2. CASE sender[p] = "content" \/ conns[sock[p]].down = "00"
    <3>1. conns[sock[p]].server = "open" /\ Attended(conns[sock[p]])
      BY <1>1, <1>3, <2>2 DEF IInv, Arriving, Link, Dialogue
    <3> QED BY <1>1, <2>1, <3>1, ServerStays DEF Attended
  <2>3. CASE sender[p] # "content" /\ conns[sock[p]].down # "00"
    BY <1>1, <1>3, <2>1, <2>3, ServerStays
  <2> QED BY <2>2, <2>3
<1>4. ASSUME NEW p \in Publishers, sender[p] = "mark", current[p].item # NoItem
      PROVE  OnWay(Whole(current[p].id, current[p].item))'
  <2> SUFFICES ASSUME NEW m, m = Whole(current[p].id, current[p].item)
               PROVE  OnWay(m)'
    BY DEF publisherVars
  <2>1. m \in WholeMessages
    BY <1>4, WholeIsMessage DEF IInv, PP!IInv, PP!TypeOK, PP!Records,
       PP!Senders, PP!Scanning
  <2>2. OnWay(m)
    BY <1>1, <1>4 DEF IInv, Arriving
  <2> QED BY <1>2, <2>1, <2>2
<1>5. ASSUME NEW n \in entered, db[n.by][n.id].item = n.item,
             db[n.by][n.id].state # "unsent"
      PROVE  OnWay(Whole(n.id, n.item))'
  <2>1. Whole(n.id, n.item) \in WholeMessages
    BY WholeIsMessage DEF IInv, Origins
  <2>2. OnWay(Whole(n.id, n.item))
    BY <1>1, <1>5 DEF IInv, Arriving
  <2> QED BY <1>2, <2>1, <2>2
<1> QED BY <1>3, <1>4, <1>5

-----------------------------------------------------------------------------
(* Good days, under the publishers' steps. *)

\* The exits and kills are counted.
LEMMA EndsCounted ==
  ASSUME PP!IInv, NEW p \in Publishers, PublisherMoves(p)
  PROVE  /\ ends \in Nat /\ ends' \in {ends, ends + 1}
         /\ ends' = ends => ~PP!Kill(p) /\ ~PP!Quit(p)
<1>1. ends \in Nat
  BY DEF PP!IInv, PP!TypeOK
<1>2. CASE PP!Kill(p) \/ PP!Quit(p)
  BY <1>1, <1>2 DEF PP!Kill, PP!Quit
<1>3. CASE ~(PP!Kill(p) \/ PP!Quit(p))
  BY <1>1, <1>3 DEF PublisherMoves, PP!SenderStep, PP!EditorStep, PP!ProcessStep,
     PP!ConnectFails, PP!StartSender, PP!GetRow, PP!ScanReturns, PP!ScanGoesOn,
     PP!ScanEnds, PP!WriteHandshake, PP!ReadOk, PP!ReadFails, PP!WriteContent,
     PP!MarkExported, PP!CloseSocket, PP!Save, PP!Finish, PP!Restart
<1> QED BY <1>2, <1>3

\* What a sender does to the connections on a good day.
LEMMA SegmentsWritten ==
  ASSUME IInv, NEW p \in Publishers, PublisherMoves(p), ends' = ends, GoodDays,
         NEW c \in Conns
  PROVE  /\ conns[c].up \in Messages => conns'[c].up = conns[c].up
         /\ conns'[c] # conns[c] => c = sock[p]
         /\ sender[p] # "close" => conns'[c].server = conns[c].server
         /\ conns'[c].down \in {conns[c].down, "none"}
<1>1. /\ conns \in [Conns -> Connections] /\ conns[c] \in Connections
      /\ PP!IInv /\ Link
      /\ sock[p] \in Conns \cup {NoConn}
      /\ conns[c].up \in Messages => conns[c].server = "open"
      /\ Nothing \notin Messages /\ ~PP!Kill(p)
  BY SameData, BlanksAreSegments, EndsCounted
     DEF IInv, PP!IInv, PP!TypeOK, Link, InFlight
<1>2. CASE PP!WriteHandshake(p)
  <2>1. /\ conns' = [conns EXCEPT ![sock[p]] = PP!Sent(conns[sock[p]], PP!Handshake)]
        /\ sender[p] = "shake"
    BY <1>2 DEF PP!WriteHandshake, PP!Goto
  <2>2. sock[p] \in Conns /\ conns[sock[p]].up = Nothing
    BY <1>1, <2>1, SenderHasSlot DEF Link, Dialogue
  <2> QED BY <1>1, <2>1, <2>2 DEF PP!Sent, Connections
<1>3. CASE PP!ReadOk(p)
  <2>1. conns' = [conns EXCEPT ![sock[p]] = [conns[sock[p]] EXCEPT !.down = "none"]]
    BY <1>3 DEF PP!ReadOk
  <2> QED BY <1>1, <2>1 DEF Connections
<1>4. CASE PP!WriteContent(p)
  <2>1. /\ conns' = [conns EXCEPT ![sock[p]] =
                       PP!Sent(conns[sock[p]], PP!XmlOf(current[p]))]
        /\ sender[p] = "content"
    BY <1>4 DEF PP!WriteContent, PP!Goto
  <2>2. sock[p] \in Conns /\ conns[sock[p]].up = Nothing
    BY <1>1, <2>1, SenderHasSlot DEF IInv, Link, Dialogue, Arriving, Attended
  <2> QED BY <1>1, <2>1, <2>2 DEF PP!Sent, Connections
<1>5. CASE PP!CloseSocket(p)
  <2>1. /\ conns' = [conns EXCEPT ![sock[p]] = PP!ClientCloses(conns[sock[p]])]
        /\ sender[p] = "close"
    BY <1>5 DEF PP!CloseSocket, PP!Goto
  <2>2. conns[c].server # "closed" => PP!ClientCloses(conns[c]).up = conns[c].up
    BY <1>1 DEF PP!ClientCloses, Connections
  <2>3. PP!ClientCloses(conns[c]).down \in {conns[c].down, "none"}
    BY <1>1 DEF PP!ClientCloses, PP!Free, Connections
  <2> QED BY <1>1, <2>1, <2>2, <2>3
<1>6. CASE ~(\/ PP!WriteHandshake(p) \/ PP!ReadOk(p) \/ PP!WriteContent(p)
             \/ PP!CloseSocket(p))
  <2>1. conns' = conns
    BY <1>1, <1>6 DEF PublisherMoves, PP!SenderStep, PP!EditorStep, PP!ProcessStep,
       PP!ConnectFails, PP!StartSender, PP!GetRow, PP!ScanReturns, PP!ScanGoesOn,
       PP!ScanEnds, PP!ReadFails, PP!MarkExported, PP!Save, PP!Quit, PP!Finish,
       PP!Restart
  <2> QED BY <2>1
<1> QED BY <1>2, <1>3, <1>4, <1>5, <1>6

\* How a sender gets to the points of the dialogue that matter here.
LEMMA SenderArrives ==
  ASSUME IInv, NEW p \in Publishers, PublisherMoves(p), ends' = ends
  PROVE  /\ sender'[p] = "content" =>
              \/ sender[p] = "content" /\ UNCHANGED <<conns, sock>>
              \/ sender[p] = "await" /\ conns[sock[p]].down = "00" /\ sock' = sock
         /\ sender'[p] = "await" =>
              \/ sender[p] = "await" /\ UNCHANGED <<conns, sock>>
              \/ sender[p] = "shake" /\ sock' = sock
         /\ sender'[p] = "mark" =>
              \/ sender[p] = "mark" /\ UNCHANGED <<conns, sock, current>>
              \/ /\ sender[p] = "content" /\ UNCHANGED <<sock, current>>
                 /\ conns' = [conns EXCEPT ![sock[p]] =
                                PP!Sent(conns[sock[p]], PP!XmlOf(current[p]))]
<1>1. sender \in [Publishers -> PP!SenderSteps] /\ ~PP!Kill(p)
  BY EndsCounted DEF IInv, PP!IInv, PP!TypeOK
<1>2. CASE PP!SenderStep(p)
  BY <1>1, <1>2 DEF PP!SenderStep, PP!StartSender, PP!GetRow, PP!ScanReturns,
     PP!ScanGoesOn, PP!ScanEnds, PP!WriteHandshake, PP!ReadOk, PP!ReadFails,
     PP!WriteContent, PP!MarkExported, PP!CloseSocket, PP!Goto, PP!senderVars
<1>3. CASE PP!EditorStep(p) \/ PP!ProcessStep(p) \/ PP!ConnectFails(p)
  BY <1>1, <1>3 DEF PP!EditorStep, PP!ProcessStep, PP!ConnectFails, PP!Save,
     PP!Quit, PP!Finish, PP!Restart, PP!Goto, PP!senderVars
<1> QED BY <1>2, <1>3 DEF PublisherMoves

LEMMA ArrivingUnderSender ==
  ASSUME IInv, NEW p \in Publishers, PublisherMoves(p),
         UNCHANGED <<queue, inserted, serverVars>>
  PROVE  Arriving'
<1> SUFFICES ASSUME GoodDays'
    PROVE  /\ \A q \in Publishers :
                /\ \/ sender'[q] = "content"
                   \/ sender'[q] = "await" /\ conns'[sock'[q]].down = "00"
                   => conns'[sock'[q]].server = "open"
                /\ sender'[q] = "mark" /\ current'[q].item # NoItem =>
                     OnWay(Whole(current[q].id, current[q].item))'
           /\ \A n \in entered' :
                db'[n.by][n.id].item = n.item =>
                  db'[n.by][n.id].state = "unsent" \/ OnWay(Whole(n.id, n.item))'
  BY DEF Arriving
<1>1. ends' = ends /\ GoodDays
  BY EndsCounted DEF IInv, GoodDays, serverVars
<1>2. /\ PP!IInv /\ Link /\ Origins
      /\ \A q \in Publishers :
           /\ \/ sender[q] = "content"
              \/ sender[q] = "await" /\ conns[sock[q]].down = "00"
              => conns[sock[q]].server = "open"
           /\ sender[q] = "mark" /\ current[q].item # NoItem =>
                OnWay(Whole(current[q].id, current[q].item))
      /\ \A n \in entered :
           db[n.by][n.id].item = n.item =>
             db[n.by][n.id].state = "unsent" \/ OnWay(Whole(n.id, n.item))
  BY <1>1 DEF IInv, Arriving
<1>3. \A m \in WholeMessages : OnWay(m) => OnWay(m)'
  BY <1>1, SegmentsWritten, BlanksAreSegments DEF OnWay, serverVars
<1>4. ASSUME NEW q \in Publishers,
             \/ sender'[q] = "content"
             \/ sender'[q] = "await" /\ conns'[sock'[q]].down = "00"
      PROVE  conns'[sock'[q]].server = "open"
  <2>1. CASE q # p
    <3>1. sender'[q] = sender[q] /\ sock'[q] = sock[q]
      BY <1>2, <2>1, OtherSenders
    <3>2. sock[q] \in Conns /\ sock[q] # sock[p]
      BY <1>2, <1>4, <2>1, <3>1, SenderHasSlot
    <3>3. conns'[sock[q]] = conns[sock[q]]
      BY <1>1, <3>2, SegmentsWritten
    <3> QED BY <1>2, <1>4, <3>1, <3>3
  <2>2. CASE q = p
    <3>1. sock'[p] = sock[p] /\ sender[p] \in {"shake", "await", "content"}
      BY <1>1, <1>4, <2>2, SenderArrives
    <3>2. sock[p] \in Conns
      BY <1>2, <3>1, SenderHasSlot
    <3>3. /\ conns'[sock[p]].server = conns[sock[p]].server
          /\ conns'[sock[p]].down \in {conns[sock[p]].down, "none"}
      BY <1>1, <3>1, <3>2, SegmentsWritten
    <3>4. sender[p] = "shake" => conns[sock[p]].down = "none"
      BY <1>2 DEF Link, Dialogue
    <3> QED BY <1>1, <1>2, <1>4, <2>2, <3>1, <3>3, <3>4, SenderArrives
  <2> QED BY <2>1, <2>2
<1>5. ASSUME NEW q \in Publishers, sender'[q] = "mark", current'[q].item # NoItem
      PROVE  OnWay(Whole(current[q].id, current[q].item))'
  <2>1. current'[q] = current[q]
    BY <1>1, <1>2, <1>5, OtherSenders, SenderArrives
  <2> SUFFICES ASSUME NEW m, m = Whole(current[q].id, current[q].item)
               PROVE  OnWay(m)'
    BY <2>1
  <2>2. /\ current[q].item \in Items /\ current[q].id \in Ids
    BY <1>2, <1>5, <2>1 DEF PP!IInv, PP!TypeOK, PP!Records, PP!Senders, PP!Scanning
  <2>3. m \in WholeMessages
    BY <2>2, WholeIsMessage
  <2>4. CASE sender[q] = "mark"
    BY <1>2, <1>3, <1>5, <2>1, <2>3, <2>4
  <2>5. CASE sender[q] # "mark"
    <3>1. q = p
      BY <1>2, <1>5, <2>5, OtherSenders
    <3>2. /\ sender[p] = "content"
          /\ conns' = [conns EXCEPT ![sock[p]] =
                         PP!Sent(conns[sock[p]], PP!XmlOf(current[p]))]
      BY <1>1, <1>5, <2>5, <3>1, SenderArrives
    <3>3. /\ sock[p] \in Conns /\ conns[sock[p]] \in Connections
          /\ conns[sock[p]].server = "open"
      BY <1>2, <3>2, SenderHasSlot
    <3>4. conns'[sock[p]].up = PP!XmlOf(current[p])
      BY <3>2, <3>3 DEF IInv, PP!IInv, PP!TypeOK, PP!Sent, Connections
    <3>5. PP!XmlOf(current[p]) = m
      BY <2>2, <3>1, Assumptions DEF PP!XmlOf, PP!Whole, Whole
    <3> QED BY <3>3, <3>4, <3>5 DEF OnWay
  <2> QED BY <2>4, <2>5
<1>6. ASSUME NEW n \in entered', db'[n.by][n.id].item = n.item,
             db'[n.by][n.id].state # "unsent"
      PROVE  OnWay(Whole(n.id, n.item))'
  <2>1. /\ n \in entered \/ (\A o \in entered : o.item # n.item)
        /\ \A q \in Publishers, i \in PP!RowIds :
             \/ db'[q][i] = db[q][i]
             \/ db'[q][i].state = "unsent"
             \/ /\ q = p /\ i = current[p].id /\ sender[p] = "mark"
                /\ db'[q][i].item = current[p].item
    BY <1>1, <1>2, PP!RowStates, Assumptions DEF PublisherMoves, PP!Moves
  <2>2. n.by \in Publishers /\ n.id \in Ids /\ n.item \in Items /\ n.id \in PP!RowIds
    BY OriginsUnderSender DEF Origins, PP!RowIds
  <2>3. Whole(n.id, n.item) \in WholeMessages
    BY <2>2, WholeIsMessage
  <2>4. CASE db'[n.by][n.id] = db[n.by][n.id]
    <3>1. n \in entered
      <4>1. db[n.by][n.id].item = n.item /\ n.item # NoItem /\ n.id \in P!RowIds
        BY <1>6, <2>2, <2>4, Assumptions DEF P!RowIds
      <4>2. P!Notice(n.by, n.id, n.item) \in entered
        BY <1>2, <2>2, <4>1 DEF Origins, Entered
      <4>3. P!Notice(n.by, n.id, n.item).item = n.item
        BY DEF P!Notice
      <4> QED BY <2>1, <4>2, <4>3
    <3>2. OnWay(Whole(n.id, n.item))
      BY <1>2, <1>6, <2>4, <3>1
    <3> QED BY <1>3, <2>3, <3>2
  <2>5. CASE /\ n.by = p /\ n.id = current[p].id /\ sender[p] = "mark"
             /\ n.item = current[p].item
    <3>1. OnWay(Whole(n.id, n.item))
      BY <1>2, <2>2, <2>5, Assumptions
    <3> QED BY <1>3, <2>3, <3>1
  <2> QED BY <1>6, <2>1, <2>2, <2>4, <2>5
<1> QED BY <1>4, <1>5, <1>6

LEMMA ArrivingUnderConnect ==
  ASSUME IInv, NEW p \in Publishers, NEW c \in Conns, PP!Connect(p, c),
         UNCHANGED <<queue, inserted, received, crashes>>
  PROVE  Arriving'
<1>1. /\ conns' = [conns EXCEPT ![c] = PP!Fresh] /\ conns[c] = PP!Free
      /\ sender' = [sender EXCEPT ![p] = "scan"]
      /\ sock' = [sock EXCEPT ![p] = c]
      /\ UNCHANGED <<entered, db, current, ends>>
      /\ PP!TypeOK /\ Link
  BY DEF PP!Connect, PP!Goto, PP!fileVars, PP!historyVars, IInv, PP!IInv
<1>2. /\ conns[c].client = "none" /\ conns[c].up \notin WholeMessages
  BY <1>1 DEF PP!Free, PP!Nothing, PP!Blank, WholeMessages
<1>3. \A m \in WholeMessages : OnWay(m) => OnWay(m)'
  BY <1>1, <1>2 DEF OnWay, PP!TypeOK
<1>4. ASSUME NEW q \in Publishers, sender'[q] \in {"content", "await", "mark"}
      PROVE  /\ sender'[q] = sender[q] /\ sock'[q] = sock[q]
             /\ conns'[sock[q]] = conns[sock[q]]
  <2>1. q # p /\ sender'[q] = sender[q] /\ sock'[q] = sock[q]
    BY <1>1, <1>4 DEF PP!TypeOK
  <2>2. sock[q] # c
    BY <1>2, <1>4, <2>1, SenderHasSlot DEF IInv
  <2> QED BY <1>1, <2>1, <2>2 DEF PP!TypeOK
<1>5. ASSUME GoodDays' PROVE GoodDays
  BY <1>1, <1>5 DEF GoodDays
<1>6. ASSUME NEW q \in Publishers, current[q].item # NoItem
      PROVE  Whole(current[q].id, current[q].item) \in WholeMessages
  BY <1>6, WholeIsMessage DEF IInv, PP!IInv, PP!TypeOK, PP!Records, PP!Senders,
     PP!Scanning
<1>7. ASSUME NEW n \in entered PROVE Whole(n.id, n.item) \in WholeMessages
  BY WholeIsMessage DEF IInv, Origins
<1>8. ASSUME NEW q \in Publishers
      PROVE  OnWay(Whole(current[q].id, current[q].item)) /\ current[q].item # NoItem
               => OnWay(Whole(current[q].id, current[q].item))'
  <2> SUFFICES ASSUME NEW m, m = Whole(current[q].id, current[q].item), OnWay(m),
                      current[q].item # NoItem
               PROVE  OnWay(m)'
    BY <1>1
  <2> QED BY <1>3, <1>6
<1>9. ASSUME NEW n \in entered, OnWay(Whole(n.id, n.item))
      PROVE  OnWay(Whole(n.id, n.item))'
  BY <1>3, <1>7, <1>9
<1> QED BY <1>1, <1>4, <1>5, <1>8, <1>9 DEF Arriving, IInv

-----------------------------------------------------------------------------
(* The invariant. *)

LEMMA InvInit == Init => IInv
<1> SUFFICES ASSUME Init PROVE IInv
  OBVIOUS
<1>1. PP!Init /\ SP!Init /\ AP!Init
  BY SameInit DEF Init
<1>2. PP!IInv /\ SP!IInv /\ AP!IInv /\ AP!Sources
  BY <1>1, PP!InvInit, SP!InvInit, AP!InvInit, AP!SourcesInit, Assumptions, SameData
<1> USE <1>1 DEF PP!Init, SP!Init, AP!Init
<1>3. \A c \in Conns : conns[c].up = Nothing
  BY DEF PP!Free, PP!Nothing, PP!Blank, Nothing, Blank
<1>4. Nothing \notin Messages /\ WholeMessages \subseteq Messages
  BY BlanksAreSegments
<1>5. SP!Nothing = Nothing
  BY SameData
<1>6. Link
  BY <1>3, <1>4, <1>5 DEF Link, Sockets, InFlight, Held, Dialogue
<1>7. \A m \in WholeMessages : ~OnWay(m)
  BY <1>3, <1>4, <1>5 DEF OnWay
<1>8. Origins
  BY <1>7 DEF Origins, P!RowIds, PP!RowIds, PP!Absent, PP!Uninitialised
<1>9. Arriving
  BY DEF Arriving
<1> QED BY <1>2, <1>6, <1>8, <1>9 DEF IInv

\* Neither the saver nor the signal handler nor a fault of the directory
\* server touches what the others work with, but the queue.
LEMMA AccessLeavesInserted ==
  ASSUME AP!Saver \/ AP!Terminate \/ AP!Environment
  PROVE  inserted' = inserted
BY DEF AP!Saver, AP!Terminate, AP!Environment, AP!Receive, AP!ReceiveTimesOut,
       AP!Assign, AP!Discard, AP!Parse, AP!ParseFaults, AP!UploadStores,
       AP!UploadFails, AP!UploadUnanswered, AP!LdapFails, AP!WakeUp,
       AP!TerminateTests, AP!TerminateInserts, AP!TerminateFaults,
       AP!TerminateExits, AP!Signal, AP!Kill, AP!Start, AP!LdapGoesDown,
       AP!LdapComesUp

LEMMA TiesStay ==
  ASSUME Link, Origins, Arriving,
         UNCHANGED <<conns, inserted, publisherVars, serverVars>>
  PROVE  Link' /\ Origins' /\ Arriving'
<1> USE DEF publisherVars, serverVars
<1>1. Link'
  BY DEF Link, Sockets, InFlight, Held, Dialogue, Attended
<1>2. Origins'
  BY OriginsStay DEF OnWay
<1>3. Arriving'
  BY DEF Arriving, GoodDays, OnWay
<1> QED BY <1>1, <1>2, <1>3

LEMMA SenderKeeps ==
  ASSUME IInv, NEW p \in Publishers, PublisherMoves(p),
         UNCHANGED <<queue, inserted, serverVars, accessVars>>
  PROVE  IInv'
<1>1. PP!IInv'
  BY PublishersUnderPublisher DEF IInv
<1>2. SP!IInv'
  BY ServerUnderSender
<1>3. AP!IInv' /\ AP!Sources'
  BY AccessUnderPublisher DEF IInv
<1>4. Link'
  BY LinkUnderSender DEF serverVars
<1>5. Origins' /\ Arriving'
  BY OriginsUnderSender, ArrivingUnderSender
<1> QED BY <1>1, <1>2, <1>3, <1>4, <1>5 DEF IInv

LEMMA ConnectKeeps ==
  ASSUME IInv, NEW p \in Publishers, NEW c \in Conns, Connect(p, c)
  PROVE  IInv'
<1>1. PP!Connect(p, c) /\ SP!Enqueue(c) /\ UNCHANGED accessVars
  BY SameConnect DEF Connect, S!Enqueue, S!Listening, S!queueVars, SP!Enqueue,
     SP!Listening, SP!queueVars
<1>2. UNCHANGED <<queue, inserted, server, received, crashes>>
  BY <1>1 DEF SP!Enqueue, SP!queueVars
<1>3. PP!IInv'
  BY <1>1, PublishersUnderPublisher DEF IInv
<1>4. SP!IInv'
  BY <1>1, ServerUnderConnect DEF IInv
<1>5. AP!IInv' /\ AP!Sources'
  BY <1>1, <1>2, AccessUnderPublisher DEF IInv
<1>6. Link' /\ Origins' /\ Arriving'
  BY <1>1, <1>2, LinkUnderConnect, OriginsUnderConnect, ArrivingUnderConnect
<1> QED BY <1>3, <1>4, <1>5, <1>6 DEF IInv

LEMMA ServerKeeps ==
  ASSUME IInv, SP!ServerStep, UNCHANGED <<publisherVars, accessVars>>
  PROVE  IInv'
<1>1. SP!IInv'
  BY ServerUnderServer DEF IInv
<1>2. PP!IInv'
  BY <1>1, PublishersUnderOthers DEF IInv
<1>3. AP!IInv' /\ AP!Sources'
  BY AccessUnderServer DEF IInv
<1>4. Link'
  BY LinkUnderServer DEF publisherVars
<1>5. Origins' /\ Arriving'
  BY OriginsUnderServer, ArrivingUnderServer
<1> QED BY <1>1, <1>2, <1>3, <1>4, <1>5 DEF IInv

LEMMA AccessKeeps ==
  ASSUME IInv, AP!Saver \/ AP!Terminate \/ AP!Environment,
         UNCHANGED <<conns, publisherVars, serverVars>>
  PROVE  IInv'
<1>1. AP!IInv' /\ AP!Sources'
  BY AccessUnderAccess DEF IInv
<1>2. SP!IInv'
  BY <1>1, ServerUnderAccess DEF IInv
<1>3. PP!IInv'
  BY <1>2, PublishersUnderOthers DEF IInv
<1>4. Link' /\ Origins' /\ Arriving'
  BY AccessLeavesInserted, TiesStay DEF IInv
<1> QED BY <1>1, <1>2, <1>3, <1>4 DEF IInv

\* A step of the pipeline is one of these.
LEMMA Steps ==
  ASSUME Next
  PROVE  \/ \E p \in Publishers :
              /\ PublisherMoves(p)
              /\ UNCHANGED <<queue, inserted, serverVars, accessVars>>
         \/ \E p \in Publishers, c \in Conns : Connect(p, c)
         \/ SP!ServerStep /\ UNCHANGED <<publisherVars, accessVars>>
         \/ /\ AP!Saver \/ AP!Terminate \/ AP!Environment
            /\ UNCHANGED <<conns, publisherVars, serverVars>>
<1>1. ASSUME NEW p \in Publishers, PublisherStep(p)
      PROVE  \/ /\ PublisherMoves(p)
                /\ UNCHANGED <<queue, inserted, serverVars, accessVars>>
             \/ \E c \in Conns : Connect(p, c)
  <2>1. CASE Refused(p)
    BY <2>1, SamePublisher DEF Refused, S!Refuse, S!queueVars, serverVars,
       PublisherMoves
  <2>2. CASE ~Refused(p)
    BY <1>1, <2>2, SamePublisher DEF PublisherStep, SenderStep, PublisherMoves
  <2> QED BY <2>1, <2>2
<1> QED BY <1>1, SameServer, SameAccess DEF Next, ServerStep, AccessStep

LEMMA InvNext == IInv /\ [Next]_vars => IInv'
<1> SUFFICES ASSUME IInv, [Next]_vars PROVE IInv'
  OBVIOUS
<1>1. CASE Next
  BY <1>1, Steps, SenderKeeps, ConnectKeeps, ServerKeeps, AccessKeeps
<1>2. CASE UNCHANGED vars
  <2>1. UNCHANGED PP!vars /\ UNCHANGED SP!vars /\ UNCHANGED AP!vars
    BY <1>2 DEF vars, publisherVars, serverVars, accessVars, PP!vars, SP!vars, AP!vars
  <2>2. PP!IInv' /\ SP!IInv' /\ AP!IInv' /\ AP!Sources'
    BY <2>1, PP!InvNext, SP!InvNext, AP!InvNext, AP!SourcesNext, Assumptions,
       SameData DEF IInv
  <2>3. Link' /\ Origins' /\ Arriving'
    BY <1>2, TiesStay DEF vars, IInv
  <2> QED BY <2>2, <2>3 DEF IInv
<1> QED BY <1>1, <1>2

LEMMA Invariance == Spec => []IInv
<1> QED BY InvInit, InvNext, PTL DEF Spec

-----------------------------------------------------------------------------
(* The theorems. *)

\* The three programs keep the types of all their variables, whatever the
\* others do to the connections and the queue they share.
THEOREM TypeCorrect == Spec => []TypeOK
<1>1. IInv => TypeOK
  BY SamePublisherTypes, SameServerTypes, SameAccessTypes
     DEF IInv, PP!IInv, SP!IInv, AP!IInv, TypeOK
<1> QED BY <1>1, Invariance, PTL

\* A row that is marked may be forgotten by its publisher: as long as nobody
\* dies and nothing is cut short, every notice that a database took is not
\* exported yet, or on its way, stored, or lost with the data access process.
THEOREM NothingIsForgotten == Spec => []NothingVanishes
<1>1. IInv => NothingVanishes
  <2> SUFFICES ASSUME IInv, GoodDays, NEW n \in entered,
                      db[n.by][n.id].item = n.item,
                      db[n.by][n.id].state # "unsent",
                      NEW m, m = Whole(n.id, n.item)
               PROVE  OnItsWay(m) \/ A!Stored(m) \/ m \in lost
    BY DEF NothingVanishes, GoodDays
  <2>1. m \in WholeMessages /\ OnWay(m)
    BY WholeIsMessage DEF IInv, Arriving, Origins
  <2>2. m \in inserted => AP!InQueue(m) \/ AP!InHand = m \/ AP!Stored(m) \/ m \in lost
    BY <2>1, SameData DEF IInv, AP!IInv, AP!NoSilentLoss
  <2>3. /\ A!InQueue(m) <=> AP!InQueue(m)
        /\ A!Stored(m) <=> AP!Stored(m)
        /\ A!InHand = AP!InHand
    BY DEF A!InQueue, AP!InQueue, A!Stored, AP!Stored, A!InHand, AP!InHand,
       A!Nothing, A!Blank, AP!Nothing, AP!Blank
  <2> QED BY <2>1, <2>2, <2>3 DEF OnWay, OnItsWay
<1> QED BY <1>1, Invariance, PTL

LEMMA DeliveryInit == Init => D!Init
BY DEF Init, P!Init, A!Init, D!Init, typedNotices

\* Typing a notice is Type, storing it is Deliver: what is stored was taken
\* from the queue, and what got there was typed.
LEMMA DeliveryNext ==
  ASSUME IInv, [Next]_vars
  PROVE  D!Next \/ UNCHANGED D!vars
<1> USE DEF D!vars
<1>1. ASSUME entered' = entered, directory' = directory PROVE UNCHANGED D!vars
  BY <1>1 DEF typedNotices
<1>2. ASSUME NEW p \in Publishers, NEW id \in Ids, NEW item \in Items,
             PP!Save(p, id, item), directory' = directory
      PROVE  D!Next
  <2> DEFINE notice == [id |-> id, item |-> item]
  <2>1. entered' = entered \cup {PP!Notice(p, id, item)}
    BY <1>2 DEF PP!Save
  <2>2. typedNotices' = typedNotices \cup {notice}
    <3>1. /\ PP!Notice(p, id, item).id = id
          /\ PP!Notice(p, id, item).item = item
      BY DEF PP!Notice
    <3>2. \A e \in entered' : e \in entered \/ e = PP!Notice(p, id, item)
      BY <2>1
    <3>3. \A t : t \in typedNotices' <=> t \in typedNotices \/ t = notice
      BY <2>1, <3>1, <3>2 DEF typedNotices
    <3> QED BY <3>3
  <2>3. notice \in D!TypedNotices
    BY DEF D!TypedNotices
  <2> QED BY <1>2, <2>2, <2>3 DEF D!Next, D!Type
<1>3. ASSUME AP!UploadStores \/ AP!UploadUnanswered, entered' = entered
      PROVE  D!Next
  <2> DEFINE notice == [id |-> xmlNew.id, item |-> xmlNew.item]
  <2>1. /\ saver = "upload" /\ directory[xmlNew.id] = NoItem
        /\ directory' = [directory EXCEPT ![xmlNew.id] = xmlNew.item]
    BY <1>3 DEF AP!UploadStores, AP!UploadUnanswered
  <2>2. xmlNew \in WholeMessages /\ xmlNew \in inserted
    BY <2>1, SameData DEF IInv, AP!IInv, AP!Positions, AP!Sources
  <2>3. notice \in typedNotices /\ notice \in D!TypedNotices
    BY <2>2 DEF IInv, Origins, OnWay, Typed, D!TypedNotices, WholeMessages
  <2>4. UNCHANGED typedNotices
    BY <1>3 DEF typedNotices
  <2>5. D!Deliver(notice)
    BY <2>1, <2>3, <2>4 DEF D!Deliver
  <2> QED BY <2>3, <2>5 DEF D!Next
<1>4. CASE UNCHANGED vars
  BY <1>1, <1>4 DEF vars, publisherVars, accessVars
<1>5. CASE Next
  <2>1. ASSUME NEW p \in Publishers, PublisherMoves(p), UNCHANGED accessVars
        PROVE  D!Next \/ UNCHANGED D!vars
    <3>1. CASE \E id \in Ids, item \in Items : PP!Save(p, id, item)
      BY <1>2, <2>1, <3>1 DEF accessVars
    <3>2. CASE ~\E id \in Ids, item \in Items : PP!Save(p, id, item)
      <4>1. entered' = entered
        BY <2>1, <3>2 DEF PublisherMoves, PP!SenderStep, PP!EditorStep,
           PP!ProcessStep, PP!ConnectFails, PP!StartSender, PP!GetRow,
           PP!ScanReturns, PP!ScanGoesOn, PP!ScanEnds, PP!WriteHandshake,
           PP!ReadOk, PP!ReadFails, PP!WriteContent, PP!MarkExported,
           PP!CloseSocket, PP!Quit, PP!Finish, PP!Kill, PP!Restart,
           PP!historyVars
      <4> QED BY <1>1, <2>1, <4>1 DEF accessVars
    <3> QED BY <3>1, <3>2
  <2>2. ASSUME NEW p \in Publishers, NEW c \in Conns, Connect(p, c)
        PROVE  UNCHANGED D!vars
    BY <1>1, <2>2 DEF Connect, P!Connect, P!historyVars, accessVars
  <2>3. ASSUME UNCHANGED <<publisherVars, accessVars>> PROVE UNCHANGED D!vars
    BY <1>1, <2>3 DEF publisherVars, accessVars
  <2>4. ASSUME AP!Saver \/ AP!Terminate \/ AP!Environment, UNCHANGED publisherVars
        PROVE  D!Next \/ UNCHANGED D!vars
    <3>1. entered' = entered
      BY <2>4 DEF publisherVars
    <3>2. CASE ~(AP!UploadStores \/ AP!UploadUnanswered)
      <4>1. directory' = directory
        BY <2>4, <3>2 DEF AP!Saver, AP!Terminate, AP!Environment, AP!Receive,
           AP!ReceiveTimesOut, AP!Assign, AP!Discard, AP!Parse, AP!ParseFaults,
           AP!UploadFails, AP!LdapFails, AP!WakeUp, AP!TerminateTests,
           AP!TerminateInserts, AP!TerminateFaults, AP!TerminateExits,
           AP!Signal, AP!Kill, AP!Start, AP!LdapGoesDown, AP!LdapComesUp,
           AP!ldapVars
      <4> QED BY <1>1, <3>1, <4>1
    <3> QED BY <1>3, <3>1, <3>2
  <2> QED BY <1>5, <2>1, <2>2, <2>3, <2>4, Steps
<1> QED BY <1>4, <1>5

\* The programs together implement NewsDelivery: what is found under an id was
\* typed with that id, and stays.  No cut message, uninitialised record,
\* rewritten message object or second copy gets into the directory.
THEOREM PipelineDelivers == Spec => Delivery
<1>1. IInv /\ [Next]_vars => [D!Next]_(D!vars)
  BY DeliveryNext
<1> QED BY <1>1, DeliveryInit, Invariance, PTL DEF Spec, Delivery, D!Spec

=============================================================================
