----------------------------- MODULE NewsServer -----------------------------
(***************************************************************************)
(* NNTPServer: accepts one publisher's connection at a time, authenticates *)
(* it by its handshake, reads one notice from it and puts it in the queue. *)
(* ServerSocket::Listen starts a thread per connection and waits for it    *)
(* before it accepts the next, so the thread and the loop are one process  *)
(* here.                                                                   *)
(***************************************************************************)
EXTENDS Wire, Sequences

CONSTANTS Backlog,     \* connections TCP completes before they are accepted
          Cuts,        \* how recv may stop early: what is left of a notice
          MaxCrashes,  \* bound: times the server's process is ended
  MaxQueued    \* bound: notices that wait while clients go on sending

ASSUME BacklogAssumption == Backlog \in Nat \ {0}

ASSUME CutsAssumption == Cuts \subseteq {"tiny", "short", "broken"}

ASSUME BoundsAssumption == MaxCrashes \in Nat /\ MaxQueued \in Nat

VARIABLES
  conns,      \* the connections, by slot
  backlog,    \* the connections completed and not accepted, oldest first
  server,     \* where the server is, "down" when no process runs
  client,     \* the connection being served
  received,   \* the notice read from it
  startups,   \* WSAStartup calls not undone by WSACleanup
  crashes,    \* times the process was ended so far
  queue,      \* the private MSMQ queue, oldest first
  inserted    \* history: messages put in the queue

queueVars == <<queue, inserted>>
vars == <<conns, backlog, server, client, received, startups, crashes, queue,
          inserted>>

ServerSteps == {"down", "accept", "handshake", "reply", "content", "insert",
                "close"}

\* ServerSocket's constructor runs twice: for the global and for main's own.
Startups == 2

TypeOK ==
  /\ conns \in [Conns -> Connections]
  /\ backlog \in Seq(Conns) /\ Len(backlog) <= Backlog
  /\ server \in ServerSteps
  /\ client \in Conns \cup {NoConn}
  /\ received \in Messages \cup {Nothing}
  /\ startups \in 0..Startups
  /\ crashes \in Nat
  /\ queue \in Seq(Messages)
  /\ inserted \in SUBSET Messages

Init ==
  /\ conns = [c \in Conns |-> Free]
  /\ backlog = <<>>
  /\ server = "accept"
  /\ client = NoConn
  /\ received = Nothing
  /\ startups = Startups
  /\ crashes = 0
  /\ queue = <<>>
  /\ inserted = {}

-----------------------------------------------------------------------------
\* The port takes connections: the listening socket exists.
Listening == server # "down" /\ startups > 0

\* TCP completes a publisher's connection.
Enqueue(c) ==
  /\ Listening
  /\ Len(backlog) < Backlog
  /\ backlog' = Append(backlog, c)
  /\ UNCHANGED <<server, client, received, startups, crashes, queueVars>>

\* A connection is refused: no listening socket, or no room.
Refuse ==
  /\ ~Listening \/ Len(backlog) = Backlog
  /\ UNCHANGED <<backlog, server, client, received, startups, crashes,
                 queueVars>>

Goto(from, to) ==
  /\ server = from
  /\ server' = to

\* accept returns a socket, OnConnect starts.
Accept ==
  /\ Goto("accept", "handshake")
  /\ Listening
  /\ backlog # <<>>
  /\ client' = Head(backlog)
  /\ backlog' = Tail(backlog)
  /\ conns' = [conns EXCEPT ![Head(backlog)].server = "open"]
  /\ UNCHANGED <<received, startups, crashes, queueVars>>

\* The server's ends of these connections are closed by its TCP.
CloseAll(closing) ==
  conns' = [c \in Conns |-> IF c \in closing THEN ServerCloses(conns[c])
                                             ELSE conns[c]]

Queued == {c \in Conns : conns[c].server = "queued"}

\* accept returns INVALID_SOCKET because the peer has reset the connection:
\* Listen undoes one WSAStartup and loops.  With the last one go the listening
\* socket and whatever waits on it, and accept can only fail from then on.
AcceptFails ==
  /\ server = "accept"
  /\ Listening
  /\ backlog # <<>>
  /\ conns[Head(backlog)].client = "reset"
  /\ startups' = startups - 1
  /\ IF startups = 1
     THEN /\ CloseAll(Queued)
          /\ backlog' = <<>>
     ELSE /\ CloseAll({Head(backlog)})
          /\ backlog' = Tail(backlog)
  /\ UNCHANGED <<server, client, received, crashes, queueVars>>

\* Without a listening socket the loop spins: accept fails at once.
AcceptSpins ==
  /\ server = "accept"
  /\ ~Listening
  /\ UNCHANGED vars

\* Faulty variant: recv's 0, for a connection that was closed, is read again.
CanReadDataOnly == conns[client].up # Nothing

\* A read of the connection returns: something has come, or nothing can.
CanRead == conns[client].up # Nothing \/ conns[client].client # "open"

\* Faulty variant: any first message is taken for the handshake.
AuthenticatesAnything(message) == message # Nothing

\* isValid, ParseMesage and AutenticateHandShake.
Authenticates(message) == message = Handshake

\* The first read.  A short recv leaves a prefix, which is no handshake.
ReadHandshake ==
  /\ server = "handshake"
  /\ CanRead
  /\ LET segment == conns[client].up
     IN \/ /\ server' = IF Authenticates(segment) THEN "reply" ELSE "close"
           /\ conns' = [conns EXCEPT ![client].up = Nothing]
        \/ /\ segment # Nothing
           /\ Cuts # {}
           /\ server' = IF Authenticates(Broken) THEN "reply" ELSE "close"
           /\ conns' = [conns EXCEPT ![client].up = Remainder]
  /\ UNCHANGED <<backlog, client, received, startups, crashes, queueVars>>

\* write("00").
Reply ==
  /\ Goto("reply", "content")
  /\ conns' = [conns EXCEPT ![client] =
       IF @.client = "open" THEN [@ EXCEPT !.down = "00"] ELSE @]
  /\ UNCHANGED <<backlog, client, received, startups, crashes, queueVars>>

\* The second read returns the empty string: there is nothing to queue.
ReadNoContent ==
  /\ Goto("content", "close")
  /\ CanRead
  /\ conns[client].up = Nothing
  /\ UNCHANGED <<conns, backlog, client, received, startups, crashes,
                 queueVars>>

\* What may be read of a segment: all of it, or a prefix that still has the
\* 21 characters of the frame's header, of which no one checks the length.
Readable(segment) ==
  {segment} \cup (IF "short" \in Cuts THEN {Short} ELSE {})
            \cup (IF "broken" \in Cuts THEN {Broken} ELSE {})

ReadContent ==
  /\ Goto("content", "insert")
  /\ conns[client].up # Nothing
  /\ received' \in Readable(conns[client].up)
  /\ conns' = [conns EXCEPT ![client].up =
                 IF received' = @ THEN Nothing ELSE Remainder]
  /\ UNCHANGED <<backlog, client, startups, crashes, queueVars>>

\* The process ends, its connections are closed by the system.
EndProcess ==
  /\ server' = "down"
  /\ client' = NoConn
  /\ received' = Nothing
  /\ backlog' = <<>>
  /\ CloseAll({c \in Conns : conns[c].server \in {"queued", "open"}})

\* ParseMesage of a prefix shorter than the header throws out_of_range, which
\* nobody catches: the content is not checked with isValid.
ReadFaults ==
  /\ server = "content"
  /\ conns[client].up # Nothing
  /\ "tiny" \in Cuts
  /\ crashes < MaxCrashes
  /\ crashes' = crashes + 1
  /\ EndProcess
  /\ UNCHANGED <<startups, queueVars>>

\* NewsQeue.Insert.
InsertNews ==
  /\ Goto("insert", "close")
  /\ queue' = Append(queue, received)
  /\ inserted' = inserted \cup {received}
  /\ received' = Nothing
  /\ UNCHANGED <<conns, backlog, client, startups, crashes>>

\* Faulty variant: OnConnect returns without closing.
CloseLeaks ==
  /\ Goto("close", "accept")
  /\ client' = NoConn
  /\ UNCHANGED <<conns, backlog, received, startups, crashes, queueVars>>

\* clientConnection.close() and the end of the thread Listen waits for.
Close ==
  /\ Goto("close", "accept")
  /\ conns' = [conns EXCEPT ![client] = ServerCloses(@)]
  /\ client' = NoConn
  /\ UNCHANGED <<backlog, received, startups, crashes, queueVars>>

\* Terminate, or any other sudden end.
Kill ==
  /\ server # "down"
  /\ crashes < MaxCrashes
  /\ crashes' = crashes + 1
  /\ EndProcess
  /\ UNCHANGED <<startups, queueVars>>

\* Somebody starts the program.
Restart ==
  /\ Goto("down", "accept")
  /\ startups' = Startups
  /\ UNCHANGED <<conns, backlog, client, received, crashes, queueVars>>

\* The steps the loop and its thread take by themselves.
Serve ==
  \/ Accept \/ AcceptFails \/ AcceptSpins \/ ReadHandshake \/ Reply
  \/ ReadNoContent \/ ReadContent \/ ReadFaults \/ InsertNews \/ Close

ServerStep == Serve \/ Kill \/ Restart

-----------------------------------------------------------------------------
(* What surrounds the server: any program that connects to its port, and the *)
(* data access process that takes the notices out of the queue.              *)

ClientConnects(c) ==
  /\ conns[c] = Free
  /\ Enqueue(c)
  /\ conns' = [conns EXCEPT ![c] = Fresh]

\* The server has not read the client's first message.
NotGreeted(c) ==
  conns[c].server = "queued" \/ (server = "handshake" /\ client = c)

\* The first message of a publisher, or of a program that is none.
ClientGreets(c) ==
  /\ conns[c].client = "open"
  /\ NotGreeted(c)
  /\ conns[c].up = Nothing
  /\ \E m \in WholeMessages \cup {Handshake} :
       conns' = [conns EXCEPT ![c] = Sent(@, m)]
  /\ UNCHANGED <<backlog, server, client, received, startups, crashes,
                 queueVars>>

\* Its notice, once the server has answered.  Bound: clients wait while
\* MaxQueued notices are in the queue.
ClientSends(c) ==
  /\ conns[c].client = "open"
  /\ conns[c].down = "00"
  /\ Len(queue) < MaxQueued
  /\ \E m \in WholeMessages :
       conns' = [conns EXCEPT ![c] = [Sent(@, m) EXCEPT !.down = "none"]]
  /\ UNCHANGED <<backlog, server, client, received, startups, crashes,
                 queueVars>>

ClientLeaves(c) ==
  /\ conns[c].client = "open"
  /\ conns' = [conns EXCEPT ![c] = ClientCloses(@)]
  /\ UNCHANGED <<backlog, server, client, received, startups, crashes,
                 queueVars>>

ClientAborts(c) ==
  /\ conns[c].client = "open"
  /\ \E aborted \in ClientDies(conns[c]) :
       conns' = [conns EXCEPT ![c] = aborted]
  /\ UNCHANGED <<backlog, server, client, received, startups, crashes,
                 queueVars>>

TakeNews ==
  /\ queue # <<>>
  /\ queue' = Tail(queue)
  /\ UNCHANGED <<conns, backlog, server, client, received, startups, crashes,
                 inserted>>

Surroundings ==
  \/ \E c \in Conns :
       \/ ClientConnects(c) \/ ClientGreets(c) \/ ClientSends(c)
       \/ ClientLeaves(c) \/ ClientAborts(c)
  \/ TakeNews

Next == ServerStep \/ Surroundings

\* The loop runs whenever it can; every client closes its connection one day,
\* as ClientSender does whatever it was answered.
Fairness ==
  /\ WF_vars(Serve)
  /\ \A c \in Conns : WF_vars(ClientLeaves(c))

Spec == Init /\ [][Next]_vars

FairSpec == Spec /\ Fairness

-----------------------------------------------------------------------------
(* Properties. *)

\* No connection is left open behind: OnConnect closes on each of its three
\* ways out, so the server's end is open only while the connection is served.
NoConnectionLeaks == \A c \in Conns : conns[c].server = "open" => c = client

\* A connection that waits in the backlog gets its turn or is closed, whatever
\* the clients before it did: went away before or after the handshake, sent
\* something else, reset the connection before it was accepted.
WaitingIsServed ==
  \A c \in Conns : conns[c].server = "queued" ~> conns[c].server # "queued"

=============================================================================
