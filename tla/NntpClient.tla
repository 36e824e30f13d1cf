----------------------------- MODULE NntpClient -----------------------------
(***************************************************************************)
(* nntpSslClient: the user interface and the connector are two threads of  *)
(* one process that hand commands and answers over in shared memory, each  *)
(* waiting on a semaphore for its turn.                                    *)
(***************************************************************************)
EXTENDS NntpWire

CONSTANTS Terminals,  \* where a client may be run, one at a time
          MaxCuts     \* bound: answers of one connection that are cut by a read

VARIABLES
  conns,     \* the connections, by slot
  sock,      \* the connector's socket
  ui,        \* where userInterface is, "off" when no process runs
  connector, \* where connector is
  semUserInterface,
  semConnector,
  shared,    \* the shared memory
  response,  \* connector's response
  cmd,       \* userInterface's command
  Finish,    \* the flag that ends the connector
  cuts       \* answers cut so far

threadVars == <<sock, ui, connector, semUserInterface, semConnector, shared,
                cmd, Finish, cuts>>
vars == <<conns, threadVars>>

UiSteps == {"off", "start", "type", "go", "wait", "show", "finish", "done"}

ConnectorSteps == {"off", "connect", "handshake", "wait", "test", "write",
                   "read", "put", "go", "close"}

\* What is read from a connection that has ended: the empty string.
Silence == [piece |-> ""]

Texts == Pieces \cup {Silence}

TypeOK ==
  /\ conns \in [Conns -> Connections]
  /\ sock \in [Terminals -> Conns \cup {NoConn}]
  /\ ui \in [Terminals -> UiSteps]
  /\ connector \in [Terminals -> ConnectorSteps]
  /\ semUserInterface \in [Terminals -> 0..1]
  /\ semConnector \in [Terminals -> 0..1]
  /\ shared \in [Terminals -> Commands \cup Texts \cup {Nothing}]
  /\ response \in [Terminals -> Texts \cup {Nothing}]
  /\ cmd \in [Terminals -> Commands \cup {Nothing}]
  /\ Finish \in [Terminals -> BOOLEAN]
  /\ cuts \in [Terminals -> 0..MaxCuts]

Init ==
  /\ conns = [c \in Conns |-> Free]
  /\ sock = [t \in Terminals |-> NoConn]
  /\ ui = [t \in Terminals |-> "off"]
  /\ connector = [t \in Terminals |-> "off"]
  /\ semUserInterface = [t \in Terminals |-> 0]
  /\ semConnector = [t \in Terminals |-> 0]
  /\ shared = [t \in Terminals |-> Nothing]
  /\ response = [t \in Terminals |-> Nothing]
  /\ cmd = [t \in Terminals |-> Nothing]
  /\ Finish = [t \in Terminals |-> FALSE]
  /\ cuts = [t \in Terminals |-> 0]

-----------------------------------------------------------------------------
UiGoto(t, from, to) ==
  /\ ui[t] = from
  /\ ui' = [ui EXCEPT ![t] = to]

Goto(t, from, to) ==
  /\ connector[t] = from
  /\ connector' = [connector EXCEPT ![t] = to]

\* sem_wait and sem_post.
Wait(sem, t) == sem[t] > 0 /\ sem' = [sem EXCEPT ![t] = @ - 1]
Go(sem, t) == sem' = [sem EXCEPT ![t] = @ + 1]

\* main starts both threads.
Run(t) ==
  /\ UiGoto(t, "off", "start")
  /\ Goto(t, "off", "connect")
  /\ UNCHANGED <<conns, sock, semUserInterface, semConnector, shared, response, cmd,
                 Finish, cuts>>

\* The process is over, by exit, a signal or because main's threads ended.
Exit(t) ==
  /\ ui' = [ui EXCEPT ![t] = "off"]
  /\ connector' = [connector EXCEPT ![t] = "off"]
  /\ semUserInterface' = [semUserInterface EXCEPT ![t] = 0]
  /\ semConnector' = [semConnector EXCEPT ![t] = 0]
  /\ shared' = [shared EXCEPT ![t] = Nothing]
  /\ response' = [response EXCEPT ![t] = Nothing]
  /\ cmd' = [cmd EXCEPT ![t] = Nothing]
  /\ Finish' = [Finish EXCEPT ![t] = FALSE]
  /\ cuts' = [cuts EXCEPT ![t] = 0]
  /\ sock' = [sock EXCEPT ![t] = NoConn]
  /\ conns' = IF sock[t] = NoConn THEN conns
              ELSE [conns EXCEPT ![sock[t]] = ClientCloses(@)]

-----------------------------------------------------------------------------
(* userInterface.                                                           *)

semVars == <<semUserInterface, semConnector>>

\* Faulty variant: the first command is asked for at once.
UiStartAtOnce(t) ==
  /\ UiGoto(t, "start", "type")
  /\ UNCHANGED <<conns, sock, connector, semVars, shared, response, cmd, Finish,
                 cuts>>

\* semUserInterface.Wait before the first command.
UiStart(t) ==
  /\ UiGoto(t, "start", "type")
  /\ Wait(semUserInterface, t)
  /\ UNCHANGED <<conns, sock, connector, semConnector, shared,
                 response, cmd, Finish, cuts>>

\* Console::Read and shared.Write; empty and overlong lines are asked again.
Type(t, command) ==
  /\ UiGoto(t, "type", "go")
  /\ cmd' = [cmd EXCEPT ![t] = command]
  /\ shared' = [shared EXCEPT ![t] = command]
  /\ UNCHANGED <<conns, sock, connector, semVars, response, Finish, cuts>>

UiGo(t) ==
  /\ UiGoto(t, "go", "wait")
  /\ Go(semConnector, t)
  /\ UNCHANGED <<conns, sock, connector, semUserInterface, shared,
                 response, cmd, Finish, cuts>>

UiWait(t) ==
  /\ UiGoto(t, "wait", "show")
  /\ Wait(semUserInterface, t)
  /\ UNCHANGED <<conns, sock, connector, semConnector, shared,
                 response, cmd, Finish, cuts>>

\* isExit: QUIT alone on its line.
IsExit(command) == command.verb = "QUIT" /\ command.arg = ""

\* shared.Read and the answer on the screen.
Show(t) ==
  /\ UiGoto(t, "show", IF IsExit(cmd[t]) THEN "finish" ELSE "type")
  /\ cmd' = [cmd EXCEPT ![t] = Nothing]
  /\ UNCHANGED <<conns, sock, connector, semVars, shared, response, Finish, cuts>>

\* Faulty variant: the connector is left waiting.
UiFinishSilently(t) ==
  /\ UiGoto(t, "finish", "done")
  /\ Finish' = [Finish EXCEPT ![t] = TRUE]
  /\ UNCHANGED <<conns, sock, connector, semVars, shared, response, cmd, cuts>>

UiFinish(t) ==
  /\ UiGoto(t, "finish", "done")
  /\ Finish' = [Finish EXCEPT ![t] = TRUE]
  /\ Go(semConnector, t)
  /\ UNCHANGED <<conns, sock, connector, semUserInterface, shared,
                 response, cmd, cuts>>

-----------------------------------------------------------------------------
(* connector.                                                               *)

\* Socket's constructor.
Connect(t, c) ==
  /\ Goto(t, "connect", "handshake")
  /\ conns[c] = Free
  /\ conns' = [conns EXCEPT ![c] = Fresh]
  /\ sock' = [sock EXCEPT ![t] = c]
  /\ UNCHANGED <<ui, semVars, shared,
                 response, cmd, Finish, cuts>>

ConnectFails(t) ==
  /\ connector[t] = "connect"
  /\ Exit(t)

\* SSLConnect returns when the server has accepted, or failed: the error is
\* printed and the connector goes on.
Handshake(t) ==
  /\ Goto(t, "handshake", "wait")
  /\ conns[sock[t]].server # "queued"
  /\ Go(semUserInterface, t)
  /\ UNCHANGED <<conns, sock, ui, semConnector, shared,
                 response, cmd, Finish, cuts>>

ConnectorWait(t) ==
  /\ Goto(t, "wait", "test")
  /\ Wait(semConnector, t)
  /\ UNCHANGED <<conns, sock, ui, semUserInterface, shared,
                 response, cmd, Finish, cuts>>

Test(t) ==
  /\ Goto(t, "test", IF Finish[t] THEN "close" ELSE "write")
  /\ UNCHANGED <<conns, sock, ui, semVars, shared,
                 response, cmd, Finish, cuts>>

\* shared.Read and socket.write: a first write to a closed end is not noticed.
Write(t) ==
  /\ Goto(t, "write", "read")
  /\ conns' = IF conns[sock[t]].server = "closed" THEN conns
              ELSE [conns EXCEPT ![sock[t]].up = Append(@, shared[t])]
  /\ UNCHANGED <<sock, ui, semVars, shared,
                 response, cmd, Finish, cuts>>

\* SOCKETERROR, or SIGPIPE and Terminate: "El servidor esta fuera de servicio".
WriteFails(t) ==
  /\ connector[t] = "write"
  /\ conns[sock[t]].server = "closed"
  /\ Exit(t)

\* Faulty variant: the answer is not put in the shared memory.
ReadAndGo(t) ==
  /\ Goto(t, "read", "go")
  /\ conns[sock[t]].down # <<>>
  /\ conns' = [conns EXCEPT ![sock[t]].down = Tail(@)]
  /\ UNCHANGED <<sock, ui, semVars, shared, response, cmd, Finish, cuts>>

\* socket.read of a whole piece.
Read(t) ==
  /\ Goto(t, "read", "put")
  /\ conns[sock[t]].down # <<>>
  /\ conns' = [conns EXCEPT ![sock[t]].down = Tail(@)]
  /\ response' = [response EXCEPT ![t] = Head(conns[sock[t]].down)]
  /\ UNCHANGED <<sock, ui, semVars, shared, cmd, Finish, cuts>>

\* A read ends at the end of an SSL record, which holds 16384 bytes, and at a
\* block whose last two characters look like the end of a message: the rest of
\* the answer is left for the next read.
ReadCut(t) ==
  /\ Goto(t, "read", "put")
  /\ conns[sock[t]].down # <<>>
  /\ cuts[t] < MaxCuts
  /\ cuts' = [cuts EXCEPT ![t] = @ + 1]
  /\ conns' = [conns EXCEPT ![sock[t]].down = <<Rest>> \o Tail(@)]
  /\ response' = [response EXCEPT ![t] = Head(conns[sock[t]].down)]
  /\ UNCHANGED <<sock, ui, semVars, shared, cmd, Finish>>

ReadingNothing(t) ==
  /\ connector[t] = "read"
  /\ conns[sock[t]].down = <<>>
  /\ conns[sock[t]].server = "closed"

\* SSL_read returns 0: the answer is the empty string.
ReadEnd(t) ==
  /\ ReadingNothing(t)
  /\ Goto(t, "read", "put")
  /\ response' = [response EXCEPT ![t] = Silence]
  /\ UNCHANGED <<conns, sock, ui, semVars, shared, cmd, Finish, cuts>>

\* SSL_read returns -1: exit(1).
ReadFails(t) == ReadingNothing(t) /\ Exit(t)

\* shared.Write.
Put(t) ==
  /\ Goto(t, "put", "go")
  /\ shared' = [shared EXCEPT ![t] = response[t]]
  /\ response' = [response EXCEPT ![t] = Nothing]
  /\ UNCHANGED <<conns, sock, ui, semVars, cmd, Finish, cuts>>

ConnectorGo(t) ==
  /\ Goto(t, "go", "wait")
  /\ Go(semUserInterface, t)
  /\ UNCHANGED <<conns, sock, ui, semConnector, shared,
                 response, cmd, Finish, cuts>>

\* socket.Close, and main has joined both threads.
Close(t) ==
  /\ connector[t] = "close"
  /\ ui[t] = "done"
  /\ Exit(t)

-----------------------------------------------------------------------------
\* What the threads do by themselves; connecting takes the server's TCP too.
ThreadStep(t) ==
  \/ UiStart(t) \/ UiGo(t) \/ UiWait(t) \/ Show(t) \/ UiFinish(t)
  \/ Handshake(t) \/ ConnectorWait(t) \/ Test(t)
  \/ Write(t) \/ WriteFails(t)
  \/ Read(t) \/ ReadCut(t) \/ ReadEnd(t) \/ ReadFails(t)
  \/ Put(t) \/ ConnectorGo(t) \/ Close(t)

\* The reader types a line, or ends the program with a signal.
UserStep(t) ==
  \/ \E command \in Commands : Type(t, command)
  \/ Run(t)
  \/ ui[t] # "off" /\ Exit(t)

-----------------------------------------------------------------------------
(* Properties. *)

\* The steps in which a thread may touch the shared memory, the command, the
\* socket or Finish.
UiTurn(t) == ui[t] \in {"type", "go", "show", "finish"}
ConnectorTurn(t) == connector[t] \notin {"off", "wait"}

One(condition) == IF condition THEN 1 ELSE 0

\* The threads take turns: at any time one of them is at work, or has handed
\* its turn over and the other has not woken up.  Neither can be in the shared
\* memory while the other is, and they never both wait.
TakeTurns ==
  \A t \in Terminals :
    ui[t] # "off" =>
      One(UiTurn(t)) + One(ConnectorTurn(t))
        + semUserInterface[t] + semConnector[t] = 1

\* What is sent is what was typed, what is shown is what came back, and a
\* command is sent when all that was answered before has been read, unless
\* reads have cut as many answers as there are pieces left.
AnswerBelongs ==
  \A t \in Terminals :
    /\ ui[t] = "show" => shared[t] \in Texts
    /\ connector[t] = "write" =>
         /\ shared[t] = cmd[t]
         /\ Len(conns[sock[t]].down) <= cuts[t]

=============================================================================
