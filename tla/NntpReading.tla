---------------------------- MODULE NntpReading ----------------------------
(***************************************************************************)
(* Readers at their clients, other programs, and the NNTP server: they     *)
(* share the connections.                                                  *)
(***************************************************************************)
EXTENDS NntpWire

CONSTANTS Terminals, MaxCuts, Backlog

VARIABLES
  conns,
  \* clients
  sock, ui, connector, semUserInterface, semConnector, shared, response, cmd,
  Finish, cuts,
  \* server
  backlog, server, client, command, answer, currentGroupName, lastNoticeId,
  sigpipe, directory, listing, ended, calm

C == INSTANCE NntpClient
S == INSTANCE NntpServer

ASSUME ReadingAssumption ==
  /\ MaxCuts \in Nat
  /\ Backlog \in Nat \ {0}
  /\ Nothing \notin S!Texts

clientVars == <<sock, ui, connector, semUserInterface, semConnector, shared,
                response, cmd, Finish, cuts>>
serverVarsButCalm == <<backlog, server, client, command, answer,
                       currentGroupName, lastNoticeId, sigpipe, directory,
                       listing, ended>>
vars == <<conns, clientVars, serverVarsButCalm, calm>>

Init == C!Init /\ S!Init

-----------------------------------------------------------------------------
\* A connector connects and TCP puts the connection in the server's backlog.
Connect(t) == \E c \in Conns : C!Connect(t, c) /\ S!Enqueue(c)

Refused(t) == C!ConnectFails(t) /\ S!Refuse

\* Any other step of a client; the history watches for clients that leave.
ClientAlone == S!WatchLeaving /\ UNCHANGED serverVarsButCalm

ThreadStep(t) ==
  \/ Connect(t) \/ Refused(t)
  \/ C!ThreadStep(t) /\ ClientAlone

UserStep(t) == C!UserStep(t) /\ ClientAlone

\* Programs of another kind.
OtherStep(c) ==
  /\ \A t \in Terminals : sock[t] # c
  /\ S!OtherStep(c)
  /\ UNCHANGED clientVars

Serve == S!Serve /\ UNCHANGED clientVars

ResetArrives(c) == S!ResetArrives(c) /\ UNCHANGED clientVars

Surroundings ==
  /\ S!Terminate \/ S!Start \/ S!Environment
  /\ UNCHANGED clientVars

Next ==
  \/ \E t \in Terminals : ThreadStep(t) \/ UserStep(t)
  \/ \E c \in Conns : OtherStep(c)
  \/ Serve
  \/ Surroundings

Spec == Init /\ [][Next]_vars

\* The threads and the server run, TCP tells of a reset.  Nothing is promised
\* of readers, of other programs, of the directory server.
Fairness ==
  /\ \A t \in Terminals : WF_vars(ThreadStep(t))
  /\ WF_vars(Serve)
  /\ \A c \in Conns : WF_vars(ResetArrives(c))

FairSpec == Spec /\ Fairness

-----------------------------------------------------------------------------
(* Properties. *)

\* Of commands and answers no more are left unread than answers were cut, and
\* one.
TypeOK ==
  /\ C!TypeOK
  /\ S!TypeOK
  /\ \A c \in Conns : Len(conns[c].up) + Len(conns[c].down) <= MaxCuts + 1

\* With the server at the other end as without.
TakeTurns == C!TakeTurns

\* With the server as it answers, dies and is started again.
AnswerBelongs == C!AnswerBelongs

\* QUIT alone on its line ends the client, whatever it is answered: both
\* threads, in either order, with the server gone or cut answers before.
QuitEnds ==
  \A t \in Terminals :
    (ui[t] = "go" /\ C!IsExit(cmd[t])) ~> ui[t] = "off"

=============================================================================
