-------------------------- MODULE NntpReadingProofs --------------------------
(***************************************************************************)
(* The client's two threads take turns, and what is sent and shown is what *)
(* belongs there, against the server as it answers, dies and is started    *)
(* again, for any number of readers, connections and cuts.                 *)
(*                                                                         *)
(* The server's part of the invariant is that of its own proofs: the steps *)
(* of the clients keep it.                                                 *)
(***************************************************************************)
EXTENDS NntpReading, TLAPS

SP == INSTANCE NntpServerProofs

-----------------------------------------------------------------------------
(* The two threads. *)

\* A command was typed and is handed over.
Handed(t) == shared[t] = cmd[t] /\ cmd[t] \in Commands

\* One process of two threads; the turn is with one of them, or is handed over.
Turns(t) ==
  /\ ui[t] = "off" <=> connector[t] = "off"
  /\ IF ui[t] = "off"
     THEN semUserInterface[t] = 0 /\ semConnector[t] = 0
     ELSE C!One(C!UiTurn(t)) + C!One(C!ConnectorTurn(t))
            + semUserInterface[t] + semConnector[t] = 1
  /\ connector[t] \in {"connect", "handshake"} => ui[t] = "start"
  /\ ui[t] = "start" => /\ connector[t] \in {"connect", "handshake", "wait"}
                        /\ semConnector[t] = 0
  /\ connector[t] = "test" => ui[t] \in {"wait", "done"}
  /\ connector[t] \in {"write", "read", "put", "go"} => ui[t] = "wait"
  /\ connector[t] = "close" => ui[t] = "done"
  /\ Finish[t] <=> ui[t] = "done"

\* What each turn is handed over with: a command, or a piece of an answer.
Contents(t) ==
  /\ \/ ui[t] = "go"
     \/ ui[t] = "wait" /\ (semConnector[t] = 1 \/ connector[t] \in {"test", "write"})
     => Handed(t)
  /\ connector[t] = "put" => response[t] \in C!Texts
  /\ \/ ui[t] = "show"
     \/ ui[t] = "wait" /\ (semUserInterface[t] = 1 \/ connector[t] = "go")
     => shared[t] \in C!Texts

ThreadTypes ==
  /\ sock \in [Terminals -> Conns \cup {NoConn}]
  /\ ui \in [Terminals -> C!UiSteps]
  /\ connector \in [Terminals -> C!ConnectorSteps]
  /\ semUserInterface \in [Terminals -> Nat]
  /\ semConnector \in [Terminals -> Nat]
  /\ shared \in [Terminals -> Commands \cup C!Texts \cup {Nothing}]
  /\ response \in [Terminals -> C!Texts \cup {Nothing}]
  /\ cmd \in [Terminals -> Commands \cup {Nothing}]
  /\ Finish \in [Terminals -> BOOLEAN]
  /\ cuts \in [Terminals -> 0..MaxCuts]

Threads == ThreadTypes /\ \A t \in Terminals : Turns(t) /\ Contents(t)

-----------------------------------------------------------------------------
(* The two programs on their connections. *)

\* A connector has a connection from its connect to its close, for itself.
Sockets ==
  \A t \in Terminals :
    /\ sock[t] = NoConn <=> connector[t] \in {"off", "connect"}
    /\ sock[t] # NoConn =>
         /\ conns[sock[t]].client = "open"
         /\ \A u \in Terminals : sock[u] = sock[t] => u = t

\* A command of this connection has been read and is not yet answered.
Working(c) == client = c /\ server \in {"answer", "next", "write"}

\* The commands and the pieces of answers on a connection.
Sent(c) == Len(conns[c].up)
Coming(c) == Len(conns[c].down)
Owed(c) == Sent(c) + Coming(c) + IF Working(c) THEN 1 ELSE 0

\* Each answer leaves one piece more than its client has read at most for each
\* cut, and no piece waits for who has left.
Owing ==
  /\ \A c \in Conns :
       /\ conns[c].client # "open" => conns[c].down = <<>>
       /\ conns[c].server = "closed" => conns[c].up = <<>>
       /\ Owed(c) <= MaxCuts + 1
  /\ \A t \in Terminals :
       sock[t] # NoConn =>
         Owed(sock[t]) <= cuts[t] + IF connector[t] = "read" THEN 1 ELSE 0

\* The inductive invariant.
IInv == SP!IInv /\ Threads /\ Sockets /\ Owing

-----------------------------------------------------------------------------
(* The instance made for the proofs is the instance of the model. *)

LEMMA Assumptions ==
  /\ SP!IdsAssumption /\ SP!GroupsAssumption /\ SP!DIMAssumption
  /\ SP!CommandsAssumption /\ SP!BacklogAssumption /\ SP!TextsAssumption
BY IdsAssumption, GroupsAssumption, DIMAssumption, CommandsAssumption,
   ReadingAssumption
   DEF IsFiniteSet, SP!IsFiniteSet, Verbs, SP!Verbs, Retrievals, SP!Retrievals,
       Arguments, SP!Arguments, Overlong, SP!Overlong, S!Texts, SP!Texts

LEMMA SameCardinality ==
  ASSUME NEW T
  PROVE  S!Cardinality(T) = SP!Cardinality(T)
BY DEF S!Cardinality, SP!Cardinality

LEMMA SameEntries ==
  ASSUME NEW d, NEW ids
  PROVE  S!Entries(d, ids) = SP!Entries(d, ids)
<1> DEFINE A(r) == CHOOSE i \in S!Places(d, ids) : S!Rank(d, ids, i) = r
           B(r) == CHOOSE i \in SP!Places(d, ids) : SP!Rank(d, ids, i) = r
<1>1. S!Places(d, ids) = SP!Places(d, ids)
  BY DEF S!Places, SP!Places
<1>2. ASSUME NEW i PROVE S!Rank(d, ids, i) = SP!Rank(d, ids, i)
  BY <1>1, SameCardinality DEF S!Rank, SP!Rank
<1>3. ASSUME NEW r PROVE A(r) = B(r)
  BY <1>1, <1>2
<1>4. S!Entries(d, ids) = [r \in 1..S!Cardinality(S!Places(d, ids)) |-> d[A(r)]]
  BY DEF S!Entries
<1>5. SP!Entries(d, ids) = [r \in 1..SP!Cardinality(SP!Places(d, ids)) |-> d[B(r)]]
  BY DEF SP!Entries
<1> HIDE DEF A, B
<1> QED BY <1>1, <1>3, <1>4, <1>5, SameCardinality

LEMMA SameSearches ==
  ASSUME NEW d, NEW value
  PROVE  /\ S!GetNoticeById(d, value) = SP!GetNoticeById(d, value)
         /\ S!GetNoticesByGroupName(d, value) = SP!GetNoticesByGroupName(d, value)
BY SameEntries
   DEF S!GetNoticeById, SP!GetNoticeById, S!WithId, SP!WithId, S!Last, SP!Last,
       S!GetNoticesByGroupName, SP!GetNoticesByGroupName, S!WithGroup,
       SP!WithGroup, S!InGroup, SP!InGroup, S!Pushed, SP!Pushed

LEMMA SameData ==
  /\ S!Directories = SP!Directories
  /\ S!Connections = Connections /\ SP!Connections = Connections
  /\ C!Connections = Connections
<1>1. S!Directories = SP!Directories
  BY SameCardinality
     DEF S!Directories, SP!Directories, S!BoundedSeq, SP!BoundedSeq, S!SeqOf,
         SP!SeqOf, S!IsInjective, SP!IsInjective
<1>2. /\ S!Connections = Connections /\ SP!Connections = Connections
      /\ C!Connections = Connections
  BY DEF Connections, ClientEnds, ServerEnds, Pieces, Answer, Rest,
         S!Connections, S!ClientEnds, S!ServerEnds, S!Pieces, S!Answer, S!Rest,
         SP!Connections, SP!ClientEnds, SP!ServerEnds, SP!Pieces, SP!Answer,
         SP!Rest,
         C!Connections, C!ClientEnds, C!ServerEnds, C!Pieces, C!Answer, C!Rest
<1> QED BY <1>1, <1>2

LEMMA SameConnections ==
  /\ SP!Free = Free /\ SP!Fresh = Fresh /\ C!Free = Free /\ C!Fresh = Fresh
  /\ \A c : C!ClientCloses(c) = ClientCloses(c)
  /\ \A c : SP!ClientCloses(c) = ClientCloses(c)
BY DEF Free, Fresh, ClientCloses, SP!Free, SP!Fresh, SP!ClientCloses, C!Free,
       C!Fresh, C!ClientCloses

LEMMA SameInit == S!Init <=> SP!Init
BY SameData
   DEF S!Init, S!Free, S!NullId, SP!Init, SP!Free, SP!NullId

LEMMA SameTypes == S!TypeOK <=> SP!TypeOK
BY SameData
   DEF S!TypeOK, S!ServerSteps, S!Texts, S!Blocks, S!Uninitialised,
       SP!TypeOK, SP!ServerSteps, SP!Texts, SP!Blocks, SP!Uninitialised

LEMMA SameServe == S!Serve <=> SP!Serve
<1> USE DEF S!globalVars, S!historyVars, S!Goto, S!Dies, S!EndProcess,
            S!ServerCloses, S!Free, SP!globalVars, SP!historyVars, SP!Goto,
            SP!Dies, SP!EndProcess, SP!ServerCloses, SP!Free
<1>1. /\ S!Accept <=> SP!Accept
      /\ S!Read <=> SP!Read
      /\ S!ReadTooLong <=> SP!ReadTooLong
      /\ S!ReadNothing <=> SP!ReadNothing
      /\ S!ReadNothingDies <=> SP!ReadNothingDies
  BY DEF S!Accept, S!Read, S!ReadTooLong, S!NothingToRead, S!ReadNothing,
         S!ReadNothingDies, S!Uninitialised, S!Overlong,
         SP!Accept, SP!Read, SP!ReadTooLong, SP!NothingToRead, SP!ReadNothing,
         SP!ReadNothingDies, SP!Uninitialised, SP!Overlong
<1>2. S!SetResponse <=> SP!SetResponse
  <2> USE DEF S!Say, S!ButCalm, S!Unchanged, S!SaveCurrentNoticeId,
              SP!Say, SP!ButCalm, SP!Unchanged, SP!SaveCurrentNoticeId
  <2>1. /\ S!RetrieveOutside <=> SP!RetrieveOutside
        /\ S!Retrieve <=> SP!Retrieve
    BY SameSearches
       DEF S!Retrievals, S!Retrieving, S!RetrieveOutside, S!Searching, S!Retrieve,
           SP!Retrievals, SP!Retrieving, SP!RetrieveOutside, SP!Searching,
           SP!Retrieve
  <2>2. /\ S!NextOutside <=> SP!NextOutside
        /\ S!NextFindsLast <=> SP!NextFindsLast
        /\ S!NextLosesLast <=> SP!NextLosesLast
        /\ S!NextWalks <=> SP!NextWalks
    BY SameSearches
       DEF S!Walking, S!NextOutside, S!SearchingLast, S!NextFindsLast,
           S!NextLosesLast, S!OlderThan, S!NextWalks, S!Range,
           SP!Walking, SP!NextOutside, SP!SearchingLast, SP!NextFindsLast,
           SP!NextLosesLast, SP!OlderThan, SP!NextWalks, SP!Range
  <2>3. /\ S!ListGroup <=> SP!ListGroup
        /\ S!ListGroupFails <=> SP!ListGroupFails
    BY SameSearches
       DEF S!Listing, S!Listed, S!ListGroup, S!ListGroupFails,
           S!SaveCurrentGroupName, S!StackTope, S!Last, S!PopAll, S!Reverse,
           SP!Listing, SP!Listed, SP!ListGroup, SP!ListGroupFails,
           SP!SaveCurrentGroupName, SP!StackTope, SP!Last, SP!PopAll, SP!Reverse
  <2>4. /\ S!ListNewsgroups <=> SP!ListNewsgroups
        /\ S!ListNewsgroupsDies <=> SP!ListNewsgroupsDies
        /\ S!Quit <=> SP!Quit
        /\ S!Otherwise <=> SP!Otherwise
    BY DEF S!ListingGroups, S!ListNewsgroups, S!ListNewsgroupsDies,
           S!GetNoticesGroups, S!Range, S!Quit, S!Otherwise,
           SP!ListingGroups, SP!ListNewsgroups, SP!ListNewsgroupsDies,
           SP!GetNoticesGroups, SP!Range, SP!Quit, SP!Otherwise
  <2> QED BY <2>1, <2>2, <2>3, <2>4 DEF S!SetResponse, SP!SetResponse
<1>3. (S!Unanswered <=> SP!Unanswered) /\ (S!NextDies <=> SP!NextDies)
  BY DEF S!Unanswered, S!Searching, S!Retrieving, S!Retrievals, S!SearchingLast,
         S!Walking, S!Listing, S!ListingGroups, S!Say, S!ButCalm, S!NextDies,
         SP!Unanswered, SP!Searching, SP!Retrieving, SP!Retrievals,
         SP!SearchingLast, SP!Walking, SP!Listing, SP!ListingGroups, SP!Say,
         SP!ButCalm, SP!NextDies
<1>4. /\ S!Write <=> SP!Write
      /\ S!BrokenPipe <=> SP!BrokenPipe
      /\ S!BrokenPipeKills <=> SP!BrokenPipeKills
      /\ S!EndSession <=> SP!EndSession
      /\ S!DoubleFree <=> SP!DoubleFree
      /\ S!CloseSession <=> SP!CloseSession
  BY DEF S!Write, S!IsQuit, S!Answered, S!Answer, S!BrokenPipe, S!BrokenPipeKills,
         S!EndSession, S!Freed, S!DoubleFree, S!CloseSession,
         SP!Write, SP!IsQuit, SP!Answered, SP!Answer, SP!BrokenPipe,
         SP!BrokenPipeKills, SP!EndSession, SP!Freed, SP!DoubleFree,
         SP!CloseSession
<1> QED BY <1>1, <1>2, <1>3, <1>4 DEF S!Serve, SP!Serve

LEMMA SameSurroundings ==
  /\ S!Terminate <=> SP!Terminate
  /\ S!Start <=> SP!Start
  /\ S!Environment <=> SP!Environment
  /\ \A c \in Conns : S!ResetArrives(c) <=> SP!ResetArrives(c)
<1>1. (S!Terminate <=> SP!Terminate) /\ (S!Start <=> SP!Start)
  BY DEF S!Terminate, S!EndProcess, S!ServerCloses, S!Free, S!globalVars, S!Start,
         S!Goto, S!NullId,
         SP!Terminate, SP!EndProcess, SP!ServerCloses, SP!Free, SP!globalVars,
         SP!Start, SP!Goto, SP!NullId
<1>2. \A c \in Conns : S!ResetArrives(c) <=> SP!ResetArrives(c)
  BY DEF S!ResetArrives, S!globalVars, S!historyVars, SP!ResetArrives,
         SP!globalVars, SP!historyVars
<1>3. S!NoticeStored <=> SP!NoticeStored
  BY DEF S!NoticeStored, S!readerVars, S!globalVars, S!historyVars, S!Range,
         SP!NoticeStored, SP!readerVars, SP!globalVars, SP!historyVars, SP!Range
<1> QED BY <1>1, <1>2, <1>3 DEF S!Environment, SP!Environment

LEMMA SameClients ==
  /\ \A c \in Conns : /\ S!Enqueue(c) <=> SP!Enqueue(c)
                      /\ S!OtherStep(c) <=> SP!OtherStep(c)
  /\ S!WatchLeaving <=> SP!WatchLeaving
  /\ S!Refuse => UNCHANGED <<serverVarsButCalm, calm>>
BY DEF S!Enqueue, S!OtherStep, S!OtherConnects, S!OtherSends, S!OtherReads,
       S!OtherLeaves, S!WatchLeaving, S!Finished, S!clientlessVars, S!globalVars,
       S!historyVars, S!Free, S!Fresh, S!ClientCloses, S!Refuse,
       SP!Enqueue, SP!OtherStep, SP!OtherConnects, SP!OtherSends, SP!OtherReads,
       SP!OtherLeaves, SP!WatchLeaving, SP!Finished, SP!clientlessVars,
       SP!globalVars, SP!historyVars, SP!Free, SP!Fresh, SP!ClientCloses,
       serverVarsButCalm
-----------------------------------------------------------------------------
(* Steps of the threads. *)

\* What a thread's step leaves alone of the other processes.
LEMMA OtherProcess ==
  ASSUME NEW u \in Terminals, Turns(u), Contents(u),
         ui'[u] = ui[u], connector'[u] = connector[u],
         semUserInterface'[u] = semUserInterface[u],
         semConnector'[u] = semConnector[u], shared'[u] = shared[u],
         response'[u] = response[u], cmd'[u] = cmd[u], Finish'[u] = Finish[u]
  PROVE  Turns(u)' /\ Contents(u)'
BY DEF Turns, Contents, Handed, C!UiTurn, C!ConnectorTurn, C!One

\* A process keeps its threads if it does so itself.
LEMMA OneProcess ==
  ASSUME Threads, NEW t \in Terminals, ThreadTypes',
         \A u \in Terminals \ {t} :
           /\ ui'[u] = ui[u] /\ connector'[u] = connector[u]
           /\ semUserInterface'[u] = semUserInterface[u]
           /\ semConnector'[u] = semConnector[u] /\ shared'[u] = shared[u]
           /\ response'[u] = response[u] /\ cmd'[u] = cmd[u]
           /\ Finish'[u] = Finish[u],
         Turns(t)', Contents(t)'
  PROVE  Threads'
BY OtherProcess DEF Threads

\* Whose turn it is excludes all others.
OneTurn(t) ==
  /\ semUserInterface[t] > 0 =>
       /\ semUserInterface[t] = 1 /\ semConnector[t] = 0
       /\ ~C!UiTurn(t) /\ connector[t] = "wait"
  /\ semConnector[t] > 0 =>
       /\ semConnector[t] = 1 /\ semUserInterface[t] = 0
       /\ ~C!UiTurn(t) /\ connector[t] = "wait"
  /\ C!UiTurn(t) =>
       /\ semUserInterface[t] = 0 /\ semConnector[t] = 0
       /\ connector[t] = "wait"
  /\ connector[t] # "wait" =>
       /\ semUserInterface[t] = 0 /\ semConnector[t] = 0
       /\ ~C!UiTurn(t)

LEMMA WhoseTurn ==
  ASSUME Threads, NEW t \in Terminals, ui[t] # "off"
  PROVE  OneTurn(t)
<1>1. /\ semUserInterface[t] \in Nat /\ semConnector[t] \in Nat
      /\ C!One(C!UiTurn(t)) + C!One(C!ConnectorTurn(t))
           + semUserInterface[t] + semConnector[t] = 1
      /\ connector[t] # "off"
  BY DEF Threads, ThreadTypes, Turns
<1>2. C!ConnectorTurn(t) <=> connector[t] # "wait"
  BY <1>1 DEF C!ConnectorTurn
<1>3. /\ C!One(C!UiTurn(t)) = IF C!UiTurn(t) THEN 1 ELSE 0
      /\ C!One(C!ConnectorTurn(t)) = IF connector[t] # "wait" THEN 1 ELSE 0
  BY <1>2 DEF C!One
<1> QED BY <1>1, <1>3 DEF OneTurn

LEMMA UiKeeps ==
  ASSUME Threads, NEW t \in Terminals,
         \/ C!UiStart(t) \/ C!UiGo(t) \/ C!UiWait(t) \/ C!Show(t) \/ C!UiFinish(t)
         \/ \E command_ \in Commands : C!Type(t, command_)
  PROVE  Threads'
<1> USE DEF C!UiGoto, C!Wait, C!Go, C!semVars
<1>1. ThreadTypes'
  <2> USE DEF Threads, ThreadTypes, C!UiSteps
  <2>1. CASE C!UiStart(t)
    BY <2>1 DEF C!UiStart
  <2>2. CASE C!UiGo(t)
    BY <2>2 DEF C!UiGo
  <2>3. CASE C!UiWait(t)
    BY <2>3 DEF C!UiWait
  <2>4. CASE C!Show(t)
    BY <2>4 DEF C!Show
  <2>5. CASE C!UiFinish(t)
    BY <2>5 DEF C!UiFinish
  <2>6. ASSUME NEW command_ \in Commands, C!Type(t, command_)
        PROVE  ThreadTypes'
    BY <2>6 DEF C!Type
  <2> QED BY <2>1, <2>2, <2>3, <2>4, <2>5, <2>6
<1>2. \A u \in Terminals \ {t} :
           /\ ui'[u] = ui[u] /\ connector'[u] = connector[u]
           /\ semUserInterface'[u] = semUserInterface[u]
           /\ semConnector'[u] = semConnector[u] /\ shared'[u] = shared[u]
           /\ response'[u] = response[u] /\ cmd'[u] = cmd[u]
           /\ Finish'[u] = Finish[u]
  BY DEF Threads, ThreadTypes, C!UiStart, C!UiGo, C!UiWait, C!Show,
         C!UiFinish, C!Type
<1>3. Turns(t)' /\ Contents(t)'
  <2>0. ui[t] # "off" => OneTurn(t)
    BY WhoseTurn
  <2> USE <2>0 DEF OneTurn, Threads, ThreadTypes, Turns, Contents, Handed, C!UiTurn,
              C!ConnectorTurn, C!One
  <2>1. CASE C!UiStart(t)
    BY <2>1 DEF C!UiStart
  <2>2. CASE C!UiGo(t)
    BY <2>2 DEF C!UiGo
  <2>3. CASE C!UiWait(t)
    BY <2>3 DEF C!UiWait
  <2>4. CASE C!Show(t)
    BY <2>4 DEF C!Show
  <2>5. CASE C!UiFinish(t)
    BY <2>5 DEF C!UiFinish
  <2>6. ASSUME NEW command_ \in Commands, C!Type(t, command_)
        PROVE  Turns(t)' /\ Contents(t)'
    BY <2>6 DEF C!Type
  <2> QED BY <2>1, <2>2, <2>3, <2>4, <2>5, <2>6
<1> QED BY <1>1, <1>2, <1>3, OneProcess

LEMMA ConnectorKeeps ==
  ASSUME Threads, Sockets, conns \in [Conns -> Connections], NEW t \in Terminals,
         \/ \E c \in Conns : C!Connect(t, c)
         \/ C!Handshake(t) \/ C!ConnectorWait(t) \/ C!Test(t) \/ C!Write(t)
         \/ C!Read(t) \/ C!ReadCut(t) \/ C!ReadEnd(t) \/ C!Put(t) \/ C!ConnectorGo(t)
  PROVE  Threads'
<1> USE DEF C!Goto, C!Wait, C!Go, C!semVars
<1>0. ASSUME C!Read(t) \/ C!ReadCut(t)
      PROVE  Head(conns[sock[t]].down) \in C!Texts
  <2>1. sock[t] \in Conns /\ conns[sock[t]].down # <<>>
    BY <1>0 DEF C!Read, C!ReadCut, Sockets, Threads, ThreadTypes
  <2>2. conns[sock[t]].down \in Seq(Pieces)
    BY <2>1 DEF Connections
  <2>3. Head(conns[sock[t]].down) \in Pieces
    BY <2>1, <2>2
  <2> QED BY <2>3 DEF C!Texts, C!Pieces, Pieces, C!Answer, C!Rest, Answer, Rest
<1>1. /\ ui' = ui /\ cmd' = cmd /\ Finish' = Finish
      /\ connector' \in [Terminals -> C!ConnectorSteps]
      /\ \A u \in Terminals \ {t} : connector'[u] = connector[u]
  BY DEF Threads, ThreadTypes, C!ConnectorSteps, C!Connect, C!Handshake,
         C!ConnectorWait, C!Test, C!Write, C!Read, C!ReadCut, C!ReadEnd, C!Put,
         C!ConnectorGo
<1>2. /\ semUserInterface' \in [Terminals -> Nat]
      /\ semConnector' \in [Terminals -> Nat]
      /\ \A u \in Terminals \ {t} : /\ semUserInterface'[u] = semUserInterface[u]
                                    /\ semConnector'[u] = semConnector[u]
  <2>1. CASE C!Handshake(t) \/ C!ConnectorGo(t)
    BY <2>1 DEF Threads, ThreadTypes, C!Handshake, C!ConnectorGo
  <2>2. CASE C!ConnectorWait(t)
    BY <2>2 DEF Threads, ThreadTypes, C!ConnectorWait
  <2>3. CASE ~(C!Handshake(t) \/ C!ConnectorGo(t) \/ C!ConnectorWait(t))
    BY <2>3 DEF Threads, ThreadTypes, C!Connect, C!Test, C!Write, C!Read,
       C!ReadCut, C!ReadEnd, C!Put
  <2> QED BY <2>1, <2>2, <2>3
<1>3. /\ shared' \in [Terminals -> Commands \cup C!Texts \cup {Nothing}]
      /\ response' \in [Terminals -> C!Texts \cup {Nothing}]
      /\ \A u \in Terminals \ {t} : /\ shared'[u] = shared[u]
                                    /\ response'[u] = response[u]
  <2>1. CASE C!Read(t) \/ C!ReadCut(t)
    <3>1. /\ shared' = shared
          /\ response' = [response EXCEPT ![t] = Head(conns[sock[t]].down)]
      BY <2>1 DEF C!Read, C!ReadCut
    <3> QED BY <1>0, <2>1, <3>1 DEF Threads, ThreadTypes
  <2>2. CASE C!ReadEnd(t)
    <3>1. C!Silence \in C!Texts
      BY DEF C!Texts
    <3> QED BY <2>2, <3>1 DEF Threads, ThreadTypes, C!ReadEnd
  <2>3. CASE C!Put(t)
    <3>1. response[t] \in C!Texts
      BY <2>3 DEF Threads, Contents, C!Put
    <3> QED BY <2>3, <3>1 DEF Threads, ThreadTypes, C!Put
  <2>4. CASE ~(C!Read(t) \/ C!ReadCut(t) \/ C!ReadEnd(t) \/ C!Put(t))
    BY <2>4 DEF Threads, ThreadTypes, C!Connect, C!Handshake, C!ConnectorWait,
       C!Test, C!Write, C!ConnectorGo
  <2> QED BY <2>1, <2>2, <2>3, <2>4
<1>4. /\ sock' \in [Terminals -> Conns \cup {NoConn}]
      /\ cuts' \in [Terminals -> 0..MaxCuts]
  <2>1. CASE C!ReadCut(t)
    BY <2>1, ReadingAssumption DEF Threads, ThreadTypes, C!ReadCut
  <2>2. CASE ~C!ReadCut(t)
    BY <2>2 DEF Threads, ThreadTypes, C!Connect, C!Handshake, C!ConnectorWait,
       C!Test, C!Write, C!Read, C!ReadEnd, C!Put, C!ConnectorGo
  <2> QED BY <2>1, <2>2
<1>5. ThreadTypes'
  BY <1>1, <1>2, <1>3, <1>4 DEF Threads, ThreadTypes
<1>6. Turns(t)' /\ Contents(t)'
  <2>0. ui[t] # "off" => OneTurn(t)
    BY WhoseTurn
  <2> USE <2>0 DEF OneTurn, Threads, ThreadTypes, Turns, Contents, Handed, C!UiTurn,
              C!ConnectorTurn, C!One
  <2>1. ASSUME NEW c \in Conns, C!Connect(t, c)
        PROVE  Turns(t)' /\ Contents(t)'
    BY <2>1 DEF C!Connect
  <2>2. CASE C!Handshake(t)
    BY <2>2 DEF C!Handshake
  <2>3. CASE C!ConnectorWait(t)
    <3>1. /\ ui[t] \in {"wait", "done"} /\ ui' = ui /\ connector'[t] = "test"
          /\ semUserInterface'[t] = 0 /\ semConnector'[t] = 0
          /\ semConnector[t] = 1 /\ Finish' = Finish /\ shared' = shared
          /\ cmd' = cmd
      <4>1. ui[t] # "off" /\ ui[t] \in C!UiSteps /\ semConnector[t] > 0
        BY <2>3 DEF C!ConnectorWait
      <4> QED BY <2>3, <4>1 DEF C!ConnectorWait, C!UiSteps
    <3> QED BY <3>1
  <2>4. CASE C!Test(t)
    BY <2>4 DEF C!Test
  <2>5. CASE C!Write(t)
    BY <2>5 DEF C!Write
  <2>6. CASE C!Read(t) \/ C!ReadCut(t)
    BY <1>0, <2>6 DEF C!Read, C!ReadCut
  <2>7. CASE C!ReadEnd(t)
    BY <2>7 DEF C!ReadEnd, C!Texts
  <2>8. CASE C!Put(t)
    BY <2>8 DEF C!Put
  <2>9. CASE C!ConnectorGo(t)
    BY <2>9 DEF C!ConnectorGo
  <2> QED BY <2>1, <2>2, <2>3, <2>4, <2>5, <2>6, <2>7, <2>8, <2>9
<1> QED BY <1>1, <1>2, <1>3, <1>5, <1>6, OneProcess

\* A process that starts, or is over.
LEMMA ProcessKeeps ==
  ASSUME Threads, NEW t \in Terminals, C!Run(t) \/ C!Exit(t)
  PROVE  Threads'
<1>1. ThreadTypes'
  <2>1. CASE C!Run(t)
    BY <2>1 DEF Threads, ThreadTypes, C!UiSteps, C!ConnectorSteps, C!Run,
       C!UiGoto, C!Goto
  <2>2. CASE C!Exit(t)
    BY <2>2, ReadingAssumption
       DEF Threads, ThreadTypes, C!UiSteps, C!ConnectorSteps, C!Exit
  <2> QED BY <2>1, <2>2
<1>2. \A u \in Terminals \ {t} :
           /\ ui'[u] = ui[u] /\ connector'[u] = connector[u]
           /\ semUserInterface'[u] = semUserInterface[u]
           /\ semConnector'[u] = semConnector[u] /\ shared'[u] = shared[u]
           /\ response'[u] = response[u] /\ cmd'[u] = cmd[u]
           /\ Finish'[u] = Finish[u]
  BY DEF Threads, ThreadTypes, C!Run, C!UiGoto, C!Goto, C!Exit
<1>3. Turns(t)' /\ Contents(t)'
  <2> USE DEF Threads, ThreadTypes, Turns, Contents, Handed, C!UiTurn,
              C!ConnectorTurn, C!One
  <2>1. CASE C!Run(t)
    BY <2>1 DEF C!Run, C!UiGoto, C!Goto
  <2>2. CASE C!Exit(t)
    BY <2>2 DEF C!Exit
  <2> QED BY <2>1, <2>2
<1> QED BY <1>1, <1>2, <1>3, OneProcess

LEMMA UnchangedThreads ==
  ASSUME Threads, UNCHANGED clientVars
  PROVE  Threads'
BY DEF clientVars, Threads, ThreadTypes, Turns, Contents, Handed, C!UiTurn,
       C!ConnectorTurn, C!One

-----------------------------------------------------------------------------
(* Steps of the server and of what surrounds it. *)

\* What such a step does to a connection: no client comes or leaves, and no
\* answer is owed that was not, but to who has left.
Eases(c) ==
  /\ conns'[c].client = "open" <=> conns[c].client = "open"
  /\ conns'[c].client # "open" => conns'[c].down = <<>>
  /\ conns'[c].server = "closed" => conns'[c].up = <<>>
  /\ \/ Owed(c)' <= Owed(c)
     \/ conns[c].client # "open" /\ Owed(c)' <= 1

LEMMA Lengths ==
  ASSUME conns \in [Conns -> Connections], NEW c \in Conns
  PROVE  /\ conns[c] \in Connections
         /\ conns[c].up \in Seq(Commands) /\ conns[c].down \in Seq(Pieces)
         /\ Sent(c) \in Nat /\ Coming(c) \in Nat /\ Owed(c) \in Nat
<1>1. conns[c] \in Connections
  OBVIOUS
<1>2. conns[c].up \in Seq(Commands) /\ conns[c].down \in Seq(Pieces)
  BY <1>1 DEF Connections
<1>3. Sent(c) \in Nat /\ Coming(c) \in Nat
  BY <1>2 DEF Sent, Coming
<1>4. Owed(c) \in Nat
  <2>1. CASE Working(c)
    BY <1>3, <2>1 DEF Owed
  <2>2. CASE ~Working(c)
    BY <1>3, <2>2 DEF Owed
  <2> QED BY <2>1, <2>2
<1> QED BY <1>1, <1>2, <1>3, <1>4

LEMMA Typed ==
  ASSUME SP!IInv
  PROVE  /\ conns \in [Conns -> Connections]
         /\ client \in Conns \cup {NoConn} /\ NoConn \notin Conns
         /\ server \notin {"accept", "down"} =>
              client \in Conns /\ conns[client].server = "open"
         /\ \A c \in Conns : Working(c) => conns[c].server = "open"
<1>1. /\ conns \in [Conns -> Connections]
      /\ client \in Conns \cup {NoConn} /\ NoConn \notin Conns
  BY SameData, CommandsAssumption DEF SP!IInv, SP!TypeOK
<1>2. server \notin {"accept", "down"} =>
        client \in Conns /\ conns[client].server = "open"
  BY <1>1 DEF SP!IInv, SP!Serving
<1> QED BY <1>1, <1>2 DEF Working

\* The connections stay as they are, and nobody is at work who was not.
LEMMA QuietEases ==
  ASSUME SP!IInv, Owing, UNCHANGED <<conns, client>>,
         server' \in {"answer", "next", "write"} =>
           server \in {"answer", "next", "write"},
         NEW c \in Conns
  PROVE  Eases(c)
<1>1. Working(c)' => Working(c)
  BY DEF Working
<1>2. /\ conns \in [Conns -> Connections]
      /\ Sent(c) \in Nat /\ Coming(c) \in Nat
  BY Typed, Lengths
<1>3. Sent(c)' = Sent(c) /\ Coming(c)' = Coming(c)
  BY DEF Sent, Coming
<1>4. Owed(c)' <= Owed(c)
  BY <1>1, <1>2, <1>3 DEF Owed
<1> QED BY <1>4 DEF Owing, Eases

\* The server's end is closed.
LEMMA ClosingEases ==
  ASSUME SP!IInv, Owing, NEW c \in Conns, ~Working(c)',
         conns'[c] = ServerCloses(conns[c])
  PROVE  Eases(c)
<1> DEFINE k == conns[c]
<1>1. /\ k \in Connections /\ k.up \in Seq(Commands) /\ k.down \in Seq(Pieces)
      /\ Sent(c) \in Nat /\ Coming(c) \in Nat /\ Owed(c) \in Nat
  BY Typed, Lengths
<1>2. CASE k.client # "open"
  <2>1. conns'[c] = Free
    BY <1>2 DEF ServerCloses
  <2>2. Owed(c)' = 0
    BY <2>1 DEF Owed, Sent, Coming, Free
  <2> QED BY <1>1, <1>2, <2>1, <2>2 DEF Eases, Free
<1>3. CASE k.client = "open"
  <2>1. /\ conns'[c].client = "open" /\ conns'[c].up = <<>>
        /\ conns'[c].down \in {k.down, <<>>}
    BY <1>1, <1>3 DEF ServerCloses, Connections
  <2>2. Sent(c)' = 0 /\ Coming(c)' \in {Coming(c), 0}
    BY <2>1 DEF Sent, Coming
  <2>3. Owed(c)' <= Owed(c)
    BY <1>1, <2>2 DEF Owed
  <2> QED BY <1>3, <2>1, <2>3 DEF Eases
<1> QED BY <1>2, <1>3

\* Nothing happens to the other connections.
LEMMA RestEases ==
  ASSUME SP!IInv, Owing, NEW c \in Conns, conns'[c] = conns[c],
         Working(c)' => Working(c)
  PROVE  Eases(c)
<1>1. /\ conns \in [Conns -> Connections]
      /\ Sent(c) \in Nat /\ Coming(c) \in Nat
  BY Typed, Lengths
<1>2. Sent(c)' = Sent(c) /\ Coming(c)' = Coming(c)
  BY DEF Sent, Coming
<1>3. Owed(c)' <= Owed(c)
  BY <1>1, <1>2 DEF Owed
<1> QED BY <1>3 DEF Owing, Eases

LEMMA EndProcessEases ==
  ASSUME SP!IInv, Owing, SP!EndProcess, NEW c \in Conns
  PROVE  Eases(c)
<1>1. ~Working(c)'
  BY DEF SP!EndProcess, Working
<1>2. conns'[c] = IF conns[c].server \in {"queued", "open"}
                  THEN SP!ServerCloses(conns[c]) ELSE conns[c]
  BY DEF SP!EndProcess
<1>3. SP!ServerCloses(conns[c]) = ServerCloses(conns[c])
  BY DEF SP!ServerCloses, ServerCloses, SP!Free, Free
<1> QED BY <1>1, <1>2, <1>3, ClosingEases, RestEases

LEMMA AcceptEases ==
  ASSUME SP!IInv, Owing, SP!Accept, NEW c \in Conns
  PROVE  Eases(c)
<1>1. /\ server = "accept" /\ server' \in {"read", "close"}
      /\ conns' = [conns EXCEPT ![Head(backlog)].server = "open"]
  BY DEF SP!Accept
<1>2. ~Working(c) /\ ~Working(c)'
  BY <1>1 DEF Working
<1>3. conns \in [Conns -> Connections] /\ conns[c] \in Connections
  BY Typed, Lengths
<1>4. CASE c = Head(backlog)
  <2>1. /\ conns'[c].client = conns[c].client /\ conns'[c].up = conns[c].up
        /\ conns'[c].down = conns[c].down /\ conns'[c].server = "open"
    BY <1>1, <1>3, <1>4 DEF Connections
  <2>2. Owed(c)' = Owed(c) /\ Owed(c) \in Nat
    BY <1>2, <1>3, <2>1, Lengths DEF Owed, Sent, Coming
  <2> QED BY <2>1, <2>2 DEF Eases, Owing
<1>5. CASE c # Head(backlog)
  BY <1>1, <1>2, <1>3, <1>5, RestEases
<1> QED BY <1>4, <1>5

LEMMA ReadEases ==
  ASSUME SP!IInv, Owing, SP!Read \/ SP!ReadTooLong \/ SP!ReadNothing,
         NEW c \in Conns
  PROVE  Eases(c)
<1>1. /\ server = "read" /\ server' \in {"answer", "write"} /\ client' = client
      /\ client \in Conns /\ conns \in [Conns -> Connections]
  BY Typed DEF SP!Read, SP!ReadTooLong, SP!NothingToRead, SP!ReadNothing, SP!Goto
<1>2. ~Working(c)
  BY <1>1 DEF Working
<1>3. CASE c # client
  <2>1. conns'[c] = conns[c] /\ ~Working(c)'
    BY <1>1, <1>3 DEF Working, SP!Read, SP!ReadTooLong, SP!ReadNothing
  <2> QED BY <2>1, RestEases
<1>4. CASE c = client /\ SP!ReadNothing
  <2>1. conns' = conns /\ conns[c].up = <<>> /\ conns[c].client # "open"
    BY <1>4 DEF SP!ReadNothing, SP!NothingToRead
  <2>2. conns[c].down = <<>>
    BY <2>1 DEF Owing
  <2>3. Owed(c)' <= 1
    BY <2>1, <2>2 DEF Owed, Sent, Coming
  <2> QED BY <2>1, <2>2, <2>3 DEF Eases
<1>5. CASE c = client /\ (SP!Read \/ SP!ReadTooLong)
  <2>1. conns' = [conns EXCEPT ![client].up = Tail(@)] /\ conns[c].up # <<>>
    BY <1>5 DEF SP!Read, SP!ReadTooLong
  <2>2. /\ conns[c] \in Connections /\ conns[c].up \in Seq(Commands)
        /\ Sent(c) \in Nat /\ Coming(c) \in Nat
    BY <1>1, Lengths
  <2>3. /\ conns'[c].client = conns[c].client
        /\ conns'[c].server = conns[c].server
        /\ conns'[c].up = Tail(conns[c].up) /\ conns'[c].down = conns[c].down
    BY <1>1, <1>5, <2>1, <2>2 DEF Connections
  <2>4. Sent(c) = Sent(c)' + 1 /\ Sent(c)' \in Nat /\ Coming(c)' = Coming(c)
    <3>1. ASSUME NEW s \in Seq(Commands), s # <<>>
          PROVE  Len(s) = Len(Tail(s)) + 1 /\ Len(Tail(s)) \in Nat
      BY <3>1
    <3> QED BY <1>5, <2>1, <2>2, <2>3, <3>1 DEF Sent, Coming
  <2>5. conns[c].server = "open"
    BY <1>1, <1>5, Typed
  <2>6. Owed(c)' <= Owed(c)
    BY <1>2, <2>2, <2>4 DEF Owed
  <2> QED BY <2>3, <2>5, <2>6 DEF Eases, Owing
<1> QED BY <1>3, <1>4, <1>5

LEMMA WriteEases ==
  ASSUME SP!IInv, Owing, SP!Write, NEW c \in Conns
  PROVE  Eases(c)
<1>1. /\ server = "write" /\ server' \in {"end", "read"} /\ client' = client
      /\ client \in Conns /\ conns \in [Conns -> Connections]
      /\ conns' = [conns EXCEPT ![client] = SP!Answered(@)]
      /\ conns[client].server = "open"
  BY Typed DEF SP!Write, SP!Goto
<1>2. ~Working(c)'
  BY <1>1 DEF Working
<1>3. CASE c # client
  BY <1>1, <1>2, <1>3, RestEases
<1>4. CASE c = client
  <2>1. /\ conns[c] \in Connections /\ conns[c].down \in Seq(Pieces)
        /\ Sent(c) \in Nat /\ Coming(c) \in Nat
        /\ Answer \in Pieces
    BY <1>1, Lengths DEF Pieces
  <2>2. conns'[c] = Answered(conns[c])
    BY <1>1, <1>4 DEF SP!Answered, Answered, SP!Answer, Answer
  <2>3. Working(c) 
    BY <1>1, <1>2, <1>4 DEF Working
  <2>4. CASE conns[c].client = "open"
    <3>1. /\ conns'[c].client = "open" /\ conns'[c].server = "open"
          /\ conns'[c].up = conns[c].up
          /\ conns'[c].down = Append(conns[c].down, Answer)
      BY <1>1, <1>4, <2>1, <2>2, <2>4 DEF Answered, Connections
    <3>2. Coming(c)' = Coming(c) + 1 /\ Sent(c)' = Sent(c)
      <4>1. ASSUME NEW s \in Seq(Pieces)
            PROVE  Len(Append(s, Answer)) = Len(s) + 1
        BY <2>1
      <4> QED BY <2>1, <3>1, <4>1 DEF Sent, Coming
    <3>3. Owed(c)' <= Owed(c)
      BY <1>2, <2>1, <2>3, <3>2 DEF Owed
    <3> QED BY <2>4, <3>1, <3>3 DEF Eases
  <2>5. CASE conns[c].client # "open"
    <3>1. /\ conns'[c].client # "open" /\ conns'[c].server = "open"
          /\ conns'[c].up = conns[c].up /\ conns'[c].down = conns[c].down
      BY <1>1, <1>4, <2>1, <2>2, <2>5 DEF Answered, Connections
    <3>2. Coming(c)' = Coming(c) /\ Sent(c)' = Sent(c)
      BY <3>1 DEF Sent, Coming
    <3>3. Owed(c)' <= Owed(c)
      BY <1>2, <2>1, <2>3, <3>2 DEF Owed
    <3> QED BY <2>5, <3>1, <3>3 DEF Eases, Owing
  <2> QED BY <2>4, <2>5
<1> QED BY <1>3, <1>4

LEMMA ResetEases ==
  ASSUME SP!IInv, Owing, NEW e \in Conns, SP!ResetArrives(e), NEW c \in Conns
  PROVE  Eases(c)
<1>1. /\ conns[e].client = "resetting" /\ UNCHANGED <<client, server>>
      /\ conns' = [conns EXCEPT ![e].client = "reset"]
      /\ conns \in [Conns -> Connections]
  BY Typed DEF SP!ResetArrives
<1>2. /\ conns[c] \in Connections /\ Owed(c) \in Nat
  BY <1>1, Lengths
<1>3. /\ conns'[c].up = conns[c].up /\ conns'[c].down = conns[c].down
      /\ conns'[c].server = conns[c].server
      /\ conns'[c].client = "open" <=> conns[c].client = "open"
  BY <1>1, <1>2 DEF Connections
<1>4. Owed(c)' = Owed(c)
  BY <1>1, <1>3 DEF Owed, Sent, Coming, Working
<1> QED BY <1>2, <1>3, <1>4 DEF Eases, Owing

\* After the step a number is a number.
LEMMA LengthsAfter ==
  ASSUME conns' \in [Conns -> Connections], NEW c \in Conns
  PROVE  /\ Sent(c)' \in Nat /\ Coming(c)' \in Nat /\ Owed(c)' \in Nat
<1>1. conns'[c].up \in Seq(Commands) /\ conns'[c].down \in Seq(Pieces)
  BY DEF Connections
<1>2. Sent(c)' \in Nat /\ Coming(c)' \in Nat
  BY <1>1 DEF Sent, Coming
<1>3. CASE Working(c)'
  BY <1>2, <1>3 DEF Owed
<1>4. CASE ~Working(c)'
  BY <1>2, <1>4 DEF Owed
<1> QED BY <1>2, <1>3, <1>4

LEMMA ResponseEases ==
  ASSUME SP!IInv, Owing, SP!SetResponse \/ SP!Unanswered, NEW c \in Conns
  PROVE  Eases(c)
<1> USE DEF SP!ButCalm, SP!Unchanged, SP!Goto, SP!Say
<1>1. CASE SP!ListNewsgroupsDies
  BY <1>1, EndProcessEases DEF SP!ListNewsgroupsDies, SP!Dies
<1>2. CASE SP!NextWalks
  BY <1>2, QuietEases DEF SP!NextWalks
<1>3. CASE SP!ListGroup \/ SP!ListGroupFails \/ SP!ListNewsgroups
  BY <1>3, QuietEases
     DEF SP!Listing, SP!ListGroup, SP!ListGroupFails, SP!ListingGroups,
         SP!ListNewsgroups
<1>4. CASE SP!RetrieveOutside \/ SP!Retrieve
  BY <1>4, QuietEases
     DEF SP!RetrieveOutside, SP!Searching, SP!Retrieve, SP!Retrieving
<1>5. CASE SP!NextOutside \/ SP!NextFindsLast \/ SP!NextLosesLast
  BY <1>5, QuietEases
     DEF SP!NextOutside, SP!SearchingLast, SP!NextFindsLast, SP!NextLosesLast,
         SP!Walking
<1>6. CASE SP!Quit \/ SP!Otherwise
  BY <1>6, QuietEases DEF SP!Quit, SP!Otherwise
<1>7. CASE SP!Unanswered
  BY <1>7, QuietEases
     DEF SP!Unanswered, SP!Searching, SP!Retrieving, SP!SearchingLast,
         SP!Walking, SP!Listing, SP!ListingGroups
<1> QED BY <1>1, <1>2, <1>3, <1>4, <1>5, <1>6, <1>7 DEF SP!SetResponse

LEMMA ServerEases ==
  ASSUME SP!IInv, Owing,
         SP!Serve \/ SP!Terminate \/ SP!Start \/ SP!Environment,
         NEW c \in Conns
  PROVE  Eases(c)
<1>1. CASE SP!Terminate \/ SP!NextDies \/ SP!ReadNothingDies
           \/ SP!BrokenPipeKills \/ SP!DoubleFree
  <2>1. SP!EndProcess
    BY <1>1 DEF SP!Terminate, SP!NextDies, SP!ReadNothingDies,
       SP!BrokenPipeKills, SP!DoubleFree, SP!Dies
  <2> QED BY <2>1, EndProcessEases
<1>2. CASE SP!CloseSession \/ SP!BrokenPipe
  <2>1. /\ server' = "accept" /\ server \in {"close", "write"}
        /\ conns' = [conns EXCEPT ![client] = SP!ServerCloses(@)]
    BY <1>2 DEF SP!CloseSession, SP!BrokenPipe, SP!Goto
  <2>2. /\ client \in Conns /\ conns \in [Conns -> Connections]
        /\ ~Working(c)'
    BY <2>1, Typed DEF Working
  <2>3. SP!ServerCloses(conns[client]) = ServerCloses(conns[client])
    BY DEF SP!ServerCloses, ServerCloses, SP!Free, Free
  <2>4. conns'[c] = ServerCloses(conns[c]) \/ conns'[c] = conns[c]
    BY <2>1, <2>2, <2>3
  <2> QED BY <2>2, <2>4, ClosingEases, RestEases
<1>3. CASE SP!EndSession
  BY <1>3, QuietEases DEF SP!EndSession, SP!Goto
<1>4. CASE SP!Start
  BY <1>4, QuietEases DEF SP!Start, SP!Goto
<1>5. CASE SP!Environment
  <2>1. CASE SP!NoticeStored
    BY <2>1, QuietEases DEF SP!NoticeStored, SP!readerVars
  <2> QED BY <1>5, <2>1, ResetEases DEF SP!Environment
<1> QED BY <1>1, <1>2, <1>3, <1>4, <1>5, AcceptEases, ReadEases, ResponseEases,
           WriteEases
       DEF SP!Serve

LEMMA EasesKeep ==
  ASSUME SP!IInv, SP!IInv', Sockets, Owing, Threads, UNCHANGED clientVars,
         \A c \in Conns : Eases(c)
  PROVE  Sockets' /\ Owing'
<1>1. /\ conns \in [Conns -> Connections]
      /\ conns' \in [Conns -> Connections]
      /\ MaxCuts \in Nat /\ NoConn \notin Conns
  BY SameData, CommandsAssumption, ReadingAssumption DEF SP!IInv, SP!TypeOK
<1>2. \A c \in Conns : Owed(c) \in Nat /\ Owed(c)' \in Nat
  BY <1>1, Lengths, LengthsAfter
<1>3. /\ UNCHANGED <<sock, connector, cuts>>
      /\ sock \in [Terminals -> Conns \cup {NoConn}]
      /\ cuts \in [Terminals -> 0..MaxCuts]
  BY DEF clientVars, Threads, ThreadTypes
<1>4. Sockets'
  BY <1>3 DEF Sockets, Eases
<1>5. ASSUME NEW c \in Conns
      PROVE  /\ conns'[c].client # "open" => conns'[c].down = <<>>
             /\ conns'[c].server = "closed" => conns'[c].up = <<>>
             /\ Owed(c)' <= MaxCuts + 1
  BY <1>1, <1>2 DEF Eases, Owing
<1>6. ASSUME NEW t \in Terminals, sock[t] # NoConn
      PROVE  Owed(sock[t])' <= cuts[t] + IF connector[t] = "read" THEN 1 ELSE 0
  <2>1. sock[t] \in Conns /\ conns[sock[t]].client = "open" /\ Eases(sock[t])
    BY <1>3, <1>6 DEF Sockets
  <2>2. Owed(sock[t])' <= Owed(sock[t])
    BY <1>3, <2>1 DEF Eases
  <2>3. Owed(sock[t]) <= cuts[t] + IF connector[t] = "read" THEN 1 ELSE 0
    BY <1>6 DEF Owing
  <2> QED BY <1>2, <1>3, <2>1, <2>2, <2>3
<1> QED BY <1>3, <1>4, <1>5, <1>6 DEF Owing
-----------------------------------------------------------------------------
(* Steps of the clients: the server's invariant. *)

LEMMA QuietClient ==
  ASSUME SP!IInv, UNCHANGED <<conns, serverVarsButCalm>>,
         S!WatchLeaving \/ UNCHANGED calm
  PROVE  SP!IInv'
<1>1. calm \in BOOLEAN
  BY DEF SP!IInv, SP!TypeOK
<1>2. calm' = calm
  BY <1>1 DEF S!WatchLeaving
<1>3. UNCHANGED SP!vars
  BY <1>2 DEF serverVarsButCalm, SP!vars, SP!globalVars, SP!historyVars
<1> QED BY <1>3, Assumptions, SP!StutterKeeps

LEMMA ClientAtOne ==
  ASSUME SP!IInv, NEW c \in Conns, NEW d \in Connections,
         conns' = [conns EXCEPT ![c] = d],
         \/ d.server = conns[c].server
         \/ conns[c].server = "closed" /\ d.server = "none",
         UNCHANGED serverVarsButCalm, S!WatchLeaving
  PROVE  SP!IInv'
<1>1. conns \in [Conns -> Connections] /\ calm \in BOOLEAN
  BY SameData DEF SP!IInv, SP!TypeOK
<1>2. conns'[c] = d
  BY <1>1
<1>3. SP!WatchLeaving
  BY SameClients
<1>4. /\ calm' \in BOOLEAN
      /\ calm' => calm
      /\ calm' /\ conns[c].client = "open" /\ d.client # "open" => SP!Finished(c)
  BY <1>1, <1>2, <1>3 DEF SP!WatchLeaving
<1>5. UNCHANGED <<SP!clientlessVars, backlog>>
  BY DEF serverVarsButCalm, SP!clientlessVars, SP!globalVars
<1>6. SP!Connections = Connections
  BY SameData
<1> QED BY <1>4, <1>5, <1>6, Assumptions, SP!ClientKeeps

-----------------------------------------------------------------------------
(* Steps of the clients and of other programs: what is owed. *)

\* The variables that decide what is owed are typed.
LEMMA OwingTyped ==
  ASSUME SP!IInv, Threads
  PROVE  /\ conns \in [Conns -> Connections]
         /\ MaxCuts \in Nat /\ NoConn \notin Conns
         /\ sock \in [Terminals -> Conns \cup {NoConn}]
         /\ connector \in [Terminals -> C!ConnectorSteps]
         /\ cuts \in [Terminals -> 0..MaxCuts]
         /\ \A c \in Conns : Owed(c) \in Nat
BY Typed, Lengths, ReadingAssumption DEF Threads, ThreadTypes

LEMMA OthersOwe ==
  ASSUME conns \in [Conns -> Connections], NEW c \in Conns, NEW d,
         conns' = [conns EXCEPT ![c] = d], UNCHANGED <<client, server>>
  PROVE  \A e \in Conns \ {c} : conns'[e] = conns[e] /\ Owed(e)' = Owed(e)
BY DEF Owed, Sent, Coming, Working

\* Who leaves is owed no answer but to a command that is being answered.
LEMMA LeavingOwes ==
  ASSUME SP!IInv, Owing, NEW c \in Conns, UNCHANGED <<client, server>>,
         conns'[c] = ClientCloses(conns[c])
  PROVE  /\ conns'[c].client # "open" /\ conns'[c].down = <<>>
         /\ conns'[c].server = "closed" => conns'[c].up = <<>>
         /\ Owed(c)' <= MaxCuts + 1
<1>1. /\ conns[c] \in Connections /\ Owed(c) \in Nat /\ MaxCuts \in Nat
      /\ Owed(c) <= MaxCuts + 1
  BY Typed, Lengths, ReadingAssumption DEF Owing
<1>2. CASE conns[c].server = "closed" \/ conns[c].down # <<>>
  <2>1. /\ conns'[c].client # "open" /\ conns'[c].down = <<>>
        /\ conns'[c].up = <<>>
    BY <1>1, <1>2 DEF ClientCloses, Connections, Free
  <2>2. Sent(c)' = 0 /\ Coming(c)' = 0
    BY <2>1 DEF Sent, Coming
  <2>3. Owed(c)' <= 1
    BY <2>2 DEF Owed
  <2> QED BY <1>1, <2>1, <2>2, <2>3 DEF Owed
<1>3. CASE conns[c].server # "closed" /\ conns[c].down = <<>>
  <2>1. /\ conns'[c].client # "open" /\ conns'[c].down = conns[c].down
        /\ conns'[c].up = conns[c].up /\ conns'[c].server # "closed"
    BY <1>1, <1>3 DEF ClientCloses, Connections
  <2>2. Owed(c)' = Owed(c)
    BY <2>1 DEF Owed, Sent, Coming, Working
  <2> QED BY <1>1, <1>3, <2>1, <2>2
<1> QED BY <1>2, <1>3

LEMMA OtherPrograms ==
  ASSUME SP!IInv, Sockets, Owing, Threads, NEW c \in Conns,
         \A t \in Terminals : sock[t] # c, SP!OtherStep(c), UNCHANGED clientVars
  PROVE  Sockets' /\ Owing'
<1> USE OwingTyped
<1>1. UNCHANGED <<client, server, sock, connector, cuts>>
  BY DEF clientVars, SP!OtherStep, SP!OtherConnects, SP!Enqueue, SP!OtherSends,
     SP!OtherReads, SP!OtherLeaves, SP!clientlessVars
<1>2. PICK d : conns' = [conns EXCEPT ![c] = d]
  <2>1. CASE SP!OtherConnects(c)
    BY <2>1 DEF SP!OtherConnects
  <2>2. CASE SP!OtherSends(c)
    BY <2>2 DEF SP!OtherSends
  <2>3. CASE SP!OtherReads(c)
    BY <2>3 DEF SP!OtherReads
  <2>4. CASE SP!OtherLeaves(c)
    BY <2>4 DEF SP!OtherLeaves
  <2> QED BY <2>1, <2>2, <2>3, <2>4 DEF SP!OtherStep
<1>3. \A e \in Conns \ {c} : conns'[e] = conns[e] /\ Owed(e)' = Owed(e)
  BY <1>1, <1>2, OthersOwe
<1>4. /\ conns'[c].client # "open" => conns'[c].down = <<>>
      /\ conns'[c].server = "closed" => conns'[c].up = <<>>
      /\ Owed(c)' <= MaxCuts + 1
  <2>0. conns[c] \in Connections /\ Sent(c) \in Nat /\ Coming(c) \in Nat
    BY Lengths
  <2>1. CASE SP!OtherConnects(c)
    <3>1. conns[c].server = "none" /\ conns'[c] = Fresh
      BY <2>1, SameConnections DEF SP!OtherConnects, Free
    <3>2. ~Working(c)'
      BY <1>1, <3>1, Typed DEF Working
    <3>3. Owed(c)' = 0
      BY <3>1, <3>2 DEF Fresh, Owed, Sent, Coming
    <3> QED BY <3>1, <3>3 DEF Fresh
  <2>2. CASE SP!OtherSends(c)
    <3>1. /\ conns[c].client = "open" /\ conns[c].down = <<>>
          /\ client = c /\ server = "read"
          /\ \E cmd_ \in Commands : conns' = [conns EXCEPT ![c].up = <<cmd_>>]
      BY <2>2 DEF SP!OtherSends
    <3>2. /\ conns'[c].client = "open" /\ conns'[c].down = <<>>
          /\ conns'[c].server = conns[c].server /\ Len(conns'[c].up) = 1
      BY <2>0, <3>1 DEF Connections
    <3>3. conns[c].server = "open" /\ ~Working(c)'
      BY <1>1, <3>1, Typed DEF Working
    <3>4. Sent(c)' = 1 /\ Coming(c)' = 0
      BY <3>2 DEF Sent, Coming
    <3>5. Owed(c)' = 1
      BY <3>3, <3>4 DEF Owed
    <3> QED BY <3>2, <3>3, <3>5
  <2>3. CASE SP!OtherReads(c)
    <3>1. conns' = [conns EXCEPT ![c].down = <<>>]
      BY <2>3 DEF SP!OtherReads
    <3>2. /\ conns'[c].down = <<>> /\ conns'[c].up = conns[c].up
          /\ conns'[c].server = conns[c].server
      BY <2>0, <3>1 DEF Connections
    <3>3. Sent(c)' = Sent(c) /\ Coming(c)' = 0
      BY <3>2 DEF Sent, Coming
    <3>4. Owed(c)' <= Owed(c) /\ Owed(c)' \in Nat
      <4>1. Working(c)' <=> Working(c)
        BY <1>1 DEF Working
      <4> QED BY <2>0, <3>3, <4>1 DEF Owed
    <3>5. Owed(c) <= MaxCuts + 1
      BY DEF Owing
    <3>6. Owed(c)' <= MaxCuts + 1
      BY <3>4, <3>5
    <3> QED BY <3>2, <3>6 DEF Owing
  <2>4. CASE SP!OtherLeaves(c)
    <3>1. conns'[c] = ClientCloses(conns[c])
      BY <2>4, SameConnections DEF SP!OtherLeaves
    <3> QED BY <1>1, <3>1, LeavingOwes
  <2> QED BY <2>1, <2>2, <2>3, <2>4 DEF SP!OtherStep
<1>5. Sockets'
  BY <1>1, <1>3 DEF Sockets
<1>6. ASSUME NEW t \in Terminals, sock[t] # NoConn
      PROVE  Owed(sock[t])' <= cuts[t] + IF connector[t] = "read" THEN 1 ELSE 0
  <2>1. Owed(sock[t])' = Owed(sock[t])
    BY <1>1, <1>3, <1>6
  <2> QED BY <1>6, <2>1 DEF Owing
<1> QED BY <1>1, <1>3, <1>4, <1>5, <1>6 DEF Owing

\* A thread's step that leaves the connections alone.
LEMMA ThreadAlone ==
  ASSUME SP!IInv, Sockets, Owing, Threads, NEW t \in Terminals, NEW x,
         UNCHANGED <<conns, client, server, sock, cuts>>,
         connector' = [connector EXCEPT ![t] = x],
         x \in {"off", "connect"} <=> connector[t] \in {"off", "connect"},
         sock[t] # NoConn /\ x # "read" => Owed(sock[t]) <= cuts[t]
  PROVE  Sockets' /\ Owing'
<1> USE OwingTyped
<1>1. /\ connector'[t] = x
      /\ \A u \in Terminals \ {t} : connector'[u] = connector[u]
  OBVIOUS
<1>2. Sockets'
  BY <1>1 DEF Sockets
<1>3. \A c \in Conns : Owed(c)' = Owed(c)
  BY DEF Owed, Sent, Coming, Working
<1>4. ASSUME NEW u \in Terminals, sock[u] # NoConn
      PROVE  Owed(sock[u])' <= cuts[u] + IF connector'[u] = "read" THEN 1 ELSE 0
  <2>1. Owed(sock[u])' = Owed(sock[u]) /\ Owed(sock[u]) \in Nat
    BY <1>3, <1>4
  <2>2. Owed(sock[u]) <= cuts[u] + IF connector[u] = "read" THEN 1 ELSE 0
    BY <1>4 DEF Owing
  <2>3. CASE u = t /\ x # "read"
    BY <1>1, <1>4, <2>1, <2>3
  <2>4. CASE u = t /\ x = "read"
    BY <1>1, <2>1, <2>2, <2>4
  <2>5. CASE u # t
    BY <1>1, <2>1, <2>2, <2>5
  <2> QED BY <2>3, <2>4, <2>5
<1>5. \A u \in Terminals : sock'[u] # NoConn =>
        Owed(sock[u])' <= cuts'[u] + IF connector'[u] = "read" THEN 1 ELSE 0
  BY <1>4
<1> QED BY <1>2, <1>3, <1>5 DEF Owing

\* A step on the connector's own connection.
LEMMA ThreadOnSocket ==
  ASSUME SP!IInv, Sockets, Owing, Threads, Threads', NEW t \in Terminals,
         NEW c \in Conns, c = sock[t], NEW d, NEW x,
         conns' = [conns EXCEPT ![c] = d], UNCHANGED <<client, server, sock>>,
         d.client = "open", d.server = "closed" => d.up = <<>>,
         connector' = [connector EXCEPT ![t] = x], x \notin {"off", "connect"},
         \A u \in Terminals \ {t} : cuts'[u] = cuts[u],
         Owed(c)' \in Nat,
         Owed(c)' <= cuts'[t] + IF x = "read" THEN 1 ELSE 0
  PROVE  Sockets' /\ Owing'
<1> USE OwingTyped
<1>1. /\ connector'[t] = x /\ conns'[c] = d
      /\ \A u \in Terminals \ {t} : connector'[u] = connector[u]
      /\ \A e \in Conns \ {c} : conns'[e] = conns[e] /\ Owed(e)' = Owed(e)
      /\ cuts'[t] \in 0..MaxCuts
  BY OthersOwe DEF Threads, ThreadTypes
<1>2. connector[t] \notin {"off", "connect"}
  BY DEF Sockets
<1>3. Sockets'
  BY <1>1, <1>2 DEF Sockets
<1>4. Owed(c)' <= MaxCuts + 1
  BY <1>1
<1>5. ASSUME NEW u \in Terminals, sock[u] # NoConn
      PROVE  Owed(sock[u])' <= cuts'[u] + IF connector'[u] = "read" THEN 1 ELSE 0
  <2>1. CASE u = t
    BY <1>1, <2>1
  <2>2. CASE u # t
    <3>1. sock[u] # c
      BY <2>2 DEF Sockets
    <3>2. Owed(sock[u])' = Owed(sock[u])
      BY <1>1, <1>5, <3>1
    <3> QED BY <1>1, <1>5, <2>2, <3>2 DEF Owing
  <2> QED BY <2>1, <2>2
<1>6. \A e \in Conns :
        /\ conns'[e].client # "open" => conns'[e].down = <<>>
        /\ conns'[e].server = "closed" => conns'[e].up = <<>>
        /\ Owed(e)' <= MaxCuts + 1
  BY <1>1, <1>4 DEF Owing
<1> QED BY <1>3, <1>5, <1>6 DEF Owing

\* Writing to the connection and reading from it.
LEMMA WriteOwes ==
  ASSUME SP!IInv, Sockets, Owing, Threads, Threads', NEW t \in Terminals,
         C!Write(t), S!WatchLeaving, UNCHANGED serverVarsButCalm
  PROVE  SP!IInv' /\ Sockets' /\ Owing'
<1> USE OwingTyped
<1>0. PICK c \in Conns : c = sock[t]
  BY DEF Sockets, C!Write, C!Goto
<1> DEFINE d == [conns[c] EXCEPT !.up = Append(@, shared[t])]
<1> USE <1>0
<1>1. /\ connector[t] = "write" /\ connector' = [connector EXCEPT ![t] = "read"]
      /\ UNCHANGED <<sock, cuts, client, server>>
      /\ conns' = IF conns[c].server = "closed" THEN conns
                  ELSE [conns EXCEPT ![c] = d]
  BY DEF C!Write, C!Goto, serverVarsButCalm
<1>2. /\ c \in Conns /\ conns[c].client = "open" /\ Owed(c) <= cuts[t]
      /\ shared[t] \in Commands
  BY <1>1 DEF Sockets, Owing, Threads, Turns, Contents, Handed
<1>3. CASE conns[c].server = "closed"
  <2>1. UNCHANGED conns
    BY <1>1, <1>3
  <2> QED BY <1>1, <1>2, <2>1, ThreadAlone, QuietClient
<1>4. CASE conns[c].server # "closed"
  <2>1. /\ conns[c] \in Connections /\ conns[c].up \in Seq(Commands)
        /\ Sent(c) \in Nat /\ Coming(c) \in Nat /\ Owed(c) \in Nat
    BY <1>2, Lengths
  <2>2. Append(conns[c].up, shared[t]) \in Seq(Commands)
    BY <1>2, <2>1
  <2>3. /\ d \in Connections /\ d.client = "open" /\ d.server = conns[c].server
        /\ d.up = Append(conns[c].up, shared[t]) /\ d.down = conns[c].down
    BY <1>2, <2>1, <2>2 DEF Connections
  <2>4. conns' = [conns EXCEPT ![c] = d] /\ conns'[c] = d
    BY <1>1, <1>2, <1>4
  <2>5. Len(d.up) = Len(conns[c].up) + 1
    <3>1. ASSUME NEW s \in Seq(Commands)
          PROVE  Len(Append(s, shared[t])) = Len(s) + 1
      BY <1>2
    <3> QED BY <2>1, <2>3, <3>1
  <2> HIDE DEF d
  <2>6. Sent(c)' = Sent(c) + 1 /\ Coming(c)' = Coming(c)
    BY <1>1, <2>3, <2>4, <2>5 DEF Sent, Coming
  <2>7. Working(c)' <=> Working(c)
    BY <1>1 DEF Working
  <2>8. Owed(c)' = Owed(c) + 1
    BY <2>1, <2>6, <2>7 DEF Owed
  <2>9. ASSUME NEW x, x = "read"
        PROVE  Sockets' /\ Owing'
    <3>1. /\ Owed(c)' \in Nat
          /\ Owed(c)' <= cuts'[t] + IF x = "read" THEN 1 ELSE 0
      BY <1>1, <1>2, <2>1, <2>8, <2>9
    <3>2. /\ connector' = [connector EXCEPT ![t] = x]
          /\ x \notin {"off", "connect"}
          /\ \A u \in Terminals \ {t} : cuts'[u] = cuts[u]
          /\ d.client = "open"
          /\ d.server = "closed" => d.up = <<>>
      BY <1>1, <1>4, <2>3, <2>9
    <3> QED BY <1>1, <2>4, <3>1, <3>2, ThreadOnSocket
  <2>10. Sockets' /\ Owing'
    BY <2>9
  <2> QED BY <1>2, <2>3, <2>4, <2>10, ClientAtOne
<1> QED BY <1>3, <1>4

LEMMA ReadOwes ==
  ASSUME SP!IInv, Sockets, Owing, Threads, Threads', NEW t \in Terminals,
         C!Read(t) \/ C!ReadCut(t), S!WatchLeaving, UNCHANGED serverVarsButCalm
  PROVE  SP!IInv' /\ Sockets' /\ Owing'
<1> USE OwingTyped
<1>0. PICK c \in Conns : c = sock[t]
  BY DEF Sockets, C!Read, C!ReadCut, C!Goto
<1> USE <1>0
<1> DEFINE s == conns[c].down
           rest == IF C!Read(t) THEN Tail(s) ELSE <<C!Rest>> \o Tail(s)
           d == [conns[c] EXCEPT !.down = rest]
<1>1. /\ connector[t] = "read" /\ connector' = [connector EXCEPT ![t] = "put"]
      /\ UNCHANGED <<sock, client, server>>
      /\ s # <<>>
      /\ conns' = [conns EXCEPT ![c] = d]
      /\ cuts' = IF C!Read(t) THEN cuts ELSE [cuts EXCEPT ![t] = @ + 1]
  <2>1. CASE C!Read(t)
    BY <2>1 DEF C!Read, C!Goto, serverVarsButCalm
  <2>2. CASE ~C!Read(t)
    BY <2>2 DEF C!ReadCut, C!Goto, serverVarsButCalm
  <2> QED BY <2>1, <2>2
<1>2. /\ c \in Conns /\ conns[c].client = "open" /\ Owed(c) <= cuts[t] + 1
      /\ conns[c].server = "closed" => conns[c].up = <<>>
  BY <1>1 DEF Sockets, Owing
<1>3. /\ conns[c] \in Connections /\ s \in Seq(Pieces)
      /\ Sent(c) \in Nat /\ Coming(c) \in Nat /\ Owed(c) \in Nat
  BY <1>2, Lengths
<1>4. /\ rest \in Seq(Pieces)
      /\ Len(rest) = IF C!Read(t) THEN Len(s) - 1 ELSE Len(s)
  <2>1. Tail(s) \in Seq(Pieces) /\ Len(Tail(s)) = Len(s) - 1 /\ Len(s) \in Nat
    BY <1>1, <1>3
  <2>2. C!Rest \in Pieces
    BY DEF C!Rest, Pieces, Rest
  <2>3. ASSUME NEW q \in Seq(Pieces)
        PROVE  <<C!Rest>> \o q \in Seq(Pieces) /\ Len(<<C!Rest>> \o q) = Len(q) + 1
    BY <2>2
  <2> QED BY <2>1, <2>3
<1> HIDE DEF rest
<1>5. /\ d \in Connections /\ d.client = "open" /\ d.server = conns[c].server
      /\ d.up = conns[c].up /\ d.down = rest
  BY <1>2, <1>3, <1>4 DEF Connections
<1>6. conns' = [conns EXCEPT ![c] = d] /\ conns'[c] = d
  BY <1>1, <1>2
<1> HIDE DEF d
<1>7. /\ Sent(c)' = Sent(c)
      /\ Coming(c)' = IF C!Read(t) THEN Coming(c) - 1 ELSE Coming(c)
  BY <1>1, <1>4, <1>5, <1>6 DEF Sent, Coming
<1>8. Working(c)' <=> Working(c)
  BY <1>1 DEF Working
<1>9. Owed(c)' = IF C!Read(t) THEN Owed(c) - 1 ELSE Owed(c)
  BY <1>3, <1>7, <1>8 DEF Owed
<1>10. cuts'[t] = IF C!Read(t) THEN cuts[t] ELSE cuts[t] + 1
  BY <1>1
<1>11. Owed(c)' \in Nat
  <2>1. conns' \in [Conns -> Connections]
    BY <1>1, <1>5, <1>6
  <2> QED BY <1>2, <2>1, LengthsAfter
<1>12. Owed(c)' <= cuts'[t]
  BY <1>2, <1>3, <1>9, <1>10
<1>13. ASSUME NEW x, x = "put"
       PROVE  Sockets' /\ Owing'
  <2>1. Owed(c)' <= cuts'[t] + IF x = "read" THEN 1 ELSE 0
    BY <1>10, <1>11, <1>12, <1>13
  <2>2. /\ connector' = [connector EXCEPT ![t] = x]
        /\ x \notin {"off", "connect"}
        /\ \A u \in Terminals \ {t} : cuts'[u] = cuts[u]
        /\ d.client = "open"
        /\ d.server = "closed" => d.up = <<>>
    BY <1>1, <1>2, <1>5, <1>13
  <2> QED BY <1>1, <1>6, <1>11, <2>1, <2>2, ThreadOnSocket
<1>14. Sockets' /\ Owing'
  BY <1>13
<1> QED BY <1>2, <1>5, <1>6, <1>14, ClientAtOne

\* The process is over.
LEMMA ExitOwes ==
  ASSUME SP!IInv, Sockets, Owing, Threads, NEW t \in Terminals, C!Exit(t),
         UNCHANGED serverVarsButCalm,
         S!WatchLeaving \/ (sock[t] = NoConn /\ UNCHANGED calm)
  PROVE  SP!IInv' /\ Sockets' /\ Owing'
<1> USE OwingTyped
<1>1. /\ sock' = [sock EXCEPT ![t] = NoConn]
      /\ connector' = [connector EXCEPT ![t] = "off"]
      /\ cuts' = [cuts EXCEPT ![t] = 0]
      /\ conns' = IF sock[t] = NoConn THEN conns
                  ELSE [conns EXCEPT ![sock[t]] = ClientCloses(@)]
      /\ UNCHANGED <<client, server>>
  BY SameConnections DEF C!Exit, serverVarsButCalm
<1>2. /\ sock'[t] = NoConn /\ connector'[t] = "off"
      /\ \A u \in Terminals \ {t} : /\ sock'[u] = sock[u]
                                    /\ connector'[u] = connector[u]
                                    /\ cuts'[u] = cuts[u]
  BY <1>1
<1>3. \A e \in Conns : e # sock[t] =>
        conns'[e] = conns[e] /\ Owed(e)' = Owed(e)
  BY <1>1 DEF Owed, Sent, Coming, Working
<1>4. \A u \in Terminals \ {t} : sock[u] # NoConn =>
        /\ sock[u] \in Conns /\ sock[u] # sock[t]
        /\ conns'[sock[u]] = conns[sock[u]]
  BY <1>3 DEF Sockets
<1>5. Sockets'
  BY <1>2, <1>4 DEF Sockets
<1>6. ASSUME NEW u \in Terminals, sock'[u] # NoConn
      PROVE  Owed(sock[u])' <= cuts'[u] + IF connector'[u] = "read" THEN 1 ELSE 0
  <2>1. u # t /\ sock'[u] = sock[u] /\ sock[u] \in Conns
    BY <1>2, <1>4, <1>6
  <2>2. PICK e \in Conns : e = sock[u]
    BY <2>1
  <2>3. Owed(e)' = Owed(e)
    BY <1>3, <1>4, <1>6, <2>1, <2>2
  <2>4. Owed(e) <= cuts[u] + IF connector[u] = "read" THEN 1 ELSE 0
    BY <1>6, <2>1, <2>2 DEF Owing
  <2> QED BY <1>2, <2>1, <2>2, <2>3, <2>4
<1>7. CASE sock[t] = NoConn
  <2>1. UNCHANGED conns
    BY <1>1, <1>7
  <2>2. SP!IInv'
    BY <2>1, <1>7, QuietClient
  <2>3. \A e \in Conns : conns'[e] = conns[e] /\ Owed(e)' = Owed(e)
    BY <1>3, <1>7
  <2> QED BY <1>5, <1>6, <2>2, <2>3 DEF Owing
<1>8. CASE sock[t] # NoConn
  <2>1. PICK c \in Conns : c = sock[t]
    BY <1>8
  <2> DEFINE d == ClientCloses(conns[c])
  <2>2. conns' = [conns EXCEPT ![c] = d] /\ conns'[c] = d
    BY <1>1, <1>8, <2>1
  <2>3. /\ d \in Connections
        /\ \/ d.server = conns[c].server
           \/ conns[c].server = "closed" /\ d.server = "none"
    <3>1. conns[c] \in Connections
      BY <2>1
    <3>2. <<>> \in Seq(Commands) /\ <<>> \in Seq(Pieces)
      OBVIOUS
    <3> QED BY <3>1, <3>2
        DEF ClientCloses, Connections, ClientEnds, ServerEnds, Free
  <2>4. /\ conns'[c].client # "open" => conns'[c].down = <<>>
        /\ conns'[c].server = "closed" => conns'[c].up = <<>>
        /\ Owed(c)' <= MaxCuts + 1
    BY <1>1, <2>2, LeavingOwes
  <2> HIDE DEF d
  <2>5. SP!IInv'
    BY <1>8, <2>2, <2>3, ClientAtOne
  <2>6. \A e \in Conns :
          /\ conns'[e].client # "open" => conns'[e].down = <<>>
          /\ conns'[e].server = "closed" => conns'[e].up = <<>>
          /\ Owed(e)' <= MaxCuts + 1
    BY <1>3, <2>1, <2>4 DEF Owing
  <2> QED BY <1>5, <1>6, <2>5, <2>6 DEF Owing
<1> QED BY <1>7, <1>8

\* A connector connects: nobody else has this connection.
LEMMA ConnectOwes ==
  ASSUME SP!IInv, Sockets, Owing, Threads, NEW t \in Terminals, NEW c \in Conns,
         C!Connect(t, c), S!Enqueue(c)
  PROVE  SP!IInv' /\ Sockets' /\ Owing'
<1> USE OwingTyped
<1>1. /\ connector[t] = "connect"
      /\ connector' = [connector EXCEPT ![t] = "handshake"]
      /\ conns[c] = Free /\ conns' = [conns EXCEPT ![c] = Fresh]
      /\ sock' = [sock EXCEPT ![t] = c] /\ cuts' = cuts
      /\ UNCHANGED <<client, server>>
  BY SameConnections DEF C!Connect, C!Goto, S!Enqueue
<1>2. SP!Enqueue(c)
  BY SameClients
<1>3. SP!IInv'
  BY <1>1, <1>2, SameConnections, Assumptions, SP!ConnectKeeps
<1>4. /\ conns'[c] = Fresh /\ sock'[t] = c /\ connector'[t] = "handshake"
      /\ \A u \in Terminals \ {t} : /\ sock'[u] = sock[u]
                                    /\ connector'[u] = connector[u]
      /\ \A e \in Conns \ {c} : conns'[e] = conns[e] /\ Owed(e)' = Owed(e)
  BY <1>1, OthersOwe
<1>5. \A u \in Terminals : sock[u] # c
  BY <1>1 DEF Sockets, Free
<1>6. /\ Fresh.client = "open" /\ Fresh.server = "queued"
      /\ Fresh.up = <<>> /\ Fresh.down = <<>> /\ Free.server = "none"
  BY DEF Fresh, Free
<1>7. ~Working(c)'
  BY <1>1, <1>6, Typed DEF Working
<1>8. Owed(c)' = 0
  BY <1>4, <1>6, <1>7 DEF Owed, Sent, Coming
<1>9. Sockets'
  <2>1. ASSUME NEW u \in Terminals
        PROVE  sock'[u] = NoConn <=> connector'[u] \in {"off", "connect"}
    BY <1>4, <2>1 DEF Sockets
  <2>2. ASSUME NEW u \in Terminals, sock'[u] # NoConn
        PROVE  conns'[sock'[u]].client = "open"
    <3>1. CASE u = t
      BY <1>4, <1>6, <3>1
    <3>2. CASE u # t
      <4>1. sock'[u] = sock[u] /\ sock[u] \in Conns /\ sock[u] # c
        BY <1>4, <1>5, <2>2, <3>2
      <4> QED BY <1>4, <2>2, <4>1 DEF Sockets
    <3> QED BY <3>1, <3>2
  <2>3. ASSUME NEW u \in Terminals, NEW v \in Terminals, sock'[u] # NoConn,
               sock'[v] = sock'[u]
        PROVE  v = u
    BY <1>4, <1>5, <2>3 DEF Sockets
  <2> QED BY <2>1, <2>2, <2>3 DEF Sockets
<1>10. ASSUME NEW u \in Terminals, sock'[u] # NoConn
       PROVE  Owed(sock[u])' <= cuts'[u] + IF connector'[u] = "read" THEN 1 ELSE 0
  <2>1. PICK e \in Conns : e = sock'[u]
    BY <1>4, <1>10
  <2>2. CASE u = t
    BY <1>1, <1>4, <1>8, <2>1, <2>2
  <2>3. CASE u # t
    <3>1. e = sock[u] /\ e # c /\ Owed(e)' = Owed(e)
      BY <1>4, <1>5, <2>1, <2>3
    <3>2. Owed(e) <= cuts[u] + IF connector[u] = "read" THEN 1 ELSE 0
      BY <1>10, <2>1, <3>1 DEF Owing
    <3> QED BY <1>1, <1>4, <2>1, <2>3, <3>1, <3>2
  <2> QED BY <2>2, <2>3
<1>11. \A e \in Conns :
         /\ conns'[e].client # "open" => conns'[e].down = <<>>
         /\ conns'[e].server = "closed" => conns'[e].up = <<>>
         /\ Owed(e)' <= MaxCuts + 1
  <2>1. Owed(c)' <= MaxCuts + 1
    BY <1>8
  <2> QED BY <1>4, <1>6, <2>1 DEF Owing
<1> QED BY <1>3, <1>9, <1>10, <1>11 DEF Owing

\* The other steps of the threads and of the user.
LEMMA QuietOwes ==
  ASSUME SP!IInv, Sockets, Owing, Threads, NEW t \in Terminals,
         \/ C!UiStart(t) \/ C!UiGo(t) \/ C!UiWait(t) \/ C!Show(t) \/ C!UiFinish(t)
         \/ C!Handshake(t) \/ C!ConnectorWait(t) \/ C!Test(t) \/ C!ReadEnd(t)
         \/ C!Put(t) \/ C!ConnectorGo(t) \/ C!Run(t)
         \/ \E command_ \in Commands : C!Type(t, command_),
         S!WatchLeaving, UNCHANGED serverVarsButCalm
  PROVE  SP!IInv' /\ Sockets' /\ Owing'
<1> USE OwingTyped
<1>1. UNCHANGED <<conns, sock, cuts, client, server>>
  BY DEF C!UiStart, C!UiGo, C!UiWait, C!Show, C!UiFinish, C!Handshake,
     C!ConnectorWait, C!Test, C!ReadEnd, C!Put, C!ConnectorGo, C!Run, C!Type,
     serverVarsButCalm
<1>2. SP!IInv'
  BY <1>1, QuietClient
<1>0. PICK x : x = connector'[t]
  OBVIOUS
<1>3. /\ connector' = [connector EXCEPT ![t] = x]
      /\ \/ x = connector[t]
         \/ connector[t] = "off" /\ x = "connect"
         \/ connector[t] = "read" /\ C!ReadEnd(t) /\ x = "put"
         \/ /\ connector[t] \notin {"off", "connect", "read"}
            /\ x \notin {"off", "connect", "read"}
  <2> USE <1>0
  <2>1. CASE \/ C!UiStart(t) \/ C!UiGo(t) \/ C!UiWait(t) \/ C!Show(t)
             \/ C!UiFinish(t) \/ \E command_ \in Commands : C!Type(t, command_)
    <3>1. connector' = connector
      BY <2>1 DEF C!UiStart, C!UiGo, C!UiWait, C!Show, C!UiFinish, C!Type
    <3>2. connector' = [connector EXCEPT ![t] = connector[t]]
      BY <3>1
    <3> QED BY <3>2
  <2>2. CASE C!Handshake(t)
    BY <2>2 DEF C!Handshake, C!Goto
  <2>3. CASE C!ConnectorWait(t)
    BY <2>3 DEF C!ConnectorWait, C!Goto
  <2>4. CASE C!Test(t)
    BY <2>4 DEF C!Test, C!Goto
  <2>5. CASE C!ReadEnd(t)
    BY <2>5 DEF C!ReadEnd, C!Goto
  <2>6. CASE C!Put(t)
    BY <2>6 DEF C!Put, C!Goto
  <2>7. CASE C!ConnectorGo(t)
    BY <2>7 DEF C!ConnectorGo, C!Goto
  <2>8. CASE C!Run(t)
    BY <2>8 DEF C!Run, C!Goto
  <2> QED BY <2>1, <2>2, <2>3, <2>4, <2>5, <2>6, <2>7, <2>8
<1>4. ASSUME sock[t] # NoConn, x # "read"
      PROVE  Owed(sock[t]) <= cuts[t]
  <2>1. PICK c \in Conns : c = sock[t]
    BY <1>4
  <2>2. Owed(c) <= cuts[t] + IF connector[t] = "read" THEN 1 ELSE 0
    BY <1>4, <2>1 DEF Owing
  <2>3. CASE connector[t] # "read"
    BY <2>1, <2>2, <2>3
  <2>4. CASE connector[t] = "read"
    <3>1. C!ReadEnd(t)
      BY <1>3, <1>4, <2>4
    <3>2. conns[c].down = <<>> /\ conns[c].server = "closed"
      BY <2>1, <3>1 DEF C!ReadEnd, C!ReadingNothing
    <3>3. conns[c].up = <<>> /\ ~Working(c)
      BY <3>2, Typed DEF Owing
    <3>4. Sent(c) = 0 /\ Coming(c) = 0
      BY <3>2, <3>3 DEF Sent, Coming
    <3>5. Owed(c) = 0
      BY <3>3, <3>4 DEF Owed
    <3> QED BY <2>1, <3>5
  <2> QED BY <2>3, <2>4
<1>5. x \in {"off", "connect"} <=> connector[t] \in {"off", "connect"}
  BY <1>3
<1> QED BY <1>1, <1>2, <1>3, <1>4, <1>5, ThreadAlone
-----------------------------------------------------------------------------
(* Every step keeps the invariant. *)

LEMMA InvInit == Init => IInv
<1> SUFFICES ASSUME Init
             PROVE  IInv
  OBVIOUS
<1>1. SP!IInv
  BY SameInit, Assumptions, SP!InvInit DEF Init
<1>2. Threads
  BY ReadingAssumption
     DEF Init, C!Init, Threads, ThreadTypes, C!UiSteps, C!ConnectorSteps, Turns,
         Contents
<1>3. Sockets
  BY DEF Init, C!Init, Sockets
<1>4. Owing
  <2>1. ASSUME NEW c \in Conns
        PROVE  /\ conns[c].up = <<>> /\ conns[c].down = <<>> /\ Owed(c) = 0
    <3>1. conns[c] = Free /\ server = "accept"
      BY SameConnections DEF Init, C!Init, S!Init
    <3>2. Sent(c) = 0 /\ Coming(c) = 0 /\ ~Working(c)
      BY <3>1 DEF Sent, Coming, Working, Free
    <3> QED BY <3>1, <3>2 DEF Owed, Free
  <2>2. \A t \in Terminals : sock[t] = NoConn
    BY DEF Init, C!Init
  <2> QED BY <2>1, <2>2, ReadingAssumption DEF Owing
<1> QED BY <1>1, <1>2, <1>3, <1>4 DEF IInv

LEMMA ServerKeeps ==
  ASSUME IInv, UNCHANGED clientVars,
         S!Serve \/ S!Terminate \/ S!Start \/ S!Environment
           \/ \E c \in Conns : S!ResetArrives(c)
  PROVE  IInv'
<1>1. SP!Serve \/ SP!Terminate \/ SP!Start \/ SP!Environment
  BY SameServe, SameSurroundings DEF SP!Environment
<1>2. SP!IInv'
  BY <1>1, Assumptions, SP!InvNext DEF IInv, SP!Next, SP!ServerStep
<1>3. \A c \in Conns : Eases(c)
  BY <1>1, ServerEases DEF IInv
<1> QED BY <1>2, <1>3, EasesKeep, UnchangedThreads DEF IInv

LEMMA ThreadKeeps ==
  ASSUME IInv, NEW t \in Terminals, C!ThreadStep(t) \/ C!UserStep(t), ClientAlone
  PROVE  IInv'
<1>1. S!WatchLeaving /\ UNCHANGED serverVarsButCalm
  BY DEF ClientAlone
<1>2. conns \in [Conns -> Connections]
  BY Typed DEF IInv
<1>3. CASE C!Exit(t)
  BY <1>1, <1>3, ExitOwes, ProcessKeeps DEF IInv
<1>4. CASE C!Write(t)
  <2>1. Threads'
    BY <1>2, <1>4, ConnectorKeeps DEF IInv
  <2> QED BY <1>1, <1>4, <2>1, WriteOwes DEF IInv
<1>5. CASE C!Read(t) \/ C!ReadCut(t)
  <2>1. Threads'
    BY <1>2, <1>5, ConnectorKeeps DEF IInv
  <2> QED BY <1>1, <1>5, <2>1, ReadOwes DEF IInv
<1>6. CASE \/ C!UiStart(t) \/ C!UiGo(t) \/ C!UiWait(t) \/ C!Show(t)
           \/ C!UiFinish(t) \/ \E command_ \in Commands : C!Type(t, command_)
  BY <1>1, <1>6, UiKeeps, QuietOwes DEF IInv
<1>7. CASE \/ C!Handshake(t) \/ C!ConnectorWait(t) \/ C!Test(t) \/ C!ReadEnd(t)
           \/ C!Put(t) \/ C!ConnectorGo(t)
  BY <1>1, <1>2, <1>7, ConnectorKeeps, QuietOwes DEF IInv
<1>8. CASE C!Run(t)
  BY <1>1, <1>8, ProcessKeeps, QuietOwes DEF IInv
<1> QED BY <1>3, <1>4, <1>5, <1>6, <1>7, <1>8
        DEF C!ThreadStep, C!UserStep, C!WriteFails, C!ReadFails, C!Close

LEMMA InvNext == IInv /\ [Next]_vars => IInv'
<1> SUFFICES ASSUME IInv, [Next]_vars
             PROVE  IInv'
  OBVIOUS
<1>1. conns \in [Conns -> Connections]
  BY Typed DEF IInv
<1>2. ASSUME NEW t \in Terminals, Connect(t)
      PROVE  IInv'
  <2>1. PICK c \in Conns : C!Connect(t, c) /\ S!Enqueue(c)
    BY <1>2 DEF Connect
  <2> QED BY <1>1, <2>1, ConnectorKeeps, ConnectOwes DEF IInv
<1>3. ASSUME NEW t \in Terminals, Refused(t)
      PROVE  IInv'
  <2>1. C!Exit(t) /\ connector[t] = "connect"
    BY <1>3 DEF Refused, C!ConnectFails
  <2>2. UNCHANGED <<serverVarsButCalm, calm>>
    BY <1>3, SameClients DEF Refused
  <2>3. sock[t] = NoConn
    BY <2>1 DEF IInv, Sockets
  <2> QED BY <2>1, <2>2, <2>3, ExitOwes, ProcessKeeps DEF IInv
<1>4. ASSUME NEW t \in Terminals, ThreadStep(t) \/ UserStep(t)
      PROVE  IInv'
  BY <1>2, <1>3, <1>4, ThreadKeeps DEF ThreadStep, UserStep
<1>5. ASSUME NEW c \in Conns, OtherStep(c)
      PROVE  IInv'
  <2>1. /\ \A t \in Terminals : sock[t] # c
        /\ SP!OtherStep(c) /\ UNCHANGED clientVars
    BY <1>5, SameClients DEF OtherStep
  <2>2. SP!IInv'
    BY <2>1, Assumptions, SP!OthersKeep DEF IInv
  <2> QED BY <2>1, <2>2, OtherPrograms, UnchangedThreads DEF IInv
<1>6. CASE Serve \/ Surroundings
  BY <1>6, ServerKeeps DEF Serve, Surroundings
<1>7. CASE UNCHANGED vars
  <2>1. UNCHANGED clientVars /\ UNCHANGED <<conns, client, server>>
    BY <1>7 DEF vars, serverVarsButCalm
  <2>2. SP!IInv'
    BY <1>7, QuietClient DEF vars, IInv
  <2>3. \A c \in Conns : Eases(c)
    BY <2>1, QuietEases DEF IInv
  <2> QED BY <2>1, <2>2, <2>3, EasesKeep, UnchangedThreads DEF IInv
<1> QED BY <1>4, <1>5, <1>6, <1>7 DEF Next

LEMMA Invariance == Spec => []IInv
BY InvInit, InvNext, PTL DEF Spec

-----------------------------------------------------------------------------
(* What a reader should know. *)

\* Every variable of the clients and of the server keeps its type, for any
\* number of them, and of commands and answers no more are left unread on a
\* connection than its client cut, and one.
THEOREM TypeCorrect == Spec => []TypeOK
<1>1. IInv => TypeOK
  <2> SUFFICES ASSUME IInv
               PROVE  TypeOK
    OBVIOUS
  <2>1. conns \in [Conns -> Connections]
    BY Typed DEF IInv
  <2>2. ASSUME NEW t \in Terminals
        PROVE  semUserInterface[t] \in 0..1 /\ semConnector[t] \in 0..1
    <3>1. Turns(t) /\ semUserInterface[t] \in Nat /\ semConnector[t] \in Nat
      BY DEF IInv, Threads, ThreadTypes
    <3>2. CASE ui[t] = "off"
      BY <3>1, <3>2 DEF Turns
    <3>3. CASE ui[t] # "off"
      <4>1. OneTurn(t)
        BY <3>3, WhoseTurn DEF IInv
      <4> QED BY <3>1, <4>1 DEF OneTurn
    <3> QED BY <3>2, <3>3
  <2>3. C!TypeOK
    BY <2>1, <2>2, SameData DEF IInv, Threads, ThreadTypes, C!TypeOK
  <2>4. S!TypeOK
    BY SameTypes DEF IInv, SP!IInv
  <2>5. ASSUME NEW c \in Conns
        PROVE  Len(conns[c].up) + Len(conns[c].down) <= MaxCuts + 1
    <3>1. Sent(c) \in Nat /\ Coming(c) \in Nat /\ Owed(c) <= MaxCuts + 1
      BY <2>1, Lengths DEF IInv, Owing
    <3>2. Sent(c) + Coming(c) <= MaxCuts + 1
      BY <3>1, ReadingAssumption DEF Owed
    <3> QED BY <3>2 DEF Sent, Coming
  <2> QED BY <2>3, <2>4, <2>5 DEF TypeOK
<1> QED BY <1>1, Invariance, PTL

\* The two threads of a client never have the turn both and never wait both,
\* whatever the server at the other end does: what shared memory, command and
\* socket hold is never read by one while the other writes it.
THEOREM TurnsAreTaken == Spec => []TakeTurns
<1>1. IInv => TakeTurns
  BY DEF IInv, Threads, Turns, TakeTurns, C!TakeTurns
<1> QED BY <1>1, Invariance, PTL

\* A client sends what was typed and shows what came back, and is behind the
\* answers by no more pieces than its reads cut, although the server dies, is
\* started again and answers commands that were sent before it died.
THEOREM AnswersBelong == Spec => []AnswerBelongs
<1>1. IInv => AnswerBelongs
  <2> SUFFICES ASSUME IInv, NEW t \in Terminals
               PROVE  /\ ui[t] = "show" => shared[t] \in C!Texts
                      /\ connector[t] = "write" =>
                           /\ shared[t] = cmd[t]
                           /\ Len(conns[sock[t]].down) <= cuts[t]
    BY DEF AnswerBelongs, C!AnswerBelongs
  <2>1. Turns(t) /\ Contents(t)
    BY DEF IInv, Threads
  <2>2. ASSUME connector[t] = "write"
        PROVE  Len(conns[sock[t]].down) <= cuts[t]
    <3>1. sock[t] # NoConn
      BY <2>2 DEF IInv, Sockets
    <3>2. PICK c \in Conns : c = sock[t]
      BY <3>1, OwingTyped DEF IInv
    <3>3. Sent(c) \in Nat /\ Coming(c) \in Nat
      BY OwingTyped, Lengths DEF IInv
    <3>4. Owed(c) <= cuts[t]
      <4>1. Owed(c) <= cuts[t] + IF connector[t] = "read" THEN 1 ELSE 0
        BY <3>1, <3>2 DEF IInv, Owing
      <4> QED BY <2>2, <4>1, OwingTyped DEF IInv
    <3>5. Coming(c) <= cuts[t]
      BY <3>3, <3>4, OwingTyped DEF Owed, IInv
    <3> QED BY <3>2, <3>5 DEF Coming
  <2> QED BY <2>1, <2>2 DEF Turns, Contents, Handed
<1> QED BY <1>1, Invariance, PTL

=============================================================================
