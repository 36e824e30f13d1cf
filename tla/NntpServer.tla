----------------------------- MODULE NntpServer -----------------------------
(***************************************************************************)
(* nntpSslBamServer: accepts one reader at a time and answers its commands *)
(* from the LDAP directory until it sends QUIT.  The group and the notice  *)
(* last shown are globals of the process that outlive the session.         *)
(***************************************************************************)
EXTENDS NntpWire

CONSTANT Backlog     \* connections TCP completes before they are accepted

ASSUME BacklogAssumption == Backlog \in Nat \ {0}

VARIABLES
  conns,      \* the connections, by slot
  backlog,    \* the connections completed and not accepted, oldest first
  server,     \* where the server is, "down" when no process runs
  client,     \* the connection being served
  command,    \* nntpCommand
  answer,     \* what SetResponse returned
  currentGroupName,  \* where the global points: NULL, a live or a freed block
  lastNoticeId,      \* the same, and the id written in the block
  sigpipe,    \* what the next SIGPIPE does: the handler or the default
  directory,  \* the notices stored, in the order of a search
  \* histories
  listing,    \* the ids the last LISTGROUP of this process showed
  ended,      \* a session of this process has ended by QUIT
  calm        \* nothing has befallen this process, see SurvivesGoodDays

globalVars == <<currentGroupName, lastNoticeId>>
historyVars == <<listing, ended, calm>>
vars == <<conns, backlog, server, client, command, answer, globalVars, sigpipe,
          directory, historyVars>>

ServerSteps == {"down", "accept", "read", "answer", "next", "write", "end",
                "close"}

Texts == {"TooLong", "NotFound", "NotInAGroup", "NoNext", "NoSuchGroup", "Ok",
          "Bye", "Syntax", "What"}

ASSUME TextsAssumption == Nothing \notin Texts

Blocks == {"null", "live", "freed"}

TypeOK ==
  /\ conns \in [Conns -> Connections]
  /\ backlog \in Seq(Conns) /\ Len(backlog) <= Backlog
  /\ server \in ServerSteps
  /\ client \in Conns \cup {NoConn}
  /\ command \in Commands \cup {Nothing, Uninitialised}
  /\ answer \in Texts \cup {Nothing}
  /\ currentGroupName \in Blocks
  /\ lastNoticeId \in [block : Blocks, id : Ids \cup {NoNotice}]
  /\ sigpipe \in {"handler", "default"}
  /\ directory \in Directories
  /\ listing \in Directories
  /\ ended \in BOOLEAN
  /\ calm \in BOOLEAN

NullId == [block |-> "null", id |-> NoNotice]

Init ==
  /\ conns = [c \in Conns |-> Free]
  /\ backlog = <<>>
  /\ server = "accept"
  /\ client = NoConn
  /\ command = Nothing
  /\ answer = Nothing
  /\ currentGroupName = "null"
  /\ lastNoticeId = NullId
  /\ sigpipe = "handler"
  /\ listing = <<>>
  /\ ended = FALSE
  /\ directory \in {d \in Directories : Len(d) <= 1}
  /\ calm = (directory # <<>>)

-----------------------------------------------------------------------------
\* TCP completes a connection.
Enqueue(c) ==
  /\ server # "down"
  /\ Len(backlog) < Backlog
  /\ backlog' = Append(backlog, c)
  /\ UNCHANGED <<server, client, command, answer, globalVars, sigpipe,
                 directory, historyVars>>

\* A connection is refused: nobody listens, or no room.
Refuse ==
  /\ server = "down" \/ Len(backlog) = Backlog
  /\ UNCHANGED <<backlog, server, client, command, answer, globalVars, sigpipe,
                 directory, historyVars>>

Goto(from, to) ==
  /\ server = from
  /\ server' = to

\* SSLSocketConnect: accept and the SSL handshake, which waits for the peer.
\* With a peer that is gone SSL_accept returns -1, or 0, which passes.
Accept ==
  /\ server = "accept"
  /\ backlog # <<>>
  /\ LET c == Head(backlog)
     IN /\ client' = c
        /\ conns' = [conns EXCEPT ![c].server = "open"]
        /\ \/ server' = "read"
           \/ conns[c].client # "open" /\ server' = "close"
  /\ backlog' = Tail(backlog)
  /\ UNCHANGED <<command, answer, globalVars, sigpipe, directory,
                 historyVars>>

\* The process ends, its connections are closed by the system.
EndProcess ==
  /\ server' = "down"
  /\ client' = NoConn
  /\ command' = Nothing
  /\ answer' = Nothing
  /\ backlog' = <<>>
  /\ conns' = [c \in Conns |-> IF conns[c].server \in {"queued", "open"}
                               THEN ServerCloses(conns[c]) ELSE conns[c]]
  /\ UNCHANGED <<globalVars, sigpipe, directory, listing, ended>>

Dies == EndProcess /\ UNCHANGED calm

\* SSLSocketRead returns a command that the parser takes.
Read ==
  /\ Goto("read", "answer")
  /\ conns[client].up # <<>>
  /\ Head(conns[client].up).arg # Overlong
  /\ command' = Head(conns[client].up)
  /\ conns' = [conns EXCEPT ![client].up = Tail(@)]
  /\ UNCHANGED <<backlog, client, answer, globalVars, sigpipe, directory,
                 historyVars>>

\* NNTPParserLoadRawCommand refuses the line: the loop goes on with the next.
ReadTooLong ==
  /\ Goto("read", "write")
  /\ conns[client].up # <<>>
  /\ Head(conns[client].up).arg = Overlong
  /\ command' = Nothing
  /\ answer' = "TooLong"
  /\ conns' = [conns EXCEPT ![client].up = Tail(@)]
  /\ UNCHANGED <<backlog, client, globalVars, sigpipe, directory,
                 historyVars>>

\* The peer is gone: SSLSocketRead returns the empty string.
NothingToRead ==
  /\ server = "read"
  /\ conns[client].up = <<>>
  /\ conns[client].client # "open"

\* ParseCommand then returns a command of which no field is set: matching it
\* dies of a bad pointer or matches nothing.
ReadNothing ==
  /\ NothingToRead
  /\ Goto("read", "answer")
  /\ command' = Uninitialised
  /\ UNCHANGED <<conns, backlog, client, answer, globalVars, sigpipe,
                 directory, historyVars>>

ReadNothingDies == NothingToRead /\ Dies

-----------------------------------------------------------------------------
(* NNTPCommandSetResponse.                                                  *)

Say(text) ==
  /\ Goto("answer", "write")
  /\ answer' = text

ButCalm == <<conns, backlog, client, command, sigpipe, directory, ended>>
Unchanged == <<ButCalm, calm>>

\* Faulty variant: the caller's notice is kept, which it frees.
KeepCurrentNoticeId(notice) == lastNoticeId' = notice

\* Faulty variant: a block that was allocated before is written again.
ReuseCurrentNoticeId(notice) ==
  lastNoticeId' =
    [block |-> IF lastNoticeId.block = "null" THEN "live" ELSE lastNoticeId.block,
     id |-> notice]

\* NNTPCommandSaveCurrentNoticeId.
SaveCurrentNoticeId(notice) ==
  lastNoticeId' = [block |-> "live", id |-> notice]

\* NNTPCommandSaveCurrentGroupName: which group is never looked at again.
SaveCurrentGroupName == currentGroupName' = "live"

Retrieving == server = "answer" /\ command.verb \in Retrievals

\* HEAD, BODY, ARTICLE before any group.
RetrieveOutside ==
  /\ Retrieving
  /\ currentGroupName = "null"
  /\ Say("NotInAGroup")
  /\ UNCHANGED <<Unchanged, globalVars, listing>>

\* The global group is only tested for NULL: a freed block passes.
Searching == Retrieving /\ currentGroupName # "null"

Retrieve ==
  /\ Searching
  /\ LET notice == GetNoticeById(directory, command.arg)
     IN IF notice = NoNotice
        THEN Say("NotFound") /\ UNCHANGED lastNoticeId
        ELSE Say("Ok") /\ SaveCurrentNoticeId(notice)
  /\ UNCHANGED <<Unchanged, currentGroupName, listing>>

Walking == server = "answer" /\ command.verb = "NEXT"

\* NEXT before any notice.
NextOutside ==
  /\ Walking
  /\ lastNoticeId.block = "null"
  /\ Say("NotInAGroup")
  /\ UNCHANGED <<Unchanged, globalVars, listing>>

\* The first search of LdapServiceGetNextNotice.
SearchingLast == Walking /\ lastNoticeId.block # "null"

NextFindsLast ==
  /\ SearchingLast
  /\ GetNoticeById(directory, lastNoticeId.id) # NoNotice
  /\ Goto("answer", "next")
  /\ UNCHANGED <<Unchanged, answer, globalVars, listing>>

\* A freed block may not hold the id any more.
NextLosesLast ==
  /\ SearchingLast
  /\ lastNoticeId.block = "freed"
  /\ Say("NotFound")
  /\ UNCHANGED <<Unchanged, globalVars, listing>>

\* Faulty variant: the stack is taken from its bottom.
NewerThan(stack, notice) ==
  LET place == CHOOSE i \in DOMAIN stack : stack[i] = notice
  IN IF place = Len(stack) THEN NoNotice ELSE stack[place + 1]

\* The notice StackPop gives after this one.
OlderThan(stack, notice) ==
  LET place == CHOOSE i \in DOMAIN stack : stack[i] = notice
  IN IF place = 1 THEN NoNotice ELSE stack[place - 1]

\* Its second search, for the notices of that notice's group.
NextWalks ==
  /\ server = "next"
  /\ LET last == lastNoticeId.id
         stack == GetNoticesByGroupName(directory, GroupOf[last])
         older == OlderThan(stack, last)
     IN IF last \notin Range(stack)
        THEN answer' = "NotFound" /\ UNCHANGED lastNoticeId
        ELSE IF older = NoNotice
        THEN answer' = "NoNext" /\ UNCHANGED lastNoticeId
        ELSE answer' = "Ok" /\ SaveCurrentNoticeId(older)
  /\ server' = "write"
  /\ UNCHANGED <<Unchanged, currentGroupName, listing>>

Listing == server = "answer" /\ command.verb = "LISTGROUP"

Listed == GetNoticesByGroupName(directory, command.arg)

ListGroup ==
  /\ Listing
  /\ Listed # <<>>
  /\ SaveCurrentGroupName
  /\ SaveCurrentNoticeId(StackTope(Listed))
  /\ Say("Ok")
  /\ listing' = PopAll(Listed)
  /\ UNCHANGED Unchanged

ListGroupFails ==
  /\ Listing
  /\ Listed = <<>>
  /\ Say("NoSuchGroup")
  /\ UNCHANGED <<Unchanged, globalVars, listing>>

ListingGroups ==
  /\ server = "answer"
  /\ command.verb = "LIST"
  /\ command.arg = "NEWSGROUPS"

ListNewsgroups ==
  /\ ListingGroups
  /\ Say("Ok")
  /\ UNCHANGED <<Unchanged, globalVars, listing>>

\* NoticeGroupsSerialize reads groups[0], which an empty directory leaves
\* uninitialised.
ListNewsgroupsDies ==
  /\ ListingGroups
  /\ GetNoticesGroups(directory) = {}
  /\ Dies

\* QUIT's argument only chooses the text.  On good days a session after the
\* process's first has listed a group before.
Quit ==
  /\ server = "answer"
  /\ command.verb = "QUIT"
  /\ Say(IF command.arg = "" THEN "Bye" ELSE "Syntax")
  /\ calm' = (calm /\ (ended => currentGroupName = "live"))
  /\ UNCHANGED <<ButCalm, globalVars, listing>>

\* POST, LIST with another argument, unknown words.
Otherwise ==
  /\ server = "answer"
  /\ command.verb \in {"OTHER", "LIST"}
  /\ ~ListingGroups
  /\ Say("What")
  /\ UNCHANGED <<Unchanged, globalVars, listing>>

\* The directory server does not answer a search: NULL, as if nothing had been
\* found.
Unanswered ==
  /\ \/ (Searching \/ SearchingLast) /\ Say("NotFound")
     \/ (Listing \/ ListingGroups) /\ Say("NoSuchGroup")
  /\ calm' = FALSE
  /\ UNCHANGED <<ButCalm, globalVars, listing>>

\* NEXT's second search: StackIsEmpty(NULL).
NextDies ==
  /\ server = "next"
  /\ EndProcess
  /\ calm' = FALSE

SetResponse ==
  \/ RetrieveOutside \/ Retrieve
  \/ NextOutside \/ NextFindsLast \/ NextLosesLast \/ NextWalks
  \/ ListGroup \/ ListGroupFails \/ ListNewsgroups \/ ListNewsgroupsDies
  \/ Quit \/ Otherwise

-----------------------------------------------------------------------------
IsQuit == command # Nothing /\ command.verb = "QUIT"

\* SSLSocketWrite, then out of the loop after QUIT, whatever was answered.
Write ==
  /\ Goto("write", IF IsQuit THEN "end" ELSE "read")
  /\ conns[client].client # "reset"
  /\ conns' = [conns EXCEPT ![client] = Answered(@)]
  /\ command' = Nothing
  /\ answer' = Nothing
  /\ UNCHANGED <<backlog, client, globalVars, sigpipe, directory,
                 historyVars>>

\* Faulty variant: SIGPIPE is ignored, the session goes on.
BrokenPipeIgnored ==
  /\ Goto("write", "read")
  /\ conns[client].client = "reset"
  /\ command' = Nothing
  /\ answer' = Nothing
  /\ UNCHANGED <<conns, backlog, client, globalVars, sigpipe, directory,
                 historyVars>>

\* The write raises SIGPIPE: the handler closes the session and runs server()
\* anew, for good.  Built with -ansi, signal() installs it for one signal.
BrokenPipe ==
  /\ server = "write"
  /\ conns[client].client = "reset"
  /\ sigpipe = "handler"
  /\ sigpipe' = "default"
  /\ server' = "accept"
  /\ conns' = [conns EXCEPT ![client] = ServerCloses(@)]
  /\ client' = NoConn
  /\ command' = Nothing
  /\ answer' = Nothing
  /\ UNCHANGED <<backlog, globalVars, directory, historyVars>>

BrokenPipeKills ==
  /\ server = "write"
  /\ conns[client].client = "reset"
  /\ sigpipe = "default"
  /\ Dies

Freed(block) == IF block = "null" THEN "null" ELSE "freed"

\* free() of the two globals, which keep their values.
EndSession ==
  /\ Goto("end", "close")
  /\ currentGroupName' = Freed(currentGroupName)
  /\ lastNoticeId' = [lastNoticeId EXCEPT !.block = Freed(@)]
  /\ ended' = TRUE
  /\ UNCHANGED <<conns, backlog, client, command, answer, sigpipe, directory,
                 listing, calm>>

\* One of them was freed before and not set again: the allocator notices.
DoubleFree ==
  /\ server = "end"
  /\ "freed" \in {currentGroupName, lastNoticeId.block}
  /\ Dies

\* SSLSocketCloseSession.
CloseSession ==
  /\ Goto("close", "accept")
  /\ conns' = [conns EXCEPT ![client] = ServerCloses(@)]
  /\ client' = NoConn
  /\ UNCHANGED <<backlog, command, answer, globalVars, sigpipe, directory,
                 historyVars>>

\* The steps the server takes by itself.
Serve ==
  \/ Accept \/ Read \/ ReadTooLong \/ ReadNothing \/ ReadNothingDies
  \/ SetResponse \/ Unanswered \/ NextDies
  \/ Write \/ BrokenPipe \/ BrokenPipeKills
  \/ EndSession \/ DoubleFree \/ CloseSession

\* SIGTERM, SIGINT.
Terminate ==
  /\ server # "down"
  /\ EndProcess
  /\ calm' = FALSE

\* Somebody starts the program.
Start ==
  /\ Goto("down", "accept")
  /\ currentGroupName' = "null"
  /\ lastNoticeId' = NullId
  /\ sigpipe' = "handler"
  /\ listing' = <<>>
  /\ ended' = FALSE
  /\ calm' = (directory # <<>>)
  /\ UNCHANGED <<conns, backlog, client, command, answer, directory>>

ServerStep == Serve \/ Terminate \/ Start

-----------------------------------------------------------------------------
(* What surrounds the server: TCP, the directory, any program that speaks   *)
(* to its port.                                                             *)

\* The reset that an unread answer provokes comes back.
ResetArrives(c) ==
  /\ conns[c].client = "resetting"
  /\ conns' = [conns EXCEPT ![c].client = "reset"]
  /\ UNCHANGED <<backlog, server, client, command, answer, globalVars, sigpipe,
                 directory, historyVars>>

readerVars == <<conns, backlog, server, client, command, answer, globalVars,
                sigpipe>>

\* The data access process stores a notice.
NoticeStored ==
  /\ \E n \in Ids \ Range(directory) : directory' = Append(directory, n)
  /\ UNCHANGED <<readerVars, historyVars>>

Environment ==
  \/ \E c \in Conns : ResetArrives(c)
  \/ NoticeStored

\* The server reads no more from this connection.
Finished(c) ==
  \/ conns[c].server = "closed"
  \/ client = c /\ server \in {"end", "close"}

\* History: a client that leaves before the server has taken its QUIT.
WatchLeaving ==
  calm' = (calm /\ \A c \in Conns :
                     conns[c].client = "open" /\ conns'[c].client # "open"
                       => Finished(c))

clientlessVars == <<server, client, command, answer, globalVars, sigpipe,
                    directory, listing, ended>>

OtherConnects(c) ==
  /\ conns[c] = Free
  /\ Enqueue(c)
  /\ conns' = [conns EXCEPT ![c] = Fresh]

\* These programs wait for the SSL handshake, and read an answer before they
\* send the next command.
OtherSends(c) ==
  /\ conns[c].client = "open"
  /\ conns[c].up = <<>>
  /\ conns[c].down = <<>>
  /\ client = c /\ server = "read"
  /\ \E cmd \in Commands : conns' = [conns EXCEPT ![c].up = <<cmd>>]
  /\ UNCHANGED <<clientlessVars, backlog, calm>>

OtherReads(c) ==
  /\ conns[c].down # <<>>
  /\ conns' = [conns EXCEPT ![c].down = <<>>]
  /\ UNCHANGED <<clientlessVars, backlog, calm>>

OtherLeaves(c) ==
  /\ conns[c].client = "open"
  /\ conns' = [conns EXCEPT ![c] = ClientCloses(@)]
  /\ WatchLeaving
  /\ UNCHANGED <<clientlessVars, backlog>>

OtherStep(c) ==
  OtherConnects(c) \/ OtherSends(c) \/ OtherReads(c) \/ OtherLeaves(c)

Next == ServerStep \/ Environment \/ \E c \in Conns : OtherStep(c)

Spec == Init /\ [][Next]_vars

\* The server runs, TCP tells of a reset.  Nobody has to start the server
\* again, to send a command or to leave.
Fairness == WF_vars(Serve) /\ \A c \in Conns : WF_vars(ResetArrives(c))

FairSpec == Spec /\ Fairness

-----------------------------------------------------------------------------
(* Properties. *)

\* As long as every client that connects stays until its QUIT is taken and,
\* after the first, lists a group before, the directory answers and is not empty
\* and nobody stops the program, the process lives: whatever else the sessions
\* do, and however many they are, it frees no global twice and answers on.
SurvivesGoodDays == calm => server # "down"

\* The lines below this one that show a notice of its group.
Below(i) ==
  {j \in (i + 1)..Len(listing) : InGroup(listing[j], GroupOf[listing[i]])}

\* From any line of the listing LISTGROUP showed NEXT goes to the first one
\* below that is of the same group, and says that there is none only from the
\* last, although the stack is built anew, of that group alone, from a directory
\* that has grown since and may exceed the stack.  A listing of one group is
\* read line by line, one of "*" leaves the other groups' lines out.
NextWalksListing ==
  [][server = "next" /\ server' = "write" =>
       \A i \in DOMAIN listing :
         lastNoticeId.id = listing[i] =>
           \/ Below(i) = {} /\ answer' = "NoNext"
           \/ /\ answer' = "Ok"
              /\ \E j \in Below(i) :
                   lastNoticeId'.id = listing[j] /\ \A k \in Below(i) : j <= k
       ]_vars

\* A connection that waits gets its turn or is closed, if clients leave one
\* day: a client that vanishes at any moment does not block the next.
WaitingIsServed ==
  (\A c \in Conns : []<>(conns[c].client # "open"))
    => \A c \in Conns : conns[c].server = "queued" ~> conns[c].server # "queued"

=============================================================================
