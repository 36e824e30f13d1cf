-------------------------- MODULE NntpServerProofs --------------------------
(***************************************************************************)
(* What the NNTP server keeps of its connections, its globals and the      *)
(* listing of a group, for every set of notices and connections, every     *)
(* backlog and stack, and any order of commands.                           *)
(***************************************************************************)
EXTENDS NntpServer, LdapReadsFacts

Waits(c) == \E i \in 1..Len(backlog) : backlog[i] = c

Distinct == \A i, j \in 1..Len(backlog) : backlog[i] = backlog[j] => i = j

\* The backlog is what waits, each connection once.
BacklogIsWaiting ==
  /\ \A c \in Conns : conns[c].server = "queued" <=> Waits(c)
  /\ Distinct

\* One connection is served, and its server's end alone is open.
Serving ==
  /\ client = NoConn <=> server \in {"accept", "down"}
  /\ \A c \in Conns : conns[c].server = "open" <=> c = client
  /\ server = "down" => backlog = <<>>

\* A command is being answered, and NEXT's second search is that of a NEXT.
\* There is no answer but one that is to be written.
Answering ==
  /\ server \in {"answer", "next"} => command # Nothing
  /\ server = "next" => command.verb = "NEXT"
  /\ server # "write" => answer = Nothing

\* Before a session has ended no global points to a freed block, and the group
\* is never set without the notice.
Globals ==
  /\ ~ended => currentGroupName # "freed" /\ lastNoticeId.block # "freed"
  /\ currentGroupName = "live" => lastNoticeId.block = "live"

\* What the good days are good for: nobody leaves the server with an end that
\* it still reads or writes, and what it frees is set.
GoodDays ==
  calm =>
    /\ server # "down"
    /\ directory # <<>>
    /\ \A c \in Conns :
         conns[c].server \in {"queued", "open"} =>
           conns[c].client = "open" \/ Finished(c)
    /\ server = "end" \/ (server = "write" /\ IsQuit) =>
         ~ended \/ currentGroupName = "live"

\* The stack of a group.
GroupStack(group) == GetNoticesByGroupName(directory, group)

\* The listing is the bottom of this stack, read from the top.
BottomOf(stack) ==
  /\ Len(listing) <= Len(stack)
  /\ \A i \in 1..Len(listing) : listing[i] = stack[Len(listing) + 1 - i]

\* It is that of a group, or of "*".
ListingIsStack == \E arg \in Arguments : BottomOf(GroupStack(arg))

\* The inductive invariant.
IInv ==
  /\ TypeOK
  /\ BacklogIsWaiting
  /\ Serving
  /\ Answering
  /\ Globals
  /\ GoodDays
  /\ ListingIsStack

-----------------------------------------------------------------------------
(* Facts about connections and the backlog. *)

\* Taking the oldest connection takes it away altogether.
LEMMA TakeFromBacklog ==
  ASSUME backlog \in Seq(Conns), backlog # <<>>, Distinct, backlog' = Tail(backlog)
  PROVE  /\ backlog' \in Seq(Conns) /\ Len(backlog') = Len(backlog) - 1
         /\ Head(backlog) \in Conns /\ Waits(Head(backlog))
         /\ \A c : Waits(c)' <=> Waits(c) /\ c # Head(backlog)
         /\ Distinct'
<1>1. /\ backlog' \in Seq(Conns) /\ Len(backlog') = Len(backlog) - 1
      /\ Len(backlog) \in Nat \ {0}
      /\ Head(backlog) = backlog[1] /\ backlog[1] \in Conns
      /\ \A i \in 1..Len(backlog') : backlog'[i] = backlog[i + 1]
  OBVIOUS
<1>2. Waits(Head(backlog))
  BY <1>1 DEF Waits
<1>3. ASSUME NEW c, Waits(c)' PROVE Waits(c) /\ c # Head(backlog)
  <2>1. PICK i \in 1..Len(backlog') : backlog'[i] = c
    BY <1>3 DEF Waits
  <2>2. i + 1 \in 1..Len(backlog) /\ backlog[i + 1] = c /\ i + 1 # 1
    BY <1>1, <2>1
  <2> QED BY <1>1, <2>2 DEF Waits, Distinct
<1>4. ASSUME NEW c, Waits(c), c # Head(backlog) PROVE Waits(c)'
  <2>1. PICK i \in 1..Len(backlog) : backlog[i] = c
    BY <1>4 DEF Waits
  <2>2. i - 1 \in 1..Len(backlog') /\ backlog'[i - 1] = c
    BY <1>1, <1>4, <2>1
  <2> QED BY <2>2 DEF Waits
<1>5. Distinct'
  <2> SUFFICES ASSUME NEW i \in 1..Len(backlog'), NEW j \in 1..Len(backlog'),
                      backlog'[i] = backlog'[j]
               PROVE  i = j
    BY DEF Distinct
  <2>1. /\ i + 1 \in 1..Len(backlog) /\ j + 1 \in 1..Len(backlog)
        /\ backlog[i + 1] = backlog[j + 1]
    BY <1>1
  <2> QED BY <2>1 DEF Distinct
<1> QED BY <1>1, <1>2, <1>3, <1>4, <1>5

\* A connection that did not wait joins those that do.
LEMMA PutInBacklog ==
  ASSUME backlog \in Seq(Conns), Distinct, NEW c \in Conns, ~Waits(c),
         backlog' = Append(backlog, c)
  PROVE  /\ backlog' \in Seq(Conns) /\ Len(backlog') = Len(backlog) + 1
         /\ \A d : Waits(d)' <=> Waits(d) \/ d = c
         /\ Distinct'
<1>1. /\ backlog' \in Seq(Conns) /\ Len(backlog') = Len(backlog) + 1
      /\ Len(backlog) \in Nat
      /\ backlog'[Len(backlog) + 1] = c
      /\ \A i \in 1..Len(backlog) : backlog'[i] = backlog[i]
  OBVIOUS
<1>2. \A i \in 1..Len(backlog') : i \in 1..Len(backlog) \/ i = Len(backlog) + 1
  BY <1>1
<1>3. \A d : Waits(d)' <=> Waits(d) \/ d = c
  BY <1>1, <1>2 DEF Waits
<1>4. Distinct'
  BY <1>1, <1>2 DEF Distinct, Waits
<1> QED BY <1>1, <1>3, <1>4

\* Nothing waits in an empty backlog.
LEMMA EmptyBacklog ==
  ASSUME backlog' = <<>>
  PROVE  /\ backlog' \in Seq(Conns) /\ Len(backlog') = 0
         /\ \A c : ~Waits(c)'
         /\ Distinct'
BY DEF Waits, Distinct

LEMMA FreshType == Free \in Connections /\ Fresh \in Connections
BY DEF Free, Fresh, Connections, ClientEnds, ServerEnds

LEMMA ConnectionTypes ==
  ASSUME NEW c \in Connections
  PROVE  /\ ClientCloses(c) \in Connections
         /\ ServerCloses(c) \in Connections
         /\ Answered(c) \in Connections
<1>0. <<>> \in Seq(Pieces) /\ <<>> \in Seq(Commands)
  OBVIOUS
<1>1. ClientCloses(c) \in Connections
  BY <1>0, FreshType DEF Connections, ClientEnds, ClientCloses
<1>2. ServerCloses(c) \in Connections
  BY <1>0, FreshType DEF Connections, ServerEnds, ServerCloses
<1>3. Answered(c) \in Connections
  <2>1. Answer \in Pieces /\ c.down \in Seq(Pieces)
    BY DEF Pieces, Connections
  <2>2. Append(c.down, Answer) \in Seq(Pieces)
    BY <2>1
  <2> HIDE DEF Answer, Pieces
  <2> QED BY <2>2 DEF Connections, ClientEnds, Answered
<1> QED BY <1>1, <1>2, <1>3

\* What each end's steps do to the other.
LEMMA EndsOfConnection ==
  ASSUME NEW c \in Connections
  PROVE  /\ ServerCloses(c).server \in {"none", "closed"}
         /\ Answered(c).server = c.server
         /\ c.client = "open" => Answered(c).client = "open"
         /\ ClientCloses(c).server = c.server
              \/ (c.server = "closed" /\ ClientCloses(c).server = "none")
BY DEF ServerCloses, Answered, ClientCloses, Free, Connections

\* Facts about the invariant's parts that few variables decide.
LEMMA SameListing ==
  ASSUME ListingIsStack, UNCHANGED <<listing, directory>>
  PROVE  ListingIsStack'
BY DEF ListingIsStack, BottomOf, GroupStack

LEMMA SameBacklog ==
  ASSUME BacklogIsWaiting, UNCHANGED backlog,
         \A c \in Conns : conns'[c].server = "queued" <=> conns[c].server = "queued"
  PROVE  BacklogIsWaiting'
BY DEF BacklogIsWaiting, Waits, Distinct

\* Facts about stacks and the listing.
LEMMA GroupStackType ==
  ASSUME TypeOK, NEW group
  PROVE  GroupStack(group) \in Directories
BY EntriesAreDirectory, PushedIsDirectory
   DEF TypeOK, GroupStack, GetNoticesByGroupName, WithGroup

LEMMA EmptyIsListing ==
  ASSUME TypeOK, listing = <<>>
  PROVE  ListingIsStack
<1>1. GroupStack(Star) \in Seq(Ids) /\ Star \in Arguments
  BY GroupStackType, DirectoryIsSequence DEF Arguments
<1> DEFINE stack == GroupStack(Star)
<1> HIDE DEF stack
<1>2. stack \in Seq(Ids)
  BY <1>1 DEF stack
<1>3. BottomOf(stack)
  BY <1>2 DEF BottomOf
<1> QED BY <1>1, <1>3 DEF ListingIsStack, stack

-----------------------------------------------------------------------------
(* Each step keeps the invariant. *)

LEMMA InvInit == Init => IInv
<1> SUFFICES ASSUME Init PROVE IInv
  OBVIOUS
<1> USE DEF Init
<1>1. TypeOK
  <2>1. conns \in [Conns -> Connections]
    BY FreshType
  <2>2. backlog \in Seq(Conns) /\ Len(backlog) <= Backlog
    BY BacklogAssumption
  <2>3. directory \in Directories /\ listing \in Directories
    BY EmptyIsDirectory
  <2>4. calm \in BOOLEAN
    OBVIOUS
  <2> QED BY <2>1, <2>2, <2>3, <2>4 DEF TypeOK, ServerSteps, NullId, Blocks
<1>2. BacklogIsWaiting
  BY DEF BacklogIsWaiting, Waits, Distinct, Free
<1>3. Serving /\ Answering /\ Globals
  BY CommandsAssumption DEF Serving, Answering, Globals, NullId, Free
<1>4. GoodDays
  BY DEF GoodDays, Free
<1>5. ListingIsStack
  BY <1>1, EmptyIsListing
<1> QED BY <1>1, <1>2, <1>3, <1>4, <1>5 DEF IInv

\* What NNTPCommandSetResponse may do: it changes the globals and the listing,
\* and nothing of the connections.
LEMMA ResponseKeeps ==
  ASSUME IInv, server \in {"answer", "next"}, UNCHANGED ButCalm,
         server' \in {"next", "write"},
         server' = "next" => command.verb = "NEXT" /\ answer' = answer,
         answer' \in Texts \cup {Nothing},
         calm' \in BOOLEAN, calm' => calm,
         calm' /\ command.verb = "QUIT" => ~ended \/ currentGroupName' = "live",
         currentGroupName' \in Blocks,
         currentGroupName' = "freed" => currentGroupName = "freed",
         lastNoticeId' \in [block : Blocks, id : Ids \cup {NoNotice}],
         lastNoticeId'.block = "freed" => lastNoticeId.block = "freed",
         currentGroupName' = "live" => lastNoticeId'.block = "live",
         listing' \in Directories, ListingIsStack'
  PROVE  IInv'
<1> USE DEF ButCalm
<1>1. TypeOK'
  BY DEF IInv, TypeOK, ServerSteps
<1>2. BacklogIsWaiting'
  BY SameBacklog DEF IInv
<1>3. Serving' /\ Answering' /\ Globals'
  BY DEF IInv, Serving, Answering, Globals
<1>4. GoodDays'
  BY DEF IInv, GoodDays, Finished, IsQuit, Answering
<1> QED BY <1>1, <1>2, <1>3, <1>4 DEF IInv

LEMMA NoticeFound ==
  ASSUME TypeOK, NEW id
  PROVE  GetNoticeById(directory, id) \in Ids \cup {NoNotice}
BY NoticeOfSearch DEF TypeOK

\* HEAD, BODY, ARTICLE, and whatever only answers.
LEMMA AnswersKeep ==
  ASSUME IInv,
         \/ RetrieveOutside \/ Retrieve \/ NextOutside \/ NextFindsLast
         \/ NextLosesLast \/ ListGroupFails \/ ListNewsgroups \/ Quit
         \/ Otherwise \/ Unanswered
  PROVE  IInv'
<1> USE DEF Goto, Say, Unchanged, globalVars
<1>1. ListingIsStack' /\ UNCHANGED ButCalm /\ UNCHANGED <<listing, currentGroupName>>
  BY SameListing DEF IInv, RetrieveOutside, Retrieve, NextOutside, NextFindsLast,
     NextLosesLast, ListGroupFails, ListNewsgroups, Quit, Otherwise, Unanswered,
     ButCalm
<1>2. CASE Retrieve
  <2>1. lastNoticeId' \in [block : Blocks, id : Ids \cup {NoNotice}]
    BY <1>2, NoticeFound
       DEF Retrieve, IInv, TypeOK, SaveCurrentNoticeId, Blocks
  <2>2. /\ lastNoticeId'.block = "freed" => lastNoticeId.block = "freed"
        /\ currentGroupName' = "live" => lastNoticeId'.block = "live"
    BY <1>1, <1>2 DEF Retrieve, SaveCurrentNoticeId, IInv, Globals
  <2> QED BY <1>1, <1>2, <2>1, <2>2, ResponseKeeps
          DEF Retrieve, Searching, Retrieving, Retrievals, Texts, IInv, TypeOK
<1>3. CASE Quit
  BY <1>1, <1>3, ResponseKeeps DEF Quit, Texts, IInv, TypeOK, Globals
<1>4. CASE Unanswered
  BY <1>1, <1>4, ResponseKeeps
     DEF Unanswered, Searching, Retrieving, SearchingLast, Walking, Listing,
         ListingGroups, Texts, IInv, TypeOK, Globals
<1>5. CASE NextFindsLast
  BY <1>1, <1>5, ResponseKeeps
     DEF NextFindsLast, SearchingLast, Walking, Texts, IInv, TypeOK, Globals
<1>6. CASE \/ RetrieveOutside \/ NextOutside \/ NextLosesLast
           \/ ListGroupFails \/ ListNewsgroups \/ Otherwise
  BY <1>1, <1>6, ResponseKeeps
     DEF RetrieveOutside, Retrieving, Retrievals, NextOutside, NextLosesLast,
         SearchingLast, Walking, ListGroupFails, Listing, ListNewsgroups,
         ListingGroups, Otherwise, Texts, IInv, TypeOK, Globals
<1> QED BY <1>2, <1>3, <1>4, <1>5, <1>6

\* The stack has the notice, and what StackPop gives after it.
LEMMA OlderInStack ==
  ASSUME NEW stack \in Directories, NEW i \in 1..Len(stack)
  PROVE  OlderThan(stack, stack[i]) = IF i = 1 THEN NoNotice ELSE stack[i - 1]
<1>1. stack \in Seq(Ids) /\ IsInjective(stack) /\ DOMAIN stack = 1..Len(stack)
  BY DirectoryIsSequence
<1> DEFINE place == CHOOSE j \in DOMAIN stack : stack[j] = stack[i]
<1>2. place = i
  BY <1>1 DEF IsInjective
<1>3. OlderThan(stack, stack[i]) =
        IF place = 1 THEN NoNotice ELSE stack[place - 1]
  BY DEF OlderThan
<1> HIDE DEF place
<1> QED BY <1>2, <1>3

LEMMA NextWalksKeeps ==
  ASSUME IInv, NextWalks
  PROVE  IInv'
<1> DEFINE last == lastNoticeId.id
           stack == GroupStack(GroupOf[last])
           older == OlderThan(stack, last)
<1>1. stack \in Directories
  BY GroupStackType DEF IInv
<1>2. ASSUME last \in Range(stack) PROVE older \in Ids \cup {NoNotice}
  <2>1. stack \in Seq(Ids) /\ DOMAIN stack = 1..Len(stack)
    BY <1>1, DirectoryIsSequence
  <2>2. PICK i \in 1..Len(stack) : stack[i] = last
    BY <1>2, <2>1 DEF Range
  <2>3. older = IF i = 1 THEN NoNotice ELSE stack[i - 1]
    BY <1>1, <2>2, OlderInStack
  <2> HIDE DEF stack, older
  <2> QED BY <2>1, <2>3
<1>3. /\ server = "next" /\ server' = "write"
      /\ UNCHANGED <<ButCalm, calm, currentGroupName, listing>>
      /\ answer' \in Texts
      /\ \/ UNCHANGED lastNoticeId
         \/ last \in Range(stack) /\ SaveCurrentNoticeId(older)
  BY DEF NextWalks, Unchanged, GroupStack, Texts
<1>4. /\ lastNoticeId' \in [block : Blocks, id : Ids \cup {NoNotice}]
      /\ lastNoticeId'.block = "freed" => lastNoticeId.block = "freed"
      /\ currentGroupName' = "live" => lastNoticeId'.block = "live"
  <2> HIDE DEF stack, older
  <2> QED BY <1>2, <1>3 DEF IInv, TypeOK, Globals, SaveCurrentNoticeId, Blocks
<1>5. ListingIsStack'
  BY <1>3, SameListing DEF IInv, ButCalm
<1>6. command.verb = "NEXT"
  BY <1>3 DEF IInv, Answering
<1> HIDE DEF stack, older, last
<1> QED BY <1>3, <1>4, <1>5, <1>6, ResponseKeeps DEF IInv, TypeOK

\* LISTGROUP shows the group's stack, from its top.
LEMMA ListGroupKeeps ==
  ASSUME IInv, ListGroup
  PROVE  IInv'
<1> DEFINE g == command.arg
           stack == GroupStack(g)
<1>1. stack \in Directories
  BY GroupStackType DEF IInv
<1>2. /\ server = "answer" /\ server' = "write" /\ command.verb = "LISTGROUP"
      /\ UNCHANGED <<ButCalm, calm>>
      /\ stack # <<>> /\ listing' = PopAll(stack) /\ answer' = "Ok"
      /\ currentGroupName' = "live"
      /\ lastNoticeId' = [block |-> "live", id |-> Last(stack)]
  BY DEF ListGroup, Listing, Listed, Goto, Say, Unchanged, GroupStack, StackTope,
         SaveCurrentGroupName, SaveCurrentNoticeId
<1>3. /\ listing' \in Directories /\ Len(listing') = Len(stack)
      /\ \A i \in 1..Len(stack) : listing'[i] = stack[Len(stack) + 1 - i]
  BY <1>1, <1>2, PoppedIsDirectory
<1>4. /\ stack \in Seq(Ids) /\ Len(stack) \in Nat \ {0}
      /\ stack[Len(stack)] \in Ids
  BY <1>1, <1>2, DirectoryIsSequence
<1>5. ListingIsStack'
  <2>1. Uninitialised \in [verb : Verbs, arg : Arguments]
    BY DEF Uninitialised, Verbs, Arguments
  <2>2. command \in [verb : Verbs, arg : Arguments]
    BY <1>2, <2>1, CommandsAssumption DEF IInv, TypeOK, Answering
  <2>3. PICK arg \in Arguments : arg = command.arg
    BY <2>2
  <2>4. GroupStack(arg)' = GroupStack(arg)
    BY <1>2 DEF GroupStack, ButCalm
  <2>5. GroupStack(arg) = stack
    BY <2>3
  <2> HIDE DEF stack
  <2>6. BottomOf(GroupStack(arg))'
    BY <1>2, <1>3, <1>4, <2>4, <2>5 DEF BottomOf
  <2> QED BY <2>6 DEF ListingIsStack
<1>6. Last(stack) \in Ids
  BY <1>4 DEF Last
<1> HIDE DEF stack, g
<1> QED BY <1>2, <1>3, <1>5, <1>6, ResponseKeeps DEF IInv, TypeOK, Texts, Blocks

\* The end of the process, whatever ends it, closes all connections.
LEMMA EndProcessKeeps ==
  ASSUME IInv, EndProcess, calm' = FALSE
  PROVE  IInv'
<1> USE DEF EndProcess, globalVars
<1>1. ASSUME NEW c \in Conns
      PROVE  conns'[c] \in Connections /\ conns'[c].server \in {"none", "closed"}
  BY ConnectionTypes, EndsOfConnection
     DEF IInv, TypeOK, Connections, ServerEnds
<1>2. TypeOK'
  <2>1. conns' \in [Conns -> Connections]
    BY <1>1
  <2>2. backlog' \in Seq(Conns) /\ Len(backlog') <= Backlog
    BY BacklogAssumption
  <2> QED BY <2>1, <2>2 DEF IInv, TypeOK, ServerSteps
<1>3. BacklogIsWaiting'
  BY <1>1, EmptyBacklog DEF BacklogIsWaiting
<1>4. Serving'
  <2>1. NoConn \notin Conns
    BY CommandsAssumption
  <2> QED BY <1>1, <2>1 DEF Serving
<1>5. Answering' /\ Globals' /\ GoodDays'
  BY DEF IInv, Answering, Globals, GoodDays
<1>6. ListingIsStack'
  BY SameListing DEF IInv
<1> QED BY <1>2, <1>3, <1>4, <1>5, <1>6 DEF IInv

\* None of the four ways to die is open on good days: a peer that stays is
\* read from and written to, and the globals are freed once.
LEMMA NoDeathOnGoodDays ==
  ASSUME IInv, \/ ReadNothingDies \/ ListNewsgroupsDies \/ BrokenPipeKills
               \/ DoubleFree
  PROVE  EndProcess /\ calm' = FALSE
<1> USE DEF Dies
<1>1. CASE ReadNothingDies
  <2>1. client \in Conns /\ conns[client].server = "open"
    BY <1>1 DEF ReadNothingDies, NothingToRead, IInv, TypeOK, Serving
  <2> QED BY <1>1, <2>1 DEF ReadNothingDies, NothingToRead, IInv, TypeOK,
             GoodDays, Finished
<1>2. CASE ListNewsgroupsDies
  <2>1. directory \in Seq(Ids)
    BY DirectoryIsSequence DEF IInv, TypeOK
  <2>2. directory = <<>>
    <3>1. ASSUME directory # <<>> PROVE FALSE
      <4>1. 1 \in DOMAIN directory
        BY <2>1, <3>1
      <4>2. GroupOf[directory[1]] \in GetNoticesGroups(directory)
        BY <4>1 DEF GetNoticesGroups, Range
      <4> QED BY <1>2, <4>2 DEF ListNewsgroupsDies
    <3> QED BY <3>1
  <2> QED BY <1>2, <2>2 DEF ListNewsgroupsDies, IInv, TypeOK, GoodDays
<1>3. CASE BrokenPipeKills
  <2>1. client \in Conns /\ conns[client].server = "open"
    BY <1>3 DEF BrokenPipeKills, IInv, TypeOK, Serving
  <2> QED BY <1>3, <2>1 DEF BrokenPipeKills, IInv, TypeOK, GoodDays, Finished
<1>4. CASE DoubleFree
  BY <1>4 DEF DoubleFree, IInv, TypeOK, GoodDays, Globals
<1> QED BY <1>1, <1>2, <1>3, <1>4

-----------------------------------------------------------------------------
(* The steps that change connections.                                       *)

\* A step that changes one connection and keeps who waits and who is served.
LEMMA OneConnection ==
  ASSUME IInv, NEW c \in Conns, NEW d \in Connections,
         conns' = [conns EXCEPT ![c] = d], d.server = conns[c].server,
         UNCHANGED <<backlog, client>>,
         server' \notin {"accept", "down"}, server \notin {"accept", "down"}
  PROVE  /\ conns' \in [Conns -> Connections]
         /\ BacklogIsWaiting' /\ Serving'
         /\ client \in Conns /\ conns[client].server = "open"
<1>1. conns' \in [Conns -> Connections]
  BY DEF IInv, TypeOK
<1>2. \A e \in Conns : conns'[e].server = conns[e].server
  BY DEF IInv, TypeOK
<1>3. BacklogIsWaiting'
  BY <1>2, SameBacklog DEF IInv
<1> QED BY <1>1, <1>2, <1>3 DEF IInv, TypeOK, Serving

\* The server takes a command from its connection, or what it makes of none.
LEMMA ReadKeeps ==
  ASSUME IInv, Read \/ ReadTooLong \/ ReadNothing
  PROVE  IInv'
<1> USE DEF Goto, globalVars, historyVars
<1> DEFINE d == IF ReadNothing THEN conns[client]
                ELSE [conns[client] EXCEPT !.up = Tail(@)]
<1>1. server = "read" /\ server' \in {"answer", "write"} /\ client \in Conns
  BY DEF Read, ReadTooLong, ReadNothing, NothingToRead, IInv, TypeOK, Serving
<1>0. conns[client] \in Connections /\ conns[client].up \in Seq(Commands)
  BY <1>1 DEF IInv, TypeOK, Connections
<1>2. /\ d \in Connections /\ d.server = conns[client].server
      /\ d.client = conns[client].client
  <2>1. CASE ReadNothing
    BY <1>0, <2>1
  <2>2. CASE ~ReadNothing
    <3>1. conns[client].up # <<>>
      BY <2>2 DEF Read, ReadTooLong
    <3>2. Tail(conns[client].up) \in Seq(Commands)
      BY <1>0, <3>1
    <3> QED BY <1>0, <2>2, <3>2 DEF Connections
  <2> QED BY <2>1, <2>2
<1>3. conns' = [conns EXCEPT ![client] = d]
  BY DEF Read, ReadTooLong, ReadNothing, NothingToRead, IInv, TypeOK
<1>4. UNCHANGED <<backlog, client, globalVars, sigpipe, directory, historyVars>>
  BY DEF Read, ReadTooLong, ReadNothing
<1>5. /\ conns' \in [Conns -> Connections] /\ BacklogIsWaiting' /\ Serving'
      /\ conns[client].server = "open"
  <2> HIDE DEF d
  <2> QED BY <1>1, <1>2, <1>3, <1>4, OneConnection
<1>6. TypeOK'
  <2>1. command' \in Commands \cup {Nothing, Uninitialised}
    <3>1. CASE Read
      BY <1>0, <3>1 DEF Read
    <3>2. CASE ~Read
      BY <3>2 DEF ReadTooLong, ReadNothing
    <3> QED BY <3>1, <3>2
  <2>2. answer' \in Texts \cup {Nothing}
    BY DEF Read, ReadTooLong, ReadNothing, IInv, TypeOK, Texts
  <2> QED BY <1>1, <1>4, <1>5, <2>1, <2>2 DEF IInv, TypeOK, ServerSteps
<1>7. Answering'
  <2>1. CASE Read
    <3>1. Head(conns[client].up) \in Commands
      BY <1>0, <2>1 DEF Read
    <3> QED BY <2>1, <3>1, CommandsAssumption DEF Read, Answering, IInv
  <2>2. CASE ReadTooLong
    BY <2>2 DEF ReadTooLong, Answering
  <2>3. CASE ReadNothing
    <3>1. Uninitialised \in [verb : Verbs, arg : Arguments]
      BY DEF Uninitialised, Verbs, Arguments
    <3> QED BY <2>3, <3>1, CommandsAssumption
           DEF ReadNothing, NothingToRead, Answering, IInv
  <2> QED BY <2>1, <2>2, <2>3
<1>8. Globals' /\ ListingIsStack'
  BY <1>4, SameListing DEF IInv, Globals
<1>9. GoodDays'
  <2>1. \A c \in Conns : /\ conns'[c].server = conns[c].server
                         /\ conns'[c].client = conns[c].client
    BY <1>1, <1>2, <1>3 DEF IInv, TypeOK
  <2>2. server' = "write" => ~IsQuit'
    BY DEF Read, ReadTooLong, ReadNothing, IsQuit
  <2> QED BY <1>1, <1>4, <2>1, <2>2 DEF IInv, GoodDays, Finished
<1> QED BY <1>5, <1>6, <1>7, <1>8, <1>9 DEF IInv

\* An answer is written; after QUIT the session is on its end.
LEMMA WriteKeeps ==
  ASSUME IInv, Write
  PROVE  IInv'
<1> USE DEF Write, Goto, globalVars, historyVars
<1> DEFINE d == Answered(conns[client])
<1>1. server = "write" /\ server' \in {"end", "read"} /\ client \in Conns
  BY DEF IInv, TypeOK, Serving
<1>2. /\ d \in Connections /\ d.server = conns[client].server
      /\ conns[client].client = "open" => d.client = "open"
  BY <1>1, ConnectionTypes, EndsOfConnection DEF IInv, TypeOK
<1>3. conns' = [conns EXCEPT ![client] = d]
  BY DEF IInv, TypeOK
<1>4. /\ conns' \in [Conns -> Connections] /\ BacklogIsWaiting' /\ Serving'
      /\ conns[client].server = "open"
  <2> HIDE DEF d
  <2> QED BY <1>1, <1>2, <1>3, OneConnection
<1>5. TypeOK'
  BY <1>1, <1>4 DEF IInv, TypeOK, ServerSteps
<1>6. Answering' /\ Globals' /\ ListingIsStack'
  BY <1>1, SameListing DEF IInv, Answering, Globals
<1>7. GoodDays'
  <2>1. \A c \in Conns : /\ conns'[c].server = conns[c].server
                         /\ conns[c].client = "open" => conns'[c].client = "open"
    <3> HIDE DEF d
    <3> QED BY <1>1, <1>2, <1>3 DEF IInv, TypeOK
  <2> QED BY <1>1, <2>1 DEF IInv, GoodDays, Finished, IsQuit
<1> QED BY <1>4, <1>5, <1>6, <1>7 DEF IInv

\* The server leaves its connection, to the end of its session or by SIGPIPE.
LEMMA LeavesKeep ==
  ASSUME IInv, CloseSession \/ BrokenPipe
  PROVE  IInv'
<1> USE DEF Goto, globalVars, historyVars
<1>1. /\ server \in {"close", "write"} /\ server' = "accept" /\ client' = NoConn
      /\ conns' = [conns EXCEPT ![client] = ServerCloses(conns[client])]
      /\ UNCHANGED <<backlog, globalVars, directory, historyVars>>
      /\ command' \in {command, Nothing} /\ answer' = Nothing
      /\ sigpipe' \in {"handler", "default"}
  BY DEF CloseSession, BrokenPipe, IInv, TypeOK, Answering
<1>2. client \in Conns /\ conns[client].server = "open" /\ NoConn \notin Conns
  BY <1>1, CommandsAssumption DEF IInv, TypeOK, Serving
<1>3. /\ conns' \in [Conns -> Connections]
      /\ conns'[client].server \in {"none", "closed"}
      /\ \A c \in Conns \ {client} : conns'[c] = conns[c]
  BY <1>1, <1>2, ConnectionTypes, EndsOfConnection DEF IInv, TypeOK
<1>4. TypeOK'
  BY <1>1, <1>3 DEF IInv, TypeOK, ServerSteps
<1>5. BacklogIsWaiting'
  BY <1>1, <1>2, <1>3, SameBacklog DEF IInv
<1>6. Serving' /\ Answering' /\ Globals'
  BY <1>1, <1>2, <1>3 DEF IInv, Serving, Answering, Globals
<1>7. GoodDays' /\ ListingIsStack'
  BY <1>1, <1>2, <1>3, SameListing DEF IInv, GoodDays, Finished
<1> QED BY <1>4, <1>5, <1>6, <1>7 DEF IInv

LEMMA EndSessionKeeps ==
  ASSUME IInv, EndSession
  PROVE  IInv'
<1> USE DEF EndSession, Goto
<1>1. TypeOK'
  BY DEF IInv, TypeOK, ServerSteps, Freed, Blocks
<1>2. BacklogIsWaiting' /\ Serving' /\ Answering'
  BY SameBacklog DEF IInv, Serving, Answering
<1>3. GoodDays' /\ ListingIsStack'
  BY SameListing DEF IInv, GoodDays, Finished
<1>4. Globals'
  BY DEF Globals, Freed
<1> QED BY <1>1, <1>2, <1>3, <1>4 DEF IInv

\* The oldest connection is taken from the backlog.
LEMMA AcceptKeeps ==
  ASSUME IInv, Accept
  PROVE  IInv'
<1> USE DEF Accept, globalVars, historyVars
<1> DEFINE c == Head(backlog)
           d == [conns[c] EXCEPT !.server = "open"]
<1>1. /\ backlog' \in Seq(Conns) /\ Len(backlog') = Len(backlog) - 1
      /\ c \in Conns /\ Waits(c) /\ Distinct'
      /\ \A e : Waits(e)' <=> Waits(e) /\ e # c
  BY TakeFromBacklog DEF IInv, TypeOK, BacklogIsWaiting
<1>2. /\ d \in Connections /\ d.server = "open" /\ d.client = conns[c].client
      /\ conns[c].server = "queued"
  BY <1>1 DEF IInv, TypeOK, BacklogIsWaiting, Connections, ServerEnds
<1>3. /\ conns' = [conns EXCEPT ![c] = d] /\ client' = c /\ client = NoConn
      /\ server = "accept" /\ server' \in {"read", "close"}
  BY DEF IInv, Serving
<1>4. NoConn \notin Conns
  BY CommandsAssumption
<1>5. /\ conns' \in [Conns -> Connections] /\ conns'[c] = d
      /\ \A e \in Conns \ {c} : conns'[e] = conns[e]
  <2> HIDE DEF c, d
  <2> QED BY <1>1, <1>2, <1>3 DEF IInv, TypeOK
<1>6. Len(backlog) \in Nat /\ Len(backlog) <= Backlog /\ Backlog \in Nat
  BY BacklogAssumption DEF IInv, TypeOK
<1>7. TypeOK'
  <2> HIDE DEF c, d
  <2> QED BY <1>1, <1>3, <1>5, <1>6 DEF IInv, TypeOK, ServerSteps
<1>8. BacklogIsWaiting' /\ Serving'
  <2> HIDE DEF c, d
  <2> QED BY <1>1, <1>2, <1>3, <1>4, <1>5 DEF IInv, BacklogIsWaiting, Serving
<1>9. Answering' /\ Globals' /\ ListingIsStack'
  BY <1>3, SameListing DEF IInv, Answering, Globals
<1>10. GoodDays'
  <2> HIDE DEF c, d
  <2> QED BY <1>1, <1>2, <1>3, <1>4, <1>5 DEF IInv, GoodDays, Finished
<1> QED BY <1>7, <1>8, <1>9, <1>10 DEF IInv

-----------------------------------------------------------------------------
(* The clients, TCP and the directory. *)

\* A connection is completed and waits.
LEMMA ConnectKeeps ==
  ASSUME IInv, NEW c \in Conns, conns[c] = Free, Enqueue(c),
         conns' = [conns EXCEPT ![c] = Fresh]
  PROVE  IInv'
<1> USE DEF Enqueue, globalVars, historyVars
<1>1. Free.server = "none" /\ Fresh.server = "queued" /\ Fresh.client = "open"
  BY DEF Free, Fresh
<1>2. /\ conns' \in [Conns -> Connections] /\ conns'[c] = Fresh
      /\ \A e \in Conns \ {c} : conns'[e] = conns[e]
  BY FreshType DEF IInv, TypeOK
<1>3. ~Waits(c)
  BY <1>1 DEF IInv, BacklogIsWaiting
<1>4. /\ backlog' \in Seq(Conns) /\ Len(backlog') = Len(backlog) + 1
      /\ \A d : Waits(d)' <=> Waits(d) \/ d = c
      /\ Distinct'
  BY <1>3, PutInBacklog DEF IInv, TypeOK, BacklogIsWaiting
<1>5. Len(backlog) \in Nat /\ Backlog \in Nat
  BY BacklogAssumption DEF IInv, TypeOK
<1>6. TypeOK'
  BY <1>2, <1>4, <1>5 DEF IInv, TypeOK
<1>7. BacklogIsWaiting'
  BY <1>1, <1>2, <1>4 DEF IInv, BacklogIsWaiting
<1>8. Serving'
  <2>1. c # client
    BY <1>1 DEF IInv, Serving
  <2> QED BY <1>1, <1>2, <2>1 DEF IInv, Serving
<1>9. Answering' /\ Globals' /\ ListingIsStack'
  BY SameListing DEF IInv, Answering, Globals
<1>10. GoodDays'
  BY <1>1, <1>2 DEF IInv, GoodDays, Finished, IsQuit
<1> QED BY <1>6, <1>7, <1>8, <1>9, <1>10 DEF IInv

\* A client, or TCP on its side, changes its connection: it leaves the server's
\* end as it is, or removes a connection that the server has closed.
LEMMA ClientKeeps ==
  ASSUME IInv, NEW c \in Conns, NEW d \in Connections,
         conns' = [conns EXCEPT ![c] = d],
         \/ d.server = conns[c].server
         \/ conns[c].server = "closed" /\ d.server = "none",
         UNCHANGED <<clientlessVars, backlog>>,
         calm' \in BOOLEAN, calm' => calm,
         calm' /\ conns[c].client = "open" /\ d.client # "open" => Finished(c)
  PROVE  IInv'
<1> USE DEF clientlessVars, globalVars
<1>1. /\ conns' \in [Conns -> Connections] /\ conns'[c] = d
      /\ \A e \in Conns \ {c} : conns'[e] = conns[e]
  BY DEF IInv, TypeOK
<1>2. \A e \in Conns : /\ conns'[e].server = "queued" <=> conns[e].server = "queued"
                       /\ conns'[e].server = "open" <=> conns[e].server = "open"
  BY <1>1
<1>3. TypeOK'
  BY <1>1 DEF IInv, TypeOK
<1>4. BacklogIsWaiting'
  BY <1>2, SameBacklog DEF IInv
<1>5. Serving' /\ Answering' /\ Globals' /\ ListingIsStack'
  BY <1>2, SameListing DEF IInv, Serving, Answering, Globals
<1>6. GoodDays'
  <2> SUFFICES ASSUME calm' PROVE GoodDays'
    BY DEF GoodDays
  <2>1. ASSUME NEW e \in Conns, conns'[e].server \in {"queued", "open"}
        PROVE  conns'[e].client = "open" \/ Finished(e)'
    <3>1. conns[e].server \in {"queued", "open"}
      BY <1>2, <2>1
    <3>2. conns[e].client = "open" \/ Finished(e)
      BY <3>1 DEF IInv, GoodDays
    <3>3. Finished(e) => client = e /\ server \in {"end", "close"}
      BY <3>1 DEF Finished
    <3>4. client = e /\ server \in {"end", "close"} => Finished(e)'
      BY DEF Finished
    <3>5. CASE e = c
      BY <1>1, <3>2, <3>3, <3>4, <3>5
    <3>6. CASE e # c
      BY <1>1, <3>2, <3>3, <3>4, <3>6
    <3> QED BY <3>5, <3>6
  <2> QED BY <2>1 DEF IInv, GoodDays, IsQuit
<1> QED BY <1>3, <1>4, <1>5, <1>6 DEF IInv

LEMMA OthersKeep ==
  ASSUME IInv, NEW c \in Conns, OtherStep(c) \/ ResetArrives(c)
  PROVE  IInv'
<1>0. conns[c] \in Connections /\ calm \in BOOLEAN
  BY DEF IInv, TypeOK
<1>1. CASE OtherConnects(c)
  BY <1>1, ConnectKeeps DEF OtherConnects
<1>2. CASE OtherSends(c)
  <2>1. PICK cmd \in Commands : conns' = [conns EXCEPT ![c].up = <<cmd>>]
    BY <1>2 DEF OtherSends
  <2>0. <<cmd>> \in Seq(Commands)
    OBVIOUS
  <2> DEFINE d == [conns[c] EXCEPT !.up = <<cmd>>]
  <2>2. /\ d \in Connections /\ d.server = conns[c].server
        /\ d.client = conns[c].client /\ conns' = [conns EXCEPT ![c] = d]
    BY <1>0, <2>0, <2>1 DEF Connections, IInv, TypeOK
  <2> HIDE DEF d
  <2> QED BY <1>0, <1>2, <2>2, ClientKeeps DEF OtherSends
<1>3. CASE OtherReads(c)
  <2> DEFINE d == [conns[c] EXCEPT !.down = <<>>]
  <2>0. <<>> \in Seq(Pieces)
    OBVIOUS
  <2>1. /\ d \in Connections /\ d.server = conns[c].server
        /\ d.client = conns[c].client /\ conns' = [conns EXCEPT ![c] = d]
    BY <1>0, <1>3, <2>0 DEF Connections, OtherReads, IInv, TypeOK
  <2> HIDE DEF d
  <2> QED BY <1>0, <1>3, <2>1, ClientKeeps DEF OtherReads
<1>4. CASE OtherLeaves(c)
  <2> DEFINE d == ClientCloses(conns[c])
  <2>1. /\ d \in Connections
        /\ d.server = conns[c].server
             \/ (conns[c].server = "closed" /\ d.server = "none")
    BY <1>0, ConnectionTypes, EndsOfConnection
  <2>2. conns' = [conns EXCEPT ![c] = d] /\ conns'[c] = d
    BY <1>4 DEF OtherLeaves, IInv, TypeOK
  <2>3. calm' \in BOOLEAN /\ (calm' => calm)
    BY <1>0, <1>4 DEF OtherLeaves, WatchLeaving
  <2>4. calm' /\ conns[c].client = "open" /\ d.client # "open" => Finished(c)
    BY <1>4, <2>2 DEF OtherLeaves, WatchLeaving
  <2> HIDE DEF d
  <2> QED BY <1>4, <2>1, <2>2, <2>3, <2>4, ClientKeeps DEF OtherLeaves
<1>5. CASE ResetArrives(c)
  <2> DEFINE d == [conns[c] EXCEPT !.client = "reset"]
  <2>1. /\ d \in Connections /\ d.server = conns[c].server
        /\ conns[c].client # "open" /\ conns' = [conns EXCEPT ![c] = d]
    BY <1>0, <1>5 DEF Connections, ClientEnds, ResetArrives, IInv, TypeOK
  <2>2. UNCHANGED <<clientlessVars, backlog, calm>>
    BY <1>5 DEF ResetArrives, clientlessVars, historyVars
  <2> HIDE DEF d
  <2> QED BY <1>0, <2>1, <2>2, ClientKeeps
<1> QED BY <1>1, <1>2, <1>3, <1>4, <1>5 DEF OtherStep

\* A group's stack only grows upwards, and stops at its last slot.
LEMMA StackGrows ==
  ASSUME NEW d \in Directories, NEW n \in Ids \ Range(d), NEW group
  PROVE  LET old == GetNoticesByGroupName(d, group)
             new == GetNoticesByGroupName(Append(d, n), group)
         IN /\ Len(old) <= Len(new)
            /\ \A i \in 1..Len(old) : new[i] = old[i]
<1> DEFINE ids == {m \in Ids : InGroup(m, group)}
           E == Entries(d, ids)
           F == Entries(Append(d, n), ids)
<1>1. E \in Directories /\ F \in Directories
  BY StoredIsDirectory, EntriesAreDirectory
<1>2. E \in Seq(Ids) /\ F \in Seq(Ids)
  BY <1>1, DirectoryIsSequence
<1>3. F = IF n \in ids THEN Append(E, n) ELSE E
  BY DirectoryIsSequence, EntriesOfAppend
<1>4. Len(E) <= Len(F) /\ \A i \in 1..Len(E) : F[i] = E[i]
  <2> HIDE DEF E, F, ids
  <2> QED BY <1>2, <1>3
<1>5. /\ GetNoticesByGroupName(d, group) = Pushed(E)
      /\ GetNoticesByGroupName(Append(d, n), group) = Pushed(F)
  BY DEF GetNoticesByGroupName, WithGroup
<1>6. /\ Len(Pushed(E)) = IF Len(E) < DIM THEN Len(E) ELSE DIM
      /\ Len(Pushed(F)) = IF Len(F) < DIM THEN Len(F) ELSE DIM
      /\ \A i \in 1..Len(Pushed(E)) : Pushed(E)[i] = E[i]
      /\ \A i \in 1..Len(Pushed(F)) : Pushed(F)[i] = F[i]
  <2> HIDE DEF E, F
  <2> QED BY <1>1, PushedIsDirectory
<1>7. /\ Len(Pushed(E)) <= Len(Pushed(F))
      /\ \A i \in 1..Len(Pushed(E)) : Pushed(F)[i] = Pushed(E)[i]
  <2>1. Len(E) \in Nat /\ Len(F) \in Nat /\ DIM \in Nat
    BY <1>2, DIMAssumption
  <2> HIDE DEF E, F
  <2> QED BY <1>4, <1>6, <2>1
<1> HIDE DEF E, F
<1> QED BY <1>5, <1>7

LEMMA NoticeStoredKeeps ==
  ASSUME IInv, NoticeStored
  PROVE  IInv'
<1> USE DEF NoticeStored, readerVars, globalVars, historyVars
<1>1. PICK n \in Ids \ Range(directory) : directory' = Append(directory, n)
  OBVIOUS
<1>2. directory \in Directories /\ directory' \in Directories
  BY <1>1, StoredIsDirectory DEF IInv, TypeOK
<1>3. directory' # <<>>
  <2>1. directory \in Seq(Ids)
    BY <1>2, DirectoryIsSequence
  <2> QED BY <1>1, <2>1
<1>4. TypeOK'
  BY <1>2 DEF IInv, TypeOK
<1>5. BacklogIsWaiting' /\ Serving' /\ Answering' /\ Globals'
  BY SameBacklog DEF IInv, Serving, Answering, Globals
<1>6. GoodDays'
  BY <1>3 DEF IInv, GoodDays, Finished, IsQuit
<1>7. ListingIsStack'
  <2>1. PICK arg \in Arguments : BottomOf(GroupStack(arg))
    BY DEF IInv, ListingIsStack
  <2> DEFINE old == GetNoticesByGroupName(directory, arg)
             new == GetNoticesByGroupName(directory', arg)
  <2>2. Len(old) <= Len(new) /\ \A i \in 1..Len(old) : new[i] = old[i]
    BY <1>1, <1>2, StackGrows
  <2>3. old \in Directories /\ new \in Directories
    BY <1>2, EntriesAreDirectory, PushedIsDirectory
       DEF GetNoticesByGroupName, WithGroup
  <2>4. Len(old) \in Nat /\ Len(new) \in Nat /\ Len(listing) \in Nat
    BY <2>3, DirectoryIsSequence DEF IInv, TypeOK
  <2>5. GroupStack(arg) = old /\ GroupStack(arg)' = new
    BY DEF GroupStack
  <2> HIDE DEF old, new
  <2>6. BottomOf(old)
    BY <2>1, <2>5
  <2>7. /\ Len(listing') <= Len(new)
        /\ \A i \in 1..Len(listing') : listing'[i] = new[Len(listing') + 1 - i]
    BY <2>2, <2>4, <2>6 DEF BottomOf
  <2>8. BottomOf(GroupStack(arg))'
    BY <2>5, <2>7 DEF BottomOf
  <2> QED BY <2>8 DEF ListingIsStack
<1> QED BY <1>4, <1>5, <1>6, <1>7 DEF IInv

LEMMA StartKeeps ==
  ASSUME IInv, Start
  PROVE  IInv'
<1> USE DEF Start, Goto
<1>1. client = NoConn /\ backlog = <<>> /\ NoConn \notin Conns
  BY CommandsAssumption DEF IInv, Serving
<1>2. TypeOK'
  BY EmptyIsDirectory DEF IInv, TypeOK, ServerSteps, NullId, Blocks
<1>3. BacklogIsWaiting' /\ Serving' /\ Answering' /\ Globals'
  BY <1>1, SameBacklog DEF IInv, Serving, Answering, Globals, NullId
<1>4. GoodDays'
  <2>1. \A c \in Conns : conns[c].server \notin {"queued", "open"}
    BY <1>1 DEF IInv, BacklogIsWaiting, Waits, Serving
  <2> QED BY <2>1 DEF GoodDays
<1>5. ListingIsStack'
  <2>1. Len(GroupStack(Star)) \in Nat /\ Star \in Arguments
    BY GroupStackType, DirectoryIsSequence DEF IInv, Arguments
  <2>2. GroupStack(Star)' = GroupStack(Star)
    BY DEF GroupStack
  <2>3. BottomOf(GroupStack(Star))'
    BY <2>1, <2>2 DEF BottomOf
  <2> QED BY <2>1, <2>3 DEF ListingIsStack
<1> QED BY <1>2, <1>3, <1>4, <1>5 DEF IInv

LEMMA StutterKeeps ==
  ASSUME IInv, UNCHANGED vars
  PROVE  IInv'
<1> USE DEF vars, globalVars, historyVars
<1>1. TypeOK'
  BY DEF IInv, TypeOK
<1>2. BacklogIsWaiting' /\ ListingIsStack'
  BY SameBacklog, SameListing DEF IInv
<1>3. Serving' /\ Answering' /\ Globals' /\ GoodDays'
  BY DEF IInv, Serving, Answering, Globals, GoodDays, Finished, IsQuit
<1> QED BY <1>1, <1>2, <1>3 DEF IInv

LEMMA InvNext == IInv /\ [Next]_vars => IInv'
<1> SUFFICES ASSUME IInv, [Next]_vars PROVE IInv'
  OBVIOUS
<1>1. CASE SetResponse
  <2>1. CASE ListNewsgroupsDies
    BY <2>1, NoDeathOnGoodDays, EndProcessKeeps
  <2>2. CASE NextWalks
    BY <2>2, NextWalksKeeps
  <2>3. CASE ListGroup
    BY <2>3, ListGroupKeeps
  <2>4. CASE \/ RetrieveOutside \/ Retrieve \/ NextOutside \/ NextFindsLast
             \/ NextLosesLast \/ ListGroupFails \/ ListNewsgroups \/ Quit
             \/ Otherwise
    BY <2>4, AnswersKeep
  <2> QED BY <1>1, <2>1, <2>2, <2>3, <2>4 DEF SetResponse
<1>2. CASE ReadNothingDies \/ BrokenPipeKills \/ DoubleFree
  BY <1>2, NoDeathOnGoodDays, EndProcessKeeps
<1>3. CASE NextDies \/ Terminate
  BY <1>3, EndProcessKeeps DEF NextDies, Terminate
<1>4. CASE Accept \/ Read \/ ReadTooLong \/ ReadNothing
  BY <1>4, AcceptKeeps, ReadKeeps
<1>5. CASE Unanswered
  BY <1>5, AnswersKeep
<1>6. CASE Write \/ BrokenPipe \/ EndSession \/ CloseSession
  BY <1>6, WriteKeeps, LeavesKeep, EndSessionKeeps
<1>7. CASE Start
  BY <1>7, StartKeeps
<1>8. CASE Environment \/ \E c \in Conns : OtherStep(c)
  BY <1>8, NoticeStoredKeeps, OthersKeep DEF Environment
<1>9. CASE UNCHANGED vars
  BY <1>9, StutterKeeps
<1> QED BY <1>1, <1>2, <1>3, <1>4, <1>5, <1>6, <1>7, <1>8, <1>9
        DEF Next, ServerStep, Serve

LEMMA Invariance == Spec => []IInv
BY InvInit, InvNext, PTL DEF Spec

-----------------------------------------------------------------------------
(* What a reader should know. *)

\* Every variable of the server keeps its type, whatever its clients do: the
\* backlog stays within its limit, a directory without repetition.
THEOREM TypeCorrect == Spec => []TypeOK
<1>1. IInv => TypeOK
  BY DEF IInv
<1> QED BY <1>1, Invariance, PTL

\* No order of commands kills the server as long as clients stay for their
\* QUIT and, but for the first session, list a group before, and the directory
\* answers and has a notice.
THEOREM GoodDaysAreSurvived == Spec => []SurvivesGoodDays
<1>1. IInv => SurvivesGoodDays
  BY DEF IInv, GoodDays, SurvivesGoodDays
<1> QED BY <1>1, Invariance, PTL

\* The stack NEXT builds is a narrower search than that of the listing.
LEMMA WalkingFollows ==
  ASSUME IInv, NextWalks,
         NEW i \in DOMAIN listing, lastNoticeId.id = listing[i]
  PROVE  \/ Below(i) = {} /\ answer' = "NoNext"
         \/ /\ answer' = "Ok"
            /\ \E j \in Below(i) :
                 lastNoticeId'.id = listing[j] /\ \A k \in Below(i) : j <= k
<1>1. PICK arg \in Arguments : BottomOf(GroupStack(arg))
  BY DEF IInv, ListingIsStack
<1> DEFINE n == Len(listing)
           k == n + 1 - i
           last == listing[i]
           h == GroupOf[last]
           ids == {m \in Ids : InGroup(m, arg)}
           some == {m \in Ids : InGroup(m, h)}
           E == Entries(directory, ids)
           H == Entries(directory, some)
           stack == GroupStack(h)
           older == OlderThan(stack, last)
<1>2. /\ n \in Nat /\ i \in 1..n /\ last \in Ids /\ directory \in Directories
      /\ directory \in Seq(Ids)
  BY DirectoryIsSequence DEF IInv, TypeOK
<1>3. E \in Directories /\ E \in Seq(Ids) /\ H \in Directories /\ H \in Seq(Ids)
  BY <1>2, EntriesAreDirectory, DirectoryIsSequence
<1>4. /\ GroupStack(arg) = Pushed(E) /\ stack = Pushed(H)
      /\ stack = GetNoticesByGroupName(directory, GroupOf[lastNoticeId.id])
  BY DEF GroupStack, GetNoticesByGroupName, WithGroup
<1>5. /\ n <= Len(E) /\ n <= DIM /\ DIM \in Nat
      /\ \A j \in 1..n : listing[j] = E[n + 1 - j]
  <2> HIDE DEF E
  <2>1. /\ Len(Pushed(E)) = IF Len(E) < DIM THEN Len(E) ELSE DIM
        /\ \A j \in 1..Len(Pushed(E)) : Pushed(E)[j] = E[j]
    BY <1>3, PushedIsDirectory
  <2>2. n <= Len(Pushed(E)) /\ \A j \in 1..n : listing[j] = Pushed(E)[n + 1 - j]
    BY <1>1, <1>4 DEF BottomOf
  <2>3. Len(E) \in Nat /\ DIM \in Nat
    BY <1>3, DIMAssumption
  <2> QED BY <1>2, <2>1, <2>2, <2>3
<1>6. k \in 1..n /\ k \in 1..Len(E) /\ E[k] = last
  <2> HIDE DEF E
  <2> QED BY <1>2, <1>3, <1>5
<1>7. \A m \in 1..n : E[m] \in ids
  <2>1. Range(E) \subseteq ids
    BY <1>2, EntriesMatch
  <2> HIDE DEF E, ids
  <2> QED BY <1>2, <1>3, <1>5, <2>1 DEF Range
<1>8. E[k] \in some /\ some \in SUBSET ids
  <2>1. InGroup(last, arg) /\ InGroup(last, h)
    <3>1. last \in ids
      <4> HIDE DEF E, ids, last
      <4> QED BY <1>6, <1>7
    <3> QED BY <3>1 DEF InGroup
  <2>2. some \in SUBSET ids
    BY <2>1 DEF InGroup
  <2> HIDE DEF E
  <2> QED BY <1>2, <1>6, <2>1, <2>2
<1> HIDE DEF ids, some
<1>9. PICK r \in 1..Len(H) : SameEntry(E, H, some, k, r)
  <2> HIDE DEF k, last
  <2>1. k \in 1..Len(Entries(directory, ids)) /\ Entries(directory, ids)[k] \in some
    BY <1>6, <1>8
  <2> QED BY <1>2, <1>8, <2>1, NarrowerSearch
<1>10. /\ r <= k /\ H[r] = E[k]
       /\ r = 1 => \A l \in 1..(k - 1) : E[l] \notin some
       /\ r > 1 => \E l \in 1..(k - 1) :
                     /\ E[l] = H[r - 1] /\ E[l] \in some
                     /\ \A m \in 1..(k - 1) : E[m] \in some => m <= l
  <2> HIDE DEF E, H, k
  <2> QED BY <1>9 DEF SameEntry
<1>11. /\ stack \in Directories /\ stack \in Seq(Ids)
       /\ r \in 1..Len(stack) /\ stack[r] = last
       /\ r > 1 => stack[r - 1] = H[r - 1]
  <2> HIDE DEF E, H, stack, last
  <2>1. /\ Pushed(H) \in Directories
        /\ Len(Pushed(H)) = IF Len(H) < DIM THEN Len(H) ELSE DIM
        /\ \A j \in 1..Len(Pushed(H)) : Pushed(H)[j] = H[j]
    BY <1>3, PushedIsDirectory
  <2>2. stack \in Directories /\ stack \in Seq(Ids)
    BY <1>4, <2>1, DirectoryIsSequence
  <2>3. Len(H) \in Nat /\ r \in 1..Len(Pushed(H))
    <3>1. r <= k /\ k <= DIM /\ k \in Nat
      BY <1>2, <1>5, <1>6, <1>10
    <3> HIDE DEF k
    <3> QED BY <1>3, <1>5, <1>10, <2>1, <3>1
  <2>4. Pushed(H)[r] = last
    BY <1>6, <1>10, <2>1, <2>3
  <2>5. r > 1 => Pushed(H)[r - 1] = H[r - 1]
    <3>1. r > 1 => r - 1 \in 1..Len(Pushed(H))
      BY <2>1, <2>3
    <3> QED BY <2>1, <3>1
  <2> QED BY <1>4, <2>2, <2>3, <2>4, <2>5
<1>12. older = IF r = 1 THEN NoNotice ELSE stack[r - 1]
  <2> HIDE DEF stack, last
  <2> QED BY <1>11, OlderInStack
<1>13. last \in Range(stack) /\ lastNoticeId.id = last
  <2> HIDE DEF stack, last
  <2>1. DOMAIN stack = 1..Len(stack)
    BY <1>11
  <2>2. last \in Range(stack)
    BY <1>11, <2>1 DEF Range
  <2>3. lastNoticeId.id = last
    BY DEF last
  <2> QED BY <2>2, <2>3
<1>14. \/ older = NoNotice /\ answer' = "NoNext"
       \/ older # NoNotice /\ answer' = "Ok" /\ lastNoticeId'.id = older
  <2>1. answer' = IF older = NoNotice THEN "NoNext" ELSE "Ok"
    BY <1>4, <1>13 DEF NextWalks
  <2>2. older # NoNotice => lastNoticeId' = [block |-> "live", id |-> older]
    BY <1>4, <1>13 DEF NextWalks, SaveCurrentNoticeId
  <2> HIDE DEF older
  <2> QED BY <2>1, <2>2
\* The lines below are the entries before.
<1>15. /\ Below(i) \subseteq (i + 1)..n
       /\ \A j \in (i + 1)..n : j \in Below(i) <=> E[n + 1 - j] \in some
  <2>1. \A j \in (i + 1)..n : n + 1 - j \in 1..n /\ j \in 1..n
    BY <1>2
  <2>2. \A j \in (i + 1)..n : listing[j] = E[n + 1 - j] /\ listing[j] \in Ids
    <3>1. listing \in Seq(Ids)
      BY DirectoryIsSequence DEF IInv, TypeOK
    <3> HIDE DEF E
    <3> QED BY <1>5, <2>1, <3>1
  <2> HIDE DEF E
  <2> QED BY <2>2 DEF Below, some
<1> HIDE DEF older, stack, E, H
<1>16. CASE r = 1
  <2>1. \A j \in (i + 1)..n : n + 1 - j \in 1..(k - 1)
    BY <1>2
  <2>2. Below(i) = {}
    BY <1>10, <1>15, <1>16, <2>1
  <2> QED BY <1>12, <1>14, <1>16, <2>2
<1>17. CASE r # 1
  <2>1. r > 1
    BY <1>3, <1>10, <1>17
  <2>2. PICK l \in 1..(k - 1) :
          /\ E[l] = H[r - 1] /\ E[l] \in some
          /\ \A m \in 1..(k - 1) : E[m] \in some => m <= l
    BY <1>10, <2>1
  <2> DEFINE j == n + 1 - l
  <2>3. j \in (i + 1)..n /\ n + 1 - j = l /\ j \in 1..n
    BY <1>2
  <2>4. j \in Below(i) /\ listing[j] = E[l]
    <3> HIDE DEF j, k
    <3> QED BY <1>5, <1>15, <2>2, <2>3
  <2>5. older = E[l] /\ older # NoNotice
    <3>1. older = E[l]
      BY <1>11, <1>12, <1>17, <2>1, <2>2
    <3>2. l \in 1..Len(E)
      BY <1>2, <1>5, <1>3
    <3> QED BY <1>3, <3>1, <3>2, IdsAssumption
  <2>6. ASSUME NEW m \in Below(i) PROVE j <= m
    <3>1. m \in (i + 1)..n /\ E[n + 1 - m] \in some
      BY <1>15
    <3>2. n + 1 - m \in 1..(k - 1)
      BY <1>2, <3>1
    <3>3. n + 1 - m <= l
      BY <2>2, <3>1, <3>2
    <3> QED BY <1>2, <3>1, <3>3
  <2>7. answer' = "Ok" /\ lastNoticeId'.id = listing[j]
    <3> HIDE DEF j, k
    <3> QED BY <1>14, <2>4, <2>5
  <2> HIDE DEF j
  <2> QED BY <2>4, <2>6, <2>7
<1> QED BY <1>16, <1>17

\* From every line of the listing of LISTGROUP NEXT goes to the next one of the
\* same group, or says that there is none, however the directory has grown
\* since and whether one group was listed or all.
THEOREM NextFollowsListing == Spec => NextWalksListing
<1> DEFINE Follows ==
      server = "next" /\ server' = "write" =>
        \A i \in DOMAIN listing :
          lastNoticeId.id = listing[i] =>
            \/ Below(i) = {} /\ answer' = "NoNext"
            \/ /\ answer' = "Ok"
               /\ \E j \in Below(i) :
                    lastNoticeId'.id = listing[j] /\ \A k \in Below(i) : j <= k
<1>1. ASSUME IInv, [Next]_vars PROVE [Follows]_vars
  <2> SUFFICES ASSUME Next, server = "next", server' = "write" PROVE NextWalks
    BY <1>1, WalkingFollows
  <2>1. ~NextDies /\ ~Terminate
    BY DEF NextDies, Terminate, EndProcess
  <2>2. SetResponse => NextWalks
    BY DEF SetResponse, RetrieveOutside, Retrieving, Retrieve, Searching,
           NextOutside, Walking, NextFindsLast, SearchingLast, NextLosesLast,
           ListGroup, Listing, ListGroupFails, ListNewsgroups, ListingGroups,
           ListNewsgroupsDies, Quit, Otherwise
  <2>3. ~Unanswered
    BY DEF Unanswered, Searching, Retrieving, SearchingLast, Walking, Listing,
           ListingGroups
  <2>4. /\ ~Accept /\ ~Read /\ ~ReadTooLong /\ ~ReadNothing /\ ~ReadNothingDies
        /\ ~Write /\ ~BrokenPipe /\ ~BrokenPipeKills /\ ~EndSession
        /\ ~DoubleFree /\ ~CloseSession /\ ~Start
    BY DEF Accept, Read, ReadTooLong, ReadNothing, ReadNothingDies, NothingToRead,
           Write, BrokenPipe, BrokenPipeKills, EndSession, DoubleFree,
           CloseSession, Start, Goto
  <2>5. ~Environment
    BY DEF Environment, ResetArrives, NoticeStored, readerVars
  <2>6. ~\E c \in Conns : OtherStep(c)
    BY DEF OtherStep, OtherConnects, Enqueue, OtherSends, OtherReads, OtherLeaves,
           clientlessVars
  <2> QED BY <2>1, <2>2, <2>3, <2>4, <2>5, <2>6 DEF Next, ServerStep, Serve
<1> HIDE DEF Follows
<1>2. Spec => [][Follows]_vars
  BY <1>1, Invariance, PTL DEF Spec
<1> QED BY <1>2 DEF NextWalksListing, Follows

=============================================================================
