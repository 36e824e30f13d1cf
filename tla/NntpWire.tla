------------------------------ MODULE NntpWire ------------------------------
(***************************************************************************)
(* An SSL connection to the NNTP server, as far as its two programs can    *)
(* tell.  A command is one SSL record, which the server reads whole; of an *)
(* answer only its pieces matter, one per read of the client.  The client  *)
(* writes a command and waits for a piece, so that the next command is on  *)
(* its way before the server has read this one only if an answer was cut.  *)
(***************************************************************************)
EXTENDS LdapReads

CONSTANTS Conns,     \* bound: connections that exist at one time
          NoConn,    \* no connection
          Commands,  \* the commands people type
          Nothing    \* no command

\* HEAD, BODY and ARTICLE do the same but for what they print of the notice.
Retrievals == {"HEAD", "BODY", "ARTICLE"}

\* The commands with branches of their own, and any other.
Verbs == Retrievals \cup {"NEXT", "LISTGROUP", "LIST", "QUIT", "OTHER"}

\* "" is no argument.  Overlong are arguments that make the line one of more
\* than 512 characters with its end, "more" is any other text.
Overlong == "overlong"
Arguments == Ids \cup {Star} \cup Groups \cup {"", "more", "NEWSGROUPS", Overlong}

ASSUME CommandsAssumption ==
  /\ Commands \subseteq [verb : Verbs, arg : Arguments]
  /\ Nothing \notin [verb : Verbs, arg : Arguments]
  /\ NoConn \notin Conns

\* What the parser makes of no bytes at all: nntpCommand as malloc left it.
Uninitialised == [verb |-> "OTHER", arg |-> ""]

\* "closed" was closed by its process, "resetting" has been written to since,
\* "reset" is known to be gone at the other end.
ClientEnds == {"none", "open", "closed", "resetting", "reset"}
ServerEnds == {"none", "queued", "open", "closed"}

\* The first piece of an answer, and what a read has left of one.
Answer == [piece |-> "answer"]
Rest == [piece |-> "rest"]
Pieces == {Answer, Rest}

Connections ==
  [client : ClientEnds, server : ServerEnds, up : Seq(Commands),
   down : Seq(Pieces)]

Free == [client |-> "none", server |-> "none", up |-> <<>>, down |-> <<>>]

Fresh == [client |-> "open", server |-> "queued", up |-> <<>>, down |-> <<>>]

\* The client's process closes its end or dies.  With answers unread TCP
\* resets the connection, and what the client had sent is lost.
ClientCloses(c) ==
  IF c.server = "closed" THEN Free
  ELSE IF c.down = <<>> THEN [c EXCEPT !.client = "closed"]
  ELSE [c EXCEPT !.client = "reset", !.up = <<>>, !.down = <<>>]

\* The server closes its end or dies.  With a command unread TCP resets the
\* connection, and the answers on their way are lost.
ServerCloses(c) ==
  IF c.client # "open" THEN Free
  ELSE [c EXCEPT !.server = "closed", !.up = <<>>,
                 !.down = IF c.up = <<>> THEN @ ELSE <<>>]

\* Faulty variant: an answer is written in two blocks.
AnsweredInBlocks(c) ==
  CASE c.client = "open" -> [c EXCEPT !.down = @ \o <<Answer, Rest>>]
    [] c.client = "closed" -> [c EXCEPT !.client = "resetting"]
    [] OTHER -> c

\* SSL_write of an answer: a first one to a closed end goes unnoticed.
Answered(c) ==
  CASE c.client = "open" -> [c EXCEPT !.down = Append(@, Answer)]
    [] c.client = "closed" -> [c EXCEPT !.client = "resetting"]
    [] OTHER -> c

=============================================================================
