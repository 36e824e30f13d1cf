-------------------------------- MODULE Wire --------------------------------
(***************************************************************************)
(* A TCP connection between a publisher and the news server, as far as the *)
(* two programs can tell: the state of each end, the segment on its way to *)
(* the server and the answer on its way back.  The protocol never has two  *)
(* segments on their way in one direction: the publisher waits for the     *)
(* answer before it writes again.                                          *)
(***************************************************************************)
EXTENDS NewsData

CONSTANTS Conns,   \* bound: connections that exist at one time
          NoConn   \* no connection

ASSUME ConnsAssumption == NoConn \notin Conns

ClientEnds == {"none", "open", "closed", "reset"}
ServerEnds == {"none", "queued", "open", "closed"}

\* Answers to a handshake: IPC_RPCOK, or none yet.
Answers == {"none", "00"}

Connections ==
  [client : ClientEnds, server : ServerEnds, up : Segments \cup {Nothing},
   down : Answers]

\* A slot of the pool that no connection uses.
Free == [client |-> "none", server |-> "none", up |-> Nothing, down |-> "none"]

\* A connection the server's TCP has completed and its accept not yet taken.
Fresh == [client |-> "open", server |-> "queued", up |-> Nothing,
          down |-> "none"]

\* The client closes its end; what it has sent can still be read.
ClientCloses(c) ==
  IF c.server = "closed" THEN Free ELSE [c EXCEPT !.client = "closed"]

\* The client's process dies: its end is reset and what it has sent may be
\* discarded.
ClientDies(c) ==
  IF c.server = "closed" THEN {Free}
  ELSE {[c EXCEPT !.client = "reset"],
        [c EXCEPT !.client = "reset", !.up = Nothing]}

\* The server closes its end; what it has not read is discarded.
ServerCloses(c) ==
  IF c.client \in {"closed", "reset"} THEN Free
  ELSE [c EXCEPT !.server = "closed", !.up = Nothing]

\* send() on the client's end: nobody gets it once the server's end is closed.
Sent(c, segment) ==
  IF c.server = "closed" THEN c ELSE [c EXCEPT !.up = segment]

=============================================================================
