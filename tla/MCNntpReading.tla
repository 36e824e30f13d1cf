---------------------------- MODULE MCNntpReading ----------------------------
(* One client and other programs that come and go, over two connections.    *)
(* They ask for a notice or for the groups of an empty directory, type a    *)
(* line that is too long, end the session and the client, or the session    *)
(* alone.                                                                   *)
EXTENDS NntpReading

CONSTANTS g, c1, c2, t1

MCIds == {}
MCGroups == {}
MCGroupOf == [n \in MCIds |-> g]
MCConns == {c1, c2}
MCTerminals == {t1}

MCCommands ==
  { [verb |-> "HEAD", arg |-> Star],
    [verb |-> "LIST", arg |-> "NEWSGROUPS"],
    [verb |-> "OTHER", arg |-> Overlong],
    [verb |-> "QUIT", arg |-> ""], [verb |-> "QUIT", arg |-> "more"] }

=============================================================================
