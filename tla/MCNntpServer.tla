---------------------------- MODULE MCNntpServer ----------------------------
(* Three notices of two groups, stored in any order, one more than the stack *)
(* holds.  Over two connections programs retrieve, list a group or all of   *)
(* them, walk, quit, or type a line that is too long, in any order.         *)
EXTENDS NntpServer

CONSTANTS n1, n2, n3, g, h, c1, c2

MCIds == {n1, n2, n3}
MCGroups == {g, h}
MCGroupOf == [n \in MCIds |-> IF n = n3 THEN h ELSE g]
MCConns == {c1, c2}

MCCommands ==
  { [verb |-> "HEAD", arg |-> n1],
    [verb |-> "NEXT", arg |-> ""],
    [verb |-> "LISTGROUP", arg |-> g],
    [verb |-> "LISTGROUP", arg |-> Star],
    [verb |-> "LIST", arg |-> "NEWSGROUPS"],
    [verb |-> "OTHER", arg |-> Overlong],
    [verb |-> "QUIT", arg |-> ""] }

=============================================================================
