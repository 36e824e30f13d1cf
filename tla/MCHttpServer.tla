---------------------------- MODULE MCHttpServer ----------------------------
(* Two notices of a group and one of another, one more than the stack       *)
(* holds; one request of every kind that start() tells apart, and one for   *)
(* all groups.                                                              *)
EXTENDS HttpServer, TLC

CONSTANTS n1, n2, n3, g, h, t1, t2

MCIds == {n1, n2, n3}
MCGroups == {g, h}
MCGroupOf == [n \in MCIds |-> IF n = n1 THEN h ELSE g]
MCThreads == {t1, t2}

Get(path, param, arg) ==
  [valid |-> TRUE, path |-> path, param |-> param, arg |-> arg]

MCRequests ==
  { Get("Notice", "notice", n1), Get("Notice", "notice", Star),
    Get("Group", "group", g), Get("Group", "group", Star),
    Get("Index", "", ""), Get("Group", "cut", "") }

MCSymmetry == Permutations(MCThreads) \cup Permutations({n2, n3})

=============================================================================
