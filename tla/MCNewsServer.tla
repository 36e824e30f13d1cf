---------------------------- MODULE MCNewsServer ----------------------------
(* Two clients, a backlog of one, one notice.                              *)
EXTENDS NewsServer

MCIds == {1}
MCCuts == {"tiny", "short", "broken"}

=============================================================================
