---------------------------- MODULE MCPublisher -----------------------------
(* One publisher; three ids, of which the clock may give any to any notice; *)
(* id 0 is the one uninitialised memory has.                                *)
EXTENDS Publisher

MCIds == {0, 1, 2}

=============================================================================
