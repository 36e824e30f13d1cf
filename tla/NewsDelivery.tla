---------------------------- MODULE NewsDelivery ----------------------------
(***************************************************************************)
(* What the publishers, the news server, the queue and the data access     *)
(* process promise together: a notice an editor typed is found in the      *)
(* directory under its id, contents and id are never mixed up or invented, *)
(* and what is in the directory stays as it is.                            *)
(***************************************************************************)
EXTENDS NewsData

VARIABLES typed,      \* notices typed so far
          directory   \* the item found under each id

vars == <<typed, directory>>

TypedNotices == [id : Ids, item : Items]

Init ==
  /\ typed = {}
  /\ directory = [id \in Ids |-> NoItem]

Type(notice) ==
  /\ typed' = typed \cup {notice}
  /\ UNCHANGED directory

Deliver(notice) ==
  /\ notice \in typed
  /\ directory[notice.id] = NoItem
  /\ directory' = [directory EXCEPT ![notice.id] = notice.item]
  /\ UNCHANGED typed

Next == \E notice \in TypedNotices : Type(notice) \/ Deliver(notice)

Spec == Init /\ [][Next]_vars

=============================================================================
