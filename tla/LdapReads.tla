----------------------------- MODULE LdapReads -----------------------------
(***************************************************************************)
(* What the reading programs get from the LDAP directory.  A notice never  *)
(* changes once it is stored, so that it is its id here.  The directory is *)
(* the sequence of its notices in the order a search returns them, the     *)
(* order they were added in.                                               *)
(***************************************************************************)
EXTENDS Integers, Sequences, SequencesExt

CONSTANTS Ids,       \* ids of notices
          Star,       \* "*" given for an id or a group: the filter's wildcard
          NoNotice,  \* NULL for a notice
          Groups,    \* names of groups
          GroupOf,   \* the group of each notice
          DIM        \* slots of a stack

ASSUME IdsAssumption ==
  /\ IsFiniteSet(Ids)
  /\ Star \notin Ids
  /\ NoNotice \notin Ids \cup {Star}

ASSUME GroupsAssumption == GroupOf \in [Ids -> Groups]

ASSUME DIMAssumption == DIM \in Nat \ {0}

Directories == {d \in BoundedSeq(Ids, Cardinality(Ids)) : IsInjective(d)}

\* Where a search that matches these ids finds something.
Places(directory, ids) == {i \in DOMAIN directory : directory[i] \in ids}

\* How many are found up to there.
Rank(directory, ids, i) == Cardinality({k \in Places(directory, ids) : k <= i})

\* The entries that searchEntry returns, in the directory's order.
Entries(directory, ids) ==
  [r \in 1..Cardinality(Places(directory, ids)) |->
     directory[CHOOSE i \in Places(directory, ids) : Rank(directory, ids, i) = r]]

\* searchEntry with "utnArticleID=id".
WithId(directory, id) == Entries(directory, {n \in Ids : id \in {n, Star}})

\* What the filter "utnArticleGroupName=group" matches: "*" matches the notices
\* of every group.
InGroup(notice, group) == group \in {GroupOf[notice], Star}

\* searchEntry with that filter.
WithGroup(directory, group) ==
  Entries(directory, {n \in Ids : InGroup(n, group)})

\* LdapServiceGetNoticeById while the directory server answers: the loop over
\* the result keeps the last record.
GetNoticeById(directory, id) ==
  LET found == WithId(directory, id)
  IN IF found = <<>> THEN NoNotice ELSE Last(found)

\* StackPush of each in turn: a full stack ignores what is pushed.
Pushed(notices) == SubSeq(notices, 1, IF Len(notices) < DIM THEN Len(notices)
                                                           ELSE DIM)

\* LdapServiceGetNoticesByGroupName, the empty stack standing for NULL.
GetNoticesByGroupName(directory, group) == Pushed(WithGroup(directory, group))

\* LdapServiceGetNoticesGroups: each name once.
GetNoticesGroups(directory) == {GroupOf[n] : n \in Range(directory)}

StackTope(stack) == Last(stack)

\* StackPop until the stack is empty.
PopAll(stack) == Reverse(stack)

=============================================================================
