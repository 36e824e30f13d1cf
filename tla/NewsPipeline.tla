---------------------------- MODULE NewsPipeline ----------------------------
(***************************************************************************)
(* The way of a notice: publishers, news server, queue, data access        *)
(* process, directory.  Publishers and server share the connections, the   *)
(* server and the data access process share the queue.                     *)
(***************************************************************************)
EXTENDS Wire, Sequences

CONSTANTS Publishers, Backlog, Cuts, MaxEnds, MaxCrashes, MaxFaults

\* What the three programs' modules assume.
ASSUME PipelineAssumption ==
  /\ Backlog \in Nat \ {0}
  /\ Cuts \subseteq {"tiny", "short", "broken"}
  /\ MaxEnds \in Nat /\ MaxCrashes \in Nat /\ MaxFaults \in Nat

VARIABLES
  conns, queue, inserted,
  \* publishers
  db, disk, process, sender, sock, cursor, current, found, status, ends,
  entered, exported, sentIds,
  \* news server
  backlog, server, client, received, startups, crashes,
  \* data access
  directory, ldapUp, saver, xmlNew, qMsg, handler, failure, faults, late,
  lost, copied

P == INSTANCE Publisher
S == INSTANCE NewsServer WITH MaxQueued <- 0
A == INSTANCE DataAccess WITH Arrivals <- Messages

\* What each program alone can change.
publisherVars == <<db, disk, process, sender, sock, cursor, current, found,
                   status, ends, entered, exported, sentIds>>
serverVars == <<backlog, server, client, received, startups, crashes>>
accessVars == <<directory, ldapUp, saver, xmlNew, qMsg, handler, failure,
                faults, late, lost, copied>>
vars == <<conns, queue, inserted, publisherVars, serverVars, accessVars>>

Init == P!Init /\ S!Init /\ A!Init

-----------------------------------------------------------------------------
\* A sender connects and TCP puts the connection in the server's backlog.
Connect(p, c) ==
  /\ P!Connect(p, c)
  /\ S!Enqueue(c)
  /\ UNCHANGED accessVars

\* A sender tries to connect and is refused.
Refused(p) ==
  /\ P!ConnectFails(p)
  /\ S!Refuse
  /\ UNCHANGED accessVars

SenderStep(p) ==
  \/ /\ P!SenderStep(p)
     /\ UNCHANGED <<queue, inserted, serverVars, accessVars>>
  \/ \E c \in Conns : Connect(p, c)
  \/ Refused(p)

PublisherStep(p) ==
  \/ SenderStep(p)
  \/ /\ P!EditorStep(p) \/ P!ProcessStep(p)
     /\ UNCHANGED <<queue, inserted, serverVars, accessVars>>

Serve == S!Serve /\ UNCHANGED <<publisherVars, accessVars>>

ServerStep == S!ServerStep /\ UNCHANGED <<publisherVars, accessVars>>

Save == A!Saver /\ UNCHANGED <<conns, publisherVars, serverVars>>

AccessStep ==
  /\ A!Saver \/ A!Terminate \/ A!Environment
  /\ UNCHANGED <<conns, publisherVars, serverVars>>

Next ==
  \/ \E p \in Publishers : PublisherStep(p)
  \/ ServerStep
  \/ AccessStep

Spec == Init /\ [][Next]_vars

\* The threads run: senders (main starts one after the other), the server's
\* loop, the saver.  Nothing is promised of editors, signals and restarts.
Fairness ==
  /\ \A p \in Publishers : WF_vars(SenderStep(p))
  /\ WF_vars(Serve)
  /\ WF_vars(Save)

FairSpec == Spec /\ Fairness

-----------------------------------------------------------------------------
(* Properties. *)

TypeOK == P!TypeOK /\ S!TypeOK /\ A!TypeOK

\* The abstract promise: its notices are those the editors typed.
typedNotices == {[id |-> n.id, item |-> n.item] : n \in entered}

D == INSTANCE NewsDelivery WITH typed <- typedNotices

Delivery == D!Spec

\* The notice is on its way: written by its publisher, read by nobody yet, or
\* in the server's hands, in the queue or in the saver's hands.
OnItsWay(m) ==
  \/ \E c \in Conns : conns[c].up = m
  \/ received = m
  \/ A!InQueue(m)
  \/ A!InHand = m

\* As long as no publisher and no news server dies and no notice is cut
\* short, every notice that its publisher's database took is not exported yet, on its
\* way, stored, or died with the data access process: marking it as exported
\* without any receipt (UpdateDataBase right after the write) is safe then.
NothingVanishes ==
  ends = 0 /\ crashes = 0 /\ Cuts \subseteq {"tiny"} =>
    \A n \in entered :
      db[n.by][n.id].item = n.item =>
        \/ db[n.by][n.id].state = "unsent"
        \/ LET m == Whole(n.id, n.item)
           IN OnItsWay(m) \/ A!Stored(m) \/ m \in lost


\* A notice its publisher's database took gets there: its id is found in the
\* directory in the end, if no publisher or news server dies, no notice is
\* cut short, the directory server comes back for good and so does the data
\* access process.  No editor saving at a bad moment, no refused connection,
\* no sender that had nothing to send and no poisoned message blocks its way.
EveryNoticeArrives ==
  (<>[](ldapUp /\ A!Running)) =>
    \A id \in Ids \ {0} :
      (\E p \in Publishers : db[p][id].state = "unsent")
        ~> (directory[id] # NoItem \/ ends + crashes > 0)
=============================================================================
