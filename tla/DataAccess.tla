----------------------------- MODULE DataAccess -----------------------------
(***************************************************************************)
(* NNTPServerDataAccess: takes notices from the MSMQ queue and adds them   *)
(* to the LDAP directory.                                                  *)
(*                                                                         *)
(* Two threads of one process: the saver (NewsSaver's loop) and, once a    *)
(* SIGINT or SIGTERM arrives, the handler Terminate, which Windows runs in *)
(* a thread of its own while the saver goes on.  They share XmlNew, the    *)
(* message the saver took last, and qMsg, the message object of the queue  *)
(* wrapper that Get fills and Insert reuses.                               *)
(***************************************************************************)
EXTENDS NewsData, Sequences

CONSTANTS Arrivals,   \* what the news server puts in the queue
          MaxFaults   \* bound: signals, kills and lost answers

ASSUME ArrivalsAssumption == Arrivals \subseteq Messages

ASSUME BoundsAssumption == MaxFaults \in Nat

VARIABLES
  queue,      \* the private MSMQ queue, oldest first
  inserted,   \* history: messages a publisher's connection put in the queue
  directory,  \* the LDAP tree: the item stored under each id
  ldapUp,     \* the directory server answers
  saver,      \* where the saver is in its loop, "off" when no process runs
  xmlNew,     \* the global XmlNew
  qMsg,       \* body of the wrapper's message object, Nothing when it is NULL
  handler,    \* where the signal handler is, "none" before a signal
  failure,    \* why the last upload failed
  faults,     \* signals, kills and lost answers so far
  late,       \* history: the saver took its message after the signal
  lost,       \* history: messages a dying process had in hand
  copied      \* history: messages put back although they need not have been

ldapVars == <<directory, ldapUp>>
saverVars == <<saver, xmlNew, qMsg, failure>>
historyVars == <<late, lost, copied>>
vars == <<queue, inserted, directory, ldapUp, saver, xmlNew, qMsg, handler,
          failure, faults, late, lost, copied>>

SaverSteps == {"off", "get", "assign", "check", "upload", "failed", "sleep"}
HandlerSteps == {"none", "test", "insert", "exit"}
Failures == {"none", "unreachable", "exists", "unanswered"}

TypeOK ==
  /\ queue \in Seq(Messages)
  /\ inserted \in SUBSET Messages
  /\ directory \in [Ids -> Items \cup {NoItem}]
  /\ ldapUp \in BOOLEAN
  /\ saver \in SaverSteps
  /\ xmlNew \in Messages \cup {Nothing}
  /\ qMsg \in Messages \cup {Nothing}
  /\ handler \in HandlerSteps
  /\ failure \in Failures
  /\ faults \in Nat
  /\ late \in BOOLEAN
  /\ lost \in SUBSET Messages
  /\ copied \in SUBSET Messages

-----------------------------------------------------------------------------
Running == saver # "off"

\* The message the saver has taken out of the queue and not yet disposed of.
InHand ==
  IF saver = "assign" THEN qMsg
  ELSE IF saver \in {"check", "upload", "failed"} THEN xmlNew
  ELSE Nothing

\* What is gone if the process is killed now.
AtRisk == IF InHand = Nothing THEN {} ELSE {InHand}

\* What Terminate cannot be blamed for: the saver took it after the signal, or
\* had received it and not yet assigned it to XmlNew when the signal came.
LateAtRisk == IF late THEN AtRisk ELSE {}

InQueue(m) == \E i \in 1..Len(queue) : queue[i] = m

Stored(m) == directory[m.id] = m.item

Init ==
  /\ queue = <<>>
  /\ inserted = {}
  /\ directory = [id \in Ids |-> NoItem]
  /\ ldapUp = TRUE
  /\ saver = "get"
  /\ xmlNew = Nothing
  /\ qMsg = Short            \* CreateInstance: an object with an empty body
  /\ handler = "none"
  /\ failure = "none"
  /\ faults = 0
  /\ late = FALSE
  /\ lost = {}
  /\ copied = {}

-----------------------------------------------------------------------------
(* The saver. *)

\* MsQeue::Get, its Receive: the message leaves the queue for good.
Receive ==
  /\ saver = "get"
  /\ queue # <<>>
  /\ qMsg' = Head(queue)
  /\ queue' = Tail(queue)
  /\ saver' = "assign"
  /\ late' = (handler # "none")
  /\ UNCHANGED <<inserted, ldapVars, xmlNew, handler, failure, faults, lost,
                 copied>>

\* MsQeue::Get, its Receive when nothing arrives within a second.
ReceiveTimesOut ==
  /\ saver = "get"
  /\ queue = <<>>
  /\ qMsg' = Nothing
  /\ saver' = "assign"
  /\ UNCHANGED <<queue, inserted, ldapVars, xmlNew, handler, failure, faults,
                 historyVars>>

\* Get returns qMsg->Body and the saver assigns it to XmlNew.
Assign ==
  /\ saver = "assign"
  /\ xmlNew' = qMsg
  /\ saver' = IF qMsg = Nothing THEN "sleep" ELSE "check"
  /\ UNCHANGED <<queue, inserted, ldapVars, qMsg, handler, failure, faults,
                 historyVars>>

\* isValid fails: the message is dropped and the loop goes on without sleep.
Discard ==
  /\ saver = "check"
  /\ ~IsValid(xmlNew)
  /\ saver' = "get"
  /\ UNCHANGED <<queue, inserted, ldapVars, xmlNew, qMsg, handler, failure,
                 faults, historyVars>>

\* ParseXml succeeds.
Parse ==
  /\ saver = "check"
  /\ IsValid(xmlNew)
  /\ ~ParseCrashes(xmlNew)
  /\ saver' = "upload"
  /\ UNCHANGED <<queue, inserted, ldapVars, xmlNew, qMsg, handler, failure,
                 faults, historyVars>>

\* The process ends here, with whatever the saver had in hand.
EndProcess ==
  /\ saver' = "off"
  /\ handler' = "none"
  /\ xmlNew' = Nothing
  /\ qMsg' = Short
  /\ failure' = "none"
  /\ late' = FALSE

\* ParseXml dereferences NULL.
ParseFaults ==
  /\ saver = "check"
  /\ IsValid(xmlNew)
  /\ ParseCrashes(xmlNew)
  /\ EndProcess
  /\ lost' = lost \cup AtRisk
  /\ UNCHANGED <<queue, inserted, ldapVars, faults, copied>>

\* Faulty variant: the entry gets the id where its contents belong.
UploadStoresId ==
  /\ saver = "upload"
  /\ ldapUp
  /\ directory[xmlNew.id] = NoItem
  /\ directory' = [directory EXCEPT ![xmlNew.id] = xmlNew.id]
  /\ saver' = "sleep"
  /\ failure' = "none"
  /\ UNCHANGED <<queue, inserted, ldapUp, xmlNew, qMsg, handler, faults,
                 historyVars>>

\* Faulty variant: the result of uploadNotice is taken for a failure.
UploadStoresAndRequeues ==
  /\ saver = "upload"
  /\ ldapUp
  /\ directory[xmlNew.id] = NoItem
  /\ directory' = [directory EXCEPT ![xmlNew.id] = xmlNew.item]
  /\ saver' = "failed"
  /\ failure' = "none"
  /\ UNCHANGED <<queue, inserted, ldapUp, xmlNew, qMsg, handler, faults,
                 historyVars>>

\* Faulty variant: an entry that exists is replaced.
UploadReplaces ==
  /\ saver = "upload"
  /\ ldapUp
  /\ directory' = [directory EXCEPT ![xmlNew.id] = xmlNew.item]
  /\ saver' = "sleep"
  /\ failure' = "none"
  /\ UNCHANGED <<queue, inserted, ldapUp, xmlNew, qMsg, handler, faults,
                 historyVars>>

\* uploadNotice returns 0: ldap_add stored the entry.
UploadStores ==
  /\ saver = "upload"
  /\ ldapUp
  /\ directory[xmlNew.id] = NoItem
  /\ directory' = [directory EXCEPT ![xmlNew.id] = xmlNew.item]
  /\ saver' = "sleep"
  /\ failure' = "none"
  /\ UNCHANGED <<queue, inserted, ldapUp, xmlNew, qMsg, handler, faults,
                 historyVars>>

\* uploadNotice returns 1, whatever ldap_add failed of.
UploadFails ==
  /\ saver = "upload"
  /\ saver' = "failed"
  /\ \/ /\ ~ldapUp
        /\ failure' = "unreachable"
     \/ /\ ldapUp
        /\ directory[xmlNew.id] # NoItem
        /\ failure' = "exists"
  /\ UNCHANGED <<queue, inserted, ldapVars, xmlNew, qMsg, handler, faults,
                 historyVars>>

\* The server stores the entry and goes down before it answers.
UploadUnanswered ==
  /\ saver = "upload"
  /\ ldapUp
  /\ directory[xmlNew.id] = NoItem
  /\ faults < MaxFaults
  /\ faults' = faults + 1
  /\ directory' = [directory EXCEPT ![xmlNew.id] = xmlNew.item]
  /\ ldapUp' = FALSE
  /\ saver' = "failed"
  /\ failure' = "unanswered"
  /\ copied' = copied \cup {xmlNew}
  /\ UNCHANGED <<queue, inserted, xmlNew, qMsg, handler, late, lost>>

\* MsQeue::Insert: the wrapper's message object gets the body and is sent.
Insert(m) ==
  /\ queue' = Append(queue, m)
  /\ qMsg' = m

\* Faulty variant: the message goes back to the front of the queue.
LdapFailsToFront ==
  /\ saver = "failed"
  /\ queue' = <<xmlNew>> \o queue
  /\ qMsg' = xmlNew
  /\ saver' = "sleep"
  /\ UNCHANGED <<inserted, ldapVars, xmlNew, handler, failure, faults,
                 historyVars>>

\* LdapFails puts XmlNew back at the end of the queue.
LdapFails ==
  /\ saver = "failed"
  /\ IF IsValid(xmlNew) THEN Insert(xmlNew) ELSE UNCHANGED <<queue, qMsg>>
  /\ saver' = "sleep"
  /\ UNCHANGED <<inserted, ldapVars, xmlNew, handler, failure, faults,
                 historyVars>>

\* Sleep(timing) returns.  XmlNew still holds the message of this round.
WakeUp ==
  /\ saver = "sleep"
  /\ saver' = "get"
  /\ UNCHANGED <<queue, inserted, ldapVars, xmlNew, qMsg, handler, failure,
                 faults, historyVars>>

Saver ==
  \/ Receive \/ ReceiveTimesOut \/ Assign \/ Discard \/ Parse \/ ParseFaults
  \/ UploadStores \/ UploadFails \/ UploadUnanswered \/ LdapFails \/ WakeUp

-----------------------------------------------------------------------------
(* The signal handler. *)

\* The console delivers SIGINT or SIGTERM: Terminate starts in a new thread.
Signal ==
  /\ Running
  /\ handler = "none"
  /\ faults < MaxFaults
  /\ faults' = faults + 1
  /\ handler' = "test"
  /\ late' = (saver = "assign")
  /\ UNCHANGED <<queue, inserted, ldapVars, saverVars, lost, copied>>

\* Faulty variant: Terminate just leaves.
TerminateTestsNothing ==
  /\ handler = "test"
  /\ handler' = "exit"
  /\ UNCHANGED <<queue, inserted, ldapVars, saverVars, faults, historyVars>>

\* Terminate asks whether XmlNew is worth keeping.
TerminateTests ==
  /\ handler = "test"
  /\ handler' = IF IsValid(xmlNew) THEN "insert" ELSE "exit"
  /\ UNCHANGED <<queue, inserted, ldapVars, saverVars, faults, historyVars>>

\* Terminate sends XmlNew, as it is by now, in the wrapper's message object.
\* The body of a message the saver has received and not yet read out of that
\* object is overwritten.
TerminateInserts ==
  /\ handler = "insert"
  /\ qMsg # Nothing
  /\ LET m == IF xmlNew = Nothing THEN Short ELSE xmlNew
     IN  /\ Insert(m)
         /\ copied' = copied \cup {m}
         /\ lost' = IF saver = "assign" THEN lost \cup AtRisk ELSE lost
  /\ handler' = "exit"
  /\ UNCHANGED <<inserted, ldapVars, saver, xmlNew, failure, faults, late>>

\* Insert through a NULL qMsg raises a _com_error that nobody catches.
TerminateFaults ==
  /\ handler = "insert"
  /\ qMsg = Nothing
  /\ EndProcess
  /\ lost' = lost \cup LateAtRisk
  /\ UNCHANGED <<queue, inserted, ldapVars, faults, copied>>

\* exit(1), while the saver may have taken another message meanwhile.
TerminateExits ==
  /\ handler = "exit"
  /\ EndProcess
  /\ lost' = lost \cup LateAtRisk
  /\ UNCHANGED <<queue, inserted, ldapVars, faults, copied>>

Terminate ==
  \/ TerminateTests \/ TerminateInserts \/ TerminateFaults \/ TerminateExits

-----------------------------------------------------------------------------
(* What happens to the process and to the directory server. *)

\* The process is ended without its handler: power, TerminateProcess, a
\* second signal.
Kill ==
  /\ Running
  /\ faults < MaxFaults
  /\ faults' = faults + 1
  /\ EndProcess
  /\ lost' = lost \cup AtRisk
  /\ UNCHANGED <<queue, inserted, ldapVars, copied>>

\* Somebody starts the program.
Start ==
  /\ ~Running
  /\ saver' = "get"
  /\ UNCHANGED <<queue, inserted, ldapVars, xmlNew, qMsg, handler, failure,
                 faults, historyVars>>

LdapGoesDown ==
  /\ ldapUp
  /\ ldapUp' = FALSE
  /\ UNCHANGED <<queue, inserted, directory, saverVars, handler, faults,
                 historyVars>>

LdapComesUp ==
  /\ ~ldapUp
  /\ ldapUp' = TRUE
  /\ UNCHANGED <<queue, inserted, directory, saverVars, handler, faults,
                 historyVars>>

Environment == Signal \/ Kill \/ Start \/ LdapGoesDown \/ LdapComesUp

\* The news server puts a message in the queue, each notice once.
Arrive(m) ==
  /\ m \notin inserted
  /\ queue' = Append(queue, m)
  /\ inserted' = inserted \cup {m}
  /\ UNCHANGED <<ldapVars, saverVars, handler, faults, historyVars>>

Next ==
  \/ Saver \/ Terminate \/ Environment
  \/ \E m \in Arrivals : Arrive(m)

\* The saver is a thread the operating system schedules; a signal handler
\* that has started runs on.  Nothing else is promised.
Fairness == WF_vars(Saver) /\ WF_vars(Terminate)

Spec == Init /\ [][Next]_vars

FairSpec == Spec /\ Fairness

-----------------------------------------------------------------------------
(* Properties. *)

\* No notice is silently lost: one that reached the queue is still in it, or
\* in the saver's hands, or in the directory, or the process died with it:
\* killed, or by a signal that came before the message was in XmlNew.  Neither
\* a failed upload (LdapFails) nor a signal to a process that has the message
\* in XmlNew (Terminate) may drop it.
NoSilentLoss ==
  \A m \in WholeMessages :
    m \in inserted => InQueue(m) \/ InHand = m \/ Stored(m) \/ m \in lost

\* A notice that nobody put back twice is in one place only: no round of the
\* saver leaves a second copy of a notice in the queue, or one of a notice
\* that is already in the directory.
OnePlace ==
  \A m \in WholeMessages \ copied :
    /\ \A i, j \in 1..Len(queue) : queue[i] = m /\ queue[j] = m => i = j
    /\ ~(InQueue(m) /\ InHand = m)
    /\ Stored(m) => ~InQueue(m) /\ InHand # m

\* A notice that is refused for ever (its id is taken) goes round and round
\* through the queue; the notices behind it are stored all the same, if the
\* directory server comes back for good and the process does not die first.
RefusedNoticeStarvesNobody ==
  \A id \in Ids :
    <>[]ldapUp =>
      (\E m \in WholeMessages : m.id = id /\ InQueue(m))
        ~> (directory[id] # NoItem \/ ~Running)

\* NNTPServerDataAccess.cpp prints "No se pudo conectar con Ldap" on every
\* failed upload: that the directory could not be reached.
FailureIsNoConnection == saver = "failed" => failure # "exists"

=============================================================================
