-------------------------- MODULE DataAccessProofs --------------------------
(***************************************************************************)
(* NoSilentLoss and OnePlace for every set of ids, items and arrivals and  *)
(* any number of faults.                                                   *)
(***************************************************************************)
EXTENDS DataAccess, TLAPS

\* What the saver's position says about the message it works on, and what a
\* handler that has done its work has saved.
Positions ==
  /\ saver \in {"check", "upload", "failed"} => xmlNew # Nothing /\ qMsg # Nothing
  /\ saver \in {"upload", "failed"} => xmlNew \in WholeMessages
  /\ handler # "none" /\ ~late /\ saver = "assign" => qMsg = Nothing
  /\ handler = "exit" /\ ~late /\ InHand \in WholeMessages => InQueue(InHand)

\* The inductive invariant.
IInv == TypeOK /\ Positions /\ NoSilentLoss

-----------------------------------------------------------------------------
(* Facts about the data. *)

LEMMA BlanksAreNotWhole ==
  ASSUME NEW f, f # "whole"
  PROVE  Blank(f) \notin WholeMessages
BY DEF Blank, WholeMessages

LEMMA MessageFacts ==
  /\ Nothing \notin Messages
  /\ Nothing \notin WholeMessages
  /\ WholeMessages \subseteq Messages
  /\ Short \in Messages
BY BlanksAreNotWhole
   DEF Messages, Nothing, Short, Broken, Hollow, Blank

\* ParseXml works on exactly the complete notices that isValid lets through.
LEMMA WholeParses ==
  ASSUME NEW m \in Messages
  PROVE  /\ m \in WholeMessages => IsValid(m) /\ ~ParseCrashes(m)
         /\ IsValid(m) /\ ~ParseCrashes(m) => m \in WholeMessages
BY BlanksAreNotWhole
   DEF Messages, IsValid, ParseCrashes, Nothing, Short, Broken, Hollow

\* Taking the head keeps every other message in the queue.
LEMMA TakeFromQueue ==
  ASSUME queue \in Seq(Messages), queue # <<>>, queue' = Tail(queue)
  PROVE  /\ queue' \in Seq(Messages)
         /\ Head(queue) \in Messages
         /\ \A m : InQueue(m) => m = Head(queue) \/ InQueue(m)'
<1>1. Head(queue) \in Messages /\ Tail(queue) \in Seq(Messages)
  OBVIOUS
<1>2. ASSUME NEW m, NEW i \in 1..Len(queue), queue[i] = m, m # Head(queue)
      PROVE  \E j \in 1..Len(queue') : queue'[j] = m
  <2>1. i # 1 /\ i - 1 \in 1..Len(queue')
    BY <1>2
  <2>2. queue'[i - 1] = m
    BY <1>2, <2>1
  <2> QED BY <2>1, <2>2
<1> QED BY <1>1, <1>2 DEF InQueue

\* Sending keeps every message in the queue and adds the one sent.
LEMMA PutInQueue ==
  ASSUME queue \in Seq(Messages), NEW s \in Messages, queue' = Append(queue, s)
  PROVE  /\ queue' \in Seq(Messages)
         /\ \A m : m = s \/ InQueue(m) => InQueue(m)'
<1>1. queue' \in Seq(Messages) /\ Len(queue') = Len(queue) + 1 /\ Len(queue) \in Nat
  OBVIOUS
<1>2. queue'[Len(queue) + 1] = s
  OBVIOUS
<1>3. \A i \in 1..Len(queue) : i \in 1..Len(queue') /\ queue'[i] = queue[i]
  BY <1>1
<1> QED BY <1>1, <1>2, <1>3 DEF InQueue

\* Nothing else changes what is in the queue.
LEMMA QueueUnchanged ==
  ASSUME queue' = queue
  PROVE  \A m : InQueue(m)' <=> InQueue(m)
BY DEF InQueue

\* The saver's hands hold a message or nothing, and hold a notice only where
\* the loop is between Receive and the end of the round.
LEMMA InHandType ==
  ASSUME TypeOK
  PROVE  /\ InHand \in Messages \cup {Nothing}
         /\ InHand # Nothing => AtRisk = {InHand}
BY DEF InHand, TypeOK, SaverSteps, AtRisk

\* NoSilentLoss is kept by a step that keeps what is queued (or moves it to
\* the saver's hands), stored or written off, and that accounts for the notice
\* in the saver's hands.
LEMMA KeepNotices ==
  ASSUME NoSilentLoss, inserted' = inserted, lost \subseteq lost',
         \A m \in WholeMessages : InQueue(m) => InQueue(m)' \/ InHand' = m,
         \A m \in WholeMessages : Stored(m) => Stored(m)',
         \A m \in WholeMessages : InHand = m =>
            InQueue(m)' \/ InHand' = m \/ Stored(m)' \/ m \in lost'
  PROVE  NoSilentLoss'
BY DEF NoSilentLoss

-----------------------------------------------------------------------------
(* The invariant. *)

LEMMA InvInit == Init => IInv
<1> SUFFICES ASSUME Init PROVE IInv
  OBVIOUS
<1>1. TypeOK
  <2>1. queue \in Seq(Messages) /\ qMsg \in Messages
    BY DEF Init, Messages
  <2> QED BY <2>1 DEF Init, TypeOK, SaverSteps, HandlerSteps, Failures
<1>2. Positions
  BY DEF Init, Positions
<1>3. NoSilentLoss
  BY DEF Init, NoSilentLoss
<1> QED BY <1>1, <1>2, <1>3 DEF IInv

LEMMA ReceiveTimesOutKeeps == IInv /\ ReceiveTimesOut => IInv'
<1> SUFFICES ASSUME IInv, ReceiveTimesOut PROVE IInv'
  OBVIOUS
<1> USE DEF IInv, ReceiveTimesOut
<1>1. TypeOK'
  BY MessageFacts DEF TypeOK, SaverSteps, HandlerSteps, Failures, saverVars,
         ldapVars, historyVars
<1>2. Positions'
  BY <1>1, MessageFacts, WholeParses, QueueUnchanged
     DEF Positions, InHand, TypeOK, SaverSteps, HandlerSteps, Failures,
         saverVars, ldapVars, historyVars
<1>3. NoSilentLoss'
  BY KeepNotices, QueueUnchanged, MessageFacts, BlanksAreNotWhole, WholeParses
     DEF Positions, InHand, Stored, saverVars, ldapVars, historyVars
<1> QED BY <1>1, <1>2, <1>3 DEF IInv

LEMMA AssignKeeps == IInv /\ Assign => IInv'
<1> SUFFICES ASSUME IInv, Assign PROVE IInv'
  OBVIOUS
<1> USE DEF IInv, Assign
<1>1. TypeOK'
  BY MessageFacts DEF TypeOK, SaverSteps, HandlerSteps, Failures, saverVars,
         ldapVars, historyVars
<1>2. Positions'
  BY <1>1, MessageFacts, WholeParses, QueueUnchanged
     DEF Positions, InHand, TypeOK, SaverSteps, HandlerSteps, Failures,
         saverVars, ldapVars, historyVars
<1>3. NoSilentLoss'
  BY KeepNotices, QueueUnchanged, MessageFacts, BlanksAreNotWhole, WholeParses
     DEF Positions, InHand, Stored, saverVars, ldapVars, historyVars
<1> QED BY <1>1, <1>2, <1>3 DEF IInv

LEMMA DiscardKeeps == IInv /\ Discard => IInv'
<1> SUFFICES ASSUME IInv, Discard PROVE IInv'
  OBVIOUS
<1> USE DEF IInv, Discard
<1>1. TypeOK'
  BY MessageFacts DEF TypeOK, SaverSteps, HandlerSteps, Failures, saverVars,
         ldapVars, historyVars
<1>2. Positions'
  BY <1>1, MessageFacts, WholeParses, QueueUnchanged
     DEF Positions, InHand, TypeOK, SaverSteps, HandlerSteps, Failures,
         saverVars, ldapVars, historyVars
<1>3. NoSilentLoss'
  BY KeepNotices, QueueUnchanged, MessageFacts, BlanksAreNotWhole, WholeParses
     DEF Positions, InHand, Stored, saverVars, ldapVars, historyVars
<1> QED BY <1>1, <1>2, <1>3 DEF IInv

LEMMA ParseKeeps == IInv /\ Parse => IInv'
<1> SUFFICES ASSUME IInv, Parse PROVE IInv'
  OBVIOUS
<1> USE DEF IInv, Parse
<1>1. TypeOK'
  BY MessageFacts DEF TypeOK, SaverSteps, HandlerSteps, Failures, saverVars,
         ldapVars, historyVars
<1>2. Positions'
  BY <1>1, MessageFacts, WholeParses, QueueUnchanged
     DEF Positions, InHand, TypeOK, SaverSteps, HandlerSteps, Failures,
         saverVars, ldapVars, historyVars
<1>3. NoSilentLoss'
  BY KeepNotices, QueueUnchanged, MessageFacts, BlanksAreNotWhole, WholeParses
     DEF Positions, InHand, Stored, saverVars, ldapVars, historyVars
<1> QED BY <1>1, <1>2, <1>3 DEF IInv

LEMMA UploadFailsKeeps == IInv /\ UploadFails => IInv'
<1> SUFFICES ASSUME IInv, UploadFails PROVE IInv'
  OBVIOUS
<1> USE DEF IInv, UploadFails
<1>1. TypeOK'
  BY MessageFacts DEF TypeOK, SaverSteps, HandlerSteps, Failures, saverVars,
         ldapVars, historyVars
<1>2. Positions'
  BY <1>1, MessageFacts, WholeParses, QueueUnchanged
     DEF Positions, InHand, TypeOK, SaverSteps, HandlerSteps, Failures,
         saverVars, ldapVars, historyVars
<1>3. NoSilentLoss'
  BY KeepNotices, QueueUnchanged, MessageFacts, BlanksAreNotWhole, WholeParses
     DEF Positions, InHand, Stored, saverVars, ldapVars, historyVars
<1> QED BY <1>1, <1>2, <1>3 DEF IInv

LEMMA WakeUpKeeps == IInv /\ WakeUp => IInv'
<1> SUFFICES ASSUME IInv, WakeUp PROVE IInv'
  OBVIOUS
<1> USE DEF IInv, WakeUp
<1>1. TypeOK'
  BY MessageFacts DEF TypeOK, SaverSteps, HandlerSteps, Failures, saverVars,
         ldapVars, historyVars
<1>2. Positions'
  BY <1>1, MessageFacts, WholeParses, QueueUnchanged
     DEF Positions, InHand, TypeOK, SaverSteps, HandlerSteps, Failures,
         saverVars, ldapVars, historyVars
<1>3. NoSilentLoss'
  BY KeepNotices, QueueUnchanged, MessageFacts, BlanksAreNotWhole, WholeParses
     DEF Positions, InHand, Stored, saverVars, ldapVars, historyVars
<1> QED BY <1>1, <1>2, <1>3 DEF IInv

LEMMA SignalKeeps == IInv /\ Signal => IInv'
<1> SUFFICES ASSUME IInv, Signal PROVE IInv'
  OBVIOUS
<1> USE DEF IInv, Signal
<1>1. TypeOK'
  BY MessageFacts DEF TypeOK, SaverSteps, HandlerSteps, Failures, saverVars,
         ldapVars, historyVars
<1>2. Positions'
  BY <1>1, MessageFacts, WholeParses, QueueUnchanged
     DEF Positions, InHand, TypeOK, SaverSteps, HandlerSteps, Failures,
         saverVars, ldapVars, historyVars
<1>3. NoSilentLoss'
  BY KeepNotices, QueueUnchanged, MessageFacts, BlanksAreNotWhole, WholeParses
     DEF Positions, InHand, Stored, saverVars, ldapVars, historyVars
<1> QED BY <1>1, <1>2, <1>3 DEF IInv

LEMMA TerminateTestsKeeps == IInv /\ TerminateTests => IInv'
<1> SUFFICES ASSUME IInv, TerminateTests PROVE IInv'
  OBVIOUS
<1> USE DEF IInv, TerminateTests
<1>1. TypeOK'
  BY MessageFacts DEF TypeOK, SaverSteps, HandlerSteps, Failures, saverVars,
         ldapVars, historyVars
<1>2. Positions'
  BY <1>1, MessageFacts, WholeParses, QueueUnchanged
     DEF Positions, InHand, TypeOK, SaverSteps, HandlerSteps, Failures,
         saverVars, ldapVars, historyVars
<1>3. NoSilentLoss'
  BY KeepNotices, QueueUnchanged, MessageFacts, BlanksAreNotWhole, WholeParses
     DEF Positions, InHand, Stored, saverVars, ldapVars, historyVars
<1> QED BY <1>1, <1>2, <1>3 DEF IInv

LEMMA StartKeeps == IInv /\ Start => IInv'
<1> SUFFICES ASSUME IInv, Start PROVE IInv'
  OBVIOUS
<1> USE DEF IInv, Start, Running
<1>1. TypeOK'
  BY MessageFacts DEF TypeOK, SaverSteps, HandlerSteps, Failures, saverVars,
         ldapVars, historyVars
<1>2. Positions'
  BY <1>1, MessageFacts, WholeParses, QueueUnchanged
     DEF Positions, InHand, TypeOK, SaverSteps, HandlerSteps, Failures,
         saverVars, ldapVars, historyVars
<1>3. NoSilentLoss'
  BY KeepNotices, QueueUnchanged, MessageFacts, BlanksAreNotWhole, WholeParses
     DEF Positions, InHand, Stored, saverVars, ldapVars, historyVars
<1> QED BY <1>1, <1>2, <1>3 DEF IInv

LEMMA LdapGoesDownKeeps == IInv /\ LdapGoesDown => IInv'
<1> SUFFICES ASSUME IInv, LdapGoesDown PROVE IInv'
  OBVIOUS
<1> USE DEF IInv, LdapGoesDown
<1>1. TypeOK'
  BY MessageFacts DEF TypeOK, SaverSteps, HandlerSteps, Failures, saverVars,
         ldapVars, historyVars
<1>2. Positions'
  BY <1>1, MessageFacts, WholeParses, QueueUnchanged
     DEF Positions, InHand, TypeOK, SaverSteps, HandlerSteps, Failures,
         saverVars, ldapVars, historyVars
<1>3. NoSilentLoss'
  BY KeepNotices, QueueUnchanged, MessageFacts, BlanksAreNotWhole, WholeParses
     DEF Positions, InHand, Stored, saverVars, ldapVars, historyVars
<1> QED BY <1>1, <1>2, <1>3 DEF IInv

LEMMA LdapComesUpKeeps == IInv /\ LdapComesUp => IInv'
<1> SUFFICES ASSUME IInv, LdapComesUp PROVE IInv'
  OBVIOUS
<1> USE DEF IInv, LdapComesUp
<1>1. TypeOK'
  BY MessageFacts DEF TypeOK, SaverSteps, HandlerSteps, Failures, saverVars,
         ldapVars, historyVars
<1>2. Positions'
  BY <1>1, MessageFacts, WholeParses, QueueUnchanged
     DEF Positions, InHand, TypeOK, SaverSteps, HandlerSteps, Failures,
         saverVars, ldapVars, historyVars
<1>3. NoSilentLoss'
  BY KeepNotices, QueueUnchanged, MessageFacts, BlanksAreNotWhole, WholeParses
     DEF Positions, InHand, Stored, saverVars, ldapVars, historyVars
<1> QED BY <1>1, <1>2, <1>3 DEF IInv

LEMMA ParseFaultsKeeps == IInv /\ ParseFaults => IInv'
<1> SUFFICES ASSUME IInv, ParseFaults PROVE IInv'
  OBVIOUS
<1> USE DEF IInv, ParseFaults, EndProcess, AtRisk, LateAtRisk
<1>1. TypeOK'
  BY InHandType, MessageFacts, BoundsAssumption DEF TypeOK, SaverSteps,
         HandlerSteps, Failures, saverVars, ldapVars, historyVars
<1>2. Positions'
  BY <1>1, MessageFacts, WholeParses, QueueUnchanged
     DEF Positions, InHand, TypeOK, SaverSteps, HandlerSteps, Failures,
         saverVars, ldapVars, historyVars
<1>3. NoSilentLoss'
  BY KeepNotices, QueueUnchanged, InHandType, MessageFacts, WholeParses
     DEF Positions, InHand, Stored, saverVars, ldapVars, historyVars
<1> QED BY <1>1, <1>2, <1>3 DEF IInv

LEMMA TerminateFaultsKeeps == IInv /\ TerminateFaults => IInv'
<1> SUFFICES ASSUME IInv, TerminateFaults PROVE IInv'
  OBVIOUS
<1> USE DEF IInv, TerminateFaults, EndProcess, AtRisk, LateAtRisk
<1>1. TypeOK'
  BY InHandType, MessageFacts, BoundsAssumption DEF TypeOK, SaverSteps,
         HandlerSteps, Failures, saverVars, ldapVars, historyVars
<1>2. Positions'
  BY <1>1, MessageFacts, WholeParses, QueueUnchanged
     DEF Positions, InHand, TypeOK, SaverSteps, HandlerSteps, Failures,
         saverVars, ldapVars, historyVars
<1>3. NoSilentLoss'
  BY KeepNotices, QueueUnchanged, InHandType, MessageFacts, WholeParses
     DEF Positions, InHand, Stored, saverVars, ldapVars, historyVars
<1> QED BY <1>1, <1>2, <1>3 DEF IInv

LEMMA TerminateExitsKeeps == IInv /\ TerminateExits => IInv'
<1> SUFFICES ASSUME IInv, TerminateExits PROVE IInv'
  OBVIOUS
<1> USE DEF IInv, TerminateExits, EndProcess, AtRisk, LateAtRisk
<1>1. TypeOK'
  BY InHandType, MessageFacts, BoundsAssumption DEF TypeOK, SaverSteps,
         HandlerSteps, Failures, saverVars, ldapVars, historyVars
<1>2. Positions'
  BY <1>1, MessageFacts, WholeParses, QueueUnchanged
     DEF Positions, InHand, TypeOK, SaverSteps, HandlerSteps, Failures,
         saverVars, ldapVars, historyVars
<1>3. NoSilentLoss'
  BY KeepNotices, QueueUnchanged, InHandType, MessageFacts, WholeParses
     DEF Positions, InHand, Stored, saverVars, ldapVars, historyVars
<1> QED BY <1>1, <1>2, <1>3 DEF IInv

LEMMA KillKeeps == IInv /\ Kill => IInv'
<1> SUFFICES ASSUME IInv, Kill PROVE IInv'
  OBVIOUS
<1> USE DEF IInv, Kill, EndProcess
<1>1. TypeOK'
  <2>1. AtRisk \subseteq Messages
    BY InHandType DEF AtRisk
  <2>2. faults' \in Nat
    BY DEF TypeOK
  <2> QED BY <2>1, <2>2, MessageFacts
        DEF TypeOK, SaverSteps, HandlerSteps, Failures, saverVars, ldapVars, historyVars
<1>2. Positions'
  BY <1>1, MessageFacts DEF Positions, InHand
<1>3. NoSilentLoss'
  BY KeepNotices, QueueUnchanged, InHandType, MessageFacts
     DEF Stored, ldapVars
<1> QED BY <1>1, <1>2, <1>3 DEF IInv

-----------------------------------------------------------------------------
(* The steps that move a message. *)

\* Receive: from the head of the queue to the saver's hands.
LEMMA ReceiveKeeps == IInv /\ Receive => IInv'
<1> SUFFICES ASSUME IInv, Receive PROVE IInv'
  OBVIOUS
<1> USE DEF IInv, Receive
<1>0. /\ queue' \in Seq(Messages) /\ Head(queue) \in Messages
      /\ \A m : InQueue(m) => m = Head(queue) \/ InQueue(m)'
  BY TakeFromQueue DEF TypeOK
<1>1. TypeOK'
  BY <1>0 DEF TypeOK, SaverSteps, HandlerSteps, Failures, saverVars, ldapVars,
         historyVars
<1>2. Positions'
  BY <1>1, MessageFacts DEF Positions, InHand, HandlerSteps, TypeOK
<1>3. NoSilentLoss'
  <2>1. InHand' = Head(queue) /\ InHand = Nothing
    BY DEF InHand
  <2> QED BY <1>0, <2>1, KeepNotices, MessageFacts DEF Stored, ldapVars
<1> QED BY <1>1, <1>2, <1>3 DEF IInv

\* An upload that stores works on a notice, whose id was free.
LEMMA StoreFacts ==
  ASSUME TypeOK, xmlNew \in WholeMessages, directory[xmlNew.id] = NoItem,
         directory' = [directory EXCEPT ![xmlNew.id] = xmlNew.item]
  PROVE  /\ directory' \in [Ids -> Items \cup {NoItem}]
         /\ \A m \in WholeMessages : m = xmlNew \/ Stored(m) => Stored(m)'
<1>1. /\ xmlNew.id \in Ids /\ xmlNew.item \in Items
      /\ \A m \in WholeMessages : m.id \in Ids /\ m.item \in Items
  BY DEF WholeMessages
<1>2. directory'[xmlNew.id] = xmlNew.item
  BY <1>1 DEF TypeOK
<1>3. ASSUME NEW m \in WholeMessages, Stored(m)
      PROVE  directory'[m.id] = m.item
  <2>1. m.id # xmlNew.id
    BY <1>1, <1>3, SentinelAssumption DEF Stored
  <2> QED BY <1>1, <1>3, <2>1 DEF Stored, TypeOK
<1>4. \A m : Stored(m)' <=> directory'[m.id] = m.item
  BY DEF Stored
<1>5. directory' \in [Ids -> Items \cup {NoItem}]
  BY <1>1 DEF TypeOK
<1> QED BY <1>2, <1>3, <1>4, <1>5

\* UploadStores: from the saver's hands to the directory.
LEMMA UploadStoresKeeps == IInv /\ UploadStores => IInv'
<1> SUFFICES ASSUME IInv, UploadStores PROVE IInv'
  OBVIOUS
<1> USE DEF IInv, UploadStores
<1>0. xmlNew \in WholeMessages
  BY DEF Positions
<1> HIDE DEF UploadStores
<1>a. /\ directory' \in [Ids -> Items \cup {NoItem}]
      /\ \A m \in WholeMessages : m = xmlNew \/ Stored(m) => Stored(m)'
  BY <1>0, StoreFacts DEF UploadStores
<1> USE DEF UploadStores
<1>1. TypeOK'
  BY <1>a DEF TypeOK, SaverSteps, HandlerSteps, Failures, saverVars, ldapVars,
         historyVars
<1>2. Positions'
  BY <1>1, MessageFacts, QueueUnchanged DEF Positions, InHand, historyVars
<1>3. NoSilentLoss'
  <2>1. InHand = xmlNew /\ xmlNew' = xmlNew
    BY DEF InHand
  <2> QED BY <1>a, <2>1, KeepNotices, QueueUnchanged DEF historyVars, Stored
<1> QED BY <1>1, <1>2, <1>3 DEF IInv

\* UploadUnanswered: to the directory, and still in the saver's hands.
LEMMA UploadUnansweredKeeps == IInv /\ UploadUnanswered => IInv'
<1> SUFFICES ASSUME IInv, UploadUnanswered PROVE IInv'
  OBVIOUS
<1> USE DEF IInv, UploadUnanswered
<1>0. xmlNew \in WholeMessages
  BY DEF Positions
<1>a. /\ directory' \in [Ids -> Items \cup {NoItem}]
      /\ \A m \in WholeMessages : Stored(m) => Stored(m)'
  BY <1>0, StoreFacts
<1>b. xmlNew \in Messages /\ faults' \in Nat
  BY <1>0, MessageFacts DEF TypeOK
<1>1. TypeOK'
  BY <1>a, <1>b DEF TypeOK, SaverSteps, HandlerSteps, Failures, saverVars,
         ldapVars, historyVars
<1>2. Positions'
  BY <1>0, <1>1, MessageFacts, QueueUnchanged DEF Positions, InHand
<1>3. NoSilentLoss'
  <2>1. InHand = xmlNew /\ InHand' = xmlNew
    BY DEF InHand
  <2> QED BY <1>a, <2>1, KeepNotices, QueueUnchanged
<1> QED BY <1>1, <1>2, <1>3 DEF IInv

\* LdapFails: from the saver's hands to the end of the queue.
LEMMA LdapFailsKeeps == IInv /\ LdapFails => IInv'
<1> SUFFICES ASSUME IInv, LdapFails PROVE IInv'
  OBVIOUS
<1> USE DEF IInv, LdapFails, Insert
<1>0. xmlNew \in WholeMessages /\ xmlNew \in Messages /\ IsValid(xmlNew)
  BY WholeParses, MessageFacts DEF Positions
<1>a. /\ queue' \in Seq(Messages)
      /\ \A m : m = xmlNew \/ InQueue(m) => InQueue(m)'
  BY <1>0, PutInQueue DEF TypeOK
<1>1. TypeOK'
  BY <1>0, <1>a DEF TypeOK, SaverSteps, HandlerSteps, Failures, saverVars,
         ldapVars, historyVars
<1>2. Positions'
  BY <1>1, MessageFacts DEF Positions, InHand
<1>3. NoSilentLoss'
  <2>1. InHand = xmlNew /\ xmlNew' = xmlNew
    BY DEF InHand
  <2> QED BY <1>a, <2>1, KeepNotices DEF Stored, ldapVars, historyVars
<1> QED BY <1>1, <1>2, <1>3 DEF IInv

\* TerminateInserts: a copy of XmlNew to the end of the queue.
LEMMA TerminateInsertsKeeps == IInv /\ TerminateInserts => IInv'
<1> SUFFICES ASSUME IInv, TerminateInserts PROVE IInv'
  OBVIOUS
<1> DEFINE sent == IF xmlNew = Nothing THEN Short ELSE xmlNew
<1> USE DEF IInv
<1>0. sent \in Messages
  BY MessageFacts DEF TypeOK
<1>a. /\ queue' = Append(queue, sent) /\ qMsg' = sent /\ copied' = copied \cup {sent}
      /\ lost' = IF saver = "assign" THEN lost \cup AtRisk ELSE lost
  BY DEF TerminateInserts, Insert
<1> HIDE DEF sent
<1>b. /\ queue' \in Seq(Messages)
      /\ \A m : m = sent \/ InQueue(m) => InQueue(m)'
  BY <1>0, <1>a, PutInQueue DEF TypeOK
<1>1. TypeOK'
  <2>1. AtRisk \subseteq Messages
    BY InHandType DEF AtRisk
  <2> QED BY <1>0, <1>a, <1>b, <2>1
        DEF TerminateInserts, TypeOK, SaverSteps, HandlerSteps, Failures, saverVars, ldapVars, historyVars
<1>c. sent # Nothing
  BY <1>0, MessageFacts
<1>2. Positions'
  <2>1. saver = "assign" => late
    BY DEF TerminateInserts, Positions
  <2>2. InHand' \in WholeMessages /\ saver # "assign" => InHand' = sent
    BY MessageFacts DEF InHand, TerminateInserts, sent
  <2> QED BY <1>1, <1>a, <1>b, <1>c, <2>1, <2>2
          DEF Positions, TerminateInserts
<1>3. NoSilentLoss'
  <2>1. InHand # Nothing /\ saver = "assign" => InHand \in lost'
    BY <1>a, InHandType
  <2>2. saver # "assign" => InHand' = InHand
    BY DEF InHand, TerminateInserts
  <2> QED BY <1>a, <1>b, <2>1, <2>2, KeepNotices, MessageFacts
          DEF TerminateInserts, Stored, ldapVars
<1> QED BY <1>1, <1>2, <1>3 DEF IInv

\* Arrive: from the news server to the end of the queue.
LEMMA EnqueueKeeps ==
  ASSUME IInv, NEW n \in Messages, queue' = Append(queue, n),
         inserted' = inserted \cup {n},
         UNCHANGED <<ldapVars, saverVars, handler, faults, historyVars>>
  PROVE  IInv'
<1> USE DEF IInv
<1>a. /\ queue' \in Seq(Messages)
      /\ \A m : m = n \/ InQueue(m) => InQueue(m)'
  BY PutInQueue DEF TypeOK
<1>1. TypeOK'
  BY <1>a DEF TypeOK, SaverSteps, HandlerSteps, Failures, saverVars,
         ldapVars, historyVars
<1>2. Positions'
  BY <1>1, <1>a DEF Positions, InHand, saverVars, historyVars
<1>3. NoSilentLoss'
  BY <1>a DEF NoSilentLoss, Stored, InHand, saverVars, ldapVars, historyVars
<1> QED BY <1>1, <1>2, <1>3 DEF IInv

LEMMA ArriveKeeps == ASSUME NEW n \in Arrivals PROVE IInv /\ Arrive(n) => IInv'
BY ArrivalsAssumption, EnqueueKeeps DEF Arrive

\* A step that changes nothing.
LEMMA StutterKeeps == IInv /\ UNCHANGED vars => IInv'
BY DEF vars, IInv, TypeOK, Positions, NoSilentLoss, InHand, InQueue, Stored

-----------------------------------------------------------------------------
(* The theorems. *)

LEMMA InvNext == IInv /\ [Next]_vars => IInv'
BY ReceiveKeeps, ReceiveTimesOutKeeps, AssignKeeps, DiscardKeeps, ParseKeeps,
   ParseFaultsKeeps, UploadStoresKeeps, UploadFailsKeeps,
   UploadUnansweredKeeps, LdapFailsKeeps, WakeUpKeeps, SignalKeeps,
   TerminateTestsKeeps, TerminateInsertsKeeps, TerminateFaultsKeeps,
   TerminateExitsKeeps, KillKeeps, StartKeeps, LdapGoesDownKeeps,
   LdapComesUpKeeps, ArriveKeeps, StutterKeeps
   DEF Next, Saver, Terminate, Environment

\* Every variable keeps its type: messages come from the queue only, and the
\* directory maps ids to items.
THEOREM TypeCorrect == Spec => []TypeOK
<1>1. IInv => TypeOK
  BY DEF IInv
<1> QED BY InvInit, InvNext, <1>1, PTL DEF Spec

\* A notice that reached the queue is queued, in the saver's hands or stored,
\* or the process was killed with it or signalled before it had it in XmlNew.
THEOREM NoNoticeSilentlyLost == Spec => []NoSilentLoss
<1>1. IInv => NoSilentLoss
  BY DEF IInv
<1> QED BY InvInit, InvNext, <1>1, PTL DEF Spec

-----------------------------------------------------------------------------
(* A notice in one place. *)

\* Whatever notice the process has, queues or has stored came through the
\* queue.
Sources ==
  \A m \in WholeMessages :
    InQueue(m) \/ xmlNew = m \/ qMsg = m \/ Stored(m) => m \in inserted

Once(m) == \A i, j \in 1..Len(queue) : queue[i] = m /\ queue[j] = m => i = j

LEMMA OncePlace ==
  OnePlace <=> \A m \in WholeMessages \ copied :
                 /\ Once(m)
                 /\ ~(InQueue(m) /\ InHand = m)
                 /\ Stored(m) => ~InQueue(m) /\ InHand # m
BY DEF OnePlace, Once

\* What is taken is gone if it was there once; what stays was there before.
LEMMA TakeOnce ==
  ASSUME queue \in Seq(Messages), queue # <<>>, queue' = Tail(queue), NEW m
  PROVE  /\ InQueue(Head(queue))
         /\ InQueue(m)' => InQueue(m)
         /\ Once(m) => Once(m)'
         /\ Once(m) /\ m = Head(queue) => ~InQueue(m)'
<1>1. /\ Len(queue) \in Nat \ {0} /\ Len(queue') = Len(queue) - 1
      /\ Head(queue) = queue[1]
      /\ \A i \in 1..Len(queue') : queue'[i] = queue[i + 1]
  OBVIOUS
<1>2. \A i \in 1..Len(queue') : i + 1 \in 1..Len(queue) /\ i + 1 # 1
  BY <1>1
<1>3. InQueue(Head(queue))
  BY <1>1 DEF InQueue
<1>4. InQueue(m)' => InQueue(m)
  BY <1>1, <1>2 DEF InQueue
<1>5. Once(m) => Once(m)'
  <2> SUFFICES ASSUME Once(m), NEW i \in 1..Len(queue'), NEW j \in 1..Len(queue'),
                      queue'[i] = m, queue'[j] = m
               PROVE  i = j
    BY DEF Once
  <2>1. i + 1 = j + 1
    BY <1>1, <1>2 DEF Once
  <2> QED BY <2>1
<1>6. Once(m) /\ m = Head(queue) => ~InQueue(m)'
  <2> SUFFICES ASSUME Once(m), m = Head(queue), NEW i \in 1..Len(queue'),
                      queue'[i] = m
               PROVE  FALSE
    BY DEF InQueue
  <2>1. i + 1 = 1
    BY <1>1, <1>2 DEF Once
  <2> QED BY <1>2, <2>1
<1> QED BY <1>3, <1>4, <1>5, <1>6

\* What is sent is in the queue once if it was not there before.
LEMMA PutOnce ==
  ASSUME queue \in Seq(Messages), NEW s \in Messages, queue' = Append(queue, s),
         NEW m
  PROVE  /\ InQueue(m)' => InQueue(m) \/ m = s
         /\ Once(m) /\ (m # s \/ ~InQueue(m)) => Once(m)'
<1>1. /\ Len(queue) \in Nat /\ Len(queue') = Len(queue) + 1
      /\ queue'[Len(queue) + 1] = s
      /\ \A i \in 1..Len(queue) : queue'[i] = queue[i]
  OBVIOUS
<1>2. \A i \in 1..Len(queue') : i \in 1..Len(queue) \/ i = Len(queue) + 1
  BY <1>1
<1> QED BY <1>1, <1>2 DEF InQueue, Once

-----------------------------------------------------------------------------
(* Where the notices come from. *)

LEMMA SourcesInit == Init => Sources
<1> SUFFICES ASSUME Init PROVE Sources
  OBVIOUS
<1>1. \A m \in WholeMessages : ~InQueue(m) /\ m # xmlNew /\ m # qMsg
  BY MessageFacts, BlanksAreNotWhole DEF Init, InQueue, Short
<1>2. \A m \in WholeMessages : ~Stored(m)
  BY SentinelAssumption DEF Init, Stored, WholeMessages
<1> QED BY <1>1, <1>2 DEF Sources

\* What the process holds comes from the queue or from its own variables.
LEMMA SourcesKeeps ==
  ASSUME Sources, UNCHANGED <<directory, inserted>>,
         \A m \in WholeMessages :
           InQueue(m)' \/ xmlNew' = m \/ qMsg' = m =>
             InQueue(m) \/ xmlNew = m \/ qMsg = m
  PROVE  Sources'
BY DEF Sources, Stored

\* The entry under xmlNew's id becomes xmlNew's, no other entry changes.
LEMMA StoreAdds ==
  ASSUME IInv, saver = "upload",
         directory' = [directory EXCEPT ![xmlNew.id] = xmlNew.item],
         directory[xmlNew.id] = NoItem
  PROVE  /\ xmlNew \in WholeMessages
         /\ \A m \in WholeMessages : Stored(m)' <=> Stored(m) \/ m = xmlNew
<1>1. xmlNew \in WholeMessages /\ directory \in [Ids -> Items \cup {NoItem}]
  BY DEF IInv, Positions, TypeOK
<1> QED BY <1>1, SentinelAssumption DEF Stored, WholeMessages

LEMMA SourcesSaver ==
  ASSUME IInv, Sources, Saver
  PROVE  Sources'
<1> USE DEF ldapVars, saverVars, historyVars
<1>1. queue \in Seq(Messages)
  BY DEF IInv, TypeOK
<1>2. CASE Receive
  BY <1>1, <1>2, TakeOnce, SourcesKeeps DEF Receive
<1>3. CASE ReceiveTimesOut
  BY <1>3, SourcesKeeps, QueueUnchanged, MessageFacts DEF ReceiveTimesOut
<1>4. CASE Assign \/ Discard \/ Parse \/ UploadFails \/ WakeUp
  BY <1>4, SourcesKeeps, QueueUnchanged
     DEF Assign, Discard, Parse, UploadFails, WakeUp
<1>5. CASE ParseFaults
  BY <1>5, SourcesKeeps, QueueUnchanged, MessageFacts, BlanksAreNotWhole
     DEF ParseFaults, EndProcess, Short
<1>6. CASE UploadStores \/ UploadUnanswered
  <2>1. \A m \in WholeMessages : Stored(m)' <=> Stored(m) \/ m = xmlNew
    BY <1>6, StoreAdds DEF UploadStores, UploadUnanswered
  <2> QED BY <1>6, <2>1, QueueUnchanged DEF UploadStores, UploadUnanswered, Sources
<1>7. CASE LdapFails
  <2>1. xmlNew \in Messages
    BY <1>7, MessageFacts DEF LdapFails, IInv, Positions
  <2>2. CASE IsValid(xmlNew)
    BY <1>1, <1>7, <2>1, <2>2, PutOnce, SourcesKeeps DEF LdapFails, Insert
  <2>3. CASE ~IsValid(xmlNew)
    BY <1>7, <2>3, SourcesKeeps, QueueUnchanged DEF LdapFails
  <2> QED BY <2>2, <2>3
<1> QED BY <1>2, <1>3, <1>4, <1>5, <1>6, <1>7 DEF Saver

LEMMA SourcesTerminate ==
  ASSUME IInv, Sources, Terminate
  PROVE  Sources'
<1> USE DEF ldapVars, saverVars, historyVars
<1>1. CASE TerminateTests
  BY <1>1, SourcesKeeps, QueueUnchanged DEF TerminateTests
<1>2. CASE TerminateInserts
  <2> DEFINE s == IF xmlNew = Nothing THEN Short ELSE xmlNew
  <2>1. /\ queue \in Seq(Messages) /\ s \in Messages
        /\ s \in WholeMessages => s = xmlNew
    BY MessageFacts, BlanksAreNotWhole DEF IInv, TypeOK, Short
  <2>2. /\ queue' = Append(queue, s) /\ qMsg' = s
        /\ UNCHANGED <<directory, inserted, xmlNew>>
    BY <1>2 DEF TerminateInserts, Insert
  <2> QED BY <2>1, <2>2, PutOnce, SourcesKeeps
<1>3. CASE TerminateFaults \/ TerminateExits
  BY <1>3, SourcesKeeps, QueueUnchanged, MessageFacts, BlanksAreNotWhole
     DEF TerminateFaults, TerminateExits, EndProcess, Short
<1> QED BY <1>1, <1>2, <1>3 DEF Terminate

LEMMA SourcesEnvironment ==
  ASSUME Sources, Environment
  PROVE  Sources'
<1> USE DEF ldapVars, saverVars, historyVars
<1>1. CASE Kill
  BY <1>1, SourcesKeeps, QueueUnchanged, MessageFacts, BlanksAreNotWhole
     DEF Kill, EndProcess, Short
<1>2. CASE Signal \/ Start \/ LdapGoesDown \/ LdapComesUp
  BY <1>2, SourcesKeeps, QueueUnchanged DEF Signal, Start, LdapGoesDown, LdapComesUp
<1> QED BY <1>1, <1>2 DEF Environment

\* A message that is put in the queue is inserted.
LEMMA SourcesEnqueue ==
  ASSUME IInv, Sources, NEW s \in Messages, queue' = Append(queue, s),
         inserted' = inserted \cup {s}, UNCHANGED <<directory, xmlNew, qMsg>>
  PROVE  Sources'
<1>1. queue \in Seq(Messages)
  BY DEF IInv, TypeOK
<1>2. \A m : InQueue(m)' => InQueue(m) \/ m = s
  BY <1>1, PutOnce
<1> QED BY <1>2 DEF Sources, Stored

LEMMA SourcesNext == IInv /\ Sources /\ [Next]_vars => Sources'
<1> SUFFICES ASSUME IInv, Sources, [Next]_vars PROVE Sources'
  OBVIOUS
<1>1. ASSUME NEW s \in Arrivals, Arrive(s) PROVE Sources'
  BY <1>1, SourcesEnqueue, ArrivalsAssumption DEF Arrive, ldapVars, saverVars
<1>2. CASE UNCHANGED vars
  BY <1>2, SourcesKeeps, QueueUnchanged DEF vars
<1> QED BY <1>1, <1>2, SourcesSaver, SourcesTerminate, SourcesEnvironment DEF Next

-----------------------------------------------------------------------------
(* One place for each notice. *)

\* Steps that leave queue and directory alone and put nothing in the saver's
\* hands.
LEMMA PlaceQuiet ==
  ASSUME OnePlace, UNCHANGED <<queue, directory, copied>>,
         InHand' \in {InHand, Nothing}
  PROVE  OnePlace'
BY MessageFacts DEF OnePlace, InQueue, Stored

LEMMA PlaceInit == Init => OnePlace
<1> SUFFICES ASSUME Init PROVE OnePlace
  OBVIOUS
<1>1. \A m \in WholeMessages : ~InQueue(m) /\ InHand # m
  BY MessageFacts DEF Init, InQueue, InHand
<1> QED BY <1>1 DEF Init, OnePlace

LEMMA PlaceReceive ==
  ASSUME IInv, OnePlace, Receive
  PROVE  OnePlace'
<1> USE DEF Receive, ldapVars
<1>1. queue \in Seq(Messages)
  BY DEF IInv, TypeOK
<1>2. InHand = Nothing /\ InHand' = Head(queue)
  BY DEF InHand
<1>3. \A m : Stored(m)' <=> Stored(m)
  BY DEF Stored
<1>4. ASSUME NEW m \in WholeMessages \ copied
      PROVE  /\ Once(m)'
             /\ ~(InQueue(m)' /\ InHand' = m)
             /\ Stored(m)' => ~InQueue(m)' /\ InHand' # m
  BY <1>1, <1>2, <1>3, TakeOnce, OncePlace
<1> QED BY <1>4 DEF OnePlace, Once

\* The entry that is stored was the saver's alone, and no other entry changes.
LEMMA PlaceStores ==
  ASSUME IInv, OnePlace, saver = "upload", saver' \in {"sleep", "failed"},
         directory[xmlNew.id] = NoItem,
         directory' = [directory EXCEPT ![xmlNew.id] = xmlNew.item],
         UNCHANGED <<queue, xmlNew>>,
         \/ copied' = copied /\ saver' = "sleep"
         \/ copied' = copied \cup {xmlNew}
  PROVE  OnePlace'
<1>1. /\ xmlNew \in WholeMessages /\ InHand = xmlNew
      /\ \A m \in WholeMessages : Stored(m)' <=> Stored(m) \/ m = xmlNew
  BY StoreAdds DEF InHand
<1>2. \/ InHand' = xmlNew /\ copied' = copied \cup {xmlNew}
      \/ InHand' = Nothing
  BY DEF InHand
<1>3. ASSUME NEW m \in WholeMessages \ copied'
      PROVE  /\ Once(m)'
             /\ ~(InQueue(m)' /\ InHand' = m)
             /\ Stored(m)' => ~InQueue(m)' /\ InHand' # m
  <2>1. Once(m)' <=> Once(m)
    BY DEF Once
  <2>2. InQueue(m)' <=> InQueue(m)
    BY DEF InQueue
  <2>3. m \notin copied
    OBVIOUS
  <2>4. InHand' # m
    BY <1>2, <1>3, MessageFacts
  <2> QED BY <1>1, <2>1, <2>2, <2>3, <2>4, OncePlace
<1> QED BY <1>3 DEF OnePlace, Once

\* The message goes from the saver's hands back to the queue.
LEMMA PlaceLdapFails ==
  ASSUME IInv, OnePlace, LdapFails
  PROVE  OnePlace'
<1> USE DEF LdapFails, ldapVars, historyVars
<1>1. queue \in Seq(Messages) /\ xmlNew \in WholeMessages /\ xmlNew \in Messages
  BY MessageFacts DEF IInv, TypeOK, Positions
<1>2. queue' = Append(queue, xmlNew) /\ UNCHANGED <<directory, copied>>
  BY <1>1, WholeParses DEF Insert
<1>3. InHand = xmlNew /\ InHand' = Nothing
  BY DEF InHand
<1>4. \A m : Stored(m)' <=> Stored(m)
  BY <1>2 DEF Stored
<1>5. ASSUME NEW m \in WholeMessages \ copied
      PROVE  /\ Once(m)'
             /\ ~(InQueue(m)' /\ InHand' = m)
             /\ Stored(m)' => ~InQueue(m)' /\ InHand' # m
  BY <1>1, <1>2, <1>3, <1>4, PutOnce, OncePlace, MessageFacts
<1> QED BY <1>2, <1>5 DEF OnePlace, Once

\* What the handler sends is marked as put back twice.
LEMMA PlaceTerminateInserts ==
  ASSUME IInv, OnePlace, TerminateInserts
  PROVE  OnePlace'
<1> USE DEF TerminateInserts, ldapVars
<1> DEFINE s == IF xmlNew = Nothing THEN Short ELSE xmlNew
<1>1. queue \in Seq(Messages) /\ s \in Messages
  BY MessageFacts DEF IInv, TypeOK
<1>2. /\ queue' = Append(queue, s) /\ qMsg' = s /\ copied' = copied \cup {s}
      /\ UNCHANGED <<directory, xmlNew, saver>>
  BY DEF Insert
<1>3. InHand' = InHand \/ InHand' = s
  BY <1>2 DEF InHand
<1>4. \A m : Stored(m)' <=> Stored(m)
  BY <1>2 DEF Stored
<1>5. ASSUME NEW m \in WholeMessages \ copied'
      PROVE  /\ Once(m)'
             /\ ~(InQueue(m)' /\ InHand' = m)
             /\ Stored(m)' => ~InQueue(m)' /\ InHand' # m
  <2>1. m \notin copied /\ m # s
    BY <1>2
  <2> QED BY <1>1, <1>2, <1>3, <1>4, <2>1, PutOnce, OncePlace
<1> QED BY <1>5 DEF OnePlace, Once

\* A notice arrives once, and had not come before.
LEMMA PlaceArrive ==
  ASSUME IInv, Sources, OnePlace, NEW s \in Arrivals, Arrive(s)
  PROVE  OnePlace'
<1> USE DEF Arrive, ldapVars, saverVars, historyVars
<1>1. queue \in Seq(Messages) /\ s \in Messages
  BY ArrivalsAssumption DEF IInv, TypeOK
<1>2. /\ queue' = Append(queue, s) /\ s \notin inserted
      /\ UNCHANGED <<directory, xmlNew, qMsg, saver, copied>>
  OBVIOUS
<1>3. InHand' = InHand /\ \A m : Stored(m)' <=> Stored(m)
  BY <1>2 DEF InHand, Stored
<1>4. s \in WholeMessages => ~InQueue(s) /\ ~Stored(s) /\ InHand # s
  BY <1>2, MessageFacts DEF Sources, InHand
<1>5. ASSUME NEW m \in WholeMessages \ copied
      PROVE  /\ Once(m)'
             /\ ~(InQueue(m)' /\ InHand' = m)
             /\ Stored(m)' => ~InQueue(m)' /\ InHand' # m
  BY <1>1, <1>2, <1>3, <1>4, PutOnce, OncePlace
<1> QED BY <1>2, <1>5 DEF OnePlace, Once

LEMMA PlaceNext == IInv /\ Sources /\ OnePlace /\ [Next]_vars => OnePlace'
<1> SUFFICES ASSUME IInv, Sources, OnePlace, [Next]_vars PROVE OnePlace'
  OBVIOUS
<1> USE DEF ldapVars, saverVars, historyVars
<1>1. CASE ReceiveTimesOut \/ Assign \/ Discard \/ Parse \/ UploadFails \/ WakeUp
  BY <1>1, PlaceQuiet
     DEF ReceiveTimesOut, Assign, Discard, Parse, UploadFails, WakeUp, InHand
<1>2. CASE Signal \/ TerminateTests \/ Start \/ LdapGoesDown \/ LdapComesUp
  BY <1>2, PlaceQuiet
     DEF Signal, TerminateTests, Start, Running, LdapGoesDown, LdapComesUp,
         InHand
<1>3. CASE ParseFaults \/ TerminateFaults \/ TerminateExits \/ Kill
  BY <1>3, PlaceQuiet
     DEF ParseFaults, TerminateFaults, TerminateExits, Kill, EndProcess, InHand
<1>4. CASE UploadStores \/ UploadUnanswered
  BY <1>4, PlaceStores DEF UploadStores, UploadUnanswered
<1>5. CASE UNCHANGED vars
  BY <1>5, PlaceQuiet DEF vars, InHand
<1> QED BY <1>1, <1>2, <1>3, <1>4, <1>5, PlaceReceive, PlaceLdapFails,
           PlaceTerminateInserts, PlaceArrive
        DEF Next, Saver, Terminate, Environment

\* No round of the saver leaves two copies of a notice, in the queue, in its
\* hands and in the directory together, unless the answer to an upload was
\* lost or the signal handler put the notice back: LdapFails puts back only
\* what was not stored, and nothing is put back twice.
THEOREM NoticeInOnePlace == Spec => []OnePlace
BY InvInit, InvNext, SourcesInit, SourcesNext, PlaceInit, PlaceNext, PTL DEF Spec

=============================================================================
