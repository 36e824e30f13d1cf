-------------------------- MODULE PublisherProofs --------------------------
(***************************************************************************)
(* What the publishers' three threads keep of the database, for every set  *)
(* of publishers, ids, items and connections and any number of exits and   *)
(* kills.                                                                  *)
(***************************************************************************)
EXTENDS Publisher, TLAPS

\* A row with contents has an id the clock can give; a row that is absent has
\* none.
SoundRow(id, row) ==
  /\ row.item # NoItem => id \in Ids
  /\ row.state = "absent" => row = Absent

Rows ==
  \A p \in Publishers : \A id \in RowIds :
    SoundRow(id, db[p][id]) /\ SoundRow(id, disk[p][id])

Marked(p, file) ==
  \A id \in RowIds :
    file[id].state = "sent" => Notice(p, id, file[id].item) \in exported

\* What is marked, in memory or in the file, was written.
Marks == \A p \in Publishers : Marked(p, db[p]) /\ Marked(p, disk[p])

\* From the end of the scan to the update the sender works on one record.
Exchange == {"shake", "await", "content", "mark"}

\* The record is a row that is not exported in the database.
IsUnsentRow(p) ==
  /\ current[p].id \in RowIds
  /\ db[p][current[p].id] = Unsent(current[p].item)

\* That record is such a row, or the zeros of the stack.
Chosen(p) ==
  /\ current[p].state = "unsent"
  /\ current[p] = ZeroRecord \/ IsUnsentRow(p)

\* What the sender has read, by its position.
Scanning(p) ==
  /\ current[p].item # NoItem => current[p].id \in Ids
  /\ current[p] = Uninitialised => cursor[p] = 0
  /\ sender[p] \in {"idle", "started"} => current[p] = Uninitialised
  /\ sender[p] = "scan" => current[p].state # "unsent"
  /\ sender[p] = "test" /\ current[p].state = "unsent" => IsUnsentRow(p)
  /\ sender[p] \in Exchange => Chosen(p)

\* The ids written by the running process are marked, but for the one the
\* sender is about to mark; the one it is about to write is not among them.
Resending(p) ==
  /\ \A id \in sentIds[p] :
       db[p][id].state = "sent" \/ (sender[p] = "mark" /\ id = current[p].id)
  /\ sender[p] = "test" /\ current[p] = Uninitialised => sentIds[p] = {}
  /\ sender[p] \in {"shake", "await", "content"} => current[p].id \notin sentIds[p]
  /\ sender[p] = "mark" => Notice(p, current[p].id, current[p].item) \in exported

Senders == \A p \in Publishers : Scanning(p) /\ Resending(p)

\* The inductive invariant.
IInv == TypeOK /\ Rows /\ Marks /\ Senders

-----------------------------------------------------------------------------
(* What the operators on messages and connections return.                   *)

\* The messages without a notice differ from each other and from every notice.
LEMMA BlanksAreSegments ==
  /\ Short \in Messages /\ Broken \in Messages /\ Hollow \in Messages
  /\ Messages \subseteq Segments /\ WholeMessages \subseteq Messages
  /\ Handshake \in Segments /\ Remainder \in Segments
  /\ Nothing \notin Segments
BY DEF Messages, Segments, WholeMessages, Short, Broken, Hollow, Handshake,
       Remainder, Nothing, Blank

LEMMA WholeIsMessage ==
  ASSUME NEW id \in Ids, NEW item \in Items
  PROVE  Whole(id, item) \in WholeMessages
BY DEF Whole, WholeMessages

LEMMA FreshType == Free \in Connections /\ Fresh \in Connections
BY DEF Free, Fresh, Connections, ClientEnds, ServerEnds, Answers

LEMMA ClientClosesType ==
  ASSUME NEW c \in Connections
  PROVE  ClientCloses(c) \in Connections
BY FreshType DEF ClientCloses, Connections, ClientEnds

LEMMA ClientDiesType ==
  ASSUME NEW c \in Connections, NEW d \in ClientDies(c)
  PROVE  d \in Connections
BY FreshType DEF ClientDies, Connections, ClientEnds

LEMMA ServerClosesType ==
  ASSUME NEW c \in Connections
  PROVE  ServerCloses(c) \in Connections
BY FreshType DEF ServerCloses, Connections, ServerEnds

LEMMA SentType ==
  ASSUME NEW c \in Connections, NEW segment \in Segments
  PROVE  Sent(c, segment) \in Connections
BY DEF Sent, Connections

-----------------------------------------------------------------------------
LEMMA RowIdsAreNumbers == RowIds \subseteq Nat /\ 0 \in RowIds
BY IdsAssumption DEF RowIds

\* What is written of a record is a message.
LEMMA XmlIsSegment ==
  ASSUME NEW record \in Records, record.item # NoItem => record.id \in Ids
  PROVE  XmlOf(record) \in Segments
BY BlanksAreSegments, WholeIsMessage, SentinelAssumption DEF XmlOf, Records

LEMMA InvInit == Init => IInv
<1> SUFFICES ASSUME Init PROVE IInv
  OBVIOUS
<1> USE DEF Init
<1>1. TypeOK
  BY FreshType DEF TypeOK, Row, Absent, Uninitialised, Records, SenderSteps
<1>2. Rows /\ Marks
  BY DEF Rows, Marks, SoundRow, Marked, Absent
<1>3. Senders
  BY DEF Senders, Scanning, Resending, Uninitialised, Exchange
<1> QED BY <1>1, <1>2, <1>3 DEF IInv

\* Writing one row of one database leaves the other rows as they are.
LEMMA WriteRow ==
  ASSUME TypeOK, NEW p \in Publishers, NEW id \in RowIds, NEW row \in Row,
         db' = [db EXCEPT ![p][id] = row]
  PROVE  /\ db' \in [Publishers -> [RowIds -> Row]]
         /\ db'[p][id] = row
         /\ \A q \in Publishers, i \in RowIds :
              db'[q][i] = db[q][i] \/ (q = p /\ i = id)
<1>1. db' = [db EXCEPT ![p] = [db[p] EXCEPT ![id] = row]]
  OBVIOUS
<1>2. db[p] \in [RowIds -> Row] /\ db \in [Publishers -> [RowIds -> Row]]
  BY DEF TypeOK
<1>3. [db[p] EXCEPT ![id] = row] \in [RowIds -> Row]
  BY <1>2
<1> QED BY <1>1, <1>2, <1>3

\* What a save does to the rows: it adds one where there was none.
LEMMA SaveFacts ==
  ASSUME TypeOK, NEW p \in Publishers, NEW id \in Ids, NEW item \in Items,
         Save(p, id, item)
  PROVE  /\ db' \in [Publishers -> [RowIds -> Row]]
         /\ status' \in [Publishers -> BOOLEAN]
         /\ \A q \in Publishers, i \in RowIds :
              \/ db'[q][i] = db[q][i]
              \/ /\ q = p /\ i = id
                 /\ db'[q][i] = Unsent(item) /\ db[q][i] = Absent
<1>1. id \in RowIds /\ Unsent(item) \in Row
  BY DEF RowIds, Unsent, Row
<1>2. status' \in [Publishers -> BOOLEAN]
  BY DEF Save, Put, TypeOK
<1>3. CASE db[p][id] = Absent
  <2>1. db' = [db EXCEPT ![p][id] = Unsent(item)]
    BY <1>3 DEF Save, Put
  <2>2. /\ db' \in [Publishers -> [RowIds -> Row]]
        /\ db'[p][id] = Unsent(item)
        /\ \A q \in Publishers, i \in RowIds :
             db'[q][i] = db[q][i] \/ (q = p /\ i = id)
    BY <1>1, <2>1, WriteRow
  <2> QED BY <1>2, <1>3, <2>2
<1>4. CASE db[p][id] # Absent
  BY <1>2, <1>4 DEF Save, Put, TypeOK
<1> QED BY <1>3, <1>4

LEMMA SaveKeeps ==
  ASSUME IInv, NEW p \in Publishers, NEW id \in Ids, NEW item \in Items,
         Save(p, id, item)
  PROVE  IInv'
<1>1. /\ db' \in [Publishers -> [RowIds -> Row]]
      /\ status' \in [Publishers -> BOOLEAN]
      /\ \A q \in Publishers, i \in RowIds :
           \/ db'[q][i] = db[q][i]
           \/ /\ q = p /\ i = id
              /\ db'[q][i] = Unsent(item) /\ db[q][i] = Absent
  BY SaveFacts DEF IInv
<1>2. UNCHANGED <<conns, disk, process, sender, sock, cursor, current, found,
                  ends, exported, sentIds>>
  BY DEF Save, senderVars
<1>3. entered' = entered \cup {Notice(p, id, item)}
  BY DEF Save
<1>4. TypeOK'
  <2>1. Notice(p, id, item) \in Notices
    BY DEF Notice, Notices, RowIds
  <2> QED BY <1>1, <1>2, <1>3, <2>1 DEF IInv, TypeOK
<1>5. Rows'
  BY <1>1, <1>2 DEF IInv, Rows, SoundRow, Unsent
<1>6. Marks'
  BY <1>1, <1>2 DEF IInv, Marks, Marked, Unsent
<1>7. ASSUME NEW q \in Publishers PROVE Scanning(q)'
  <2>1. /\ IsUnsentRow(q) => IsUnsentRow(q)'
        /\ Chosen(q) => Chosen(q)'
    BY <1>1, <1>2 DEF Chosen, IsUnsentRow, Unsent, Absent
  <2> QED BY <1>2, <2>1 DEF IInv, Senders, Scanning
<1>8. ASSUME NEW q \in Publishers PROVE Resending(q)'
  <2>1. sentIds[q] \subseteq RowIds
    BY DEF IInv, TypeOK
  <2>2. \A i \in sentIds[q] : db[q][i].state = "sent" => db'[q][i].state = "sent"
    BY <1>1, <2>1 DEF Absent
  <2> QED BY <1>2, <2>2 DEF IInv, Senders, Resending
<1> QED BY <1>4, <1>5, <1>6, <1>7, <1>8 DEF IInv, Senders

\* A step of one publisher that leaves the databases and what was written
\* alone has to account for its own sender only.
LEMMA OneSender ==
  ASSUME IInv, NEW p \in Publishers, TypeOK',
         UNCHANGED <<db, disk, exported, sentIds>>,
         \A q \in Publishers \ {p} :
           /\ sender'[q] = sender[q] /\ cursor'[q] = cursor[q]
           /\ current'[q] = current[q],
         Scanning(p)', Resending(p)'
  PROVE  IInv'
<1>1. Rows' /\ Marks'
  BY DEF IInv, Rows, Marks, Marked
<1>2. ASSUME NEW q \in Publishers PROVE Scanning(q)' /\ Resending(q)'
  <2>1. CASE q = p
    BY <2>1
  <2>2. CASE q # p
    BY <2>2 DEF IInv, Senders, Scanning, Resending, Chosen,
         IsUnsentRow
  <2> QED BY <2>1, <2>2
<1> QED BY <1>1, <1>2 DEF IInv, Senders

\* Nothing of what the invariant is about changes.
LEMMA Elsewhere ==
  ASSUME IInv, TypeOK',
         UNCHANGED <<db, disk, exported, sentIds, sender, cursor, current>>
  PROVE  IInv'
BY DEF IInv, Rows, Marks, Marked, Senders, Scanning, Resending, Chosen,
         IsUnsentRow

LEMMA QuitKeeps ==
  ASSUME IInv, NEW p \in Publishers, Quit(p)
  PROVE  IInv'
BY Elsewhere
   DEF Quit, IInv, TypeOK, senderVars, fileVars, historyVars

LEMMA RestartKeeps ==
  ASSUME IInv, NEW p \in Publishers, Restart(p)
  PROVE  IInv'
BY Elsewhere
   DEF Restart, IInv, TypeOK, senderVars, fileVars, historyVars

LEMMA StartSenderKeeps ==
  ASSUME IInv, NEW p \in Publishers, StartSender(p)
  PROVE  IInv'
<1> USE DEF StartSender, senderVars, fileVars, historyVars
<1>1. TypeOK'
  BY DEF IInv, TypeOK, SenderSteps
<1>2. Scanning(p)' /\ Resending(p)'
  BY DEF IInv, TypeOK, Senders, Scanning, Resending, Exchange
<1> QED BY <1>1, <1>2, OneSender DEF IInv, TypeOK

LEMMA ConnectKeeps ==
  ASSUME IInv, NEW p \in Publishers, NEW c \in Conns, Connect(p, c)
  PROVE  IInv'
<1> USE DEF Connect, Goto, fileVars, historyVars
<1>1. TypeOK'
  BY FreshType DEF IInv, TypeOK, SenderSteps
<1>2. Scanning(p)' /\ Resending(p)'
  BY DEF IInv, TypeOK, Senders, Scanning, Resending, Exchange,
     Uninitialised
<1> QED BY <1>1, <1>2, OneSender DEF IInv, TypeOK

LEMMA ConnectFailsKeeps ==
  ASSUME IInv, NEW p \in Publishers, ConnectFails(p)
  PROVE  IInv'
<1> USE DEF ConnectFails, Goto, senderVars, fileVars, historyVars
<1>1. TypeOK'
  BY DEF IInv, TypeOK, SenderSteps
<1>2. Scanning(p)' /\ Resending(p)'
  BY DEF IInv, TypeOK, Senders, Scanning, Resending, Exchange
<1> QED BY <1>1, <1>2, OneSender DEF IInv, TypeOK

\* The cursor's get copies a row that is there; a scan that starts on an empty
\* database, and so reads the stack, finds no id written in this run.
LEMMA GetRowKeeps ==
  ASSUME IInv, NEW p \in Publishers, GetRow(p)
  PROVE  IInv'
<1> USE DEF GetRow, Goto, fileVars, historyVars
<1>1. CASE \E id \in Ahead(p) :
             /\ cursor' = [cursor EXCEPT ![p] = id + 1]
             /\ current' = [current EXCEPT ![p] =
                  [id |-> id, item |-> db[p][id].item, state |-> db[p][id].state]]
             /\ found' = [found EXCEPT ![p] = TRUE]
             /\ status' = [status EXCEPT ![p] = TRUE]
  <2>1. PICK id \in Ahead(p) :
             /\ cursor' = [cursor EXCEPT ![p] = id + 1]
             /\ current' = [current EXCEPT ![p] =
                  [id |-> id, item |-> db[p][id].item, state |-> db[p][id].state]]
             /\ found' = [found EXCEPT ![p] = TRUE]
             /\ status' = [status EXCEPT ![p] = TRUE]
    BY <1>1
  <2>2. id \in RowIds /\ id \in Nat /\ db[p][id] # Absent
    BY RowIdsAreNumbers DEF Ahead
  <2>3. /\ db[p][id] \in Row
        /\ db[p][id].state \in {"unsent", "sent"}
        /\ db[p][id].item # NoItem => id \in Ids
    BY <2>2 DEF IInv, TypeOK, Rows, SoundRow, Row
  <2>4. [id |-> id, item |-> db[p][id].item, state |-> db[p][id].state] \in Records
    BY <2>2, <2>3 DEF Records, Row
  <2>5. TypeOK'
    BY <2>1, <2>2, <2>4 DEF IInv, TypeOK, SenderSteps
  <2>6. /\ sender'[p] = "test"
        /\ current'[p] = [id |-> id, item |-> db[p][id].item,
                          state |-> db[p][id].state]
    BY <2>1 DEF IInv, TypeOK
  <2>7. current'[p] # Uninitialised
    BY <2>3, <2>6 DEF Uninitialised
  <2>8. Scanning(p)'
    BY <2>2, <2>3, <2>6, <2>7 DEF Scanning, IsUnsentRow, Exchange, Unsent, Row
  <2>9. Resending(p)'
    BY <2>6, <2>7 DEF IInv, TypeOK, Senders, Resending
  <2> QED BY <2>1, <2>5, <2>8, <2>9, OneSender DEF IInv, TypeOK
<1>2. CASE /\ Ahead(p) = {}
           /\ found' = [found EXCEPT ![p] = FALSE]
           /\ status' = [status EXCEPT ![p] = FALSE]
           /\ UNCHANGED <<cursor, current>>
  <2>1. TypeOK'
    BY <1>2 DEF IInv, TypeOK, SenderSteps
  <2>2. sender[p] = "scan" /\ sender'[p] = "test" /\ current'[p] = current[p]
    BY <1>2 DEF IInv, TypeOK
  <2>3. Scanning(p)'
    BY <1>2, <2>2 DEF IInv, Senders, Scanning, Exchange, Uninitialised
  <2>4. ASSUME current[p] = Uninitialised PROVE sentIds[p] = {}
    <3>1. cursor[p] = 0
      BY <2>4 DEF IInv, Senders, Scanning
    <3>2. \A id \in RowIds : db[p][id] = Absent
      BY <1>2, <3>1, RowIdsAreNumbers DEF Ahead
    <3>3. \A id \in sentIds[p] : id \in RowIds /\ db[p][id].state = "sent"
      BY <2>2 DEF IInv, TypeOK, Senders, Resending
    <3> QED BY <3>2, <3>3 DEF Absent
  <2>5. Resending(p)'
    BY <2>2, <2>4 DEF IInv, Senders, Resending
  <2> QED BY <1>2, <2>1, <2>3, <2>5, OneSender DEF IInv, TypeOK
<1> QED BY <1>1, <1>2

\* The scan returns the row it has read, or, if it never read one, the zeros
\* of the stack; neither was written before in this run.
LEMMA ScanReturnsKeeps ==
  ASSUME IInv, NEW p \in Publishers, ScanReturns(p)
  PROVE  IInv'
<1> USE DEF ScanReturns, Goto, fileVars, historyVars
<1>1. PICK record \in CurrentSeen(p) :
        record.state = "unsent" /\ current' = [current EXCEPT ![p] = record]
  OBVIOUS
<1>2. /\ current'[p] = record /\ sender[p] = "test" /\ sender'[p] = "shake"
      /\ UNCHANGED <<db, sentIds, exported, cursor>>
  BY <1>1 DEF IInv, TypeOK
<1>3. CASE current[p] = Uninitialised
  <2>1. record = ZeroRecord
    BY <1>1, <1>3 DEF CurrentSeen, Uninitialised
  <2>2. TypeOK'
    BY <1>1, <2>1 DEF IInv, TypeOK, SenderSteps, Records, ZeroRecord, RowIds
  <2>3. Scanning(p)' /\ Resending(p)'
    BY <1>2, <1>3, <2>1
       DEF IInv, Senders, Scanning, Resending, Chosen, ZeroRecord, Uninitialised
  <2> QED BY <1>1, <1>2, <2>2, <2>3, OneSender DEF IInv, TypeOK
<1>4. CASE current[p] # Uninitialised
  <2>1. record = current[p]
    BY <1>4 DEF CurrentSeen
  <2>2. TypeOK'
    BY <1>1, <2>1 DEF IInv, TypeOK, SenderSteps
  <2>3. IsUnsentRow(p) /\ (current[p].item # NoItem => current[p].id \in Ids)
    BY <1>1, <1>2, <2>1 DEF IInv, Senders, Scanning
  <2>4. Scanning(p)'
    BY <1>1, <1>2, <1>4, <2>1, <2>3 DEF Scanning, Chosen, IsUnsentRow, Exchange
  <2>5. Resending(p)'
    BY <1>2, <2>1, <2>3 DEF IInv, Senders, Resending, IsUnsentRow, Unsent
  <2> QED BY <1>1, <1>2, <2>2, <2>4, <2>5, OneSender DEF IInv, TypeOK
<1> QED BY <1>3, <1>4

LEMMA ScanGoesOnKeeps ==
  ASSUME IInv, NEW p \in Publishers, ScanGoesOn(p)
  PROVE  IInv'
<1> USE DEF ScanGoesOn, Goto, senderVars, fileVars, historyVars
<1>1. TypeOK'
  BY DEF IInv, TypeOK, SenderSteps
<1>2. current[p].state # "unsent"
  BY DEF CurrentSeen, Uninitialised
<1>3. Scanning(p)' /\ Resending(p)'
  BY <1>2 DEF IInv, TypeOK, Senders, Scanning, Resending, Exchange
<1> QED BY <1>1, <1>3, OneSender DEF IInv, TypeOK

LEMMA ScanEndsKeeps ==
  ASSUME IInv, NEW p \in Publishers, ScanEnds(p)
  PROVE  IInv'
<1> USE DEF ScanEnds, Goto, senderVars, fileVars, historyVars
<1>1. TypeOK'
  BY DEF IInv, TypeOK, SenderSteps
<1>2. Scanning(p)' /\ Resending(p)'
  BY DEF IInv, TypeOK, Senders, Scanning, Resending, Exchange
<1> QED BY <1>1, <1>2, OneSender DEF IInv, TypeOK

LEMMA WriteHandshakeKeeps ==
  ASSUME IInv, NEW p \in Publishers, WriteHandshake(p)
  PROVE  IInv'
<1> USE DEF WriteHandshake, Goto, senderVars, fileVars, historyVars
<1>1. TypeOK'
  BY SentType, BlanksAreSegments DEF IInv, TypeOK, SenderSteps
<1>2. Scanning(p)' /\ Resending(p)'
  BY DEF IInv, TypeOK, Senders, Scanning, Resending, Chosen, IsUnsentRow,
         Exchange
<1> QED BY <1>1, <1>2, OneSender DEF IInv, TypeOK

LEMMA ReadOkKeeps ==
  ASSUME IInv, NEW p \in Publishers, ReadOk(p)
  PROVE  IInv'
<1> USE DEF ReadOk, Goto, senderVars, fileVars, historyVars
<1>1. TypeOK'
  BY DEF IInv, TypeOK, SenderSteps, Connections, Answers
<1>2. Scanning(p)' /\ Resending(p)'
  BY DEF IInv, TypeOK, Senders, Scanning, Resending, Chosen, IsUnsentRow,
         Exchange
<1> QED BY <1>1, <1>2, OneSender DEF IInv, TypeOK

LEMMA ReadFailsKeeps ==
  ASSUME IInv, NEW p \in Publishers, ReadFails(p)
  PROVE  IInv'
<1> USE DEF ReadFails, Goto, senderVars, fileVars, historyVars
<1>1. TypeOK'
  BY DEF IInv, TypeOK, SenderSteps
<1>2. Scanning(p)' /\ Resending(p)'
  BY DEF IInv, TypeOK, Senders, Scanning, Resending, Exchange
<1> QED BY <1>1, <1>2, OneSender DEF IInv, TypeOK

\* The only step that writes contents: the notice is known as written before
\* it can be marked.
LEMMA WriteContentKeeps ==
  ASSUME IInv, NEW p \in Publishers, WriteContent(p)
  PROVE  IInv'
<1> USE DEF WriteContent, Goto, senderVars, fileVars
<1> DEFINE written == Notice(p, current[p].id, current[p].item)
<1>1. /\ sender[p] = "content" /\ sender' = [sender EXCEPT ![p] = "mark"]
      /\ sentIds' = [sentIds EXCEPT ![p] = @ \cup {current[p].id}]
      /\ exported' = exported \cup {written}
      /\ UNCHANGED <<db, disk, sock, cursor, current, entered>>
  OBVIOUS
<1>2. /\ current[p] \in Records /\ current[p].id \in RowIds
      /\ current[p].item # NoItem => current[p].id \in Ids
  BY <1>1 DEF IInv, TypeOK, Senders, Scanning, Chosen, IsUnsentRow, Exchange,
         ZeroRecord, RowIds
<1>3. TypeOK'
  <2>1. conns' \in [Conns -> Connections]
    BY <1>2, XmlIsSegment, SentType DEF IInv, TypeOK
  <2>2. written \in Notices
    BY <1>2 DEF Notice, Notices, Records
  <2>3. UNCHANGED <<process, found, status, ends>>
    OBVIOUS
  <2> QED BY <1>1, <1>2, <2>1, <2>2, <2>3 DEF IInv, TypeOK, SenderSteps
<1>4. Rows' /\ Marks'
  BY <1>1 DEF IInv, Rows, Marks, Marked
<1>5. ASSUME NEW q \in Publishers PROVE Scanning(q)'
  BY <1>1 DEF IInv, TypeOK, Senders, Scanning, Chosen, IsUnsentRow, Exchange
<1>6. ASSUME NEW q \in Publishers PROVE Resending(q)'
  <2>1. CASE q = p
    <3>1. /\ sender'[p] = "mark" /\ current'[p] = current[p]
          /\ sentIds'[p] = sentIds[p] \cup {current[p].id}
          /\ written \in exported'
      BY <1>1 DEF IInv, TypeOK
    <3>2. \A id \in sentIds[p] : db[p][id].state = "sent"
      BY <1>1 DEF IInv, Senders, Resending
    <3> QED BY <1>1, <2>1, <3>1, <3>2 DEF Resending
  <2>2. CASE q # p
    BY <1>1, <2>2 DEF IInv, TypeOK, Senders, Resending
  <2> QED BY <2>1, <2>2
<1> QED BY <1>3, <1>4, <1>5, <1>6 DEF IInv, Senders

\* UpdateDataBase writes the row it has in hands, and no other.
LEMMA MarkFacts ==
  ASSUME IInv, NEW p \in Publishers, MarkExported(p)
  PROVE  /\ sender[p] = "mark" /\ current[p] \in Records
         /\ current[p].id \in RowIds /\ Chosen(p)
         /\ db' \in [Publishers -> [RowIds -> Row]]
         /\ db'[p][current[p].id] = Exported(current[p].item)
         /\ \A q \in Publishers, i \in RowIds :
              db'[q][i] = db[q][i] \/ (q = p /\ i = current[p].id)
<1> SUFFICES ASSUME NEW done, done = current[p].id,
                    NEW row, row = Exported(current[p].item)
             PROVE  /\ sender[p] = "mark" /\ current[p] \in Records
                    /\ done \in RowIds /\ Chosen(p)
                    /\ db' \in [Publishers -> [RowIds -> Row]]
                    /\ db'[p][done] = row
                    /\ \A q \in Publishers, i \in RowIds :
                         db'[q][i] = db[q][i] \/ (q = p /\ i = done)
  OBVIOUS
<1>1. sender[p] = "mark" /\ db' = [db EXCEPT ![p][done] = row]
  BY DEF MarkExported, Goto, Put
<1>2. Chosen(p) /\ current[p] \in Records
  BY <1>1 DEF IInv, TypeOK, Senders, Scanning, Exchange
<1>3. done \in RowIds /\ row \in Row
  BY <1>2 DEF Chosen, IsUnsentRow, ZeroRecord, RowIds, Exported, Row, Records
<1>4. db \in [Publishers -> [RowIds -> Row]] /\ db[p] \in [RowIds -> Row]
  BY DEF IInv, TypeOK
<1>5. [db[p] EXCEPT ![done] = row] \in [RowIds -> Row]
  BY <1>3, <1>4
<1>6. db' = [db EXCEPT ![p] = [db[p] EXCEPT ![done] = row]]
  BY <1>1
<1>7. db' \in [Publishers -> [RowIds -> Row]] /\ db'[p][done] = row
  BY <1>3, <1>4, <1>5, <1>6
<1>8. \A q \in Publishers, i \in RowIds :
        db'[q][i] = db[q][i] \/ (q = p /\ i = done)
  BY <1>4, <1>6
<1> QED BY <1>1, <1>2, <1>3, <1>7, <1>8

\* UpdateDataBase marks what has just been written, and no other row.
LEMMA MarkExportedKeeps ==
  ASSUME IInv, NEW p \in Publishers, MarkExported(p)
  PROVE  IInv'
<1> DEFINE row == Exported(current[p].item)
           done == current[p].id
<1>1. /\ sender[p] = "mark" /\ sender' = [sender EXCEPT ![p] = "close"]
      /\ db' = [db EXCEPT ![p][done] = row]
      /\ status' = [status EXCEPT ![p] = TRUE]
      /\ UNCHANGED <<conns, disk, process, sock, cursor, current, found, ends,
                     entered, exported, sentIds>>
  BY DEF MarkExported, Goto, Put, senderVars, historyVars
<1>2. /\ current[p] \in Records /\ done \in RowIds
      /\ current[p].item # NoItem => done \in Ids
      /\ Notice(p, done, current[p].item) \in exported
  BY <1>1 DEF IInv, TypeOK, Senders, Scanning, Resending, Chosen, IsUnsentRow,
         Exchange, ZeroRecord, RowIds
<1>3. row \in Row
  BY <1>2 DEF Exported, Row, Records
<1>4. /\ db' \in [Publishers -> [RowIds -> Row]]
      /\ db'[p][done] = row
      /\ \A q \in Publishers, i \in RowIds :
           db'[q][i] = db[q][i] \/ (q = p /\ i = done)
  BY MarkFacts
<1>5. TypeOK'
  BY <1>1, <1>4 DEF IInv, TypeOK, SenderSteps
<1>6. Rows'
  BY <1>1, <1>2, <1>4 DEF IInv, Rows, SoundRow, Exported
<1>7. Marks'
  BY <1>1, <1>2, <1>4 DEF IInv, Marks, Marked, Exported
<1>8. ASSUME NEW q \in Publishers, q # p PROVE Scanning(q)' /\ Resending(q)'
  <2>1. /\ \A i \in RowIds : db'[q][i] = db[q][i]
        /\ sentIds[q] \subseteq RowIds
        /\ sender'[q] = sender[q]
    BY <1>1, <1>4, <1>8 DEF IInv, TypeOK
  <2>2. /\ IsUnsentRow(q) => IsUnsentRow(q)'
        /\ Chosen(q) => Chosen(q)'
    BY <1>1, <2>1 DEF Chosen, IsUnsentRow
  <2>3. Scanning(q)'
    BY <1>1, <2>1, <2>2 DEF IInv, Senders, Scanning
  <2>4. Resending(q)'
    BY <1>1, <2>1 DEF IInv, Senders, Resending
  <2> QED BY <2>3, <2>4
<1>9. Scanning(p)'
  BY <1>1 DEF IInv, TypeOK, Senders, Scanning, Exchange
<1>10. Resending(p)'
  <2>1. \A i \in sentIds[p] : i \in RowIds /\ (db[p][i].state = "sent" \/ i = done)
    BY DEF IInv, TypeOK, Senders, Resending
  <2>2. \A i \in sentIds[p] : db'[p][i].state = "sent"
    BY <1>4, <2>1 DEF Exported
  <2> QED BY <1>1, <2>2 DEF IInv, TypeOK, Resending
<1> QED BY <1>5, <1>6, <1>7, <1>8, <1>9, <1>10 DEF IInv, Senders

LEMMA CloseSocketKeeps ==
  ASSUME IInv, NEW p \in Publishers, CloseSocket(p)
  PROVE  IInv'
<1> USE DEF CloseSocket, Goto, ForgetLocals, fileVars, historyVars
<1>1. TypeOK'
  <2>1. conns' \in [Conns -> Connections]
    BY ClientClosesType DEF IInv, TypeOK
  <2>2. Uninitialised \in Records
    BY DEF Uninitialised, Records
  <2> QED BY <2>1, <2>2 DEF IInv, TypeOK, SenderSteps
<1>2. Scanning(p)' /\ Resending(p)'
  BY DEF IInv, TypeOK, Senders, Scanning, Resending, Exchange, Uninitialised
<1> QED BY <1>1, <1>2, OneSender DEF IInv, TypeOK

\* CloseDataBase writes the database out when no sender runs.
LEMMA FinishKeeps ==
  ASSUME IInv, NEW p \in Publishers, Finish(p)
  PROVE  IInv'
<1> USE DEF Finish, senderVars
<1>1. TypeOK'
  BY DEF IInv, TypeOK
<1>2. \A q \in Publishers : disk'[q] = disk[q] \/ disk'[q] = db[q]
  BY DEF IInv, TypeOK
<1>3. Rows' /\ Marks'
  BY <1>2 DEF IInv, Rows, Marks, Marked
<1>4. ASSUME NEW q \in Publishers PROVE Scanning(q)'
  BY DEF IInv, Senders, Scanning, Chosen, IsUnsentRow
<1>5. ASSUME NEW q \in Publishers PROVE Resending(q)'
  BY DEF IInv, TypeOK, Senders, Resending
<1> QED BY <1>1, <1>3, <1>4, <1>5 DEF IInv, Senders

\* After a kill the file holds rows of the database, rows it held before, and
\* new rows as not exported.
LEMMA FileFacts ==
  ASSUME TypeOK, NEW p \in Publishers, NEW file \in Files(p)
  PROVE  /\ file \in [RowIds -> Row]
         /\ \A id \in RowIds :
              \/ file[id] = db[p][id] \/ file[id] = disk[p][id]
              \/ file[id] = Unsent(db[p][id].item) /\ db[p][id].item # NoItem
<1>1. /\ db[p] \in [RowIds -> Row] /\ disk[p] \in [RowIds -> Row]
      /\ \A id \in RowIds : Unsent(db[p][id].item) \in Row
  BY DEF TypeOK, Unsent, Row
<1>2. PICK flushed \in SUBSET RowIds, halfway \in SUBSET RowIds :
        file = File(p, flushed, halfway)
  BY DEF Files
<1> QED BY <1>1, <1>2 DEF File

LEMMA KillKeeps ==
  ASSUME IInv, NEW p \in Publishers, Kill(p)
  PROVE  IInv'
<1>1. PICK file \in Files(p) :
        disk' = [disk EXCEPT ![p] = file] /\ db' = [db EXCEPT ![p] = file]
  BY DEF Kill
<1> USE DEF Kill, ForgetLocals
<1>2. /\ file \in [RowIds -> Row]
      /\ \A id \in RowIds :
           \/ file[id] = db[p][id] \/ file[id] = disk[p][id]
           \/ file[id] = Unsent(db[p][id].item) /\ db[p][id].item # NoItem
  BY FileFacts DEF IInv
<1>3. /\ db'[p] = file /\ disk'[p] = file
      /\ \A q \in Publishers \ {p} : db'[q] = db[q] /\ disk'[q] = disk[q]
      /\ db' \in [Publishers -> [RowIds -> Row]]
      /\ disk' \in [Publishers -> [RowIds -> Row]]
  BY <1>1, <1>2 DEF IInv, TypeOK
<1>4. TypeOK'
  <2>1. conns' \in [Conns -> Connections]
    <3>1. conns \in [Conns -> Connections] /\ sock[p] \in Conns \cup {NoConn}
      BY DEF IInv, TypeOK
    <3>2. CASE sock[p] = NoConn
      BY <3>1, <3>2
    <3>3. CASE sock[p] # NoConn
      BY <3>1, <3>3, ClientDiesType
    <3> QED BY <3>2, <3>3
  <2>2. Uninitialised \in Records
    BY DEF Uninitialised, Records
  <2> QED BY <1>3, <2>1, <2>2 DEF IInv, TypeOK, SenderSteps
<1>5. Rows'
  <2>1. \A id \in RowIds : SoundRow(id, file[id])
    BY <1>2 DEF IInv, Rows, SoundRow, Unsent
  <2> QED BY <1>3, <2>1 DEF IInv, Rows
<1>6. Marks'
  <2>1. Marked(p, file)
    BY <1>2 DEF IInv, Marks, Marked, Unsent
  <2> QED BY <1>3, <2>1 DEF IInv, Marks, Marked
<1>7. ASSUME NEW q \in Publishers PROVE Scanning(q)' /\ Resending(q)'
  <2>1. CASE q = p
    BY <2>1 DEF IInv, TypeOK, Scanning, Resending, Uninitialised, Exchange
  <2>2. CASE q # p
    <3>1. /\ db'[q] = db[q] /\ sender'[q] = sender[q] /\ cursor'[q] = cursor[q]
          /\ current'[q] = current[q] /\ sentIds'[q] = sentIds[q]
          /\ exported' = exported
      BY <1>3, <2>2 DEF IInv, TypeOK
    <3> QED BY <3>1 DEF IInv, Senders, Scanning, Resending, Chosen, IsUnsentRow
  <2> QED BY <2>1, <2>2
<1> QED BY <1>4, <1>5, <1>6, <1>7 DEF IInv, Senders

\* Whatever the server at the other end does to a connection.
LEMMA ServerKeeps ==
  ASSUME IInv, NEW c \in Conns, ServerAnswers(c) \/ ServerHangsUp(c)
  PROVE  IInv'
<1> USE DEF senderVars, fileVars, historyVars
<1>1. CASE ServerAnswers(c)
  <2>1. conns' \in [Conns -> Connections]
    BY <1>1 DEF ServerAnswers, IInv, TypeOK, Connections, Answers
  <2> QED BY <1>1, <2>1, Elsewhere DEF ServerAnswers, IInv, TypeOK
<1>2. CASE ServerHangsUp(c)
  <2>1. conns' \in [Conns -> Connections]
    BY <1>2, ServerClosesType DEF ServerHangsUp, IInv, TypeOK
  <2> QED BY <1>2, <2>1, Elsewhere DEF ServerHangsUp, IInv, TypeOK
<1> QED BY <1>1, <1>2

LEMMA InvNext == IInv /\ [Next]_vars => IInv'
<1> SUFFICES ASSUME IInv, [Next]_vars PROVE IInv'
  OBVIOUS
<1>1. ASSUME NEW p \in Publishers, SenderStep(p) PROVE IInv'
  BY <1>1, StartSenderKeeps, GetRowKeeps, ScanReturnsKeeps, ScanGoesOnKeeps,
     ScanEndsKeeps, WriteHandshakeKeeps, ReadOkKeeps, ReadFailsKeeps,
     WriteContentKeeps, MarkExportedKeeps, CloseSocketKeeps
     DEF SenderStep
<1>2. ASSUME NEW p \in Publishers, EditorStep(p) PROVE IInv'
  BY <1>2, SaveKeeps, QuitKeeps DEF EditorStep
<1>3. ASSUME NEW p \in Publishers, ProcessStep(p) PROVE IInv'
  BY <1>3, FinishKeeps, KillKeeps, RestartKeeps DEF ProcessStep
<1>4. ASSUME NEW p \in Publishers, ConnectFails(p) PROVE IInv'
  BY <1>4, ConnectFailsKeeps
<1>5. ASSUME NEW p \in Publishers, NEW c \in Conns, Connect(p, c) PROVE IInv'
  BY <1>5, ConnectKeeps
<1>6. ASSUME NEW c \in Conns, ServerAnswers(c) \/ ServerHangsUp(c) PROVE IInv'
  BY <1>6, ServerKeeps
<1>7. CASE UNCHANGED vars
  BY <1>7, Elsewhere DEF vars, IInv, TypeOK
<1> QED BY <1>1, <1>2, <1>3, <1>4, <1>5, <1>6, <1>7 DEF Next

LEMMA Invariance == Spec => []IInv
<1> QED BY InvInit, InvNext, PTL DEF Spec

-----------------------------------------------------------------------------
\* Every step keeps the types of Publisher's variables.
THEOREM TypeCorrect == Spec => []TypeOK
<1>1. IInv => TypeOK
  BY DEF IInv
<1> QED BY <1>1, Invariance, PTL

\* A row is marked as exported only if its contents were written to a
\* connection: the update comes after the write on every way through
\* ClientSender, and no kill leaves a mark in the file without it.
THEOREM OnlyWrittenIsMarked == Spec => []MarkedWasWritten
<1>1. IInv => MarkedWasWritten
  BY DEF IInv, Marks, Marked, MarkedWasWritten
<1> QED BY <1>1, Invariance, PTL

\* The sender never writes a row for the second time in one run, although the
\* scan starts from the first row every time and may return stack memory.
THEOREM NeverResent == Spec => []NoResendInOneRun
<1>1. IInv => NoResendInOneRun
  BY DEF IInv, Senders, Resending, NoResendInOneRun
<1> QED BY <1>1, Invariance, PTL

\* What one step may do to a row while its process lives.
KeepsRows ==
  \A p \in Publishers : \A id \in Ids \ {0} :
    db[p][id] # Absent /\ process'[p] # "down" =>
      db'[p][id] = db[p][id] \/ db'[p][id] = Exported(db[p][id].item)

LEMMA StepKeepsRows == IInv /\ [Next]_vars => KeepsRows
<1> SUFFICES ASSUME IInv, [Next]_vars PROVE KeepsRows
  OBVIOUS
<1>1. CASE db' = db
  BY <1>1 DEF KeepsRows
<1>2. ASSUME NEW p \in Publishers, NEW id \in Ids, NEW item \in Items,
             Save(p, id, item)
      PROVE  KeepsRows
  BY <1>2, SaveFacts DEF IInv, KeepsRows, RowIds
<1>3. ASSUME NEW p \in Publishers, MarkExported(p) PROVE KeepsRows
  <2> DEFINE done == current[p].id
  <2>1. /\ Chosen(p)
        /\ db'[p][done] = Exported(current[p].item)
        /\ \A q \in Publishers, i \in RowIds :
             db'[q][i] = db[q][i] \/ (q = p /\ i = done)
    BY <1>3, MarkFacts
  <2>2. done # 0 => db[p][done].item = current[p].item
    BY <2>1 DEF Chosen, IsUnsentRow, ZeroRecord, Unsent
  <2> QED BY <2>1, <2>2 DEF KeepsRows, RowIds
<1>4. ASSUME NEW p \in Publishers, Kill(p) PROVE KeepsRows
  BY <1>4 DEF Kill, IInv, TypeOK, KeepsRows
<1>5. ASSUME NEW p \in Publishers, SenderStep(p), ~MarkExported(p)
      PROVE  db' = db
  BY <1>5 DEF SenderStep, StartSender, GetRow, ScanReturns, ScanGoesOn, ScanEnds,
       WriteHandshake, ReadOk, ReadFails, WriteContent, CloseSocket, fileVars
<1>6. ASSUME NEW p \in Publishers,
             Quit(p) \/ Finish(p) \/ Restart(p) \/ ConnectFails(p)
      PROVE  db' = db
  BY <1>6 DEF Quit, Finish, Restart, ConnectFails, fileVars
<1>7. ASSUME NEW p \in Publishers, NEW c \in Conns, Connect(p, c)
      PROVE  db' = db
  BY <1>7 DEF Connect, fileVars
<1>8. ASSUME NEW c \in Conns, ServerAnswers(c) \/ ServerHangsUp(c)
      PROVE  db' = db
  BY <1>8 DEF ServerAnswers, ServerHangsUp, fileVars
<1>9. CASE UNCHANGED vars
  BY <1>1, <1>9 DEF vars
<1> QED BY <1>1, <1>2, <1>3, <1>4, <1>5, <1>6, <1>7, <1>8, <1>9
        DEF Next, EditorStep, ProcessStep

\* While a publisher lives none of its rows but row 0 disappears, changes its
\* contents or goes back to not exported: DB_NOOVERWRITE refuses a second
\* notice with the same id, and UpdateDataBase writes back the item it read.
THEOREM RowsStay == Spec => RowsAreKept
<1>1. IInv /\ [Next]_vars =>
        [\A p \in Publishers : \A id \in Ids \ {0} :
           db[p][id] # Absent /\ process'[p] # "down" =>
             \/ db'[p][id] = db[p][id]
             \/ db'[p][id] = Exported(db[p][id].item)]_vars
  BY StepKeepsRows DEF KeepsRows
<1> QED BY <1>1, Invariance, PTL DEF Spec, RowsAreKept

-----------------------------------------------------------------------------
(* For the programs that the publishers work with: what a publisher's step  *)
(* does to contents.                                                        *)

Moves(p) == SenderStep(p) \/ EditorStep(p) \/ ProcessStep(p) \/ ConnectFails(p)

\* A row's contents after a publisher's step: as before, as in the file, as
\* the sender read them, or typed.
LEMMA RowContents ==
  ASSUME IInv, NEW p \in Publishers, Moves(p)
  PROVE  /\ entered \subseteq entered'
         /\ \A n \in entered' : n \in entered \/ (n.by = p /\ n.id \in Ids /\ n.item \in Items)
         /\ \A q \in Publishers, i \in RowIds :
              /\ \/ db'[q][i].item \in {db[q][i].item, disk[q][i].item}
                 \/ db'[q][i].item = current[q].item /\ i = current[q].id
                 \/ Notice(q, i, db'[q][i].item) \in entered'
              /\ disk'[q][i].item \in {db[q][i].item, disk[q][i].item}
<1> USE DEF Moves, fileVars, historyVars
<1>1. ASSUME NEW id \in Ids, NEW item \in Items, Save(p, id, item)
      PROVE  /\ entered' = entered \cup {Notice(p, id, item)} /\ disk' = disk
             /\ \A q \in Publishers, i \in RowIds :
                  db'[q][i] = db[q][i] \/ Notice(q, i, db'[q][i].item) \in entered'
  <2>1. entered' = entered \cup {Notice(p, id, item)} /\ disk' = disk
    BY <1>1 DEF Save
  <2>2. Unsent(item).item = item
    BY DEF Unsent
  <2>3. \A q \in Publishers, i \in RowIds :
          \/ db'[q][i] = db[q][i]
          \/ q = p /\ i = id /\ db'[q][i] = Unsent(item)
    BY <1>1, SaveFacts DEF IInv
  <2> QED BY <2>1, <2>2, <2>3
<1>2. ASSUME NEW id \in Ids, NEW item \in Items
      PROVE  /\ Notice(p, id, item).by = p
             /\ Notice(p, id, item).id = id /\ Notice(p, id, item).item = item
  BY DEF Notice
<1>3. CASE MarkExported(p)
  <2>1. entered' = entered /\ disk' = disk /\ Exported(current[p].item).item = current[p].item
    BY <1>3 DEF MarkExported, Exported
  <2>2. /\ db'[p][current[p].id] = Exported(current[p].item)
        /\ \A q \in Publishers, i \in RowIds :
             db'[q][i] = db[q][i] \/ (q = p /\ i = current[p].id)
    BY <1>3, MarkFacts
  <2> QED BY <2>1, <2>2
<1>4. CASE Kill(p)
  <2>1. PICK file \in Files(p) :
          disk' = [disk EXCEPT ![p] = file] /\ db' = [db EXCEPT ![p] = file]
    BY <1>4 DEF Kill
  <2>2. \A id \in RowIds :
          file[id].item \in {db[p][id].item, disk[p][id].item}
    <3>1. \A id \in RowIds :
            \/ file[id] = db[p][id] \/ file[id] = disk[p][id]
            \/ file[id] = Unsent(db[p][id].item) /\ db[p][id].item # NoItem
      BY FileFacts DEF IInv
    <3>2. \A item : Unsent(item).item = item
      BY DEF Unsent
    <3> QED BY <3>1, <3>2
  <2>3. /\ \A q \in Publishers \ {p} : db'[q] = db[q] /\ disk'[q] = disk[q]
        /\ db'[p] = file /\ disk'[p] = file /\ entered' = entered
    BY <1>4, <2>1 DEF Kill, IInv, TypeOK
  <2> QED BY <2>2, <2>3
<1>5. CASE Finish(p)
  <2>1. /\ \A q \in Publishers : disk'[q] \in {disk[q], db[q]}
        /\ db' = db /\ entered' = entered
    BY <1>5 DEF Finish, IInv, TypeOK
  <2> QED BY <2>1
<1>6. CASE SenderStep(p) /\ ~MarkExported(p)
  <2>1. UNCHANGED <<db, disk, entered>>
    BY <1>6 DEF SenderStep, StartSender, GetRow, ScanReturns,
         ScanGoesOn, ScanEnds, WriteHandshake, ReadOk, ReadFails,
         WriteContent, CloseSocket
  <2> QED BY <2>1
<1>7. CASE Quit(p) \/ Restart(p) \/ ConnectFails(p)
  <2>1. UNCHANGED <<db, disk, entered>>
    BY <1>7 DEF Quit, Restart, ConnectFails
  <2> QED BY <2>1
<1> QED BY <1>1, <1>2, <1>3, <1>4, <1>5, <1>6, <1>7
        DEF EditorStep, ProcessStep

\* What a sender has in hands it has from its database, or it has nothing.
LEMMA RecordContents ==
  ASSUME IInv, NEW p \in Publishers, Moves(p)
  PROVE  \/ current'[p].item = NoItem
         \/ current'[p].item = current[p].item /\ current'[p].id = current[p].id
         \/ /\ current'[p].id \in RowIds
            /\ current'[p].item = db[p][current'[p].id].item
<1>1. p \in DOMAIN current /\ current \in [Publishers -> Records]
  BY DEF IInv, TypeOK
<1>2. CASE GetRow(p)
  BY <1>1, <1>2 DEF GetRow, Ahead
<1>3. CASE ScanReturns(p)
  BY <1>1, <1>3 DEF ScanReturns, CurrentSeen, ZeroRecord, Uninitialised
<1>4. CASE CloseSocket(p) \/ Kill(p)
  BY <1>1, <1>4 DEF CloseSocket, Kill, ForgetLocals, Uninitialised
<1>5. CASE ~(GetRow(p) \/ ScanReturns(p) \/ CloseSocket(p) \/ Kill(p))
  <2>1. current' = current
    BY <1>5 DEF Moves, SenderStep, EditorStep, ProcessStep,
       ConnectFails, StartSender, ScanGoesOn, ScanEnds,
       WriteHandshake, ReadOk, ReadFails, WriteContent,
       MarkExported, Save, Quit, Finish, Restart, senderVars
  <2> QED BY <2>1
<1> QED BY <1>2, <1>3, <1>4, <1>5

\* As long as nobody leaves or is killed, a row changes only by becoming a
\* new one that is not exported, or by being marked.
LEMMA RowStates ==
  ASSUME IInv, NEW p \in Publishers, Moves(p), ends' = ends
  PROVE  /\ \A n \in entered' : n \in entered \/ (\A o \in entered : o.item # n.item)
         /\ \A q \in Publishers, i \in RowIds :
              \/ db'[q][i] = db[q][i]
              \/ db'[q][i].state = "unsent"
              \/ /\ q = p /\ i = current[p].id /\ sender[p] = "mark"
                 /\ db'[q][i].item = current[p].item
<1> USE DEF Moves, fileVars, historyVars
<1>1. ASSUME NEW id \in Ids, NEW item \in Items, Save(p, id, item)
      PROVE  /\ entered' = entered \cup {Notice(p, id, item)}
             /\ \A o \in entered : o.item # Notice(p, id, item).item
             /\ \A q \in Publishers, i \in RowIds :
                  db'[q][i] = db[q][i] \/ db'[q][i].state = "unsent"
  <2>1. /\ entered' = entered \cup {Notice(p, id, item)}
        /\ \A o \in entered : o.item # item
    BY <1>1 DEF Save
  <2>2. Unsent(item).state = "unsent" /\ Notice(p, id, item).item = item
    BY DEF Unsent, Notice
  <2>3. \A q \in Publishers, i \in RowIds :
          db'[q][i] = db[q][i] \/ db'[q][i] = Unsent(item)
    BY <1>1, SaveFacts DEF IInv
  <2> QED BY <2>1, <2>2, <2>3
<1>2. CASE MarkExported(p)
  <2>1. entered' = entered /\ Exported(current[p].item).item = current[p].item
    BY <1>2 DEF MarkExported, Exported
  <2>2. /\ sender[p] = "mark"
        /\ db'[p][current[p].id] = Exported(current[p].item)
        /\ \A q \in Publishers, i \in RowIds :
             db'[q][i] = db[q][i] \/ (q = p /\ i = current[p].id)
    BY <1>2, MarkFacts
  <2> QED BY <2>1, <2>2
<1>3. ~Quit(p) /\ ~Kill(p)
  BY DEF Quit, Kill, IInv, TypeOK
<1>4. CASE SenderStep(p) /\ ~MarkExported(p)
  <2>1. UNCHANGED <<db, entered>>
    BY <1>4 DEF SenderStep, StartSender, GetRow, ScanReturns, ScanGoesOn, ScanEnds,
         WriteHandshake, ReadOk, ReadFails, WriteContent, CloseSocket
  <2> QED BY <2>1
<1>5. CASE Finish(p) \/ Restart(p) \/ ConnectFails(p)
  <2>1. UNCHANGED <<db, entered>>
    BY <1>5 DEF Finish, Restart, ConnectFails
  <2> QED BY <2>1
<1> QED BY <1>1, <1>2, <1>3, <1>4, <1>5 DEF EditorStep, ProcessStep

=============================================================================
