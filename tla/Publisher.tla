----------------------------- MODULE Publisher ------------------------------
(***************************************************************************)
(* The publisher programs.  Each keeps the notices its editor types in a   *)
(* Berkeley DB file and exports them, one per connection, to the news      *)
(* server.  In each, three threads: the loader (the editor's menu), the    *)
(* sender (one ClientSender at a time) and main, which starts senders      *)
(* while the loader lives and closes the database at the end.              *)
(*                                                                         *)
(* Loader and sender share the DataBase structure, whose field status both *)
(* assign and the sender's loop over the cursor tests: a data race.        *)
(***************************************************************************)
EXTENDS Wire

CONSTANTS Publishers,
          MaxEnds     \* bound: times an editor leaves or a publisher is killed

ASSUME EndsAssumption == MaxEnds \in Nat

VARIABLES
  conns,     \* the connections, by slot
  db,        \* per publisher, the database as its process sees it
  disk,      \* per publisher, what the file is known to hold
  process,   \* per publisher: "up", "quitting" (the editor left) or "down"
  sender,    \* where the sender is, "idle" when none runs
  sock,      \* the sender's connection
  cursor,    \* the least id the sender's cursor has not passed
  current,   \* the sender's CurrentNew
  found,     \* the cursor's last get returned a row
  status,    \* dataBase->status is 0
  ends,      \* times an editor left or a publisher was killed
  entered,   \* history: notices the editors typed
  exported,  \* history: contents written to a connection
  sentIds    \* history: ids written by the running process

senderVars == <<sock, cursor, current, found>>
fileVars == <<db, disk>>
historyVars == <<entered, exported, sentIds>>
vars == <<conns, db, disk, process, sender, sock, cursor, current, found,
          status, ends, entered, exported, sentIds>>

\* The record that zeroed memory makes has id 0.
RowIds == Ids \cup {0}

Row == [item : Items \cup {NoItem}, state : {"absent", "unsent", "sent"}]
Absent == [item |-> NoItem, state |-> "absent"]
Unsent(item) == [item |-> item, state |-> "unsent"]
Exported(item) == [item |-> item, state |-> "sent"]

Records == [id : RowIds \cup {NoId}, item : Items \cup {NoItem},
            state : {"uninitialised", "unsent", "sent"}]
Uninitialised == [id |-> NoId, item |-> NoItem, state |-> "uninitialised"]

\* What is at the bottom of the stack of a thread that has just started.
ZeroRecord == [id |-> 0, item |-> NoItem, state |-> "unsent"]

\* A notice as its publisher knows it.
Notice(p, id, item) == [by |-> p, id |-> id, item |-> item]
Notices == [by : Publishers, id : RowIds, item : Items \cup {NoItem}]

SenderSteps == {"idle", "started", "scan", "test", "shake", "await", "content",
                "mark", "close"}

TypeOK ==
  /\ conns \in [Conns -> Connections]
  /\ db \in [Publishers -> [RowIds -> Row]]
  /\ disk \in [Publishers -> [RowIds -> Row]]
  /\ process \in [Publishers -> {"up", "quitting", "down"}]
  /\ sender \in [Publishers -> SenderSteps]
  /\ sock \in [Publishers -> Conns \cup {NoConn}]
  /\ cursor \in [Publishers -> Nat]
  /\ current \in [Publishers -> Records]
  /\ found \in [Publishers -> BOOLEAN]
  /\ status \in [Publishers -> BOOLEAN]
  /\ ends \in Nat
  /\ entered \in SUBSET Notices
  /\ exported \in SUBSET Notices
  /\ sentIds \in [Publishers -> SUBSET RowIds]

Init ==
  /\ conns = [c \in Conns |-> Free]
  /\ db = [p \in Publishers |-> [id \in RowIds |-> Absent]]
  /\ disk = db
  /\ process = [p \in Publishers |-> "up"]
  /\ sender = [p \in Publishers |-> "idle"]
  /\ sock = [p \in Publishers |-> NoConn]
  /\ cursor = [p \in Publishers |-> 0]
  /\ current = [p \in Publishers |-> Uninitialised]
  /\ found = [p \in Publishers |-> FALSE]
  /\ status = [p \in Publishers |-> TRUE]
  /\ ends = 0
  /\ entered = {}
  /\ exported = {}
  /\ sentIds = [p \in Publishers |-> {}]

-----------------------------------------------------------------------------
(* The loader. *)

\* DataBaseSave: put with or without overwrite, and its result in status.
Put(p, id, row, override) ==
  IF override \/ db[p][id] = Absent
  THEN /\ db' = [db EXCEPT ![p][id] = row]
       /\ status' = [status EXCEPT ![p] = TRUE]
  ELSE /\ status' = [status EXCEPT ![p] = FALSE]       \* DB_KEYEXIST
       /\ UNCHANGED db

\* Faulty variant: saving overwrites, like updating.
SaveWithOverride(p, id, item) ==
  /\ process[p] = "up"
  /\ \A n \in entered : n.item # item
  /\ Put(p, id, Unsent(item), TRUE)
  /\ entered' = entered \cup {Notice(p, id, item)}
  /\ UNCHANGED <<conns, disk, process, sender, senderVars, ends, exported,
                 sentIds>>

\* The editor types a notice, the clock gives it an id, SaveInDataBase puts
\* it as not exported.  Each item is typed once.
Save(p, id, item) ==
  /\ process[p] = "up"
  /\ \A n \in entered : n.item # item
  /\ Put(p, id, Unsent(item), FALSE)
  /\ entered' = entered \cup {Notice(p, id, item)}
  /\ UNCHANGED <<conns, disk, process, sender, senderVars, ends, exported,
                 sentIds>>

\* The editor chooses "2. Salir".
Quit(p) ==
  /\ process[p] = "up"
  /\ ends < MaxEnds
  /\ ends' = ends + 1
  /\ process' = [process EXCEPT ![p] = "quitting"]
  /\ UNCHANGED <<conns, fileVars, sender, senderVars, status, historyVars>>

-----------------------------------------------------------------------------
(* main. *)

\* The loop finds the loader alive and starts a sender.
StartSender(p) ==
  /\ process[p] = "up"
  /\ sender[p] = "idle"
  /\ sender' = [sender EXCEPT ![p] = "started"]
  /\ UNCHANGED <<conns, fileVars, process, senderVars, status, ends,
                 historyVars>>

\* The loop finds the loader gone: CloseDataBase writes everything out.
Finish(p) ==
  /\ process[p] = "quitting"
  /\ sender[p] = "idle"
  /\ process' = [process EXCEPT ![p] = "down"]
  /\ disk' = [disk EXCEPT ![p] = db[p]]
  /\ sentIds' = [sentIds EXCEPT ![p] = {}]
  /\ status' = [status EXCEPT ![p] = TRUE]
  /\ UNCHANGED <<conns, db, sender, senderVars, ends, entered, exported>>

-----------------------------------------------------------------------------
(* The sender. *)

Goto(p, from, to) ==
  /\ sender[p] = from
  /\ sender' = [sender EXCEPT ![p] = to]

\* SocketConnect succeeds: the connection waits in the server's backlog.
Connect(p, c) ==
  /\ Goto(p, "started", "scan")
  /\ conns[c] = Free
  /\ conns' = [conns EXCEPT ![c] = Fresh]
  /\ sock' = [sock EXCEPT ![p] = c]
  /\ UNCHANGED <<fileVars, process, cursor, current, found, status, ends,
                 historyVars>>

ConnectFails(p) ==
  /\ Goto(p, "started", "idle")
  /\ UNCHANGED <<conns, fileVars, process, senderVars, status, ends,
                 historyVars>>

\* The rows the sender's cursor has still to visit.
Ahead(p) == {id \in RowIds : id >= cursor[p] /\ db[p][id] # Absent}

\* status = cursor->get(DB_FIRST or DB_NEXT): the next row, copied into
\* CurrentNew.
GetRow(p) ==
  /\ Goto(p, "scan", "test")
  /\ \/ \E id \in Ahead(p) :
          /\ \A other \in Ahead(p) : id <= other
          /\ cursor' = [cursor EXCEPT ![p] = id + 1]
          /\ current' = [current EXCEPT ![p] =
               [id |-> id, item |-> db[p][id].item, state |-> db[p][id].state]]
          /\ found' = [found EXCEPT ![p] = TRUE]
          /\ status' = [status EXCEPT ![p] = TRUE]
     \/ /\ Ahead(p) = {}
        /\ found' = [found EXCEPT ![p] = FALSE]
        /\ status' = [status EXCEPT ![p] = FALSE]
        /\ UNCHANGED <<cursor, current>>
  /\ UNCHANGED <<conns, fileVars, process, sock, ends, historyVars>>

\* What the test of status == 0 may see: the value just assigned, kept in a
\* register, or the field, which the loader may have assigned since.
StatusSeen(p) == {found[p], status[p]}

\* What CurrentNew may be when the loop's body reads it: if no row was ever
\* copied into it, what is on the stack.  The Debug build fills the stack
\* with a pattern that is not NOEXPORTED, the Release build leaves zeros.
CurrentSeen(p) ==
  IF current[p] = Uninitialised THEN {Uninitialised, ZeroRecord}
  ELSE {current[p]}

\* The loop of DataBaseGetFirstNoExported returns CurrentNew.
ScanReturns(p) ==
  /\ Goto(p, "test", "shake")
  /\ TRUE \in StatusSeen(p)
  /\ \E record \in CurrentSeen(p) :
       /\ record.state = "unsent"
       /\ current' = [current EXCEPT ![p] = record]
  /\ UNCHANGED <<conns, fileVars, process, sock, cursor, found, status, ends,
                 historyVars>>

\* The loop goes on to the next row.
ScanGoesOn(p) ==
  /\ Goto(p, "test", "scan")
  /\ TRUE \in StatusSeen(p)
  /\ \E record \in CurrentSeen(p) : record.state # "unsent"
  /\ UNCHANGED <<conns, fileVars, process, senderVars, status, ends,
                 historyVars>>

\* The loop ends: nothing to export.
ScanEnds(p) ==
  /\ Goto(p, "test", "close")
  /\ FALSE \in StatusSeen(p)
  /\ UNCHANGED <<conns, fileVars, process, senderVars, status, ends,
                 historyVars>>

WriteHandshake(p) ==
  /\ Goto(p, "shake", "await")
  /\ conns' = [conns EXCEPT ![sock[p]] = Sent(@, Handshake)]
  /\ UNCHANGED <<fileVars, process, senderVars, status, ends, historyVars>>

\* Faulty variant: the row is marked before its contents are written.
ReadOkMarksAtOnce(p) ==
  /\ Goto(p, "await", "mark")
  /\ conns[sock[p]].down = "00"
  /\ conns' = [conns EXCEPT ![sock[p]].down = "none"]
  /\ UNCHANGED <<fileVars, process, senderVars, status, ends, historyVars>>

\* SocketRead returns "00".
ReadOk(p) ==
  /\ Goto(p, "await", "content")
  /\ conns[sock[p]].down = "00"
  /\ conns' = [conns EXCEPT ![sock[p]].down = "none"]
  /\ UNCHANGED <<fileVars, process, senderVars, status, ends, historyVars>>

\* Faulty variant: the row is marked although the handshake failed.
ReadFailsYetMarks(p) ==
  /\ Goto(p, "await", "mark")
  /\ conns[sock[p]].down = "none"
  /\ conns[sock[p]].server = "closed"
  /\ UNCHANGED <<conns, fileVars, process, senderVars, status, ends,
                 historyVars>>

\* SocketRead returns the empty string: the server closed or died.
ReadFails(p) ==
  /\ Goto(p, "await", "close")
  /\ conns[sock[p]].down = "none"
  /\ conns[sock[p]].server = "closed"
  /\ UNCHANGED <<conns, fileVars, process, senderVars, status, ends,
                 historyVars>>

\* Faulty variant: empty strings are written like any others.
XmlOfAnything(record) == Whole(record.id, record.item)

\* The XML of a record: one of empty strings has empty elements.
XmlOf(record) ==
  IF record.item = NoItem THEN Hollow ELSE Whole(record.id, record.item)

\* The notice is sent; whether anybody gets it, send does not say.
WriteContent(p) ==
  /\ Goto(p, "content", "mark")
  /\ conns' = [conns EXCEPT ![sock[p]] = Sent(@, XmlOf(current[p]))]
  /\ exported' = exported \cup {Notice(p, current[p].id, current[p].item)}
  /\ sentIds' = [sentIds EXCEPT ![p] = @ \cup {current[p].id}]
  /\ UNCHANGED <<fileVars, process, senderVars, status, ends, entered>>

\* Faulty variant: UpdateDataBase does not ask to overwrite.
MarkWithoutOverride(p) ==
  /\ Goto(p, "mark", "close")
  /\ Put(p, current[p].id, Exported(current[p].item), FALSE)
  /\ UNCHANGED <<conns, disk, process, senderVars, ends, historyVars>>

\* UpdateDataBase.
MarkExported(p) ==
  /\ Goto(p, "mark", "close")
  /\ Put(p, current[p].id, Exported(current[p].item), TRUE)
  /\ UNCHANGED <<conns, disk, process, senderVars, ends, historyVars>>

\* The sender's locals end with its thread: the next one starts afresh.
ForgetLocals(p) ==
  /\ sock' = [sock EXCEPT ![p] = NoConn]
  /\ cursor' = [cursor EXCEPT ![p] = 0]
  /\ current' = [current EXCEPT ![p] = Uninitialised]
  /\ found' = [found EXCEPT ![p] = FALSE]

\* close(Sock) and the end of the thread.
CloseSocket(p) ==
  /\ Goto(p, "close", "idle")
  /\ conns' = [conns EXCEPT ![sock[p]] = ClientCloses(@)]
  /\ ForgetLocals(p)
  /\ UNCHANGED <<fileVars, process, status, ends, historyVars>>

-----------------------------------------------------------------------------
(* Death and restart of the process. *)

\* What the file may hold after a kill: Berkeley DB writes its cache back when
\* it likes and nothing is logged or synced.  Of each row either all changes
\* have reached the file, or none since it was last closed or recovered, or,
\* of a notice that is new and already exported, only that it is new.
File(p, flushed, halfway) ==
  [id \in RowIds |->
     IF id \in flushed THEN db[p][id]
     ELSE IF /\ id \in halfway
             /\ disk[p][id] = Absent
             /\ db[p][id].item # NoItem
          THEN Unsent(db[p][id].item)
     ELSE disk[p][id]]

Files(p) == {File(p, flushed, halfway) :
               flushed \in SUBSET RowIds, halfway \in SUBSET RowIds}

\* Terminate (exit without CloseDataBase), or any other sudden end.
Kill(p) ==
  /\ process[p] # "down"
  /\ ends < MaxEnds
  /\ ends' = ends + 1
  /\ process' = [process EXCEPT ![p] = "down"]
  /\ sender' = [sender EXCEPT ![p] = "idle"]
  /\ ForgetLocals(p)
  /\ IF sock[p] = NoConn THEN UNCHANGED conns
     ELSE \E c \in ClientDies(conns[sock[p]]) :
            conns' = [conns EXCEPT ![sock[p]] = c]
  /\ \E file \in Files(p) :
       /\ disk' = [disk EXCEPT ![p] = file]
       /\ db' = [db EXCEPT ![p] = file]
  /\ status' = [status EXCEPT ![p] = TRUE]
  /\ sentIds' = [sentIds EXCEPT ![p] = {}]
  /\ UNCHANGED <<entered, exported>>

\* Somebody starts the program: CreateOrOpenDataBase.
Restart(p) ==
  /\ process[p] = "down"
  /\ process' = [process EXCEPT ![p] = "up"]
  /\ UNCHANGED <<conns, fileVars, sender, senderVars, status, ends,
                 historyVars>>

-----------------------------------------------------------------------------
\* A sender's steps that do not depend on the server's backlog.
SenderStep(p) ==
  \/ StartSender(p) \/ GetRow(p) \/ ScanReturns(p) \/ ScanGoesOn(p)
  \/ ScanEnds(p) \/ WriteHandshake(p) \/ ReadOk(p) \/ ReadFails(p)
  \/ WriteContent(p) \/ MarkExported(p) \/ CloseSocket(p)

EditorStep(p) ==
  \/ \E id \in Ids, item \in Items : Save(p, id, item)
  \/ Quit(p)

ProcessStep(p) == Finish(p) \/ Kill(p) \/ Restart(p)

\* A server in front of the publishers, of which only its answers matter.
ServerAnswers(c) ==
  /\ conns[c].server = "queued"
  /\ conns[c].up = Handshake
  /\ conns' = [conns EXCEPT ![c] = [@ EXCEPT !.up = Nothing, !.down = "00"]]
  /\ UNCHANGED <<fileVars, process, sender, senderVars, status, ends,
                 historyVars>>

ServerHangsUp(c) ==
  /\ conns[c].server = "queued"
  /\ conns' = [conns EXCEPT ![c] = ServerCloses(@)]
  /\ UNCHANGED <<fileVars, process, sender, senderVars, status, ends,
                 historyVars>>

Next ==
  \/ \E p \in Publishers :
       \/ SenderStep(p) \/ EditorStep(p) \/ ProcessStep(p) \/ ConnectFails(p)
       \/ \E c \in Conns : Connect(p, c)
  \/ \E c \in Conns : ServerAnswers(c) \/ ServerHangsUp(c)

Spec == Init /\ [][Next]_vars

-----------------------------------------------------------------------------
(* Properties. *)

\* A row is marked as exported only if its contents were written to a
\* connection, however the reply, the close or the death of the server cut
\* the exchange short.
MarkedWasWritten ==
  \A p \in Publishers : \A id \in RowIds :
    db[p][id].state = "sent" => Notice(p, id, db[p][id].item) \in exported

\* One run of the program never sends the same row twice: UpdateDataBase takes
\* it out of the scan before the next sender starts.
NoResendInOneRun ==
  \A p \in Publishers :
    sender[p] = "content" => current[p].id \notin sentIds[p]

\* While the process lives no row changes its contents, goes back to not
\* exported or disappears: a second notice with the same id is refused
\* (DB_NOOVERWRITE), the sender's update writes back what it read.  Row 0 is
\* excepted: the update after sending uninitialised memory may overwrite it.
RowsAreKept ==
  [][\A p \in Publishers : \A id \in Ids \ {0} :
       db[p][id] # Absent /\ process'[p] # "down" =>
         \/ db'[p][id] = db[p][id]
         \/ db'[p][id] = Exported(db[p][id].item)]_vars

\* DataBase.c logs "Se devolvio una noticia sin exportar" when the scan
\* returns: what it returns is a notice of the database, not exported.
ScanReturnsUnsentRow ==
  \A p \in Publishers :
    sender[p] = "shake" => db[p][current[p].id] = Unsent(current[p].item)

=============================================================================
