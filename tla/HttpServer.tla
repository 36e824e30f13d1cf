----------------------------- MODULE HttpServer -----------------------------
(***************************************************************************)
(* httpServer: a thread for each connection reads one request, answers it  *)
(* from memcached or from the LDAP service, and closes.  The threads share *)
(* the service and both memcached handles without a lock.                  *)
(***************************************************************************)
EXTENDS LdapSessions

CONSTANTS Requests,    \* the requests browsers make
          NoRequest,   \* no request
          Odd,         \* notices with the words of a cached notice's tags
          MaxRequests  \* bound: requests made

Paths == {"Index", "Group", "Notice", "other"}

\* "" is no '?' in the URL, "cut" is a '?' without '=' after it.
Params == {"", "group", "notice", "other", "cut"}

\* valid: begins with "GET /" and has "HTTP/1.1" and "Host:".
RequestTypes ==
  [valid : BOOLEAN, path : Paths, param : Params,
   arg : Ids \cup {Star, ""} \cup Groups]

ASSUME RequestsAssumption ==
  /\ Requests \subseteq RequestTypes
  /\ NoRequest \notin Requests
  /\ Odd \subseteq Ids
  /\ MaxRequests \in Nat

VARIABLES
  up,        \* the process runs
  thread,    \* where the thread of each connection is
  request,   \* what its browser sent
  page,      \* what the thread answers
  cached,    \* the two memcached servers: a notice under a key
  asked,     \* requests made so far
  \* histories of a request
  crossed,   \* another thread used the memcached handle meanwhile
  since,     \* notices stored when it was read
  outage     \* the directory server did not answer

httpVars == <<up, thread, request, page, cached, asked, crossed, since,
              outage>>
vars == <<ldapVars, httpVars>>

ThreadSteps == {"none", "read", "ask", "reply1", "reply2", "ldap", "set",
                "write"}

Keys == Ids \cup {Star, ""} \cup Groups

Codes == {0, 200, 404, 500}

\* Nothing is answered yet, or ever.
NoPage == [code |-> 0, shows |-> <<>>, groups |-> {}, garbled |-> FALSE]

\* redirectToErrorPage.
ErrorPage(code) == [NoPage EXCEPT !.code = code]

\* decoratePage and its contents: links to groups, links to notices from the
\* top of the stack to its bottom, or a notice.
IndexPage(groups) == [NoPage EXCEPT !.code = 200, !.groups = groups]

\* getHtmlLink of getNoticePageUrl of each notice StackPop gives.
NoticeLinks(stack) == PopAll(stack)

GroupPage(stack) == [NoPage EXCEPT !.code = 200, !.shows = NoticeLinks(stack)]

NoticePage(n) == [NoPage EXCEPT !.code = 200, !.shows = <<n>>]

TypeOK ==
  /\ LdapTypeOK
  /\ up \in BOOLEAN
  /\ thread \in [Threads -> ThreadSteps]
  /\ request \in [Threads -> Requests \cup {NoRequest}]
  /\ page \in [Threads -> [code : Codes, shows : Directories,
                           groups : SUBSET Groups, garbled : BOOLEAN]]
  /\ cached \in [1..2 -> [Keys -> Ids \cup {NoNotice}]]
  /\ asked \in 0..MaxRequests
  /\ crossed \in [Threads -> BOOLEAN]
  /\ since \in [Threads -> 0..Cardinality(Ids)]
  /\ outage \in [Threads -> BOOLEAN]

Init ==
  /\ LdapInit
  /\ up = TRUE
  /\ thread = [t \in Threads |-> "none"]
  /\ request = [t \in Threads |-> NoRequest]
  /\ page = [t \in Threads |-> NoPage]
  /\ cached = [i \in 1..2 |-> [k \in Keys |-> NoNotice]]
  /\ asked = 0
  /\ crossed = [t \in Threads |-> FALSE]
  /\ since = [t \in Threads |-> 0]
  /\ outage = [t \in Threads |-> FALSE]

-----------------------------------------------------------------------------
Goto(t, from, to) ==
  /\ thread[t] = from
  /\ thread' = [thread EXCEPT ![t] = to]

Answer(t, p) == page' = [page EXCEPT ![t] = p]

\* A browser connects and sends its request, ServerSocketListen accepts and
\* has a thread run onConnect.
Browse(t, r) ==
  /\ up
  /\ Goto(t, "none", "read")
  /\ asked < MaxRequests
  /\ asked' = asked + 1
  /\ request' = [request EXCEPT ![t] = r]
  /\ UNCHANGED <<ldapVars, up, page, cached, crossed, since, outage>>

\* NewUrlParser's verdict on a request of which every loop ends.
ParseResult(r) ==
  IF ~r.valid THEN "INVALID_REQUEST"
  ELSE IF ~(r.param \in {"notice", "group"} \/ (r.param = "" /\ r.path = "Index"))
    THEN "INVALID_PARAM"
  ELSE IF r.path = "other" THEN "INVALID_PATH"
  ELSE "SUCCESS"

\* Where start() goes with a request.
Dispatch(t, r) ==
  \/ /\ ParseResult(r) = "INVALID_REQUEST"
     /\ thread' = [thread EXCEPT ![t] = "write"]
     /\ UNCHANGED <<page, ldapVars>>
  \/ /\ ParseResult(r) \in {"INVALID_PARAM", "INVALID_PATH"}
     /\ thread' = [thread EXCEPT ![t] = "write"]
     /\ Answer(t, ErrorPage(404))
     /\ UNCHANGED ldapVars
  \/ /\ ParseResult(r) = "SUCCESS"
     /\ thread' = [thread EXCEPT ![t] = IF r.path = "Notice" THEN "ask" ELSE "ldap"]
     /\ \/ r.path = "Index" /\ Call(t, "id", Star)
        \/ r.path = "Group" /\ Call(t, "group", r.arg)
        \/ r.path = "Notice" /\ UNCHANGED ldapVars
     /\ UNCHANGED page

Reading(t) ==
  /\ thread[t] = "read"
  /\ since' = [since EXCEPT ![t] = Len(directory)]
  /\ UNCHANGED <<up, request, cached, asked, crossed, outage>>

\* readConnection reads until a read gives less than its buffer.  After a full
\* one it waits for more, until the browser leaves.
Read(t) ==
  /\ Reading(t)
  /\ ~(request[t].valid /\ request[t].param = "cut")
  /\ Dispatch(t, request[t])

\* Less comes than the whole request: the rest is never read.
ReadPart(t) ==
  /\ Reading(t)
  /\ Dispatch(t, [request[t] EXCEPT !.valid = FALSE])

\* The search for '=' leaves the URL, or the request: a parameter nobody knows.
ReadRunsOff(t) ==
  /\ Reading(t)
  /\ request[t].valid /\ request[t].param = "cut"
  /\ Dispatch(t, [request[t] EXCEPT !.param = "other"])

-----------------------------------------------------------------------------
(* DatabaseServiceGetNoticesById. *)

ReplyStep(i) == <<"reply1", "reply2">>[i]

\* The threads that wait for a reply on a memcached handle.
Waiting(i) == {t \in Threads : thread[t] = ReplyStep(i)}

\* A thread uses handles; with others on one they may get each other's reply.
Cross(t, handles) ==
  LET others == UNION {Waiting(i) : i \in handles} \ {t}
  IN crossed' = [u \in Threads |->
                   crossed[u] \/ (u \in others \cup {t} /\ others # {})]

\* getCache asks the first server.
Ask(t) ==
  /\ Goto(t, "ask", "reply1")
  /\ Cross(t, {1})
  /\ UNCHANGED <<ldapVars, up, request, page, cached, asked, since,
                 outage>>

\* What memcached_get may return: NULL is NoNotice.
Replies(t, i) ==
  IF crossed[t] THEN {NoNotice} \cup Range(cached[i])
                ELSE {cached[i][request[t].arg]}

\* convertXmlToNotice looks for tags wherever they are.
FromXml(n) == [NoticePage(n) EXCEPT !.garbled = n \in Odd]

Hit(t, i) ==
  /\ Goto(t, ReplyStep(i), "write")
  /\ \E n \in Replies(t, i) \ {NoNotice} : Answer(t, FromXml(n))
  /\ UNCHANGED <<ldapVars, up, request, cached, asked, crossed, since,
                 outage>>

\* Then the second.
MissFirst(t) ==
  /\ Goto(t, "reply1", "reply2")
  /\ NoNotice \in Replies(t, 1)
  /\ Cross(t, {2})
  /\ UNCHANGED <<ldapVars, up, request, page, cached, asked, since,
                 outage>>

\* Then the LDAP service.
MissSecond(t) ==
  /\ Goto(t, "reply2", "ldap")
  /\ NoNotice \in Replies(t, 2)
  /\ Call(t, "id", request[t].arg)
  /\ UNCHANGED <<up, request, page, cached, asked, crossed, since,
                 outage>>

Served(t) == thread[t] = "ldap" /\ at[t] = "idle"

\* The service returned NULL.
NotFound(t) ==
  /\ Served(t)
  /\ found[t] = <<>>
  /\ Return(t)
  /\ Goto(t, "ldap", "write")
  /\ Answer(t, ErrorPage(IF request[t].path = "Index" THEN 500 ELSE 404))
  /\ outage' = [outage EXCEPT ![t] = failed[t]]
  /\ UNCHANGED <<up, request, cached, asked, crossed, since>>

Found(t, path) ==
  /\ Served(t)
  /\ found[t] # <<>>
  /\ request[t].path = path
  /\ Return(t)
  /\ UNCHANGED <<up, request, cached, asked, crossed, since, outage>>

FoundGroups(t) ==
  /\ Found(t, "Index")
  /\ Goto(t, "ldap", "write")
  /\ Answer(t, IndexPage(GetNoticesGroups(found[t])))

FoundNotices(t) ==
  /\ Found(t, "Group")
  /\ Goto(t, "ldap", "write")
  /\ Answer(t, GroupPage(Pushed(found[t])))

FoundNotice(t) ==
  /\ Found(t, "Notice")
  /\ Goto(t, "ldap", "set")
  /\ Answer(t, NoticePage(Last(found[t])))

\* Faulty variant: the notice is cached under what was asked for.
RequestedKey(t) == request[t].arg

\* It is cached under its own id.
CacheKey(t) == Head(page[t].shows)

\* Faulty variant: the page is cached.
CachedPage(t) == page[t]

\* convertNoticeToXml.
CachedNotice(t) == Head(page[t].shows)

\* setearCache: memcached_set on both, whose results nobody looks at.
Set(t) ==
  /\ Goto(t, "set", "write")
  /\ \E stored \in SUBSET (1..2) :
       cached' = [i \in 1..2 |->
                    IF i \in stored
                    THEN [cached[i] EXCEPT ![CacheKey(t)] = CachedNotice(t)]
                    ELSE cached[i]]
  /\ Cross(t, 1..2)
  /\ UNCHANGED <<ldapVars, up, request, page, asked, since, outage>>

-----------------------------------------------------------------------------
Forgets(t, f, nothing) == f' = [f EXCEPT ![t] = nothing]

\* One send() of the answer, if there is one, ClientConnectionFree, and the
\* thread ends.
Write(t) ==
  /\ Goto(t, "write", "none")
  /\ Forgets(t, request, NoRequest)
  /\ Forgets(t, page, NoPage)
  /\ Forgets(t, crossed, FALSE)
  /\ Forgets(t, since, 0)
  /\ Forgets(t, outage, FALSE)
  /\ UNCHANGED <<ldapVars, up, cached, asked>>

ThreadStep(t) ==
  \/ Read(t) \/ ReadPart(t) \/ ReadRunsOff(t)
  \/ Ask(t) \/ MissFirst(t) \/ MissSecond(t)
  \/ \E i \in 1..2 : Hit(t, i)
  \/ LdapStep(t) /\ UNCHANGED httpVars
  \/ NotFound(t) \/ FoundGroups(t) \/ FoundNotices(t) \/ FoundNotice(t)
  \/ Set(t) \/ Write(t)

\* The process ends; what is cached stays.
EndProcess ==
  /\ up
  /\ up' = FALSE
  /\ Forget
  /\ thread' = [t \in Threads |-> "none"]
  /\ request' = [t \in Threads |-> NoRequest]
  /\ page' = [t \in Threads |-> NoPage]
  /\ crossed' = [t \in Threads |-> FALSE]
  /\ since' = [t \in Threads |-> 0]
  /\ outage' = [t \in Threads |-> FALSE]
  /\ UNCHANGED <<cached, asked>>

\* SIGPIPE, should the browser have gone: terminate() ends the whole program.
BrokenPipe(t) ==
  /\ thread[t] = "write"
  /\ page[t] # NoPage
  /\ EndProcess

\* The search for '=' or for ' ' leaves the request's memory.
RunsOffAndDies(t) ==
  /\ thread[t] = "read"
  /\ request[t].valid /\ request[t].param = "cut"
  /\ EndProcess

\* With an end tag before its tag SubString writes through a NULL.
FromXmlDies(t, i) ==
  /\ thread[t] = ReplyStep(i)
  /\ Replies(t, i) \cap Odd # {}
  /\ EndProcess

DiesOfDamage(t) == MayDie(t) /\ EndProcess

\* SIGTERM, SIGINT, or accept fails.
Terminate == EndProcess

\* Somebody starts the program.
Start ==
  /\ ~up
  /\ up' = TRUE
  /\ UNCHANGED <<ldapVars, thread, request, page, cached, asked,
                 crossed, since, outage>>

-----------------------------------------------------------------------------
\* memcached drops what it likes.
Evict(i, k) ==
  /\ cached[i][k] # NoNotice
  /\ cached' = [cached EXCEPT ![i][k] = NoNotice]
  /\ UNCHANGED <<ldapVars, up, thread, request, page, asked, crossed,
                 since, outage>>

NoticeStored == StoreNotice /\ UNCHANGED httpVars

Next ==
  \/ \E t \in Threads :
       \/ \E r \in Requests : Browse(t, r)
       \/ ThreadStep(t)
       \/ BrokenPipe(t) \/ RunsOffAndDies(t) \/ DiesOfDamage(t)
       \/ \E i \in 1..2 : FromXmlDies(t, i)
  \/ Terminate \/ Start
  \/ \E i \in 1..2, k \in Keys : Evict(i, k)
  \/ NoticeStored

Spec == Init /\ [][Next]_vars

-----------------------------------------------------------------------------
(* Properties. *)

\* Where a notice is in the directory.
Place(n) == CHOOSE i \in DOMAIN directory : directory[i] = n

\* What was stored when a request was read.
Stored(t) == SubSeq(directory, 1, since[t])

\* The notice that was asked for, a "*" one that is no older than the newest
\* there was, however often it was cached, evicted and read back, with its own
\* text unless that has the words of the tags.
NoticeIsRight(t, arg, p) ==
  /\ p.code = 200
  /\ \/ p.shows = <<arg>>
     \/ arg = Star /\ Place(Head(p.shows)) >= since[t]
  /\ p.garbled => Head(p.shows) \in Odd

\* The group's notices, of "*" those of every group, newest first.  What was
\* stored and is left out found the stack full of older ones.
GroupIsRight(t, arg, p) ==
  LET left == Range(WithGroup(Stored(t), arg)) \ Range(p.shows)
  IN /\ p.code = 200
     /\ \A n \in Range(p.shows) : InGroup(n, arg)
     /\ \A i, j \in DOMAIN p.shows :
          i < j => Place(p.shows[j]) < Place(p.shows[i])
     /\ left # {} => /\ Len(p.shows) = DIM
                     /\ \A n \in left : Place(Head(p.shows)) < Place(n)

IndexIsRight(t, p) ==
  p.code = 200 /\ GetNoticesGroups(Stored(t)) \subseteq p.groups

\* A page that is sent is right, and an error says that there was nothing to
\* show.  Replies that cross, damage in the LDAP service and outages of the
\* directory are set apart.
PageIsRight ==
  \A t \in Threads :
    LET r == request[t]
        p == page[t]
    IN thread[t] = "write" /\ p # NoPage /\ ParseResult(r) = "SUCCESS"
         /\ ~crossed[t] /\ ~damaged
       => CASE r.path = "Notice" ->
                 \/ NoticeIsRight(t, r.arg, p)
                 \/ p.code = 404 /\ (outage[t] \/ WithId(Stored(t), r.arg) = <<>>)
            [] r.path = "Group" ->
                 \/ GroupIsRight(t, r.arg, p)
                 \/ p.code = 404 /\ (outage[t] \/ WithGroup(Stored(t), r.arg) = <<>>)
            [] OTHER ->
                 \/ IndexIsRight(t, p)
                 \/ p.code = 500 /\ (outage[t] \/ Stored(t) = <<>>)

=============================================================================
