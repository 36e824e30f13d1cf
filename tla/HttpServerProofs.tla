-------------------------- MODULE HttpServerProofs --------------------------
(***************************************************************************)
(* What the threads of the HTTP server keep of the LDAP service they       *)
(* share, and that the pages they send are right, for every number of      *)
(* threads, notices and requests.                                          *)
(***************************************************************************)
EXTENDS HttpServer, LdapReadsFacts

ServiceTypes ==
  /\ at \in [Threads -> Steps]
  /\ context \in Threads \cup {NoThread}
  /\ contexts \in [Threads -> Lives]
  /\ sessions \in [Threads -> Threads \cup {NoThread}]
  /\ overlapped \in BOOLEAN
  /\ damaged \in BOOLEAN

\* Between NewContext and CloseContext.
Inside == {"initialize", "session", "search", "end", "free"}

\* The life of a lone request's context before each of its steps.
LifeBefore(step) ==
  CASE step = "initialize" -> "new"
    [] step = "free"       -> "closed"
    [] OTHER               -> "open"

\* A thread inside the service has it to itself: the service's context is its
\* own, with the life that its step needs, and its session's.
Alone(t) ==
  /\ context = t
  /\ contexts[t] = LifeBefore(at[t])
  /\ at[t] \in {"search", "end"} => sessions[t] = t

\* As long as no two threads were inside, the one there is alone, and whoever
\* is not there has left nothing behind.
LoneRequests ==
  ~overlapped =>
    /\ ~damaged
    /\ \A t \in Threads : IF at[t] \in Inside THEN Alone(t)
                          ELSE contexts[t] = "freed"

\* The inductive invariant.
IInv == ServiceTypes /\ LoneRequests

-----------------------------------------------------------------------------
LEMMA InvInit == Init => IInv
BY DEF Init, LdapInit, IInv, ServiceTypes, LoneRequests, Inside, Steps, Lives

LEMMA UnchangedKeeps ==
  ASSUME IInv, UNCHANGED <<at, context, contexts, sessions, overlapped, damaged>>
  PROVE  IInv'
BY DEF IInv, ServiceTypes, LoneRequests, Alone

\* A lone request's next step is sound.
LEMMA LoneIsSound ==
  ASSUME IInv, NEW t \in Threads, ~overlapped
  PROVE  Sound(t)
BY ThreadsAssumption
   DEF IInv, ServiceTypes, LoneRequests, Alone, LifeBefore, Sound, Bound,
       Inside, Steps

\* Nobody else is inside when a thread enters without overlapping.
LEMMA NewContextKeeps ==
  ASSUME IInv, NEW t \in Threads, NewContext(t)
  PROVE  IInv'
<1>1. ServiceTypes'
  BY DEF IInv, ServiceTypes, NewContext, Step, Steps, Lives
<1>2. ASSUME ~overlapped' PROVE ~damaged'
  BY <1>2, LoneIsSound DEF NewContext, Step, IInv, LoneRequests
<1>3. ASSUME ~overlapped', NEW u \in Threads
      PROVE  IF at[u]' \in Inside THEN Alone(u)' ELSE contexts[u]' = "freed"
  <2>1. CASE u = t
    BY <2>1 DEF IInv, ServiceTypes, NewContext, Step, Alone, LifeBefore, Inside
  <2>2. CASE u # t
    <3>1. at[u] \in {"idle", "new"} /\ at'[u] = at[u] /\ contexts'[u] = contexts[u]
      BY <1>3, <2>2 DEF IInv, ServiceTypes, NewContext, Step, Overlaps
    <3>2. contexts[u] = "freed"
      BY <1>3, <3>1 DEF IInv, LoneRequests, NewContext, Inside
    <3> QED BY <3>1, <3>2 DEF Inside
  <2> QED BY <2>1, <2>2
<1> QED BY <1>1, <1>2, <1>3 DEF IInv, LoneRequests

\* The other steps are taken inside, by whom the context is.
LEMMA InsideKeeps ==
  ASSUME IInv, NEW t \in Threads,
         \/ Initialize(t) \/ GetSession(t) \/ Search(t)
         \/ SearchFindsNothing(t) \/ SearchFails(t)
         \/ CloseSession(t) \/ CloseContext(t)
  PROVE  IInv'
<1> USE DEF Initialize, GetSession, Search, SearchFindsNothing, SearchFails,
            CloseSession, CloseContext, Step, serviceVars
<1>1. ServiceTypes'
  <2>1. at' \in [Threads -> Steps] /\ overlapped' \in BOOLEAN
    BY DEF IInv, ServiceTypes, Steps
  <2>2. damaged' \in BOOLEAN
    BY DEF IInv, ServiceTypes
  <2>3. sessions' \in [Threads -> Threads \cup {NoThread}]
    <3>1. CASE GetSession(t)
      BY <3>1 DEF IInv, ServiceTypes
    <3>2. CASE ~GetSession(t)
      BY <3>2 DEF IInv, ServiceTypes
    <3> QED BY <3>1, <3>2
  <2>4. contexts' \in [Threads -> Lives]
    BY DEF IInv, ServiceTypes, Lives, Opened, Closed
  <2>5. context' \in Threads \cup {NoThread}
    BY DEF IInv, ServiceTypes
  <2> QED BY <2>1, <2>2, <2>3, <2>4, <2>5 DEF ServiceTypes
<1>2. overlapped' = overlapped /\ at[t] \in Inside
  BY DEF Inside
<1>3. ASSUME ~overlapped PROVE ~damaged' /\ Alone(t)
  BY <1>2, <1>3, LoneIsSound DEF IInv, LoneRequests
<1>4. ASSUME ~overlapped, NEW u \in Threads, u # t
      PROVE  /\ at[u] \notin Inside
             /\ at'[u] = at[u] /\ contexts'[u] = contexts[u]
  BY <1>3, <1>4 DEF IInv, ServiceTypes, LoneRequests, Alone
<1>5. ASSUME ~overlapped
      PROVE  IF at[t]' \in Inside THEN Alone(t)' ELSE contexts[t]' = "freed"
  BY <1>3, <1>5 DEF IInv, ServiceTypes, Alone, LifeBefore, Inside, Opened, Closed
<1>6. ASSUME ~overlapped, NEW u \in Threads, u # t
      PROVE  IF at[u]' \in Inside THEN Alone(u)' ELSE contexts[u]' = "freed"
  BY <1>4, <1>6 DEF IInv, LoneRequests
<1> QED BY <1>1, <1>2, <1>3, <1>5, <1>6 DEF IInv, LoneRequests

\* A request enters and leaves the service without touching what it shares.
LEMMA CallKeeps ==
  ASSUME IInv, NEW t \in Threads, NEW by, NEW value, Call(t, by, value)
  PROVE  IInv'
BY DEF Call, serviceVars, IInv, ServiceTypes, LoneRequests, Alone, Inside, Steps

LEMMA EndProcessKeeps ==
  ASSUME IInv, EndProcess
  PROVE  IInv'
BY DEF EndProcess, Forget, IInv, ServiceTypes, LoneRequests, Inside, Steps,
       Lives

LEMMA DispatchKeeps ==
  ASSUME IInv, NEW t \in Threads, NEW r, Dispatch(t, r)
  PROVE  IInv'
<1>1. \/ UNCHANGED ldapVars
      \/ \E by, value : Call(t, by, value)
  BY DEF Dispatch
<1> QED BY <1>1, CallKeeps, UnchangedKeeps DEF ldapVars, serviceVars

LEMMA InvNext == IInv /\ [Next]_vars => IInv'
<1> SUFFICES ASSUME IInv, [Next]_vars PROVE IInv'
  OBVIOUS
<1>1. ASSUME UNCHANGED ldapVars PROVE IInv'
  BY <1>1, UnchangedKeeps DEF ldapVars, serviceVars
<1>2. CASE UNCHANGED vars
  BY <1>1, <1>2 DEF vars
<1>3. ASSUME NEW t \in Threads, NEW r \in Requests, Browse(t, r) PROVE IInv'
  BY <1>1, <1>3 DEF Browse
<1>4. ASSUME NEW t \in Threads, ThreadStep(t) PROVE IInv'
  <2>1. CASE Read(t) \/ ReadPart(t) \/ ReadRunsOff(t)
    BY <2>1, DispatchKeeps DEF Read, ReadPart, ReadRunsOff
  <2>2. CASE Ask(t) \/ MissFirst(t) \/ (\E i \in 1..2 : Hit(t, i)) \/ Set(t)
               \/ Write(t)
    BY <1>1, <2>2 DEF Ask, MissFirst, Hit, Set, Write
  <2>3. CASE MissSecond(t)
    BY <2>3, CallKeeps DEF MissSecond
  <2>4. CASE LdapStep(t)
    BY <2>4, NewContextKeeps, InsideKeeps DEF LdapStep
  <2>5. CASE NotFound(t) \/ FoundGroups(t) \/ FoundNotices(t) \/ FoundNotice(t)
    BY <2>5, UnchangedKeeps DEF NotFound, FoundGroups, FoundNotices,
       FoundNotice, Found, Return, serviceVars
  <2> QED BY <1>4, <2>1, <2>2, <2>3, <2>4, <2>5 DEF ThreadStep
<1>5. CASE EndProcess
  BY <1>5, EndProcessKeeps
<1>6. CASE Start \/ (\E i \in 1..2, k \in Keys : Evict(i, k))
  BY <1>1, <1>6 DEF Start, Evict
<1>7. CASE NoticeStored
  BY <1>7, UnchangedKeeps DEF NoticeStored, StoreNotice, serviceVars
<1> QED BY <1>2, <1>3, <1>4, <1>5, <1>6, <1>7
        DEF Next, BrokenPipe, RunsOffAndDies, DiesOfDamage, FromXmlDies, Terminate

LEMMA Invariance == Spec => []IInv
<1> QED BY InvInit, InvNext, PTL DEF Spec

-----------------------------------------------------------------------------
\* A request that has the LDAP service to itself uses no memory that is gone,
\* and leaves no context behind, whatever it is told; it takes two threads to
\* free each other's context.
THEOREM LoneRequestsAreSafe == Spec => []DamageNeedsOverlap
<1>1. IInv => DamageNeedsOverlap
  BY DEF IInv, LoneRequests, DamageNeedsOverlap, Inside
<1> QED BY <1>1, Invariance, PTL

-----------------------------------------------------------------------------
(* The pages. *)

\* What a request asks the service for.
Wanted(r) ==
  CASE r.path = "Index" -> [by |-> "id", value |-> Star]
    [] r.path = "Group" -> [by |-> "group", value |-> r.arg]
    [] OTHER            -> [by |-> "id", value |-> r.arg]

\* What a directory holds for a query.
MatchingIn(d, q) ==
  IF q.by = "id" THEN WithId(d, q.value) ELSE WithGroup(d, q.value)

\* The notices that were stored first.
Oldest(m) == SubSeq(directory, 1, m)

\* A notice is cached under its own id, so that a key that is no id is not.
Cache ==
  \A i \in 1..2 : \A k \in Keys : cached[i][k] \in {NoNotice, k}

\* Where a thread is tells what its request is and what it has so far.
Course(t) ==
  /\ thread[t] # "none" => request[t] \in Requests
  /\ thread[t] \notin {"none", "read", "write"} =>
       ParseResult(request[t]) = "SUCCESS"
  /\ thread[t] \in {"ask", "reply1", "reply2", "set"} =>
       request[t].path = "Notice"
  /\ IF thread[t] = "ldap" THEN query[t] = Wanted(request[t])
     ELSE at[t] = "idle" /\ found[t] = <<>> /\ ~failed[t]
  /\ thread[t] \notin {"set", "write"} => page[t] = NoPage
  /\ thread[t] = "set" => \E n \in Ids : page[t] = NoticePage(n)
  /\ since[t] <= Len(directory)

\* The search found what the directory held at some time since the request was
\* read, or nothing because there was nothing even then.
Searched(t) ==
  thread[t] = "ldap" =>
    /\ at[t] \in {"new", "initialize", "session", "search"} =>
         found[t] = <<>> /\ ~failed[t]
    /\ found[t] # <<>> =>
         \E m \in since[t]..Len(directory) :
           found[t] = MatchingIn(Oldest(m), query[t])
    /\ at[t] \in {"end", "free", "idle"} /\ found[t] = <<>> /\ ~failed[t] =>
         MatchingIn(Stored(t), query[t]) = <<>>

\* A page's notice is the one asked for, or was the newest at some time since.
NoticeHolds(t) ==
  LET p == page[t]
  IN /\ p.code = 200
     /\ \/ p.shows = <<request[t].arg>>
        \/ /\ request[t].arg = Star
           /\ \E i \in 1..Len(directory) :
                since[t] <= i /\ p.shows = <<directory[i]>>
     /\ p.garbled => Head(p.shows) \in Odd

\* A group's page is made of what was stored at some time since.
GroupHolds(t) ==
  /\ page[t].code = 200
  /\ \E m \in since[t]..Len(directory) :
       page[t].shows = PopAll(Pushed(WithGroup(Oldest(m), request[t].arg)))

\* An error page is right.
ErrorHolds(t, code) ==
  /\ page[t].code = code
  /\ outage[t] \/ MatchingIn(Stored(t), Wanted(request[t])) = <<>>

Holds(t) ==
  LET r == request[t]
      p == page[t]
  IN CASE r.path = "Notice" -> NoticeHolds(t) \/ ErrorHolds(t, 404)
       [] r.path = "Group"  -> GroupHolds(t) \/ ErrorHolds(t, 404)
       [] OTHER             -> IndexIsRight(t, p) \/ ErrorHolds(t, 500)

\* The page that a thread is about to send.
Answered(t) ==
  /\ thread[t] \in {"set", "write"} /\ page[t] # NoPage
  /\ ParseResult(request[t]) = "SUCCESS" /\ ~crossed[t]
  => Holds(t)

\* The inductive invariant of the pages.
PInv ==
  /\ TypeOK
  /\ Cache
  /\ \A t \in Threads : Course(t) /\ Searched(t) /\ Answered(t)

-----------------------------------------------------------------------------
(* What searches and pages are made of. *)

LEMMA MatchingIsDirectory ==
  ASSUME NEW d \in Directories, NEW q
  PROVE  MatchingIn(d, q) \in Directories
BY EntriesAreDirectory DEF MatchingIn, WithId, WithGroup

LEMMA MatchingRange ==
  ASSUME NEW d \in Directories, NEW v
  PROVE  /\ Range(WithId(d, v)) = {n \in Range(d) : v \in {n, Star}}
         /\ Range(WithGroup(d, v)) = {n \in Range(d) : InGroup(n, v)}
<1>1. d \in Seq(Ids) /\ Range(d) \subseteq Ids
  BY DirectoryIsSequence DEF Range
<1> QED BY <1>1, EntriesMatch DEF WithId, WithGroup

\* Where nothing is found, nothing was found before.
LEMMA NothingMatches ==
  ASSUME NEW d \in Directories, NEW m \in 0..Len(d), NEW q, MatchingIn(d, q) = <<>>
  PROVE  MatchingIn(SubSeq(d, 1, m), q) = <<>>
<1> DEFINE s == SubSeq(d, 1, m)
<1>1. s \in Directories /\ Range(s) \subseteq Range(d)
  <2>1. d \in Seq(Ids) /\ Range(s) = {d[i] : i \in 1..m} /\ s \in Directories
    BY OldestAreDirectory, DirectoryIsSequence
  <2> QED BY <2>1 DEF Range
<1> HIDE DEF s
<1>2. /\ MatchingIn(d, q) \in Directories /\ MatchingIn(s, q) \in Directories
      /\ Range(MatchingIn(s, q)) \subseteq Range(MatchingIn(d, q))
  <2>1. Range(MatchingIn(s, q)) \subseteq Range(MatchingIn(d, q))
    BY <1>1, MatchingRange DEF MatchingIn
  <2> QED BY <1>1, <2>1, MatchingIsDirectory
<1>3. ASSUME MatchingIn(s, q) # <<>> PROVE FALSE
  <2>1. Last(MatchingIn(s, q)) \in Range(MatchingIn(s, q))
    BY <1>2, <1>3, LastIsFound
  <2>2. Range(<<>>) = {}
    BY DEF Range
  <2> QED BY <1>2, <2>1, <2>2
<1> QED BY <1>3 DEF s

\* A notice is in one place.
LEMMA PlaceOfNotice ==
  ASSUME directory \in Directories, NEW i \in 1..Len(directory)
  PROVE  Place(directory[i]) = i
<1>1. directory \in Seq(Ids) /\ IsInjective(directory)
  BY DirectoryIsSequence
<1>2. \A j \in DOMAIN directory : directory[j] = directory[i] <=> j = i
  BY <1>1 DEF IsInjective
<1>3. i \in DOMAIN directory
  BY <1>1
<1> QED BY <1>2, <1>3 DEF Place

\* What a thread may answer.
Pages == [code : Codes, shows : Directories, groups : SUBSET Groups,
          garbled : BOOLEAN]

LEMMA PageTypes ==
  /\ NoPage \in Pages /\ NoPage.code = 0
  /\ \A code \in Codes : ErrorPage(code) \in Pages /\ ErrorPage(code).code = code
  /\ \A d \in Directories :
       /\ IndexPage(GetNoticesGroups(d)) \in Pages
       /\ IndexPage(GetNoticesGroups(d)).code = 200
       /\ IndexPage(GetNoticesGroups(d)).groups = GetNoticesGroups(d)
       /\ GroupPage(d) \in Pages
       /\ GroupPage(d).code = 200
       /\ GroupPage(d).shows = PopAll(d)
<1>1. /\ <<>> \in Directories
      /\ \A d \in Directories : PopAll(d) \in Directories
      /\ \A d \in Directories : GetNoticesGroups(d) \subseteq Groups
  <2>1. \A d \in Directories : GetNoticesGroups(d) \subseteq Groups
    BY GroupsAssumption, DirectoryIsSequence DEF GetNoticesGroups, Range
  <2> QED BY <2>1, EmptyIsDirectory, PoppedIsDirectory
<1>2. NoPage \in Pages /\ {200, 404, 500} \subseteq Codes /\ NoPage.code = 0
  BY <1>1 DEF NoPage, Codes, Pages
<1>3. ASSUME NEW code \in Codes
      PROVE  ErrorPage(code) \in Pages /\ ErrorPage(code).code = code
  <2> DEFINE p == NoPage
  <2>1. p \in Pages /\ ErrorPage(code) = [p EXCEPT !.code = code]
    BY <1>2 DEF ErrorPage
  <2> HIDE DEF p
  <2> QED BY <2>1 DEF Pages
<1>4. ASSUME NEW d \in Directories
      PROVE  /\ IndexPage(GetNoticesGroups(d)) \in Pages
             /\ IndexPage(GetNoticesGroups(d)).code = 200
             /\ IndexPage(GetNoticesGroups(d)).groups = GetNoticesGroups(d)
  <2> DEFINE p == NoPage
             g == GetNoticesGroups(d)
  <2>1. /\ p \in Pages /\ g \in SUBSET Groups /\ 200 \in Codes
        /\ IndexPage(g) = [p EXCEPT !.code = 200, !.groups = g]
    BY <1>1, <1>2 DEF IndexPage
  <2> HIDE DEF p, g
  <2>2. IndexPage(g) \in Pages /\ IndexPage(g).code = 200 /\ IndexPage(g).groups = g
    BY <2>1 DEF Pages
  <2> QED BY <2>2 DEF g
<1>5. ASSUME NEW d \in Directories
      PROVE  /\ GroupPage(d) \in Pages
             /\ GroupPage(d).code = 200 /\ GroupPage(d).shows = PopAll(d)
  <2> DEFINE p == NoPage
             s == PopAll(d)
  <2>1. /\ p \in Pages /\ s \in Directories /\ 200 \in Codes
        /\ GroupPage(d) = [p EXCEPT !.code = 200, !.shows = s]
    BY <1>1, <1>2 DEF GroupPage, NoticeLinks
  <2> HIDE DEF p, s
  <2>2. GroupPage(d) \in Pages /\ GroupPage(d).code = 200 /\ GroupPage(d).shows = s
    BY <2>1 DEF Pages
  <2> QED BY <2>2 DEF s
<1> QED BY <1>2, <1>3, <1>4, <1>5

\* The page of a notice, from the directory or from memcached.
LEMMA NoticePageTypes ==
  ASSUME NEW n \in Ids
  PROVE  /\ NoticePage(n) \in Pages
         /\ NoticePage(n).code = 200
         /\ NoticePage(n).shows = <<n>>
         /\ ~NoticePage(n).garbled
         /\ FromXml(n) \in Pages
         /\ FromXml(n).code = 200
         /\ FromXml(n).shows = <<n>>
         /\ FromXml(n).garbled <=> n \in Odd
<1> DEFINE p == NoPage
           s == <<n>>
           q == NoticePage(n)
<1>1. p \in Pages /\ ~p.garbled /\ s \in Directories /\ 200 \in Codes
  BY PageTypes, NoticeAlone DEF Codes, NoPage
<1>2. q = [p EXCEPT !.code = 200, !.shows = s]
  BY DEF NoticePage
<1>3. FromXml(n) = [q EXCEPT !.garbled = n \in Odd]
  BY DEF FromXml
<1> HIDE DEF p, s, q
<1>4. q \in Pages /\ q.code = 200 /\ q.shows = s /\ ~q.garbled
  BY <1>1, <1>2 DEF Pages
<1>5. FromXml(n) \in Pages /\ FromXml(n).code = 200 /\ FromXml(n).shows = s
  <2> DEFINE Right(x) == x \in Pages /\ x.code = 200 /\ x.shows = s
  <2>1. Right([q EXCEPT !.garbled = TRUE]) /\ Right([q EXCEPT !.garbled = FALSE])
    BY <1>4 DEF Pages
  <2> SUFFICES Right(FromXml(n))
    OBVIOUS
  <2> HIDE DEF Right
  <2>2. CASE n \in Odd
    <3>1. FromXml(n) = [q EXCEPT !.garbled = TRUE]
      <4>1. (n \in Odd) = TRUE
        BY <2>2
      <4> QED BY <1>3, <4>1, Zenon
    <3> QED BY <2>1, <3>1, Zenon
  <2>3. CASE n \notin Odd
    <3>1. FromXml(n) = [q EXCEPT !.garbled = FALSE]
      <4>1. (n \in Odd) = FALSE
        BY <2>3
      <4> QED BY <1>3, <4>1, Zenon
    <3> QED BY <2>1, <3>1, Zenon
  <2> QED BY <2>2, <2>3
<1>6. FromXml(n).garbled <=> n \in Odd
  BY <1>3, <1>4 DEF Pages
<1> QED BY <1>4, <1>5, <1>6 DEF s, q

-----------------------------------------------------------------------------
(* What threads leave each other. *)

\* What a thread has for itself.
Own(t) == <<thread[t], request[t], page[t], at[t], query[t], found[t], failed[t],
            since[t], outage[t]>>

LEMMA HoldsStays ==
  ASSUME NEW t \in Threads, Holds(t), directory' = directory,
         request'[t] = request[t], page'[t] = page[t], since'[t] = since[t],
         outage'[t] = outage[t]
  PROVE  Holds(t)'
<1>1. Stored(t)' = Stored(t)
  BY DEF Stored
<1>2. \A code : ErrorHolds(t, code)' <=> ErrorHolds(t, code)
  BY <1>1 DEF ErrorHolds
<1>3. NoticeHolds(t)' <=> NoticeHolds(t)
  BY DEF NoticeHolds
<1>4. /\ GroupHolds(t)' <=> GroupHolds(t)
      /\ IndexIsRight(t, page[t])' <=> IndexIsRight(t, page[t])
  BY <1>1 DEF GroupHolds, Oldest, IndexIsRight
<1> QED BY <1>2, <1>3, <1>4 DEF Holds

LEMMA Undisturbed ==
  ASSUME NEW u \in Threads, Course(u), Searched(u), Answered(u),
         UNCHANGED directory, Own(u)' = Own(u), crossed[u] => crossed'[u]
  PROVE  Course(u)' /\ Searched(u)' /\ Answered(u)'
<1>1. /\ thread'[u] = thread[u] /\ request'[u] = request[u] /\ page'[u] = page[u]
      /\ at'[u] = at[u] /\ query'[u] = query[u] /\ found'[u] = found[u]
      /\ failed'[u] = failed[u] /\ since'[u] = since[u] /\ outage'[u] = outage[u]
  BY DEF Own
<1>2. Course(u)'
  BY <1>1 DEF Course
<1>3. Stored(u)' = Stored(u) /\ \A m : Oldest(m)' = Oldest(m)
  BY <1>1 DEF Stored, Oldest
<1>4. Searched(u)'
  BY <1>1, <1>3 DEF Searched
<1>5. Answered(u)'
  BY <1>1, HoldsStays DEF Answered
<1> QED BY <1>2, <1>4, <1>5

\* A step of one thread.
LEMMA OneThread ==
  ASSUME PInv, NEW t \in Threads, UNCHANGED directory,
         \A u \in Threads \ {t} :
           Own(u)' = Own(u) /\ (crossed[u] => crossed'[u]),
         Course(t)', Searched(t)', Answered(t)', TypeOK', Cache'
  PROVE  PInv'
BY Undisturbed DEF PInv

\* A thread that does nothing and has asked nothing.
LEMMA PInvInit == Init => PInv
<1> SUFFICES ASSUME Init PROVE PInv
  OBVIOUS
<1>1. directory \in Directories /\ <<>> \in Directories /\ Cardinality(Ids) \in Nat
      /\ 0 <= Len(directory)
  <2>1. directory \in Directories
    BY DEF Init, LdapInit
  <2> QED BY <2>1, EmptyIsDirectory, DirectoryIsBounded, DirectoryIsSequence,
             FS_CardinalityType, IdsAssumption
<1>2. LdapTypeOK
  BY <1>1 DEF Init, LdapInit, LdapTypeOK, Steps, Queries, NoQuery, Lives
<1>3. TypeOK
  <2>1. page \in [Threads -> Pages]
    BY PageTypes DEF Init
  <2>2. since \in [Threads -> 0..Cardinality(Ids)]
    BY <1>1 DEF Init
  <2>3. request \in [Threads -> Requests \cup {NoRequest}] /\ asked \in 0..MaxRequests
    BY RequestsAssumption DEF Init
  <2>4. cached \in [1..2 -> [Keys -> Ids \cup {NoNotice}]]
    BY DEF Init
  <2>5. /\ thread \in [Threads -> ThreadSteps] /\ up \in BOOLEAN
        /\ crossed \in [Threads -> BOOLEAN] /\ outage \in [Threads -> BOOLEAN]
    BY DEF Init, ThreadSteps
  <2> QED BY <1>2, <2>1, <2>2, <2>3, <2>4, <2>5 DEF TypeOK, Pages
<1>4. Cache
  BY DEF Init, Cache
<1>5. ASSUME NEW t \in Threads PROVE Course(t) /\ Searched(t) /\ Answered(t)
  BY <1>1 DEF Init, LdapInit, Course, Searched, Answered
<1> QED BY <1>3, <1>4, <1>5 DEF PInv

-----------------------------------------------------------------------------
(* The types of the LDAP service. *)

LEMMA LdapTypesStay == LdapTypeOK /\ UNCHANGED ldapVars => LdapTypeOK'
BY DEF ldapVars, serviceVars, LdapTypeOK

LEMMA CallTypes ==
  ASSUME LdapTypeOK, NEW t \in Threads, NEW by \in {"id", "group"},
         NEW value \in Ids \cup {Star, ""} \cup Groups, Call(t, by, value)
  PROVE  LdapTypeOK'
<1>1. [by |-> by, value |-> value] \in Queries
  BY DEF Queries
<1>2. at' \in [Threads -> Steps] /\ query' \in [Threads -> Queries]
  BY <1>1 DEF Call, LdapTypeOK, Steps
<1> QED BY <1>2 DEF Call, LdapTypeOK, serviceVars

LEMMA ReturnTypes ==
  ASSUME LdapTypeOK, NEW t \in Threads, Return(t)
  PROVE  LdapTypeOK'
<1>1. NoQuery \in Queries
  BY DEF NoQuery, Queries
<1>2. /\ query' \in [Threads -> Queries] /\ found' \in [Threads -> Directories]
      /\ failed' \in [Threads -> BOOLEAN]
  BY <1>1, EmptyIsDirectory DEF Return, LdapTypeOK
<1> QED BY <1>2 DEF Return, LdapTypeOK, serviceVars

LEMMA ForgetTypes ==
  ASSUME LdapTypeOK, Forget
  PROVE  LdapTypeOK'
<1>1. NoQuery \in Queries
  BY DEF NoQuery, Queries
<1> QED BY <1>1, EmptyIsDirectory DEF Forget, LdapTypeOK, Steps, Lives

LEMMA StoreTypes ==
  ASSUME LdapTypeOK, StoreNotice
  PROVE  LdapTypeOK'
<1>1. directory' \in Directories
  BY StoredIsDirectory DEF StoreNotice, LdapTypeOK
<1> QED BY <1>1 DEF StoreNotice, LdapTypeOK, serviceVars

LEMMA LdapStepTypes ==
  ASSUME LdapTypeOK, NEW t \in Threads, LdapStep(t)
  PROVE  LdapTypeOK'
<1> USE DEF Step
<1>1. at' \in [Threads -> Steps] /\ damaged' \in BOOLEAN /\ overlapped' \in BOOLEAN
  <2>1. at' \in [Threads -> Steps]
    BY DEF LdapTypeOK, Steps, LdapStep, NewContext, Initialize, GetSession,
           Search, SearchFindsNothing, SearchFails, CloseSession, CloseContext
  <2>2. damaged' \in BOOLEAN
    BY DEF LdapTypeOK, LdapStep, NewContext, Initialize, GetSession,
           Search, SearchFindsNothing, SearchFails, CloseSession, CloseContext
  <2>3. overlapped' \in BOOLEAN
    BY DEF LdapTypeOK, LdapStep, NewContext, Initialize, GetSession,
           Search, SearchFindsNothing, SearchFails, CloseSession, CloseContext
  <2> QED BY <2>1, <2>2, <2>3
<1>2. UNCHANGED <<query, directory>>
  BY DEF LdapStep, NewContext, Initialize, GetSession,
         Search, SearchFindsNothing, SearchFails, CloseSession, CloseContext
<1>3. CASE NewContext(t)
  BY <1>1, <1>2, <1>3 DEF NewContext, LdapTypeOK, Lives
<1>4. CASE Initialize(t)
  BY <1>1, <1>2, <1>4 DEF Initialize, LdapTypeOK, Lives, Opened
<1>5. CASE GetSession(t)
  BY <1>1, <1>2, <1>5 DEF GetSession, LdapTypeOK
<1>6. CASE Search(t)
  <2>1. Matching(query[t]) \in Directories
    BY MatchingIsDirectory DEF Matching, MatchingIn, LdapTypeOK
  <2>2. found' \in [Threads -> Directories]
    BY <1>6, <2>1 DEF Search, LdapTypeOK
  <2> QED BY <1>1, <1>2, <1>6, <2>2 DEF Search, LdapTypeOK, serviceVars
<1>7. CASE SearchFindsNothing(t)
  BY <1>1, <1>2, <1>7 DEF SearchFindsNothing, LdapTypeOK, serviceVars
<1>8. CASE SearchFails(t)
  BY <1>1, <1>2, <1>8 DEF SearchFails, LdapTypeOK, serviceVars
<1>9. CASE CloseSession(t)
  BY <1>1, <1>2, <1>9 DEF CloseSession, LdapTypeOK, Lives, Closed
<1>10. CASE CloseContext(t)
  BY <1>1, <1>2, <1>10 DEF CloseContext, LdapTypeOK, Lives
<1> QED BY <1>3, <1>4, <1>5, <1>6, <1>7, <1>8, <1>9, <1>10 DEF LdapStep

-----------------------------------------------------------------------------
(* The steps of a thread. *)

\* Where every step of a thread but those of the LDAP service goes.
LEMMA GotoTypes ==
  ASSUME TypeOK, NEW t \in Threads, NEW from, NEW to \in ThreadSteps,
         Goto(t, from, to)
  PROVE  /\ thread' \in [Threads -> ThreadSteps] /\ thread'[t] = to
         /\ \A u \in Threads \ {t} : thread'[u] = thread[u]
BY DEF Goto, TypeOK

LEMMA AnswerTypes ==
  ASSUME TypeOK, NEW t \in Threads, NEW p \in Pages, Answer(t, p)
  PROVE  /\ page' \in [Threads -> Pages] /\ page'[t] = p
         /\ \A u \in Threads \ {t} : page'[u] = page[u]
BY DEF Answer, TypeOK, Pages

\* That replies crossed is never forgotten.
LEMMA CrossTypes ==
  ASSUME TypeOK, NEW t \in Threads, NEW handles, Cross(t, handles)
  PROVE  /\ crossed' \in [Threads -> BOOLEAN]
         /\ \A u \in Threads : crossed[u] => crossed'[u]
BY DEF Cross, TypeOK

LEMMA BrowseKeeps ==
  ASSUME PInv, NEW t \in Threads, NEW r \in Requests, Browse(t, r)
  PROVE  PInv'
<1>1. TypeOK /\ Course(t) /\ Searched(t) /\ Answered(t)
  BY DEF PInv
<1>2. UNCHANGED ldapVars
  BY DEF Browse
<1>3. LdapTypeOK'
  BY <1>1, <1>2, LdapTypesStay DEF TypeOK
<1>4. /\ thread' \in [Threads -> ThreadSteps] /\ thread'[t] = "read"
      /\ \A u \in Threads \ {t} : thread'[u] = thread[u]
  BY <1>1, GotoTypes DEF Browse, ThreadSteps
<1>5. /\ request' \in [Threads -> Requests \cup {NoRequest}] /\ request'[t] = r
      /\ \A u \in Threads \ {t} : request'[u] = request[u]
  BY <1>1 DEF Browse, TypeOK
<1>6. asked' \in 0..MaxRequests
  BY <1>1, RequestsAssumption DEF Browse, TypeOK
<1>7. TypeOK'
  BY <1>1, <1>3, <1>4, <1>5, <1>6 DEF TypeOK, Browse
<1>8. Course(t)' /\ Searched(t)' /\ Answered(t)'
  BY <1>1, <1>2, <1>4, <1>5 DEF Course, Searched, Answered, Browse, Goto,
     ldapVars
<1>9. Cache'
  BY DEF PInv, Cache, Browse
<1>10. \A u \in Threads \ {t} : Own(u)' = Own(u) /\ (crossed[u] => crossed'[u])
  BY <1>2, <1>4, <1>5 DEF Browse, Own, ldapVars
<1> QED BY <1>2, <1>7, <1>8, <1>9, <1>10, OneThread DEF ldapVars

\* What NewUrlParser makes of a request.
LEMMA Parsed ==
  ASSUME NEW r \in RequestTypes
  PROVE  /\ ~r.valid => ParseResult(r) = "INVALID_REQUEST"
         /\ r.valid /\ r.param \in {"other", "cut"} =>
              ParseResult(r) = "INVALID_PARAM"
         /\ ParseResult(r) \in {"INVALID_REQUEST", "INVALID_PARAM",
                                "INVALID_PATH", "SUCCESS"}
         /\ ParseResult(r) = "SUCCESS" => r.path \in {"Index", "Group", "Notice"}
<1>1. r.path \in Paths /\ r.param \in Params /\ r.valid \in BOOLEAN
  BY DEF RequestTypes
<1>2. CASE ~r.valid
  BY <1>2 DEF ParseResult
<1>3. CASE r.valid
  BY <1>1, <1>3 DEF ParseResult, Paths, Params
<1> QED BY <1>2, <1>3

LEMMA DispatchIsRight ==
  ASSUME PInv, NEW t \in Threads, NEW r \in RequestTypes, Reading(t), Dispatch(t, r),
         r.path = request[t].path, r.arg = request[t].arg,
         ParseResult(r) # "INVALID_REQUEST" =>
           (ParseResult(r) = "SUCCESS" <=> ParseResult(request[t]) = "SUCCESS")
  PROVE  PInv'
<1>1. TypeOK /\ Course(t) /\ Searched(t) /\ Answered(t)
  BY DEF PInv
<1>2. /\ thread[t] = "read" /\ page[t] = NoPage /\ at[t] = "idle"
      /\ found[t] = <<>> /\ ~failed[t]
  BY <1>1 DEF Course, Reading
<1>3. /\ since' \in [Threads -> 0..Cardinality(Ids)] /\ since'[t] = Len(directory)
      /\ \A u \in Threads \ {t} : since'[u] = since[u]
  <2>1. Len(directory) \in 0..Cardinality(Ids)
    BY <1>1, DirectoryIsBounded DEF TypeOK, LdapTypeOK
  <2> QED BY <1>1, <2>1 DEF Reading, TypeOK
<1>4. UNCHANGED <<up, request, cached, asked, crossed, outage>>
  BY DEF Reading
<1>5. /\ Len(directory) \in Nat
      /\ directory' = directory => since[t]' <= Len(directory)'
  <2>1. Len(directory) \in Nat
    BY <1>1, DirectoryIsSequence DEF TypeOK, LdapTypeOK
  <2> QED BY <1>3, <2>1
<1>6. ASSUME LdapTypeOK', UNCHANGED <<directory, found, failed>>,
             thread' \in [Threads -> ThreadSteps],
             page' \in [Threads -> Pages],
             \A u \in Threads \ {t} :
               /\ thread'[u] = thread[u] /\ page'[u] = page[u]
               /\ at'[u] = at[u] /\ query'[u] = query[u],
             Course(t)', Answered(t)', Searched(t)'
      PROVE  PInv'
  <2>1. TypeOK'
    BY <1>1, <1>3, <1>4, <1>6 DEF TypeOK, Pages
  <2>2. Cache'
    BY <1>4 DEF PInv, Cache
  <2>3. \A u \in Threads \ {t} : Own(u)' = Own(u) /\ (crossed[u] => crossed'[u])
    BY <1>3, <1>4, <1>6 DEF Own
  <2> QED BY <1>6, <2>1, <2>2, <2>3, OneThread
<1>7. request[t] \in Requests
  BY <1>1, <1>2 DEF Course
\* An answer at once.
<1>8. CASE ParseResult(r) # "SUCCESS"
  <2>1. /\ thread' = [thread EXCEPT ![t] = "write"]
        /\ \/ Answer(t, ErrorPage(404)) /\ ParseResult(r) # "INVALID_REQUEST"
           \/ UNCHANGED page
        /\ UNCHANGED ldapVars
    BY <1>8, Parsed DEF Dispatch
  <2>2. /\ thread' \in [Threads -> ThreadSteps] /\ thread'[t] = "write"
        /\ \A u \in Threads \ {t} : thread'[u] = thread[u]
    BY <1>1, <2>1 DEF TypeOK, ThreadSteps
  <2>3. LdapTypeOK'
    BY <1>1, <2>1, LdapTypesStay DEF TypeOK
  <2>4. /\ page' \in [Threads -> Pages]
        /\ \A u \in Threads \ {t} : page'[u] = page[u]
    BY <1>1, <2>1, PageTypes, AnswerTypes DEF TypeOK, Pages, Codes
  <2>5. Course(t)'
    BY <1>2, <1>3, <1>4, <1>5, <1>7, <2>1, <2>2 DEF Course, ldapVars
  <2>6. Searched(t)'
    BY <2>2 DEF Searched
  <2>7. Answered(t)'
    <3>1. page'[t] = NoPage \/ ParseResult(request[t]) # "SUCCESS"
      BY <1>2, <1>8, <2>1
    <3> QED BY <1>4, <3>1 DEF Answered
  <2> QED BY <1>6, <2>1, <2>2, <2>3, <2>4, <2>5, <2>6, <2>7 DEF ldapVars
\* A search.
<1>9. CASE ParseResult(r) = "SUCCESS"
  <2>1. UNCHANGED page /\ page' \in [Threads -> Pages]
    BY <1>1, <1>9 DEF Dispatch, TypeOK, Pages
  <2>2. ParseResult(request[t]) = "SUCCESS"
    BY <1>9
  <2>3. PICK to \in {"ldap", "ask"} :
          /\ thread' = [thread EXCEPT ![t] = to]
          /\ to = "ask" => UNCHANGED ldapVars /\ r.path = "Notice"
          /\ to = "ldap" =>
               \/ r.path = "Index" /\ Call(t, "id", Star)
               \/ r.path = "Group" /\ Call(t, "group", r.arg)
    BY <1>9, Parsed DEF Dispatch
  <2>4. /\ thread' \in [Threads -> ThreadSteps] /\ thread'[t] = to
        /\ \A u \in Threads \ {t} : thread'[u] = thread[u]
    BY <1>1, <2>3 DEF TypeOK, ThreadSteps
  <2>5. CASE to = "ask"
    <3>1. LdapTypeOK' /\ UNCHANGED ldapVars
      BY <1>1, <2>3, <2>5, LdapTypesStay DEF TypeOK
    <3>2. request[t].path = "Notice"
      BY <1>9, <2>3, <2>5, Parsed
    <3>3. Course(t)'
      BY <1>2, <1>3, <1>4, <1>5, <1>7, <2>1, <2>2, <2>4, <2>5, <3>1, <3>2
         DEF Course, ldapVars
    <3>4. Searched(t)' /\ Answered(t)'
      BY <2>4, <2>5 DEF Searched, Answered
    <3> QED BY <1>6, <2>1, <2>4, <3>1, <3>3, <3>4 DEF ldapVars
  <2>6. CASE to = "ldap"
    <3>1. PICK by \in {"id", "group"},
               value \in Ids \cup {Star, ""} \cup Groups :
            /\ Call(t, by, value)
            /\ Wanted(request[t]) = [by |-> by, value |-> value]
      BY <2>3, <2>6 DEF Wanted, RequestTypes
    <3>2. LdapTypeOK'
      BY <1>1, <3>1, CallTypes DEF TypeOK
    <3>3. /\ at'[t] = "new" /\ query'[t] = Wanted(request[t])
          /\ UNCHANGED <<directory, found, failed>>
          /\ \A u \in Threads \ {t} : at'[u] = at[u] /\ query'[u] = query[u]
      BY <1>1, <3>1 DEF Call, TypeOK, LdapTypeOK
    <3>4. Course(t)'
      <4>1. query'[t] = Wanted(request[t])'
        BY <1>4, <3>3 DEF Wanted
      <4>2. since[t]' <= Len(directory)'
        BY <1>5, <3>3
      <4>3. page[t]' = NoPage /\ ParseResult(request[t])' = "SUCCESS"
        BY <1>2, <1>4, <2>1, <2>2
      <4>4. request[t]' \in Requests /\ thread[t]' = "ldap"
        BY <1>4, <1>7, <2>4, <2>6
      <4> QED BY <4>1, <4>2, <4>3, <4>4 DEF Course
    <3>5. Searched(t)' /\ Answered(t)'
      BY <1>2, <2>4, <2>6, <3>3 DEF Searched, Answered
    <3> QED BY <1>6, <2>1, <2>4, <3>2, <3>3, <3>4, <3>5
  <2> QED BY <2>5, <2>6
<1> QED BY <1>8, <1>9

LEMMA ReadKeeps ==
  ASSUME PInv, NEW t \in Threads, Read(t) \/ ReadPart(t) \/ ReadRunsOff(t)
  PROVE  PInv'
<1>1. Reading(t) /\ request[t] \in RequestTypes
  <2>1. Reading(t)
    BY DEF Read, ReadPart, ReadRunsOff
  <2>2. request[t] \in Requests
    BY <2>1 DEF Reading, PInv, Course
  <2> QED BY <2>1, <2>2, RequestsAssumption
<1>2. CASE Read(t)
  BY <1>1, <1>2, DispatchIsRight DEF Read
<1>3. CASE ReadPart(t)
  <2> DEFINE q == request[t]
             r == [q EXCEPT !.valid = FALSE]
  <2>1. q \in RequestTypes /\ Dispatch(t, r)
    BY <1>1, <1>3 DEF ReadPart
  <2>2. r \in RequestTypes /\ r.path = q.path /\ r.arg = q.arg /\ ~r.valid
    <3> HIDE DEF q
    <3> QED BY <2>1 DEF RequestTypes
  <2> HIDE DEF r
  <2>3. ParseResult(r) = "INVALID_REQUEST"
    BY <2>2, Parsed
  <2> QED BY <1>1, <2>1, <2>2, <2>3, DispatchIsRight
<1>4. CASE ReadRunsOff(t)
  <2> DEFINE q == request[t]
             r == [q EXCEPT !.param = "other"]
  <2>1. q \in RequestTypes /\ Dispatch(t, r) /\ q.valid /\ q.param = "cut"
    BY <1>1, <1>4 DEF ReadRunsOff
  <2>2. /\ r \in RequestTypes /\ r.path = q.path /\ r.arg = q.arg
        /\ r.valid /\ r.param = "other"
    <3> HIDE DEF q
    <3> QED BY <2>1 DEF RequestTypes, Params
  <2>3. ParseResult(r) = "INVALID_PARAM" /\ ParseResult(q) = "INVALID_PARAM"
    <3> HIDE DEF q, r
    <3> QED BY <2>1, <2>2, Parsed
  <2> HIDE DEF r
  <2> QED BY <1>1, <2>1, <2>2, <2>3, DispatchIsRight
<1> QED BY <1>2, <1>3, <1>4

LEMMA AskKeeps ==
  ASSUME PInv, NEW t \in Threads, Ask(t) \/ MissFirst(t)
  PROVE  PInv'
<1>1. TypeOK /\ Course(t)
  BY DEF PInv
<1>2. PICK from \in {"ask", "reply1"}, to \in {"reply1", "reply2"},
           handles \in {{1}, {2}} :
        Goto(t, from, to) /\ Cross(t, handles)
  BY DEF Ask, MissFirst
<1>3. UNCHANGED <<ldapVars, up, request, page, cached, asked, since, outage>>
  BY DEF Ask, MissFirst
<1>4. /\ thread' \in [Threads -> ThreadSteps] /\ thread'[t] = to
      /\ \A u \in Threads \ {t} : thread'[u] = thread[u]
  BY <1>1, <1>2, GotoTypes DEF ThreadSteps
<1>5. /\ crossed' \in [Threads -> BOOLEAN]
      /\ \A u \in Threads : crossed[u] => crossed'[u]
  BY <1>1, <1>2, CrossTypes
<1>6. LdapTypeOK'
  BY <1>1, <1>3, LdapTypesStay DEF TypeOK
<1>7. TypeOK'
  BY <1>1, <1>3, <1>4, <1>5, <1>6 DEF TypeOK
<1>8. Course(t)'
  BY <1>1, <1>2, <1>3, <1>4 DEF Course, Goto, ldapVars
<1>9. Searched(t)' /\ Answered(t)'
  BY <1>4 DEF Searched, Answered
<1>10. Cache'
  BY <1>3 DEF PInv, Cache
<1>11. \A u \in Threads \ {t} : Own(u)' = Own(u) /\ (crossed[u] => crossed'[u])
  BY <1>3, <1>4, <1>5 DEF Own, ldapVars
<1> QED BY <1>3, <1>7, <1>8, <1>9, <1>10, <1>11, OneThread DEF ldapVars

\* A reply that no other thread's crossed is what was cached under the id asked
\* for, so that it is the notice of that id.
LEMMA HitKeeps ==
  ASSUME PInv, NEW t \in Threads, NEW i \in 1..2, Hit(t, i)
  PROVE  PInv'
<1>1. TypeOK /\ Course(t) /\ Cache
  BY DEF PInv
<1>2. UNCHANGED <<ldapVars, up, request, cached, asked, crossed, since, outage>>
  BY DEF Hit
<1>3. /\ thread' \in [Threads -> ThreadSteps] /\ thread'[t] = "write"
      /\ \A u \in Threads \ {t} : thread'[u] = thread[u]
  BY <1>1, GotoTypes DEF Hit, ThreadSteps
<1>4. PICK n \in Replies(t, i) \ {NoNotice} : Answer(t, FromXml(n))
  BY DEF Hit
<1>5. thread[t] \in {"reply1", "reply2"}
  BY DEF Hit, Goto, ReplyStep
<1>6. request[t].path = "Notice" /\ request[t] \in Requests
  BY <1>1, <1>5 DEF Course
<1>7. request[t].arg \in Keys
  BY <1>6, RequestsAssumption DEF RequestTypes, Keys
<1>8. n \in Ids
  BY <1>1, <1>4, <1>7 DEF Replies, TypeOK, Range
<1>9. ~crossed[t] => n = request[t].arg
  BY <1>1, <1>4, <1>7 DEF Replies, Cache
<1>10. /\ page' \in [Threads -> Pages] /\ page'[t] = FromXml(n)
       /\ \A u \in Threads \ {t} : page'[u] = page[u]
  BY <1>1, <1>4, <1>8, NoticePageTypes, AnswerTypes
<1>11. LdapTypeOK'
  BY <1>1, <1>2, LdapTypesStay DEF TypeOK
<1>12. TypeOK'
  BY <1>1, <1>2, <1>3, <1>10, <1>11 DEF TypeOK, Pages
<1>13. Course(t)'
  BY <1>1, <1>2, <1>3, <1>5 DEF Course, ldapVars
<1>14. Searched(t)'
  BY <1>3 DEF Searched
<1>15. ASSUME ~crossed[t] PROVE NoticeHolds(t)'
  <2> DEFINE p == FromXml(n)
  <2>1. p.code = 200 /\ p.shows = <<request[t].arg>> /\ (p.garbled => n \in Odd)
    BY <1>8, <1>9, <1>15, NoticePageTypes
  <2>2. Head(p.shows) = n
    BY <1>9, <1>15, <2>1
  <2> HIDE DEF p
  <2> QED BY <1>2, <1>10, <2>1, <2>2 DEF NoticeHolds, p
<1>16. Answered(t)'
  BY <1>2, <1>6, <1>15 DEF Answered, Holds
<1>17. Cache'
  BY <1>1, <1>2 DEF Cache
<1>18. \A u \in Threads \ {t} : Own(u)' = Own(u) /\ (crossed[u] => crossed'[u])
  BY <1>2, <1>3, <1>10 DEF Own, ldapVars
<1> QED BY <1>2, <1>12, <1>13, <1>14, <1>16, <1>17, <1>18, OneThread DEF ldapVars

LEMMA MissSecondKeeps ==
  ASSUME PInv, NEW t \in Threads, MissSecond(t)
  PROVE  PInv'
<1>1. TypeOK /\ Course(t)
  BY DEF PInv
<1>2. UNCHANGED <<up, request, page, cached, asked, crossed, since, outage>>
  BY DEF MissSecond
<1>3. /\ thread' \in [Threads -> ThreadSteps] /\ thread'[t] = "ldap"
      /\ \A u \in Threads \ {t} : thread'[u] = thread[u]
  BY <1>1, GotoTypes DEF MissSecond, ThreadSteps
<1>4. thread[t] = "reply2"
  BY DEF MissSecond, Goto
<1>5. /\ request[t].path = "Notice" /\ request[t] \in Requests
      /\ found[t] = <<>> /\ ~failed[t]
  BY <1>1, <1>4 DEF Course
<1>6. PICK value \in Ids \cup {Star, ""} \cup Groups :
        value = request[t].arg /\ Call(t, "id", value)
  BY <1>5, RequestsAssumption DEF MissSecond, RequestTypes
<1>7. LdapTypeOK'
  BY <1>1, <1>6, CallTypes DEF TypeOK
<1>8. /\ at'[t] = "new" /\ query'[t] = [by |-> "id", value |-> value]
      /\ UNCHANGED <<directory, found, failed>>
      /\ \A u \in Threads \ {t} : at'[u] = at[u] /\ query'[u] = query[u]
  BY <1>1, <1>6 DEF Call, TypeOK, LdapTypeOK
<1>9. TypeOK'
  BY <1>1, <1>2, <1>3, <1>7 DEF TypeOK
<1>10. query'[t] = Wanted(request[t])'
  BY <1>2, <1>5, <1>6, <1>8 DEF Wanted
<1>11. Course(t)'
  BY <1>1, <1>2, <1>3, <1>4, <1>8, <1>10 DEF Course
<1>12. Searched(t)' /\ Answered(t)'
  BY <1>3, <1>5, <1>8 DEF Searched, Answered
<1>13. Cache'
  BY <1>2 DEF PInv, Cache
<1>14. \A u \in Threads \ {t} : Own(u)' = Own(u) /\ (crossed[u] => crossed'[u])
  BY <1>2, <1>3, <1>8 DEF Own
<1> QED BY <1>8, <1>9, <1>11, <1>12, <1>13, <1>14, OneThread

\* What a search finds is what the directory holds, and whatever it holds is
\* among its own oldest.
LEMMA LdapStepKeeps ==
  ASSUME PInv, NEW t \in Threads, LdapStep(t), UNCHANGED httpVars
  PROVE  PInv'
<1>1. TypeOK /\ Course(t) /\ Searched(t)
  BY DEF PInv
<1>2. PICK from \in Steps \ {"idle"}, to \in Steps \ {"new"} : Step(t, from, to)
  BY DEF LdapStep, NewContext, Initialize, GetSession, Search,
         SearchFindsNothing, SearchFails, CloseSession, CloseContext, Steps
<1>3. /\ at[t] = from /\ at'[t] = to /\ UNCHANGED <<query, directory>>
      /\ \A u \in Threads \ {t} : at'[u] = at[u]
  BY <1>1, <1>2 DEF Step, TypeOK, LdapTypeOK
<1>4. UNCHANGED <<up, thread, request, page, cached, asked, crossed, since, outage>>
  BY DEF httpVars
<1>5. thread[t] = "ldap" /\ query[t] = Wanted(request[t])
  BY <1>1, <1>3 DEF Course
<1>6. \A u \in Threads \ {t} : found'[u] = found[u] /\ failed'[u] = failed[u]
  BY <1>1 DEF LdapStep, NewContext, Initialize, GetSession, Search,
     SearchFindsNothing, SearchFails, CloseSession, CloseContext, TypeOK,
     LdapTypeOK
<1>7. TypeOK'
  BY <1>1, <1>4, LdapStepTypes DEF TypeOK
<1>8. Course(t)'
  <2>1. query'[t] = Wanted(request[t])'
    BY <1>3, <1>4, <1>5 DEF Wanted
  <2> QED BY <1>1, <1>3, <1>4, <1>5, <2>1 DEF Course
<1>9. Stored(t)' = Stored(t) /\ \A m : Oldest(m)' = Oldest(m)
  BY <1>3, <1>4 DEF Stored, Oldest
<1>10. Searched(t)'
  <2> DEFINE M(m) == MatchingIn(Oldest(m), query[t])
             nothing == MatchingIn(Stored(t), query[t]) = <<>>
             now == Len(directory)
  <2>0. /\ since[t] \in 0..now /\ now \in Nat /\ directory \in Directories
    BY <1>1, DirectoryIsBounded DEF Course, TypeOK, LdapTypeOK
  <2> SUFFICES
        /\ to \in {"new", "initialize", "session", "search"} =>
             found'[t] = <<>> /\ ~failed'[t]
        /\ found'[t] # <<>> => \E m \in since[t]..now : found'[t] = M(m)
        /\ to \in {"end", "free", "idle"} /\ found'[t] = <<>> /\ ~failed'[t] =>
             nothing
    BY <1>3, <1>4, <1>9 DEF Searched
  <2>1. CASE NewContext(t) \/ Initialize(t) \/ GetSession(t)
    <3>1. /\ from \in {"new", "initialize", "session"}
          /\ to \in {"initialize", "session", "search"}
          /\ UNCHANGED <<found, failed>>
      <4>1. CASE NewContext(t)
        BY <1>1, <1>3, <4>1 DEF NewContext, Step, TypeOK, LdapTypeOK
      <4>2. CASE Initialize(t)
        BY <1>1, <1>3, <4>2 DEF Initialize, Step, TypeOK, LdapTypeOK
      <4>3. CASE GetSession(t)
        BY <1>1, <1>3, <4>3 DEF GetSession, Step, TypeOK, LdapTypeOK
      <4> QED BY <2>1, <4>1, <4>2, <4>3
    <3> QED BY <1>1, <1>3, <1>5, <3>1 DEF Searched
  <2>2. CASE Search(t)
    <3>1. /\ to = "end" /\ found'[t] = Matching(query[t])
          /\ Matching(query[t]) # <<>>
      BY <1>1, <1>3, <2>2 DEF Search, Step, TypeOK, LdapTypeOK, Steps
    <3>2. Matching(query[t]) = M(now)
      BY <2>0, AllAreOldest DEF Matching, MatchingIn, Oldest
    <3>3. now \in since[t]..now
      BY <2>0
    <3> QED BY <3>1, <3>2, <3>3
  <2>3. CASE SearchFindsNothing(t)
    <3>1. /\ from = "search" /\ to = "end" /\ UNCHANGED <<found, failed>>
          /\ Matching(query[t]) = <<>>
      BY <1>1, <1>3, <2>3 DEF SearchFindsNothing, Step, TypeOK, LdapTypeOK, Steps
    <3>2. found[t] = <<>>
      BY <1>1, <1>3, <1>5, <3>1 DEF Searched
    <3>3. nothing
      BY <2>0, <3>1, NothingMatches DEF Matching, MatchingIn, Stored
    <3> QED BY <3>1, <3>2, <3>3
  <2>4. CASE SearchFails(t)
    <3>1. /\ from = "search" /\ to = "end" /\ failed'[t] /\ UNCHANGED found
      BY <1>1, <1>3, <2>4 DEF SearchFails, Step, TypeOK, LdapTypeOK, Steps
    <3>2. found[t] = <<>>
      BY <1>1, <1>3, <1>5, <3>1 DEF Searched
    <3> QED BY <3>1, <3>2
  <2>5. CASE CloseSession(t) \/ CloseContext(t)
    <3>1. /\ from \in {"end", "free"} /\ to \in {"free", "idle"}
          /\ UNCHANGED <<found, failed>>
      BY <1>1, <1>3, <2>5 DEF CloseSession, CloseContext, Step, TypeOK,
         LdapTypeOK, Steps
    <3> QED BY <1>1, <1>3, <1>5, <3>1 DEF Searched
  <2> QED BY <2>1, <2>2, <2>3, <2>4, <2>5 DEF LdapStep
<1>11. Answered(t)'
  BY <1>4, <1>5 DEF Answered
<1>12. Cache'
  BY <1>4 DEF PInv, Cache
<1>13. \A u \in Threads \ {t} : Own(u)' = Own(u) /\ (crossed[u] => crossed'[u])
  BY <1>3, <1>4, <1>6 DEF Own
<1> QED BY <1>3, <1>7, <1>8, <1>10, <1>11, <1>12, <1>13, OneThread

\* A thread leaves the service.
LEMMA ReturnIsRight ==
  ASSUME PInv, NEW t \in Threads, Served(t), Return(t),
         NEW to \in {"write", "set"}, NEW p \in Pages,
         Goto(t, "ldap", to), Answer(t, p),
         to = "set" => request[t].path = "Notice" /\ \E n \in Ids : p = NoticePage(n),
         UNCHANGED <<up, request, cached, asked, crossed, since>>,
         outage' \in [Threads -> BOOLEAN],
         \A u \in Threads \ {t} : outage'[u] = outage[u],
         Holds(t)'
  PROVE  PInv'
<1>1. TypeOK /\ Course(t)
  BY DEF PInv
<1>2. /\ thread' \in [Threads -> ThreadSteps] /\ thread'[t] = to
      /\ \A u \in Threads \ {t} : thread'[u] = thread[u]
  BY <1>1, GotoTypes DEF ThreadSteps
<1>3. /\ page' \in [Threads -> Pages] /\ page'[t] = p
      /\ \A u \in Threads \ {t} : page'[u] = page[u]
  BY <1>1, AnswerTypes
<1>4. LdapTypeOK'
  BY <1>1, ReturnTypes DEF TypeOK
<1>5. TypeOK'
  BY <1>1, <1>2, <1>3, <1>4 DEF TypeOK, Pages
<1>6. /\ at'[t] = "idle" /\ found'[t] = <<>> /\ ~failed'[t]
      /\ UNCHANGED <<at, directory>>
      /\ \A u \in Threads \ {t} :
           /\ found'[u] = found[u] /\ failed'[u] = failed[u]
           /\ query'[u] = query[u]
  BY <1>1 DEF Return, TypeOK, LdapTypeOK
<1>7. Course(t)'
  <2>1. thread[t] = "ldap"
    BY DEF Goto
  <2>2. ParseResult(request[t]) = "SUCCESS" /\ request[t] \in Requests
    BY <1>1, <2>1 DEF Course
  <2> QED BY <1>1, <1>2, <1>3, <1>6, <2>2 DEF Course
<1>8. Searched(t)'
  BY <1>2 DEF Searched
<1>9. Answered(t)'
  BY DEF Answered
<1>10. Cache'
  BY DEF PInv, Cache
<1>11. \A u \in Threads \ {t} : Own(u)' = Own(u) /\ (crossed[u] => crossed'[u])
  BY <1>2, <1>3, <1>6 DEF Own
<1> QED BY <1>5, <1>6, <1>7, <1>8, <1>9, <1>10, <1>11, OneThread

\* What a thread has found when it leaves is what matched at some time since
\* its request was read, so that nothing that was stored then is missing.
LEMMA FoundSince ==
  ASSUME PInv, NEW t \in Threads, Served(t), found[t] # <<>>
  PROVE  \E m \in since[t]..Len(directory) :
           /\ m \in 0..Len(directory)
           /\ found[t] = MatchingIn(Oldest(m), Wanted(request[t]))
           /\ Oldest(m) \in Directories
           /\ Stored(t) \in Directories
           /\ Range(Stored(t)) \subseteq Range(Oldest(m))
<1>1. TypeOK /\ Course(t) /\ Searched(t) /\ thread[t] = "ldap"
  BY DEF PInv, Served
<1>2. query[t] = Wanted(request[t])
  BY <1>1 DEF Course
<1>3. PICK m \in since[t]..Len(directory) :
        found[t] = MatchingIn(Oldest(m), Wanted(request[t]))
  BY <1>1, <1>2 DEF Searched
<1>4. directory \in Directories
  BY <1>1 DEF TypeOK, LdapTypeOK
<1>5. /\ Len(directory) \in Nat /\ since[t] \in Nat
      /\ m \in 0..Len(directory) /\ since[t] \in 0..Len(directory) /\ since[t] <= m
  <2>1. since[t] \in 0..Cardinality(Ids) /\ since[t] <= Len(directory)
    BY <1>1 DEF TypeOK, Course
  <2>2. Len(directory) \in Nat
    BY <1>4, DirectoryIsSequence
  <2> QED BY <1>3, <2>1, <2>2
<1>6. /\ Oldest(m) \in Directories /\ Range(Oldest(m)) = {directory[i] : i \in 1..m}
      /\ Stored(t) \in Directories
      /\ Range(Stored(t)) = {directory[i] : i \in 1..since[t]}
  BY <1>4, <1>5, OldestAreDirectory DEF Oldest, Stored
<1>7. \A i \in 1..since[t] : i \in 1..m
  BY <1>5
<1>8. Range(Stored(t)) \subseteq Range(Oldest(m))
  BY <1>6, <1>7
<1> QED BY <1>3, <1>5, <1>6, <1>8

LEMMA FoundTypes ==
  ASSUME PInv, NEW t \in Threads, NEW path, Found(t, path)
  PROVE  /\ TypeOK /\ Course(t) /\ thread[t] = "ldap" /\ Served(t) /\ Return(t)
         /\ found[t] \in Directories /\ found[t] # <<>>
         /\ request[t].path = path
         /\ UNCHANGED <<up, request, cached, asked, crossed, since, outage,
                        directory>>
         /\ outage \in [Threads -> BOOLEAN]
         /\ Stored(t)' = Stored(t)
BY DEF PInv, Found, Return, Served, TypeOK, LdapTypeOK, Stored

LEMMA FoundGroupsKeeps ==
  ASSUME PInv, NEW t \in Threads, FoundGroups(t)
  PROVE  PInv'
<1> DEFINE p == IndexPage(GetNoticesGroups(found[t]))
<1>1. Found(t, "Index")
  BY DEF FoundGroups
<1>2. /\ TypeOK /\ Course(t) /\ thread[t] = "ldap" /\ Served(t) /\ Return(t)
      /\ found[t] \in Directories /\ found[t] # <<>>
      /\ request[t].path = "Index"
      /\ UNCHANGED <<up, request, cached, asked, crossed, since, outage>>
      /\ outage \in [Threads -> BOOLEAN]
      /\ Stored(t)' = Stored(t)
  BY <1>1, FoundTypes
<1>3. p \in Pages /\ p.code = 200 /\ p.groups = GetNoticesGroups(found[t])
  BY <1>2, PageTypes
<1>4. Goto(t, "ldap", "write") /\ Answer(t, p)
  BY DEF FoundGroups
<1>5. page'[t] = p
  BY <1>2, <1>3, <1>4, AnswerTypes
<1>6. GetNoticesGroups(Stored(t)) \subseteq GetNoticesGroups(found[t])
  <2>1. PICK m \in since[t]..Len(directory) :
          /\ found[t] = MatchingIn(Oldest(m), Wanted(request[t]))
          /\ Oldest(m) \in Directories
          /\ Stored(t) \in Directories
          /\ Range(Stored(t)) \subseteq Range(Oldest(m))
    BY <1>2, FoundSince
  <2>2. found[t] = WithId(Oldest(m), Star)
    BY <1>2, <2>1 DEF Wanted, MatchingIn
  <2>3. Range(found[t]) = Range(Oldest(m))
    <3>1. Range(WithId(Oldest(m), Star)) =
            {n \in Range(Oldest(m)) : Star \in {n, Star}}
      BY <2>1, MatchingRange
    <3> QED BY <2>2, <3>1
  <2> QED BY <2>1, <2>3 DEF GetNoticesGroups
<1>7. IndexIsRight(t, page[t])'
  <2> HIDE DEF p
  <2> QED BY <1>2, <1>3, <1>5, <1>6 DEF IndexIsRight
<1>8. Holds(t)'
  BY <1>2, <1>7 DEF Holds
<1> HIDE DEF p
<1> QED BY <1>2, <1>3, <1>4, <1>8, ReturnIsRight

\* A group's page is that of the stack of what was found.
LEMMA FoundNoticesKeeps ==
  ASSUME PInv, NEW t \in Threads, FoundNotices(t)
  PROVE  PInv'
<1> DEFINE s == Pushed(found[t])
           p == GroupPage(s)
           g == request[t].arg
<1>1. Found(t, "Group")
  BY DEF FoundNotices
<1>2. /\ TypeOK /\ Course(t) /\ thread[t] = "ldap" /\ Served(t) /\ Return(t)
      /\ found[t] \in Directories /\ found[t] # <<>>
      /\ request[t].path = "Group"
      /\ UNCHANGED <<up, request, cached, asked, crossed, since, outage, directory>>
      /\ outage \in [Threads -> BOOLEAN]
  BY <1>1, FoundTypes
<1>3. s \in Directories
  BY <1>2, PushedIsDirectory
<1>4. p \in Pages /\ p.code = 200 /\ p.shows = PopAll(s)
  BY <1>3, PageTypes
<1>5. Goto(t, "ldap", "write") /\ Answer(t, p)
  BY DEF FoundNotices
<1>6. page'[t] = p
  BY <1>2, <1>4, <1>5, AnswerTypes
<1>7. PICK m \in since[t]..Len(directory) :
        found[t] = MatchingIn(Oldest(m), Wanted(request[t]))
  BY <1>2, FoundSince
<1>8. found[t] = WithGroup(Oldest(m), g)
  BY <1>2, <1>7 DEF Wanted, MatchingIn
<1>9. page'[t].shows = PopAll(Pushed(WithGroup(Oldest(m), g)))
  BY <1>4, <1>6, <1>8
<1> HIDE DEF p, s
<1>10. GroupHolds(t)'
  BY <1>2, <1>4, <1>6, <1>7, <1>9 DEF GroupHolds, Oldest
<1>11. Holds(t)'
  BY <1>2, <1>10 DEF Holds
<1> QED BY <1>2, <1>4, <1>5, <1>11, ReturnIsRight

\* The notice that is shown is the last that was found: the only one, or the
\* newest.
LEMMA FoundNoticeKeeps ==
  ASSUME PInv, NEW t \in Threads, FoundNotice(t)
  PROVE  PInv'
<1> DEFINE n == Last(found[t])
           p == NoticePage(n)
<1>1. Found(t, "Notice")
  BY DEF FoundNotice
<1>2. /\ TypeOK /\ Course(t) /\ thread[t] = "ldap" /\ Served(t) /\ Return(t)
      /\ found[t] \in Directories /\ found[t] # <<>>
      /\ request[t].path = "Notice"
      /\ UNCHANGED <<up, request, cached, asked, crossed, since, outage, directory>>
      /\ outage \in [Threads -> BOOLEAN]
  BY <1>1, FoundTypes
<1>3. PICK m \in since[t]..Len(directory) :
        /\ m \in 0..Len(directory)
        /\ found[t] = MatchingIn(Oldest(m), Wanted(request[t]))
        /\ Oldest(m) \in Directories
  BY <1>2, FoundSince
<1>4. found[t] = WithId(Oldest(m), request[t].arg)
  BY <1>2, <1>3 DEF Wanted, MatchingIn
<1>5. /\ n \in Ids
      /\ \/ n = request[t].arg
         \/ /\ request[t].arg = Star
            /\ Oldest(m) # <<>> /\ n = Oldest(m)[Len(Oldest(m))]
  BY <1>2, <1>3, <1>4, LastById
<1>6. p \in Pages /\ p.code = 200 /\ p.shows = <<n>> /\ ~p.garbled
  BY <1>5, NoticePageTypes
<1>7. Goto(t, "ldap", "set") /\ Answer(t, p)
  BY DEF FoundNotice
<1>8. page'[t] = p
  BY <1>2, <1>6, <1>7, AnswerTypes
<1>9. \/ n = request[t].arg
      \/ /\ request[t].arg = Star
         /\ \E i \in 1..Len(directory) : since[t] <= i /\ n = directory[i]
  <2>1. directory \in Directories /\ since[t] \in Nat
    BY <1>2 DEF TypeOK, LdapTypeOK
  <2>2. /\ Len(Oldest(m)) = m /\ \A i \in 1..m : Oldest(m)[i] = directory[i]
        /\ Oldest(m) \in Seq(Ids)
    BY <1>3, <2>1, OldestAreDirectory, DirectoryIsSequence DEF Oldest
  <2>3. ASSUME Oldest(m) # <<>>, n = Oldest(m)[Len(Oldest(m))]
        PROVE  m \in 1..Len(directory) /\ since[t] <= m /\ n = directory[m]
    <3>1. m # 0
      BY <2>2, <2>3
    <3>2. Len(directory) \in Nat
      BY <2>1, DirectoryIsSequence
    <3>3. m \in 1..m /\ m \in 1..Len(directory) /\ since[t] <= m
      BY <1>3, <2>1, <3>1, <3>2
    <3> QED BY <2>2, <2>3, <3>3
  <2> QED BY <1>5, <2>3
<1>10. Holds(t)'
  <2> HIDE DEF p, n
  <2>1. NoticeHolds(t)'
    BY <1>2, <1>6, <1>8, <1>9 DEF NoticeHolds
  <2> QED BY <1>2, <2>1 DEF Holds
<1>11. \E k \in Ids : p = NoticePage(k)
  BY <1>5
<1> HIDE DEF p
<1> QED BY <1>2, <1>6, <1>7, <1>10, <1>11, ReturnIsRight

LEMMA NotFoundKeeps ==
  ASSUME PInv, NEW t \in Threads, NotFound(t)
  PROVE  PInv'
<1> DEFINE code == IF request[t].path = "Index" THEN 500 ELSE 404
           p == ErrorPage(code)
<1>1. TypeOK /\ Course(t) /\ Searched(t) /\ Served(t) /\ Return(t)
  BY DEF PInv, NotFound
<1>2. p \in Pages /\ p.code = code
  <2>1. code \in Codes
    BY DEF Codes
  <2> HIDE DEF code
  <2> QED BY <2>1, PageTypes
<1>3. Goto(t, "ldap", "write") /\ Answer(t, p)
  BY DEF NotFound
<1>4. page'[t] = p
  BY <1>1, <1>2, <1>3, AnswerTypes
<1>5. /\ outage' \in [Threads -> BOOLEAN] /\ (outage'[t] <=> failed[t])
      /\ \A u \in Threads \ {t} : outage'[u] = outage[u]
  BY <1>1 DEF NotFound, TypeOK, LdapTypeOK
<1>6. UNCHANGED <<up, request, cached, asked, crossed, since, directory>>
  BY <1>1 DEF NotFound, Return
<1>7. failed[t] \/ MatchingIn(Stored(t), Wanted(request[t])) = <<>>
  BY <1>1 DEF NotFound, Served, Course, Searched
<1>8. outage'[t] \/ MatchingIn(Stored(t), Wanted(request[t]))' = <<>>
  BY <1>5, <1>6, <1>7 DEF Stored, Wanted, MatchingIn
<1>9. ErrorHolds(t, code)'
  <2> HIDE DEF p
  <2> QED BY <1>2, <1>4, <1>6, <1>8 DEF ErrorHolds
<1>10. Holds(t)'
  <2>1. request[t] \in RequestTypes /\ ParseResult(request[t]) = "SUCCESS"
    BY <1>1, RequestsAssumption DEF Served, Course
  <2>2. request[t].path \in {"Index", "Group", "Notice"}
    BY <2>1, Parsed
  <2> QED BY <1>6, <1>9, <2>2 DEF Holds
<1> HIDE DEF p
<1> QED BY <1>1, <1>2, <1>3, <1>5, <1>6, <1>10, ReturnIsRight

\* A notice is cached under its own id, whatever was asked for.
LEMMA SetKeeps ==
  ASSUME PInv, NEW t \in Threads, Set(t)
  PROVE  PInv'
<1>1. TypeOK /\ Course(t) /\ Answered(t) /\ Cache
  BY DEF PInv
<1>2. UNCHANGED <<ldapVars, up, request, page, asked, since, outage>>
  BY DEF Set
<1>3. /\ thread' \in [Threads -> ThreadSteps] /\ thread'[t] = "write"
      /\ \A u \in Threads \ {t} : thread'[u] = thread[u]
  BY <1>1, GotoTypes DEF Set, ThreadSteps
<1>4. /\ crossed' \in [Threads -> BOOLEAN]
      /\ \A u \in Threads : crossed[u] => crossed'[u]
  <2>1. Cross(t, 1..2)
    BY DEF Set
  <2> QED BY <1>1, <2>1, CrossTypes
<1>5. thread[t] = "set"
  BY DEF Set, Goto
<1>6. PICK n \in Ids : page[t] = NoticePage(n)
  BY <1>1, <1>5 DEF Course
<1>7. CacheKey(t) = n /\ CachedNotice(t) = n /\ page[t] # NoPage
  <2>1. page[t].shows = <<n>> /\ page[t].code = 200 /\ NoPage.code = 0
    BY <1>6, NoticePageTypes, PageTypes
  <2> QED BY <2>1 DEF CacheKey, CachedNotice
<1>8. PICK stored \in SUBSET (1..2) :
        cached' = [i \in 1..2 |-> IF i \in stored
                                  THEN [cached[i] EXCEPT ![n] = n]
                                  ELSE cached[i]]
  BY <1>7 DEF Set
<1>9. n \in Keys
  BY DEF Keys
<1>10. cached' \in [1..2 -> [Keys -> Ids \cup {NoNotice}]]
  BY <1>1, <1>8, <1>9 DEF TypeOK
<1>11. Cache'
  <2> SUFFICES ASSUME NEW i \in 1..2, NEW k \in Keys
               PROVE  cached'[i][k] \in {NoNotice, k}
    BY DEF Cache
  <2>1. cached[i][k] \in {NoNotice, k} /\ cached[i] \in [Keys -> Ids \cup {NoNotice}]
    BY <1>1 DEF Cache, TypeOK
  <2>2. cached'[i] = IF i \in stored THEN [cached[i] EXCEPT ![n] = n] ELSE cached[i]
    BY <1>8
  <2> QED BY <1>9, <2>1, <2>2
<1>12. LdapTypeOK'
  BY <1>1, <1>2, LdapTypesStay DEF TypeOK
<1>13. TypeOK'
  BY <1>1, <1>2, <1>3, <1>4, <1>10, <1>12 DEF TypeOK
<1>14. Course(t)'
  BY <1>1, <1>2, <1>3, <1>5 DEF Course, ldapVars
<1>15. Searched(t)'
  BY <1>3 DEF Searched
<1>16. Answered(t)'
  <2>1. ParseResult(request[t]) = "SUCCESS" /\ ~crossed'[t] => Holds(t)
    BY <1>1, <1>4, <1>5, <1>7 DEF Answered
  <2>2. Holds(t) => Holds(t)'
    BY <1>2, HoldsStays DEF ldapVars
  <2> QED BY <1>2, <2>1, <2>2 DEF Answered
<1>17. \A u \in Threads \ {t} : Own(u)' = Own(u) /\ (crossed[u] => crossed'[u])
  BY <1>2, <1>3, <1>4 DEF Own, ldapVars
<1> QED BY <1>2, <1>11, <1>13, <1>14, <1>15, <1>16, <1>17, OneThread DEF ldapVars

LEMMA WriteKeeps ==
  ASSUME PInv, NEW t \in Threads, Write(t)
  PROVE  PInv'
<1>1. TypeOK /\ Course(t)
  BY DEF PInv
<1>2. UNCHANGED <<ldapVars, up, cached, asked>>
  BY DEF Write
<1>3. /\ thread' \in [Threads -> ThreadSteps] /\ thread'[t] = "none"
      /\ \A u \in Threads \ {t} : thread'[u] = thread[u]
  BY <1>1, GotoTypes DEF Write, ThreadSteps
<1>4. /\ request' \in [Threads -> Requests \cup {NoRequest}]
      /\ crossed' \in [Threads -> BOOLEAN] /\ outage' \in [Threads -> BOOLEAN]
      /\ \A u \in Threads \ {t} : /\ request'[u] = request[u]
                                  /\ crossed'[u] = crossed[u]
                                  /\ outage'[u] = outage[u]
  BY <1>1 DEF Write, Forgets, TypeOK
<1>5. /\ page' \in [Threads -> Pages] /\ page'[t] = NoPage
      /\ \A u \in Threads \ {t} : page'[u] = page[u]
  BY <1>1, PageTypes DEF Write, Forgets, TypeOK, Pages
<1>6. /\ since' \in [Threads -> 0..Cardinality(Ids)] /\ since'[t] = 0
      /\ \A u \in Threads \ {t} : since'[u] = since[u]
      /\ 0 <= Len(directory)
  <2>1. directory \in Directories
    BY <1>1 DEF TypeOK, LdapTypeOK
  <2>2. 0 \in 0..Cardinality(Ids)
    BY FS_CardinalityType, IdsAssumption
  <2>3. 0 <= Len(directory)
    BY <2>1, DirectoryIsSequence
  <2> QED BY <1>1, <2>2, <2>3 DEF Write, Forgets, TypeOK
<1>7. LdapTypeOK'
  BY <1>1, <1>2, LdapTypesStay DEF TypeOK
<1>8. TypeOK'
  BY <1>1, <1>2, <1>3, <1>4, <1>5, <1>6, <1>7 DEF TypeOK, Pages
<1>9. thread[t] = "write"
  BY DEF Write, Goto
<1>10. Course(t)'
  BY <1>1, <1>2, <1>3, <1>5, <1>6, <1>9 DEF Course, ldapVars
<1>11. Searched(t)' /\ Answered(t)'
  BY <1>3 DEF Searched, Answered
<1>12. Cache'
  BY <1>2 DEF PInv, Cache
<1>13. \A u \in Threads \ {t} : Own(u)' = Own(u) /\ (crossed[u] => crossed'[u])
  BY <1>2, <1>3, <1>4, <1>5, <1>6 DEF Own, ldapVars
<1> QED BY <1>2, <1>8, <1>10, <1>11, <1>12, <1>13, OneThread DEF ldapVars

-----------------------------------------------------------------------------
(* The steps of the process and of its surroundings. *)

\* A process that starts has no threads but the caches of the last one.
LEMMA EndProcessIsRight ==
  ASSUME PInv, EndProcess
  PROVE  PInv'
<1>1. TypeOK /\ Cache
  BY DEF PInv
<1>2. /\ directory' = directory /\ directory \in Directories
      /\ 0 <= Len(directory) /\ 0 \in 0..Cardinality(Ids)
  <2>1. directory' = directory /\ directory \in Directories
    BY <1>1 DEF EndProcess, Forget, TypeOK, LdapTypeOK
  <2> QED BY <2>1, DirectoryIsSequence, FS_CardinalityType, IdsAssumption
<1>3. LdapTypeOK'
  BY <1>1, ForgetTypes DEF TypeOK, EndProcess
<1>4. page' \in [Threads -> Pages]
  BY PageTypes DEF EndProcess
<1>5. TypeOK'
  BY <1>1, <1>2, <1>3, <1>4 DEF EndProcess, TypeOK, ThreadSteps, Pages
<1>6. Cache'
  BY <1>1 DEF EndProcess, Cache
<1>7. ASSUME NEW t \in Threads PROVE Course(t)' /\ Searched(t)' /\ Answered(t)'
  <2>1. /\ thread'[t] = "none" /\ page'[t] = NoPage /\ at'[t] = "idle"
        /\ found'[t] = <<>> /\ ~failed'[t] /\ since'[t] = 0
    BY DEF EndProcess, Forget
  <2>2. Course(t)'
    BY <1>2, <2>1 DEF Course
  <2> QED BY <2>1, <2>2 DEF Searched, Answered
<1> QED BY <1>5, <1>6, <1>7 DEF PInv

LEMMA NobodyMoves ==
  ASSUME PInv, TypeOK', Cache', directory' = directory,
         \A u \in Threads : Own(u)' = Own(u) /\ (crossed[u] => crossed'[u])
  PROVE  PInv'
BY Undisturbed DEF PInv

LEMMA EvictKeeps ==
  ASSUME PInv, NEW i \in 1..2, NEW k \in Keys, Evict(i, k)
  PROVE  PInv'
<1>1. TypeOK /\ Cache
  BY DEF PInv
<1>2. UNCHANGED <<ldapVars, up, thread, request, page, asked, crossed, since,
                  outage>>
  BY DEF Evict
<1>3. LdapTypeOK'
  BY <1>1, <1>2, LdapTypesStay DEF TypeOK
<1>4. cached' \in [1..2 -> [Keys -> Ids \cup {NoNotice}]] /\ Cache'
  BY <1>1 DEF Evict, TypeOK, Cache
<1>5. TypeOK'
  BY <1>1, <1>2, <1>3, <1>4 DEF TypeOK
<1> QED BY <1>2, <1>4, <1>5, NobodyMoves DEF ldapVars, Own

LEMMA StayKeeps ==
  ASSUME PInv,
         UNCHANGED <<ldapVars, thread, request, page, cached, asked, crossed,
                     since, outage>>,
         up' \in BOOLEAN
  PROVE  PInv'
<1>1. TypeOK /\ Cache
  BY DEF PInv
<1>2. TypeOK'
  BY <1>1, LdapTypesStay DEF TypeOK
<1>3. Cache'
  BY <1>1 DEF Cache
<1> QED BY <1>2, <1>3, NobodyMoves DEF ldapVars, Own

\* What was right stays right when a notice is stored.
LEMMA NoticeStoredKeeps ==
  ASSUME PInv, NoticeStored
  PROVE  PInv'
<1>1. TypeOK /\ Cache
  BY DEF PInv
<1>2. /\ UNCHANGED <<up, thread, request, page, cached, asked, crossed, since,
                     outage>>
      /\ UNCHANGED <<at, query, found, failed>>
  BY DEF NoticeStored, StoreNotice, httpVars
<1>3. PICK n \in Ids \ Range(directory) : directory' = Append(directory, n)
  BY DEF NoticeStored, StoreNotice
<1>4. LdapTypeOK'
  BY <1>1, StoreTypes DEF NoticeStored, TypeOK
<1>5. TypeOK'
  BY <1>1, <1>2, <1>4 DEF TypeOK
<1>6. Cache'
  BY <1>1, <1>2 DEF Cache
<1>7. directory \in Directories
  BY <1>1 DEF TypeOK, LdapTypeOK
<1>8. /\ Len(directory) \in Nat /\ Len(directory') = Len(directory) + 1
      /\ \A i \in 1..Len(directory) : directory'[i] = directory[i]
  <2>1. directory \in Seq(Ids)
    BY <1>7, DirectoryIsSequence
  <2> QED BY <1>3, <2>1
<1>9. \A m \in 0..Len(directory) : Oldest(m)' = Oldest(m)
  BY <1>3, <1>7, OldestStay DEF Oldest
<1>10. ASSUME NEW t \in Threads PROVE Course(t)' /\ Searched(t)' /\ Answered(t)'
  <2>1. /\ thread'[t] = thread[t] /\ request'[t] = request[t] /\ page'[t] = page[t]
        /\ at'[t] = at[t] /\ query'[t] = query[t] /\ found'[t] = found[t]
        /\ failed'[t] = failed[t] /\ since'[t] = since[t] /\ outage'[t] = outage[t]
        /\ crossed'[t] = crossed[t]
    BY <1>2
  <2>2. Course(t) /\ Searched(t) /\ Answered(t)
    BY DEF PInv
  <2>3. since[t] \in 0..Len(directory)
    BY <1>1, <1>8, <2>2 DEF Course, TypeOK
  <2>4. since'[t] <= Len(directory')
    BY <1>8, <2>1, <2>3
  <2>5. Wanted(request[t])' = Wanted(request[t])
    BY <2>1 DEF Wanted
  <2>6. Course(t)'
    BY <2>1, <2>2, <2>4, <2>5 DEF Course
  <2>7. Stored(t)' = Stored(t)
    BY <1>9, <2>1, <2>3 DEF Stored, Oldest
  <2>8. Searched(t)'
    <3>1. \A m \in since[t]..Len(directory) :
            m \in since'[t]..Len(directory') /\ m \in 0..Len(directory)
      BY <1>8, <2>1, <2>3
    <3>2. ASSUME thread[t] = "ldap", found[t] # <<>>
          PROVE  \E m \in since'[t]..Len(directory') :
                   found'[t] = MatchingIn(Oldest(m)', query'[t])
      BY <1>9, <2>1, <2>2, <3>1, <3>2 DEF Searched
    <3> QED BY <2>1, <2>2, <2>7, <3>2 DEF Searched
  <2>9. Holds(t) => Holds(t)'
    <3>1. \A code : ErrorHolds(t, code) => ErrorHolds(t, code)'
      BY <2>1, <2>5, <2>7 DEF ErrorHolds
    <3>2. NoticeHolds(t) => NoticeHolds(t)'
      <4>1. \A i \in 1..Len(directory) :
              i \in 1..Len(directory') /\ directory'[i] = directory[i]
        BY <1>8
      <4> QED BY <2>1, <4>1 DEF NoticeHolds
    <3>3. IndexIsRight(t, page[t]) => IndexIsRight(t, page[t])'
      BY <2>1, <2>7 DEF IndexIsRight
    <3>4. GroupHolds(t) => GroupHolds(t)'
      <4> SUFFICES ASSUME GroupHolds(t) PROVE GroupHolds(t)'
        OBVIOUS
      <4>1. PICK m \in since[t]..Len(directory) :
              page[t].shows = PopAll(Pushed(WithGroup(Oldest(m), request[t].arg)))
        BY DEF GroupHolds
      <4>2. m \in since'[t]..Len(directory') /\ m \in 0..Len(directory)
        BY <1>8, <2>1, <2>3
      <4>3. Oldest(m)' = Oldest(m)
        BY <1>9, <4>2
      <4> QED BY <2>1, <4>1, <4>2, <4>3 DEF GroupHolds
    <3> QED BY <2>1, <3>1, <3>2, <3>3, <3>4 DEF Holds
  <2>10. Answered(t)'
    BY <2>1, <2>2, <2>9 DEF Answered
  <2> QED BY <2>6, <2>8, <2>10
<1> QED BY <1>5, <1>6, <1>10 DEF PInv

LEMMA PInvNext == PInv /\ [Next]_vars => PInv'
<1> SUFFICES ASSUME PInv, [Next]_vars PROVE PInv'
  OBVIOUS
<1>1. up \in BOOLEAN
  BY DEF PInv, TypeOK
<1>2. CASE UNCHANGED vars
  BY <1>1, <1>2, StayKeeps DEF vars, httpVars
<1>3. ASSUME NEW t \in Threads, NEW r \in Requests, Browse(t, r) PROVE PInv'
  BY <1>3, BrowseKeeps
<1>4. ASSUME NEW t \in Threads, ThreadStep(t) PROVE PInv'
  BY <1>4, ReadKeeps, AskKeeps, MissSecondKeeps, HitKeeps, LdapStepKeeps,
     NotFoundKeeps, FoundGroupsKeeps, FoundNoticesKeeps, FoundNoticeKeeps,
     SetKeeps, WriteKeeps DEF ThreadStep
<1>5. CASE EndProcess
  BY <1>5, EndProcessIsRight
<1>6. CASE Start
  BY <1>6, StayKeeps DEF Start
<1>7. ASSUME NEW i \in 1..2, NEW k \in Keys, Evict(i, k) PROVE PInv'
  BY <1>7, EvictKeeps
<1>8. CASE NoticeStored
  BY <1>8, NoticeStoredKeeps
<1> QED BY <1>2, <1>3, <1>4, <1>5, <1>6, <1>7, <1>8
        DEF Next, BrokenPipe, RunsOffAndDies, DiesOfDamage, FromXmlDies, Terminate

LEMMA PagesInvariance == Spec => []PInv
<1> QED BY PInvInit, PInvNext, PTL DEF Spec

\* The threads, the service, the caches and the pages have their types.
THEOREM TypeCorrect == Spec => []TypeOK
<1>1. PInv => TypeOK
  BY DEF PInv
<1> QED BY <1>1, PagesInvariance, PTL

\* A page made of such a stack shows the group from its newest notice that had a
\* slot down to its oldest.
LEMMA StackIsRight ==
  ASSUME TypeOK, NEW t \in Threads, since[t] <= Len(directory), GroupHolds(t)
  PROVE  GroupIsRight(t, request[t].arg, page[t])
<1>1. PICK m \in since[t]..Len(directory) :
        page[t].shows = PopAll(Pushed(WithGroup(Oldest(m), request[t].arg)))
  BY DEF GroupHolds
<1> DEFINE arg == request[t].arg
           o == Oldest(m)
           ids == {n \in Ids : InGroup(n, arg)}
           f == Entries(o, ids)
           s == Pushed(f)
           q == PopAll(s)
<1>2. /\ directory \in Directories /\ directory \in Seq(Ids)
      /\ Len(directory) \in Nat /\ since[t] \in 0..m /\ m \in 0..Len(directory)
      /\ since[t] \in 0..Len(directory)
  <2>1. directory \in Directories /\ since[t] \in 0..Cardinality(Ids)
    BY DEF TypeOK, LdapTypeOK
  <2>2. directory \in Seq(Ids) /\ Len(directory) \in Nat
    BY <2>1, DirectoryIsSequence
  <2> QED BY <2>1, <2>2
<1>3. /\ o \in Directories /\ o \in Seq(Ids) /\ Len(o) = m
      /\ \A i \in 1..m : o[i] = directory[i]
  BY <1>2, OldestAreDirectory, DirectoryIsSequence DEF Oldest
<1>4. Stored(t) \in Directories /\ Range(Stored(t)) \subseteq Range(o)
  <2>1. /\ Stored(t) \in Directories
        /\ Range(Stored(t)) = {directory[i] : i \in 1..since[t]}
        /\ Range(o) = {directory[i] : i \in 1..m}
    BY <1>2, OldestAreDirectory DEF Stored, Oldest
  <2> QED BY <1>2, <2>1
<1>5. /\ f \in Directories /\ f \in Seq(Ids) /\ Range(f) = Range(o) \cap ids
      /\ f = WithGroup(o, arg) /\ page[t].shows = q
  BY <1>1, <1>3, EntriesAreDirectory, DirectoryIsSequence, EntriesMatch
     DEF WithGroup
<1>6. Range(WithGroup(Stored(t), arg)) \subseteq Range(f)
  <2>1. Range(WithGroup(Stored(t), arg)) = {n \in Range(Stored(t)) : InGroup(n, arg)}
    BY <1>4, MatchingRange
  <2>2. Range(f) = {n \in Range(o) : InGroup(n, arg)}
    BY <1>3, <1>5, MatchingRange
  <2> HIDE DEF f, o
  <2> QED BY <1>4, <2>1, <2>2
<1>7. \A n \in Range(f) : InGroup(n, arg)
  BY <1>5
\* Each notice of the group has its place, and the places rise.
<1>8. ASSUME NEW i \in 1..Len(f)
      PROVE  Place(f[i]) \in 1..Len(o) /\ o[Place(f[i])] = f[i]
  <2>1. f[i] \in Range(o)
    <3>1. f[i] \in Range(f)
      <4> HIDE DEF f
      <4> QED BY <1>5 DEF Range
    <3> QED BY <1>5, <3>1
  <2> HIDE DEF f, o
  <2>2. PICK j \in 1..m : o[j] = f[i]
    BY <1>3, <2>1 DEF Range
  <2>3. j \in 1..Len(directory) /\ f[i] = directory[j]
    BY <1>2, <1>3, <2>2
  <2>4. Place(f[i]) = j
    BY <1>2, <2>3, PlaceOfNotice
  <2> QED BY <1>3, <2>2, <2>4
<1>9. ASSUME NEW i \in 1..Len(f), NEW j \in 1..Len(f), i < j
      PROVE  Place(f[i]) < Place(f[j])
  <2> DEFINE a == Place(f[i])
             b == Place(f[j])
  <2>1. /\ a \in 1..Len(o) /\ b \in 1..Len(o) /\ f[i] = o[a] /\ f[j] = o[b]
    BY <1>8
  <2> HIDE DEF a, b, o, ids
  <2>2. i < j <=> a < b
    BY <1>3, <2>1, EntriesInOrder
  <2> QED BY <1>9, <2>2 DEF a, b
<1> HIDE DEF f
<1>10. /\ s \in Directories /\ s \in Seq(Ids)
       /\ Len(s) = IF Len(f) < DIM THEN Len(f) ELSE DIM
       /\ Len(s) \in Nat /\ Len(f) \in Nat /\ DIM \in Nat /\ DIM > 0
       /\ \A i \in 1..Len(s) : s[i] = f[i]
  <2>1. Len(f) \in Nat /\ DIM \in Nat /\ DIM > 0
    BY <1>5, DIMAssumption
  <2>2. /\ s \in Directories
        /\ Len(s) = IF Len(f) < DIM THEN Len(f) ELSE DIM
        /\ \A i \in 1..Len(s) : s[i] = f[i]
    BY <1>5, PushedIsDirectory
  <2> QED BY <2>1, <2>2, DirectoryIsSequence
<1>11. /\ q \in Seq(Ids) /\ Len(q) = Len(s) /\ DOMAIN q = 1..Len(s)
       /\ \A i \in 1..Len(s) : q[i] = s[Len(s) + 1 - i]
  <2>1. /\ q \in Directories /\ Len(q) = Len(s)
        /\ \A i \in 1..Len(s) : q[i] = s[Len(s) + 1 - i]
    BY <1>10, PoppedIsDirectory
  <2> HIDE DEF q
  <2> QED BY <2>1, DirectoryIsSequence
<1> HIDE DEF q, s
<1>12. ASSUME NEW i \in 1..Len(s)
       PROVE  /\ Len(s) + 1 - i \in 1..Len(s) /\ Len(s) + 1 - i \in 1..Len(f)
              /\ q[i] = f[Len(s) + 1 - i] /\ q[Len(s) + 1 - i] = f[i]
  <2> DEFINE k == Len(s) + 1 - i
  <2>1. k \in 1..Len(s) /\ k \in 1..Len(f) /\ Len(s) + 1 - k = i
    BY <1>10
  <2> QED BY <1>10, <1>11, <2>1
<1>13. \A n \in Range(q) : InGroup(n, arg)
  <2> SUFFICES ASSUME NEW i \in 1..Len(s) PROVE InGroup(q[i], arg)
    BY <1>11 DEF Range
  <2>1. q[i] \in Range(f)
    <3>1. PICK k \in 1..Len(f) : q[i] = f[k]
      BY <1>12
    <3> QED BY <1>5, <3>1 DEF Range
  <2> QED BY <1>7, <2>1
<1>14. ASSUME NEW i \in DOMAIN q, NEW j \in DOMAIN q, i < j
       PROVE  Place(q[j]) < Place(q[i])
  <2> DEFINE a == Len(s) + 1 - j
             b == Len(s) + 1 - i
  <2>1. /\ a \in 1..Len(f) /\ b \in 1..Len(f) /\ q[j] = f[a] /\ q[i] = f[b]
    BY <1>11, <1>12
  <2>2. a < b
    BY <1>10, <1>11, <1>14
  <2> HIDE DEF a, b
  <2> QED BY <1>9, <2>1, <2>2
<1>15. ASSUME NEW n \in Range(f) \ Range(q)
       PROVE  Len(q) = DIM /\ Place(Head(q)) < Place(n)
  <2>1. PICK u \in 1..Len(f) : n = f[u]
    BY <1>5 DEF Range
  <2>2. u \notin 1..Len(s)
    <3>1. ASSUME u \in 1..Len(s) PROVE FALSE
      <4> DEFINE k == Len(s) + 1 - u
      <4>1. k \in DOMAIN q /\ q[k] = n
        BY <1>11, <1>12, <2>1, <3>1
      <4> QED BY <4>1 DEF Range
    <3> QED BY <3>1
  <2>3. Len(s) = DIM /\ DIM < u /\ 1 \in 1..Len(s)
    BY <1>10, <2>2
  <2>4. Head(q) = f[DIM] /\ DIM \in 1..Len(f)
    <3>1. Head(q) = q[1]
      BY <1>11, <2>3
    <3>2. Len(s) + 1 - 1 = DIM
      BY <1>10, <2>3
    <3> QED BY <1>12, <2>3, <3>1, <3>2
  <2>5. Place(f[DIM]) < Place(f[u])
    BY <1>9, <2>3, <2>4
  <2> QED BY <1>11, <2>1, <2>3, <2>4, <2>5
<1>16. page[t].code = 200
  BY DEF GroupHolds
<1> QED BY <1>5, <1>6, <1>13, <1>14, <1>15, <1>16 DEF GroupIsRight

LEMMA PagesHold == PInv => PageIsRight
<1> SUFFICES ASSUME PInv, NEW t \in Threads,
                    thread[t] = "write", page[t] # NoPage,
                    ParseResult(request[t]) = "SUCCESS", ~crossed[t]
             PROVE  CASE request[t].path = "Notice" ->
                           \/ NoticeIsRight(t, request[t].arg, page[t])
                           \/ /\ page[t].code = 404
                              /\ \/ outage[t]
                                 \/ WithId(Stored(t), request[t].arg) = <<>>
                      [] request[t].path = "Group" ->
                           \/ GroupIsRight(t, request[t].arg, page[t])
                           \/ /\ page[t].code = 404
                              /\ \/ outage[t]
                                 \/ WithGroup(Stored(t), request[t].arg) = <<>>
                      [] OTHER ->
                           \/ IndexIsRight(t, page[t])
                           \/ /\ page[t].code = 500
                              /\ outage[t] \/ Stored(t) = <<>>
  BY DEF PageIsRight
<1>1. TypeOK /\ Course(t) /\ Answered(t)
  BY DEF PInv
<1>2. Holds(t)
  BY <1>1 DEF Answered
<1>3. request[t].path \in {"Index", "Group", "Notice"}
  BY <1>1, RequestsAssumption, Parsed DEF Course
<1>4. directory \in Directories /\ Stored(t) \in Directories
  <2>1. directory \in Directories
    BY <1>1 DEF TypeOK, LdapTypeOK
  <2>2. since[t] \in 0..Len(directory)
    <3>1. since[t] \in 0..Cardinality(Ids) /\ since[t] <= Len(directory)
      BY <1>1 DEF TypeOK, Course
    <3>2. Len(directory) \in Nat
      BY <2>1, DirectoryIsSequence
    <3> QED BY <3>1, <3>2
  <2> QED BY <2>1, <2>2, OldestAreDirectory DEF Stored
<1>5. CASE request[t].path = "Notice"
  <2>1. NoticeHolds(t) => NoticeIsRight(t, request[t].arg, page[t])
    <3> SUFFICES ASSUME NoticeHolds(t), page[t].shows # <<request[t].arg>>
                 PROVE  request[t].arg = Star /\ Place(Head(page[t].shows)) >= since[t]
      BY DEF NoticeHolds, NoticeIsRight
    <3>1. PICK i \in 1..Len(directory) :
            since[t] <= i /\ page[t].shows = <<directory[i]>>
      BY DEF NoticeHolds
    <3>2. Place(directory[i]) = i
      BY <1>4, PlaceOfNotice
    <3>3. Head(page[t].shows) = directory[i]
      BY <3>1
    <3>4. Place(Head(page[t].shows)) >= since[t]
      BY <3>1, <3>2, <3>3
    <3> QED BY <3>4 DEF NoticeHolds
  <2>2. ErrorHolds(t, 404) =>
          /\ page[t].code = 404
          /\ outage[t] \/ WithId(Stored(t), request[t].arg) = <<>>
    BY <1>5 DEF ErrorHolds, MatchingIn, Wanted
  <2> QED BY <1>2, <1>5, <2>1, <2>2 DEF Holds
<1>6. CASE request[t].path = "Group"
  <2>1. ErrorHolds(t, 404) =>
          /\ page[t].code = 404
          /\ outage[t] \/ WithGroup(Stored(t), request[t].arg) = <<>>
    BY <1>6 DEF ErrorHolds, MatchingIn, Wanted
  <2>2. GroupHolds(t) => GroupIsRight(t, request[t].arg, page[t])
    BY <1>1, StackIsRight DEF Course
  <2> QED BY <1>2, <1>6, <2>1, <2>2 DEF Holds
<1>7. CASE request[t].path = "Index"
  <2>1. WithId(Stored(t), Star) = <<>> => Stored(t) = <<>>
    <3>1. Range(WithId(Stored(t), Star)) = {n \in Range(Stored(t)) : Star \in {n, Star}}
      BY <1>4, MatchingRange
    <3>2. ASSUME Stored(t) # <<>> PROVE Last(Stored(t)) \in Range(WithId(Stored(t), Star))
      BY <1>4, <3>1, <3>2, LastIsFound
    <3>3. Range(<<>>) = {}
      BY DEF Range
    <3> QED BY <3>2, <3>3
  <2>2. ErrorHolds(t, 500) =>
          page[t].code = 500 /\ (outage[t] \/ Stored(t) = <<>>)
    BY <1>7, <2>1 DEF ErrorHolds, MatchingIn, Wanted
  <2> QED BY <1>2, <1>7, <2>2 DEF Holds
<1> QED BY <1>3, <1>5, <1>6, <1>7

\* The page that a thread sends shows what its request asked for, as it was
\* stored when the request was read or later, through both caches, their losses
\* and any restart; an error says that there was nothing, or that the directory
\* did not answer.
THEOREM PagesAreRight == Spec => []PageIsRight
<1> QED BY PagesHold, PagesInvariance, PTL

=============================================================================
