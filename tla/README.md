# A verification development for nttp-server

The repository is a news system in five programs. Editors type notices into
**publishers**; a publisher exports them, one per TCP connection, to the **news
server** (NNTPServer), which puts them in an MSMQ queue; the **data access
process** (NNTPServerDataAccess) takes them out and adds them to an LDAP
directory. Readers see them through the **HTTP server** (with two memcached
servers in front of the directory) or through the **NNTP server over SSL**
(nntpSslBamServer) and its **client** (nntpSslClient).

    editor -> Publisher -> [TCP] -> NNTPServer -> [MSMQ] -> DataAccess -> LDAP
                                                                           |
    browser <- httpServer <- memcached <-----------------------------------+
    reader  <- nntpSslClient <- [SSL] <- nntpSslBamServer <----------------+

Both sides are modelled and checked on small instances. Every safety property the
runs check, and the refinement, is also proved for all values of the constants;
liveness is model-checked only.

## Inventory

| Component | State | Operations | What is hard | What makes it correct |
|---|---|---|---|---|
| Publisher (`Publisher.c`, `DataBase.c`) | Berkeley DB file and its unsynced cache, `DataBase.status` and cursor shared by two threads, the sender's `CurrentNew` | menu: save, leave; sender: connect, scan, handshake, content, mark; `Terminate` | race on `status`; mark without receipt; death without `CloseDataBase`; ids from the clock | what is marked was written; no row sent twice in a run; rows never change |
| Connections | both ends, a segment up, an answer down | connect, send, read, close, reset | end of a peer at any step; reads that stop early | |
| NNTPServer (`socket.cpp`, `nntpServer.cpp`) | listening socket, WSAStartup count, the connection served | accept, two reads, answer, insert, close | one connection at a time without timeouts; `accept` failures; exceptions | every waiting connection gets its turn; none leaks; only authenticated content is queued |
| MSMQ queue (`MsQeue.cpp`) | the queue; the wrapper's message object | `Insert`, `Get` | the message object is shared by saver and signal handler | first in first out |
| DataAccess (`NNTPServerDataAccess.cpp`) | globals `XmlNew`, `NewsQeue`; loop and signal handler | `NewsSaver`, `LdapFails`, `Terminate` | signal at any step; refused notices; lost answers; poisoned messages | no notice silently lost, no needless copy, no starvation |
| LDAP directory | id to contents | add | outages, add applied but not answered | external |
| httpServer: connections and pages (`HttpServer.c`, `HttpConnectionDriver.c`, `UrlParser.c`, `ServerSocket.c`) | a thread per connection | index, group and notice page; `terminate` | loops that run off a request; SIGPIPE ends the whole program | a page that is sent is the right one |
| httpServer: LDAP service and cache (`LdapService.c`, `DatabaseService.c`, `MemCachedService.c`) | one `AbstractLdapService` and two memcached handles for all threads | three searches; `getCache`, `setearCache` | the context is assigned and freed per request; what is cached stays | nobody frees another's context; what is cached under an id is that notice |
| nntpSslBamServer (`nntpSSlBamServer.c`, `NNTPParser.c`, `SSLSocket.c`, `LdapService.c`) | the session; the globals `currentGroupName`, `lastNoticeId`; what SIGPIPE does | HEAD, BODY, ARTICLE, NEXT, LISTGROUP, LIST, QUIT, others; `onBrokenPipe` | globals outlive a session; clients that vanish; NEXT over a directory that grows | no order of commands kills it; NEXT follows the listing; who waits is served |
| nntpSslClient (`NntpSslClient.cpp`, `SSLSocket.cpp`) | shared memory, two semaphores, `Finish`, the socket | user interface and connector threads | taking turns; framing of answers; the end | each answer is the one to the command before it; QUIT ends both threads |
| LDAP wrapper | contexts, sessions, result sets | vendored four times | thin layer over libldap | modelled with its callers |
| Logs, configuration, console | files | | pure input and output | not modelled |
| Copies under `nntpServer/db` | | | unused | not modelled |

## Modules

| Module | What it is |
|---|---|
| `NewsData` | notices and messages, reduced to what decisions depend on: a message is whole, cut too short for `isValid`, cut and accepted (`Broken`), or with empty elements (`Hollow`) |
| `Wire` | a TCP connection as its two programs can tell |
| `Publisher` | the publisher programs, several at once |
| `NewsServer` | NNTPServer, with any clients around it |
| `DataAccess` | NNTPServerDataAccess, queue and directory |
| `NewsDelivery` | the abstract promise of the three programs together |
| `NewsPipeline` | the three composed; implements `NewsDelivery` |
| `LdapReads` | what the readers get from the directory, and the stack it comes in |
| `LdapSessions` | the HTTP server's LDAP service, one step per use of its shared context |
| `HttpServer` | the HTTP server's threads, its pages and caches; extends `LdapSessions` |
| `NntpWire` | an SSL connection to the NNTP server, commands and pieces of answers |
| `NntpServer` | nntpSslBamServer, with any programs around it |
| `NntpClient` | the two threads of nntpSslClient |
| `NntpReading` | client and NNTP server composed over their connections |
| `MC...` | instances for TLC |
| `DataAccessProofs`, `PublisherProofs`, `NewsServerProofs`, `NntpServerProofs`, `HttpServerProofs` | the theorems about each program alone |
| `NewsPipelineProofs`, `NntpReadingProofs` | the theorems about the compositions, from those of the programs |
| `LdapReadsFacts` | lemmas on searches, stacks and a directory that grows, for `NntpServerProofs` and `HttpServerProofs` |

In the source text of a module, a comment `Faulty variant` marks an operator that
no specification uses: a plausible bug that takes the place of the definition
after it, to see that the properties notice.

### Publisher

`process[p]` is the program (up, leaving, down), `sender[p]` where `ClientSender`
is, `db[p]` the rows as the process sees them and `disk[p]` what the file is
known to hold. `GetRow` is `cursor->get`; the loop's test of `dataBase->status`
is an action of its own, because the loader's `put` assigns the same field: the
test may see either value (`StatusSeen`). When the test lets the loop's body run
before any row was copied, the body reads an uninitialised local
(`CurrentSeen`): the Debug build fills it with a pattern that is not
`NOEXPORTED`, the Release build leaves what the fresh stack has, zeros. `Kill`
chooses which changes of the run have reached the file (`File`). A `put` with
`DB_NOOVERWRITE` refuses an id that exists. Each item is typed once, so that
histories can tell notices apart.

### NewsServer

`ServerSocket::Listen` waits for the thread of each connection, so loop and
thread are one process with a program counter. `Accept` may find that the peer
reset the connection; `AcceptFails` then undoes one of the two `WSAStartup`
calls (the constructor of `ServerSocket` runs for the global and for `main`'s
own), and the second time the listening socket is gone and `AcceptSpins` is all
that is left. A read stops at the first `recv` shorter than its buffer: `Cuts`
says which prefixes may result, `tiny` being one on which `ParseMesage` throws.

### DataAccess

The saver's `Receive` and `Assign` are two actions because the signal handler
runs between them: Windows runs `Terminate` in a thread of its own. `InHand` is
what the saver has taken out and not disposed of. `qMsg` is the wrapper's message
object: `Get` leaves it NULL after a timeout, `Insert` overwrites its body.
`copied` and `lost` are histories: messages put back although they need not have
been, and messages a dying process held.

### NewsPipeline

Publishers and server share `conns`, server and saver share `queue` and
`inserted`. A sender's `connect` and the server's backlog are one step. The
refinement maps the notices the editors typed to `typed`; `directory` is itself.

### LdapReads, LdapSessions and HttpServer

The directory is the sequence of its notices in the order of a search, the order
they were added in; a notice never changes once stored, so that it is its id.
`LdapServiceGetQuery` pastes what it is given into the filter, so that `*` given
for an id or a group is the filter's wildcard: a search by it finds everything
(`WithId`, and `InGroup` for `WithGroup`). `LdapServiceGetNoticeById` then keeps
the last record, and `LISTGROUP *` or `group=*` gets a stack of every group's
notices. Other characters that mean something to a filter (`a*`, parentheses) are
not modelled. A search is `Entries`: the entry at each rank among the places that
match. `Pushed` is a stack of `DIM`
slots that ignores what is pushed when it is full.

A request to the LDAP service is `NewContext` (the assignments of
`initializeContext`), `Initialize` (the handle is written to *whatever* context
the service has by now), `GetSession`, a search, `CloseSession` and
`CloseContext`, which frees whatever context the service has by now. Contexts are
named for the thread that allocated them, and the tables of operations live and
die with the context they are assigned next to. `Sound` says what the next step
relies on; a step that is not sound may go on as if nothing had been (`damaged`)
or end the process (`MayDie`): undefined behaviour is a free choice of the two.

`HttpServer` gives each connection a thread that reads (`Read`, or `ReadPart`
when less than the whole request comes), goes where `start()` sends it
(`Dispatch`), asks the two caches and the service, caches what the service found,
and writes. `ParseResult` is `NewUrlParser`'s verdict. `ReadRunsOff` and
`RunsOffAndDies` are a request with `?` and no `=`. Two threads on one memcached
handle may get each other's reply (`crossed`). `Odd` are notices whose text has
the words of the cached form's tags: `convertXmlToNotice` finds the first
occurrence of a tag's name, and the notice comes back garbled, or the process
dies (`FromXmlDies`). `memcached_set` may fail on either server (`Set`), and
memcached may drop anything (`Evict`). `since` is what was stored when a request
was read, for properties to compare a page with.

### NntpWire, NntpServer, NntpClient and NntpReading

The client writes one command and waits for an answer. What comes next it takes
for that answer, and after a cut one it is the rest of the one before: the client
then writes its next command before the server has read the last, so that the
commands of a connection are a queue (`up`), like the pieces of answers (`down`),
one per read of the client. `Answered`
on a connection whose client is gone goes unnoticed once, and TCP then resets it
(`ResetArrives`): only the next write raises SIGPIPE.

`NntpServer` serves one connection at a time. `server` is its program counter;
`currentGroupName` and the block of `lastNoticeId` are NULL, live or freed. NEXT
is two actions, one per search, because the directory may grow, or stop answering,
in between (`NextFindsLast`, `NextWalks`). A client that leaves makes
`SSLSocketRead` return the empty string, and the command the parser then returns
has no field set: `ReadNothing` goes on with it as an unknown command,
`ReadNothingDies` dies of it. `EndSession` frees the two globals, which keep their
values: a second session's test for NULL passes on a freed block, and ending it
frees that block again (`DoubleFree`). `BrokenPipe` is the SIGPIPE handler: it
closes the session and runs `server()` anew, nested in the interrupted one, which
never goes on, so that to the model it is a jump to `accept`. The makefile builds
with `-ansi`, under which `signal()` installs a handler for one signal:
`BrokenPipeKills` is the second. `calm` is a history: nothing has befallen the
process that the properties set apart.

`NntpClient` has one program counter per thread. `semUserInterface`,
`semConnector`, `shared`, `Finish` are the program's globals, `cmd` and `response`
the threads' locals. `Exit` is the end of the process, whoever ends it: `exit(1)`
in `read`, SIGPIPE and `Terminate`, the reader's signal, or `main` after both
threads. `ReadCut` is a read that ends before the answer does, at the end of an
SSL record or at a block that ends like a message: `Rest` stays behind to be read
as the answer of the next command.

`NntpReading` shares `conns` between clients, other programs and the server; a
connector's `connect` and the server's backlog are one step (`Connect`).

## What the runs check

| Run | Question | Bounds |
|---|---|---|
| `data_access` | is a notice lost or doubled by any order of saver, handler, kill, outage? | two ids, two notices claiming one of them, a cut message, a hollow one; two faults, so that a signal meets a kill or a lost answer |
| `data_access_live` | does a notice refused for ever starve others? | three notices, one fault |
| `data_access_refused` | violated: the message says the directory is unreachable when it refused | |
| `publisher` | what do the race, kills, refusals and hang-ups leave in the database? | one publisher, ids 0..2, two notices, two ends of the process, two connections |
| `publisher_scan` | violated: the scan returns what is no row | one end |
| `news_server` | do bad clients leak a connection or block the next? | two clients at a time, without limit on how often they return, so that the server meets two aborted ones; backlog one; one death |
| `pipeline` | with deaths and cut reads, is the directory right? | one notice, one death of each of publisher and server |
| `pipeline_two` | does a notice vanish between the programs? does the second of one id harm the first? | two publishers, one id, backlog of one so that connections are refused; no deaths |
| `pipeline_live` | does every notice arrive? | one publisher, two notices, two ids; no deaths |
| `nntp_server` | what can any order of commands of programs that come and go do to the server? | three notices, two of one group and one of another, stored in any order; a stack of two, so that a listing of all groups is cut and NEXT comes to its end; HEAD, NEXT, LISTGROUP of a group and of `*`, LIST NEWSGROUPS, an overlong line, QUIT; two connections, backlog one, sessions without limit |
| `nntp_reading` | do the client's threads take turns and end, whatever the server and other programs do? | one client, run again and again, two connections, one cut answer at a time; a notice that is not there, LIST NEWSGROUPS over an empty directory, an overlong line, QUIT alone and with more on its line |
| `http_server` | what is a page worth with two requests at a time over one LDAP service and two caches? | two threads, two requests of six kinds (index, a group, all groups by `*`, a notice, any by `*`, one that runs off), three notices, the two of one group odd, the third of another; a stack of two, so that a page of all groups is cut |

The bounds are small because the programs' decisions depend on one notice, or on
two that compete for an id, a connection or the queue; identities beyond that
only repeat. `data_access` and `publisher` cover the faults of their program in
full and `pipeline` adds what the programs do to one another.
`SYMMETRY` is used in `pipeline`, `pipeline_two` and `http_server`: publishers,
items, connections, threads and, in `http_server`, the two notices of one group
that nobody asks for by id are interchangeable and the properties are safety
properties. On the reading side two programs are enough: the NNTP server has one
place for the connection it serves, and a second one meets what the first left
behind; damage to the HTTP server's context takes two threads, and a third does
the same again. A listing in which NEXT leaves out a line *between* two of one group needs a stack
of three; the run has lists of two, whose other line is of the same group or of
another, and the theorem covers the rest.
`nntp_server` has every kind of command against the server alone;
`nntp_reading`, with the client at the other end, has one of each kind of
answer, where a directory would only repeat the first run.

What the runs found:

- `FailureIsNoConnection`: a notice whose id is taken is reported as "No se pudo
  conectar con Ldap" and tried again for ever (`NNTPServerDataAccess.cpp:86`).
- `ScanReturnsUnsentRow`: a save that succeeds between the end of the scan and
  its test makes the sender export uninitialised memory as a notice
  (`DataBase.c:146`). Its XML has empty elements, and `ParseXml` in the data
  access process then dereferences NULL: `Hollow` in `pipeline_live`.

What they show of the reading side, by the premises the properties need:

- `DamageNeedsOverlap` holds for each request alone; without `~overlapped` it does
  not: two requests at a time free each other's context (`db/LdapService.c:30`). `PageIsRight` says nothing of pages after such damage, or
  after crossed memcached replies.
- `PageIsRight` lets a notice be garbled when it is odd, only from the cache; and
  a notice or group may be answered with 404 while the directory does not answer,
  as if it did not exist.
- A group page, and NEXT, show the *oldest* `DIM` notices of a group for ever:
  `PageIsRight` says of what a page leaves out that it is younger than all it shows.
- `LISTGROUP *` and `GroupPage.html?group=*` show the notices of every group
  (`nntpSslBamServer/src/OpenDs/LdapService.c:277`, `httpServer/src/db/LdapService.c:223`),
  and of all of them together only the oldest `DIM`. NEXT searches the group of
  the notice last shown, so that after `LISTGROUP *` it leaves out the lines of the
  other groups: `NextWalksListing` says that it goes to the next line of the same
  group, and that there is none only after the last of them. With a listing of one
  group that is the next line.
- `SurvivesGoodDays` needs all of `calm`: that every client stays until its QUIT is
  taken, that sessions after the first list a group before their QUIT, that the
  directory answers and is not empty. Without the second, two sessions that only
  say QUIT after a first one that set a group end the process by a double free
  (`nntpSSlBamServer.c:64`); until then they read in the first one's group
  (`NNTPParser.c:193`). With it any number of sessions may come, because LISTGROUP
  allocates both globals anew.
- `WaitingIsServed` holds although clients vanish at any point, because each way a
  dead connection can go on ends in a new `accept` or in the end of the process;
  the second SIGPIPE of a process is of the latter kind.
- `AnswerBelongs` counts the answers that were cut: each leaves one piece behind,
  and every later answer of that connection is shown one command late.

`NothingVanishes` and `EveryNoticeArrives` need their premises. Once the news
server has answered the handshake, its death loses the notice, since the row is
marked whatever becomes of the content; so does a read that is cut short. They
state exactly which circumstances are harmless.

## Fairness

Weak fairness of the saver, of a handler that has started, of the server's loop
and of each publisher's chain of senders: these are threads the operating system
schedules and `main` starts one sender after another. Clients of the news server
close their connection in the end, as `ClientSender` does on every path; without
it the server, which reads without timeout, waits for ever. Nothing is assumed
of editors, signals, restarts or outages: where a property needs the directory
or the data access process to be up for good, it says so as a premise.

On the reading side, weak fairness of the NNTP server's loop (one thread that
never waits for anything but a client), of each thread step of the client (taken
together: exactly one of the two has its turn, as `TakeTurns` says), and of TCP's
reset. Nothing is promised of readers at their terminals, of other programs, of
the directory, or that a server that has died is started again. The NNTP server
reads without timeout, so `WaitingIsServed` has the premise that every client
leaves one day. The HTTP server is checked for safety only: its threads wait for
browsers without any limit of time.

## What is proved

The theorems hold for every value of the constants that the modules' assumptions
admit: ids are numbers, sentinels (`NoItem`, `NoConn`, `NoThread`, `NoNotice`,
`Nothing`) are nothing they stand apart from, messages that arrive are messages,
bounds are numbers, the directory's ids are finitely many, a stack and a backlog
have at least one place. TLC evaluates the assumptions in the runs. Bounds of
the runs, such as the number of faults, of deaths or of requests, are constants
too, and no theorem depends on their value.

| Module | Theorems | Inductive invariant |
|---|---|---|
| `DataAccessProofs` | `TypeCorrect`, `NoNoticeSilentlyLost`, `NoticeInOnePlace` | `IInv`; `Sources` |
| `PublisherProofs` | `TypeCorrect`, `OnlyWrittenIsMarked`, `NeverResent`, `RowsStay` | `IInv` |
| `NewsServerProofs` | `TypeCorrect`, `NothingLeaks`, `NobodyForgotten` | `IInv` |
| `NewsPipelineProofs` | `TypeCorrect`, `NothingIsForgotten`, `PipelineDelivers` | the three programs', and `Link`, `Origins`, `Arriving` |
| `NntpServerProofs` | `TypeCorrect`, `GoodDaysAreSurvived`, `NextFollowsListing` | `IInv` |
| `NntpReadingProofs` | `TypeCorrect`, `TurnsAreTaken`, `AnswersBelong` | the server's, and `Threads`, `Sockets`, `Owing` |
| `HttpServerProofs` | `LoneRequestsAreSafe`; `TypeCorrect`, `PagesAreRight` | `IInv`; `PInv` |

None of the properties is inductive as it stands. What the invariants add:

- **DataAccess.** Whether a signal saves the message depends on where saver and
  handler are. `Positions` relates the two program counters, `XmlNew`, `qMsg`,
  `queue` and `late`: after the assignment the saver holds a message and the
  wrapper's object exists; when a handler runs and `late` is not set, an assignment
  still to come is that of a timeout; a handler that has done its insert has put
  the message in hand in the queue. For `OnePlace`, `Sources`: whatever the queue,
  the saver or the directory has was once inserted.
- **Publisher.** `Marks` says of database and file that a marked row was written;
  it holds through the race on `dataBase->status` because of `Scanning` and
  `Resending`, which say for each position of the sender what record it has read:
  an unsent row, or the zeros of the stack, whose update marks row 0 and no other.
- **NewsServer.** `BacklogIsWaiting`: the backlog is exactly what waits, each
  connection once. `Serving` and `Exchange` tie the connection that is served to
  the loop's position.
- **NewsPipeline.** The invariants of the three programs are those of their own
  proofs (`PP`, `SP`, `AP` are instances of the proof modules; their lemmas are
  cited there); what is left to prove is that the steps of the others keep them.
  `Link` is the dialogue: what a sender's position says of the server, by which a
  message on its way has a server that waits for it. `Origins` says that what is on
  its way, queued or stored was typed; `PipelineDelivers` follows, one step of
  `NewsDelivery` or a stutter for each step. `Arriving` says on good days where each
  exported notice is.
- **NntpServer.** `Globals` and `GoodDays` say what makes a day good for the
  process: no end that it still reads or writes is left, and it frees its globals
  once, since none is freed before a session has ended and the group is never set
  without the notice.
  `ListingIsStack`: the listing is the bottom, read from the top, of the stack of
  what LISTGROUP was given, a group or `*`, although the directory has grown; it
  needs that a search of a longer directory begins with what a search of the shorter
  one found (`EntriesOfAppend`). NEXT searches one group only: `NarrowerSearch` says
  that its stack has, of that group, what the listing has and in the same order, and
  `WalkingFollows` that the entry above is the first line below of that group.
- **NntpReading.** `Turns` is the sum of turns and semaphores, one for each running
  client, with what each thread's position says of the other's. `Owing` balances
  each connection: commands sent and not yet answered, pieces to come and answers
  cut. The server's invariant is again that of its own proofs.
- **HttpServer.** For the shared context `LoneRequests`: as long as no two threads
  were inside the service, the one that is there has it to itself. For the pages
  `PInv`: `Cache`, a notice is cached under its own id only; `Course`, what a
  thread's position says of its request; `Searched`, what a thread found is what
  matched at some time since its request was read, and where it found nothing
  there was nothing even then; `Answered`, the page it is about to send is right.
  A group's page is the stack of what was stored at some time since (`GroupHolds`);
  `StackIsRight` says that such a stack holds the oldest, newest first, and that what
  it leaves out of what was stored when the request was read found it full.
  The proof does not use that memory is sound: a damaged service goes on as if
  nothing had been or dies, in this model. `PageIsRight` keeps its premise
  `~damaged`, because of the program no more than that may be said.

What the proofs changed in the models: `NntpWire` had one command on a connection
where the client can have more (above); `Entries` is defined by rank, where the
library's `SelectSeq` is recursive; and `ParseResult` and `Dispatch` tell their
cases apart by guards that exclude each other.

Not proved, and left to TLC: `RefusedNoticeStarvesNobody`, `EveryNoticeArrives`,
both `WaitingIsServed` and `QuitEnds`, which are liveness under fairness, with
`ENABLED`, beyond the prover. Safety facts they rest on are proved
(`NobodyForgotten`, `TurnsAreTaken`). The two runs that expect a violation show
what the code does, which a theorem cannot. No theorem needs an induction over
data; the project has no RECURSIVE operator.

## What is assumed of the environment

- The BSTR that `Get` returns stays readable after the next `Receive`, and the
  cast of `char*` to BSTR in `OnConnect` keeps the payload: both depend on the
  COM runtime's memory.
- MSMQ is first in first out and outlives its clients. An LDAP add stores an
  entry or refuses it as a whole.
- A Berkeley DB file left by a dead process can be opened and holds, of each
  row, a state it really had. Order of rows in the tree does not matter.
- Nobody removes the database file while the publisher runs.

- SSL gives one record per write and tells of a closed peer; a garbage command
  after an empty read matches none of the words or faults.
- Two threads on one memcached handle may get each other's reply or none; nothing
  worse is assumed of libmemcached.
- Freed memory keeps its contents or not; using it goes on or ends the process.

## Not modelled

- Logs, configuration, console: pure input and output, read once at start.
- Conversions without effect on control: HTML, the LDAP filter's text, the
  unescaping of `%20`, XML beyond what of it can be lost, `StrMng`.
- `payloadLength`'s truncation (no program reads it), memory that runs out, and
  with it the sessions leaked by failed adds.
- Deleting, editing and asynchronous search in the LDAP wrapper: no caller.
- `nntpServer/db`, the demonstrations `Ldap.c` and `Ldap.cpp`: not built into a
  running program.
- The 1000 groups of `NoticeGroups`: a bound beyond any instance.
- A request whose length is a multiple of 256 and blocks its thread: the thread
  stays in `read`, which the model allows any thread to do for ever.

## Plan

Done: all the modules above, and the proof of every safety property and of the
refinement. What is left is to say more:

1. An abstract specification of each reader, a page or an answer as one step over
   the directory, that `HttpServer` and `NntpServer` implement where nothing
   crossed and nobody died; `PInv` and `ListingIsStack` hold what it needs.
2. `NntpServer`: that TCP's backlog keeps the order connections came in, the
   safety part of `WaitingIsServed`.
3. `NntpReading`: which command an answer is shown for after `cuts`, not only how
   many pieces it lags behind.
