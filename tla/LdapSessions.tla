---------------------------- MODULE LdapSessions ----------------------------
(***************************************************************************)
(* The LDAP service of httpServer: one object for all threads, whose       *)
(* context and tables of operations each request assigns, uses and frees.  *)
(* A context, and with it the tables assigned and freed next to it, is     *)
(* named for the thread that allocated it.                                 *)
(***************************************************************************)
EXTENDS LdapReads

CONSTANTS Threads,   \* bound: threads at one time
          NoThread   \* an unset pointer

ASSUME ThreadsAssumption == NoThread \notin Threads

VARIABLES
  at,         \* where each thread is in a request to the service
  query,      \* what it asks for
  found,      \* the notices read from the result, <<>> standing for NULL
  context,    \* abstractLdapService->context, and its tables
  contexts,   \* the context each thread allocated last
  sessions,   \* the context of each thread's session
  directory,  \* the notices stored, in the order of a search
  \* histories
  failed,     \* the search of a thread was not answered
  overlapped, \* two threads have been in the service at a time
  damaged     \* memory was used or freed that was not there, or left behind

serviceVars == <<context, contexts, sessions>>
ldapVars == <<at, query, found, serviceVars, directory, failed, overlapped,
              damaged>>

Steps == {"idle", "new", "initialize", "session", "search", "end", "free"}

\* "new" has no handle yet, the handle of "closed" is unbound and gone.
Lives == {"freed", "new", "open", "closed"}

\* A filter's attribute and value.
Queries == [by : {"id", "group"}, value : Ids \cup {Star, ""} \cup Groups]

NoQuery == [by |-> "id", value |-> ""]

LdapTypeOK ==
  /\ at \in [Threads -> Steps]
  /\ query \in [Threads -> Queries]
  /\ found \in [Threads -> Directories]
  /\ context \in Threads \cup {NoThread}
  /\ contexts \in [Threads -> Lives]
  /\ sessions \in [Threads -> Threads \cup {NoThread}]
  /\ directory \in Directories
  /\ failed \in [Threads -> BOOLEAN]
  /\ overlapped \in BOOLEAN
  /\ damaged \in BOOLEAN

LdapInit ==
  /\ at = [t \in Threads |-> "idle"]
  /\ query = [t \in Threads |-> NoQuery]
  /\ found = [t \in Threads |-> <<>>]
  /\ context = NoThread
  /\ contexts = [t \in Threads |-> "freed"]
  /\ sessions = [t \in Threads |-> NoThread]
  /\ directory \in {d \in Directories : Len(d) <= 1}
  /\ failed = [t \in Threads |-> FALSE]
  /\ overlapped = FALSE
  /\ damaged = FALSE

\* The process is gone with all its memory.
Forget ==
  /\ at' = [t \in Threads |-> "idle"]
  /\ query' = [t \in Threads |-> NoQuery]
  /\ found' = [t \in Threads |-> <<>>]
  /\ context' = NoThread
  /\ contexts' = [t \in Threads |-> "freed"]
  /\ sessions' = [t \in Threads |-> NoThread]
  /\ overlapped' = FALSE
  /\ failed' = [t \in Threads |-> FALSE]
  /\ damaged' = FALSE
  /\ UNCHANGED directory

-----------------------------------------------------------------------------
\* The session's context has a handle that is bound or can be.
Bound(t) == sessions[t] # NoThread /\ contexts[sessions[t]] = "open"

\* What the next step of a thread relies on: the memory it calls through, and
\* that it touches or frees.
Sound(t) ==
  CASE at[t] = "new"               -> contexts[t] = "freed"
    [] at[t] = "initialize"        -> contexts[context] = "new"
    [] at[t] = "session"           -> contexts[context] = "open"
    [] at[t] \in {"search", "end"} -> Bound(t) /\ contexts[context] # "freed"
    [] at[t] = "free"              -> contexts[context] = "closed"
    [] OTHER                       -> TRUE

\* A step that is not sound may go on as if nothing had been, or end the
\* process.
Step(t, from, to) ==
  /\ at[t] = from
  /\ at' = [at EXCEPT ![t] = to]
  /\ damaged' = (damaged \/ ~Sound(t))
  /\ UNCHANGED <<query, directory>>

MayDie(t) == at[t] # "new" /\ ~Sound(t)

\* A request enters the service.
Call(t, by, value) ==
  /\ at[t] = "idle"
  /\ at' = [at EXCEPT ![t] = "new"]
  /\ query' = [query EXCEPT ![t] = [by |-> by, value |-> value]]
  /\ UNCHANGED <<found, serviceVars, directory, failed, overlapped, damaged>>

\* It leaves with what it found.
Return(t) ==
  /\ at[t] = "idle"
  /\ found' = [found EXCEPT ![t] = <<>>]
  /\ failed' = [failed EXCEPT ![t] = FALSE]
  /\ query' = [query EXCEPT ![t] = NoQuery]
  /\ UNCHANGED <<at, serviceVars, directory, overlapped, damaged>>

\* Another thread is on its way through the service.
Overlaps(t) == \E u \in Threads \ {t} : at[u] \notin {"idle", "new"}

(* initializeContext. *)

\* Faulty variant: the context is made once and kept.
NewContextOnce(t) ==
  /\ Step(t, "new", "initialize")
  /\ IF context # NoThread THEN UNCHANGED <<context, contexts>>
     ELSE context' = t /\ contexts' = [contexts EXCEPT ![t] = "new"]
  /\ overlapped' = (overlapped \/ Overlaps(t))
  /\ UNCHANGED <<found, sessions, failed>>

NewContext(t) ==
  /\ Step(t, "new", "initialize")
  /\ context' = t
  /\ contexts' = [contexts EXCEPT ![t] = "new"]
  /\ overlapped' = (overlapped \/ Overlaps(t))
  /\ UNCHANGED <<found, sessions, failed>>

Opened(life) == IF life = "freed" THEN "freed" ELSE "open"

\* The handle is written to whatever context the service has by now.
Initialize(t) ==
  /\ Step(t, "initialize", "session")
  /\ contexts' = [contexts EXCEPT ![context] = Opened(@)]
  /\ UNCHANGED <<found, context, sessions, failed, overlapped>>

\* getSession: a new session of that context, bound.
GetSession(t) ==
  /\ Step(t, "session", "search")
  /\ sessions' = [sessions EXCEPT ![t] = context]
  /\ UNCHANGED <<found, context, contexts, failed, overlapped>>

-----------------------------------------------------------------------------
\* What the directory holds for a query.
Matching(q) ==
  IF q.by = "id" THEN WithId(directory, q.value)
                 ELSE WithGroup(directory, q.value)

\* searchEntry finds something, and the loop reads its records.  Its count is
\* the entries and the final message.
Search(t) ==
  /\ Matching(query[t]) # <<>>
  /\ Step(t, "search", "end")
  /\ found' = [found EXCEPT ![t] = Matching(query[t])]
  /\ UNCHANGED <<serviceVars, failed, overlapped>>

\* It finds nothing: NULL after closeSession and closeContext.
SearchFindsNothing(t) ==
  /\ Matching(query[t]) = <<>>
  /\ Step(t, "search", "end")
  /\ UNCHANGED <<found, serviceVars, failed, overlapped>>

\* The directory server does not answer: the same.
SearchFails(t) ==
  /\ Step(t, "search", "end")
  /\ failed' = [failed EXCEPT ![t] = TRUE]
  /\ UNCHANGED <<found, serviceVars, overlapped>>

Closed(life) == IF life = "open" THEN "closed" ELSE life

\* closeSession unbinds the handle of the session's context.
CloseSession(t) ==
  /\ Step(t, "end", "free")
  /\ contexts' = [contexts EXCEPT ![sessions[t]] = Closed(@)]
  /\ sessions' = [sessions EXCEPT ![t] = NoThread]
  /\ UNCHANGED <<found, context, failed, overlapped>>

\* closeContext frees whatever context the service has by now.
CloseContext(t) ==
  /\ Step(t, "free", "idle")
  /\ contexts' = [contexts EXCEPT ![context] = "freed"]
  /\ UNCHANGED <<found, context, sessions, failed, overlapped>>

LdapStep(t) ==
  \/ NewContext(t) \/ Initialize(t) \/ GetSession(t)
  \/ Search(t) \/ SearchFindsNothing(t) \/ SearchFails(t)
  \/ CloseSession(t) \/ CloseContext(t)

-----------------------------------------------------------------------------
\* The data access process stores a notice.
StoreNotice ==
  /\ \E n \in Ids \ Range(directory) : directory' = Append(directory, n)
  /\ UNCHANGED <<at, query, found, serviceVars, failed, overlapped, damaged>>

-----------------------------------------------------------------------------
(* Properties. *)

\* A request that has the service to itself relies on no memory that is gone and
\* leaves no context behind, whatever it asked and whatever it was told; only
\* threads that overlap free each other's context.
DamageNeedsOverlap ==
  ~overlapped =>
    /\ ~damaged
    /\ \A t \in Threads :
         at[t] \in {"idle", "new"} => contexts[t] = "freed"

=============================================================================
