---------------------------- MODULE SearchServer ----------------------------
(***************************************************************************)
(* http_server and the http_connection objects it makes.                   *)
(*                                                                         *)
(* All handlers run in main's thread, one at a time (io_context ioc{1}).   *)
(* An http_connection is kept alive by the handlers that still hold self:  *)
(* that of its read or write, and that of its deadline; when the last one  *)
(* has run the object is destroyed.  It has no destructor: the database    *)
(* session its constructor opened stays open until the program ends.       *)
(*                                                                         *)
(* A request is answered from the same database the Indexer writes to, and *)
(* the Indexer's sessions count against the same limit.                    *)
(***************************************************************************)
EXTENDS Naturals, FiniteSets

CONSTANTS
  Conns,     \* the connections clients may make
  Requests,  \* what a client may send
  DbLimit,   \* how many sessions the database allows (max_connections)
  Schemas    \* may the tables exist when the program starts?

\* "good" is answered, from the database or, as a GET, a blank query or any
\* other method, without it.  "garbled" is a query the database refuses, such
\* as text that is not UTF-8.  "malformed" is no HTTP request.
RequestKinds == {"good", "garbled", "malformed"}

ASSUME ServerAssumption ==
  /\ IsFiniteSet(Conns)
  /\ Requests \subseteq RequestKinds
  /\ DbLimit \in Nat
  /\ Schemas \subseteq BOOLEAN

VARIABLES
  process,   \* "running" or "terminated"
  accepting, \* is an async_accept outstanding?
  backlog,   \* connections the acceptor has not accepted yet
  io,        \* io[c]: the read or write of http_connection c; see Ops
  timer,     \* timer[c]: its deadline_; see Timers
  socket,    \* socket[c]: "none", "open", "shut" (for sending) or "closed" by
             \* its deadline; what it was last, once the object is destroyed
  client,    \* client[c]: what the client did last
  request,   \* request[c]: what it sent
  schema,    \* do the tables exist?
  sessions,  \* the connections whose database session is open
  indexing,  \* has the Indexer a session?
  begun      \* history: connections for which a response was made

dbVars == <<schema, sessions, indexing>>
clientVars == <<client, request>>
vars == <<process, accepting, backlog, io, timer, socket, clientVars, dbVars,
          begun>>

\* "reading" and "writing": the operation is under way.  The next four: it has
\* completed, with or without an error, and its handler waits for its turn.
\* "over": the handler has run.
Ops == {"none", "reading", "writing", "read", "readFailed", "written",
        "writeFailed", "over"}

\* "expired" and "cancelled": the handler waits for its turn, without or with
\* an error code.
Timers == {"none", "waiting", "expired", "cancelled", "over"}

Init ==
  /\ process = "running"
  /\ accepting = TRUE
  /\ backlog = {}
  /\ io = [c \in Conns |-> "none"]
  /\ timer = [c \in Conns |-> "none"]
  /\ socket = [c \in Conns |-> "none"]
  /\ client = [c \in Conns |-> "away"]
  /\ request = [c \in Conns |-> "none"]
  /\ schema \in Schemas
  /\ sessions = {}
  /\ indexing = FALSE
  /\ begun = {}

Running == process = "running"

\* Somebody holds http_connection c.
Alive(c) == io[c] \notin {"none", "over"} \/ timer[c] \notin {"none", "over"}

-----------------------------------------------------------------------------
(***************************************************************************)
(* Clients, and the operating system's part of the operations.             *)
(***************************************************************************)

Connect(c) ==
  /\ Running
  /\ client[c] = "away"
  /\ client' = [client EXCEPT ![c] = "connected"]
  /\ backlog' = backlog \cup {c}
  /\ UNCHANGED <<process, accepting, io, timer, socket, request, dbVars,
                 begun>>

Send(c, r) ==
  /\ Running
  /\ client[c] = "connected"
  /\ client' = [client EXCEPT ![c] = "sent"]
  /\ request' = [request EXCEPT ![c] = r]
  /\ UNCHANGED <<process, accepting, backlog, io, timer, socket, dbVars,
                 begun>>

Leave(c) ==
  /\ Running
  /\ client[c] \in {"connected", "sent"}
  /\ client' = [client EXCEPT ![c] = "gone"]
  /\ UNCHANGED <<process, accepting, backlog, io, timer, socket, request,
                 dbVars, begun>>

Completes(c, from, to) ==
  /\ Running
  /\ io[c] = from
  /\ io' = [io EXCEPT ![c] = to]
  /\ UNCHANGED <<process, accepting, backlog, timer, socket, clientVars,
                 dbVars, begun>>

Read(c) ==
  /\ socket[c] = "open"
  /\ request[c] \in RequestKinds \ {"malformed"}
  /\ Completes(c, "reading", "read")

ReadFails(c) ==
  /\ socket[c] = "closed" \/ client[c] = "gone" \/ request[c] = "malformed"
  /\ Completes(c, "reading", "readFailed")

Write(c) ==
  /\ socket[c] = "open"
  /\ Completes(c, "writing", "written")

WriteFails(c) ==
  /\ socket[c] = "closed" \/ client[c] = "gone"
  /\ Completes(c, "writing", "writeFailed")

Expire(c) ==
  /\ Running
  /\ timer[c] = "waiting"
  /\ timer' = [timer EXCEPT ![c] = "expired"]
  /\ UNCHANGED <<process, accepting, backlog, io, socket, clientVars, dbVars,
                 begun>>

-----------------------------------------------------------------------------
(***************************************************************************)
(* The handlers.                                                           *)
(***************************************************************************)

SessionsOpen == Cardinality(sessions) + (IF indexing THEN 1 ELSE 0)
\* Mutant: the last session is kept back.
SessionFreeButOne == SessionsOpen + 1 < DbLimit

SessionFree == SessionsOpen < DbLimit

\* Mutant: main catches it, and the program ends in good order.
TerminateCaught ==
  /\ process' = "exited"
  /\ accepting' = FALSE

\* An exception leaves a handler and ioc.run(); main's catch block is never
\* reached, because the joinable thread1 is destroyed on the way.
Terminate ==
  /\ process' = "terminated"
  /\ accepting' = FALSE

\* Mutant: start() without check_deadline().
StartWithoutDeadline(c) ==
  /\ io' = [io EXCEPT ![c] = "reading"]
  /\ UNCHANGED timer

\* http_connection::start
Start(c) ==
  /\ io' = [io EXCEPT ![c] = "reading"]
  /\ timer' = [timer EXCEPT ![c] = "waiting"]

\* The handler of async_accept.  The constructor throws when the database
\* refuses the session, or refuses to prepare select_word without its tables.
Accept(c) ==
  /\ Running
  /\ accepting
  /\ c \in backlog
  /\ \/ /\ SessionFree
        /\ schema
        /\ backlog' = backlog \ {c}
        /\ socket' = [socket EXCEPT ![c] = "open"]
        /\ sessions' = sessions \cup {c}
        /\ Start(c)
        /\ UNCHANGED <<process, accepting>>
     \/ /\ ~SessionFree \/ ~schema
        /\ Terminate
        /\ UNCHANGED <<backlog, socket, sessions, io, timer>>
  /\ UNCHANGED <<clientVars, schema, indexing, begun>>

\* Mutant: after an error no further async_accept is started.
AcceptFailsForGood(c) ==
  /\ Running
  /\ accepting
  /\ c \in backlog /\ client[c] = "gone"
  /\ backlog' = backlog \ {c}
  /\ accepting' = FALSE
  /\ UNCHANGED <<process, io, timer, socket, clientVars, dbVars, begun>>

\* It is called with an error, and accepts on.
AcceptFails(c) ==
  /\ Running
  /\ accepting
  /\ c \in backlog /\ client[c] = "gone"
  /\ backlog' = backlog \ {c}
  /\ UNCHANGED <<process, accepting, io, timer, socket, clientVars, dbVars,
                 begun>>

\* process_request: a search is executed before anything else happens.
HandleRead(c) ==
  /\ Running
  /\ io[c] = "read"
  /\ \/ /\ request[c] # "garbled"
        /\ io' = [io EXCEPT ![c] = "writing"]
        /\ begun' = begun \cup {c}
        /\ UNCHANGED <<process, accepting>>
     \/ /\ request[c] = "garbled"
        /\ Terminate
        /\ UNCHANGED <<io, begun>>
  /\ UNCHANGED <<backlog, timer, socket, clientVars, dbVars>>

\* Mutant: a failed read cancels the deadline.
HandleReadFailedCancels(c) ==
  /\ Running
  /\ io[c] = "readFailed"
  /\ io' = [io EXCEPT ![c] = "over"]
  /\ timer' = [timer EXCEPT ![c] = IF @ = "waiting" THEN "cancelled" ELSE @]
  /\ UNCHANGED <<process, accepting, backlog, socket, clientVars, dbVars,
                 begun>>

\* The handler of async_read does nothing with an error.
HandleReadFailed(c) ==
  /\ Running
  /\ io[c] = "readFailed"
  /\ io' = [io EXCEPT ![c] = "over"]
  /\ UNCHANGED <<process, accepting, backlog, timer, socket, clientVars,
                 dbVars, begun>>

\* shutdown and cancel, whatever the error code: a deadline that has expired
\* can no longer be cancelled.
HandleWrite(c) ==
  /\ Running
  /\ io[c] \in {"written", "writeFailed"}
  /\ io' = [io EXCEPT ![c] = "over"]
  /\ socket' = [socket EXCEPT ![c] = IF @ = "open" THEN "shut" ELSE @]
  /\ timer' = [timer EXCEPT ![c] = IF @ = "waiting" THEN "cancelled" ELSE @]
  /\ UNCHANGED <<process, accepting, backlog, clientVars, dbVars, begun>>

\* The handler of the deadline's async_wait.
HandleDeadline(c) ==
  /\ Running
  /\ timer[c] \in {"expired", "cancelled"}
  /\ timer' = [timer EXCEPT ![c] = "over"]
  /\ socket' = [socket EXCEPT ![c] = IF timer[c] = "expired" THEN "closed" ELSE @]
  /\ UNCHANGED <<process, accepting, backlog, io, clientVars, dbVars, begun>>

-----------------------------------------------------------------------------
(***************************************************************************)
(* The Indexer, in a thread of the spider: ConnectDB creates the tables,   *)
(* IndexingPages closes the session.                                       *)
(***************************************************************************)

ConnectDB ==
  /\ Running
  /\ ~indexing
  /\ \/ /\ SessionFree
        /\ indexing' = TRUE
        /\ schema' = TRUE
        /\ UNCHANGED <<process, accepting>>
     \/ /\ ~SessionFree
        /\ Terminate
        /\ UNCHANGED <<indexing, schema>>
  /\ UNCHANGED <<backlog, io, timer, socket, clientVars, sessions, begun>>

CloseDB ==
  /\ Running
  /\ indexing
  /\ indexing' = FALSE
  /\ UNCHANGED <<process, accepting, backlog, io, timer, socket, clientVars,
                 schema, sessions, begun>>

-----------------------------------------------------------------------------
\* What the operating system and the event loop do for connection c.
Server(c) ==
  \/ Accept(c) \/ AcceptFails(c)
  \/ Read(c) \/ ReadFails(c) \/ HandleRead(c) \/ HandleReadFailed(c)
  \/ Write(c) \/ WriteFails(c) \/ HandleWrite(c)
  \/ Expire(c) \/ HandleDeadline(c)

Client(c) == Connect(c) \/ Leave(c) \/ \E r \in Requests : Send(c, r)

\* Nothing is left to do: the program is gone, or waits for clients.
Wait ==
  /\ \/ ~Running
     \/ backlog = {} /\ \A c \in Conns : client[c] # "away" /\ ~Alive(c)
  /\ UNCHANGED vars

Next ==
  \/ \E c \in Conns : Server(c) \/ Client(c)
  \/ ConnectDB \/ CloseDB
  \/ Wait

Spec == Init /\ [][Next]_vars

\* The event loop serves every connection; time passes; a client may stay for
\* ever and send nothing.
Fairness ==
  \A c \in Conns :
    /\ WF_vars(Accept(c) \/ AcceptFails(c))
    /\ WF_vars(Read(c) \/ ReadFails(c) \/ HandleRead(c) \/ HandleReadFailed(c)
                 \/ Write(c) \/ WriteFails(c) \/ HandleWrite(c))
    /\ WF_vars(Expire(c) \/ HandleDeadline(c))

FairSpec == Spec /\ Fairness

-----------------------------------------------------------------------------
(***************************************************************************)
(* Properties.                                                             *)
(***************************************************************************)

\* Every variable keeps its type.
TypeOK ==
  /\ process \in {"running", "terminated"}
  /\ accepting \in BOOLEAN
  /\ backlog \subseteq Conns
  /\ io \in [Conns -> Ops]
  /\ timer \in [Conns -> Timers]
  /\ socket \in [Conns -> {"none", "open", "shut", "closed"}]
  /\ client \in [Conns -> {"away", "connected", "sent", "gone"}]
  /\ request \in [Conns -> Requests \cup {"none"}]
  /\ schema \in BOOLEAN
  /\ sessions \subseteq Conns
  /\ indexing \in BOOLEAN
  /\ begun \subseteq Conns

\* No connection waits for its client without a deadline, in whatever order
\* the handlers of its operation and of its timer run.
NeverWithoutDeadline ==
  \A c \in Conns :
    io[c] \in {"reading", "writing"} /\ socket[c] # "closed"
      => timer[c] \in {"waiting", "expired"}

\* A connection whose request could not be read is kept until its deadline,
\* with its socket and its session, although nothing will happen to it.
HeldUntilDeadline ==
  [][\A c \in Conns :
       Alive(c) /\ ~Alive(c)' => c \in begun \/ socket'[c] = "closed"]_vars

\* Every connection is accepted, as the comment at http_server says: `"Loop"
\* forever accepting new connections.'
AcceptsForever == \A c \in Conns : c \in backlog ~> c \notin backlog

\* What the code does instead: a connection waits for ever for nothing but the
\* end of the program, and that has three causes: no session is left in the
\* database, the tables are not there yet, or a query was refused.
AcceptedOrEnded ==
  \A c \in Conns :
    c \in backlog ~>
      \/ c \notin backlog
      \/ /\ ~Running
         /\ \/ SessionsOpen >= DbLimit
            \/ ~schema
            \/ \E d \in Conns : request[d] = "garbled"

\* Every http_connection is destroyed, or the program ends.
ConnectionsEnd == \A c \in Conns : Alive(c) ~> ~Alive(c) \/ ~Running

-----------------------------------------------------------------------------
(***************************************************************************)
(* What the properties rest on: the conjuncts that make them inductive.    *)
(***************************************************************************)

\* A deadline is over, or was cancelled, only when its socket is closed or its
\* connection has no operation left.
DeadlineKept ==
  \A c \in Conns :
    /\ io[c] \notin {"none", "over"} =>
         socket[c] = "closed" \/ timer[c] \in {"waiting", "expired"}
    /\ timer[c] = "cancelled" => io[c] = "over" /\ c \in begun

\* A response is written only where one was made.
WritesBegun ==
  \A c \in Conns :
    io[c] \in {"writing", "written", "writeFailed"} => c \in begun

\* A connection has its session from its constructor on.
SessionKept ==
  /\ \A c \in Conns : io[c] # "none" => c \in sessions
  /\ SessionsOpen <= DbLimit

\* The inductive invariant.
ServerInv == TypeOK /\ DeadlineKept /\ WritesBegun /\ SessionKept
=============================================================================
