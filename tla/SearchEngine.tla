---------------------------- MODULE SearchEngine ----------------------------
(***************************************************************************)
(* The whole program: main, the spider, the Indexer, the server and the    *)
(* database between them.                                                  *)
(*                                                                         *)
(* Crawl, Indexer and SearchServer each see the others as an environment:  *)
(* an exception somewhere else, a rival for the sessions of the database.  *)
(* Here their steps are joined.  The visit a worker makes under mt[3] is   *)
(* the Indexer's; its session counts against the limit of the server's;    *)
(* tables exist for all or for none; a search reads what the Indexer has   *)
(* written so far; and whatever ends one part ends them all, to be run     *)
(* again on the same tables.                                               *)
(***************************************************************************)
EXTENDS Crawl, FiniteSetsExt

CONSTANTS
  Words, Contents, NoPage, NoWord, MaxVisits, MaxCrashes,  \* see Indexer
  Conns, Requests, DbLimit,                                \* see SearchServer
  Queries,     \* what clients search for: sets of words
  DbMayFail,   \* may a statement of the Indexer throw?
  ConfigFails  \* may the configuration or the listening port be unusable?

VARIABLES
  main,  \* "reading", "starting", "serving", or "failed": EXIT_FAILURE
  schema, pages, words, page_words, page_seq, word_seq,
  pc, page, tmp_vocabulary, left, page_id, word, word_id,
  crashes, snapshot, interrupted,
  accepting, backlog, io, timer, socket, client, request, sessions, indexing,
  begun,
  query,      \* query[c]: the words of the request of c
  found,      \* found[c]: the pages its response lists, in their order
  open_then   \* history: the pages that were being visited when they were found

Index == INSTANCE Indexer WITH Urls <- Entry, NoUrl <- NoPage, url <- page
Server == INSTANCE SearchServer WITH Schemas <- BOOLEAN

ASSUME EngineAssumption ==
  /\ Contents \in [Entry -> SUBSET [Words -> Nat]]
  /\ NoPage \notin Entry
  /\ NoWord \notin Words
  /\ MaxVisits \in Nat
  /\ MaxCrashes \in Nat \ {0}
  /\ IsFiniteSet(Conns)
  /\ Requests \subseteq {"good", "garbled", "malformed"}
  /\ DbLimit \in Nat
  /\ Queries \subseteq SUBSET Words
  /\ \A q \in Queries : IsFiniteSet(q)
  /\ DbMayFail \in BOOLEAN /\ ConfigFails \in BOOLEAN

\* Every part's variables; process belongs to Crawl and to Server, and schema
\* to Index and to Server.
crawlVars == <<mainVars, url_list, host, lockVars, wpc, pageVars, batch_hosts>>
indexVars == <<schema, pages, words, page_words, page_seq, word_seq, pc, page,
               tmp_vocabulary, left, page_id, word, word_id, crashes, snapshot,
               interrupted>>
serverVars == <<accepting, backlog, io, timer, socket, client, request, sessions,
                indexing, begun>>
searchVars == <<query, found, open_then>>
engineVars == <<process, main, crawlVars, indexVars, serverVars, searchVars>>

EngineInit ==
  /\ Init
  /\ Index!Init
  /\ Server!Init
  /\ main = "reading"
  /\ query = [c \in Conns |-> {}]
  /\ found = [c \in Conns |-> <<>>]
  /\ open_then = [c \in Conns |-> {}]

-----------------------------------------------------------------------------
(***************************************************************************)
(* main.                                                                   *)
(***************************************************************************)

\* The thread of the spider exists.
Started == Running /\ main \in {"starting", "serving"}

\* LoadConfig, whose exception main reports; then thread1 is started.
ReadConfig ==
  /\ main = "reading"
  /\ main' \in {"starting"} \cup {f \in {"failed"} : ConfigFails}
  /\ UNCHANGED <<process, crawlVars, indexVars, serverVars, searchVars>>

\* The program ends in all its threads at once, wherever they are.
ProgramEnds ==
  /\ Server!Terminate
  /\ Index!Crash
  /\ UNCHANGED <<main, crawlVars, backlog, io, timer, socket, client, request,
                 sessions, indexing, begun, searchVars>>

\* The address, the port and the acceptor; the first async_accept; and the
\* browser is started.  thread1 runs already: an exception does not reach the
\* catch block, because the destructor of the joinable thread comes first.
Listen ==
  /\ Started
  /\ main = "starting"
  /\ \/ /\ main' = "serving"
        /\ UNCHANGED <<process, crawlVars, indexVars, serverVars, searchVars>>
     \/ /\ ConfigFails
        /\ ProgramEnds

\* Somebody runs the program again.
RunAgain ==
  /\ process = "terminated"
  /\ crashes < MaxCrashes
  /\ main' = "reading"
  /\ process' = "running"
  /\ mpc' = "level" /\ depth' = 0 /\ th' = 0 /\ url_list_size' = 0
  /\ url_list' = <<StartUrl>>
  /\ host' = NoHost
  /\ mt' = [k \in Sections |-> NoWorker]
  /\ state_th' = [k \in Sections |-> FALSE]
  /\ wpc' = [w \in Workers |-> "idle"]
  /\ url' = [w \in Workers |-> NoUrl]
  /\ parse_url' = [w \in Workers |-> NoUrl]
  /\ links' = [w \in Workers |-> <<>>]
  /\ link_host' = [w \in Workers |-> NoHost]
  /\ batch_hosts' = {}
  /\ Index!Restart
  /\ accepting' = TRUE
  /\ backlog' = {}
  /\ io' = [c \in Conns |-> "none"]
  /\ timer' = [c \in Conns |-> "none"]
  /\ socket' = [c \in Conns |-> "none"]
  /\ client' = [c \in Conns |-> "away"]
  /\ request' = [c \in Conns |-> "none"]
  /\ sessions' = {}
  /\ indexing' = FALSE
  /\ begun' = {}
  /\ UNCHANGED searchVars

-----------------------------------------------------------------------------
(***************************************************************************)
(* The spider and the Indexer.                                             *)
(***************************************************************************)

\* Everything but section 3.
WorkerAlone(w) ==
  \/ LockQueue(w) \/ PopUrl(w)
  \/ LockFetch(w) \/ AssignHost(w) \/ Respond(w)
  \/ LockIndex(w)
  \/ LockExtract(w) \/ CallExtract(w) \/ ExtractLink(w) \/ EndExtract(w)

SpiderAlone ==
  /\ Started
  /\ Spider \/ \E w \in Workers : WorkerAlone(w)
  /\ UNCHANGED <<main, indexVars, serverVars, searchVars>>

\* Section 3.  ConnectDB takes a session and makes the tables.
ConnectDB(w) ==
  /\ At(w, "indexing")
  /\ Server!SessionFree
  /\ Index!ConnectDB
  /\ Server!ConnectDB
  /\ UNCHANGED <<main, crawlVars, searchVars>>

\* One statement of IndexingPages.
Statement(w) ==
  /\ At(w, "indexing")
  /\ \/ \E v \in Contents[url[w]] : Index!InsertPage(url[w], v)
     \/ \E x \in Words : Index!InsertWord(x)
     \/ Index!InsertPageWord
  /\ UNCHANGED <<process, main, crawlVars, serverVars, searchVars>>

\* The visit is over, and so is section 3.
CloseDB(w) ==
  /\ Index!CloseDB
  /\ Server!CloseDB
  /\ IndexPage(w)
  /\ UNCHANGED <<main, searchVars>>

\* A worker throws; in section 3 the database refuses the session or fails.
WorkerThrows(w) ==
  /\ Started
  /\ Faulty(w)
  /\ wpc[w] = "indexing" => DbMayFail \/ (pc = "idle" /\ ~Server!SessionFree)
  /\ ProgramEnds

Visit(w) == ConnectDB(w) \/ Statement(w) \/ CloseDB(w) \/ WorkerThrows(w)

-----------------------------------------------------------------------------
(***************************************************************************)
(* The server and its searches.                                            *)
(***************************************************************************)

CountOf(u, x) ==
  MapThenSumSet(LAMBDA l : l.count,
                {l \in page_words : \E p \in pages, r \in words :
                   /\ p.url = u /\ l.page_id = p.id
                   /\ r.word = x /\ l.word_id = r.id})

\* SUM(page_words.count) over the rows of the words searched for.
Score(u, q) == MapThenSumSet(LAMBDA x : CountOf(u, x), q)

Matches(q) == {u \in {p.url : p \in pages} : Index!Visible(u) \cap q # {}}

\* The results of select_word, in an order its ORDER BY allows.
Ranked(q) ==
  {s \in [1 .. Cardinality(Matches(q)) -> Matches(q)] :
     \A i, j \in DOMAIN s :
       i < j => s[i] # s[j] /\ Score(s[i], q) >= Score(s[j], q)}

\* The page whose visit goes on.
BeingVisited == IF pc \in {"page", "word"} THEN {page} ELSE {}

\* Whatever a handler throws ends the Indexer's visit with it.
OrEnds == IF process' = "running" THEN UNCHANGED indexVars ELSE Index!Crash

ServerAlone(c) ==
  /\ main = "serving"
  /\ \/ Server!Connect(c) \/ Server!Leave(c)
     \/ Server!AcceptFails(c)
     \/ Server!Read(c) \/ Server!ReadFails(c) \/ Server!HandleReadFailed(c)
     \/ Server!Write(c) \/ Server!WriteFails(c) \/ Server!HandleWrite(c)
     \/ Server!Expire(c) \/ Server!HandleDeadline(c)
  /\ UNCHANGED <<main, crawlVars, indexVars, searchVars>>

Accept(c) ==
  /\ main = "serving"
  /\ Server!Accept(c)
  /\ OrEnds
  /\ UNCHANGED <<main, crawlVars, searchVars>>

Ask(c) ==
  /\ main = "serving"
  /\ \/ /\ "good" \in Requests
        /\ Server!Send(c, "good")
        /\ \E q \in Queries : query' = [query EXCEPT ![c] = q]
     \/ /\ \E r \in Requests \ {"good"} : Server!Send(c, r)
        /\ query' = [query EXCEPT ![c] = {}]
  /\ found' = [found EXCEPT ![c] = <<>>]
  /\ open_then' = [open_then EXCEPT ![c] = {}]
  /\ UNCHANGED <<main, crawlVars, indexVars>>

\* process_request and search_url_in_db: one statement, so one state of the
\* tables, while the Indexer may be anywhere in a visit.
Reply(c) ==
  /\ main = "serving"
  /\ Server!HandleRead(c)
  /\ OrEnds
  /\ IF process' = "running"
     THEN /\ \E s \in Ranked(query[c]) : found' = [found EXCEPT ![c] = s]
          /\ open_then' = [open_then EXCEPT ![c] = BeingVisited]
     ELSE UNCHANGED <<found, open_then>>
  /\ UNCHANGED <<main, crawlVars, query>>

-----------------------------------------------------------------------------
\* main has given up; or nobody runs the program again; or the crawl is done
\* and the server waits for clients.
Over ==
  /\ \/ main = "failed"
     \/ process = "terminated" /\ crashes = MaxCrashes
     \/ main = "serving" /\ mpc = "done" /\ Server!Wait
  /\ UNCHANGED engineVars

EngineNext ==
  \/ ReadConfig \/ Listen \/ RunAgain
  \/ SpiderAlone
  \/ \E w \in Workers : Visit(w)
  \/ \E c \in Conns : ServerAlone(c) \/ Accept(c) \/ Ask(c) \/ Reply(c)
  \/ Over

EngineSpec == EngineInit /\ [][EngineNext]_engineVars

\* The threads are scheduled, the peers and the database answer.  Nothing is
\* assumed of clients, or of whoever runs the program again.
EngineFairness ==
  /\ WF_engineVars(ReadConfig \/ Listen)
  /\ WF_engineVars(SpiderAlone /\ Spider)
  /\ \A w \in Workers :
       WF_engineVars((SpiderAlone /\ WorkerAlone(w)) \/ Visit(w))

FairEngineSpec == EngineSpec /\ EngineFairness

-----------------------------------------------------------------------------
(***************************************************************************)
(* Properties.                                                             *)
(***************************************************************************)

\* Every part keeps the types it has on its own, and a client is told of
\* nothing but entries of the crawl.
EngineTypeOK ==
  /\ TypeOK /\ Index!TypeOK /\ Server!TypeOK
  /\ main \in {"reading", "starting", "serving", "failed"}
  /\ query \in [Conns -> SUBSET Words]
  /\ DOMAIN found = Conns /\ \A c \in Conns : Range(found[c]) \subseteq Entry
  /\ open_then \in [Conns -> SUBSET Entry]

\* The Indexer is at work only for the worker that holds mt[3], on the entry
\* that worker took; so visits do not mix, though every worker has an Indexer
\* of its own and all of them write to the same tables.
VisitHasItsWorker ==
  /\ pc # "dead" => (indexing <=> pc # "idle")
  /\ pc \notin {"idle", "dead"} =>
       \E w \in Workers : /\ mt[3] = w /\ wpc[w] = "indexing"
                          /\ pc # "connected" => page = url[w]

\* What a worker has come past in section 3 can be found in full, unless some
\* end of the program, whoever caused it, cut an earlier visit of it short.
IndexedOrInterrupted ==
  \A w \in Workers :
    wpc[w] \in {"indexed", "calling", "extracting"} =>
      /\ Index!HasPage(url[w])
      /\ \/ Index!Visible(url[w]) = Index!WordsOf(snapshot[url[w]])
         \/ url[w] \in interrupted

\* What a search has found is never lost: it is found again by every later
\* search for the same words, of this run of the program and of later ones.
FoundStaysFound ==
  \A c \in Conns : Range(found[c]) \subseteq Matches(query[c])

\* Nor does the order change: only a page whose visit was going on when the
\* search was made can come before one that was then ahead of it.
RankKept ==
  \A c \in Conns : \A i, j \in DOMAIN found[c] :
    i < j /\ Score(found[c][j], query[c]) > Score(found[c][i], query[c])
      => found[c][j] \in open_then[c]

\* Where nothing fails by itself and only one worker runs, the program ends for
\* two reasons: its own sessions are as many as the database allows, though
\* they may be those of clients answered long ago; or a client came before the
\* first visit had made the tables.
EndsForWantOfSessions ==
  process = "terminated" =>
    \/ Server!SessionsOpen >= DbLimit
    \/ ~schema /\ backlog # {}

\* What that rests on: every redirect and every link of a page in S leads into
\* S, and every request for one is answered.
LinkOf(u, l) ==
  CASE l.kind = "fragment" -> [host |-> u.host, target |-> Extend[u.target, l.path]]
    [] l.kind = "root"     -> [host |-> u.host, target |-> l.path]
    [] l.kind = "absolute" -> l.url

Leads(u, ls, S) ==
  \A i \in 1 .. Len(ls) : IsPushed(ls[i]) => LinkOf(u, ls[i]) \in S

Closed(S) ==
  /\ StartUrl \in S /\ S \subseteq Url
  /\ \A u \in S : \A a \in Answers[u] :
       \/ a.kind = "empty"
       \/ a.kind = "redirect" /\ a.url \in S
       \/ a.kind = "page" /\ Leads(u, a.links, S)

NothingFails(S) ==
  Closed(S) /\ Cores = 1 /\ ~DbMayFail /\ ~ConfigFails /\ Requests \subseteq {"good"}

Fetched(u) ==
  \E w \in Workers : url[w] = u /\ wpc[w] \in {"fetched", "indexing"}

\* A page that was fetched is found, whatever clients do meanwhile, unless the
\* program ends.
FetchedIsFound ==
  \A u \in Entry :
    Fetched(u) ~> \/ process = "terminated"
                  \/ Index!HasPage(u)
                     /\ \/ Index!Visible(u) = Index!WordsOf(snapshot[u])
                        \/ u \in interrupted

-----------------------------------------------------------------------------
(***************************************************************************)
(* What the properties rest on: the conjuncts that make them inductive.    *)
(***************************************************************************)

\* A page that a worker has come past is in the table, and nobody visits it.
NotVisitedAgain ==
  /\ \A w \in Workers :
       wpc[w] \in {"indexed", "calling", "extracting"} =>
         /\ Index!HasPage(url[w])
         /\ pc \in {"page", "word"} => page # url[w]
  /\ pc \in {"page", "word", "known"} => Index!HasPage(page)

\* A page that was found, and is being visited, was being visited then.
FoundWhileOpen ==
  \A c \in Conns : /\ Range(found[c]) \cap BeingVisited \subseteq open_then[c]
                   /\ IsFiniteSet(query[c])

\* A worker that is alone takes nothing from url_list but pages of a closed set,
\* and asks for no others.
KeepsTo(S) ==
  /\ \A i \in 1 .. Len(url_list) : url_list[i] \in S
  /\ \A w \in Workers :
       /\ wpc[w] = "popped" => url[w] \in S
       /\ wpc[w] \in {"assigning"} \cup Requested => parse_url[w] \in S
       /\ wpc[w] \in Requested \ {"requesting"} => Leads(parse_url[w], links[w], S)

\* The inductive invariant: each part's own, in the company of the others, and
\* what holds them together.
EngineInv ==
  /\ CrawlInv /\ Index!IndexInv /\ Server!ServerInv
  /\ EngineTypeOK
  /\ VisitHasItsWorker
  /\ NotVisitedAgain
  /\ FoundStaysFound
=============================================================================
