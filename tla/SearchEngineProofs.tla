------------------------- MODULE SearchEngineProofs -------------------------
(***************************************************************************)
(* Proofs about SearchEngine.  What is proved of each part on its own is   *)
(* carried over to the whole: the step lemmas of CrawlProofs,              *)
(* IndexerProofs and ServerProofs are cited, the last two through the      *)
(* instances of the modules that hold them.                                *)
(***************************************************************************)
EXTENDS SearchEngine, CrawlProofs, WellFoundedInduction

IP == INSTANCE IndexerProofs WITH Urls <- Entry, NoUrl <- NoPage, url <- page
SP == INSTANCE ServerProofs WITH Schemas <- BOOLEAN

LEMMA IndexerAssumed == IP!IndexerAssumption
BY EngineAssumption DEF IP!IndexerAssumption, IP!Vocabulary

LEMMA ServerAssumed == SP!ServerAssumption
BY EngineAssumption, Zenon
   DEF SP!ServerAssumption, SP!RequestKinds, SP!IsFiniteSet, IsFiniteSet

\* The two instances of each part say the same.
LEMMA SamePages ==
  /\ \A u : IP!Visible(u) = Index!Visible(u) /\ (IP!HasPage(u) <=> Index!HasPage(u))
  /\ \A v : IP!WordsOf(v) = Index!WordsOf(v)
BY DEF IP!Visible, IP!RowsOf, IP!LinksOf, IP!HasPage, IP!WordsOf,
       Index!Visible, Index!RowsOf, Index!LinksOf, Index!HasPage, Index!WordsOf

LEMMA SameIndex == IP!IndexInv <=> Index!IndexInv
BY SamePages
   DEF IP!IndexInv, IP!TypeOK, IP!IdsDrawn, IP!KeysHold, IP!VisitKnown,
       IP!WordKnown, IP!InterruptedHasPage, IP!WordRowsPrivate, IP!OneSnapshot,
       IP!Vocabulary, IP!RowsOf, IP!LinksOf,
       Index!IndexInv, Index!TypeOK, Index!IdsDrawn, Index!KeysHold,
       Index!VisitKnown, Index!WordKnown, Index!InterruptedHasPage,
       Index!WordRowsPrivate, Index!OneSnapshot, Index!Vocabulary,
       Index!RowsOf, Index!LinksOf

LEMMA SameServer == SP!ServerInv <=> Server!ServerInv
<1>1. SP!TypeOK <=> Server!TypeOK
  BY DEF SP!TypeOK, Server!TypeOK, SP!Ops, Server!Ops, SP!Timers, Server!Timers
<1>2. SP!DeadlineKept <=> Server!DeadlineKept
  BY DEF SP!DeadlineKept, Server!DeadlineKept
<1>3. SP!WritesBegun <=> Server!WritesBegun
  BY DEF SP!WritesBegun, Server!WritesBegun
<1>4. SP!SessionKept <=> Server!SessionKept
  BY DEF SP!SessionKept, Server!SessionKept, SP!SessionsOpen,
         Server!SessionsOpen, SP!Cardinality, Server!Cardinality
<1> QED
  BY <1>1, <1>2, <1>3, <1>4 DEF SP!ServerInv, Server!ServerInv

-----------------------------------------------------------------------------
(***************************************************************************)
(* Every step of the engine is, for each part, a step of that part, or     *)
(* nothing, or its end with the program.                                   *)
(***************************************************************************)

LEMMA IndexerStep ==
  ASSUME TypeOK, [EngineNext]_engineVars
  PROVE  [IP!Next]_(IP!vars)
<1> USE DEF IP!vars, IP!tables, IP!session, IP!history, indexVars
<1>c. Index!Crash => IP!Next
  BY DEF Index!Crash, IP!Crash, IP!Next, Index!tables, Index!session
<1>1. CASE ReadConfig \/ SpiderAlone \/ Over \/ UNCHANGED engineVars
  BY <1>1 DEF ReadConfig, SpiderAlone, Over, engineVars
<1>2. CASE Listen
  BY <1>2, <1>c DEF Listen, ProgramEnds
<1>3. CASE RunAgain
  BY <1>3 DEF RunAgain, Index!Restart, IP!Restart, IP!Next, Index!tables,
              Index!history, Index!NoVocabulary, IP!NoVocabulary
<1>4. ASSUME NEW w \in Workers, ConnectDB(w) PROVE IP!Next
  BY <1>4 DEF ConnectDB, Index!ConnectDB, IP!ConnectDB, IP!Next,
              Index!session, Index!history
<1>5. ASSUME NEW w \in Workers, Statement(w) PROVE IP!Next
  <2>1. ASSUME NEW v \in Contents[url[w]], Index!InsertPage(url[w], v)
        PROVE  IP!Next
    <3>1. PICK u \in Entry : u = url[w]
      BY DEF TypeOK
    <3>2. v \in Contents[u] /\ IP!InsertPage(u, v)
      BY <2>1, <3>1 DEF Index!InsertPage, IP!InsertPage, Index!HasPage, IP!HasPage,
                  Index!WordsOf, IP!WordsOf
    <3> QED
      BY <3>2 DEF IP!Next
  <2>2. ASSUME NEW x \in Words, Index!InsertWord(x) PROVE IP!Next
    BY <2>2 DEF Index!InsertWord, IP!InsertWord, IP!Next, Index!history
  <2>3. CASE Index!InsertPageWord
    BY <2>3 DEF Index!InsertPageWord, IP!InsertPageWord, IP!Next, Index!history
  <2> QED
    BY <1>5, <2>1, <2>2, <2>3 DEF Statement
<1>6. ASSUME NEW w \in Workers, CloseDB(w) PROVE IP!Next
  BY <1>6 DEF CloseDB, Index!CloseDB, IP!CloseDB, IP!Next, Index!tables,
              Index!session, Index!history
<1>7. ASSUME NEW w \in Workers, WorkerThrows(w) PROVE IP!Next
  BY <1>7, <1>c DEF WorkerThrows, ProgramEnds
<1>8. ASSUME NEW c \in Conns, ServerAlone(c) \/ Ask(c) PROVE UNCHANGED IP!vars
  BY <1>8 DEF ServerAlone, Ask
<1>9. ASSUME NEW c \in Conns, Accept(c) \/ Reply(c) PROVE [IP!Next]_(IP!vars)
  BY <1>9, <1>c DEF Accept, Reply, OrEnds
<1> QED
  BY <1>1, <1>2, <1>3, <1>4, <1>5, <1>6, <1>7, <1>8, <1>9 DEF EngineNext, Visit

\* The program ends in the middle of whatever the workers do.
LEMMA CrawlCutOff ==
  ASSUME CrawlInv, process' = "terminated", UNCHANGED crawlVars
  PROVE  CrawlInv'
<1> USE DEF crawlVars, mainVars, lockVars, pageVars
<1>1. TypeOK' /\ Barrier' /\ LockDiscipline'
  BY DEF CrawlInv, TypeOK, Barrier, LockDiscipline, Batch, NumThreads
<1>2. FrontExists'
  BY DEF CrawlInv, FrontExists, Remaining, Popping, Unclaimed, NumThreads
<1>3. RequestKnown' /\ HostOfThisBatch' /\ LoneHost' /\ LoneWorkerKeepsHost'
  BY DEF CrawlInv, RequestKnown, HostOfThisBatch, LoneHost, LoneWorkerKeepsHost,
         HostsInAssignment, Assigning, Batch, NumThreads
<1> QED
  BY <1>1, <1>2, <1>3 DEF CrawlInv

LEMMA SpiderRuns ==
  ASSUME SpiderAlone
  PROVE  UNCHANGED process
BY DEF SpiderAlone, Spider, BeginLevel, StartBatch, JoinBatch, EndLevel,
       WorkerAlone, Lock, LockQueue, PopUrl, LockFetch, AssignHost, Respond,
       LockIndex, LockExtract, CallExtract, ExtractLink, EndExtract

\* A handler returns, or what it throws ends the program.
LEMMA HandlerEnds ==
  ASSUME NEW c \in Conns, Accept(c) \/ Reply(c)
  PROVE  /\ UNCHANGED crawlVars
         /\ process = "running" /\ process' \in {"running", "terminated"}
BY DEF Accept, Reply, Server!Accept, Server!HandleRead, Server!Terminate,
       Server!Running

LEMMA CrawlInitNext == Init' => CrawlInv'
BY InitInv, PTL

LEMMA CrawlStep ==
  ASSUME CrawlInv, [EngineNext]_engineVars
  PROVE  CrawlInv'
<1> USE DEF crawlVars
<1>s. UNCHANGED <<process, crawlVars>> => CrawlInv'
  BY CrawlInvStep DEF vars
<1>e. ProgramEnds => CrawlInv'
  BY CrawlCutOff DEF ProgramEnds, Server!Terminate
<1>1. CASE SpiderAlone
  BY <1>1, CrawlInvStep DEF SpiderAlone, WorkerAlone, Next, Worker
<1>2. CASE Listen
  BY <1>2, <1>s, <1>e DEF Listen
<1>3. CASE RunAgain
  BY <1>3, CrawlInitNext DEF RunAgain, Init
<1>4. ASSUME NEW w \in Workers, ConnectDB(w) PROVE CrawlInv'
  BY <1>4, <1>s DEF ConnectDB, Server!ConnectDB
<1>5. ASSUME NEW w \in Workers, Statement(w) PROVE CrawlInv'
  BY <1>5, <1>s DEF Statement
<1>6. ASSUME NEW w \in Workers, CloseDB(w) PROVE CrawlInv'
  BY <1>6, CrawlInvStep DEF CloseDB, Next, Worker
<1>7. ASSUME NEW w \in Workers, WorkerThrows(w) PROVE CrawlInv'
  BY <1>7, <1>e DEF WorkerThrows
<1>8. ASSUME NEW c \in Conns, ServerAlone(c) PROVE CrawlInv'
  BY <1>8, <1>s
     DEF ServerAlone, Server!Connect, Server!Leave, Server!AcceptFails,
         Server!Read, Server!ReadFails, Server!HandleReadFailed, Server!Write,
         Server!WriteFails, Server!HandleWrite, Server!Expire,
         Server!HandleDeadline, Server!Completes
<1>9. ASSUME NEW c \in Conns, Ask(c) PROVE CrawlInv'
  BY <1>9, <1>s DEF Ask, Server!Send
<1>10. ASSUME NEW c \in Conns, Accept(c) \/ Reply(c) PROVE CrawlInv'
  BY <1>10, <1>s, HandlerEnds, CrawlCutOff
<1>11. CASE ReadConfig \/ Over \/ UNCHANGED engineVars
  BY <1>11, <1>s DEF ReadConfig, Over, engineVars
<1> QED
  BY <1>1, <1>2, <1>3, <1>4, <1>5, <1>6, <1>7, <1>8, <1>9, <1>10, <1>11
     DEF EngineNext, Visit

-----------------------------------------------------------------------------
LEMMA ServerCutOff ==
  ASSUME SP!ServerInv, ProgramEnds
  PROVE  SP!ServerInv'
<1>1. /\ process' = "terminated" /\ accepting' = FALSE
      /\ UNCHANGED <<backlog, io, timer, socket, client, request, sessions,
                     indexing, begun, schema>>
  BY DEF ProgramEnds, Server!Terminate, Index!Crash, Index!tables
<1>2. SP!TypeOK' /\ SP!DeadlineKept' /\ SP!WritesBegun' /\ SP!SessionKept'
  BY <1>1 DEF SP!ServerInv, SP!TypeOK, SP!DeadlineKept, SP!WritesBegun,
              SP!SessionKept, SP!SessionsOpen
<1> QED
  BY <1>2 DEF SP!ServerInv

LEMMA ServerInitNext == SP!Init' => SP!ServerInv'
<1>1. SP!Init => SP!ServerInv
  BY SP!ServerInit, ServerAssumed
<1> QED
  BY <1>1, PTL

LEMMA ServerStep ==
  ASSUME SP!ServerInv, [EngineNext]_engineVars
  PROVE  SP!ServerInv'
<1> USE DEF serverVars
<1>s. [SP!Next]_(SP!vars) => SP!ServerInv'
  BY SP!ServerInvStep, ServerAssumed
<1>u. UNCHANGED <<process, serverVars, schema>> => SP!ServerInv'
  BY <1>s DEF SP!vars, SP!clientVars, SP!dbVars
<1>e. ProgramEnds => SP!ServerInv'
  BY ServerCutOff
<1>1. CASE ReadConfig \/ SpiderAlone \/ Over \/ UNCHANGED engineVars
  BY <1>1, <1>u, SpiderRuns
     DEF ReadConfig, SpiderAlone, Over, engineVars, indexVars
<1>2. CASE Listen
  BY <1>2, <1>u, <1>e DEF Listen, indexVars
<1>3. CASE RunAgain
  <2>1. UNCHANGED schema /\ schema \in BOOLEAN
    BY <1>3 DEF RunAgain, Index!Restart, Index!tables, SP!ServerInv, SP!TypeOK
  <2>2. schema' \in BOOLEAN
    BY <2>1, Zenon
  <2>3. SP!Init'
    BY <1>3, <2>2 DEF RunAgain, SP!Init
  <2> QED
    BY <2>3, ServerInitNext
<1>4. ASSUME NEW w \in Workers, ConnectDB(w) PROVE SP!ServerInv'
  <2>1. SP!ConnectDB
    BY <1>4 DEF ConnectDB, Server!ConnectDB, SP!ConnectDB, Server!SessionFree,
                SP!SessionFree, Server!SessionsOpen, SP!SessionsOpen,
                SP!Cardinality, Server!Cardinality, Server!Running, SP!Running,
                Server!clientVars, SP!clientVars
  <2> QED
    BY <2>1, <1>s DEF SP!Next
<1>5. ASSUME NEW w \in Workers, Statement(w) PROVE SP!ServerInv'
  <2>1. UNCHANGED schema
    BY <1>5 DEF Statement, Index!InsertPage, Index!InsertWord,
                Index!InsertPageWord
  <2> QED
    BY <1>5, <2>1, <1>u DEF Statement
<1>6. ASSUME NEW w \in Workers, CloseDB(w) PROVE SP!ServerInv'
  BY <1>6, <1>s DEF CloseDB, Server!CloseDB, SP!CloseDB, Server!Running,
                    SP!Running, Server!clientVars, SP!clientVars, SP!Next
<1>7. ASSUME NEW w \in Workers, WorkerThrows(w) PROVE SP!ServerInv'
  BY <1>7, <1>e DEF WorkerThrows
<1>8. ASSUME NEW c \in Conns, ServerAlone(c) PROVE SP!ServerInv'
  <2>1. SP!Server(c) \/ SP!Client(c)
    BY <1>8
       DEF ServerAlone, SP!Server, SP!Client,
           Server!Connect, Server!Leave, Server!AcceptFails, Server!Read,
           Server!ReadFails, Server!HandleReadFailed, Server!Write,
           Server!WriteFails, Server!HandleWrite, Server!Expire,
           Server!HandleDeadline, Server!Completes, Server!Running,
           Server!dbVars, Server!clientVars, Server!RequestKinds,
           SP!Connect, SP!Leave, SP!AcceptFails, SP!Read, SP!ReadFails,
           SP!HandleReadFailed, SP!Write, SP!WriteFails, SP!HandleWrite,
           SP!Expire, SP!HandleDeadline, SP!Completes, SP!Running,
           SP!dbVars, SP!clientVars, SP!RequestKinds
  <2> QED
    BY <2>1, <1>s DEF SP!Next
<1>9. ASSUME NEW c \in Conns, Ask(c) PROVE SP!ServerInv'
  <2>1. \E r \in Requests : SP!Send(c, r)
    BY <1>9 DEF Ask, Server!Send, SP!Send, Server!Running, SP!Running,
                Server!dbVars, SP!dbVars
  <2> QED
    BY <2>1, <1>s DEF SP!Next, SP!Client
<1>10. ASSUME NEW c \in Conns, Accept(c) \/ Reply(c) PROVE SP!ServerInv'
  <2>1. SP!Accept(c) \/ SP!HandleRead(c)
    BY <1>10 DEF Accept, Reply, Server!Accept, SP!Accept, Server!HandleRead,
                 SP!HandleRead, Server!Start, SP!Start, Server!Terminate,
                 SP!Terminate, Server!SessionFree, SP!SessionFree,
                 Server!SessionsOpen, SP!SessionsOpen, SP!Cardinality,
                 Server!Cardinality, Server!Running, SP!Running,
                 Server!clientVars, SP!clientVars, Server!dbVars, SP!dbVars
  <2> QED
    BY <2>1, <1>s DEF SP!Next, SP!Server
<1> QED
  BY <1>1, <1>2, <1>3, <1>4, <1>5, <1>6, <1>7, <1>8, <1>9, <1>10
     DEF EngineNext, Visit

-----------------------------------------------------------------------------
(***************************************************************************)
(* Visits and their workers.                                               *)
(***************************************************************************)

PastVisit == {"indexed", "calling", "extracting"}

\* The spider and the workers outside section 3 leave the worker in it alone,
\* and nobody comes past section 3 but through it.
LEMMA SpiderAndVisits ==
  ASSUME CrawlInv, SpiderAlone, NEW w \in Workers
  PROVE  /\ wpc[w] = "indexing" => wpc'[w] = "indexing" /\ url'[w] = url[w]
         /\ wpc'[w] \in PastVisit => wpc[w] \in PastVisit /\ url'[w] = url[w]
<1> USE DEF PastVisit
<1>t. TypeOK
  BY DEF CrawlInv
<1>1. CASE Spider
  <2>1. CASE BeginLevel \/ JoinBatch \/ EndLevel
    BY <2>1 DEF BeginLevel, JoinBatch, EndLevel, pageVars
  <2>2. CASE StartBatch
    BY <2>2 DEF StartBatch, CrawlInv, Barrier, TypeOK
  <2> QED
    BY <1>1, <2>1, <2>2 DEF Spider
<1>2. ASSUME NEW v \in Workers, WorkerAlone(v)
      PROVE  /\ wpc[w] = "indexing" => wpc'[w] = "indexing" /\ url'[w] = url[w]
             /\ wpc'[w] \in PastVisit => wpc[w] \in PastVisit /\ url'[w] = url[w]
  <2> USE <1>t DEF TypeOK, At, Goto, pageVars
  <2>1. CASE LockQueue(v) \/ LockIndex(v) \/ LockExtract(v)
    BY <2>1 DEF LockQueue, LockIndex, LockExtract, Lock
  <2>2. CASE PopUrl(v)
    BY <2>2 DEF PopUrl
  <2>3. CASE LockFetch(v) \/ AssignHost(v)
    BY <2>3 DEF LockFetch, AssignHost
  <2>4. CASE Respond(v)
    BY <2>4 DEF Respond, Follow, Leave
  <2>5. CASE CallExtract(v) \/ ExtractLink(v) \/ EndExtract(v)
    BY <2>5 DEF CallExtract, ExtractLink, EndExtract
  <2> QED
    BY <1>2, <2>1, <2>2, <2>3, <2>4, <2>5 DEF WorkerAlone
<1> QED
  BY <1>1, <1>2 DEF SpiderAlone

\* Who holds mt[3] is in section 3.
LEMMA OwnerOfSection3 ==
  ASSUME CrawlInv, NEW w \in Workers
  PROVE  mt[3] = w <=> wpc[w] = "indexing"
BY SectionPoints DEF CrawlInv, LockDiscipline, Sections

LEMMA OwnerOfSection3Next ==
  (CrawlInv => \A w \in Workers : mt[3] = w <=> wpc[w] = "indexing")'
<1>1. CrawlInv => \A w \in Workers : mt[3] = w <=> wpc[w] = "indexing"
  BY OwnerOfSection3
<1> QED
  BY <1>1, PTL

\* What VisitHasItsWorker says once the owner of mt[3] is known by its place.
VisitAt(w) == wpc[w] = "indexing" /\ (pc # "connected" => page = url[w])

LEMMA VisitStep ==
  ASSUME CrawlInv, VisitHasItsWorker, [EngineNext]_engineVars
  PROVE  VisitHasItsWorker'
<1> USE DEF VisitAt
<1>1. CrawlInv'
  BY CrawlStep
<1>2. \A w \in Workers : mt'[3] = w <=> wpc'[w] = "indexing"
  BY <1>1, OwnerOfSection3Next
<1>3. /\ pc' # "dead" => (indexing' <=> pc' # "idle")
      /\ pc' \notin {"idle", "dead"} => \E w \in Workers : VisitAt(w)'
      => VisitHasItsWorker'
  BY <1>2 DEF VisitHasItsWorker
<1>4. /\ pc # "dead" => (indexing <=> pc # "idle")
      /\ pc \notin {"idle", "dead"} => \E w \in Workers : VisitAt(w)
  BY DEF VisitHasItsWorker
<1>s. UNCHANGED <<wpc, url, pc, page, indexing>> => VisitHasItsWorker'
  BY <1>3, <1>4
<1>e. ProgramEnds => VisitHasItsWorker'
  BY <1>3 DEF ProgramEnds, Index!Crash
<1> USE DEF crawlVars, pageVars, serverVars, indexVars
<1>5. CASE ReadConfig \/ Over \/ UNCHANGED engineVars
  BY <1>5, <1>s DEF ReadConfig, Over, engineVars
<1>6. CASE Listen
  BY <1>6, <1>s, <1>e DEF Listen
<1>7. CASE RunAgain
  BY <1>7, <1>3 DEF RunAgain, Index!Restart
<1>8. CASE SpiderAlone
  BY <1>8, <1>3, <1>4, SpiderAndVisits DEF SpiderAlone
<1>9. ASSUME NEW w \in Workers, ConnectDB(w) PROVE VisitHasItsWorker'
  BY <1>9, <1>3
     DEF ConnectDB, Index!ConnectDB, Server!ConnectDB, At, Running
<1>10. ASSUME NEW w \in Workers, Statement(w) PROVE VisitHasItsWorker'
  <2>1. wpc[w] = "indexing" /\ UNCHANGED <<wpc, url, indexing>>
    BY <1>10 DEF Statement, At
  <2>2. \/ pc' \in {"page", "known"} /\ page' = url[w]
        \/ UNCHANGED page /\ pc \in {"page", "word"} /\ pc' \in {"page", "word"}
    BY <1>10 DEF Statement, Index!InsertPage, Index!InsertWord,
                 Index!InsertPageWord
  <2>3. pc \notin {"idle", "dead"}
    BY <1>10 DEF Statement, Index!InsertPage, Index!InsertWord,
                 Index!InsertPageWord
  <2> QED
    BY <1>3, <1>4, <2>1, <2>2, <2>3
<1>11. ASSUME NEW w \in Workers, CloseDB(w) PROVE VisitHasItsWorker'
  BY <1>11, <1>3 DEF CloseDB, Index!CloseDB, Server!CloseDB
<1>12. ASSUME NEW w \in Workers, WorkerThrows(w) PROVE VisitHasItsWorker'
  BY <1>12, <1>e DEF WorkerThrows
<1>13. ASSUME NEW c \in Conns, ServerAlone(c) \/ Ask(c)
       PROVE  VisitHasItsWorker'
  <2>1. UNCHANGED <<wpc, url, pc, page>>
    BY <1>13 DEF ServerAlone, Ask
  <2>2. UNCHANGED indexing
    BY <1>13
       DEF ServerAlone, Ask, Server!Connect, Server!Leave, Server!Send,
           Server!AcceptFails, Server!Read, Server!ReadFails,
           Server!HandleReadFailed, Server!Write, Server!WriteFails,
           Server!HandleWrite, Server!Expire, Server!HandleDeadline,
           Server!Completes, Server!dbVars
  <2> QED
    BY <2>1, <2>2, <1>s
<1>14. ASSUME NEW c \in Conns, Accept(c) \/ Reply(c)
       PROVE  VisitHasItsWorker'
  <2>1. UNCHANGED indexing /\ (UNCHANGED indexVars \/ Index!Crash)
    BY <1>14 DEF Accept, Reply, OrEnds, Server!Accept, Server!HandleRead,
                 Server!dbVars
  <2> QED
    BY <1>14, <2>1, <1>s, <1>3, HandlerEnds DEF Index!Crash
<1> QED
  BY <1>5, <1>6, <1>7, <1>8, <1>9, <1>10, <1>11, <1>12, <1>13, <1>14
     DEF EngineNext, Visit

\* No step of the Indexer takes a row out of a table, so what a search sees
\* only grows.
LEMMA TablesGrow ==
  ASSUME [IP!Next]_(IP!vars)
  PROVE  pages \subseteq pages' /\ words \subseteq words'
           /\ page_words \subseteq page_words'
BY DEF IP!Next, IP!ConnectDB, IP!InsertPage, IP!InsertWord, IP!InsertPageWord,
       IP!CloseDB, IP!Crash, IP!Restart, IP!Rest, IP!vars, IP!tables

LEMMA VisibleGrows ==
  ASSUME [IP!Next]_(IP!vars), NEW u
  PROVE  /\ Index!Visible(u) \subseteq Index!Visible(u)'
         /\ Index!HasPage(u) => Index!HasPage(u)'
<1> USE TablesGrow
<1>1. Index!HasPage(u) => Index!HasPage(u)'
  BY DEF Index!HasPage
<1>2. ASSUME NEW p PROVE Index!RowsOf(p) \subseteq Index!RowsOf(p)'
  BY DEF Index!RowsOf, Index!LinksOf
<1>3. Index!Visible(u) \subseteq Index!Visible(u)'
  <2> SUFFICES ASSUME NEW x \in Index!Visible(u) PROVE x \in Index!Visible(u)'
    OBVIOUS
  <2>1. PICK p \in pages : p.url = u /\ \E r \in Index!RowsOf(p) : r.word = x
    BY DEF Index!Visible
  <2>2. PICK r \in Index!RowsOf(p) : r.word = x
    BY <2>1
  <2>3. p \in pages' /\ r \in Index!RowsOf(p)'
    BY <2>1, <2>2, <1>2
  <2> QED
    BY <2>1, <2>2, <2>3 DEF Index!Visible
<1> QED
  BY <1>1, <1>3

LEMMA MatchesGrow ==
  ASSUME [IP!Next]_(IP!vars), NEW q
  PROVE  Matches(q) \subseteq Matches(q)'
<1> SUFFICES ASSUME NEW u \in Matches(q) PROVE u \in Matches(q)'
  OBVIOUS
<1>1. u \in {p.url : p \in pages'}
  BY TablesGrow DEF Matches
<1>2. Index!Visible(u)' \cap q # {}
  BY VisibleGrows DEF Matches
<1> QED
  BY <1>1, <1>2 DEF Matches

LEMMA NotVisitedStep ==
  ASSUME CrawlInv, VisitHasItsWorker, NotVisitedAgain, [EngineNext]_engineVars
  PROVE  NotVisitedAgain'
<1>t. TypeOK
  BY DEF CrawlInv
<1>n. [IP!Next]_(IP!vars)
  BY <1>t, IndexerStep
<1>g. \A u : Index!HasPage(u) => Index!HasPage(u)'
  BY <1>n, VisibleGrows
<1>v. \A w \in Workers : wpc'[w] \in PastVisit =>
        \/ wpc[w] \in PastVisit /\ url'[w] = url[w]
        \/ CloseDB(w)
  <2> USE DEF crawlVars, pageVars
  <2>1. CASE RunAgain
    BY <2>1 DEF RunAgain, PastVisit
  <2>2. CASE SpiderAlone
    BY <2>2, SpiderAndVisits
  <2>3. ASSUME NEW v \in Workers, CloseDB(v), NEW w \in Workers
        PROVE  wpc'[w] \in PastVisit =>
                 \/ wpc[w] \in PastVisit /\ url'[w] = url[w]
                 \/ CloseDB(w)
    BY <2>3, <1>t DEF CloseDB, IndexPage, Goto, TypeOK
  <2>4. CASE UNCHANGED <<wpc, url>>
    BY <2>4
  <2>5. RunAgain \/ SpiderAlone \/ (\E v \in Workers : CloseDB(v))
          \/ UNCHANGED <<wpc, url>>
    BY DEF EngineNext, Visit, ReadConfig, Listen, ProgramEnds, ConnectDB,
           Statement, WorkerThrows, ServerAlone, Accept, Ask, Reply, Over,
           engineVars
  <2> QED
    BY <2>1, <2>2, <2>3, <2>4, <2>5
<1>p. \/ UNCHANGED <<pc, page>>
      \/ pc' \in {"idle", "connected", "dead"}
      \/ pc \in {"page", "word"} /\ pc' \in {"page", "word"} /\ UNCHANGED page
      \/ pc' = "page" /\ ~Index!HasPage(page') /\ Index!HasPage(page)'
      \/ pc' = "known" /\ Index!HasPage(page)'
  <2>1. ASSUME NEW u \in Entry, NEW v \in Contents[u], IP!InsertPage(u, v)
        PROVE  \/ pc' = "page" /\ ~Index!HasPage(page') /\ Index!HasPage(page)'
               \/ pc' = "known" /\ Index!HasPage(page)'
    <3>1. page' = u /\ (IP!HasPage(u) <=> Index!HasPage(u))
      BY <2>1, SamePages DEF IP!InsertPage
    <3>2. CASE Index!HasPage(u)
      BY <1>g, <2>1, <3>1, <3>2 DEF IP!InsertPage
    <3>3. CASE ~Index!HasPage(u)
      <4>1. pc' = "page" /\ [id |-> page_seq', url |-> u] \in pages'
        BY <2>1, <3>1, <3>3 DEF IP!InsertPage
      <4> QED
        BY <3>1, <3>3, <4>1 DEF Index!HasPage
    <3> QED
      BY <3>2, <3>3
  <2>2. CASE IP!InsertPageWord \/ \E x \in Words : IP!InsertWord(x)
    BY <2>2 DEF IP!InsertWord, IP!InsertPageWord
  <2>3. CASE IP!ConnectDB \/ IP!CloseDB \/ IP!Crash \/ IP!Restart
    BY <2>3 DEF IP!ConnectDB, IP!CloseDB, IP!Crash, IP!Restart
  <2> QED
    BY <1>n, <2>1, <2>2, <2>3 DEF IP!Next, IP!Rest, IP!vars, IP!session
<1>1. (pc \in {"page", "word", "known"} => Index!HasPage(page))'
  BY <1>g, <1>p DEF NotVisitedAgain
<1>2. ASSUME NEW w \in Workers, wpc'[w] \in PastVisit
      PROVE  Index!HasPage(url[w])' /\ (pc' \in {"page", "word"} => page' # url'[w])
  <2>1. CASE wpc[w] \in PastVisit /\ url'[w] = url[w]
    BY <1>g, <1>p, <2>1 DEF NotVisitedAgain, PastVisit
  <2>2. CASE CloseDB(w)
    <3>1. pc \in {"page", "known"} /\ pc' = "idle" /\ UNCHANGED <<page, url>>
          /\ wpc[w] = "indexing"
      BY <2>2 DEF CloseDB, Index!CloseDB, Index!session, IndexPage, Goto, At,
                  pageVars
    <3>2. page = url[w]
      BY <3>1, OwnerOfSection3 DEF VisitHasItsWorker
    <3> QED
      BY <1>g, <3>1, <3>2 DEF NotVisitedAgain
  <2> QED
    BY <1>2, <1>v, <2>1, <2>2
<1> QED
  BY <1>1, <1>2 DEF NotVisitedAgain, PastVisit

-----------------------------------------------------------------------------
(***************************************************************************)
(* What clients are told.                                                  *)
(***************************************************************************)

\* Of the client's side of a search only Ask and Reply change anything.
LEMMA SearchSteps ==
  ASSUME [EngineNext]_engineVars
  PROVE  \/ UNCHANGED searchVars
         \/ \E c \in Conns : Ask(c) \/ Reply(c)
BY DEF EngineNext, engineVars, Visit, ReadConfig, Listen, ProgramEnds, RunAgain,
       SpiderAlone, ConnectDB, Statement, CloseDB, WorkerThrows, ServerAlone,
       Accept, Over, searchVars

LEMMA FoundStep ==
  ASSUME TypeOK, DOMAIN found = Conns, DOMAIN query = Conns,
         FoundStaysFound, [EngineNext]_engineVars
  PROVE  FoundStaysFound'
<1>1. \A q : Matches(q) \subseteq Matches(q)'
  BY IndexerStep, MatchesGrow
<1>2. CASE UNCHANGED searchVars
  BY <1>1, <1>2 DEF FoundStaysFound, searchVars
<1>3. ASSUME NEW c \in Conns, Ask(c) PROVE FoundStaysFound'
  <2>1. /\ found'[c] = <<>>
        /\ \A d \in Conns : d # c => found'[d] = found[d] /\ query'[d] = query[d]
    BY <1>3 DEF Ask
  <2>2. Range(found'[c]) = {}
    BY <2>1 DEF Range
  <2> QED
    BY <1>1, <2>1, <2>2 DEF FoundStaysFound
<1>4. ASSUME NEW c \in Conns, Reply(c) PROVE FoundStaysFound'
  <2>1. UNCHANGED query
    BY <1>4 DEF Reply
  <2>2. CASE UNCHANGED found
    BY <1>1, <2>1, <2>2 DEF FoundStaysFound
  <2>3. ASSUME NEW s \in Ranked(query[c]), found' = [found EXCEPT ![c] = s]
        PROVE  FoundStaysFound'
    <3>1. Range(s) \subseteq Matches(query[c])
      BY DEF Ranked, Range
    <3>2. found'[c] = s /\ \A d \in Conns : d # c => found'[d] = found[d]
      BY <2>3
    <3> QED
      BY <1>1, <2>1, <3>1, <3>2 DEF FoundStaysFound
  <2> QED
    BY <1>4, <2>2, <2>3 DEF Reply
<1> QED
  BY SearchSteps, <1>2, <1>3, <1>4

LEMMA EngineTypeStep ==
  ASSUME EngineInv, [EngineNext]_engineVars,
         TypeOK', Index!TypeOK', Server!TypeOK'
  PROVE  EngineTypeOK'
<1> USE DEF EngineInv, EngineTypeOK
<1>1. main' \in {"reading", "starting", "serving", "failed"}
  BY DEF EngineNext, engineVars, Visit, ReadConfig, Listen, ProgramEnds, RunAgain,
         SpiderAlone, ConnectDB, Statement, CloseDB, WorkerThrows, ServerAlone,
         Accept, Ask, Reply, Over
<1>2. /\ query' \in [Conns -> SUBSET Words]
      /\ DOMAIN found' = Conns
      /\ \A c \in Conns : Range(found'[c]) \subseteq Entry
      /\ open_then' \in [Conns -> SUBSET Entry]
  <2>1. CASE UNCHANGED searchVars
    BY <2>1 DEF searchVars
  <2>2. ASSUME NEW c \in Conns, Ask(c)
        PROVE  /\ query' \in [Conns -> SUBSET Words]
               /\ DOMAIN found' = Conns
               /\ \A d \in Conns : Range(found'[d]) \subseteq Entry
               /\ open_then' \in [Conns -> SUBSET Entry]
    <3>1. Range(<<>>) = {}
      BY DEF Range
    <3> QED
      BY <2>2, <3>1, EngineAssumption DEF Ask
  <2>3. ASSUME NEW c \in Conns, Reply(c)
        PROVE  /\ query' \in [Conns -> SUBSET Words]
               /\ DOMAIN found' = Conns
               /\ \A d \in Conns : Range(found'[d]) \subseteq Entry
               /\ open_then' \in [Conns -> SUBSET Entry]
    <3>1. \A q : Matches(q) \subseteq Entry
      BY DEF Matches, Index!TypeOK
    <3>2. \A s \in Ranked(query[c]) : Range(s) \subseteq Entry
      BY <3>1 DEF Ranked, Range
    <3>3. BeingVisited \subseteq Entry
      BY DEF BeingVisited, NotVisitedAgain, Index!HasPage, Index!TypeOK
    <3> QED
      BY <2>3, <3>2, <3>3 DEF Reply
  <2> QED
    BY SearchSteps, <2>1, <2>2, <2>3
<1> QED
  BY <1>1, <1>2

-----------------------------------------------------------------------------
(***************************************************************************)
(* A worker that is alone, and a crawl in which nothing fails.             *)
(***************************************************************************)

\* With one core there is one worker, the whole of its batch, so no access to
\* url_list or to host races with another.
LEMMA LoneWorker ==
  ASSUME CrawlInv, Cores = 1, NEW w \in Workers
  PROVE  /\ ~QueueRace
         /\ wpc[w] \notin {"idle", "exited"} => Batch = {w}
<1>1. Workers = {w}
  BY DEF Workers
<1>2. ~QueueRace
  BY <1>1 DEF QueueRace, Popping, Pushing
<1>3. wpc[w] \notin {"idle", "exited"} => Batch = {w}
  BY <1>1 DEF CrawlInv, Barrier, Batch
<1> QED
  BY <1>2, <1>3

\* What is pushed for a link of a page is what the page means by it.
LEMMA ResolveLone ==
  ASSUME CrawlInv, Cores = 1, NEW w \in Workers, wpc[w] = "extracting", NEW l
  PROVE  Resolve(w, l) = LinkOf(parse_url[w], l)
<1>1. link_host[w] = parse_url[w].host
  BY LoneWorker DEF CrawlInv, LoneWorkerKeepsHost
<1> QED
  BY <1>1, Zenon DEF Resolve, LinkOf

LEMMA LeadsTail ==
  ASSUME NEW u, NEW ls \in Seq(Link), NEW S, ls # <<>>, Leads(u, ls, S)
  PROVE  /\ Leads(u, Tail(ls), S)
         /\ IsPushed(Head(ls)) => LinkOf(u, Head(ls)) \in S
<1>1. /\ Len(Tail(ls)) = Len(ls) - 1 /\ Len(ls) \in Nat /\ Len(ls) >= 1
      /\ \A i \in 1 .. Len(Tail(ls)) : Tail(ls)[i] = ls[i + 1]
      /\ Head(ls) = ls[1]
  BY HeadTailProperties, LenProperties, EmptySeq
<1>2. ASSUME NEW i \in 1 .. Len(Tail(ls)), IsPushed(Tail(ls)[i])
      PROVE  LinkOf(u, Tail(ls)[i]) \in S
  <2>1. i + 1 \in 1 .. Len(ls) /\ Tail(ls)[i] = ls[i + 1]
    BY <1>1
  <2> QED
    BY <1>2, <2>1 DEF Leads
<1> QED
  BY <1>1, <1>2 DEF Leads

\* Every step of the crawl that is not its end keeps to S.
LEMMA KeepsCrawlStep ==
  ASSUME CrawlInv, Cores = 1, NEW S, Closed(S), KeepsTo(S),
         \/ Spider
         \/ \E w \in Workers : WorkerAlone(w) \/ IndexPage(w)
  PROVE  KeepsTo(S)'
<1> USE DEF KeepsTo, Requested
<1>t. TypeOK
  BY DEF CrawlInv
<1>1. CASE BeginLevel \/ JoinBatch \/ EndLevel
  BY <1>1 DEF BeginLevel, JoinBatch, EndLevel, pageVars
<1>2. CASE StartBatch
  BY <1>2 DEF StartBatch
<1>3. ASSUME NEW w \in Workers, WorkerAlone(w) \/ IndexPage(w)
      PROVE  KeepsTo(S)'
  <2> USE <1>t DEF At, Goto, pageVars
  <2>1. CASE LockQueue(w) \/ LockIndex(w) \/ LockExtract(w) \/ IndexPage(w)
    BY <2>1 DEF LockQueue, LockIndex, LockExtract, Lock, IndexPage, TypeOK
  <2>2. CASE PopUrl(w)
    <3>1. /\ url_list \in Seq(Entry) /\ Len(Tail(url_list)) = Len(url_list) - 1
          /\ url_list # <<>>
      BY <2>2, PopFindsEntry DEF PopUrl, TypeOK, CrawlInv, FrontExists, Popping
    <3>2. /\ Len(url_list) \in Nat /\ Len(url_list) >= 1
          /\ Head(url_list) = url_list[1]
          /\ \A i \in 1 .. Len(Tail(url_list)) : Tail(url_list)[i] = url_list[i + 1]
      BY <3>1, HeadTailProperties, LenProperties, EmptySeq
    <3>3. url_list' = Tail(url_list)
      BY <2>2, LoneWorker DEF PopUrl
    <3>4. \A i \in 1 .. Len(url_list') : url_list'[i] \in S
      BY <3>1, <3>2, <3>3
    <3>5. url_list[1] \in S
      <4>1. 1 \in 1 .. Len(url_list)
        BY ONLY <3>2, SMT
      <4> QED
        BY ONLY <4>1, KeepsTo(S) DEF KeepsTo
    <3>6. url' = [url EXCEPT ![w] = url_list[1]] /\ url \in [Workers -> Entry]
      BY ONLY <2>2, <3>2, <1>t DEF PopUrl, TypeOK
    <3>7. url'[w] \in S
      BY ONLY <3>5, <3>6, w \in Workers
    <3> QED
      BY <2>2, <3>4, <3>7 DEF PopUrl, TypeOK
  <2>3. CASE LockFetch(w)
    BY <2>3 DEF LockFetch, TypeOK
  <2>4. CASE AssignHost(w)
    BY <2>4 DEF AssignHost, TypeOK
  <2>5. CASE Respond(w)
    <3>1. wpc[w] = "requesting" /\ parse_url[w] \in S
      BY <2>5 DEF Respond
    <3>2. PICK a \in Answers[parse_url[w]] :
            \/ a.kind = "redirect" /\ Follow(w, a.url) /\ UNCHANGED links
            \/ /\ a.kind = "page" /\ Leave(w, "fetched")
               /\ links' = [links EXCEPT ![w] = a.links] /\ UNCHANGED parse_url
            \/ a.kind = "empty" /\ Leave(w, "exited")
                 /\ UNCHANGED <<parse_url, links>>
      BY <2>5 DEF Respond
    <3>3. UNCHANGED <<url_list, url>>
      BY <2>5 DEF Respond
    <3>4. \/ a.kind = "empty"
          \/ a.kind = "redirect" /\ a.url \in S
          \/ a.kind = "page" /\ Leads(parse_url[w], a.links, S)
      BY <3>1, <3>2 DEF Closed
    <3>5. CASE a.kind = "redirect"
      BY <3>2, <3>3, <3>4, <3>5 DEF Follow, TypeOK
    <3>6. CASE a.kind = "page"
      <4>1. /\ wpc' = [wpc EXCEPT ![w] = "fetched"] /\ links'[w] = a.links
            /\ UNCHANGED parse_url
            /\ \A v \in Workers : v # w => links'[v] = links[v]
        BY <3>2, <3>6 DEF Leave, TypeOK
      <4>2. Leads(parse_url'[w], links'[w], S)
        BY <3>4, <3>6, <4>1
      <4>3. \A v \in Workers : v # w =>
              (Leads(parse_url'[v], links'[v], S) <=> Leads(parse_url[v], links[v], S))
        BY <4>1
      <4> QED
        BY <3>1, <3>3, <4>1, <4>2, <4>3 DEF TypeOK
    <3>7. CASE a.kind = "empty"
      BY <3>2, <3>3, <3>7 DEF Leave, TypeOK
    <3> QED
      BY <3>4, <3>5, <3>6, <3>7
  <2>6. CASE CallExtract(w)
    BY <2>6 DEF CallExtract, TypeOK
  <2>7. CASE ExtractLink(w)
    <3>1. /\ wpc[w] = "extracting" /\ links[w] # <<>> /\ links[w] \in Seq(Link)
          /\ UNCHANGED <<wpc, url, parse_url>>
          /\ links' = [links EXCEPT ![w] = Tail(links[w])]
      BY <2>7 DEF ExtractLink, TypeOK
    <3>2. /\ Leads(parse_url[w], Tail(links[w]), S)
          /\ IsPushed(Head(links[w])) => LinkOf(parse_url[w], Head(links[w])) \in S
      BY <3>1, LeadsTail
    <3>3. PICK e : e = LinkOf(parse_url[w], Head(links[w]))
      OBVIOUS
    <3>4. \/ UNCHANGED url_list
          \/ e \in S /\ url_list' = Append(url_list, e)
      BY <2>7, <3>1, <3>2, <3>3, ResolveLone DEF ExtractLink
    <3>5. \A i \in 1 .. Len(url_list') : url_list'[i] \in S
      <4>1. url_list \in Seq(Entry) /\ S \subseteq Entry
        BY DEF TypeOK, Closed, Entry
      <4>2. CASE e \in S /\ url_list' = Append(url_list, e)
        <5>1. /\ Len(url_list') = Len(url_list) + 1 /\ Len(url_list) \in Nat
              /\ \A i \in 1 .. Len(url_list) : url_list'[i] = url_list[i]
              /\ url_list'[Len(url_list) + 1] = e
          BY <4>1, <4>2, AppendProperties, LenProperties
        <5> QED
          BY <4>2, <5>1
      <4> QED
        BY <3>4, <4>2
    <3> QED
      BY <3>1, <3>2, <3>5 DEF TypeOK
  <2>8. CASE EndExtract(w)
    BY <2>8 DEF EndExtract, TypeOK
  <2> QED
    BY <1>3, <2>1, <2>2, <2>3, <2>4, <2>5, <2>6, <2>7, <2>8 DEF WorkerAlone
<1> QED
  BY <1>1, <1>2, <1>3 DEF Spider

LEMMA KeepsStep ==
  ASSUME CrawlInv, Cores = 1, NEW S, Closed(S), KeepsTo(S),
         [EngineNext]_engineVars
  PROVE  KeepsTo(S)'
<1>s. UNCHANGED crawlVars => KeepsTo(S)'
  BY DEF KeepsTo, crawlVars, pageVars
<1>1. CASE SpiderAlone
  BY <1>1, KeepsCrawlStep DEF SpiderAlone
<1>2. ASSUME NEW w \in Workers, CloseDB(w) PROVE KeepsTo(S)'
  BY <1>2, KeepsCrawlStep DEF CloseDB
<1>3. CASE RunAgain
  BY <1>3 DEF RunAgain, KeepsTo, Requested, Closed
<1>4. CASE ReadConfig \/ Listen \/ Over \/ UNCHANGED engineVars
  BY <1>4, <1>s DEF ReadConfig, Listen, ProgramEnds, Over, engineVars
<1>5. ASSUME NEW w \in Workers, ConnectDB(w) \/ Statement(w) \/ WorkerThrows(w)
      PROVE  KeepsTo(S)'
  BY <1>5, <1>s DEF ConnectDB, Statement, WorkerThrows, ProgramEnds
<1>6. ASSUME NEW c \in Conns, ServerAlone(c) \/ Accept(c) \/ Ask(c) \/ Reply(c)
      PROVE  KeepsTo(S)'
  BY <1>6, <1>s DEF ServerAlone, Accept, Ask, Reply
<1> QED
  BY <1>1, <1>2, <1>3, <1>4, <1>5, <1>6 DEF EngineNext, Visit

\* The database can count the sessions of the program.
LEMMA SessionsCounted ==
  ASSUME Server!TypeOK
  PROVE  Server!SessionsOpen \in Nat
<1>1. IsFiniteSet(sessions)
  BY EngineAssumption, FS_Subset DEF Server!TypeOK
<1>2. Cardinality(sessions) \in Nat
  BY <1>1, FS_CardinalityType
<1>3. Server!Cardinality(sessions) = Cardinality(sessions)
  BY DEF Server!Cardinality, Cardinality
<1> QED
  BY <1>2, <1>3 DEF Server!SessionsOpen

\* The program ends only where a session is wanted and there is none, or where
\* a client is to be served and there are no tables.
LEMMA EndStep ==
  ASSUME EngineInv, NEW S, NothingFails(S), KeepsTo(S),
         EndsForWantOfSessions, [EngineNext]_engineVars
  PROVE  EndsForWantOfSessions'
<1>c. CrawlInv /\ Server!TypeOK
  BY DEF EngineInv, Server!ServerInv
<1>n. Server!SessionsOpen \in Nat /\ DbLimit \in Nat
  BY <1>c, SessionsCounted, EngineAssumption
<1>r. process' = "running" => EndsForWantOfSessions'
  BY DEF EndsForWantOfSessions
<1>p. ProgramEnds => UNCHANGED <<backlog, sessions, indexing, schema>>
  BY DEF ProgramEnds, Index!Crash, Index!tables
<1>q. ASSUME UNCHANGED <<backlog, sessions, indexing, schema>>,
             \/ UNCHANGED process
             \/ ~Server!SessionFree
             \/ ~schema /\ backlog # {}
      PROVE  EndsForWantOfSessions'
  <2>1. Server!SessionsOpen' = Server!SessionsOpen
    BY <1>q DEF Server!SessionsOpen
  <2> QED
    BY <1>q, <1>n, <2>1 DEF EndsForWantOfSessions, Server!SessionFree
<1>1. CASE ReadConfig \/ Over \/ UNCHANGED engineVars
  BY <1>1, <1>q DEF ReadConfig, Over, engineVars, indexVars, serverVars
<1>2. CASE Listen
  BY <1>2, <1>q DEF Listen, NothingFails, indexVars, serverVars
<1>3. CASE RunAgain
  BY <1>3, <1>r DEF RunAgain
<1>4. CASE SpiderAlone
  BY <1>4, <1>r, SpiderRuns DEF SpiderAlone, Started, Running
<1>5. ASSUME NEW w \in Workers, ConnectDB(w) \/ Statement(w) \/ CloseDB(w)
      PROVE  EndsForWantOfSessions'
  BY <1>5, <1>r DEF ConnectDB, Statement, CloseDB, Server!ConnectDB,
                    Server!CloseDB, At, Running, Server!Running
<1>6. ASSUME NEW w \in Workers, WorkerThrows(w)
      PROVE  EndsForWantOfSessions'
  <2>1. ~QueueRace
    BY <1>c, LoneWorker DEF NothingFails
  <2>2. wpc[w] = "assigning" => parse_url[w] # Junk
    BY CrawlAssumption DEF KeepsTo, NothingFails, Closed
  <2>3. wpc[w] = "requesting" => \A a \in Answers[parse_url[w]] : a.kind # "fail"
    BY DEF KeepsTo, Requested, NothingFails, Closed
  <2>4. wpc[w] = "indexing"
    BY <1>6, <2>1, <2>2, <2>3 DEF WorkerThrows, Faulty
  <2>5. ~Server!SessionFree
    BY <1>6, <2>4 DEF WorkerThrows, NothingFails
  <2> QED
    BY <1>6, <1>p, <1>q, <2>5 DEF WorkerThrows
<1>7. ASSUME NEW c \in Conns, ServerAlone(c) \/ Ask(c)
      PROVE  EndsForWantOfSessions'
  BY <1>7, <1>r
     DEF ServerAlone, Ask, Server!Connect, Server!Leave, Server!Send,
         Server!AcceptFails, Server!Read, Server!ReadFails,
         Server!HandleReadFailed, Server!Write, Server!WriteFails,
         Server!HandleWrite, Server!Expire, Server!HandleDeadline,
         Server!Completes, Server!Running
<1>8. ASSUME NEW c \in Conns, Accept(c)
      PROVE  EndsForWantOfSessions'
  BY <1>8, <1>q, <1>r DEF Accept, Server!Accept, Server!Running
<1>9. ASSUME NEW c \in Conns, Reply(c)
      PROVE  EndsForWantOfSessions'
  <2>1. request[c] # "garbled"
    BY DEF NothingFails, Server!TypeOK, EngineInv, Server!ServerInv
  <2> QED
    BY <1>9, <1>r, <2>1 DEF Reply, Server!HandleRead, Server!Running
<1> QED
  BY <1>1, <1>2, <1>3, <1>4, <1>5, <1>6, <1>7, <1>8, <1>9 DEF EngineNext, Visit

-----------------------------------------------------------------------------
(***************************************************************************)
(* The invariant of the whole.                                             *)
(***************************************************************************)

LEMMA EngineInitial ==
  ASSUME EngineInit
  PROVE  EngineInv
<1>1. CrawlInv
  BY InitInv DEF EngineInit
<1>2. IP!Init
  BY DEF EngineInit, Index!Init, IP!Init, Index!NoVocabulary, IP!NoVocabulary
<1>3. Index!IndexInv
  BY <1>2, IP!IndexInit, IndexerAssumed, SameIndex
<1>4. SP!Init
  BY DEF EngineInit, Server!Init, SP!Init
<1>5. Server!ServerInv
  BY <1>4, SP!ServerInit, ServerAssumed, SameServer
<1>6. TypeOK /\ Index!TypeOK /\ Server!TypeOK
  BY <1>1, <1>3, <1>5 DEF CrawlInv, Index!IndexInv, Server!ServerInv
<1>7. Range(<<>>) = {}
  BY DEF Range
<1>8. EngineTypeOK /\ FoundStaysFound
  BY <1>6, <1>7 DEF EngineInit, EngineTypeOK, FoundStaysFound
<1>9. VisitHasItsWorker /\ NotVisitedAgain
  BY DEF EngineInit, Init, Index!Init, Server!Init, VisitHasItsWorker,
         NotVisitedAgain
<1> QED
  BY <1>1, <1>3, <1>5, <1>8, <1>9 DEF EngineInv

LEMMA SamePartsNext ==
  /\ (IP!IndexInv <=> Index!IndexInv)'
  /\ (SP!ServerInv <=> Server!ServerInv)'
<1>1. (IP!IndexInv <=> Index!IndexInv)'
  BY SameIndex, PTL
<1>2. (SP!ServerInv <=> Server!ServerInv)'
  BY SameServer, PTL
<1> QED
  BY <1>1, <1>2

LEMMA EngineStep ==
  ASSUME EngineInv, [EngineNext]_engineVars
  PROVE  EngineInv'
<1>t. TypeOK
  BY DEF EngineInv, CrawlInv
<1>1. CrawlInv'
  BY CrawlStep DEF EngineInv
<1>2. [IP!Next]_(IP!vars)
  BY <1>t, IndexerStep
<1>3. Index!IndexInv'
  BY <1>2, IP!IndexStep, IndexerAssumed, SameIndex, SamePartsNext DEF EngineInv
<1>4. Server!ServerInv'
  BY ServerStep, SameServer, SamePartsNext DEF EngineInv
<1>5. TypeOK' /\ Index!TypeOK' /\ Server!TypeOK'
  BY <1>1, <1>3, <1>4 DEF CrawlInv, Index!IndexInv, Server!ServerInv
<1>6. EngineTypeOK'
  BY <1>5, EngineTypeStep
<1>7. VisitHasItsWorker'
  BY VisitStep DEF EngineInv
<1>8. NotVisitedAgain'
  BY NotVisitedStep DEF EngineInv
<1>9. FoundStaysFound'
  BY <1>t, FoundStep DEF EngineInv, EngineTypeOK
<1> QED
  BY <1>1, <1>3, <1>4, <1>6, <1>7, <1>8, <1>9 DEF EngineInv

-----------------------------------------------------------------------------
(***************************************************************************)
(* Sums over finite sets.  MapThenSumSet adds in an order of its own; the  *)
(* lemmas say what it adds up to without one: how many units there are, if *)
(* every x counts for h[x] of them.                                        *)
(***************************************************************************)

\* A sum over T, as the folds of the community modules compute it.
IsSum(f, h, T) ==
  f = [s \in SUBSET T |->
         IF s = {} THEN 0
         ELSE h[CHOOSE x \in s : TRUE] + f[s \ {CHOOSE x \in s : TRUE}]]

\* It counts h[x] units for every x.
Pile(h, x) == {x} \X (1 .. h[x])
Units(h, s) == UNION {Pile(h, x) : x \in s}

LEMMA PileSize ==
  ASSUME NEW T, NEW h \in [T -> Nat], NEW x \in T
  PROVE  IsFiniteSet(Pile(h, x)) /\ Cardinality(Pile(h, x)) = h[x]
<1>1. h[x] \in Nat
  OBVIOUS
<1>2. IsFiniteSet(1 .. h[x]) /\ Cardinality(1 .. h[x]) = h[x]
  BY <1>1, FS_Interval, 1 \in Int, h[x] \in Int
<1>3. IsFiniteSet({x}) /\ Cardinality({x}) = 1
  BY FS_Singleton
<1>4. /\ IsFiniteSet({x} \X (1 .. h[x]))
      /\ Cardinality({x} \X (1 .. h[x])) = 1 * h[x]
  BY <1>2, <1>3, FS_Product
<1> QED
  BY <1>1, <1>4 DEF Pile

LEMMA UnitsFinite ==
  ASSUME NEW T, NEW h \in [T -> Nat], NEW s \in SUBSET T, IsFiniteSet(s)
  PROVE  IsFiniteSet(Units(h, s))
<1> DEFINE piles == {Pile(h, x) : x \in s}
           pile == [x \in s |-> Pile(h, x)]
<1>1. pile \in Surjection(s, piles)
  BY DEF Surjection
<1>2. IsFiniteSet(piles)
  BY <1>1, FS_Surjection
<1>3. \A P \in piles : IsFiniteSet(P)
  BY PileSize
<1> QED
  BY <1>2, <1>3, FS_UNION DEF Units

LEMMA UnitsOfOneMore ==
  ASSUME NEW T, NEW h \in [T -> Nat], NEW s \in SUBSET T, IsFiniteSet(s),
         NEW x \in s
  PROVE  Cardinality(Units(h, s)) = h[x] + Cardinality(Units(h, s \ {x}))
<1>1. Units(h, s) = Pile(h, x) \cup Units(h, s \ {x})
  BY DEF Units
<1>2. Pile(h, x) \cap Units(h, s \ {x}) = {}
  BY DEF Units, Pile
<1>3. IsFiniteSet(s \ {x})
  BY FS_RemoveElement
<1>4. IsFiniteSet(Units(h, s \ {x})) /\ IsFiniteSet(Pile(h, x))
  BY <1>3, UnitsFinite, PileSize
<1>5. Cardinality(Units(h, s)) =
        Cardinality(Pile(h, x)) + Cardinality(Units(h, s \ {x})) - Cardinality({})
  BY ZenonT(30), <1>1, <1>2, <1>4, FS_Union
<1>6. /\ Cardinality(Pile(h, x)) = h[x] /\ h[x] \in Nat
      /\ Cardinality({}) = 0 /\ Cardinality(Units(h, s \ {x})) \in Nat
  BY <1>4, PileSize, FS_EmptySet, FS_CardinalityType
<1> QED
  BY <1>5, <1>6

LEMMA UnitsOfNone ==
  ASSUME NEW h
  PROVE  Units(h, {}) = {} /\ Cardinality(Units(h, {})) = 0
<1>1. Units(h, {}) = {}
  BY DEF Units
<1> QED
  BY <1>1, FS_EmptySet

\* There is a function that obeys the equation of the fold.
LEMMA SumExists ==
  ASSUME NEW S, NEW h \in [S -> Nat], NEW T \in SUBSET S, IsFiniteSet(T)
  PROVE  \E f : IsSum(f, h, T)
<1> DEFINE f == [s \in SUBSET T |-> Cardinality(Units(h, s))]
<1>1. ASSUME NEW s \in SUBSET T
      PROVE  f[s] = IF s = {} THEN 0
                    ELSE h[CHOOSE x \in s : TRUE] + f[s \ {CHOOSE x \in s : TRUE}]
  <2>1. IsFiniteSet(s)
    BY FS_Subset
  <2>2. CASE s = {}
    BY <2>2, UnitsOfNone
  <2>3. CASE s # {}
    <3>1. PICK x : x = CHOOSE y \in s : TRUE
      OBVIOUS
    <3>2. x \in s
      BY <2>3, <3>1
    <3>3. s \ {x} \in SUBSET T
      OBVIOUS
    <3>4. /\ f[s] = Cardinality(Units(h, s))
          /\ f[s \ {x}] = Cardinality(Units(h, s \ {x}))
      BY <3>3
    <3>5. f[s] = h[x] + f[s \ {x}]
      BY <2>1, <3>2, <3>4, UnitsOfOneMore
    <3> HIDE DEF f
    <3> QED
      BY <2>3, <3>1, <3>5
  <2> QED
    BY <2>2, <2>3
<1>2. IsSum(f, h, T)
  <2> HIDE DEF f
  <2>1. f = [s \in SUBSET T |-> f[s]]
    BY DEF f
  <2> QED
    BY <1>1, <2>1 DEF IsSum
<1> QED
  BY <1>2

\* Whatever obeys it counts the units.
LEMMA SumCounts ==
  ASSUME NEW S, NEW h \in [S -> Nat], NEW T \in SUBSET S, IsFiniteSet(T),
         NEW f, IsSum(f, h, T)
  PROVE  f[T] = Cardinality(Units(h, T))
<1> DEFINE Wrong == {s \in FiniteSubsetsOf(T) : f[s] # Cardinality(Units(h, s))}
<1>1. ASSUME NEW s \in SUBSET T
      PROVE  f[s] = IF s = {} THEN 0
                    ELSE h[CHOOSE x \in s : TRUE] + f[s \ {CHOOSE x \in s : TRUE}]
  <2> DEFINE E(r) == IF r = {} THEN 0
                     ELSE h[CHOOSE x \in r : TRUE] + f[r \ {CHOOSE x \in r : TRUE}]
  <2>1. f = [r \in SUBSET T |-> E(r)]
    BY DEF IsSum
  <2>2. f[s] = E(s)
    <3> HIDE DEF E
    <3> QED
      BY <2>1
  <2> QED
    BY <2>2
<1>2. ASSUME NEW s \in Wrong
      PROVE  \E r \in Wrong : <<r, s>> \in StrictSubsetOrdering(T)
  <2>1. s \in SUBSET T /\ IsFiniteSet(s) /\ f[s] # Cardinality(Units(h, s))
    BY DEF FiniteSubsetsOf
  <2>2. s # {}
    BY <1>1, <2>1, UnitsOfNone
  <2>3. PICK x : x = CHOOSE y \in s : TRUE
    OBVIOUS
  <2>4. x \in s
    BY <2>2, <2>3
  <2>5. f[s] = h[x] + f[s \ {x}]
    BY <1>1, <2>1, <2>2, <2>3
  <2>6. Cardinality(Units(h, s)) = h[x] + Cardinality(Units(h, s \ {x}))
    BY <2>1, <2>4, UnitsOfOneMore
  <2>7. f[s \ {x}] # Cardinality(Units(h, s \ {x}))
    BY <2>1, <2>5, <2>6
  <2>8. s \ {x} \in FiniteSubsetsOf(T)
    BY <2>1, FS_RemoveElement DEF FiniteSubsetsOf
  <2>9. <<s \ {x}, s>> \in StrictSubsetOrdering(T)
    BY <2>1, <2>4 DEF StrictSubsetOrdering
  <2> QED
    BY <2>7, <2>8, <2>9
<1>3. Wrong = {}
  <2>1. Wrong \subseteq FiniteSubsetsOf(T)
    OBVIOUS
  <2> HIDE DEF Wrong
  <2> QED
    BY <1>2, <2>1, FS_StrictSubsetOrderingWellFounded, WFMin
<1>4. T \in FiniteSubsetsOf(T)
  BY DEF FiniteSubsetsOf
<1> QED
  BY <1>3, <1>4

\* More summands, and none less, give no smaller sum.
LEMMA UnitsGrow ==
  ASSUME NEW T, NEW h \in [T -> Nat], NEW g \in [T -> Nat],
         NEW s \in SUBSET T, IsFiniteSet(s), \A x \in s : h[x] <= g[x]
  PROVE  /\ Cardinality(Units(h, s)) \in Nat /\ Cardinality(Units(g, s)) \in Nat
         /\ Cardinality(Units(h, s)) <= Cardinality(Units(g, s))
<1>1. \A x \in s : Pile(h, x) \subseteq Pile(g, x)
  BY DEF Pile
<1>2. Units(h, s) \subseteq Units(g, s)
  BY <1>1 DEF Units
<1>3. IsFiniteSet(Units(h, s)) /\ IsFiniteSet(Units(g, s))
  BY UnitsFinite
<1> QED
  BY <1>2, <1>3, FS_Subset, FS_CardinalityType

-----------------------------------------------------------------------------
(***************************************************************************)
(* What a search ranks by.                                                 *)
(***************************************************************************)

RowsFor(u, x) ==
  {l \in page_words : \E p \in pages, r \in words :
     /\ p.url = u /\ l.page_id = p.id
     /\ r.word = x /\ l.word_id = r.id}

LEMMA CountOfRows ==
  ASSUME NEW u, NEW x, IsFiniteSet(RowsFor(u, x)),
         NEW h \in [RowsFor(u, x) -> Nat], \A l \in RowsFor(u, x) : l.count = h[l]
  PROVE  CountOf(u, x) = Cardinality(Units(h, RowsFor(u, x)))
<1> DEFINE T == RowsFor(u, x)
           Fold(f) == f = [s \in SUBSET T |->
              IF s = {} THEN 0
              ELSE (CHOOSE l \in s : TRUE).count + f[s \ {CHOOSE l \in s : TRUE}]]
<1>1. CountOf(u, x) = (CHOOSE f : Fold(f))[T]
  BY DEF CountOf, RowsFor, MapThenSumSet, MapThenFoldSet
<1> HIDE DEF T
<1>2. ASSUME NEW f PROVE Fold(f) <=> IsSum(f, h, T)
  <2>1. ASSUME NEW s \in SUBSET T, s # {}
        PROVE  (CHOOSE l \in s : TRUE).count = h[CHOOSE l \in s : TRUE]
    BY <2>1 DEF T
  <2> QED
    BY <2>1 DEF IsSum
<1> HIDE DEF Fold
<1>3. \E f : IsSum(f, h, T)
  BY SumExists DEF T
<1>4. Fold(CHOOSE f : Fold(f))
  BY <1>2, <1>3
<1> QED
  BY <1>1, <1>2, <1>4, SumCounts DEF T

LEMMA ScoreOfCounts ==
  ASSUME NEW u, NEW S, NEW h \in [S -> Nat], NEW q \in SUBSET S, IsFiniteSet(q),
         \A x \in q : CountOf(u, x) = h[x]
  PROVE  Score(u, q) = Cardinality(Units(h, q))
<1> DEFINE Fold(f) == f = [s \in SUBSET q |->
              IF s = {} THEN 0
              ELSE CountOf(u, CHOOSE x \in s : TRUE) + f[s \ {CHOOSE x \in s : TRUE}]]
<1>1. Score(u, q) = (CHOOSE f : Fold(f))[q]
  BY DEF Score, MapThenSumSet, MapThenFoldSet
<1>2. ASSUME NEW f PROVE Fold(f) <=> IsSum(f, h, q)
  <2> DEFINE A(s) == IF s = {} THEN 0
                     ELSE CountOf(u, CHOOSE x \in s : TRUE)
                            + f[s \ {CHOOSE x \in s : TRUE}]
             B(s) == IF s = {} THEN 0
                     ELSE h[CHOOSE x \in s : TRUE] + f[s \ {CHOOSE x \in s : TRUE}]
  <2>1. \A s \in SUBSET q : A(s) = B(s)
    <3>1. ASSUME NEW s \in SUBSET q, s # {}
          PROVE  CountOf(u, CHOOSE x \in s : TRUE) = h[CHOOSE x \in s : TRUE]
      BY <3>1
    <3> QED
      BY <3>1
  <2>2. (f = [s \in SUBSET q |-> A(s)]) <=> (f = [s \in SUBSET q |-> B(s)])
    <3> HIDE DEF A, B
    <3> QED
      BY <2>1
  <2> QED
    BY <2>2 DEF IsSum
<1> HIDE DEF Fold
<1>3. \E f : IsSum(f, h, q)
  BY SumExists
<1>4. Fold(CHOOSE f : Fold(f))
  BY <1>2, <1>3
<1> QED
  BY <1>1, <1>2, <1>4, SumCounts

\* What is visible of a page, with the counts of its visit.
Known(u) ==
  [x \in Words |-> IF x \in Index!Visible(u) THEN snapshot[u][x] ELSE 0]

LEMMA KnownType ==
  ASSUME Index!IndexInv, NEW u, Index!HasPage(u)
  PROVE  Known(u) \in [Words -> Nat] /\ snapshot[u] \in [Words -> Nat]
<1>1. u \in Entry
  BY DEF Index!HasPage, Index!IndexInv, Index!TypeOK
<1> QED
  BY <1>1 DEF Known, Index!IndexInv, Index!TypeOK, Index!Vocabulary

\* A visible word has one row in words and one in page_words.
LEMMA CountKnown ==
  ASSUME Index!IndexInv, NEW u, Index!HasPage(u), NEW x \in Words
  PROVE  CountOf(u, x) = Known(u)[x]
<1> USE DEF Index!IndexInv
<1>1. PICK p \in pages : p.url = u
  BY DEF Index!HasPage
<1>2. \A o \in pages : o.url = u => o = p
  BY <1>1 DEF Index!KeysHold
<1>3. x \in Index!Visible(u) <=> \E r \in Index!RowsOf(p) : r.word = x
  BY <1>1, <1>2 DEF Index!Visible
<1>4. ASSUME NEW l
      PROVE  l \in RowsFor(u, x) <=>
               /\ l \in Index!LinksOf(p)
               /\ \E r \in Index!RowsOf(p) : r.word = x /\ l.word_id = r.id
  BY <1>1, <1>2 DEF RowsFor, Index!LinksOf, Index!RowsOf
<1>5. CASE x \notin Index!Visible(u)
  <2>1. RowsFor(u, x) = {}
    BY <1>3, <1>4, <1>5
  <2>2. PICK h : h \in [RowsFor(u, x) -> Nat]
    <3>1. [l \in RowsFor(u, x) |-> 0] \in [RowsFor(u, x) -> Nat]
      OBVIOUS
    <3> QED
      BY <3>1
  <2>3. CountOf(u, x) = Cardinality(Units(h, {}))
    BY <2>1, <2>2, CountOfRows, FS_EmptySet
  <2> QED
    BY <1>5, <2>3, UnitsOfNone DEF Known
<1>6. CASE x \in Index!Visible(u)
  <2>1. PICK r \in Index!RowsOf(p) : r.word = x
    BY <1>3, <1>6
  <2>2. PICK l \in Index!LinksOf(p) : l.word_id = r.id
    BY <2>1 DEF Index!RowsOf
  <2>3. \A s \in Index!RowsOf(p) : s.word = x => s = r
    BY <1>1, <2>1 DEF Index!WordRowsPrivate
  <2>4. \A m \in Index!LinksOf(p) : m.word_id = r.id => m = l
    BY <2>2 DEF Index!WordRowsPrivate, Index!LinksOf
  <2>5. RowsFor(u, x) = {l}
    BY <1>4, <2>1, <2>2, <2>3, <2>4
  <2>6. l.count = snapshot[u][x]
    BY <1>1, <2>1, <2>2 DEF Index!OneSnapshot
  <2>7. l.count \in Nat
    BY <2>6, KnownType
  <2>8. PICK h : h = [m \in {l} |-> l.count]
    OBVIOUS
  <2>9. h \in [{l} -> Nat] /\ h[l] = l.count /\ IsFiniteSet({l})
    BY <2>7, <2>8, FS_Singleton
  <2>10. CountOf(u, x) = Cardinality(Units(h, {l}))
    BY <2>5, <2>9, CountOfRows
  <2>11. Cardinality(Units(h, {l})) = h[l] + Cardinality(Units(h, {l} \ {l}))
    BY <2>9, UnitsOfOneMore
  <2>12. Cardinality(Units(h, {l} \ {l})) = 0
    BY UnitsOfNone, {l} \ {l} = {}
  <2>13. CountOf(u, x) = l.count
    BY <2>7, <2>9, <2>10, <2>11, <2>12
  <2> QED
    BY <1>6, <2>6, <2>13 DEF Known
<1> QED
  BY <1>5, <1>6

LEMMA ScoreKnown ==
  Index!IndexInv =>
    \A u : Index!HasPage(u) =>
      \A q \in SUBSET Words : IsFiniteSet(q) =>
        Score(u, q) = Cardinality(Units(Known(u), q))
BY KnownType, CountKnown, ScoreOfCounts

LEMMA ScoreKnownNext ==
  (Index!IndexInv =>
    \A u : Index!HasPage(u) =>
      \A q \in SUBSET Words : IsFiniteSet(q) =>
        Score(u, q) = Cardinality(Units(Known(u), q)))'
BY ScoreKnown, PTL

LEMMA KnownTypeNext ==
  (Index!IndexInv => \A u : Index!HasPage(u) =>
     Known(u) \in [Words -> Nat] /\ snapshot[u] \in [Words -> Nat])'
<1>1. Index!IndexInv => \A u : Index!HasPage(u) =>
        Known(u) \in [Words -> Nat] /\ snapshot[u] \in [Words -> Nat]
  BY KnownType
<1> QED
  BY <1>1, PTL

LEMMA ScoreNat ==
  ASSUME Index!IndexInv, NEW u, Index!HasPage(u),
         NEW q \in SUBSET Words, IsFiniteSet(q)
  PROVE  Score(u, q) \in Nat
BY ScoreKnown, KnownType, UnitsFinite, FS_CardinalityType

LEMMA SamePagesNext ==
  (\A u : IP!Visible(u) = Index!Visible(u))'
<1>1. \A u : IP!Visible(u) = Index!Visible(u)
  BY SamePages
<1> QED
  BY <1>1, PTL

\* A page keeps the vocabulary of its one visit, and what is visible of it
\* changes during that visit only.
LEMMA PageKept ==
  ASSUME IP!IndexInv, [IP!Next]_(IP!vars), NEW u, IP!HasPage(u)
  PROVE  /\ snapshot'[u] = snapshot[u]
         /\ u \notin BeingVisited => IP!Visible(u)' = IP!Visible(u)
<1>0. IP!TypeOK' /\ u \in Entry
  BY IP!TypeStep, IndexerAssumed DEF IP!IndexInv, IP!HasPage, IP!TypeOK
<1>1. ASSUME NEW e \in Entry, NEW v \in Contents[e], IP!InsertPage(e, v)
      PROVE  snapshot'[u] = snapshot[u] /\ IP!Visible(u)' = IP!Visible(u)
  <2>1. IP!Visible(u)' = IP!Visible(u)
    BY <1>0, <1>1, IP!InsertPageStep, IndexerAssumed
  <2>2. snapshot'[u] = snapshot[u]
    BY <1>0, <1>1 DEF IP!InsertPage, IP!IndexInv, IP!TypeOK
  <2> QED
    BY <2>1, <2>2
<1>2. ASSUME NEW x \in Words, IP!InsertWord(x)
      PROVE  snapshot' = snapshot /\ IP!Visible(u)' = IP!Visible(u)
  <2>1. IP!Visible(u)' = IP!Visible(u)
    BY <1>0, <1>2, IP!InsertWordStep, IndexerAssumed
  <2> QED
    BY <1>2, <2>1 DEF IP!InsertWord, IP!history
<1>3. CASE IP!InsertPageWord
  <2>1. snapshot' = snapshot /\ pc = "word"
    BY <1>3 DEF IP!InsertPageWord, IP!history
  <2>2. u # page => IP!Visible(u)' = IP!Visible(u)
    BY <1>0, <1>3, IP!InsertPageWordStep, IndexerAssumed
  <2> QED
    BY <2>1, <2>2 DEF BeingVisited
<1>4. CASE \/ IP!ConnectDB \/ IP!CloseDB \/ IP!Crash \/ IP!Restart \/ UNCHANGED IP!vars
  <2>1. UNCHANGED <<pages, words, page_words, snapshot>>
    BY <1>4 DEF IP!ConnectDB, IP!CloseDB, IP!Crash, IP!Restart, IP!vars,
                IP!tables, IP!history
  <2> QED
    BY <2>1 DEF IP!Visible, IP!RowsOf, IP!LinksOf
<1> QED
  BY <1>1, <1>2, <1>3, <1>4 DEF IP!Next, IP!Rest

\* So a page never loses in rank by itself, and gains only during its visit.
LEMMA ScoreStep ==
  ASSUME Index!IndexInv, Index!IndexInv', [IP!Next]_(IP!vars),
         NEW u, Index!HasPage(u), NEW q \in SUBSET Words, IsFiniteSet(q)
  PROVE  /\ Score(u, q) \in Nat /\ Score(u, q)' \in Nat
         /\ Score(u, q) <= Score(u, q)'
         /\ u \notin BeingVisited => Score(u, q)' = Score(u, q)
<1>1. Index!HasPage(u)' /\ Index!Visible(u) \subseteq Index!Visible(u)'
  BY VisibleGrows
<1>2. /\ Score(u, q) = Cardinality(Units(Known(u), q))
      /\ Score(u, q)' = Cardinality(Units(Known(u)', q))
  BY <1>1, ScoreKnown, ScoreKnownNext
<1>3. /\ Known(u) \in [Words -> Nat] /\ Known(u)' \in [Words -> Nat]
      /\ snapshot[u] \in [Words -> Nat]
  BY <1>1, KnownType, KnownTypeNext
<1>4. /\ snapshot'[u] = snapshot[u]
      /\ u \notin BeingVisited => Index!Visible(u)' = Index!Visible(u)
  BY PageKept, SameIndex, SamePages, SamePagesNext
<1>5. \A x \in q : Known(u)[x] <= Known(u)'[x]
  BY <1>1, <1>3, <1>4 DEF Known
<1>6. u \notin BeingVisited => Known(u)' = Known(u)
  BY <1>4 DEF Known
<1>7. /\ Cardinality(Units(Known(u), q)) \in Nat
      /\ Cardinality(Units(Known(u)', q)) \in Nat
      /\ Cardinality(Units(Known(u), q)) <= Cardinality(Units(Known(u)', q))
  BY <1>3, <1>5, UnitsGrow
<1> QED
  BY <1>2, <1>6, <1>7

\* No page that has its row is visited but by the visit that gave it the row.
LEMMA VisitBegins ==
  ASSUME [IP!Next]_(IP!vars), NEW u, Index!HasPage(u), u \in BeingVisited'
  PROVE  u \in BeingVisited
<1> USE DEF BeingVisited
<1>1. ASSUME NEW e \in Entry, NEW v \in Contents[e], IP!InsertPage(e, v)
      PROVE  FALSE
  BY <1>1, SamePages DEF IP!InsertPage
<1>2. CASE IP!InsertPageWord \/ \E x \in Words : IP!InsertWord(x)
  BY <1>2 DEF IP!InsertWord, IP!InsertPageWord
<1>3. CASE IP!ConnectDB \/ IP!CloseDB \/ IP!Crash \/ IP!Restart
  BY <1>3 DEF IP!ConnectDB, IP!CloseDB, IP!Crash, IP!Restart
<1> QED
  BY <1>1, <1>2, <1>3 DEF IP!Next, IP!Rest, IP!vars, IP!session

\* RankKept and FoundWhileOpen, for one client.
RankedFor(c) ==
  /\ Range(found[c]) \cap BeingVisited \subseteq open_then[c]
  /\ IsFiniteSet(query[c])
  /\ \A i, j \in DOMAIN found[c] :
       i < j /\ Score(found[c][j], query[c]) > Score(found[c][i], query[c])
         => found[c][j] \in open_then[c]

LEMMA RankedForAll ==
  /\ (FoundWhileOpen /\ RankKept <=> \A c \in Conns : RankedFor(c))
  /\ (FoundWhileOpen /\ RankKept <=> \A c \in Conns : RankedFor(c))'
<1>1. FoundWhileOpen /\ RankKept <=> \A c \in Conns : RankedFor(c)
  BY DEF FoundWhileOpen, RankKept, RankedFor
<1> QED
  BY <1>1, PTL

\* A client's results, while nobody asks or answers it.
LEMMA RankedStays ==
  ASSUME Index!IndexInv, Index!IndexInv', [IP!Next]_(IP!vars),
         NEW c \in Conns, RankedFor(c), query[c] \in SUBSET Words,
         \A i \in DOMAIN found[c] : Index!HasPage(found[c][i]),
         UNCHANGED <<found[c], query[c], open_then[c]>>
  PROVE  RankedFor(c)'
<1>1. PICK f, q, o : f = found[c] /\ q = query[c] /\ o = open_then[c]
  OBVIOUS
<1>2. q \in SUBSET Words /\ IsFiniteSet(q)
  BY <1>1 DEF RankedFor
<1>3. Range(f) \cap BeingVisited' \subseteq o
  BY <1>1, VisitBegins DEF RankedFor, Range
<1>4. ASSUME NEW i \in DOMAIN f, NEW j \in DOMAIN f, i < j,
             Score(f[j], q)' > Score(f[i], q)', f[j] \notin o
      PROVE  FALSE
  <2>1. f[j] \notin BeingVisited
    BY <1>1, <1>4 DEF RankedFor, Range
  <2>2. Index!HasPage(f[i]) /\ Index!HasPage(f[j])
    BY <1>1
  <2>3. /\ Score(f[i], q) \in Nat /\ Score(f[i], q)' \in Nat
        /\ Score(f[i], q) <= Score(f[i], q)'
    BY <1>2, <2>2, ScoreStep
  <2>4. Score(f[j], q) \in Nat /\ Score(f[j], q)' = Score(f[j], q)
    BY <1>2, <2>1, <2>2, ScoreStep
  <2>5. Score(f[j], q) > Score(f[i], q)
    BY <1>4, <2>3, <2>4
  <2> QED
    BY <1>1, <1>4, <2>5 DEF RankedFor
<1> QED
  BY <1>1, <1>2, <1>3, <1>4 DEF RankedFor

\* The order of an answer is that of the scores it was computed from.
LEMMA RankedReply ==
  ASSUME Index!IndexInv, Index!IndexInv', NEW c \in Conns, Reply(c),
         RankedFor(c), query[c] \in SUBSET Words,
         DOMAIN found = Conns, DOMAIN open_then = Conns,
         UNCHANGED <<found[c], query[c], open_then[c]>> => RankedFor(c)'
  PROVE  RankedFor(c)'
<1>1. UNCHANGED query /\ (UNCHANGED <<found, open_then>> \/ process' = "running")
  BY DEF Reply
<1>2. CASE process' = "running"
  <2>1. UNCHANGED indexVars /\ open_then'[c] = BeingVisited
    BY <1>2 DEF Reply, OrEnds
  <2>2. PICK s \in Ranked(query[c]) : found'[c] = s
    BY <1>2 DEF Reply
  <2>3. BeingVisited' = BeingVisited
    BY <2>1 DEF BeingVisited, indexVars
  <2>4. \A i \in DOMAIN s : Index!HasPage(s[i])
    BY DEF Ranked, Matches, Index!HasPage
  <2>5. IsFiniteSet(query[c])
    BY DEF RankedFor
  <2>6. \A i \in DOMAIN s : Score(s[i], query[c])' = Score(s[i], query[c])
    <3>1. \A u : Known(u)' = Known(u) /\ (Index!HasPage(u)' <=> Index!HasPage(u))
      BY <2>1 DEF Known, Index!Visible, Index!RowsOf, Index!LinksOf,
                  Index!HasPage, indexVars
    <3> QED
      BY <1>1, <2>1, <2>4, <2>5, <3>1, ScoreKnown, ScoreKnownNext
  <2>7. \A i \in DOMAIN s : Score(s[i], query[c]) \in Nat
    BY <2>4, <2>5, ScoreNat
  <2>8. \A i, j \in DOMAIN s : i < j => Score(s[i], query[c]) >= Score(s[j], query[c])
    BY DEF Ranked
  <2>9. \A i, j \in DOMAIN s : i < j =>
          ~(Score(s[j], query[c]) > Score(s[i], query[c]))
    BY <2>7, <2>8
  <2> QED
    BY <1>1, <2>1, <2>2, <2>3, <2>6, <2>5, <2>9 DEF RankedFor
<1>3. CASE UNCHANGED <<found, open_then>>
  BY <1>1, <1>3
<1> QED
  BY <1>1, <1>2, <1>3

LEMMA RankStep ==
  ASSUME EngineInv, FoundWhileOpen, RankKept, [EngineNext]_engineVars
  PROVE  FoundWhileOpen' /\ RankKept'
<1>i. Index!IndexInv /\ Index!IndexInv' /\ [IP!Next]_(IP!vars)
  BY EngineStep, IndexerStep DEF EngineInv, CrawlInv
<1>m. \A c \in Conns : \A i \in DOMAIN found[c] : Index!HasPage(found[c][i])
  BY DEF EngineInv, FoundStaysFound, Range, Matches, Index!HasPage
<1>t. /\ query \in [Conns -> SUBSET Words]
      /\ DOMAIN found = Conns /\ DOMAIN open_then = Conns
  BY DEF EngineInv, EngineTypeOK
<1>r. \A c \in Conns : RankedFor(c)
  BY RankedForAll
<1>1. \A c \in Conns : UNCHANGED <<found[c], query[c], open_then[c]>> => RankedFor(c)'
  BY <1>i, <1>m, <1>t, <1>r, RankedStays
<1>2. CASE UNCHANGED searchVars
  BY <1>1, <1>2, RankedForAll DEF searchVars
<1>3. ASSUME NEW c \in Conns, Ask(c) PROVE \A d \in Conns : RankedFor(d)'
  <2>1. /\ found' = [found EXCEPT ![c] = <<>>]
        /\ open_then' = [open_then EXCEPT ![c] = {}]
        /\ \E q \in Queries \cup {{}} : query' = [query EXCEPT ![c] = q]
    BY <1>3 DEF Ask
  <2>2. found'[c] = <<>> /\ IsFiniteSet(query'[c])
    BY <1>t, <2>1, FS_EmptySet, EngineAssumption
  <2>3. RankedFor(c)'
    BY <2>2 DEF RankedFor, Range
  <2> QED
    BY <1>1, <1>t, <2>1, <2>3
<1>4. ASSUME NEW c \in Conns, Reply(c) PROVE \A d \in Conns : RankedFor(d)'
  <2>1. RankedFor(c)'
    BY <1>1, <1>4, <1>i, <1>r, <1>t, RankedReply DEF EngineInv
  <2>2. \A d \in Conns : d # c => UNCHANGED <<found[d], query[d], open_then[d]>>
    BY <1>4, <1>t DEF Reply
  <2> QED
    BY <1>1, <2>1, <2>2
<1> QED
  BY <1>2, <1>3, <1>4, SearchSteps, RankedForAll

-----------------------------------------------------------------------------
(***************************************************************************)
(* Theorems.                                                               *)
(***************************************************************************)

\* The three parts keep their invariants in the company of the others, through
\* every end of the program and every run of it.
THEOREM EngineInvariance == EngineSpec => []EngineInv
<1>1. EngineInit => EngineInv
  BY EngineInitial
<1>2. EngineInv /\ [EngineNext]_engineVars => EngineInv'
  BY EngineStep
<1> QED
  BY <1>1, <1>2, PTL DEF EngineSpec

\* Every variable of every part keeps its type.
THEOREM EngineTyped == EngineSpec => []EngineTypeOK
<1>1. EngineInv => EngineTypeOK
  BY DEF EngineInv
<1> QED
  BY <1>1, EngineInvariance, PTL

\* Every visit of the Indexer belongs to the one worker in section 3, for any
\* number of cores, pages and clients.
THEOREM OneVisitAtATime == EngineSpec => []VisitHasItsWorker
<1>1. EngineInv => VisitHasItsWorker
  BY DEF EngineInv
<1> QED
  BY <1>1, EngineInvariance, PTL

\* What a worker has come past can be found in full, unless it was cut short.
THEOREM PastVisitsAreFound == EngineSpec => []IndexedOrInterrupted
<1>1. ASSUME EngineInv, NEW w \in Workers, wpc[w] \in PastVisit
      PROVE  /\ Index!HasPage(url[w])
             /\ \/ Index!Visible(url[w]) = Index!WordsOf(snapshot[url[w]])
                \/ url[w] \in interrupted
  <2>1. /\ Index!HasPage(url[w])
        /\ pc \in {"page", "word"} => page # url[w]
    BY <1>1 DEF EngineInv, NotVisitedAgain, PastVisit
  <2>2. PICK p \in pages : p.url = url[w]
    BY <2>1 DEF Index!HasPage
  <2> QED
    BY <1>1, <2>1, <2>2 DEF EngineInv, Index!IndexInv, Index!OneSnapshot
<1>2. EngineInv => IndexedOrInterrupted
  BY <1>1 DEF IndexedOrInterrupted, PastVisit
<1> QED
  BY <1>2, EngineInvariance, PTL

\* What a client was told is never taken back, whatever ends the program and
\* however often it is run again.
THEOREM NothingFoundIsLost == EngineSpec => []FoundStaysFound
<1>1. EngineInv => FoundStaysFound
  BY DEF EngineInv
<1> QED
  BY <1>1, EngineInvariance, PTL

\* Where nothing fails by itself and only one worker runs, only two things end
\* the program: its own sessions are as many as the database allows, or a client
\* came before the first visit had made the tables; whatever the web, the limit
\* and the clients.
THEOREM WantOfSessionsEnds ==
  ASSUME NEW S, NothingFails(S)
  PROVE  EngineSpec => []EndsForWantOfSessions
<1>1. EngineInit => KeepsTo(S) /\ EndsForWantOfSessions
  BY DEF EngineInit, Init, KeepsTo, Requested, EndsForWantOfSessions,
         NothingFails, Closed
<1>2. /\ EngineInv /\ KeepsTo(S) /\ EndsForWantOfSessions
      /\ [EngineNext]_engineVars
      => KeepsTo(S)' /\ EndsForWantOfSessions'
  BY KeepsStep, EndStep DEF EngineInv, NothingFails
<1> QED
  BY <1>1, <1>2, EngineInvariance, PTL DEF EngineSpec

\* Nor is the order of what was found: only a page that was being visited then
\* comes before one that was ahead of it, for any scores and any number of runs.
THEOREM RankIsKept == EngineSpec => []RankKept
<1>1. EngineInit => FoundWhileOpen /\ RankKept
  BY FS_EmptySet DEF EngineInit, FoundWhileOpen, RankKept, Range
<1>2. EngineInv /\ FoundWhileOpen /\ RankKept /\ [EngineNext]_engineVars
        => FoundWhileOpen' /\ RankKept'
  BY RankStep
<1> QED
  BY <1>1, <1>2, EngineInvariance, PTL DEF EngineSpec

\* The whole program implements Indexer: the environment that Indexer assumes,
\* one visit at a time and a restart on the old tables, is the one the spider,
\* the server and main give it.  All that is proved of Indexer holds here.
THEOREM EngineImplementsIndexer == EngineSpec => IP!Spec
<1>1. EngineInit => IP!Init
  BY DEF EngineInit, Index!Init, IP!Init, Index!NoVocabulary, IP!NoVocabulary
<1>2. EngineInv /\ [EngineNext]_engineVars => [IP!Next]_(IP!vars)
  BY IndexerStep DEF EngineInv, CrawlInv
<1> QED
  BY <1>1, <1>2, EngineInvariance, PTL DEF EngineSpec, IP!Spec

\* Through Indexer it implements InvertedIndex: whatever the spider, the server
\* and main do, the tables are always an inverted index of one snapshot of each
\* page, that grows word by word, of one page at a time.
THEOREM EngineImplementsInvertedIndex == EngineSpec => IP!PageByPage
BY EngineImplementsIndexer, IP!ImplementsInvertedIndex, IndexerAssumed, PTL
=============================================================================
