---------------------------- MODULE CrawlProofs ----------------------------
(***************************************************************************)
(* Proofs about Crawl, for every web, number of cores and depth.           *)
(***************************************************************************)
EXTENDS Crawl, FiniteSetTheorems, SequenceTheorems, TLAPS

USE CrawlAssumption

\* The size of a batch is at least 1 and at most the number of cores.
LEMMA NumThreadsRange ==
  NumThreads \in Nat /\ 1 <= NumThreads /\ NumThreads <= Cores
BY DEF NumThreads

\* Any set of workers is finite.
LEMMA WorkersFinite ==
  ASSUME NEW S \in SUBSET Workers
  PROVE  IsFiniteSet(S)
<1>1. IsFiniteSet(Workers)
  BY FS_Interval DEF Workers
<1> QED
  BY <1>1, FS_Subset

\* The workers of a batch, and the entries after it, are what is left of the
\* level when the batch starts.
LEMMA BatchCardinality ==
  ASSUME th \in Nat, url_list_size \in Nat, th < url_list_size
  PROVE  Cardinality(Batch) + AtLeastZero(url_list_size - (th + NumThreads))
           = url_list_size - th
<1> DEFINE left == url_list_size - th
           size == IF left < NumThreads THEN left ELSE NumThreads
<1>1. size \in Nat
  BY NumThreadsRange
<1>2. Batch = 0 .. size - 1
  BY NumThreadsRange DEF Batch, Workers
<1>3. Cardinality(0 .. size - 1) = IF 0 > size - 1 THEN 0 ELSE size - 1 - 0 + 1
  BY <1>1, FS_Interval, 0 \in Int, size - 1 \in Int
<1> QED
  BY <1>1, <1>2, <1>3, NumThreadsRange DEF AtLeastZero

-----------------------------------------------------------------------------
LEMMA InitInv == Init => CrawlInv
<1> SUFFICES ASSUME Init PROVE CrawlInv
  OBVIOUS
<1> USE DEF Init
<1>1. NoUrl \in Url /\ StartUrl \in Url
  BY DEF NoUrl, Url, HostValues
<1>2. TypeOK
  BY <1>1 DEF TypeOK, WorkerPoints, Entry, HostValues, NoWorker
<1>3. \A w \in Workers : wpc[w] = "idle"
  OBVIOUS
<1>4. Barrier /\ RequestKnown /\ HostOfThisBatch /\ LoneHost
        /\ LoneWorkerKeepsHost
  BY <1>3 DEF Barrier, RequestKnown, Requested, HostOfThisBatch, LoneHost,
              LoneWorkerKeepsHost
<1>5. FrontExists
  BY <1>3 DEF FrontExists, Remaining, Popping
<1>6. \A k \in Sections : (state_th[k] <=> mt[k] # NoWorker)
  OBVIOUS
<1>7. \A k \in Sections, w \in Workers : mt[k] # w /\ wpc[w] \notin Section[k]
  BY <1>3 DEF Section, Sections, NoWorker, Workers
<1> QED
  BY <1>2, <1>4, <1>5, <1>6, <1>7 DEF CrawlInv, LockDiscipline

-----------------------------------------------------------------------------
(***************************************************************************)
(* Type correctness.                                                       *)
(***************************************************************************)

\* A worker about to take an entry finds one, and it is an Entry.
LEMMA PopFindsEntry ==
  ASSUME TypeOK, FrontExists, NEW w \in Workers, wpc[w] = "popping"
  PROVE  /\ url_list # <<>>
         /\ Head(url_list) \in Entry
         /\ Tail(url_list) \in Seq(Entry)
         /\ Len(Tail(url_list)) = Len(url_list) - 1
<1>1. url_list # <<>>
  BY DEF FrontExists, Popping
<1> QED
  BY <1>1, HeadTailProperties DEF TypeOK

\* What a push appends is a URL.
LEMMA ResolveIsUrl ==
  ASSUME TypeOK, NEW w \in Workers, parse_url[w] \in Url,
         NEW l \in Link, IsPushed(l)
  PROVE  Resolve(w, l) \in Url
<1>1. link_host[w] \in HostValues /\ parse_url[w].target \in Targets
  BY DEF TypeOK, Url
<1>2. CASE l.kind = "fragment"
  <2>1. l.path \in Targets
    BY <1>2 DEF Link
  <2>2. Extend[parse_url[w].target, l.path] \in Targets
    BY <1>1, <2>1
  <2> QED
    BY <1>1, <1>2, <2>2 DEF Resolve, Url
<1>3. CASE l.kind = "root"
  BY <1>1, <1>3 DEF Resolve, Url, Link
<1>4. CASE l.kind = "absolute"
  BY <1>4 DEF Resolve, Link
<1> QED
  BY <1>2, <1>3, <1>4 DEF IsPushed, Link

LEMMA TypeStep ==
  ASSUME CrawlInv, [Next]_vars
  PROVE  TypeOK'
<1> USE DEF CrawlInv, mainVars, lockVars, pageVars
<1>1. CASE BeginLevel
  BY <1>1 DEF TypeOK, BeginLevel
<1>2. CASE StartBatch
  <2>1. NoUrl \in Entry /\ NoHost \in HostValues
    BY DEF NoUrl, Entry, Url, HostValues
  <2> QED
    BY <1>2, <2>1 DEF TypeOK, StartBatch, WorkerPoints, BeforePop
<1>3. CASE JoinBatch
  BY <1>3, NumThreadsRange DEF TypeOK, JoinBatch
<1>4. CASE EndLevel
  BY <1>4 DEF TypeOK, EndLevel
<1>5. ASSUME NEW w \in Workers, Worker(w) PROVE TypeOK'
  <2> USE DEF At, Goto, Acquire, Release, CvPredicate, WorkerPoints,
              BeforePop, Visiting, Sections
  <2>1. CASE LockQueue(w)
    BY <2>1 DEF TypeOK, LockQueue, Lock
  <2>2. CASE PopUrl(w)
    <3>1. Head(url_list) \in Entry /\ Tail(url_list) \in Seq(Entry)
      BY <2>2, PopFindsEntry DEF PopUrl
    <3>2. Append(Tail(url_list), Junk) \in Seq(Entry)
      BY <3>1, AppendProperties DEF Entry
    <3> QED
      BY <2>2, <3>1, <3>2 DEF TypeOK, PopUrl
  <2>3. CASE LockFetch(w)
    BY <2>3 DEF TypeOK, LockFetch
  <2>4. CASE AssignHost(w)
    <3>1. parse_url[w].host \in HostValues
      BY <2>4 DEF TypeOK, AssignHost, Entry, Url
    <3> QED
      BY <2>4, <3>1 DEF TypeOK, AssignHost, NewHost, HostValues
  <2>5. CASE Respond(w)
    <3>1. PICK a \in Answers[parse_url[w]] :
            \/ a.kind = "redirect" /\ Follow(w, a.url) /\ UNCHANGED links
            \/ /\ a.kind = "page"
               /\ Leave(w, "fetched")
               /\ links' = [links EXCEPT ![w] = a.links]
               /\ UNCHANGED parse_url
            \/ /\ a.kind = "empty"
               /\ Leave(w, "exited")
               /\ UNCHANGED <<parse_url, links>>
      BY <2>5 DEF Respond
    <3>2. parse_url[w] \in Url
      BY <2>5 DEF Respond, RequestKnown, Requested
    <3>3. a \in Answer
      BY <3>1, <3>2
    <3>4. a.kind = "redirect" => a.url \in Entry
      BY <3>3 DEF Answer, Entry
    <3>5. a.kind = "page" => a.links \in Seq(Link)
      BY <3>3 DEF Answer
    <3> QED
      BY <2>5, <3>1, <3>4, <3>5 DEF TypeOK, Respond, Follow, Leave
  <2>6. CASE LockIndex(w)
    BY <2>6 DEF TypeOK, LockIndex, Lock
  <2>7. CASE IndexPage(w)
    BY <2>7 DEF TypeOK, IndexPage
  <2>8. CASE LockExtract(w)
    BY <2>8 DEF TypeOK, LockExtract, Lock
  <2>9. CASE CallExtract(w)
    <3>1. HostReads \subseteq HostValues
      BY DEF TypeOK, HostReads, HostsInAssignment, Assigning, HostValues,
             Entry, Url
    <3> QED
      BY <2>9, <3>1 DEF TypeOK, CallExtract
  <2>10. CASE ExtractLink(w)
    <3>1. Head(links[w]) \in Link /\ Tail(links[w]) \in Seq(Link)
      BY <2>10, HeadTailProperties DEF TypeOK, ExtractLink
    <3>2. parse_url[w] \in Url
      BY <2>10 DEF ExtractLink, RequestKnown, Requested
    <3>3. url_list' \in Seq(Entry)
      <4>1. CASE url_list' = url_list
        BY <4>1 DEF TypeOK
      <4>2. CASE /\ IsPushed(Head(links[w]))
                 /\ url_list' = Append(url_list, Resolve(w, Head(links[w])))
        <5>1. Resolve(w, Head(links[w])) \in Entry
          BY <3>1, <3>2, <4>2, ResolveIsUrl DEF Entry
        <5> QED
          BY <4>2, <5>1, AppendProperties DEF TypeOK
      <4> QED
        BY <2>10, <4>1, <4>2 DEF ExtractLink
    <3> QED
      BY <2>10, <3>1, <3>3 DEF TypeOK, ExtractLink
  <2>11. CASE EndExtract(w)
    BY <2>11 DEF TypeOK, EndExtract
  <2>12. CASE Terminate(w)
    BY <2>12 DEF TypeOK, Terminate
  <2> QED
    BY <1>5, <2>1, <2>2, <2>3, <2>4, <2>5, <2>6, <2>7, <2>8, <2>9, <2>10,
       <2>11, <2>12 DEF Worker
<1>6. CASE UNCHANGED vars
  BY <1>6 DEF TypeOK, vars
<1> QED
  BY <1>1, <1>2, <1>3, <1>4, <1>5, <1>6 DEF Next, Spider, Halt

-----------------------------------------------------------------------------
(***************************************************************************)
(* The barrier and the mutexes.                                            *)
(***************************************************************************)

\* What every action of a worker leaves alone, and where a worker that acts is.
LEMMA WorkerFrame ==
  ASSUME TypeOK, NEW w \in Workers, Worker(w)
  PROVE  /\ mainVars' = mainVars
         /\ wpc[w] \notin {"idle", "exited"}
         /\ \A v \in Workers : v # w => wpc'[v] = wpc[v]
<1> USE DEF TypeOK, mainVars, At, Goto
<1>1. CASE LockQueue(w)
  BY <1>1 DEF LockQueue, Lock
<1>2. CASE PopUrl(w)
  BY <1>2 DEF PopUrl
<1>3. CASE LockFetch(w)
  BY <1>3 DEF LockFetch
<1>4. CASE AssignHost(w)
  BY <1>4 DEF AssignHost
<1>5. CASE Respond(w)
  BY <1>5 DEF Respond, Follow, Leave
<1>6. CASE LockIndex(w)
  BY <1>6 DEF LockIndex, Lock
<1>7. CASE IndexPage(w)
  BY <1>7 DEF IndexPage
<1>8. CASE LockExtract(w)
  BY <1>8 DEF LockExtract, Lock
<1>9. CASE CallExtract(w)
  BY <1>9 DEF CallExtract
<1>10. CASE ExtractLink(w)
  BY <1>10 DEF ExtractLink
<1>11. CASE EndExtract(w)
  BY <1>11 DEF EndExtract
<1>12. CASE Terminate(w)
  BY <1>12 DEF Terminate, Faulty, Popping, Pushing
<1> QED
  BY <1>1, <1>2, <1>3, <1>4, <1>5, <1>6, <1>7, <1>8, <1>9, <1>10, <1>11,
     <1>12 DEF Worker

LEMMA BarrierStep ==
  ASSUME CrawlInv, [Next]_vars
  PROVE  Barrier'
<1> USE DEF CrawlInv, mainVars
<1>1. CASE BeginLevel
  BY <1>1 DEF TypeOK, BeginLevel, Barrier
<1>2. CASE StartBatch
  <2>1. Batch' = Batch
    BY <1>2 DEF StartBatch, Batch, NumThreads
  <2> QED
    BY <1>2, <2>1 DEF TypeOK, StartBatch, Barrier
<1>3. CASE JoinBatch
  BY <1>3 DEF TypeOK, JoinBatch, Barrier
<1>4. CASE EndLevel
  BY <1>4 DEF TypeOK, EndLevel, Barrier
<1>5. ASSUME NEW w \in Workers, Worker(w) PROVE Barrier'
  <2>1. Batch' = Batch
    BY <1>5, WorkerFrame DEF Batch, NumThreads
  <2> QED
    BY <1>5, <2>1, WorkerFrame DEF Barrier
<1>6. CASE UNCHANGED vars
  BY <1>6 DEF vars, Barrier, Batch, NumThreads
<1> QED
  BY <1>1, <1>2, <1>3, <1>4, <1>5, <1>6 DEF Next, Spider, Halt

\* Which program points lie in which critical section.
LEMMA SectionPoints ==
  \A p : \A j \in Sections :
    p \in Section[j] <=> \/ j = 1 /\ p = "popping"
                         \/ j = 2 /\ p \in {"assigning", "requesting"}
                         \/ j = 3 /\ p = "indexing"
                         \/ j = 4 /\ p \in {"calling", "extracting"}
BY DEF Section, Sections

\* Entering section k from outside every section, with its mutex free.
LEMMA EnterSection ==
  ASSUME CrawlInv, NEW w \in Workers, NEW k \in Sections, Acquire(k, w),
         \A v \in Workers : v # w => wpc'[v] = wpc[v],
         \A j \in Sections : /\ wpc[w] \notin Section[j]
                             /\ wpc'[w] \in Section[j] <=> j = k
  PROVE  LockDiscipline'
<1> USE DEF CrawlInv, Acquire, CvPredicate
<1>1. \A j \in Sections : mt'[j] = IF j = k THEN w ELSE mt[j]
  BY DEF TypeOK
<1>2. \A j \in Sections : state_th'[j] = IF j = k THEN TRUE ELSE state_th[j]
  BY DEF TypeOK
<1>3. \A v \in Workers : v # NoWorker
  BY DEF Workers, NoWorker
<1>4. ASSUME NEW j \in Sections PROVE state_th'[j] <=> mt'[j] # NoWorker
  BY ZenonT(30), <1>1, <1>2, <1>3 DEF LockDiscipline
<1>5. ASSUME NEW j \in Sections, NEW v \in Workers
      PROVE  mt'[j] = v <=> wpc'[v] \in Section[j]
  BY <1>1, <1>3 DEF LockDiscipline
<1> QED
  BY <1>4, <1>5 DEF LockDiscipline

\* Leaving section k.
LEMMA LeaveSection ==
  ASSUME CrawlInv, NEW w \in Workers, NEW k \in Sections, Release(k),
         \A v \in Workers : v # w => wpc'[v] = wpc[v],
         \A j \in Sections : /\ wpc[w] \in Section[j] <=> j = k
                             /\ wpc'[w] \notin Section[j]
  PROVE  LockDiscipline'
<1> USE DEF CrawlInv, Release
<1>1. \A j \in Sections : mt'[j] = IF j = k THEN NoWorker ELSE mt[j]
  BY DEF TypeOK
<1>2. \A j \in Sections : state_th'[j] = IF j = k THEN FALSE ELSE state_th[j]
  BY DEF TypeOK
<1>3. \A v \in Workers : v # NoWorker
  BY DEF Workers, NoWorker
<1>4. ASSUME NEW j \in Sections PROVE state_th'[j] <=> mt'[j] # NoWorker
  <2>1. mt'[j] # NoWorker <=> j # k /\ mt[j] # NoWorker
    BY <1>1
  <2>2. state_th'[j] <=> j # k /\ state_th[j]
    BY <1>2
  <2> QED
    BY <2>1, <2>2 DEF LockDiscipline
<1>5. ASSUME NEW j \in Sections, NEW v \in Workers
      PROVE  mt'[j] = v <=> wpc'[v] \in Section[j]
  BY <1>1, <1>3 DEF LockDiscipline
<1> QED
  BY <1>4, <1>5 DEF LockDiscipline

\* Staying in the same section, or outside all of them.
LEMMA StayInSection ==
  ASSUME CrawlInv, lockVars' = lockVars,
         \A j \in Sections, v \in Workers :
           wpc'[v] \in Section[j] <=> wpc[v] \in Section[j]
  PROVE  LockDiscipline'
<1>1. \A j \in Sections : (state_th'[j] <=> mt'[j] # NoWorker)
  BY DEF CrawlInv, LockDiscipline, lockVars
<1>2. \A j \in Sections, v \in Workers : mt'[j] = v <=> wpc'[v] \in Section[j]
  BY DEF CrawlInv, LockDiscipline, lockVars
<1> QED
  BY <1>1, <1>2 DEF LockDiscipline

LEMMA LockStep ==
  ASSUME CrawlInv, [Next]_vars
  PROVE  LockDiscipline'
<1> USE SectionPoints DEF Sections
<1>1. TypeOK
  BY DEF CrawlInv
<1>2. ASSUME Spider PROVE LockDiscipline'
  <2>1. lockVars' = lockVars
    BY <1>2 DEF Spider, BeginLevel, StartBatch, JoinBatch, EndLevel
  <2>2. ASSUME NEW j \in Sections, NEW v \in Workers
        PROVE  wpc'[v] \in Section[j] <=> wpc[v] \in Section[j]
    <3>1. CASE StartBatch
      <4>1. wpc[v] \in {"idle", "exited"}
        BY <3>1 DEF CrawlInv, Barrier, StartBatch
      <4>2. wpc'[v] \in {"start", "idle"}
        BY <3>1 DEF StartBatch
      <4> QED
        BY <4>1, <4>2
    <3>2. CASE wpc' = wpc
      BY <3>2
    <3> QED
      BY <1>2, <3>1, <3>2 DEF Spider, BeginLevel, JoinBatch, EndLevel
  <2> QED
    BY <2>1, <2>2, StayInSection
<1>3. ASSUME NEW w \in Workers, Worker(w) PROVE LockDiscipline'
  <2>1. \A v \in Workers : v # w => wpc'[v] = wpc[v]
    BY <1>1, <1>3, WorkerFrame
  <2>2. CASE LockQueue(w)
    <3>1. Acquire(1, w) /\ wpc[w] = "start" /\ wpc'[w] = "popping"
      BY <1>1, <2>2 DEF TypeOK, LockQueue, Lock, Goto, At
    <3> QED
      BY <2>1, <3>1, EnterSection
  <2>3. CASE PopUrl(w)
    <3>1. Release(1) /\ wpc[w] = "popping" /\ wpc'[w] = "popped"
      BY <1>1, <2>3 DEF TypeOK, PopUrl, Goto, At
    <3> QED
      BY <2>1, <3>1, LeaveSection
  <2>4. CASE LockFetch(w)
    <3>1. Acquire(2, w) /\ wpc[w] = "popped" /\ wpc'[w] = "assigning"
      BY <1>1, <2>4 DEF TypeOK, LockFetch, Goto, At
    <3> QED
      BY <2>1, <3>1, EnterSection
  <2>5. CASE AssignHost(w)
    <3>1. lockVars' = lockVars /\ wpc[w] = "assigning" /\ wpc'[w] = "requesting"
      BY <1>1, <2>5 DEF TypeOK, AssignHost, Goto, At
    <3> QED
      BY <2>1, <3>1, StayInSection
  <2>6. CASE Respond(w)
    <3>1. wpc[w] = "requesting"
      BY <2>6 DEF Respond, At
    <3>2. CASE \E u : Follow(w, u)
      <4>1. lockVars' = lockVars /\ wpc'[w] = "assigning"
        BY <1>1, <3>2 DEF TypeOK, Follow, lockVars
      <4> QED
        BY <2>1, <3>1, <4>1, StayInSection
    <3>3. CASE \E p \in {"fetched", "exited"} : Leave(w, p)
      <4>1. Release(2) /\ wpc'[w] \in {"fetched", "exited"}
        BY <1>1, <3>3 DEF TypeOK, Leave
      <4> QED
        BY <2>1, <3>1, <4>1, LeaveSection
    <3> QED
      BY <2>6, <3>2, <3>3 DEF Respond
  <2>7. CASE LockIndex(w)
    <3>1. Acquire(3, w) /\ wpc[w] = "fetched" /\ wpc'[w] = "indexing"
      BY <1>1, <2>7 DEF TypeOK, LockIndex, Lock, Goto, At
    <3> QED
      BY <2>1, <3>1, EnterSection
  <2>8. CASE IndexPage(w)
    <3>1. Release(3) /\ wpc[w] = "indexing" /\ wpc'[w] = "indexed"
      BY <1>1, <2>8 DEF TypeOK, IndexPage, Goto, At
    <3> QED
      BY <2>1, <3>1, LeaveSection
  <2>9. CASE LockExtract(w)
    <3>1. Acquire(4, w) /\ wpc[w] = "indexed" /\ wpc'[w] = "calling"
      BY <1>1, <2>9 DEF TypeOK, LockExtract, Lock, Goto, At
    <3> QED
      BY <2>1, <3>1, EnterSection
  <2>10. CASE CallExtract(w)
    <3>1. lockVars' = lockVars /\ wpc[w] = "calling" /\ wpc'[w] = "extracting"
      BY <1>1, <2>10 DEF TypeOK, CallExtract, Goto, At
    <3> QED
      BY <2>1, <3>1, StayInSection
  <2>11. CASE ExtractLink(w)
    BY <2>11, StayInSection DEF ExtractLink
  <2>12. CASE EndExtract(w)
    <3>1. Release(4) /\ wpc[w] = "extracting" /\ wpc'[w] = "exited"
      BY <1>1, <2>12 DEF TypeOK, EndExtract, Goto, At
    <3> QED
      BY <2>1, <3>1, LeaveSection
  <2>13. CASE Terminate(w)
    BY <2>13, StayInSection DEF Terminate
  <2> QED
    BY <1>3, <2>2, <2>3, <2>4, <2>5, <2>6, <2>7, <2>8, <2>9, <2>10, <2>11,
       <2>12, <2>13 DEF Worker
<1>4. CASE UNCHANGED vars
  BY <1>4, StayInSection DEF vars
<1> QED
  BY <1>2, <1>3, <1>4 DEF Next, Halt

-----------------------------------------------------------------------------
(***************************************************************************)
(* The front of the queue.                                                 *)
(***************************************************************************)

\* Only PopUrl shortens url_list or claims an entry of the level.
LEMMA UnclaimedFrame ==
  ASSUME CrawlInv, NEW w \in Workers, Worker(w), ~PopUrl(w)
  PROVE  /\ Unclaimed' = Unclaimed
         /\ \/ url_list' = url_list
            \/ /\ wpc[w] = "extracting" /\ wpc' = wpc
               /\ \E u \in Url : url_list' = Append(url_list, u)
<1> USE DEF CrawlInv, TypeOK, Unclaimed, BeforePop, At, Goto
<1>1. CASE LockQueue(w)
  BY <1>1 DEF LockQueue, Lock
<1>2. CASE LockFetch(w)
  BY <1>2 DEF LockFetch
<1>3. CASE AssignHost(w)
  BY <1>3 DEF AssignHost
<1>4. CASE Respond(w)
  BY <1>4 DEF Respond, Follow, Leave
<1>5. CASE LockIndex(w)
  BY <1>5 DEF LockIndex, Lock
<1>6. CASE IndexPage(w)
  BY <1>6 DEF IndexPage
<1>7. CASE LockExtract(w)
  BY <1>7 DEF LockExtract, Lock
<1>8. CASE CallExtract(w)
  BY <1>8 DEF CallExtract
<1>9. CASE ExtractLink(w)
  <2>1. Head(links[w]) \in Link /\ parse_url[w] \in Url
    BY <1>9, HeadTailProperties DEF ExtractLink, RequestKnown, Requested
  <2>2. IsPushed(Head(links[w])) => Resolve(w, Head(links[w])) \in Url
    BY <2>1, ResolveIsUrl
  <2> QED
    BY <1>9, <2>2 DEF ExtractLink
<1>10. CASE EndExtract(w)
  BY <1>10 DEF EndExtract
<1>11. CASE Terminate(w)
  BY <1>11 DEF Terminate
<1> QED
  BY <1>1, <1>2, <1>3, <1>4, <1>5, <1>6, <1>7, <1>8, <1>9, <1>10, <1>11
     DEF Worker

\* A pop takes one entry from the current level, and with it the claim of one
\* worker.
LEMMA PopRemaining ==
  ASSUME CrawlInv, NEW w \in Workers, PopUrl(w)
  PROVE  /\ mpc = "join"
         /\ w \in Unclaimed
         /\ Remaining' = Remaining - 1
         /\ Remaining \in Nat \ {0}
<1>1. wpc[w] = "popping" /\ mpc = "join" /\ mainVars' = mainVars
  BY DEF CrawlInv, Barrier, PopUrl, Goto, At
<1>2. Unclaimed' = Unclaimed \ {w} /\ w \in Unclaimed
  BY <1>1 DEF CrawlInv, TypeOK, PopUrl, Goto, Unclaimed, BeforePop
<1>3. IsFiniteSet(Unclaimed)
  BY WorkersFinite DEF Unclaimed
<1>4. /\ Cardinality(Unclaimed') = Cardinality(Unclaimed) - 1
      /\ Cardinality(Unclaimed) \in Nat
      /\ Cardinality(Unclaimed) # 0
  BY <1>2, <1>3, FS_RemoveElement, FS_CardinalityType, FS_EmptySet
<1>5. AtLeastZero(url_list_size - (th + NumThreads)) \in Nat
  BY NumThreadsRange DEF CrawlInv, TypeOK, AtLeastZero
<1>6. AtLeastZero(url_list_size - (th + NumThreads))'
        = AtLeastZero(url_list_size - (th + NumThreads))
  BY <1>1 DEF mainVars, AtLeastZero, NumThreads
<1> QED
  BY <1>1, <1>2, <1>4, <1>5, <1>6 DEF Remaining, mainVars

LEMMA RemainingStep ==
  ASSUME CrawlInv, [Next]_vars
  PROVE  Remaining' <= Len(url_list')
<1> USE DEF AtLeastZero
<1>1. /\ TypeOK /\ Barrier
      /\ Remaining <= Len(url_list)
      /\ Len(url_list) \in Nat
  BY DEF CrawlInv, TypeOK, FrontExists
<1>2. CASE BeginLevel
  BY <1>1, <1>2 DEF BeginLevel, Remaining
<1>3. CASE StartBatch
  <2>1. Unclaimed' = Batch
    BY <1>1, <1>3 DEF TypeOK, StartBatch, Unclaimed, BeforePop, Batch
  <2>2. Remaining = url_list_size - th
    BY <1>1, <1>3 DEF TypeOK, StartBatch, Remaining
  <2>3. Remaining' = Cardinality(Batch)
                       + AtLeastZero(url_list_size - (th + NumThreads))
    BY <1>3, <2>1 DEF StartBatch, Remaining, NumThreads
  <2>4. Remaining' = url_list_size - th
    BY <1>1, <1>3, <2>3, BatchCardinality DEF TypeOK, StartBatch
  <2> QED
    BY <1>1, <1>3, <2>2, <2>4 DEF StartBatch
<1>4. CASE JoinBatch
  <2>1. Unclaimed = {}
    BY <1>4 DEF JoinBatch, Unclaimed, BeforePop
  <2>2. Remaining = AtLeastZero(url_list_size - (th + NumThreads))
    BY <1>1, <1>4, <2>1, FS_EmptySet, NumThreadsRange
       DEF TypeOK, JoinBatch, Remaining
  <2>3. Remaining' = AtLeastZero(url_list_size - (th + NumThreads))
    BY <1>4 DEF JoinBatch, Remaining
  <2> QED
    BY <1>1, <1>4, <2>2, <2>3 DEF JoinBatch
<1>5. CASE EndLevel
  BY <1>1, <1>5 DEF EndLevel, Remaining
<1>6. ASSUME NEW w \in Workers, PopUrl(w)
      PROVE  Remaining' <= Len(url_list')
  <2>1. Remaining' = Remaining - 1 /\ Remaining \in Nat
    BY <1>6, PopRemaining
  <2>2. Len(url_list') >= Len(url_list) - 1 /\ Len(url_list') \in Nat
    <3>1. Tail(url_list) \in Seq(Entry) /\ Len(Tail(url_list)) = Len(url_list) - 1
      BY <1>6, PopFindsEntry DEF CrawlInv, PopUrl, Goto, At
    <3>2. Len(Append(Tail(url_list), Junk)) = Len(url_list)
      BY <1>1, <3>1, AppendProperties DEF Entry
    <3> QED
      BY <1>1, <1>6, <3>1, <3>2 DEF PopUrl
  <2> QED
    BY <1>1, <2>1, <2>2
<1>7. ASSUME NEW w \in Workers, Worker(w), ~PopUrl(w)
      PROVE  Remaining' <= Len(url_list')
  <2>1. mainVars' = mainVars /\ mpc = "join"
    BY <1>1, <1>7, WorkerFrame DEF Barrier
  <2>2. Unclaimed' = Unclaimed
    BY <1>7, UnclaimedFrame
  <2>3. Remaining' = Remaining
    BY <2>1, <2>2 DEF Remaining, mainVars, NumThreads
  <2>4. Len(url_list') \in {Len(url_list), Len(url_list) + 1}
    BY <1>1, <1>7, UnclaimedFrame, AppendProperties DEF TypeOK, Entry
  <2>5. Remaining \in Nat
    <3>1. Cardinality(Unclaimed) \in Nat
      BY WorkersFinite, FS_CardinalityType DEF Unclaimed
    <3> QED
      BY <1>1, <2>1, <3>1, NumThreadsRange DEF TypeOK, Remaining
  <2> QED
    BY <1>1, <2>3, <2>4, <2>5
<1>8. CASE UNCHANGED vars
  <2>1. Remaining' = Remaining
    BY <1>8 DEF vars, mainVars, Remaining, Unclaimed, NumThreads
  <2> QED
    BY <1>1, <1>8, <2>1 DEF vars
<1> QED
  BY <1>2, <1>3, <1>4, <1>5, <1>6, <1>7, <1>8 DEF Next, Spider, Halt

\* No worker is between lock and pop unless an entry of the level is left.
LEMMA FrontStep ==
  ASSUME CrawlInv, [Next]_vars
  PROVE  FrontExists'
<1>1. TypeOK' /\ Barrier' /\ Remaining' <= Len(url_list')
  BY TypeStep, BarrierStep, RemainingStep
<1>2. ASSUME Popping' # {} PROVE url_list' # <<>>
  <2>1. mpc' = "join" /\ Unclaimed' # {}
    BY <1>1, <1>2 DEF Barrier, Popping, Unclaimed, BeforePop
  <2>2. IsFiniteSet(Unclaimed')
    BY WorkersFinite DEF Unclaimed
  <2>3. Cardinality(Unclaimed') \in Nat \ {0}
    BY <2>1, <2>2, FS_CardinalityType, FS_EmptySet
  <2>4. Remaining' # 0 /\ Remaining' \in Nat
    <3>1. th' \in Nat /\ url_list_size' \in Nat
      BY <1>1 DEF TypeOK
    <3> DEFINE after == url_list_size' - (th' + NumThreads')
    <3>2. after \in Int
      BY <3>1 DEF NumThreads
    <3>3. Remaining' = Cardinality(Unclaimed') + AtLeastZero(after)
      BY <2>1 DEF Remaining
    <3>4. AtLeastZero(after) \in Nat
      BY <3>2 DEF AtLeastZero
    <3> HIDE DEF after
    <3> QED
      BY <2>3, <3>3, <3>4
  <2>5. Len(url_list') # 0
    BY <1>1, <2>4 DEF TypeOK
  <2> QED
    BY <2>5
<1> QED
  BY <1>1, <1>2 DEF FrontExists

-----------------------------------------------------------------------------
(***************************************************************************)
(* The host that links are attached to.                                    *)
(***************************************************************************)

\* Between two batches nobody has made a request, and none of the four facts
\* about hosts says anything.
LEMMA NobodyRequested ==
  ASSUME \A w \in Workers : wpc'[w] \notin Requested
  PROVE  RequestKnown' /\ HostOfThisBatch' /\ LoneHost' /\ LoneWorkerKeepsHost'
BY DEF RequestKnown, HostOfThisBatch, LoneHost, LoneWorkerKeepsHost, Requested

LEMMA SpiderHosts ==
  ASSUME CrawlInv, Spider
  PROVE  RequestKnown' /\ HostOfThisBatch' /\ LoneHost' /\ LoneWorkerKeepsHost'
<1>1. ASSUME NEW w \in Workers PROVE wpc'[w] \in {"idle", "exited", "start"}
  <2>1. CASE StartBatch
    BY <2>1 DEF StartBatch
  <2>2. CASE JoinBatch
    BY <2>2 DEF JoinBatch
  <2>3. CASE BeginLevel \/ EndLevel
    BY <2>3 DEF BeginLevel, EndLevel, CrawlInv, Barrier
  <2> QED
    BY <2>1, <2>2, <2>3 DEF Spider
<1> QED
  BY <1>1, NobodyRequested DEF Requested

\* What a worker may have done to the shared host by the end of its step.
LEMMA AssignHostHosts ==
  ASSUME CrawlInv, NEW w \in Workers, AssignHost(w)
  PROVE  RequestKnown' /\ HostOfThisBatch' /\ LoneHost' /\ LoneWorkerKeepsHost'
<1> DEFINE h == parse_url[w].host
<1>1. /\ TypeOK /\ Barrier /\ LockDiscipline /\ RequestKnown
      /\ HostOfThisBatch /\ LoneHost /\ LoneWorkerKeepsHost
  BY DEF CrawlInv
<1>2. /\ wpc[w] = "assigning" /\ wpc' = [wpc EXCEPT ![w] = "requesting"]
      /\ parse_url[w] # Junk /\ host' = h
      /\ batch_hosts' = batch_hosts \cup {h}
      /\ parse_url' = parse_url /\ link_host' = link_host
      /\ mainVars' = mainVars
  BY DEF AssignHost, NewHost, Goto, At, pageVars
<1>3. parse_url[w] \in Url
  BY <1>1, <1>2 DEF TypeOK, Entry
<1>4. Batch' = Batch
  BY <1>2 DEF Batch, NumThreads, mainVars
<1>5. \A v \in Workers : wpc'[v] = IF v = w THEN "requesting" ELSE wpc[v]
  BY <1>1, <1>2 DEF TypeOK
<1>6. RequestKnown'
  BY <1>1, <1>2, <1>3, <1>5 DEF RequestKnown, Requested
<1>7. HostsInAssignment \subseteq HostsInAssignment' \cup {h}
  BY <1>2, <1>5 DEF HostsInAssignment, Assigning
<1>8. HostOfThisBatch'
  BY <1>1, <1>2, <1>5, <1>7 DEF HostOfThisBatch
<1>9. ASSUME NEW v \in Workers, Batch = {v} PROVE v = w
  BY <1>1, <1>2, <1>9 DEF Barrier
<1>10. LoneHost'
  BY <1>2, <1>4, <1>9 DEF LoneHost
<1>11. LoneWorkerKeepsHost'
  BY <1>1, <1>2, <1>4, <1>5 DEF LoneWorkerKeepsHost
<1> QED
  BY <1>6, <1>8, <1>10, <1>11

LEMMA CallExtractHosts ==
  ASSUME CrawlInv, NEW w \in Workers, CallExtract(w)
  PROVE  RequestKnown' /\ HostOfThisBatch' /\ LoneHost' /\ LoneWorkerKeepsHost'
<1>1. /\ TypeOK /\ Barrier /\ RequestKnown
      /\ HostOfThisBatch /\ LoneHost /\ LoneWorkerKeepsHost
  BY DEF CrawlInv
<1>2. PICK h \in HostReads : link_host' = [link_host EXCEPT ![w] = h]
  BY DEF CallExtract
<1>3. /\ wpc[w] = "calling" /\ wpc' = [wpc EXCEPT ![w] = "extracting"]
      /\ parse_url' = parse_url /\ host' = host /\ batch_hosts' = batch_hosts
      /\ mainVars' = mainVars
  BY DEF CallExtract, Goto, At
<1>4. Batch' = Batch
  BY <1>3 DEF Batch, NumThreads, mainVars
<1>5. \A v \in Workers :
        /\ wpc'[v] = IF v = w THEN "extracting" ELSE wpc[v]
        /\ link_host'[v] = IF v = w THEN h ELSE link_host[v]
  BY <1>1, <1>2, <1>3 DEF TypeOK
<1>6. RequestKnown'
  BY <1>1, <1>3, <1>5 DEF RequestKnown, Requested
<1>7. HostsInAssignment' = HostsInAssignment
  BY <1>3, <1>5 DEF HostsInAssignment, Assigning
<1>8. host \in batch_hosts
  BY <1>1, <1>3 DEF RequestKnown, Requested
<1>9. HostOfThisBatch'
  BY <1>1, <1>3, <1>5, <1>7, <1>8 DEF HostOfThisBatch, HostReads
<1>10. LoneHost'
  BY <1>1, <1>3, <1>4, <1>5 DEF LoneHost, Requested
<1>11. ASSUME NEW v \in Workers, Batch = {v}, wpc'[v] = "extracting"
       PROVE  link_host'[v] = parse_url[v].host
  <2>1. v = w
    BY <1>1, <1>3, <1>11 DEF Barrier
  <2>2. Assigning = {}
    BY <1>1, <1>3, <1>11, <2>1 DEF Assigning, Barrier
  <2>3. h = host
    BY <2>2 DEF HostReads, HostsInAssignment
  <2> QED
    BY <1>1, <1>3, <1>5, <1>11, <2>1, <2>3 DEF LoneHost, Requested
<1>12. LoneWorkerKeepsHost'
  BY <1>3, <1>4, <1>11 DEF LoneWorkerKeepsHost
<1> QED
  BY <1>6, <1>9, <1>10, <1>12

\* A redirect takes a worker back to before its request: nothing is claimed of
\* it until it has assigned `host` again.
LEMMA RespondHosts ==
  ASSUME CrawlInv, NEW w \in Workers, Respond(w)
  PROVE  RequestKnown' /\ HostOfThisBatch' /\ LoneHost' /\ LoneWorkerKeepsHost'
<1>1. /\ TypeOK /\ Barrier /\ RequestKnown
      /\ HostOfThisBatch /\ LoneHost /\ LoneWorkerKeepsHost
  BY DEF CrawlInv
<1>2. /\ wpc[w] = "requesting" /\ link_host' = link_host /\ host' = host
      /\ batch_hosts' = batch_hosts /\ mainVars' = mainVars
  BY DEF Respond, At
<1>3. Batch' = Batch
  BY <1>2 DEF Batch, NumThreads, mainVars
<1>4. /\ wpc'[w] \in {"assigning", "fetched", "exited"}
      /\ wpc'[w] # "assigning" => parse_url' = parse_url
      /\ \A v \in Workers :
           v # w => wpc'[v] = wpc[v] /\ parse_url'[v] = parse_url[v]
  BY <1>1 DEF TypeOK, Respond, Follow, Leave
<1>5. RequestKnown'
  BY <1>1, <1>2, <1>4 DEF RequestKnown, Requested
<1>6. HostsInAssignment \subseteq HostsInAssignment'
  BY <1>2, <1>4 DEF HostsInAssignment, Assigning
<1>7. HostOfThisBatch'
  BY <1>1, <1>2, <1>4, <1>6 DEF HostOfThisBatch
<1>8. LoneHost' /\ LoneWorkerKeepsHost'
  BY <1>1, <1>2, <1>3, <1>4 DEF LoneHost, LoneWorkerKeepsHost, Requested
<1> QED
  BY <1>5, <1>7, <1>8

\* The other steps of a worker.
LEMMA OtherHosts ==
  ASSUME CrawlInv, NEW w \in Workers, Worker(w),
         ~AssignHost(w), ~CallExtract(w), ~Respond(w)
  PROVE  RequestKnown' /\ HostOfThisBatch' /\ LoneHost' /\ LoneWorkerKeepsHost'
<1>1. /\ TypeOK /\ Barrier /\ RequestKnown
      /\ HostOfThisBatch /\ LoneHost /\ LoneWorkerKeepsHost
  BY DEF CrawlInv
<1>2. Batch' = Batch /\ \A v \in Workers : v # w => wpc'[v] = wpc[v]
  BY <1>1, WorkerFrame DEF Batch, NumThreads, mainVars
<1>3. host' = host /\ batch_hosts' = batch_hosts /\ link_host' = link_host
  BY DEF Worker, LockQueue, PopUrl, LockFetch, LockIndex, IndexPage,
         LockExtract, ExtractLink, EndExtract, Terminate, Lock, pageVars
<1>4. /\ \A v \in Workers : v # w => parse_url'[v] = parse_url[v]
      /\ ~LockFetch(w) => parse_url' = parse_url
  BY <1>1 DEF TypeOK, Worker, LockQueue, PopUrl, LockFetch, LockIndex,
         IndexPage, LockExtract, ExtractLink, EndExtract, Terminate, Lock,
         pageVars
<1>5. /\ wpc'[w] \in Requested => wpc[w] \in Requested
      /\ wpc'[w] = "extracting" => wpc[w] = "extracting"
      /\ wpc'[w] \in Requested \ {"extracting"} =>
           wpc[w] \in Requested \ {"extracting"}
      /\ wpc[w] = "assigning" => wpc'[w] = "assigning"
      /\ LockFetch(w) => wpc[w] \notin Requested /\ wpc'[w] \notin Requested
      /\ LockFetch(w) => wpc[w] # "assigning"
  BY <1>1 DEF TypeOK, Worker, LockQueue, PopUrl, LockFetch, LockIndex,
         IndexPage, LockExtract, ExtractLink, EndExtract, Terminate, Lock,
         Goto, At, Requested
<1>6. RequestKnown'
  BY <1>1, <1>2, <1>3, <1>4, <1>5 DEF RequestKnown
<1>7. HostsInAssignment \subseteq HostsInAssignment'
  <2>1. ASSUME NEW v \in Assigning
        PROVE  v \in Assigning' /\ parse_url'[v] = parse_url[v]
    BY <1>2, <1>4, <1>5, <2>1 DEF Assigning
  <2> QED
    BY <2>1 DEF HostsInAssignment
<1>8. HostOfThisBatch'
  BY <1>1, <1>2, <1>3, <1>5, <1>7 DEF HostOfThisBatch
<1>9. LoneHost'
  BY <1>1, <1>2, <1>3, <1>4, <1>5 DEF LoneHost
<1>10. LoneWorkerKeepsHost'
  BY <1>1, <1>2, <1>3, <1>4, <1>5 DEF LoneWorkerKeepsHost, Requested
<1> QED
  BY <1>6, <1>8, <1>9, <1>10

LEMMA HostStep ==
  ASSUME CrawlInv, [Next]_vars
  PROVE  RequestKnown' /\ HostOfThisBatch' /\ LoneHost' /\ LoneWorkerKeepsHost'
<1>1. ASSUME NEW w \in Workers, Worker(w)
      PROVE  RequestKnown' /\ HostOfThisBatch' /\ LoneHost'
               /\ LoneWorkerKeepsHost'
  BY <1>1, AssignHostHosts, CallExtractHosts, RespondHosts, OtherHosts
<1>2. CASE UNCHANGED vars
  BY <1>2 DEF vars, mainVars, lockVars, pageVars, CrawlInv, RequestKnown,
     HostOfThisBatch, LoneHost, LoneWorkerKeepsHost, HostsInAssignment,
     Assigning, Batch, NumThreads
<1> QED
  BY <1>1, <1>2, SpiderHosts DEF Next, Halt

-----------------------------------------------------------------------------
(***************************************************************************)
(* Theorems.                                                               *)
(***************************************************************************)

LEMMA CrawlInvStep == CrawlInv /\ [Next]_vars => CrawlInv'
BY TypeStep, BarrierStep, FrontStep, LockStep, HostStep DEF CrawlInv

\* CrawlInv holds in every reachable state of RunSpider.
THEOREM Invariance == Spec => []CrawlInv
BY InitInv, CrawlInvStep, PTL DEF Spec

\* Whatever the web answers and however the workers interleave, every variable
\* of RunSpider keeps its type: what is popped is a URL somebody pushed, or the
\* slot a race left behind.
THEOREM TypeCorrect == Spec => []TypeOK
<1>1. CrawlInv => TypeOK
  BY DEF CrawlInv
<1> QED
  BY Invariance, <1>1, PTL

\* front() and pop() are never called on an empty queue.
THEOREM PopsFindAnEntry == Spec => []FrontExists
<1>1. CrawlInv => FrontExists
  BY DEF CrawlInv
<1> QED
  BY Invariance, <1>1, PTL

\* Each of the four critical sections holds at most one worker, the owner of
\* its mutex, and each flag says whether there is one.
THEOREM MutualExclusion == Spec => []LockDiscipline
<1>1. CrawlInv => LockDiscipline
  BY DEF CrawlInv
<1> QED
  BY Invariance, <1>1, PTL

\* Links are attached to a host some worker of the same batch asked, or asks,
\* for, or to a torn copy.
THEOREM HostOfLinks == Spec => []HostOfThisBatch
<1>1. CrawlInv => HostOfThisBatch
  BY DEF CrawlInv
<1> QED
  BY Invariance, <1>1, PTL

\* A worker alone in its batch attaches them to the host of its own page.
THEOREM LoneHostOfLinks == Spec => []LoneWorkerKeepsHost
<1>1. CrawlInv => LoneWorkerKeepsHost
  BY DEF CrawlInv
<1> QED
  BY Invariance, <1>1, PTL

-----------------------------------------------------------------------------
(***************************************************************************)
(* A worker that waits for a stalled peer.                                 *)
(***************************************************************************)

\* Wherever a stalled peer sends a request, it is another one.
LEMMA StalledAnswers ==
  ASSUME NEW u \in Stalled, NEW a \in Answers[u]
  PROVE  a.kind = "redirect" /\ a.url \in Stalled
BY DEF Stalled

\* The worker goes round HandleUrl's loop, and mt[2] is its own meanwhile.
StuckAt(w) ==
  wpc[w] \in {"assigning", "requesting"} /\ parse_url[w] \in Stalled

LEMMA StuckStep ==
  ASSUME CrawlInv, NEW w \in Workers, StuckAt(w), [Next]_vars
  PROVE  StuckAt(w)'
<1>1. TypeOK /\ Barrier /\ LockDiscipline
  BY DEF CrawlInv
<1>2. mpc = "join" /\ mt[2] = w
  BY <1>1, SectionPoints DEF Barrier, LockDiscipline, StuckAt, Sections
<1>3. parse_url[w] \in Url /\ parse_url[w] # Junk
  BY DEF StuckAt, Stalled
<1>4. CASE Spider
  BY <1>2, <1>4 DEF Spider, BeginLevel, StartBatch, JoinBatch, EndLevel, StuckAt
<1>5. ASSUME NEW v \in Workers, v # w, Worker(v)
      PROVE  wpc'[w] = wpc[w] /\ parse_url'[w] = parse_url[w]
  <2>1. wpc'[w] = wpc[w]
    BY <1>1, <1>5, WorkerFrame
  <2>2. parse_url'[w] = parse_url[w]
    BY <1>1, <1>5
       DEF TypeOK, Worker, LockQueue, PopUrl, LockFetch, AssignHost, Respond,
           Follow, Leave, LockIndex, IndexPage, LockExtract, CallExtract,
           ExtractLink, EndExtract, Terminate, Lock, pageVars
  <2> QED
    BY <2>1, <2>2
<1>6. CASE AssignHost(w)
  BY <1>1, <1>6 DEF TypeOK, AssignHost, Goto, At, pageVars, StuckAt
<1>7. CASE Respond(w)
  <2>1. PICK a \in Answers[parse_url[w]] :
          \/ a.kind = "redirect" /\ Follow(w, a.url)
          \/ a.kind \in {"page", "empty"}
    BY <1>7 DEF Respond
  <2>2. a.kind = "redirect" /\ a.url \in Stalled
    BY StalledAnswers DEF StuckAt
  <2> QED
    BY <1>1, <2>1, <2>2 DEF TypeOK, Follow, StuckAt
<1>8. CASE Terminate(w)
  BY <1>8 DEF Terminate, pageVars, StuckAt
<1>9. Worker(w) => AssignHost(w) \/ Respond(w) \/ Terminate(w)
  BY DEF StuckAt, Worker, LockQueue, PopUrl, LockFetch, LockIndex, IndexPage,
         LockExtract, CallExtract, ExtractLink, EndExtract, Lock, Goto, At
<1>10. CASE UNCHANGED vars
  BY <1>10 DEF vars, pageVars, StuckAt
<1> QED
  BY <1>4, <1>5, <1>6, <1>7, <1>8, <1>9, <1>10 DEF Next, Halt, StuckAt

\* A worker whose peer never answers, or redirects for ever among peers of that
\* kind, keeps mt[2] for ever, and the spider thread stays in the join of its
\* batch: whatever the others do, and the end of the program included.
THEOREM StallsNeverEnd == Spec => StallIsForever
<1>1. ASSUME NEW w \in Workers
      PROVE  Spec => [](wpc[w] = "requesting" /\ parse_url[w] \in Stalled
                          => [](mpc = "join" /\ mt[2] = w))
  <2>1. wpc[w] = "requesting" /\ parse_url[w] \in Stalled => StuckAt(w)
    BY DEF StuckAt
  <2>2. CrawlInv /\ StuckAt(w) => mpc = "join" /\ mt[2] = w
    BY SectionPoints
       DEF CrawlInv, Barrier, LockDiscipline, StuckAt, Sections
  <2>3. CrawlInv /\ StuckAt(w) /\ [Next]_vars => StuckAt(w)'
    BY StuckStep
  <2> QED
    BY <2>1, <2>2, <2>3, Invariance, PTL DEF Spec
<1> QED
  BY <1>1 DEF StallIsForever

-----------------------------------------------------------------------------
(***************************************************************************)
(* RunSpider implements LevelCrawl: one queue, and the length it had when  *)
(* a level began, keep the levels apart, whatever the web, the number of   *)
(* cores and the interleaving of the workers.                              *)
(***************************************************************************)

HIDE CrawlAssumption

(***************************************************************************)
(* A queue split in two: the first r entries, and the others.              *)
(***************************************************************************)

LEMMA SplitTypes ==
  ASSUME NEW S, NEW s \in Seq(S), NEW r \in 0 .. Len(s)
  PROVE  /\ SubSeq(s, 1, r) \in Seq(S)
         /\ Len(SubSeq(s, 1, r)) = r
         /\ \A i \in 1 .. r : SubSeq(s, 1, r)[i] = s[i]
         /\ SubSeq(s, r + 1, Len(s)) \in Seq(S)
         /\ Len(SubSeq(s, r + 1, Len(s))) = Len(s) - r
         /\ \A i \in 1 .. Len(s) - r : SubSeq(s, r + 1, Len(s))[i] = s[r + i]
<1>1. \A i \in 1 .. Len(s) : s[i] \in S
  BY ElementOfSeq
<1> QED
  BY <1>1

\* All of the queue is one part, and the other is empty.
LEMMA SplitNowhere ==
  ASSUME NEW S, NEW s \in Seq(S)
  PROVE  /\ SubSeq(s, 1, Len(s)) = s
         /\ SubSeq(s, Len(s) + 1, Len(s)) = <<>>
         /\ SubSeq(s, 1, 0) = <<>>
BY SubSeqFull, SubSeqEmpty, LenProperties

\* A pop takes the first entry of the first part.
LEMMA SplitPop ==
  ASSUME NEW S, NEW s \in Seq(S), s # <<>>, NEW r \in 1 .. Len(s)
  PROVE  /\ SubSeq(s, 1, r) # <<>>
         /\ SubSeq(Tail(s), 1, r - 1) = Tail(SubSeq(s, 1, r))
         /\ SubSeq(Tail(s), (r - 1) + 1, Len(Tail(s)))
              = SubSeq(s, r + 1, Len(s))
<1> DEFINE t == Tail(s)
           tFront == SubSeq(t, 1, r - 1)
           tRest == SubSeq(t, (r - 1) + 1, Len(t))
           front == SubSeq(s, 1, r)
           rest == SubSeq(s, r + 1, Len(s))
<1>1. /\ t \in Seq(S) /\ Len(t) = Len(s) - 1 /\ Len(s) \in Nat
      /\ \A i \in 1 .. Len(t) : t[i] = s[i + 1]
  BY HeadTailProperties, LenProperties
<1>2. r - 1 \in 0 .. Len(t) /\ r \in 0 .. Len(s)
  BY <1>1
<1> HIDE DEF t
<1>3. /\ tFront \in Seq(S) /\ Len(tFront) = r - 1
      /\ \A i \in 1 .. r - 1 : tFront[i] = t[i]
      /\ tRest \in Seq(S) /\ Len(tRest) = Len(t) - (r - 1)
      /\ \A i \in 1 .. Len(t) - (r - 1) : tRest[i] = t[(r - 1) + i]
  BY SMTT(30), <1>1, <1>2, SplitTypes
<1>4. /\ front \in Seq(S) /\ Len(front) = r
      /\ \A i \in 1 .. r : front[i] = s[i]
      /\ rest \in Seq(S) /\ Len(rest) = Len(s) - r
      /\ \A i \in 1 .. Len(s) - r : rest[i] = s[r + i]
  BY <1>2, SplitTypes
<1> HIDE DEF tFront, tRest, front, rest
<1>5. front # <<>>
  BY <1>4
<1>6. /\ Tail(front) \in Seq(S) /\ Len(Tail(front)) = r - 1
      /\ \A i \in 1 .. r - 1 : Tail(front)[i] = front[i + 1]
  BY <1>4, <1>5, HeadTailProperties
<1>7. tFront = Tail(front)
  <2>1. ASSUME NEW i \in 1 .. r - 1 PROVE tFront[i] = Tail(front)[i]
    <3>1. i \in 1 .. Len(t) /\ i + 1 \in 1 .. r
      BY <1>1
    <3>2. tFront[i] = s[i + 1]
      BY <1>1, <1>3, <3>1
    <3>3. Tail(front)[i] = s[i + 1]
      BY <1>4, <1>6, <3>1
    <3> QED
      BY <3>2, <3>3
  <2> QED
    BY <1>3, <1>6, <2>1, SeqEqual
<1>8. tRest = rest
  <2>1. Len(tRest) = Len(s) - r
    BY <1>1, <1>3
  <2>2. ASSUME NEW i \in 1 .. Len(s) - r PROVE tRest[i] = rest[i]
    <3>1. /\ i \in 1 .. Len(t) - (r - 1)
          /\ (r - 1) + i \in 1 .. Len(t)
          /\ ((r - 1) + i) + 1 = r + i
      BY <1>1
    <3>2. tRest[i] = s[((r - 1) + i) + 1]
      BY <1>1, <1>3, <3>1
    <3> QED
      BY <1>4, <3>1, <3>2
  <2> QED
    BY <1>3, <1>4, <2>1, <2>2, SeqEqual
<1> QED
  BY <1>5, <1>7, <1>8 DEF t, tFront, tRest, front, rest

\* A push lands at the end of the second part.
LEMMA SplitPush ==
  ASSUME NEW S, NEW s \in Seq(S), NEW e \in S, NEW r \in 0 .. Len(s)
  PROVE  /\ SubSeq(Append(s, e), 1, r) = SubSeq(s, 1, r)
         /\ SubSeq(Append(s, e), r + 1, Len(Append(s, e)))
              = Append(SubSeq(s, r + 1, Len(s)), e)
<1> DEFINE t == Append(s, e)
           tFront == SubSeq(t, 1, r)
           tRest == SubSeq(t, r + 1, Len(t))
           front == SubSeq(s, 1, r)
           rest == SubSeq(s, r + 1, Len(s))
<1>1. /\ t \in Seq(S) /\ Len(t) = Len(s) + 1 /\ Len(s) \in Nat
      /\ \A i \in 1 .. Len(s) : t[i] = s[i]
      /\ t[Len(s) + 1] = e
  BY AppendProperties, LenProperties
<1>2. r \in 0 .. Len(t)
  BY <1>1
<1> HIDE DEF t
<1>3. /\ tFront \in Seq(S) /\ Len(tFront) = r
      /\ \A i \in 1 .. r : tFront[i] = t[i]
      /\ tRest \in Seq(S) /\ Len(tRest) = Len(t) - r
      /\ \A i \in 1 .. Len(t) - r : tRest[i] = t[r + i]
  BY <1>1, <1>2, SplitTypes
<1>4. /\ front \in Seq(S) /\ Len(front) = r
      /\ \A i \in 1 .. r : front[i] = s[i]
      /\ rest \in Seq(S) /\ Len(rest) = Len(s) - r
      /\ \A i \in 1 .. Len(s) - r : rest[i] = s[r + i]
  BY SplitTypes
<1> HIDE DEF tFront, tRest, front, rest
<1>5. /\ Append(rest, e) \in Seq(S) /\ Len(Append(rest, e)) = Len(s) - r + 1
      /\ \A i \in 1 .. Len(s) - r : Append(rest, e)[i] = rest[i]
      /\ Append(rest, e)[Len(s) - r + 1] = e
  BY <1>4, AppendProperties
<1>6. tFront = front
  <2>1. ASSUME NEW i \in 1 .. r PROVE tFront[i] = front[i]
    <3>1. i \in 1 .. Len(s)
      BY <1>1
    <3> QED
      BY <1>1, <1>3, <1>4, <3>1
  <2> QED
    BY <1>3, <1>4, <2>1, SeqEqual
<1>7. tRest = Append(rest, e)
  <2>1. Len(tRest) = Len(s) - r + 1
    BY <1>1, <1>3
  <2>2. ASSUME NEW i \in 1 .. Len(s) - r + 1
        PROVE  tRest[i] = Append(rest, e)[i]
    <3>1. i \in 1 .. Len(t) - r
      BY <1>1
    <3>2. tRest[i] = t[r + i]
      BY <1>3, <3>1
    <3>3. CASE i \in 1 .. Len(s) - r
      <4>1. r + i \in 1 .. Len(s)
        BY <1>1, <3>3
      <4> QED
        BY <1>1, <1>4, <1>5, <3>2, <3>3, <4>1
    <3>4. CASE i = Len(s) - r + 1
      <4>1. r + i = Len(s) + 1
        BY <1>1, <3>4
      <4> QED
        BY <1>1, <1>5, <3>2, <3>4, <4>1
    <3>5. i \in 1 .. Len(s) - r \/ i = Len(s) - r + 1
      BY <1>1
    <3> QED
      BY <3>3, <3>4, <3>5
  <2> QED
    BY <1>3, <1>5, <2>1, <2>2, SeqEqual
<1> QED
  BY <1>6, <1>7 DEF t, tFront, tRest, front, rest

-----------------------------------------------------------------------------
(***************************************************************************)
(* The refinement mapping.                                                 *)
(***************************************************************************)

\* The levels of LevelCrawl, and its visitors, in terms of RunSpider.
Current == SubSeq(url_list, 1, Remaining)
NextLevel == SubSeq(url_list, Remaining + 1, Len(url_list))
Visitors == {w \in Workers : wpc[w] \in Visiting}
Junks == IF Cores > 1 THEN {Junk} ELSE {}

LEMMA RemainingNat ==
  ASSUME CrawlInv
  PROVE  Remaining \in 0 .. Len(url_list) /\ url_list \in Seq(Entry)
<1>1. TypeOK /\ Remaining <= Len(url_list)
  BY DEF CrawlInv, FrontExists
<1>2. Cardinality(Unclaimed) \in Nat
  BY WorkersFinite, FS_CardinalityType DEF Unclaimed
<1> QED
  BY <1>1, <1>2, NumThreadsRange DEF TypeOK, Remaining, AtLeastZero

\* Nobody visits a page between two batches.
LEMMA SpiderVisitors ==
  ASSUME CrawlInv, Spider
  PROVE  Visitors = {} /\ Visitors' = {}
<1>1. ASSUME NEW w \in Workers
      PROVE  /\ wpc[w] \in {"idle", "exited"}
             /\ wpc'[w] \in {"idle", "exited", "start"}
  <2>1. CASE StartBatch
    BY <2>1 DEF StartBatch, CrawlInv, Barrier
  <2>2. CASE JoinBatch
    BY <2>2 DEF JoinBatch
  <2>3. CASE BeginLevel \/ EndLevel
    BY <2>3 DEF BeginLevel, EndLevel, CrawlInv, Barrier
  <2> QED
    BY <2>1, <2>2, <2>3 DEF Spider
<1> QED
  BY <1>1 DEF Visitors, Visiting

\* The spider thread moves the boundary between the levels only when it ends
\* one.
LEMMA SpiderSteps ==
  ASSUME CrawlInv, Spider
  PROVE  \/ UNCHANGED <<depth, Current, NextLevel, Visitors>>
         \/ /\ depth < MaxDepth /\ depth' = depth + 1
            /\ Current = <<>> /\ Visitors = {}
            /\ Current' = NextLevel /\ NextLevel' = <<>>
            /\ UNCHANGED Visitors
<1>1. /\ TypeOK /\ Barrier /\ url_list' = url_list
      /\ Len(url_list) \in Nat
  BY DEF CrawlInv, TypeOK, Spider, BeginLevel, StartBatch, JoinBatch, EndLevel
<1>2. Visitors' = Visitors /\ Visitors = {}
  BY SpiderVisitors
<1>3. ASSUME Remaining' = Remaining, depth' = depth
      PROVE  UNCHANGED <<depth, Current, NextLevel, Visitors>>
  BY <1>1, <1>2, <1>3 DEF Current, NextLevel
<1>4. CASE BeginLevel
  <2>1. Remaining = Len(url_list) /\ Remaining' = Len(url_list)
    BY <1>1, <1>4 DEF BeginLevel, Remaining, AtLeastZero
  <2> QED
    BY <1>3, <1>4, <2>1 DEF BeginLevel
<1>5. CASE StartBatch
  <2>1. Unclaimed' = Batch
    BY <1>1, <1>5 DEF TypeOK, StartBatch, Unclaimed, BeforePop, Batch
  <2>2. Remaining = url_list_size - th
    BY <1>1, <1>5 DEF TypeOK, StartBatch, Remaining, AtLeastZero
  <2>3. Remaining' = Cardinality(Batch)
                       + AtLeastZero(url_list_size - (th + NumThreads))
    BY <1>5, <2>1 DEF StartBatch, Remaining, NumThreads, AtLeastZero
  <2>4. Remaining' = url_list_size - th
    BY <1>1, <1>5, <2>3, BatchCardinality DEF TypeOK, StartBatch
  <2> QED
    BY <1>3, <1>5, <2>2, <2>4 DEF StartBatch
<1>6. CASE JoinBatch
  <2>1. Unclaimed = {}
    BY <1>6 DEF JoinBatch, Unclaimed, BeforePop
  <2>2. Remaining = AtLeastZero(url_list_size - (th + NumThreads))
    BY <1>1, <1>6, <2>1, FS_EmptySet, NumThreadsRange
       DEF TypeOK, JoinBatch, Remaining, AtLeastZero
  <2>3. Remaining' = AtLeastZero(url_list_size - (th + NumThreads))
    BY <1>6 DEF JoinBatch, Remaining, AtLeastZero
  <2> QED
    BY <1>3, <1>6, <2>2, <2>3 DEF JoinBatch
<1>7. CASE EndLevel
  <2>1. Remaining = 0 /\ Remaining' = Len(url_list)
    BY <1>1, <1>7 DEF TypeOK, EndLevel, Remaining, AtLeastZero
  <2>2. depth < MaxDepth /\ depth' = depth + 1
    BY <1>1, <1>7 DEF Barrier, EndLevel
  <2>3. /\ Current = <<>>
        /\ NextLevel = url_list
        /\ Current' = url_list
        /\ NextLevel' = <<>>
    <3>1. url_list \in Seq(Entry)
      BY <1>1 DEF TypeOK
    <3>2. 0 + 1 = 1
      OBVIOUS
    <3> QED
      BY <1>1, <2>1, <3>1, <3>2, SplitNowhere DEF Current, NextLevel
  <2> QED
    BY <1>2, <2>2, <2>3
<1> QED
  BY <1>4, <1>5, <1>6, <1>7 DEF Spider

\* A pop is a Take: its entry leaves the current level.  The slot that a race
\* with a push leaves behind belongs to the next one.
LEMMA PopSteps ==
  ASSUME CrawlInv, NEW w \in Workers, PopUrl(w)
  PROVE  /\ depth < MaxDepth /\ depth' = depth
         /\ Current # <<>> /\ Current' = Tail(Current)
         /\ w \notin Visitors /\ Visitors' = Visitors \cup {w}
         /\ \/ NextLevel' = NextLevel
            \/ \E s \in Junks : NextLevel' = Append(NextLevel, s)
<1>1. /\ TypeOK /\ Barrier /\ wpc[w] = "popping" /\ depth' = depth
      /\ wpc' = [wpc EXCEPT ![w] = "popped"]
  BY DEF CrawlInv, PopUrl, Goto, At, mainVars
<1>2. depth < MaxDepth
  BY <1>1 DEF Barrier
<1>3. /\ url_list \in Seq(Entry) /\ url_list # <<>>
      /\ Tail(url_list) \in Seq(Entry)
      /\ Len(Tail(url_list)) = Len(url_list) - 1
  BY <1>1, PopFindsEntry DEF CrawlInv, TypeOK
<1>4. /\ Remaining \in 1 .. Len(url_list)
      /\ Remaining' = Remaining - 1
  BY PopRemaining, RemainingNat
<1>5. w \notin Visitors /\ Visitors' = Visitors \cup {w}
  BY <1>1 DEF TypeOK, Visitors, Visiting
<1>6. /\ Current # <<>>
      /\ SubSeq(Tail(url_list), 1, Remaining - 1) = Tail(Current)
      /\ SubSeq(Tail(url_list), (Remaining - 1) + 1, Len(Tail(url_list)))
           = NextLevel
  BY <1>3, <1>4, SplitPop DEF Current, NextLevel
<1>7. CASE url_list' = Tail(url_list)
  BY <1>1, <1>2, <1>4, <1>5, <1>6, <1>7 DEF Current, NextLevel
<1>8. CASE QueueRace /\ url_list' = Append(Tail(url_list), Junk)
  <2>1. Junk \in Junks
    <3>1. \E v \in Workers : v # w
      BY <1>1, <1>8 DEF QueueRace, Popping, Pushing
    <3>2. Cores # 1
      BY <3>1 DEF Workers
    <3>3. Cores \in Nat \ {0}
      BY CrawlAssumption
    <3> QED
      BY <3>2, <3>3 DEF Junks
  <2>2. Remaining - 1 \in 0 .. Len(Tail(url_list)) /\ Junk \in Entry
    BY <1>3, <1>4 DEF Entry
  <2>3. /\ SubSeq(url_list', 1, Remaining - 1) = Tail(Current)
        /\ SubSeq(url_list', (Remaining - 1) + 1, Len(url_list'))
             = Append(NextLevel, Junk)
    BY <1>3, <1>6, <1>8, <2>2, SplitPush
  <2> QED
    BY <1>1, <1>2, <1>4, <1>5, <1>6, <2>1, <2>3 DEF Current, NextLevel
<1> QED
  BY <1>7, <1>8 DEF PopUrl

\* Every other step of a worker adds an entry to the next level, ends a visit,
\* or is invisible.
LEMMA WorkerSteps ==
  ASSUME CrawlInv, NEW w \in Workers, Worker(w), ~PopUrl(w)
  PROVE  \/ UNCHANGED <<depth, Current, NextLevel, Visitors>>
         \/ /\ w \in Visitors
            /\ \E u \in Url : NextLevel' = Append(NextLevel, u)
            /\ UNCHANGED <<depth, Current, Visitors>>
         \/ /\ w \in Visitors /\ Visitors' = Visitors \ {w}
            /\ UNCHANGED <<depth, Current, NextLevel>>
<1>1. /\ TypeOK /\ mainVars' = mainVars
      /\ \A v \in Workers : v # w => wpc'[v] = wpc[v]
  BY WorkerFrame DEF CrawlInv
<1>2. Remaining' = Remaining
  <2>1. mpc = "join"
    BY WorkerFrame DEF CrawlInv, Barrier
  <2> QED
    BY <1>1, <2>1, UnclaimedFrame DEF Remaining, mainVars, NumThreads
<1>3. Remaining \in 0 .. Len(url_list) /\ url_list \in Seq(Entry)
  BY RemainingNat
<1>4. CASE url_list' # url_list
  <2>1. PICK u \in Url : url_list' = Append(url_list, u)
    BY <1>4, UnclaimedFrame
  <2>2. Current' = Current /\ NextLevel' = Append(NextLevel, u)
    <3>1. u \in Entry
      BY DEF Entry
    <3> QED
      BY <1>2, <1>3, <2>1, <3>1, SplitPush DEF Current, NextLevel
  <2>3. w \in Visitors /\ Visitors' = Visitors
    BY <1>4, UnclaimedFrame DEF Visitors, Visiting
  <2> QED
    BY <1>1, <2>2, <2>3 DEF mainVars
<1>5. CASE url_list' = url_list
  <2>1. Current' = Current /\ NextLevel' = NextLevel
    BY <1>2, <1>5 DEF Current, NextLevel
  <2>2. \/ Visitors' = Visitors
        \/ w \in Visitors /\ Visitors' = Visitors \ {w}
    <3>1. \/ wpc[w] \notin Visiting /\ wpc'[w] \notin Visiting
          \/ wpc[w] \in Visiting
      BY <1>1 DEF TypeOK, Worker, LockQueue, LockFetch, AssignHost, Respond,
                  LockIndex, IndexPage, LockExtract, CallExtract, ExtractLink,
                  EndExtract, Terminate, Lock, Goto, At, Visiting
    <3>2. \A v \in Workers : v # w => (v \in Visitors' <=> v \in Visitors)
      BY <1>1 DEF Visitors
    <3>3. CASE w \in Visitors /\ w \notin Visitors'
      <4>1. Visitors' = Visitors \ {w}
        BY <3>2, <3>3 DEF Visitors
      <4> QED
        BY <3>3, <4>1
    <3>4. CASE w \in Visitors <=> w \in Visitors'
      BY <3>2, <3>4 DEF Visitors
    <3>5. w \in Visitors' => w \in Visitors
      BY <3>1 DEF Visitors
    <3> QED
      BY <3>3, <3>4, <3>5
  <2> QED
    BY <1>1, <2>1, <2>2 DEF mainVars
<1> QED
  BY <1>4, <1>5

-----------------------------------------------------------------------------
\* RunSpider visits pages level by level, in the order in which they were
\* found: every behaviour of Crawl is one of LevelCrawl.
THEOREM ImplementsLevelCrawl == Spec => LevelByLevel
<1>1. Init => Level!LevelInit
  <2> SUFFICES ASSUME Init PROVE Level!LevelInit
    OBVIOUS
  <2>1. Remaining = 1
    BY DEF Init, Remaining
  <2>2. Visitors = {}
    BY DEF Init, Visitors, Visiting
  <2>3. Current = <<StartUrl>> /\ NextLevel = <<>>
    <3>1. <<StartUrl>> \in Seq({StartUrl}) /\ Len(<<StartUrl>>) = 1
      OBVIOUS
    <3> QED
      BY <2>1, <3>1, SplitNowhere DEF Init, Current, NextLevel
  <2> QED
    BY <2>2, <2>3 DEF Init, Level!LevelInit, Current, NextLevel, Visitors
<1>2. CrawlInv /\ [Next]_vars => [Level!LevelNext]_(Level!levelVars)
  <2> SUFFICES ASSUME CrawlInv, [Next]_vars
               PROVE  [Level!LevelNext]_(Level!levelVars)
    OBVIOUS
  <2> USE DEF Level!levelVars, Current, NextLevel, Visitors
  <2>1. CASE Spider
    BY <2>1, SpiderSteps DEF Level!LevelNext, Level!Advance
  <2>2. ASSUME NEW w \in Workers, PopUrl(w)
        PROVE  [Level!LevelNext]_(Level!levelVars)
    <3>1. Level!Take(w)
      BY <2>2, PopSteps DEF Level!Take, Junks
    <3> QED
      BY <3>1 DEF Level!LevelNext
  <2>3. ASSUME NEW w \in Workers, Worker(w), ~PopUrl(w)
        PROVE  [Level!LevelNext]_(Level!levelVars)
    BY <2>3, WorkerSteps DEF Level!LevelNext, Level!Find, Level!Leave
  <2>4. CASE UNCHANGED vars
    BY <2>4 DEF vars, mainVars, Remaining, Unclaimed, NumThreads
  <2> QED
    BY <2>1, <2>2, <2>3, <2>4 DEF Next, Halt
<1> QED
  BY <1>1, <1>2, Invariance, PTL DEF Spec, LevelByLevel, Level!LevelSpec
=============================================================================
