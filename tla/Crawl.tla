------------------------------- MODULE Crawl -------------------------------
(***************************************************************************)
(* SpiderClient::RunSpider and the worker threads it starts.               *)
(*                                                                         *)
(* One spider thread walks the levels of the crawl.  For each level it     *)
(* reads the length of url_list once, and consumes that many entries in    *)
(* batches: it starts one thread per entry of the batch, joins them all,   *)
(* and goes on.  A worker passes through four critical sections, each with *)
(* a mutex of its own:                                                     *)
(*   mt[1]  take the first entry of url_list                               *)
(*   mt[2]  HandleUrl: fetch the page, following redirects                 *)
(*   mt[3]  Indexer: store the words of the page                           *)
(*   mt[4]  SearchAndClearUrl: append the links of the page to url_list    *)
(* url_list is thus popped under mt[1] but pushed under mt[4], and `host`  *)
(* is written under mt[2] but read under mt[4]: the races the model keeps. *)
(***************************************************************************)
EXTENDS Integers, Sequences, FiniteSets

CONSTANTS
  Hosts,      \* host names, and NoHost, the empty one
  NoHost,
  TornHost,   \* what a read of `host` that races with its assignment may give
  Targets,    \* request targets (paths), and NoTarget, the empty one
  NoTarget,
  Extend,     \* Extend[t, p]: the concatenation of a target and a link text
  Junk,       \* an entry of url_list that no push constructed
  Answers,    \* Answers[u]: what the peer may answer to a request for u
  StartUrl,   \* config.start_url
  MaxDepth,   \* config.max_depth
  Cores       \* std::thread::hardware_concurrency()

Workers == 0 .. Cores - 1
NoWorker == -1
Sections == 1 .. 4
HostValues == Hosts \cup {TornHost}
Url == [host : HostValues, target : Targets]
Entry == Url \cup {Junk}

\* A link as SearchAndClearUrl classifies it: "fragment" has a '#' that is not
\* its first character, "root" begins with '/', "absolute" with http(s)://,
\* "ignored" is everything else, '#...' included.
Link == [kind : {"fragment", "root"}, path : Targets]
          \cup [kind : {"absolute"}, url : Url]
          \cup [kind : {"ignored"}]

\* "empty" stands for 404, any other status, a redirect with no Location and
\* a 200 with no body; "fail" for whatever throws.
Answer == [kind : {"page"}, links : Seq(Link)]
            \cup [kind : {"redirect"}, url : Url]
            \cup [kind : {"empty", "fail"}]

ASSUME CrawlAssumption ==
  /\ NoHost \in Hosts
  /\ TornHost \notin Hosts
  /\ NoTarget \in Targets
  /\ Junk \notin Url
  /\ Extend \in [Targets \X Targets -> Targets]
  /\ Answers \in [Url -> SUBSET Answer]
  /\ StartUrl \in [host : Hosts, target : Targets]
  /\ MaxDepth \in Int
  /\ Cores \in Nat \ {0}

VARIABLES
  process,        \* "running", or "terminated" by std::terminate or a fault
  mpc,            \* where the spider thread is
  depth,          \* for (int depth = 0; ...)
  th,             \* for (int th = 0; ...)
  url_list_size,  \* the length of url_list at the start of the level
  url_list,       \* std::queue<std::string>
  host,           \* the std::string every worker captures by reference
  mt,             \* mt[k]: the worker that owns mutex k
  state_th,       \* the flags state_th, state_th2, state_th3, state_th4
  wpc,            \* where each worker is
  url,            \* the entry a worker took
  parse_url,      \* the URL its request goes to: the entry, then each Location
  links,          \* the links of its page that are still to be pushed
  link_host,      \* the copy of `host` SearchAndClearUrl was called with
  batch_hosts     \* history: the hosts assigned to `host` in this batch

mainVars == <<mpc, depth, th, url_list_size>>
lockVars == <<mt, state_th>>
pageVars == <<url, parse_url, links, link_host>>
vars == <<process, mainVars, url_list, host, lockVars, wpc, pageVars,
          batch_hosts>>

-----------------------------------------------------------------------------
\* Mutant: hardware_concurrency() reports 0, "not computable".
NumThreadsUnknown == IF depth > 0 THEN 0 ELSE 1

NumThreads == IF depth > 0 THEN Cores ELSE 1

\* Mutant: the inner loop has no break.
BatchUnbounded == {w \in Workers : w < NumThreads}

\* The workers the inner loop starts: it breaks at th + i >= url_list_size.
Batch == {w \in Workers : w < NumThreads /\ th + w < url_list_size}

\* Program points of a worker.  In "popping", "assigning" and "extracting" it
\* is in the middle of an access to shared data.
BeforePop == {"start", "popping"}
Visiting == {"popped", "assigning", "requesting", "fetched", "indexing",
             "indexed", "calling", "extracting"}
WorkerPoints == {"idle", "exited"} \cup BeforePop \cup Visiting

\* The program points of a worker inside critical section k.
Section == [k \in Sections |->
              CASE k = 1 -> {"popping"}
                [] k = 2 -> {"assigning", "requesting"}
                [] k = 3 -> {"indexing"}
                [] k = 4 -> {"calling", "extracting"}]

NoUrl == [host |-> NoHost, target |-> NoTarget]

Init ==
  /\ process = "running"
  /\ mpc = "level" /\ depth = 0 /\ th = 0 /\ url_list_size = 0
  /\ url_list = <<StartUrl>>
  /\ host = NoHost
  /\ mt = [k \in Sections |-> NoWorker]
  /\ state_th = [k \in Sections |-> FALSE]
  /\ wpc = [w \in Workers |-> "idle"]
  /\ url = [w \in Workers |-> NoUrl]
  /\ parse_url = [w \in Workers |-> NoUrl]
  /\ links = [w \in Workers |-> <<>>]
  /\ link_host = [w \in Workers |-> NoHost]
  /\ batch_hosts = {}

-----------------------------------------------------------------------------
(***************************************************************************)
(* The spider thread.                                                      *)
(***************************************************************************)

Running == process = "running"

\* The head of the depth loop; RunSpider returns when depth = max_depth.
BeginLevel ==
  /\ Running
  /\ mpc = "level"
  /\ \/ /\ depth < MaxDepth
        /\ mpc' = "batch"
        /\ url_list_size' = Len(url_list)
        /\ th' = 0
     \/ /\ depth >= MaxDepth
        /\ mpc' = "done"
        /\ UNCHANGED <<url_list_size, th>>
  /\ UNCHANGED <<process, depth, url_list, host, lockVars, wpc, pageVars,
                 batch_hosts>>

\* The inner loop starts the threads of a batch.  Its conditions read nothing
\* a worker writes, so a thread that has not been started yet differs in
\* nothing from one that has not run yet, and the batch starts in one step.
StartBatch ==
  /\ Running
  /\ mpc = "batch"
  /\ th < url_list_size
  /\ mpc' = "join"
  /\ wpc' = [w \in Workers |-> IF w \in Batch THEN "start" ELSE "idle"]
  /\ url' = [w \in Workers |-> NoUrl]
  /\ parse_url' = [w \in Workers |-> NoUrl]
  /\ links' = [w \in Workers |-> <<>>]
  /\ link_host' = [w \in Workers |-> NoHost]
  /\ batch_hosts' = {}
  /\ UNCHANGED <<process, depth, th, url_list_size, url_list, host, lockVars>>

\* Mutant: the threads are detached, not joined.
JoinBatchDetached ==
  /\ Running
  /\ mpc = "join"
  /\ mpc' = "batch"
  /\ th' = th + NumThreads
  /\ UNCHANGED <<process, depth, url_list_size, url_list, host, lockVars, wpc,
                 pageVars, batch_hosts>>

\* The join loop, and the step of the loop over th.
JoinBatch ==
  /\ Running
  /\ mpc = "join"
  /\ \A w \in Workers : wpc[w] \in {"idle", "exited"}
  /\ mpc' = "batch"
  /\ th' = th + NumThreads
  /\ UNCHANGED <<process, depth, url_list_size, url_list, host, lockVars, wpc,
                 pageVars, batch_hosts>>

\* Mutant: depth-- for depth++.
EndLevelBackwards ==
  /\ Running
  /\ mpc = "batch"
  /\ th >= url_list_size
  /\ mpc' = "level"
  /\ depth' = depth - 1
  /\ UNCHANGED <<process, th, url_list_size, url_list, host, lockVars, wpc,
                 pageVars, batch_hosts>>

EndLevel ==
  /\ Running
  /\ mpc = "batch"
  /\ th >= url_list_size
  /\ mpc' = "level"
  /\ depth' = depth + 1
  /\ UNCHANGED <<process, th, url_list_size, url_list, host, lockVars, wpc,
                 pageVars, batch_hosts>>

-----------------------------------------------------------------------------
(***************************************************************************)
(* Mutexes and condition variables.                                        *)
(***************************************************************************)

\* The predicate of every cv.wait is the ASSIGNMENT state_th = true: it sets
\* the flag and holds, so the wait never waits.
CvPredicate(k) == state_th' = [state_th EXCEPT ![k] = TRUE]

\* Mutant: the unique_lock is constructed with std::defer_lock.
AcquireDeferred(k, w) ==
  /\ mt' = [mt EXCEPT ![k] = w]
  /\ CvPredicate(k)

Acquire(k, w) ==
  /\ mt[k] = NoWorker
  /\ mt' = [mt EXCEPT ![k] = w]
  /\ CvPredicate(k)

Release(k) ==
  /\ state_th' = [state_th EXCEPT ![k] = FALSE]
  /\ mt' = [mt EXCEPT ![k] = NoWorker]

At(w, p) == Running /\ wpc[w] = p

Goto(w, from, to) ==
  /\ At(w, from)
  /\ wpc' = [wpc EXCEPT ![w] = to]

Lock(w, from, k, to) ==
  /\ Goto(w, from, to)
  /\ Acquire(k, w)
  /\ UNCHANGED <<process, mainVars, url_list, host, pageVars, batch_hosts>>

-----------------------------------------------------------------------------
(***************************************************************************)
(* The workers.                                                            *)
(***************************************************************************)

IsPushed(l) == l.kind # "ignored"

Popping == {w \in Workers : wpc[w] = "popping"}
Pushing == {w \in Workers : /\ wpc[w] = "extracting"
                            /\ links[w] # <<>>
                            /\ IsPushed(Head(links[w]))}
\* front() and pop() of one worker overlap the push() of another: the
\* behaviour of the queue is undefined.
QueueRace == Popping # {} /\ Pushing # {}

LockQueue(w) == Lock(w, "start", 1, "popping")

\* url = url_list.front(); url_list.pop(); when a push is under way, its update
\* of the size of the queue may overwrite that of pop(), which leaves a slot at
\* the end that holds no string.
PopUrl(w) ==
  /\ Goto(w, "popping", "popped")
  /\ url' = [url EXCEPT ![w] = Head(url_list)]
  /\ \/ url_list' = Tail(url_list)
     \/ /\ QueueRace
        /\ url_list' = Append(Tail(url_list), Junk)
  /\ Release(1)
  /\ UNCHANGED <<process, mainVars, host, parse_url, links, link_host,
                 batch_hosts>>

LockFetch(w) ==
  /\ Goto(w, "popped", "assigning")
  /\ Acquire(2, w)
  /\ parse_url' = [parse_url EXCEPT ![w] = url[w]]
  /\ UNCHANGED <<process, mainVars, url_list, host, url, links, link_host,
                 batch_hosts>>

\* Mutants: the host is left as it was; it is taken from the entry, whatever
\* the request was redirected to.
NewHostStale(w) == host
NewHostOfEntry(w) == url[w].host

\* host = parse_url.host()
NewHost(w) == parse_url[w].host

\* The head of HandleUrl's loop.
AssignHost(w) ==
  /\ parse_url[w] # Junk
  /\ Goto(w, "assigning", "requesting")
  /\ host' = NewHost(w)
  /\ batch_hosts' = batch_hosts \cup {parse_url[w].host}
  /\ UNCHANGED <<process, mainVars, url_list, lockVars, pageVars>>

Leave(w, p) ==
  /\ wpc' = [wpc EXCEPT ![w] = p]
  /\ Release(2)

\* Mutant: a redirect is not followed.
FollowNot(w, u) == Leave(w, "exited") /\ UNCHANGED parse_url

\* target_url = boost::url(location_header->value()), and continue.
Follow(w, u) ==
  /\ wpc' = [wpc EXCEPT ![w] = "assigning"]
  /\ parse_url' = [parse_url EXCEPT ![w] = u]
  /\ UNCHANGED lockVars

\* The response arrives: HandleUrl goes round its loop for a redirect, and
\* returns the body or the empty string otherwise.
Respond(w) ==
  /\ At(w, "requesting")
  /\ \E a \in Answers[parse_url[w]] :
       \/ /\ a.kind = "redirect"
          /\ Follow(w, a.url)
          /\ UNCHANGED links
       \/ /\ a.kind = "page"
          /\ Leave(w, "fetched")
          /\ links' = [links EXCEPT ![w] = a.links]
          /\ UNCHANGED parse_url
       \/ /\ a.kind = "empty"
          /\ Leave(w, "exited")
          /\ UNCHANGED <<parse_url, links>>
  /\ UNCHANGED <<process, mainVars, url_list, host, url, link_host,
                 batch_hosts>>

LockIndex(w) == Lock(w, "fetched", 3, "indexing")

\* indexer.ConnectDB, indexer.IndexingPages and ~Indexer.
IndexPage(w) ==
  /\ Goto(w, "indexing", "indexed")
  /\ Release(3)
  /\ UNCHANGED <<process, mainVars, url_list, host, pageVars, batch_hosts>>

LockExtract(w) == Lock(w, "indexed", 4, "calling")

Assigning == {w \in Workers : wpc[w] = "assigning" /\ parse_url[w] # Junk}
HostsInAssignment == {parse_url[w].host : w \in Assigning}

\* The call of SearchAndClearUrl copies `host`; a copy taken while another
\* worker assigns it is the old value, the new one, or a mixture of both.
HostReads ==
  {host} \cup HostsInAssignment
         \cup {h \in {TornHost} : Assigning # {}}

CallExtract(w) ==
  /\ Goto(w, "calling", "extracting")
  /\ \E h \in HostReads : link_host' = [link_host EXCEPT ![w] = h]
  /\ UNCHANGED <<process, mainVars, url_list, host, lockVars, url, parse_url,
                 links, batch_hosts>>

\* The string a link is pushed as: the host is the copy made at the call, the
\* target is the worker's own.
Resolve(w, l) ==
  CASE l.kind = "fragment" -> [host |-> link_host[w],
                               target |-> Extend[parse_url[w].target, l.path]]
    [] l.kind = "root"     -> [host |-> link_host[w], target |-> l.path]
    [] l.kind = "absolute" -> l.url

\* One match of the regular expression.  A push that overlaps a pop may be lost.
ExtractLink(w) ==
  /\ At(w, "extracting")
  /\ links[w] # <<>>
  /\ LET l == Head(links[w]) IN
       \/ /\ IsPushed(l)
          /\ url_list' = Append(url_list, Resolve(w, l))
       \/ /\ IsPushed(l) => QueueRace
          /\ UNCHANGED url_list
  /\ links' = [links EXCEPT ![w] = Tail(@)]
  /\ UNCHANGED <<process, mainVars, host, lockVars, wpc, url, parse_url,
                 link_host, batch_hosts>>

EndExtract(w) ==
  /\ links[w] = <<>>
  /\ Goto(w, "extracting", "exited")
  /\ Release(4)
  /\ UNCHANGED <<process, mainVars, url_list, host, pageVars, batch_hosts>>

-----------------------------------------------------------------------------
\* No thread function catches anything: what HandleUrl or the Indexer throws
\* ends the program, and so may a fault in a racing access.
Faulty(w) ==
  \/ wpc[w] = "assigning" /\ parse_url[w] = Junk
  \/ wpc[w] = "requesting" /\ \E a \in Answers[parse_url[w]] : a.kind = "fail"
  \/ wpc[w] = "indexing"
  \/ w \in Popping \cup Pushing /\ QueueRace

Terminate(w) ==
  /\ Running
  /\ Faulty(w)
  /\ process' = "terminated"
  /\ UNCHANGED <<mainVars, url_list, host, lockVars, wpc, pageVars, batch_hosts>>

Worker(w) ==
  \/ LockQueue(w) \/ PopUrl(w)
  \/ LockFetch(w) \/ AssignHost(w) \/ Respond(w)
  \/ LockIndex(w) \/ IndexPage(w)
  \/ LockExtract(w) \/ CallExtract(w) \/ ExtractLink(w) \/ EndExtract(w)
  \/ Terminate(w)

Spider == BeginLevel \/ StartBatch \/ JoinBatch \/ EndLevel

\* RunSpider has returned, or the program is gone.
Stopped == mpc = "done" \/ process = "terminated"
Halt == Stopped /\ UNCHANGED vars

Next ==
  \/ Spider
  \/ \E w \in Workers : Worker(w)
  \/ Halt

Spec == Init /\ [][Next]_vars

\* The scheduler runs every thread that can run.  A peer that answers does so
\* in finite time; one that never answers has no answer in Answers.
Fairness ==
  /\ WF_vars(Spider)
  /\ \A w \in Workers : WF_vars(Worker(w))

FairSpec == Spec /\ Fairness

-----------------------------------------------------------------------------
(***************************************************************************)
(* Properties.                                                             *)
(***************************************************************************)

\* Every variable keeps its type: in particular only strings that some push
\* built, or the slot a race left, are ever taken from url_list, and the links
\* a worker builds are URLs whatever copy of `host` it was given.
TypeOK ==
  /\ process \in {"running", "terminated"}
  /\ mpc \in {"level", "batch", "join", "done"}
  /\ depth \in Nat /\ th \in Nat /\ url_list_size \in Nat
  /\ url_list \in Seq(Entry)
  /\ host \in Hosts \cup {TornHost}
  /\ mt \in [Sections -> Workers \cup {NoWorker}]
  /\ state_th \in [Sections -> BOOLEAN]
  /\ wpc \in [Workers -> WorkerPoints]
  /\ url \in [Workers -> Entry]
  /\ parse_url \in [Workers -> Entry]
  /\ links \in [Workers -> Seq(Link)]
  /\ link_host \in [Workers -> HostValues]
  /\ batch_hosts \in SUBSET HostValues

AtLeastZero(n) == IF n > 0 THEN n ELSE 0

Unclaimed == {w \in Workers : wpc[w] \in BeforePop}

\* How many entries at the front of url_list belong to the current level.
Remaining ==
  IF mpc = "batch" THEN AtLeastZero(url_list_size - th)
  ELSE IF mpc = "join"
    THEN Cardinality(Unclaimed) + AtLeastZero(url_list_size - (th + NumThreads))
    ELSE Len(url_list)

\* url_list holds at least what is left of the level: no worker calls front()
\* and pop() on an empty queue, although none checks, and although the pops of
\* a level run beside pushes that a race may undo.
FrontExists ==
  /\ Remaining <= Len(url_list)
  /\ Popping # {} => url_list # <<>>

\* Each flag mirrors the ownership of its mutex, and the owner of mutex k is
\* the worker inside critical section k: no two workers fetch at once, write
\* to the database at once, or append to url_list at once.
LockDiscipline ==
  \A k \in Sections :
    /\ state_th[k] <=> mt[k] # NoWorker
    /\ \A w \in Workers : mt[k] = w <=> wpc[w] \in Section[k]

\* The host that the links of a page are attached to is the host of a request
\* made, or about to be made, in the same batch, or torn: never one left over
\* from an earlier batch, and never the empty string `host` starts with.
HostOfThisBatch ==
  \A w \in Workers :
    wpc[w] = "extracting" =>
      link_host[w] \in batch_hosts \cup HostsInAssignment \cup {TornHost}

\* A worker that is alone in its batch, as the one of level 0 is, attaches
\* links to the host its own page came from, redirects included.
LoneWorkerKeepsHost ==
  \A w \in Workers :
    wpc[w] = "extracting" /\ Batch = {w} => link_host[w] = parse_url[w].host

-----------------------------------------------------------------------------
(***************************************************************************)
(* What the properties rest on: the conjuncts that make them inductive.    *)
(***************************************************************************)

\* Workers run only while the spider thread waits in the join loop, and only
\* those of the batch.
Barrier ==
  /\ mpc \in {"batch", "join"} => depth < MaxDepth
  /\ mpc = "join" => th < url_list_size
  /\ \A w \in Workers :
       wpc[w] \notin {"idle", "exited"} => mpc = "join" /\ w \in Batch

\* Program points of a worker that has assigned `host` for the last time, or
\* waits for the answer that decides whether it has.
Requested == {"requesting", "fetched", "indexing", "indexed", "calling",
              "extracting"}

\* A worker that has made a request has a URL, not the slot a race left; and
\* `host` holds the host of some request of this batch.
RequestKnown ==
  \A w \in Workers :
    wpc[w] \in Requested =>
      /\ parse_url[w] \in Url
      /\ parse_url[w].host \in batch_hosts
      /\ host \in batch_hosts

\* While one worker is alone in its batch, nobody else assigns `host`.
LoneHost ==
  \A w \in Workers :
    wpc[w] \in Requested \ {"extracting"} /\ Batch = {w} =>
      host = parse_url[w].host

\* The inductive invariant.
CrawlInv ==
  /\ TypeOK
  /\ Barrier
  /\ FrontExists
  /\ LockDiscipline
  /\ RequestKnown
  /\ HostOfThisBatch
  /\ LoneHost
  /\ LoneWorkerKeepsHost

\* Crawl implements LevelCrawl: the front of url_list is the current level, the
\* rest the next one.  Races may add Junk to the next level.
Level == INSTANCE LevelCrawl WITH
           Visitors <- Workers,
           Entry <- Url,
           Spurious <- IF Cores > 1 THEN {Junk} ELSE {},
           Start <- StartUrl,
           Levels <- MaxDepth,
           level <- depth,
           current <- SubSeq(url_list, 1, Remaining),
           next <- SubSeq(url_list, Remaining + 1, Len(url_list)),
           visiting <- {w \in Workers : wpc[w] \in Visiting}

LevelByLevel == Level!LevelSpec

\* URLs whose requests are never answered, or are answered with redirects
\* only, from one to another of them.
Stalled ==
  UNION {S \in SUBSET Url :
           \A u \in S : \A a \in Answers[u] : a.kind = "redirect" /\ a.url \in S}

\* RunSpider returns, or the program is terminated, or there is one reason only
\* why not: a worker waits for a peer that never lets go of it.
CrawlEnds ==
  <>(\/ Stopped
     \/ \E w \in Workers : wpc[w] = "requesting" /\ parse_url[w] \in Stalled)

\* HandleUrl has neither a timeout nor a limit on redirects: a worker whose
\* request is one of those keeps mt[2], and the spider thread never gets past
\* the join of its batch.
StallIsForever ==
  \A w \in Workers :
    [](wpc[w] = "requesting" /\ parse_url[w] \in Stalled
         => [](mpc = "join" /\ mt[2] = w))
=============================================================================
