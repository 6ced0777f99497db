# A verification of CppDiplom

CppDiplom (`src/Search_Engine_HTTP`) is a small search engine in one program: a
spider that crawls the web from one start URL down to a configured depth, an
indexer that stores the words of each page in PostgreSQL, and an HTTP server
that answers queries from the same tables while the spider is still at work.
It is written in C++17 with Boost.Asio, Boost.Beast, Boost.URL, OpenSSL and
libpqxx, has no tests, and its only documentation is its comments.

This directory holds TLA+ models of its parts, the TLC configurations that check
them on small instances, and theorems about them proved with TLAPS for every
value of the constants. `PROJECT.json` is the index: components, runs, mutants,
the lines of the source every definition stands for, the hazards, and the
theorems.

To check a run: `tlc -config Crawl_levels.cfg MCCrawl`. To check the proofs of a
module: `tlapm CrawlProofs.tla`.

## 1. The system

### 1.1 Parts and how they interact

```
 main ── starts ──> thread1: RunSpider ── starts, joins ──> worker threads
   │                    │                                     │   │
   │ ioc.run()          url_list, host, mt..mt4  <────────────┘   │
   │                                                              v
   └── http_server ──> http_connection ──> select_word ──> PostgreSQL <── Indexer
           ^                                    (one session each)
        clients
```

- `main` (main.cpp) reads the configuration, starts the spider in `thread1`,
  makes the acceptor, and runs the event loop `ioc.run()` in its own thread.
  `thread1.join()` comes after `ioc.run()`, which returns only by an exception;
  the destructor of the joinable `thread1` then calls `std::terminate`. No
  thread function catches anything either. So **every exception anywhere ends
  the whole program**: this is the main interaction between parts that
  otherwise share only the database.
- The spider thread and its workers share `url_list`, `host`, and four pairs of
  a mutex and a condition variable, all local to `RunSpider` and captured by
  reference.
- The workers and the server meet in the three tables and in the number of
  sessions the database allows.

### 1.2 Inventory

| component | state it keeps | operations | hard behaviour | what makes it correct |
|---|---|---|---|---|
| Spider: `RunSpider` and workers (spider_client.cpp:203-296) | `depth`, `th`, `url_list_size`, `url_list`, `host`, four mutexes and flags | begin a level, start a batch, join it; per worker: pop, fetch, index, extract | races on `url_list` (popped under `mt`, pushed under `mt4`) and on `host` (written under `mt2`, read under `mt4`); waits whose predicate is an assignment; no timeout; exceptions | pops find an entry; critical sections exclude each other; levels stay apart; links get a host of their batch; the crawl ends if peers answer |
| Fetch: `HandleUrl`, `HandleRedirect` (spider_client.cpp:3-154) | URL, scheme, transport, port, `host`, `target` | choose transport, locate, request, follow a redirect | scheme read before the response; entries without a scheme; endless redirects; every failure throws | TLS and port agree; https is not downgraded by delay; an upgrade is reached |
| Links: `SearchAndClearUrl` (spider_client.cpp:156-191) | none | find links, classify, push | order of alternatives; stale host copy; a link that is not parsed before the next level | every link of a page is found once; a link without a scheme stays on its host; a link cannot end the program |
| Indexer (indexer.cpp) | `pages`, `words`, `page_words`, their sequences, the visit at work | create tables, insert page, word, page-word, close | inserts after `commit()`, so one by one; `ON CONFLICT DO NOTHING`; crash between any two; reruns | keys hold; no row of `words` is shared; what is found comes from one visit |
| Words: `CleanText`, `LowerCases`, `AnalyzeWords` (indexer.cpp) | none | text to vocabulary | a '<' that is text; lengths in bytes of UTF-8 | every word of 3 to 32 bytes between markup and spaces, in lower case, counted once per occurrence |
| Server: `http_server`, `http_connection` (server.h) | acceptor, connections with socket, operation, deadline, database session | accept, read, process, write, deadline | handler order; session never closed; exceptions in handlers | no connection without a deadline; all are destroyed; accepts go on |
| Queries: `parse_words`, `url_decoding`, `search_url_in_db`, `send_url_to_html` (server.h) | none | decode, split, search, format | decoder reads past the escape; four-word limit; a search during a visit; links without regard to the scheme | the words are the first four that were typed, decoded right; what was found stays found, in its order; results lead to the page that was indexed |
| `main` (main.cpp) | `thread1`, `ioc` | start order, end | joinable thread at an exception; schema race on a new database; rerun on the tables of the last run | the program ends for known reasons only; nothing that was found is lost with it |
| Configuration (spider_read_config.h, config.ini) | nine values | load, print | none after the start | - |
| Certificates (root_certificates.h), build files | none | - | - | - |

The hazards these lead to, each at its line and with the properties that catch
it going wrong, are in `PROJECT.json` under "hazards".

## 2. Modules

| module | models | extends or instances |
|---|---|---|
| `LevelCrawl` | abstract: a crawl level by level | - |
| `Crawl` | `RunSpider`, its workers, `SearchAndClearUrl` | instances `LevelCrawl` |
| `Fetch` | one call of `HandleUrl` | - |
| `InvertedIndex` | abstract: an index that grows word by word, one page at a time | - |
| `Indexer` | `ConnectDB`, `IndexingPages`, the tables, crash and rerun | instances `InvertedIndex` |
| `SearchServer` | `http_server`, `http_connection`, database sessions | - |
| `SearchEngine` | the whole program: `main`, the spider, the Indexer, the server, one database, the next run | extends `Crawl`; instances `Indexer`, `SearchServer` |
| `QueryText` | `parse_words`, `url_decoding` | - |
| `PageText` | `CleanText`, `LowerCases`, `AnalyzeWords` | - |
| `Links` | `SearchAndClearUrl` on text, the head of `HandleUrl`, `send_url_to_html`'s links | - |
| `MCCrawl`, `MCFetch`, `MCIndexer`, `MCServer`, `MCSearchEngine`, `MCQueryText`, `MCPageText`, `MCLinks` | small webs, contents, texts and sets of connections | the module each is named after |
| `CrawlProofs`, `FetchProofs`, `IndexerProofs`, `ServerProofs`, `SearchEngineProofs`, `QueryTextProofs`, `PageTextProofs`, `LinksProofs` | theorems | the module each is named after, and `TLAPS`; `SearchEngineProofs` also extends `CrawlProofs` and instances `IndexerProofs` and `ServerProofs` |

In each component's module the definitions named "mutant" in their comment are
variants with a plausible bug. They are not part of the specification; each
stands before the definition it varies, and `PROJECT.json` says which property
it breaks.

### 2.1 Crawl

State. `mpc`, `depth`, `th`, `url_list_size` are the spider thread's loops;
`wpc[w]` is where worker `w` is; `mt[k]` and `state_th[k]` are the four mutexes
and flags; `url_list` and `host` are shared. An entry of `url_list` is what it
leads to, a host and a target. `process` becomes "terminated" when an exception
leaves a thread function.

| action | code |
|---|---|
| `BeginLevel`, `EndLevel` | the loop over `depth`, the length of `url_list` read once at its head |
| `StartBatch` | the inner loop over `i`, with its `break` at `th + i >= url_list_size` |
| `JoinBatch` | the `join` loop and `th += num_threads` |
| `LockQueue`, `PopUrl` | section 1: `front()`, `pop()` |
| `LockFetch`, `AssignHost`, `Respond` | section 2: `HandleUrl` |
| `LockIndex`, `IndexPage` | section 3: `Indexer` (its inside is module `Indexer`) |
| `LockExtract`, `CallExtract`, `ExtractLink`, `EndExtract` | section 4: the copy of `host` at the call, one step per link, the end |
| `Terminate` | whatever throws or faults |

Data races. A race is two accesses under way at once, so an access that can race
has a program point inside it: "popping", "assigning", "extracting".
What a racing access may do is a choice over what the build can produce:

- a `push` that overlaps a `pop` may be lost, because both update the size of the
  deque; a `pop` that overlaps a `push` may have its update overwritten, which
  leaves a slot that holds no string (`Junk`); either may fault;
- the copy of `host` taken while another worker assigns it is the old value, a
  new one, or a mixture (`TornHost`).

`cv.wait(lock, [&]{ return state_th = true; })` assigns. `CvPredicate` models just
that: the wait sets the flag and holds, so it never waits, `notify_all` wakes
nobody, and a notification needs no state of its own.

`StartBatch` starts all threads of a batch in one step. A `std::thread` that has
not been started differs in nothing from one that was started and has not run,
because the loop reads nothing that workers write.

Links are a sequence of four kinds, in the order of the alternatives of
`SearchAndClearUrl`; the regular expression that finds them is left out. An
answer is a page with links, a redirect, "empty" (everything for which
`HandleUrl` returns the empty string, for which the worker skips sections 3 and
4), or "fail" (everything that throws).

### 2.2 Fetch

One call of `HandleUrl`, with the whole choice of transport. `Parse` is what
precedes the loop; `Locate` the head of the loop, with the throw of
`substr(npos)` for a URL with neither an authority nor a '/'; `Respond` the
request, its answer, `HandleRedirect`, and the choice of the next transport,
which uses the scheme `Locate` read: the one of the URL **before** the redirect.
The history variables `previous`, `https_only` and `requests` only record.
Resolving, connecting, handshakes and HTTP parsing are one request and one
answer; an answer "fail" stands for any of them throwing.

Crawl takes from Fetch only what it needs: a fetch assigns `host` once per round
and ends with a page, nothing, or an exception, or never. Fetch shows what
Crawl leaves open: over which transport.

### 2.3 Indexer

`pages`, `words`, `page_words` are sets of rows, `page_seq` and `word_seq` the
sequences behind the two SERIAL columns. `ConnectDB` creates the tables in one
transaction and commits. The inserts come after the commit, so the database
commits each by itself, and each is an action: `InsertPage` (with both outcomes of
`ON CONFLICT (url) DO NOTHING`; the sequence advances in either), `InsertWord`,
`InsertPageWord`, `CloseDB`. `Crash` may come between any two of them, in this
worker or another thread; `Restart` is the next run of the program on the same
tables. One Indexer is at work at a time, by mutex `mt3`
(`LockDiscipline` of module Crawl).

`Visible(u)` is the join `select_word` makes: the words a search finds `u` for.
The history variables are `snapshot` (what `AnalyzeWords` returned on the visit
that inserted the page), `interrupted` and `crashes`.

### 2.4 SearchServer

Each connection has an operation `io` (reading, its completion, its handler run,
writing, and so on), a deadline `timer`, a `socket` and a `client`. A completion
and its handler are two steps, since the event loop may run other handlers in
between: the deadline may expire while the read has completed already, or be
cancelled too late. All handlers run in one thread, one at a time, and each is
one action.

`sessions` are the database sessions of connections. `http_connection` opens one
with `new` in its constructor and has no destructor: no action ever removes an
element. `ConnectDB` and `CloseDB` are the Indexer, which needs a session of its
own. When the database refuses a session, or `prepare` fails because the tables
are missing, or a query is refused, the exception leaves `ioc.run()`
(`Terminate`).

### 2.5 SearchEngine

The three modules above see each other as an environment: an exception somewhere
else, a rival for the sessions. `SearchEngine` joins their steps instead of
repeating them:

| action | code | joins |
|---|---|---|
| `ReadConfig` | main.cpp:9-27, `LoadConfig`, with the exception that `main` reports | - |
| `Listen` | main.cpp:30-46: the acceptor, while `thread1` runs already | - |
| `SpiderAlone` | everything of `RunSpider` but section 3 | `Crawl` |
| `ConnectDB` | section 3 takes a session and makes the tables | `Index!ConnectDB`, `Server!ConnectDB` |
| `Statement` | one INSERT | `Index!InsertPage`, `InsertWord`, `InsertPageWord` |
| `CloseDB` | the end of section 3 | `Index!CloseDB`, `Server!CloseDB`, Crawl's `IndexPage` |
| `ServerAlone`, `Accept`, `Ask` | accept loop and handlers | `Server` |
| `Reply` | `process_request` with `search_url_in_db` | `Server!HandleRead`, and the tables as they are |
| `WorkerThrows`, `ProgramEnds` | any exception of any thread | `Server!Terminate`, `Index!Crash` |
| `RunAgain` | the next start of the program | `Index!Restart`, everything else as in `EngineInit` |

`Reply` is one step, because the search is one statement and PostgreSQL gives a
statement one state of the tables, while the Indexer may be between any two of
its own. `Ranked` is what `select_word`'s GROUP BY, SUM and ORDER BY allow: any
order in which no page comes behind one with a smaller sum. The history
variables `query`, `found` and `open_then` remember what a client was told and
which page was being visited then; they outlive the run, so that
`FoundStaysFound` and `RankKept` compare answers across restarts.

### 2.6 QueryText, PageText, Links

These are pure algorithms, modelled as state machines whose steps are the rounds
of the code's loops, and checked against definitions of another shape: the
positions of a text.

- `QueryText`: `ParseWords` is the head of `parse_words` (`find` that misses gives
  `npos`, and `npos + 1` is 0), `TakeField` and `KeepField` a round of the loop over
  `i`, `DecodeEscape` and `DecodePlain` rounds of `url_decoding`. The second
  argument of `substr(j + 1, j + 2)` (server.h:342) is a length, not an end:
  `DigitsRead` is what `%x` reads from that, `Symbols` what the cast to `char` leaves
  of it, with any byte where the number overflows. In `DecodedUnlessDigitsFollow`
  the reference is `Meaning`, percent-encoding as browsers write it. So a search
  for `c++11`, posted as `c%2B%2B11`, looks for a text whose third byte is 0x11.
- `PageText`: `ReplaceTag` and `CopyRest` are `regex_replace` with `<[^>]*>`,
  `CountWord` a round of the loop over the split text. Characters have a width in
  bytes and a lower case, both constants.
- `Links`: `NextLink` is a round of `SearchAndClearUrl` with its four alternatives,
  `HandleUrl` computes host and target from an entry (`path()` decodes and drops
  the query), `Pop` goes on to the next level, `ResultLink` is what a search shows
  for the entry. Text consists of the characters and strings that the code tells
  apart. `Parses` is what the constructor of `boost::url` checks of these: none
  that belongs percent-encoded, a bare '%' included; a scheme of letters, digits,
  '.', '-' and '+' that begins with a letter; a port of digits; one '#'.
  A link whose text is no URL does no harm on its page; it ends the program
  a level later, in `HandleUrlThrows`: `EndsForAReason` lists all the ways to get
  there, for links and for `start_url`, and the run reaches each of them. A page
  that was requested without a target pushes its links right behind its host, so
  that the next entry may be a scheme and a colon as the code reads it, or have a
  host with a ':' in it. `Placed` excludes those pages from `StaysOnHost` and
  `ResultsLeadThere`, which do not hold for them (two links of MCLinks lead there),
  and `EndsForAReason` counts them among the reasons.
  `BrowserHost` and `BrowserTarget` are what a browser asks for when it follows a
  result. They share nothing with `HandleUrl`: a browser keeps the query and the
  escapes, so a result leads to what was fetched only where there are none.

## 3. Runs

Every property of a run has a mutant that breaks it. The type invariants of Fetch
and of SearchEngine are conjuncts of the inductive invariants and are proved
(`FetchTyped`, `EngineTyped`), not run. States are distinct states.

| run | instance | states | question and result |
|---|---|---|---|
| `crawl_levels` | 3 workers, 3 levels, 2 hosts, a redirect, every kind of link, pages that may be empty or fail | 926,094 | types, `FrontExists`, `LockDiscipline`, `HostOfThisBatch`, `LoneWorkerKeepsHost`, and the refinement `LevelByLevel`: hold |
| `crawl_fair` | 3 workers, 2 levels; peers that answer, fail, are silent, or redirect for ever | 1,760 | `CrawlEnds` (RunSpider returns or the program ends unless a worker waits for a peer of the last two kinds), `StallIsForever` (then `mt2` is kept and nothing returns): hold |
| `fetch_any` | every kind of entry, three ports, a host that redirects to anything, two that insist on https | 1,668 | `TlsOnPort443`, `HttpsStaysOnTls`, `TransportCatchesUp`, and `UpgradeIsReached` under fairness, within three requests: hold |
| `indexer` | 2 pages, one of which changes; 4 visits, 3 crashes | 26,536 | `KeysHold`, `WordRowsPrivate`, `OneSnapshot`, `OrphansBounded`, `NeverRepaired`, and the refinement `PageByPage`: hold |
| `server_any` | 2 connections, 2 sessions, with and without tables at the start | 25,827 | types, `NeverWithoutDeadline`, `HeldUntilDeadline`, and under fairness `AcceptedOrEnded`, `ConnectionsEnd`: hold |
| `server_limit` | 3 connections, 2 sessions, good requests only | stops at the violation | `AcceptsForever`: **violated**, see below |
| `engine_again` | 1 worker, 2 pages one of which changes, 1 client, 2 sessions, 2 runs of the program, each of which may end at any step; configuration, statements and queries may fail | 1,212,948 | `IndexedOrInterrupted`, `FoundStaysFound`, `RankKept`: hold |
| `engine_race` | the same with 2 workers and one run | 1,403,738 | `VisitHasItsWorker`: holds |
| `engine_fair` | 1 worker, 1 client, 1 session, nothing fails by itself | 16,807 | `EndsForWantOfSessions`, and under fairness `FetchedIsFound`: hold |
| `query` | all bodies of up to 5 of the bytes the code tells apart, longer ones with two escapes, with seven words | 38,954 | `FieldsInOrder`, `DecodedUnlessDigitsFollow`: hold |
| `page_text` | all texts of up to 5 characters, longer ones with markup, words of 0 to 35 bytes | 23,756 | `WordsCounted`: holds |
| `links` | paths of 3 pages from 23 start URLs, with links of every kind, whole and broken | 391,806 | types, `EveryLinkOnce`, `StaysOnHost`, `ResultsLeadThere`, `EndsForAReason`: hold |

Several of these state what the code does rather than what one would wish:
`StallIsForever`, `NeverRepaired`, `HeldUntilDeadline`, `EndsForWantOfSessions`,
`EndsForAReason`, `DecodedUnlessDigitsFollow` and `ResultsLeadThere` pin down a
limitation. They are
there because a change of the code that lifts one of them should be noticed, and
because the wish they stand in the way of (a crawl that always ends, a page that
is completed later) is not kept by this code.

### 3.1 Bounds, and why they are enough

- `Cores = 3`: one worker in an access, one in an overlapping access, and one
  more that is still to come; races and mutual exclusion are about pairs. The
  proofs hold for every number.
- `MaxDepth = 3`: level 0 always runs with a single thread; levels 1 and 2 run
  with several, and level 2 is the first whose entries were pushed during races.
  `crawl_fair` takes 2, the value in config.ini.
- The web of `crawl_levels`: a redirect from the start URL to another host makes
  `host` differ from the entry's; the page there has as many links that are
  pushed as there are workers, so level 1 is one full batch, and level 2, with
  up to five entries and perhaps a `Junk` slot, takes two, of which the last is
  cut short; one link leads back to the start. `MCExtend` cuts off targets that
  would grow without end.
- `MaxVisits = 4`, `MaxCrashes = 3` (named bounds in the guards of `ConnectDB` and
  `Crash`): each of two pages may be visited, interrupted and visited again, and
  a third crash finds rows of two earlier ones.
- `Patience` only bounds the counter of requests; cycles of redirects are
  explored without bound. It is 4, above the 3 that `UpgradeIsReached` allows.
- `server_any` has two connections: its properties are about one connection, or
  about a connection and what another one or the Indexer took, and two sessions
  for three takers is the least number at which one is available, used up and
  missed. `ServerProofs` has the safety properties for every number.
  `server_limit` needs the third connection, which is never accepted.
- `engine_again`: two runs, so that the second finds what the first one left at any
  statement, and may itself end anywhere; that more runs add nothing is what
  `IndexedOrInterrupted` and `FoundStaysFound` as theorems say. One
  client, because clients do not read what others did; one worker, because a
  batch with two is what `engine_race` has. In both, level 1 visits the front page
  again, after its content may have changed. `MaxVisits = 9` is never reached.
- `engine_fair`: one session is free, is used up by a client that is long gone,
  and is missed, by the Indexer or by the client. More of both multiply the
  states and add no new reason.
- `query`, `page_text`: one byte or character of each kind the code tells apart;
  five of them hold an escape with what precedes and follows it, or a tag with a
  word on either side. Lengths near 3 and 32, and texts with two escapes and seven
  words, are listed apart.
- `links`: a path of three pages, since what a page does to the next one depends
  on the host and target of its own entry, and these on the page before.
  `Depth = 2` is the named bound.

No symmetry is used: the state spaces do not need it, and liveness would not
allow it.

### 3.2 Fairness

- Crawl: weak fairness of the spider thread and of each worker. The operating
  system runs every thread that can run. Mutexes need no strong fairness: each
  worker passes through each section once per batch, so a mutex cannot be
  taken from it again and again for ever. A peer that answers does so in finite
  time; **a peer that never answers is one whose `Answers` is empty**, and nothing is
  assumed of it.
- Fetch: weak fairness of `Next`, the single thread that executes it, in a web
  where every peer answers. Chains of redirects may be endless all the same, and
  `UpgradeIsReached` says nothing of those.
- SearchServer: weak fairness, per connection, of its acceptance, of its read and
  write with their handlers, and of its deadline. The event loop runs every
  handler that is ready, and time passes. **Nothing is assumed of clients**: one may
  connect and send nothing, which is what deadlines are for. Nothing is assumed
  of the Indexer either.
- SearchEngine: weak fairness of `main`, of the spider thread and of each worker,
  whose database answers. **Nothing is assumed of clients, of the server's handlers
  or of whoever runs the program again.**
- Indexer, QueryText, PageText, Links: no liveness is stated; when a visit goes on
  is the spider's business, and the others are loops over a text that gets
  shorter.

Deadlock is checked in every run but two. In `crawl_fair` a worker waits for a
silent peer, and the others wait for its mutex: `CrawlEnds` says that this is
the only way to stop short. In `links` a path ends where a page has no link, at
its bound, or where the program does. `Halt`, `Rest`, `Wait`, `Over` and the last
disjuncts of `Next` in Fetch, QueryText and PageText stutter where the code has really ended or waits for the world outside.

### 3.3 Finding

The comment at server.h:356 says `"Loop" forever accepting new connections.`
`server_limit` shows that the loop does not go on for ever with three clients
that send well-formed requests, in any order and at any time, and two sessions:
the first two connections are accepted and keep their sessions, also when they
have been answered and destroyed (server.h:42, `new pqxx::connection`, and no
destructor), the third constructor's exception leaves the accept handler, and
the program is terminated. With PostgreSQL's default of 100 sessions the same happens at about
the hundredth connection.

The other consequences below are no contradiction to any text of the repository,
but its authors may want to know them:

- `url_decoding` decodes an escape wrong when a hexadecimal digit follows it
  (`DecodedUnlessDigitsFollow`).
- A link with a space, a bare '%' or a port that is no number in it, or a link with a fragment on a page whose own URL had
  an encoded space, ends the program when the spider comes to it
  (`EndsForAReason`).
- Results that were pushed with a scheme are shown with two, and lead nowhere;
  those with a query or an escape lead to another target than the one that was
  fetched (`ResultsLeadThere`).
- A client that searches before the first page is indexed on a new database ends
  the program (`EndsForWantOfSessions`).
- A page whose visit was interrupted stays incomplete in every later run
  (`NeverRepaired`, `IndexedOrInterrupted`).

## 4. Proofs

All theorems are about the unbounded specification: any web, any text, any number
of cores, levels, pages, crashes and connections. Every safety invariant and
every action property that a run checks is a theorem. They assume only the named
`ASSUME` of each module, which TLC evaluates in every run. Most of it gives the
constants their types; what has more content is:

- `Cores \in Nat \ {0}`: with `hardware_concurrency() = 0`, which the standard allows,
  the loop over `th` would never advance (the mutant `NumThreadsUnknown` shows it);
- `\A q \in Queries : IsFiniteSet(q)` in SearchEngine: a query has at most four words;
- in Links, that the characters the code tells apart are different ones.

`WantOfSessionsEnds` has a hypothesis besides, `NothingFails(S)`: one core, every
peer answers, links and redirects stay in a set `S` of pages, and neither the
database nor the configuration fails by itself. It is what the property is about;
`TwoPagesAreClosed` of MCSearchEngine evaluates its main part, `Closed`, for the web
of the engine's runs.

**Crawl** (`CrawlProofs`). None of the properties is inductive alone. `CrawlInv`
adds:
- `Barrier`: workers run only while the spider thread waits in the join loop, and
  only those of the batch. With it, `FrontExists` follows: `Remaining`, which
  counts the entries of the level nobody has popped yet, never exceeds the
  length of the queue: each pop lowers both, and no race can take away an entry
  of this level, since races act at the end of the queue.
- `RequestKnown`: after its first request a worker has a URL and its host is among
  those of the batch; with it, `HostOfThisBatch`.
- `LoneHost`: while a worker is alone in its batch, `host` is the one it assigned;
  with it, `LoneWorkerKeepsHost`.

The proof has one lemma per group of conjuncts and one step per action.
Theorems: `TypeCorrect`, `PopsFindAnEntry`, `MutualExclusion`, `HostOfLinks`,
`LoneHostOfLinks`.

`StallsNeverEnd` proves `StallIsForever`, which is a temporal property but needs no
fairness: a worker at a stalled peer can only go round HandleUrl's loop
(`StuckStep`: any answer it gets is a redirect to another stalled peer, since a
union of closed sets of URLs is closed), and there `Barrier` keeps the spider thread in its
join and `LockDiscipline` keeps `mt[2]`.

**Crawl implements LevelCrawl** (`ImplementsLevelCrawl` in `CrawlProofs`). The first `Remaining` entries of
`url_list` are the current level, the others the next; the visitors are the
workers between their pop and their end. `PopUrl` is `Take`, `ExtractLink` is
`Find` or a stutter, the end of a worker is `Leave`, `EndLevel` is `Advance`;
everything else stutters. A race may add `Junk` to the next level (`Spurious`, empty
for one core), and may lose a link, which to LevelCrawl is a link not found.

**Fetch** (`FetchProofs`). One invariant, which also says which scheme has been read at
each program point, gives `FetchTyped`, `TlsMeansPort443`, `HttpsNeverInTheClear` and
`TransportNeverTwoBehind` (`TransportCatchesUp`: a URL of the same scheme as the one
that redirected to it is requested over the transport of that scheme; the
transport, chosen one redirect too late, is never two behind).

**Indexer** (`IndexerProofs`). `IndexInv` adds `IdsDrawn` (the sequences are ahead of
the ids, so a new row's id is new), `VisitKnown` (during a visit, what the loop
has come past is visible, no less and no more), `WordKnown` (the row just
inserted has no page yet) and `InterruptedHasPage`. `OrphansAlwaysBounded` has an
invariant of its own on top of it: the orphans but the pending one form a
finite set of at most `crashes` elements. `InterruptedStaysAsItIs` is an action
property: no action changes what is visible of an interrupted page.

**Indexer implements InvertedIndex** (`ImplementsInvertedIndex` in `IndexerProofs`). `doc[u]` is the snapshot
and the visible words of a page, `open` the page whose visit goes on. `InsertPage` of a
new page is `Open`, `InsertPageWord` is `Show`, `CloseDB` is `Close`, `Crash` is
`Abandon`; `InsertWord` and a visit of a known page stutter.

**SearchServer** (`ServerProofs`). `ServerInv` adds `DeadlineKept` (a deadline is gone
only where the socket is closed or nothing is left to do), `WritesBegun` and
`SessionKept` (a connection has its session from its constructor on, and the
number of sessions is within the limit). Theorems: `ServerTyped`,
`DeadlineAlwaysThere`, `DestroyedInOrder`.

**SearchEngine** (`SearchEngineProofs`). `EngineInv` is the conjunction of `CrawlInv`,
`IndexInv` and `ServerInv` with what holds the parts together:
`VisitHasItsWorker` (the Indexer is at work only for the worker that holds `mt3`,
on the entry that worker took), `NotVisitedAgain` (a page a worker has come past
is in the table, and nobody visits it), and `FoundStaysFound`. A step of the
composed program is, for each part, a step of that part's module, a stutter, or
the end or the restart of it, so the parts' own lemmas carry over:
`SearchEngineProofs` instances `IndexerProofs` and `ServerProofs` and shows only
the rest. Theorems: `EngineTyped`, `OneVisitAtATime`, `PastVisitsAreFound`,
`NothingFoundIsLost`; and `EngineImplementsIndexer`, that the composed program
implements module `Indexer`, so that `KeysHold`, `OneSnapshot` and the others hold
of it as well; `EngineImplementsInvertedIndex` goes on from there to the abstract
index. They are for any web, any number of cores, clients, sessions, crashes and
reruns. Two more have an invariant of their own beside `EngineInv`:

- `WantOfSessionsEnds`: `KeepsTo(S)` says that a worker that is alone takes and asks for
  nothing but pages of `S`, so that none of the reasons for which a worker throws is
  left. With one core there is no race, and so no `Junk` and no lost push;
  `LoneWorkerKeepsHost` is what makes a link lead where its page says.
- `RankIsKept`: `FoundWhileOpen` says that a page that was found and is being visited was
  being visited when it was found. Only that page's score can change
  (`PageKept`, `ScoreStep`). The library adds up a set in an order of its own;
  `SumCounts` shows that what it computes is the number of elements of a set, one
  for each unit of each count: of the finite sets for which it were not, there
  would be a least one.

**QueryText** (`QueryTextProofs`). `QueryInv` relates what is left of the text to the
text: `word` is its rest from a position that `i` '+' precede. The `CHOOSE`s of
`Before`, `After` and `DigitsRead` are shown to have a value by a least element
(`HasLeast`), which well-foundedness of the naturals gives without induction over
an operator. Theorems: `QueryTyped` (no entry beyond the four of `words_list` is
written, for every text), `WordsInTheirPlaces`, and `DecodedWherePossible`. For the
last one, `Meaning` is a recursive function from the end of the text;
`Solvable` shows that its equations have a solution for every text, so that each
turn of it may be used (`FromIs`). `DecodedSoFar` is the invariant: what is left of the field
means what `tmp_word` still lacks, and each byte of it is right or had a digit
behind its escape.

**PageText** (`PageTextProofs`). `CleanText` is described by the places it keeps: a text
is a copy of places of another (`Copies`) if each of its characters, in order, is one
of these, or the space of a tag. `TextInv` says so of `tmp` against the page, with
`at` between two tags, and of the part that has been split: the table is the
`Tally` of the words that end in it (`KeptIn`). `CountRound` is one word more.
That the empty text between two spaces has size 0 is the one fact about the fold
in `Size` that is needed (`EmptyIsDropped`). Theorem: `WordsAreCounted`, for texts of any
length.

**Links** (`LinksProofs`). `LinksInv` says that each entry is what the host and target of
its page make of a link, also after it was popped, and that a host contains no '/',
'?', '#' or encoded character. The lemmas about `First`, `UpTo` and `Behind` come from least elements,
again; from them follow what `HandleUrl` reads in an entry that begins with a host
(`HostFirst`) and what a browser reads in the result shown for it (`BrowserOfHost`,
`BrowserOfAbsolute`). Theorems: `LinksTyped`, `HostIsKept`, `ResultsWhereTheyLead`,
`ReasonsAreAll`. `EveryLinkFoundOnce` has the invariant `ScanInv`: the loop is behind the
first `c` characters, each link that begins there is in `seen` at its place, and
the number of `<a href="` that are open at `c` is even, since the loop goes on
behind the quote that ends a link (`ScanRound`, `ScanEnds`).

The proofs have corrected the model. `First` and the cases of `Entry` in Links did not say
what they were meant to on texts outside the run; `StaysOnHost`, `ResultsLeadThere`
and `EndsForAReason` were false for pages without a target, which the run
did not have and now has.

Model-checked only: `CrawlEnds`, `UpgradeIsReached`, `AcceptedOrEnded`, `ConnectionsEnd` and
`FetchedIsFound`. They are liveness properties that need fairness; the proof system has
no ENABLED, and the ends of loops would need induction over a measure. Also
`AcceptsForever`, which is false.

## 5. Not modelled, and why

- The text of requests, responses, pages and HTML, logging and the console:
  input, output and layout.
- Sockets, TLS and HTTP as protocols: Boost's and OpenSSL's part. Which peers the
  certificates of root_certificates.h accept is an answer of the peer.
- `SpiderReadConfig`: reads a file once; that it may throw is `ReadConfig`, its
  values are constants. The build.
- root_certificates.h: nearly 4,000 lines of certificates, which no definition
  translates. They are most of the lines of the repository's implementation.
- Of the text algorithms: the prefixes `%x` skips before its digits, bytes that are
  no UTF-8 in `to_lower`, the NUL at which `c_str()` cuts a query, users and IP literals
  in authorities, escapes of characters that need none (such as %2F), dot segments
  in paths, and what `LOWER()` of select_word makes of the words of a query.
- The database beyond what the statements need of it: isolation of one statement,
  commit per statement, sequences, keys, and the limit of sessions.

## 6. Plan

Done, in this order: `LevelCrawl`, `Crawl` and its proofs, `Fetch`, `InvertedIndex`,
`Indexer`, `SearchServer`, and theirs; `SearchEngine` and its proofs, `QueryText` and
its proofs, `PageText`, `Links`.

Then the theorems about SearchEngine, QueryText, PageText and Links that were open,
until every safety property of a run was one, and `StallsNeverEnd`.

Next: the abstract specification of a search across the whole program. What a
client is told is a state of `InvertedIndex` between its request and its answer, by
way of `EngineImplementsInvertedIndex`.
