------------------------------ MODULE Indexer ------------------------------
(***************************************************************************)
(* The Indexer class and the three tables it writes.                       *)
(*                                                                         *)
(* A worker of the spider, holding mt[3], connects, creates the tables if  *)
(* there are none, and COMMITS; the inserts of IndexingPages come after    *)
(* the commit, so the database commits each by itself.  Whatever ends the  *)
(* program in between (any worker that throws ends all of them) leaves the *)
(* rows written so far, and the next run of the program finds them.        *)
(***************************************************************************)
EXTENDS Integers, FiniteSets

CONSTANTS
  Urls,       \* entries of url_list, what pages are known by
  Words,
  Contents,   \* Contents[u]: the results AnalyzeWords may have for page u
  NoUrl,
  NoWord,
  MaxVisits,  \* bound: calls of IndexingPages
  MaxCrashes  \* bound: how often the program ends early and is run again

\* A std::map<std::string, int> from words to how often they occur; a word it
\* does not contain has count 0.
Vocabulary == [Words -> Nat]
NoVocabulary == [w \in Words |-> 0]
WordsOf(v) == {w \in Words : v[w] > 0}

ASSUME IndexerAssumption ==
  /\ Contents \in [Urls -> SUBSET Vocabulary]
  /\ NoUrl \notin Urls
  /\ NoWord \notin Words
  /\ MaxVisits \in Nat
  /\ MaxCrashes \in Nat

VARIABLES
  \* The database; it outlives the program.
  schema,      \* do the tables exist?
  pages,       \* rows [id, url]
  words,       \* rows [id, word]
  page_words,  \* rows [page_id, word_id, count]
  page_seq,    \* the last value of the sequence behind pages.id
  word_seq,    \* the last value of the sequence behind words.id
  \* The Indexer at work.
  pc,          \* "idle", "connected", "page", "word", "known", or "dead"
  url,
  tmp_vocabulary,
  left,        \* the words the loop has not come to yet
  page_id,
  word,        \* the word of the last insert_word, and its id
  word_id,
  \* History.
  crashes,
  snapshot,    \* snapshot[u]: the vocabulary u was inserted with
  interrupted  \* the pages a crash left unfinished

tables == <<schema, pages, words, page_words, page_seq, word_seq>>
session == <<url, tmp_vocabulary, left, page_id, word, word_id>>
history == <<crashes, snapshot, interrupted>>
vars == <<tables, pc, session, history>>

Init ==
  /\ schema = FALSE
  /\ pages = {} /\ words = {} /\ page_words = {}
  /\ page_seq = 0 /\ word_seq = 0
  /\ pc = "idle"
  /\ url = NoUrl /\ tmp_vocabulary = NoVocabulary /\ left = {}
  /\ page_id = -1 /\ word = NoWord /\ word_id = -1
  /\ crashes = 0
  /\ snapshot = [u \in Urls |-> NoVocabulary]
  /\ interrupted = {}

\* Mutant: without the CREATE TABLEs.
ConnectDBToOldSchema ==
  /\ pc = "idle"
  /\ page_seq < MaxVisits
  /\ pc' = "connected"
  /\ UNCHANGED <<tables, session, history>>

\* Mutant: DROP TABLE before CREATE TABLE.
ConnectDBAnew ==
  /\ pc = "idle"
  /\ page_seq < MaxVisits
  /\ pc' = "connected"
  /\ schema' = TRUE
  /\ pages' = {} /\ words' = {} /\ page_words' = {}
  /\ UNCHANGED <<page_seq, word_seq, session, history>>

\* ConnectDB: one transaction creates all three tables.
ConnectDB ==
  /\ pc = "idle"
  /\ page_seq < MaxVisits
  /\ pc' = "connected"
  /\ schema' = TRUE
  /\ UNCHANGED <<pages, words, page_words, page_seq, word_seq, session, history>>

HasPage(u) == \E p \in pages : p.url = u

\* Mutant: without ON CONFLICT and without UNIQUE.
InsertPageUnchecked(u, v) ==
  /\ pc = "connected"
  /\ pc' = "page"
  /\ url' = u
  /\ tmp_vocabulary' = v /\ left' = WordsOf(v)
  /\ page_seq' = page_seq + 1
  /\ page_id' = page_seq'
  /\ pages' = pages \cup {[id |-> page_seq', url |-> u]}
  /\ snapshot' = [snapshot EXCEPT ![u] = v]
  /\ UNCHANGED <<schema, words, page_words, word_seq, word, word_id, crashes,
                 interrupted>>

\* Mutant: ON CONFLICT (url) DO UPDATE ... RETURNING id.
InsertPageOrUpdate(u, v) ==
  /\ pc = "connected"
  /\ pc' = "page"
  /\ url' = u
  /\ tmp_vocabulary' = v /\ left' = WordsOf(v)
  /\ page_seq' = page_seq + 1
  /\ pages' = IF HasPage(u) THEN pages ELSE pages \cup {[id |-> page_seq', url |-> u]}
  /\ page_id' = (CHOOSE p \in pages' : p.url = u).id
  /\ snapshot' = [snapshot EXCEPT ![u] = v]
  /\ UNCHANGED <<schema, words, page_words, word_seq, word, word_id, crashes,
                 interrupted>>

\* The vocabulary is computed, and insert_page is executed.  The sequence
\* advances even when ON CONFLICT (url) DO NOTHING leaves the table alone.
InsertPage(u, v) ==
  /\ pc = "connected"
  /\ url' = u
  /\ tmp_vocabulary' = v
  /\ page_seq' = page_seq + 1
  /\ \/ /\ ~HasPage(u)
        /\ pages' = pages \cup {[id |-> page_seq', url |-> u]}
        /\ page_id' = page_seq'
        /\ left' = WordsOf(v)
        /\ pc' = "page"
        /\ snapshot' = [snapshot EXCEPT ![u] = v]
     \/ /\ HasPage(u)
        /\ page_id' = -1
        /\ left' = {}
        /\ pc' = "known"
        /\ UNCHANGED <<pages, snapshot>>
  /\ UNCHANGED <<schema, words, page_words, word_seq, word, word_id, crashes,
                 interrupted>>

\* Mutant: a dictionary, ON CONFLICT (word) DO UPDATE ... RETURNING id.
InsertWordOnce(w) ==
  /\ pc = "page"
  /\ w \in left
  /\ pc' = "word"
  /\ word' = w
  /\ IF \E r \in words : r.word = w
     THEN /\ word_id' = (CHOOSE r \in words : r.word = w).id
          /\ UNCHANGED <<words, word_seq>>
     ELSE /\ word_seq' = word_seq + 1
          /\ words' = words \cup {[id |-> word_seq', word |-> w]}
          /\ word_id' = word_seq'
  /\ UNCHANGED <<schema, pages, page_words, page_seq, url, tmp_vocabulary, left,
                 page_id, history>>

InsertWord(w) ==
  /\ pc = "page"
  /\ w \in left
  /\ pc' = "word"
  /\ word_seq' = word_seq + 1
  /\ words' = words \cup {[id |-> word_seq', word |-> w]}
  /\ word' = w /\ word_id' = word_seq'
  /\ UNCHANGED <<schema, pages, page_words, page_seq, url, tmp_vocabulary, left,
                 page_id, history>>

\* Mutant: the row of page_words is refused and nobody notices.
InsertPageWordLost ==
  /\ pc = "word"
  /\ pc' = "page"
  /\ left' = left \ {word}
  /\ UNCHANGED <<tables, url, tmp_vocabulary, page_id, word, word_id, history>>

InsertPageWord ==
  /\ pc = "word"
  /\ pc' = "page"
  /\ page_words' = page_words \cup {[page_id |-> page_id, word_id |-> word_id,
                                     count |-> tmp_vocabulary[word]]}
  /\ left' = left \ {word}
  /\ UNCHANGED <<schema, pages, words, page_seq, word_seq, url, tmp_vocabulary,
                 page_id, word, word_id, history>>

\* Mutant: the loop may be left before it is over.
CloseDBEarly ==
  /\ pc \in {"page", "known"}
  /\ pc' = "idle"
  /\ UNCHANGED <<tables, session, history>>

\* The loop is over, or was never entered; connect_db->close() and ~Indexer.
CloseDB ==
  /\ \/ pc = "page" /\ left = {}
     \/ pc = "known"
  /\ pc' = "idle"
  /\ UNCHANGED <<tables, session, history>>

\* The program ends, here or in another of its threads.
Crash ==
  /\ pc # "dead"
  /\ crashes < MaxCrashes
  /\ pc' = "dead"
  /\ crashes' = crashes + 1
  /\ interrupted' = IF pc \in {"page", "word"} /\ left # {}
                    THEN interrupted \cup {url} ELSE interrupted
  /\ UNCHANGED <<tables, session, snapshot>>

\* It is run again: the next Indexer is a new object.
Restart ==
  /\ pc = "dead"
  /\ pc' = "idle"
  /\ url' = NoUrl /\ tmp_vocabulary' = NoVocabulary /\ left' = {}
  /\ page_id' = -1 /\ word' = NoWord /\ word_id' = -1
  /\ UNCHANGED <<tables, history>>

\* The spider has no page left; for the model, its visits are used up.
Rest ==
  /\ pc = "idle"
  /\ page_seq = MaxVisits
  /\ UNCHANGED vars

Next ==
  \/ ConnectDB
  \/ \E u \in Urls : \E v \in Contents[u] : InsertPage(u, v)
  \/ \E w \in Words : InsertWord(w)
  \/ InsertPageWord
  \/ CloseDB
  \/ Crash
  \/ Restart
  \/ Rest

Spec == Init /\ [][Next]_vars

-----------------------------------------------------------------------------
(***************************************************************************)
(* Properties.                                                             *)
(***************************************************************************)

\* Every variable keeps its type, and rows exist only in tables that exist.
TypeOK ==
  /\ schema \in BOOLEAN
  /\ pages \subseteq [id : Nat, url : Urls]
  /\ words \subseteq [id : Nat, word : Words]
  /\ page_words \subseteq [page_id : Nat, word_id : Nat, count : Nat]
  /\ page_seq \in Nat /\ word_seq \in Nat
  /\ pc \in {"idle", "connected", "page", "word", "known", "dead"}
  /\ url \in Urls \cup {NoUrl}
  /\ tmp_vocabulary \in Vocabulary
  /\ left \subseteq Words
  /\ page_id \in Nat \cup {-1}
  /\ word \in Words \cup {NoWord}
  /\ word_id \in Nat \cup {-1}
  /\ crashes \in Nat
  /\ snapshot \in [Urls -> Vocabulary]
  /\ interrupted \subseteq Urls
  /\ ~schema => pages = {} /\ words = {}
  /\ pc \notin {"idle", "dead"} => schema

\* The rows of a page, as the joins of select_word see them.
LinksOf(p) == {l \in page_words : l.page_id = p.id}
RowsOf(p) == {r \in words : \E l \in LinksOf(p) : l.word_id = r.id}
Visible(u) == UNION {{r.word : r \in RowsOf(p)} : p \in {q \in pages : q.url = u}}

\* The word row just inserted, until page_words refers to it.
Pending == {r \in words : pc = "word" /\ r.id = word_id}
Orphans == {r \in words : \A l \in page_words : l.word_id # r.id}

\* The ids that RETURNING hands to the program identify one row each, across
\* crashes and restarts, and page_words refers to rows that exist.
KeysHold ==
  /\ \A p, q \in pages : p.id = q.id \/ p.url = q.url => p = q
  /\ \A r, s \in words : r.id = s.id => r = s
  /\ \A l, m \in page_words :
       l.page_id = m.page_id /\ l.word_id = m.word_id => l = m
  /\ \A l \in page_words : /\ \E p \in pages : p.id = l.page_id
                           /\ \E r \in words : r.id = l.word_id

\* words is no dictionary, although page_words looks like a relation between
\* pages and words: no row of it is ever shared by two pages, and no page has
\* two rows for one word.
WordRowsPrivate ==
  /\ \A l, m \in page_words : l.word_id = m.word_id => l = m
  /\ \A p \in pages : \A r, s \in RowsOf(p) : r.word = s.word => r = s

\* What can be found of a page is a part of the one vocabulary it had when it
\* was first visited, with the counts of that visit, never a mixture of visits;
\* and all of it, unless the visit goes on or was interrupted.
OneSnapshot ==
  \A p \in pages :
    /\ \A r \in RowsOf(p), l \in LinksOf(p) :
         l.word_id = r.id => /\ r.word \in WordsOf(snapshot[p.url])
                             /\ l.count = snapshot[p.url][r.word]
    /\ \/ Visible(p.url) = WordsOf(snapshot[p.url])
       \/ p.url \in interrupted
       \/ pc \in {"page", "word"} /\ url = p.url

\* The rows of words that no page refers to: each crash leaves at most one.
OrphansBounded == Cardinality(Orphans \ Pending) <= crashes

\* A page whose visit was interrupted stays as it is: ON CONFLICT (url) DO
\* NOTHING takes what is left of it for the page, on every later run.
NeverRepaired == [][\A u \in interrupted : UNCHANGED Visible(u)]_vars

-----------------------------------------------------------------------------
(***************************************************************************)
(* What the properties rest on: the conjuncts that make them inductive.    *)
(***************************************************************************)

\* The sequences are ahead of the ids: RETURNING never hands out an old one.
IdsDrawn ==
  /\ \A p \in pages : p.id <= page_seq
  /\ \A r \in words : r.id <= word_seq

\* During a visit the page has its row, and what the loop has come past is
\* visible, no less and no more.
VisitKnown ==
  pc \in {"page", "word"} =>
    /\ [id |-> page_id, url |-> url] \in pages
    /\ snapshot[url] = tmp_vocabulary
    /\ left \subseteq WordsOf(tmp_vocabulary)
    /\ Visible(url) = WordsOf(tmp_vocabulary) \ left
    /\ url \notin interrupted

\* Between insert_word and insert_page_word the new row has no page yet.
WordKnown ==
  pc = "word" =>
    /\ word \in left
    /\ [id |-> word_id, word |-> word] \in words
    /\ \A l \in page_words : l.word_id # word_id

InterruptedHasPage == \A u \in interrupted : HasPage(u)

\* The inductive invariant, for everything but the count of the orphans.
IndexInv ==
  /\ TypeOK
  /\ IdsDrawn
  /\ KeysHold
  /\ VisitKnown
  /\ WordKnown
  /\ InterruptedHasPage
  /\ WordRowsPrivate
  /\ OneSnapshot

\* Indexer implements InvertedIndex.
Index == INSTANCE InvertedIndex WITH
           Absent <- NoUrl,
           doc <- [u \in Urls |-> IF HasPage(u)
                                  THEN [snapshot |-> snapshot[u],
                                        visible |-> Visible(u)]
                                  ELSE NoUrl],
           open <- IF pc \in {"page", "word"} THEN {url} ELSE {}

PageByPage == Index!IndexSpec
=============================================================================
