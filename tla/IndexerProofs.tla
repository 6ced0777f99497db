--------------------------- MODULE IndexerProofs ---------------------------
(***************************************************************************)
(* Proofs about Indexer, for every set of pages and vocabularies, and any  *)
(* number of visits and crashes.                                           *)
(***************************************************************************)
EXTENDS Indexer, FiniteSetTheorems, TLAPS

USE IndexerAssumption

-----------------------------------------------------------------------------
(***************************************************************************)
(* What select_word finds, without the intermediate sets.                  *)
(***************************************************************************)

Shows(u, w) ==
  \E p \in pages, l \in page_words, r \in words :
    p.url = u /\ l.page_id = p.id /\ l.word_id = r.id /\ r.word = w

LEMMA RowsOfDef ==
  ASSUME NEW p, NEW r
  PROVE  /\ r \in RowsOf(p) <=>
              r \in words /\ \E l \in page_words :
                               l.page_id = p.id /\ l.word_id = r.id
         /\ r \in RowsOf(p)' <=>
              r \in words' /\ \E l \in page_words' :
                                l.page_id = p.id /\ l.word_id = r.id
  BY DEF RowsOf, LinksOf

LEMMA VisibleDef ==
  ASSUME NEW u, NEW w
  PROVE  /\ w \in Visible(u) <=> Shows(u, w)
         /\ w \in Visible(u)' <=> Shows(u, w)'
<1>1. w \in Visible(u) <=> Shows(u, w)
  <2>1. w \in Visible(u) <=>
          \E p \in pages : p.url = u /\ \E r \in RowsOf(p) : r.word = w
    BY DEF Visible
  <2> QED
    BY <2>1, RowsOfDef DEF Shows
<1>2. w \in Visible(u)' <=> Shows(u, w)'
  <2>1. w \in Visible(u)' <=>
          \E p \in pages' : p.url = u /\ \E r \in RowsOf(p)' : r.word = w
    BY DEF Visible
  <2> QED
    BY <2>1, RowsOfDef DEF Shows
<1> QED
  BY <1>1, <1>2

LEMMA SameRows ==
  ASSUME UNCHANGED <<pages, words, page_words>>
  PROVE  /\ \A p : RowsOf(p)' = RowsOf(p) /\ LinksOf(p)' = LinksOf(p)
         /\ \A u : Visible(u)' = Visible(u)
         /\ \A u : HasPage(u)' <=> HasPage(u)
         /\ Orphans' = Orphans
  BY DEF RowsOf, LinksOf, Visible, HasPage, Orphans

-----------------------------------------------------------------------------
LEMMA TypeInit ==
  ASSUME Init
  PROVE  TypeOK
<1>1. NoVocabulary \in Vocabulary
  BY DEF NoVocabulary, Vocabulary
<1>2. /\ tmp_vocabulary \in Vocabulary
      /\ snapshot \in [Urls -> Vocabulary]
  BY <1>1 DEF Init
<1>3. pages = {} /\ words = {} /\ page_words = {} /\ left = {} /\ interrupted = {}
  BY DEF Init
<1>4. /\ page_seq \in Nat /\ word_seq \in Nat /\ crashes \in Nat
      /\ page_id \in Nat \cup {-1} /\ word_id \in Nat \cup {-1}
  BY DEF Init
<1>5. /\ schema \in BOOLEAN /\ pc = "idle"
      /\ url \in Urls \cup {NoUrl} /\ word \in Words \cup {NoWord}
  BY DEF Init
<1> QED
  BY <1>2, <1>3, <1>4, <1>5 DEF TypeOK

LEMMA TypeStep ==
  ASSUME TypeOK, VisitKnown, WordKnown, [Next]_vars
  PROVE  TypeOK'
<1>1. CASE ConnectDB
  BY <1>1 DEF TypeOK, ConnectDB, session, history
<1>2. ASSUME NEW u \in Urls, NEW v \in Contents[u], InsertPage(u, v)
      PROVE  TypeOK'
  <2>1. v \in Vocabulary
    BY DEF TypeOK
  <2>2. WordsOf(v) \subseteq Words
    BY DEF WordsOf
  <2>3. page_seq' = page_seq + 1 /\ page_seq' \in Nat
    BY <1>2 DEF InsertPage, TypeOK
  <2>4. [id |-> page_seq', url |-> u] \in [id : Nat, url : Urls]
    BY <2>3
  <2> QED
    BY <1>2, <2>1, <2>2, <2>3, <2>4 DEF TypeOK, InsertPage
<1>3. ASSUME NEW w \in Words, InsertWord(w)
      PROVE  TypeOK'
  <2>1. word_seq' = word_seq + 1 /\ word_seq' \in Nat
    BY <1>3 DEF InsertWord, TypeOK
  <2>2. [id |-> word_seq', word |-> w] \in [id : Nat, word : Words]
    BY <2>1
  <2> QED
    BY <1>3, <2>1, <2>2 DEF TypeOK, InsertWord, history
<1>4. CASE InsertPageWord
  <2>1. /\ [id |-> page_id, url |-> url] \in [id : Nat, url : Urls]
        /\ [id |-> word_id, word |-> word] \in [id : Nat, word : Words]
    BY <1>4 DEF InsertPageWord, VisitKnown, WordKnown, TypeOK
  <2>2. page_id \in Nat /\ word_id \in Nat /\ word \in Words
    BY <2>1
  <2>3. tmp_vocabulary[word] \in Nat
    BY <2>2 DEF TypeOK, Vocabulary
  <2>4. [page_id |-> page_id, word_id |-> word_id,
         count |-> tmp_vocabulary[word]]
          \in [page_id : Nat, word_id : Nat, count : Nat]
    BY <2>2, <2>3
  <2> QED
    BY <1>4, <2>4 DEF TypeOK, InsertPageWord, history
<1>5. CASE CloseDB
  BY <1>5 DEF TypeOK, CloseDB, tables, session, history
<1>6. CASE Crash
  <2>1. url \in Urls \/ pc \notin {"page", "word"}
    <3>1. pc \in {"page", "word"} => [id |-> page_id, url |-> url] \in [id : Nat, url : Urls]
      BY DEF VisitKnown, TypeOK
    <3> QED
      BY <3>1
  <2> QED
    BY <1>6, <2>1 DEF TypeOK, Crash, tables, session
<1>7. CASE Restart
  <2>1. NoVocabulary \in Vocabulary
    BY DEF NoVocabulary, Vocabulary
  <2> QED
    BY <1>7, <2>1 DEF TypeOK, Restart, tables, history
<1>8. CASE UNCHANGED vars
  BY <1>8 DEF TypeOK, vars, tables, session, history
<1> QED
  BY <1>1, <1>2, <1>3, <1>4, <1>5, <1>6, <1>7, <1>8 DEF Next, Rest

-----------------------------------------------------------------------------
(***************************************************************************)
(* The inductive step, one lemma per action that changes rows, and one for *)
(* those that do not.                                                      *)
(***************************************************************************)

\* A step that writes no row keeps what is said of the rows alone.
LEMMA RowsKept ==
  ASSUME IndexInv, UNCHANGED <<pages, words, page_words>>,
         page_seq' = page_seq, word_seq' = word_seq
  PROVE  IdsDrawn' /\ KeysHold' /\ WordRowsPrivate'
<1>1. IdsDrawn'
  BY DEF IndexInv, IdsDrawn
<1>2. KeysHold'
  BY DEF IndexInv, KeysHold
<1>3. WordRowsPrivate'
  BY SameRows DEF IndexInv, WordRowsPrivate
<1> QED
  BY <1>1, <1>2, <1>3

LEMMA ConnectStep ==
  ASSUME IndexInv, TypeOK', ConnectDB
  PROVE  IndexInv'
<1>1. /\ UNCHANGED <<pages, words, page_words, page_seq, word_seq>>
      /\ UNCHANGED <<snapshot, interrupted, url>>
      /\ pc = "idle" /\ pc' = "connected"
  BY DEF ConnectDB, session, history
<1>2. IdsDrawn' /\ KeysHold' /\ WordRowsPrivate'
  BY <1>1, RowsKept
<1>3. InterruptedHasPage'
  BY <1>1, SameRows DEF IndexInv, InterruptedHasPage
<1>4. OneSnapshot'
  BY <1>1, SameRows DEF IndexInv, OneSnapshot
<1> QED
  BY <1>1, <1>2, <1>3, <1>4 DEF IndexInv, VisitKnown, WordKnown

LEMMA CloseStep ==
  ASSUME IndexInv, TypeOK', CloseDB
  PROVE  IndexInv'
<1>1. /\ UNCHANGED <<pages, words, page_words, page_seq, word_seq>>
      /\ UNCHANGED <<snapshot, interrupted, url>>
      /\ pc' = "idle"
      /\ pc \in {"page", "known"}
      /\ pc = "page" => left = {}
  BY DEF CloseDB, tables, session, history
<1>2. IdsDrawn' /\ KeysHold' /\ WordRowsPrivate'
  BY <1>1, RowsKept
<1>3. InterruptedHasPage'
  BY <1>1, SameRows DEF IndexInv, InterruptedHasPage
<1>4. pc = "page" => Visible(url) = WordsOf(snapshot[url])
  BY <1>1 DEF IndexInv, VisitKnown
<1>5. OneSnapshot'
  BY <1>1, <1>4, SameRows DEF IndexInv, OneSnapshot
<1> QED
  BY <1>1, <1>2, <1>3, <1>5 DEF IndexInv, VisitKnown, WordKnown

LEMMA CrashStep ==
  ASSUME IndexInv, TypeOK', Crash
  PROVE  IndexInv'
<1>1. /\ UNCHANGED <<pages, words, page_words, page_seq, word_seq>>
      /\ UNCHANGED <<snapshot, url>>
      /\ pc' = "dead"
      /\ interrupted' = IF pc \in {"page", "word"} /\ left # {}
                        THEN interrupted \cup {url} ELSE interrupted
  BY DEF Crash, tables, session
<1>2. IdsDrawn' /\ KeysHold' /\ WordRowsPrivate'
  BY <1>1, RowsKept
<1>3. pc \in {"page", "word"} => HasPage(url)
  <2>1. pc \in {"page", "word"} => [id |-> page_id, url |-> url] \in pages
    BY DEF IndexInv, VisitKnown
  <2>2. [id |-> page_id, url |-> url].url = url
    OBVIOUS
  <2> QED
    BY <2>1, <2>2, Zenon DEF HasPage
<1>4. InterruptedHasPage'
  BY <1>1, <1>3, SameRows DEF IndexInv, InterruptedHasPage
<1>5. pc \in {"page", "word"} /\ left = {} => Visible(url) = WordsOf(snapshot[url])
  BY DEF IndexInv, VisitKnown
<1>6. OneSnapshot'
  BY <1>1, <1>5, SameRows DEF IndexInv, OneSnapshot
<1> QED
  BY <1>1, <1>2, <1>4, <1>6 DEF IndexInv, VisitKnown, WordKnown

LEMMA RestartStep ==
  ASSUME IndexInv, TypeOK', Restart
  PROVE  IndexInv'
<1>1. /\ UNCHANGED <<pages, words, page_words, page_seq, word_seq>>
      /\ UNCHANGED <<snapshot, interrupted>>
      /\ pc = "dead" /\ pc' = "idle"
  BY DEF Restart, tables, history
<1>2. IdsDrawn' /\ KeysHold' /\ WordRowsPrivate'
  BY <1>1, RowsKept
<1>3. InterruptedHasPage'
  BY <1>1, SameRows DEF IndexInv, InterruptedHasPage
<1>4. OneSnapshot'
  BY <1>1, SameRows DEF IndexInv, OneSnapshot
<1> QED
  BY <1>1, <1>2, <1>3, <1>4 DEF IndexInv, VisitKnown, WordKnown

LEMMA StutterStep ==
  ASSUME IndexInv, TypeOK', UNCHANGED vars
  PROVE  IndexInv'
<1>1. /\ UNCHANGED <<pages, words, page_words, page_seq, word_seq>>
      /\ UNCHANGED <<snapshot, interrupted, pc, url, tmp_vocabulary, left>>
      /\ UNCHANGED <<page_id, word, word_id>>
  BY DEF vars, tables, session, history
<1>2. IdsDrawn' /\ KeysHold' /\ WordRowsPrivate'
  BY <1>1, RowsKept
<1>3. InterruptedHasPage'
  BY <1>1, SameRows DEF IndexInv, InterruptedHasPage
<1>4. OneSnapshot'
  BY <1>1, SameRows DEF IndexInv, OneSnapshot
<1>5. VisitKnown'
  BY <1>1, SameRows DEF IndexInv, VisitKnown
<1>6. WordKnown'
  BY <1>1 DEF IndexInv, WordKnown
<1> QED
  BY <1>2, <1>3, <1>4, <1>5, <1>6 DEF IndexInv

\* A first visit: the new id is on no row of page_words yet.
LEMMA InsertPageStep ==
  ASSUME IndexInv, TypeOK', NEW u \in Urls, NEW v \in Contents[u],
         InsertPage(u, v)
  PROVE  /\ IndexInv'
         /\ ~HasPage(u) => Visible(u)' = {}
         /\ \A x : HasPage(x) \/ x # u => Visible(x)' = Visible(x)
<1>1. /\ UNCHANGED <<words, page_words, word_seq, interrupted>>
      /\ pc = "connected"
      /\ page_seq' = page_seq + 1 /\ page_seq \in Nat
      /\ url' = u /\ tmp_vocabulary' = v
  BY DEF InsertPage, IndexInv, TypeOK
<1>2. CASE HasPage(u)
  <2>1. UNCHANGED <<pages, snapshot>> /\ pc' = "known"
    BY <1>2 DEF InsertPage
  <2>2. IdsDrawn'
    BY <1>1, <2>1 DEF IndexInv, IdsDrawn, TypeOK
  <2>3. KeysHold'
    BY <1>1, <2>1 DEF IndexInv, KeysHold
  <2>4. WordRowsPrivate'
    BY <1>1, <2>1, SameRows DEF IndexInv, WordRowsPrivate
  <2>5. InterruptedHasPage'
    BY <1>1, <2>1, SameRows DEF IndexInv, InterruptedHasPage
  <2>6. OneSnapshot'
    BY <1>1, <2>1, SameRows DEF IndexInv, OneSnapshot
  <2>7. \A x : Visible(x)' = Visible(x)
    BY <1>1, <2>1, SameRows
  <2>8. IndexInv'
    BY <2>1, <2>2, <2>3, <2>4, <2>5, <2>6 DEF IndexInv, VisitKnown, WordKnown
  <2> QED
    BY <1>2, <2>7, <2>8
<1>3. CASE ~HasPage(u)
  <2> DEFINE new == [id |-> page_seq', url |-> u]
  <2>1. /\ pages' = pages \cup {new}
        /\ page_id' = page_seq' /\ left' = WordsOf(v) /\ pc' = "page"
        /\ snapshot' = [snapshot EXCEPT ![u] = v]
    BY <1>3 DEF InsertPage
  <2>2. new.id = page_seq + 1 /\ new.url = u /\ new = [id |-> page_id', url |-> url']
    BY <1>1, <2>1
  <2>3. \A p \in pages : p.id \in Nat /\ p.id <= page_seq /\ p.url \in Urls /\ p.url # u
    BY <1>3 DEF IndexInv, TypeOK, IdsDrawn, HasPage
  <2> HIDE DEF new
  <2>4. \A p \in pages : p.id # new.id
    BY <1>1, <2>2, <2>3
  <2>5. \A l \in page_words : l.page_id # new.id
    BY <2>4 DEF IndexInv, KeysHold
  <2>6. IdsDrawn'
    BY <1>1, <2>1, <2>2, <2>3 DEF IndexInv, IdsDrawn, TypeOK
  <2>7. KeysHold'
    BY <1>1, <2>1, <2>2, <2>3, <2>4 DEF IndexInv, KeysHold
  <2>8. \A p : RowsOf(p)' = RowsOf(p) /\ LinksOf(p)' = LinksOf(p)
    BY <1>1 DEF RowsOf, LinksOf
  <2>9. RowsOf(new) = {}
    BY <2>5 DEF RowsOf, LinksOf
  <2>10. WordRowsPrivate'
    BY <1>1, <2>1, <2>8, <2>9 DEF IndexInv, WordRowsPrivate
  <2>11. InterruptedHasPage'
    BY <1>1, <2>1 DEF IndexInv, InterruptedHasPage, HasPage
  <2>12. u \notin interrupted
    BY <1>3 DEF IndexInv, InterruptedHasPage
  <2>13. Visible(u)' = {}
    <3>1. \A p \in pages' : p.url = u => p = new
      BY <2>1, <2>3
    <3> QED
      BY <3>1, <2>8, <2>9 DEF Visible
  <2>14. VisitKnown'
    BY <1>1, <2>1, <2>2, <2>12, <2>13 DEF VisitKnown, IndexInv, TypeOK
  <2>15. \A x : x # u => Visible(x)' = Visible(x)
    BY <2>1, <2>2, <2>8 DEF Visible
  <2>16. \A p \in pages : snapshot'[p.url] = snapshot[p.url]
    BY <2>1, <2>3 DEF IndexInv, TypeOK
  <2>17. OneSnapshot'
    BY <1>1, <2>1, <2>2, <2>3, <2>8, <2>9, <2>15, <2>16 DEF IndexInv, OneSnapshot
  <2>18. WordKnown'
    BY <2>1 DEF WordKnown
  <2>19. IndexInv'
    BY <2>6, <2>7, <2>10, <2>11, <2>14, <2>17, <2>18 DEF IndexInv
  <2> QED
    BY <1>3, <2>13, <2>15, <2>19
<1> QED
  BY <1>2, <1>3

\* The new row is on no row of page_words yet, so no page shows it.
LEMMA InsertWordStep ==
  ASSUME IndexInv, TypeOK', NEW w \in Words, InsertWord(w)
  PROVE  IndexInv' /\ \A u : Visible(u)' = Visible(u)
<1> DEFINE new == [id |-> word_seq', word |-> w]
<1>1. /\ UNCHANGED <<pages, page_words, page_seq, snapshot, interrupted>>
      /\ UNCHANGED <<url, tmp_vocabulary, left, page_id>>
      /\ pc = "page" /\ pc' = "word" /\ w \in left
      /\ word_seq' = word_seq + 1 /\ word_seq \in Nat
      /\ words' = words \cup {new}
      /\ word' = w /\ word_id' = word_seq'
  BY DEF InsertWord, history, IndexInv, TypeOK
<1>2. new.id = word_seq + 1 /\ new.word = w /\ new = [id |-> word_id', word |-> word']
  BY <1>1
<1>3. \A r \in words : r.id \in Nat /\ r.id <= word_seq
  BY DEF IndexInv, TypeOK, IdsDrawn
<1> HIDE DEF new
<1>4. \A r \in words : r.id # new.id
  BY <1>1, <1>2, <1>3
<1>5. \A l \in page_words : l.word_id # new.id
  BY <1>4 DEF IndexInv, KeysHold
<1>6. \A p : RowsOf(p)' = RowsOf(p) /\ LinksOf(p)' = LinksOf(p)
  BY <1>1, <1>5 DEF RowsOf, LinksOf
<1>7. \A u : Visible(u)' = Visible(u)
  BY <1>1, <1>6 DEF Visible
<1>8. IdsDrawn'
  BY <1>1, <1>2, <1>3 DEF IndexInv, IdsDrawn
<1>9. KeysHold'
  BY <1>1, <1>4 DEF IndexInv, KeysHold
<1>10. VisitKnown'
  BY <1>1, <1>7 DEF IndexInv, VisitKnown
<1>11. WordKnown'
  BY <1>1, <1>2, <1>5 DEF WordKnown
<1>12. InterruptedHasPage'
  BY <1>1 DEF IndexInv, InterruptedHasPage, HasPage
<1>13. WordRowsPrivate'
  BY <1>1, <1>6 DEF IndexInv, WordRowsPrivate
<1>14. OneSnapshot'
  BY <1>1, <1>6, <1>7 DEF IndexInv, OneSnapshot
<1> QED
  BY <1>7, <1>8, <1>9, <1>10, <1>11, <1>12, <1>13, <1>14 DEF IndexInv

\* The row of words becomes visible, of this page and of no other.
LEMMA InsertPageWordStep ==
  ASSUME IndexInv, TypeOK', InsertPageWord
  PROVE  /\ IndexInv'
         /\ word \in WordsOf(snapshot[url]) \ Visible(url)
         /\ Visible(url)' = Visible(url) \cup {word}
         /\ \A u \in Urls \ {url} : Visible(u)' = Visible(u)
<1>a. PICK page : page = [id |-> page_id, url |-> url]
  OBVIOUS
<1>b. PICK row : row = [id |-> word_id, word |-> word]
  OBVIOUS
<1>c. PICK link : link = [page_id |-> page_id, word_id |-> word_id,
                          count |-> tmp_vocabulary[word]]
  OBVIOUS
<1>1. /\ UNCHANGED <<pages, words, page_seq, word_seq, snapshot, interrupted>>
      /\ UNCHANGED <<url, tmp_vocabulary, page_id, word, word_id>>
      /\ pc = "word" /\ pc' = "page"
      /\ page_words' = page_words \cup {link}
      /\ left' = left \ {word}
  BY <1>c DEF InsertPageWord, history
<1>2. /\ page \in pages /\ row \in words /\ word \in left
      /\ left \subseteq WordsOf(tmp_vocabulary)
      /\ snapshot[url] = tmp_vocabulary
      /\ Visible(url) = WordsOf(tmp_vocabulary) \ left
      /\ url \notin interrupted
      /\ \A l \in page_words : l.word_id # word_id
  BY <1>1, <1>a, <1>b DEF IndexInv, VisitKnown, WordKnown
<1>3. /\ page.id = page_id /\ page.url = url
      /\ row.id = word_id /\ row.word = word
      /\ link.page_id = page_id /\ link.word_id = word_id
      /\ link.count = tmp_vocabulary[word]
  BY <1>a, <1>b, <1>c
<1>4. /\ \A p \in pages : p.id = page_id \/ p.url = url => p = page
      /\ \A r \in words : r.id = word_id => r = row
  BY <1>2, <1>3 DEF IndexInv, KeysHold
<1>5. \A p \in pages : p # page =>
        RowsOf(p)' = RowsOf(p) /\ LinksOf(p)' = LinksOf(p)
  <2> SUFFICES ASSUME NEW p \in pages, p # page
               PROVE  RowsOf(p)' = RowsOf(p) /\ LinksOf(p)' = LinksOf(p)
    OBVIOUS
  <2>1. LinksOf(p)' = LinksOf(p)
    BY <1>1, <1>3, <1>4 DEF LinksOf
  <2> QED
    BY <1>1, <2>1 DEF RowsOf
<1>6. LinksOf(page)' = LinksOf(page) \cup {link}
  BY <1>1, <1>3 DEF LinksOf
<1>7. RowsOf(page)' = RowsOf(page) \cup {row}
  BY <1>1, <1>2, <1>3, <1>4, <1>6 DEF RowsOf
<1>8. \A u, w : w \in Visible(u) <=>
                 \E p \in pages : p.url = u /\ \E r \in RowsOf(p) : r.word = w
  BY DEF Visible
<1>9. \A u, w : w \in Visible(u)' <=>
                 \E p \in pages : p.url = u /\ \E r \in RowsOf(p)' : r.word = w
  BY <1>1 DEF Visible
<1>10. \A u \in Urls \ {url} : Visible(u)' = Visible(u)
  <2> SUFFICES ASSUME NEW u \in Urls \ {url}
               PROVE  Visible(u)' = Visible(u)
    OBVIOUS
  <2>1. \A p \in pages : p.url = u => RowsOf(p)' = RowsOf(p)
    BY <1>3, <1>5
  <2>2. \A w : w \in Visible(u)' <=> w \in Visible(u)
    BY <1>8, <1>9, <2>1
  <2> QED
    BY <2>2
<1>11. Visible(url)' = Visible(url) \cup {word}
  <2>1. {q \in pages : q.url = url} = {page}
    BY <1>2, <1>3, <1>4
  <2>2. Visible(url) = {r.word : r \in RowsOf(page)}
    BY <2>1 DEF Visible
  <2>3. Visible(url)' = {r.word : r \in RowsOf(page)'}
    BY <2>1, <1>1 DEF Visible
  <2> QED
    BY <2>2, <2>3, <1>7, <1>3
<1>12. IdsDrawn'
  BY <1>1 DEF IndexInv, IdsDrawn
<1>13. KeysHold'
  <2>1. /\ \A p, q \in pages : p.id = q.id \/ p.url = q.url => p = q
        /\ \A r, s \in words : r.id = s.id => r = s
    BY DEF IndexInv, KeysHold
  <2>2. \A l, m \in page_words' :
          l.page_id = m.page_id /\ l.word_id = m.word_id => l = m
    BY <1>1, <1>2, <1>3 DEF IndexInv, KeysHold
  <2>3. \A l \in page_words' : /\ \E p \in pages : p.id = l.page_id
                               /\ \E r \in words : r.id = l.word_id
    BY <1>1, <1>2, <1>3 DEF IndexInv, KeysHold
  <2> QED
    BY <1>1, <2>1, <2>2, <2>3 DEF KeysHold
<1>14. VisitKnown'
  <2>1. Visible(url)' = WordsOf(tmp_vocabulary) \ left'
    BY <1>1, <1>2, <1>11
  <2> QED
    BY <1>1, <1>2, <1>a, <2>1 DEF VisitKnown
<1>15. WordKnown'
  BY <1>1 DEF WordKnown
<1>16. InterruptedHasPage'
  BY <1>1 DEF IndexInv, InterruptedHasPage, HasPage
<1>17. WordRowsPrivate'
  <2>1. \A l, m \in page_words' : l.word_id = m.word_id => l = m
    BY <1>1, <1>2, <1>3 DEF IndexInv, WordRowsPrivate
  <2>2. \A r \in RowsOf(page) : r.word # word
    <3>1. \A r \in RowsOf(page) : r.word \in Visible(url)
      BY <1>2, <1>3 DEF Visible
    <3> QED
      BY <3>1, <1>2
  <2>3. \A p \in pages : \A r, s \in RowsOf(p)' : r.word = s.word => r = s
    BY <1>3, <1>5, <1>7, <2>2 DEF IndexInv, WordRowsPrivate
  <2> QED
    BY <1>1, <2>1, <2>3 DEF WordRowsPrivate
<1>18. OneSnapshot'
  <2> SUFFICES ASSUME NEW p \in pages
               PROVE  /\ \A r \in RowsOf(p)', l \in LinksOf(p)' :
                           l.word_id = r.id =>
                             /\ r.word \in WordsOf(snapshot[p.url])
                             /\ l.count = snapshot[p.url][r.word]
                      /\ \/ Visible(p.url)' = WordsOf(snapshot[p.url])
                         \/ p.url \in interrupted
                         \/ p.url = url
    BY <1>1 DEF OneSnapshot
  <2>1. CASE p = page
    <3>1. \A l \in LinksOf(page) : l.word_id # row.id
      BY <1>2, <1>3 DEF LinksOf
    <3>2. \A r \in RowsOf(page) : r.id # link.word_id
      BY <1>2, <1>3 DEF RowsOf, LinksOf
    <3>3. row.word \in WordsOf(snapshot[url])
          /\ link.count = snapshot[url][row.word]
      BY <1>2, <1>3
    <3>4. \A r \in RowsOf(page), l \in LinksOf(page) :
            l.word_id = r.id => /\ r.word \in WordsOf(snapshot[url])
                                /\ l.count = snapshot[url][r.word]
      BY <1>2, <1>3 DEF IndexInv, OneSnapshot
    <3> QED
      BY <2>1, <1>3, <1>6, <1>7, <3>1, <3>2, <3>3, <3>4
  <2>2. CASE p # page
    <3>1. p.url # url /\ p.url \in Urls
      BY <2>2, <1>4 DEF IndexInv, TypeOK
    <3>2. /\ \A r \in RowsOf(p), l \in LinksOf(p) :
               l.word_id = r.id => /\ r.word \in WordsOf(snapshot[p.url])
                                   /\ l.count = snapshot[p.url][r.word]
          /\ \/ Visible(p.url) = WordsOf(snapshot[p.url])
             \/ p.url \in interrupted
      BY <3>1 DEF IndexInv, OneSnapshot
    <3> QED
      BY <2>2, <3>1, <3>2, <1>5, <1>10
  <2> QED
    BY <2>1, <2>2
<1>19. IndexInv'
  BY <1>12, <1>13, <1>14, <1>15, <1>16, <1>17, <1>18 DEF IndexInv
<1>20. word \in WordsOf(snapshot[url]) \ Visible(url)
  BY <1>2
<1> QED
  BY <1>10, <1>11, <1>19, <1>20

-----------------------------------------------------------------------------
LEMMA IndexInit ==
  ASSUME Init
  PROVE  IndexInv
<1>1. TypeOK
  BY TypeInit
<1>2. /\ pages = {} /\ words = {} /\ page_words = {} /\ interrupted = {}
      /\ pc = "idle"
  BY DEF Init
<1> QED
  BY <1>1, <1>2 DEF IndexInv, IdsDrawn, KeysHold, VisitKnown, WordKnown,
                    InterruptedHasPage, WordRowsPrivate, OneSnapshot

LEMMA IndexStep ==
  ASSUME IndexInv, [Next]_vars
  PROVE  IndexInv'
<1>1. TypeOK'
  BY TypeStep DEF IndexInv
<1>2. CASE ConnectDB
  BY <1>1, <1>2, ConnectStep
<1>3. ASSUME NEW u \in Urls, NEW v \in Contents[u], InsertPage(u, v)
      PROVE  IndexInv'
  BY <1>1, <1>3, InsertPageStep
<1>4. ASSUME NEW w \in Words, InsertWord(w)
      PROVE  IndexInv'
  BY <1>1, <1>4, InsertWordStep
<1>5. CASE InsertPageWord
  BY <1>1, <1>5, InsertPageWordStep
<1>6. CASE CloseDB
  BY <1>1, <1>6, CloseStep
<1>7. CASE Crash
  BY <1>1, <1>7, CrashStep
<1>8. CASE Restart
  BY <1>1, <1>8, RestartStep
<1>9. CASE UNCHANGED vars
  BY <1>1, <1>9, StutterStep
<1> QED
  BY <1>2, <1>3, <1>4, <1>5, <1>6, <1>7, <1>8, <1>9 DEF Next, Rest

THEOREM Invariance == Spec => []IndexInv
<1>1. Init => IndexInv
  BY IndexInit
<1>2. IndexInv /\ [Next]_vars => IndexInv'
  BY IndexStep
<1> QED
  BY <1>1, <1>2, PTL DEF Spec

\* What the tables hold has the types the code reads it with, in every run
\* and after every restart.
THEOREM TablesTyped == Spec => []TypeOK
<1>1. IndexInv => TypeOK
  BY DEF IndexInv
<1> QED
  BY <1>1, Invariance, PTL

\* The ids of IndexingPages identify rows, and page_words refers to rows.
THEOREM KeysAlwaysHold == Spec => []KeysHold
<1>1. IndexInv => KeysHold
  BY DEF IndexInv
<1> QED
  BY <1>1, Invariance, PTL

\* Pages share no row of words, and have one row for a word: what is counted
\* for a page is counted once.
THEOREM WordRowsAlwaysPrivate == Spec => []WordRowsPrivate
<1>1. IndexInv => WordRowsPrivate
  BY DEF IndexInv
<1> QED
  BY <1>1, Invariance, PTL

\* What can be found of a page comes from one visit, its first.
THEOREM IndexOfOneVisit == Spec => []OneSnapshot
<1>1. IndexInv => OneSnapshot
  BY DEF IndexInv
<1> QED
  BY <1>1, Invariance, PTL

-----------------------------------------------------------------------------
(***************************************************************************)
(* What crashes leave behind.                                              *)
(***************************************************************************)

\* A page whose visit was interrupted is never completed: no later visit of
\* it, in this run of the program or another, adds or removes a word.
THEOREM InterruptedStaysAsItIs == Spec => NeverRepaired
<1>1. ASSUME IndexInv, [Next]_vars
      PROVE  \A x \in interrupted : Visible(x)' = Visible(x)
  <2>1. TypeOK'
    BY <1>1, TypeStep DEF IndexInv
  <2>2. ASSUME NEW u \in Urls, NEW v \in Contents[u], InsertPage(u, v)
        PROVE  \A x \in interrupted : Visible(x)' = Visible(x)
    BY <1>1, <2>1, <2>2, InsertPageStep DEF IndexInv, InterruptedHasPage
  <2>3. ASSUME NEW w \in Words, InsertWord(w)
        PROVE  \A x \in interrupted : Visible(x)' = Visible(x)
    BY <1>1, <2>1, <2>3, InsertWordStep
  <2>4. CASE InsertPageWord
    <3>1. url \notin interrupted /\ interrupted \subseteq Urls
      BY <1>1, <2>4 DEF InsertPageWord, IndexInv, VisitKnown, TypeOK
    <3> QED
      BY <1>1, <2>1, <2>4, <3>1, InsertPageWordStep
  <2>5. CASE UNCHANGED <<pages, words, page_words>>
    BY <2>5, SameRows
  <2>6. ConnectDB \/ CloseDB \/ Crash \/ Restart \/ UNCHANGED vars
          => UNCHANGED <<pages, words, page_words>>
    BY DEF ConnectDB, CloseDB, Crash, Restart, vars, tables
  <2> QED
    BY <1>1, <2>2, <2>3, <2>4, <2>5, <2>6 DEF Next, Rest
<1>2. IndexInv /\ [Next]_vars
        => [\A u \in interrupted : UNCHANGED Visible(u)]_vars
  BY <1>1
<1> QED
  BY <1>2, Invariance, PTL DEF Spec, NeverRepaired

\* The rows of words that no page refers to, but for the one being inserted.
Stale == Orphans \ Pending

LEMMA StaleStep ==
  ASSUME IndexInv, [Next]_vars, ~Crash
  PROVE  Stale' = Stale
<1>1. CASE ConnectDB
  <2>1. UNCHANGED <<pages, words, page_words>> /\ pc # "word" /\ pc' # "word"
    BY <1>1 DEF ConnectDB
  <2> QED
    BY <2>1, SameRows DEF Stale, Pending
<1>2. ASSUME NEW u \in Urls, NEW v \in Contents[u], InsertPage(u, v)
      PROVE  Stale' = Stale
  <2>1. UNCHANGED <<words, page_words>> /\ pc # "word" /\ pc' # "word"
    BY <1>2 DEF InsertPage
  <2> QED
    BY <2>1 DEF Stale, Pending, Orphans
<1>3. ASSUME NEW w \in Words, InsertWord(w)
      PROVE  Stale' = Stale
  <2>1. PICK new : new = [id |-> word_seq', word |-> w]
    OBVIOUS
  <2>2. /\ UNCHANGED page_words
        /\ pc = "page" /\ pc' = "word"
        /\ words' = words \cup {new}
        /\ word_id' = word_seq' /\ new.id = word_seq'
        /\ word_seq' = word_seq + 1 /\ word_seq \in Nat
    BY <1>3, <2>1 DEF InsertWord, IndexInv, TypeOK
  <2>3. \A r \in words : r.id \in Nat /\ r.id <= word_seq
    BY DEF IndexInv, TypeOK, IdsDrawn
  <2>4. \A r \in words : r.id # word_id'
    BY <2>2, <2>3
  <2> QED
    BY <2>2, <2>4 DEF Stale, Pending, Orphans
<1>4. CASE InsertPageWord
  <2>1. PICK link : link = [page_id |-> page_id, word_id |-> word_id,
                            count |-> tmp_vocabulary[word]]
    OBVIOUS
  <2>2. /\ UNCHANGED words /\ pc = "word" /\ pc' = "page"
        /\ page_words' = page_words \cup {link} /\ link.word_id = word_id
    BY <1>4, <2>1 DEF InsertPageWord
  <2> QED
    BY <2>2 DEF Stale, Pending, Orphans
<1>5. CASE CloseDB
  <2>1. UNCHANGED <<pages, words, page_words>> /\ pc # "word" /\ pc' # "word"
    BY <1>5 DEF CloseDB, tables
  <2> QED
    BY <2>1, SameRows DEF Stale, Pending
<1>6. CASE Restart
  <2>1. UNCHANGED <<pages, words, page_words>> /\ pc # "word" /\ pc' # "word"
    BY <1>6 DEF Restart, tables
  <2> QED
    BY <2>1, SameRows DEF Stale, Pending
<1>7. CASE UNCHANGED vars
  <2>1. UNCHANGED <<pages, words, page_words, pc, word_id>>
    BY <1>7 DEF vars, tables, session
  <2> QED
    BY <2>1, SameRows DEF Stale, Pending
<1> QED
  BY <1>1, <1>2, <1>3, <1>4, <1>5, <1>6, <1>7 DEF Next, Rest

\* A crash makes at most the row being inserted stale.
LEMMA StaleCrash ==
  ASSUME IndexInv, Crash
  PROVE  Stale' = Stale \/ \E r : Stale' = Stale \cup {r}
<1>1. UNCHANGED <<pages, words, page_words>> /\ pc' # "word"
  BY DEF Crash, tables
<1>2. Stale' = Orphans
  BY <1>1, SameRows DEF Stale, Pending
<1>3. CASE pc = "word"
  <2>1. PICK row : row = [id |-> word_id, word |-> word]
    OBVIOUS
  <2>2. row \in words /\ row.id = word_id /\ \A l \in page_words : l.word_id # word_id
    BY <1>3, <2>1 DEF IndexInv, WordKnown
  <2>3. \A r \in words : r.id = word_id => r = row
    BY <2>2 DEF IndexInv, KeysHold
  <2>4. Pending = {row} /\ row \in Orphans
    BY <1>3, <2>2, <2>3 DEF Pending, Orphans
  <2> QED
    BY <1>2, <2>4 DEF Stale
<1>4. CASE pc # "word"
  BY <1>2, <1>4 DEF Stale, Pending
<1> QED
  BY <1>3, <1>4

OrphanInv == IsFiniteSet(Stale) /\ Cardinality(Stale) <= crashes

\* A crash costs at most one row of words.
THEOREM OrphansAlwaysBounded == Spec => []OrphansBounded
<1>1. Init => OrphanInv
  <2> SUFFICES ASSUME Init PROVE OrphanInv
    OBVIOUS
  <2>1. Stale = {} /\ crashes = 0
    BY DEF Init, Stale, Orphans
  <2> QED
    BY <2>1, FS_EmptySet DEF OrphanInv
<1>2. ASSUME IndexInv, OrphanInv, [Next]_vars
      PROVE  OrphanInv'
  <2>1. crashes \in Nat /\ Cardinality(Stale) \in Nat
    BY <1>2, FS_CardinalityType DEF IndexInv, TypeOK, OrphanInv
  <2>2. CASE Crash
    <3>1. crashes' = crashes + 1
      BY <2>2 DEF Crash
    <3>2. PICK r : Stale' = Stale \/ Stale' = Stale \cup {r}
      BY <1>2, <2>2, StaleCrash
    <3>3. /\ IsFiniteSet(Stale \cup {r})
          /\ Cardinality(Stale \cup {r}) \in {Cardinality(Stale), Cardinality(Stale) + 1}
      BY <1>2, FS_AddElement DEF OrphanInv
    <3>4. IsFiniteSet(Stale') /\ Cardinality(Stale') \in {Cardinality(Stale), Cardinality(Stale) + 1}
      BY <1>2, <3>2, <3>3 DEF OrphanInv
    <3> QED
      BY <1>2, <2>1, <3>1, <3>4 DEF OrphanInv
  <2>3. CASE ~Crash
    <3>1. Stale' = Stale
      BY <1>2, <2>3, StaleStep
    <3>2. crashes' = crashes
      BY <1>2, <2>3 DEF Next, ConnectDB, InsertPage, InsertWord, InsertPageWord,
                        CloseDB, Restart, Rest, history, vars
    <3> QED
      BY <1>2, <3>1, <3>2 DEF OrphanInv
  <2> QED
    BY <2>2, <2>3
<1>3. OrphanInv => OrphansBounded
  BY DEF OrphanInv, OrphansBounded, Stale
<1> QED
  BY <1>1, <1>2, <1>3, Invariance, PTL DEF Spec

-----------------------------------------------------------------------------
(***************************************************************************)
(* Indexer implements InvertedIndex, for every set of pages, whatever      *)
(* their words and however often the program ends early.                   *)
(***************************************************************************)

\* The refinement mapping, by name.
Doc == [u \in Urls |-> IF HasPage(u)
                       THEN [snapshot |-> snapshot[u], visible |-> Visible(u)]
                       ELSE NoUrl]
Opened == IF pc \in {"page", "word"} THEN {url} ELSE {}

LEMMA MapsInit == Init => Index!IndexInit
<1> SUFFICES ASSUME Init PROVE Index!IndexInit
  OBVIOUS
<1>1. pages = {} /\ pc = "idle"
  BY DEF Init
<1>2. Doc = [u \in Urls |-> NoUrl] /\ Opened = {}
  BY <1>1 DEF Doc, Opened, HasPage
<1> QED
  BY <1>2 DEF Index!IndexInit, Doc, Opened

\* A step that writes no row and opens or closes no page is a stutter.
LEMMA MapsQuiet ==
  ASSUME UNCHANGED <<pages, words, page_words, snapshot>>, Opened' = Opened
  PROVE  UNCHANGED Index!indexVars
<1>1. Doc' = Doc
  BY SameRows DEF Doc
<1> QED
  BY <1>1 DEF Index!indexVars, Doc, Opened

LEMMA MapsInsertPage ==
  ASSUME IndexInv, TypeOK', NEW u \in Urls, NEW v \in Contents[u],
         InsertPage(u, v)
  PROVE  Index!Open(u) \/ UNCHANGED Index!indexVars
<1>1. pc = "connected" /\ UNCHANGED <<words, page_words>>
  BY DEF InsertPage
<1>2. CASE HasPage(u)
  <2>1. UNCHANGED <<pages, snapshot>> /\ pc' = "known"
    BY <1>2 DEF InsertPage
  <2>2. Opened' = Opened
    BY <1>1, <2>1 DEF Opened
  <2> QED
    BY <1>1, <2>1, <2>2, MapsQuiet
<1>3. CASE ~HasPage(u)
  <2>1. PICK new : new = [id |-> page_seq', url |-> u]
    OBVIOUS
  <2>2. /\ pages' = pages \cup {new} /\ new.url = u
        /\ pc' = "page" /\ url' = u
        /\ snapshot' = [snapshot EXCEPT ![u] = v]
    BY <1>3, <2>1 DEF InsertPage
  <2>3. HasPage(u)' /\ \A x : x # u => (HasPage(x)' <=> HasPage(x))
    BY <2>2 DEF HasPage
  <2>4. Visible(u)' = {} /\ \A x : x # u => Visible(x)' = Visible(x)
    BY <1>3, InsertPageStep
  <2>5. snapshot'[u] = v /\ \A x \in Urls : x # u => snapshot'[x] = snapshot[x]
    BY <2>2 DEF IndexInv, TypeOK
  <2>6. Opened = {} /\ Doc[u] = NoUrl /\ Opened' = {u}
    BY <1>1, <1>3, <2>2 DEF Opened, Doc
  <2>7. Doc' = [Doc EXCEPT ![u] = [snapshot |-> v, visible |-> {}]]
    BY <2>3, <2>4, <2>5 DEF Doc
  <2> QED
    BY <2>6, <2>7 DEF Index!Open, Doc, Opened
<1> QED
  BY <1>2, <1>3

LEMMA MapsInsertPageWord ==
  ASSUME IndexInv, TypeOK', InsertPageWord
  PROVE  \E u \in Urls : Index!Show(u)
<1>1. /\ pc = "word" /\ pc' = "page"
      /\ UNCHANGED <<pages, snapshot, url>>
  BY DEF InsertPageWord, history
<1>2. PICK page : page = [id |-> page_id, url |-> url]
  OBVIOUS
<1>3. page \in pages /\ page.url = url
  BY <1>1, <1>2 DEF IndexInv, VisitKnown
<1>4. url \in Urls /\ HasPage(url)
  BY <1>3 DEF HasPage, IndexInv, TypeOK
<1>5. /\ word \in WordsOf(snapshot[url]) \ Visible(url)
      /\ Visible(url)' = Visible(url) \cup {word}
      /\ \A u \in Urls \ {url} : Visible(u)' = Visible(u)
  BY InsertPageWordStep
<1>6. \A u : HasPage(u)' <=> HasPage(u)
  BY <1>1 DEF HasPage
<1>7. /\ Doc[url].snapshot = snapshot[url]
      /\ Doc[url].visible = Visible(url)
  BY <1>4 DEF Doc
<1>8. Doc' = [Doc EXCEPT ![url] = [snapshot |-> Doc[url].snapshot,
                                   visible |-> Doc[url].visible \cup {word}]]
  BY <1>1, <1>4, <1>5, <1>6, <1>7 DEF Doc
<1>9. url \in Opened /\ Opened' = Opened
  BY <1>1 DEF Opened
<1>10. PICK u \in Urls : u = url
  BY <1>4
<1>11. Index!Show(u)
  BY <1>5, <1>7, <1>8, <1>9, <1>10 DEF Index!Show, Doc, Opened
<1> QED
  BY <1>10, <1>11

LEMMA MapsCloseDB ==
  ASSUME IndexInv, CloseDB
  PROVE  (url \in Urls /\ Index!Close(url)) \/ UNCHANGED Index!indexVars
<1>1. /\ UNCHANGED <<pages, words, page_words, snapshot>>
      /\ pc' = "idle" /\ pc \in {"page", "known"} /\ (pc = "page" => left = {})
  BY DEF CloseDB, tables, history
<1>2. Doc' = Doc /\ Opened' = {}
  BY <1>1, SameRows DEF Doc, Opened
<1>3. CASE pc = "page"
  <2>1. PICK page : page = [id |-> page_id, url |-> url]
    OBVIOUS
  <2>2. page \in pages /\ page.url = url
    BY <1>3, <2>1 DEF IndexInv, VisitKnown
  <2>3. url \in Urls /\ HasPage(url)
    BY <2>2 DEF HasPage, IndexInv, TypeOK
  <2>4. Visible(url) = WordsOf(snapshot[url])
    BY <1>1, <1>3 DEF IndexInv, VisitKnown
  <2>5. Doc[url].visible = WordsOf(Doc[url].snapshot)
    BY <2>3, <2>4 DEF Doc
  <2>6. url \in Opened
    BY <1>3 DEF Opened
  <2> QED
    BY <1>2, <2>3, <2>5, <2>6 DEF Index!Close, Doc, Opened
<1>4. CASE pc = "known"
  <2>1. Opened' = Opened
    BY <1>2, <1>4 DEF Opened
  <2> QED
    BY <1>1, <2>1, MapsQuiet
<1> QED
  BY <1>1, <1>3, <1>4

LEMMA MapsCrash ==
  ASSUME Crash
  PROVE  Index!Abandon
<1>1. UNCHANGED <<pages, words, page_words, snapshot>> /\ pc' = "dead"
  BY DEF Crash, tables
<1>2. Doc' = Doc /\ Opened' = {}
  BY <1>1, SameRows DEF Doc, Opened
<1> QED
  BY <1>2 DEF Index!Abandon, Doc, Opened

LEMMA MapsStep ==
  ASSUME IndexInv, [Next]_vars
  PROVE  [Index!IndexNext]_Index!indexVars
<1>1. TypeOK'
  BY TypeStep DEF IndexInv
<1>2. ASSUME NEW u \in Urls, NEW v \in Contents[u], InsertPage(u, v)
      PROVE  [Index!IndexNext]_Index!indexVars
  BY <1>1, <1>2, MapsInsertPage DEF Index!IndexNext
<1>3. ASSUME NEW w \in Words, InsertWord(w)
      PROVE  UNCHANGED Index!indexVars
  <2>1. /\ UNCHANGED <<pages, snapshot, url>>
        /\ pc = "page" /\ pc' = "word"
    BY <1>3 DEF InsertWord, history
  <2>2. \A u : (HasPage(u)' <=> HasPage(u)) /\ Visible(u)' = Visible(u)
    BY <1>1, <1>3, <2>1, InsertWordStep DEF HasPage
  <2>3. Doc' = Doc /\ Opened' = Opened
    BY <2>1, <2>2 DEF Doc, Opened
  <2> QED
    BY <2>3 DEF Index!indexVars, Doc, Opened
<1>4. CASE InsertPageWord
  <2>1. \E u \in Urls : Index!Show(u)
    BY <1>1, <1>4, MapsInsertPageWord
  <2> QED
    BY <2>1 DEF Index!IndexNext
<1>5. CASE CloseDB
  BY <1>5, MapsCloseDB DEF Index!IndexNext
<1>6. CASE Crash
  BY <1>6, MapsCrash DEF Index!IndexNext
<1>7. CASE ConnectDB \/ Restart \/ UNCHANGED vars
  <2>1. UNCHANGED <<pages, words, page_words, snapshot>>
    BY <1>7 DEF ConnectDB, Restart, vars, tables, history
  <2>2. Opened' = Opened
    BY <1>7 DEF Opened, ConnectDB, Restart, vars, session
  <2> QED
    BY <2>1, <2>2, MapsQuiet
<1> QED
  BY <1>2, <1>3, <1>4, <1>5, <1>6, <1>7 DEF Next, Rest

\* The three tables always hold an inverted index of one snapshot of each page,
\* that grows word by word, of one page at a time.
THEOREM ImplementsInvertedIndex == Spec => PageByPage
<1>1. Init => Index!IndexInit
  BY MapsInit
<1>2. IndexInv /\ [Next]_vars => [Index!IndexNext]_Index!indexVars
  BY MapsStep
<1> QED
  BY <1>1, <1>2, Invariance, PTL DEF Spec, PageByPage, Index!IndexSpec
=============================================================================
