--------------------------- MODULE InvertedIndex ---------------------------
(***************************************************************************)
(* What the index promises those who search it: of every page at most one  *)
(* snapshot is ever indexed, the one of its first visit; its words appear  *)
(* one by one, of one page at a time, and never change or disappear; a     *)
(* visit that is abandoned leaves the page as it is for ever.              *)
(*                                                                         *)
(* It does not promise that a page appears as a whole: Indexer commits its *)
(* transaction before the first row is written.                            *)
(***************************************************************************)
CONSTANTS
  Urls,
  WordsOf(_), \* the words of a vocabulary
  Contents,  \* Contents[u]: the vocabularies a visit of u may find
  Absent     \* what doc[u] is for a page that was never indexed

VARIABLES
  doc,       \* doc[u]: the snapshot of u, and which of its words are visible
  open       \* the page whose visit goes on, {} or a singleton

indexVars == <<doc, open>>

IndexInit ==
  /\ doc = [u \in Urls |-> Absent]
  /\ open = {}

\* A first visit.
Open(u) ==
  /\ open = {}
  /\ doc[u] = Absent
  /\ \E v \in Contents[u] :
       doc' = [doc EXCEPT ![u] = [snapshot |-> v, visible |-> {}]]
  /\ open' = {u}

Show(u) ==
  /\ u \in open
  /\ \E w \in WordsOf(doc[u].snapshot) \ doc[u].visible :
       doc' = [doc EXCEPT ![u] = [snapshot |-> doc[u].snapshot,
                                  visible |-> doc[u].visible \cup {w}]]
  /\ UNCHANGED open

\* The visit ends with every word visible.
Close(u) ==
  /\ u \in open
  /\ doc[u].visible = WordsOf(doc[u].snapshot)
  /\ open' = {}
  /\ UNCHANGED doc

\* The program ends first.
Abandon ==
  /\ open' = {}
  /\ UNCHANGED doc

IndexNext ==
  \/ \E u \in Urls : Open(u) \/ Show(u) \/ Close(u)
  \/ Abandon

IndexSpec == IndexInit /\ [][IndexNext]_indexVars
=============================================================================
