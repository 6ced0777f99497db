----------------------------- MODULE MCIndexer -----------------------------
(***************************************************************************)
(* Two pages, one of which changes between visits.                         *)
(***************************************************************************)
EXTENDS Indexer

CONSTANTS u1, u2, w1, w2, w3

MCUrls == {u1, u2}
MCWords == {w1, w2, w3}

Text(D, n) == [w \in MCWords |-> IF w \in D THEN n ELSE 0]
MCContents == [u \in MCUrls |->
                 IF u = u1 THEN {Text({w1, w2}, 1), Text({w2, w3}, 2)}
                 ELSE {Text({w1}, 3), NoVocabulary}]
=============================================================================
