--------------------------- MODULE MCSearchEngine ---------------------------
(***************************************************************************)
(* A web of two pages, which link to each other, and two words.            *)
(***************************************************************************)
EXTENDS SearchEngine, TLC

CONSTANTS w1, w2, c1

MCHosts == {"", "a"}
MCTargets == {"", "/", "/p"}
MCExtend == [tp \in MCTargets \X MCTargets |-> IF tp[2] = "" THEN tp[1] ELSE tp[2]]
Front == [host |-> "a", target |-> "/"]
Second == [host |-> "a", target |-> "/p"]

Page(ls) == [kind |-> "page", links |-> ls]
Root(t) == [kind |-> "root", path |-> t]
Fail == [kind |-> "fail"]

MCWeb ==
  [u \in Url |->
     CASE u = Front  -> {Page(<<Root("/p"), [kind |-> "absolute", url |-> Front]>>)}
       [] u = Second -> {Page(<<Root("/")>>)}
       [] OTHER      -> {Fail}]

\* The front page changes between visits.
MCWords == {w1, w2}
Text(a, b) == (w1 :> a) @@ (w2 :> b)
MCContents ==
  [u \in Entry |->
     CASE u = Front  -> {Text(1, 2), Text(3, 0)}
       [] u = Second -> {Text(2, 2)}
       [] OTHER      -> {Text(0, 0)}]

MCQueries == {{w1, w2}}

\* The two pages are all a worker that is alone ever asks for, and nothing there
\* fails.
ASSUME TwoPagesAreClosed == Closed({Front, Second})
=============================================================================
