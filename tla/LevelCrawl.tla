---------------------------- MODULE LevelCrawl ----------------------------
(***************************************************************************)
(* What a crawl of bounded depth promises, whatever carries it out: pages  *)
(* are visited level by level, in the order in which they were found; an   *)
(* entry found on one level is not taken before every visit of that level  *)
(* has ended; no level beyond the last is visited.                         *)
(*                                                                         *)
(* SpiderClient::RunSpider has no second queue and no record of levels: it *)
(* relies on one FIFO queue and on the length it had when the level began. *)
(* Module Crawl is shown to implement this specification.                  *)
(***************************************************************************)
EXTENDS Integers, Sequences

CONSTANTS
  Visitors,  \* who visits pages
  Entry,     \* what a page can add to the next level
  Spurious,  \* entries that no page added, {} for a correct queue
  Start,     \* the only entry of level 0
  Levels     \* how many levels are visited

VARIABLES
  level,     \* the level being visited
  current,   \* its entries not yet taken
  next,      \* the entries of the next level, in the order found
  visiting   \* the visitors that have taken an entry and not yet left it

levelVars == <<level, current, next, visiting>>

LevelInit ==
  /\ level = 0
  /\ current = <<Start>>
  /\ next = <<>>
  /\ visiting = {}

Take(v) ==
  /\ level < Levels
  /\ current # <<>>
  /\ v \notin visiting
  /\ current' = Tail(current)
  /\ visiting' = visiting \cup {v}
  /\ \/ next' = next
     \/ \E s \in Spurious : next' = Append(next, s)
  /\ UNCHANGED level

Find(v) ==
  /\ v \in visiting
  /\ \E e \in Entry : next' = Append(next, e)
  /\ UNCHANGED <<level, current, visiting>>

Leave(v) ==
  /\ v \in visiting
  /\ visiting' = visiting \ {v}
  /\ UNCHANGED <<level, current, next>>

Advance ==
  /\ level < Levels
  /\ current = <<>>
  /\ visiting = {}
  /\ level' = level + 1
  /\ current' = next
  /\ next' = <<>>
  /\ UNCHANGED visiting

LevelNext ==
  \/ \E v \in Visitors : Take(v) \/ Find(v) \/ Leave(v)
  \/ Advance

LevelSpec == LevelInit /\ [][LevelNext]_levelVars
=============================================================================
