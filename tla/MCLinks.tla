------------------------------ MODULE MCLinks ------------------------------
(***************************************************************************)
(* Pages of up to two links, whole and broken, on paths of three pages.    *)
(***************************************************************************)
EXTENDS Links

CONSTANTS a, b, one, dot, low   \* letters, '1', '.' and '_'

Prefix == <<Http, Colon, Slash, Slash>>

MCStarts ==
  {<<a, Slash>>, <<a>>, <<Slash>>, <<Slash, Slash>>, <<Slash, Slash, a, Slash>>,
   <<Slash, Slash, a, Colon, b>>, <<a, Question, Slash>>, <<a, Hash, Slash>>, <<a, Slash, Raw>>,
   <<a, Slash, Hash, b>>, <<a, Slash, Hash, Hash>>, <<low, Slash>>, <<low, Colon, Slash>>,
   <<a, dot, one, Colon, one, Slash>>, <<dot, Colon, a, Slash>>}
    \cup {Prefix \o t : t \in {<<>>, <<a>>, <<a, Slash, Esc>>, <<a, Question, b>>, <<a, Hash, b>>,
                               <<a, Colon, one>>, <<a, Colon, b, Slash>>, <<Colon, one, Slash>>}}

MCLinks ==
  UNION {[1 .. n -> {b, Slash, Hash, Question, Esc}] : n \in 0 .. 2}
    \cup {<<Slash, Slash, b, Slash>>, <<Slash, Raw>>, <<b, Colon, Hash>>, <<Colon, Hash>>,
          <<b, Slash, b, Hash>>, <<Hash, b, Hash>>, <<Slash, b, Question, Slash, Hash>>,
          <<b, Colon, b, Colon, b, Slash, Hash>>, <<b, Colon, Colon, b, Slash, Hash>>}
    \cup {Prefix \o t : t \in {<<>>, <<b>>, <<b, Slash, Esc>>, <<Slash, b>>, <<b, Hash>>,
                               <<b, Question, Slash>>, <<Esc, Slash>>, <<b, Colon, one, Slash>>,
                               <<b, Colon, b, Slash>>, <<Colon, one, Slash>>, <<b, Colon>>}}

Tag(link) == <<Open>> \o link \o <<Quote>>

MCPages ==
  {Tag(l) : l \in MCLinks}
    \cup {s \o Tag(<<Slash, b>>) \o m \o Tag(<<b, Hash>>) \o t :
            s \in {<<>>, <<Quote>>, <<Open>>, <<Open, b>>},
            m \in {<<>>, <<Open, Open>>, <<b>>, <<Quote, Open>>}, t \in {<<>>, <<Open, b>>}}
=============================================================================
