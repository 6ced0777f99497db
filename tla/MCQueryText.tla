---------------------------- MODULE MCQueryText ----------------------------
(***************************************************************************)
(* All short texts of the bytes the code tells apart, and a few long ones. *)
(***************************************************************************)
EXTENDS QueryText

four == 52
B == 66
z == 122

ShortTexts == UNION {[1 .. n -> {Percent, Plus, four, B, z}] : n \in 0 .. 5}

\* Two escapes in a row, each before, between and behind other bytes, and more
\* words than are searched for.
Escape == <<Percent, four, B>>
LongTexts ==
  {a \o Escape \o b \o Escape \o c : a, b, c \in {<<>>, <<z>>, <<four>>}}
    \cup {Escape \o <<Plus, z>> \o Escape \o <<Plus, Plus, B, Plus, z, Plus, z>>}

MCBodies == {p \o t : p \in {<<>>, <<z, Equals>>}, t \in ShortTexts \cup LongTexts}
=============================================================================
