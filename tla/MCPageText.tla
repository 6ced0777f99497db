----------------------------- MODULE MCPageText -----------------------------
(***************************************************************************)
(* All texts of up to five of the characters the code tells apart, longer  *)
(* ones with markup, and words around both bounds on their length.         *)
(***************************************************************************)
EXTENDS PageText

CONSTANTS small, big, cyrillic

MCChar == {Lt, Gt, Space, small, big, cyrillic}
MCWidth == [c \in MCChar |-> IF c = cyrillic THEN 2 ELSE 1]
MCToLower == [c \in MCChar |-> IF c = big THEN small ELSE c]

Run(c, n) == [k \in 1 .. n |-> c]
Around == {Run(cyrillic, n) \o Run(big, m) : n \in {0, 1, 15, 16}, m \in 0 .. 3}

MCTexts ==
  UNION {[1 .. n -> MCChar \ {cyrillic}] : n \in 0 .. 5}
    \cup {p \o s : p \in {<<Lt>>, <<Lt, Gt>>, <<small, Lt>>, Run(small, 3)},
                   s \in [1 .. 4 -> {Lt, Gt, Space, big}]}
    \cup {u \o <<b>> \o v : u \in Around, b \in {Space, Gt, Lt}, v \in Around}
    \cup {<<big, small, small, b, Lt, Space, Gt, small, big, big, Space>> : b \in {small, Space, Lt}}
=============================================================================
