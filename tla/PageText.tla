------------------------------ MODULE PageText ------------------------------
(***************************************************************************)
(* Indexer::AnalyzeWords with CleanText and LowerCases: from the text of a *)
(* page to the words and counts that IndexingPages inserts.                *)
(*                                                                         *)
(* Text is a sequence of characters.  The code works on bytes, but '<',    *)
(* '>' and ' ' are no part of another character in UTF-8, so bytes matter  *)
(* for the length of a word only.                                          *)
(***************************************************************************)
EXTENDS Integers, Sequences, FiniteSets, Functions

CONSTANTS
  Char,
  Lt, Gt, Space,  \* '<', '>' and ' '; a line break is no Space
  Width,          \* how many bytes a character takes
  ToLower,        \* boost::locale::to_lower, character by character
  Texts           \* what pages contain

ASSUME CharAssumption ==
  /\ {Lt, Gt, Space} \subseteq Char
  /\ Width \in [Char -> 1 .. 4] /\ ToLower \in [Char -> Char]
  /\ Texts \subseteq Seq(Char)

VARIABLES
  pc,          \* "clean", "count" or "done"
  text,        \* the parameter of AnalyzeWords
  at,          \* where regex_replace looks for the next match
  tmp,         \* what CleanText returns, then what is left to split
  frequencies

vars == <<pc, text, at, tmp, frequencies>>

Nothing == [w \in {} |-> 0]

Init ==
  /\ pc = "clean"
  /\ text \in Texts
  /\ at = 1 /\ tmp = <<>> /\ frequencies = Nothing

-----------------------------------------------------------------------------
\* The first place in a .. Len(s) with one of the characters, or behind s.
Next1(s, a, cs) ==
  CHOOSE n \in a .. Len(s) + 1 : /\ \A k \in a .. n - 1 : s[k] \notin cs
                                 /\ n <= Len(s) => s[n] \in cs

\* Mutant: <.*>, up to the last '>' that follows.
TagEndGreedy(a) ==
  IF \E z \in a .. Len(text) : text[z] = Gt
  THEN CHOOSE z \in a .. Len(text) : text[z] = Gt /\ \A y \in z + 1 .. Len(text) : text[y] # Gt
  ELSE Len(text) + 1

TagEnd(a) == Next1(text, a, {Gt})

\* regex_replace: the next match of <[^>]*> becomes a ' '; what does not match
\* is copied.
ReplaceTag ==
  LET a == Next1(text, at, {Lt})
      z == TagEnd(a)
  IN  /\ pc = "clean"
      /\ z <= Len(text)
      /\ tmp' = tmp \o SubSeq(text, at, a - 1) \o <<Space>>
      /\ at' = z + 1
      /\ UNCHANGED <<pc, text, frequencies>>

CopyRest ==
  /\ pc = "clean"
  /\ TagEnd(Next1(text, at, {Lt})) > Len(text)
  /\ tmp' = tmp \o SubSeq(text, at, Len(text))
  /\ at' = Len(text) + 1
  /\ pc' = "count"
  /\ UNCHANGED <<text, frequencies>>

Size(w) == FoldFunction(LAMBDA c, n : n + Width[c], 0, w)
LowerCases(w) == [k \in 1 .. Len(w) |-> ToLower[w[k]]]

Kept(w) == Size(w) \in 3 .. 32

\* frequencies[w]++, which begins with 0.
Counted(f, w) ==
  [v \in DOMAIN f \cup {w} |-> (IF v \in DOMAIN f THEN f[v] ELSE 0) + (IF v = w THEN 1 ELSE 0)]

\* boost::split and one round of the loop over its words, the empty ones included.
CountWord ==
  LET n == Next1(tmp, 1, {Space})
      word == SubSeq(tmp, 1, n - 1)
  IN  /\ pc = "count"
      /\ frequencies' = IF Kept(word) THEN Counted(frequencies, LowerCases(word))
                        ELSE frequencies
      /\ tmp' = SubSeq(tmp, n + 1, Len(tmp))
      /\ pc' = IF n <= Len(tmp) THEN "count" ELSE "done"
      /\ UNCHANGED <<text, at>>

Next ==
  \/ ReplaceTag \/ CopyRest \/ CountWord
  \/ pc = "done" /\ UNCHANGED vars

Spec == Init /\ [][Next]_vars

-----------------------------------------------------------------------------
(***************************************************************************)
(* Properties.                                                             *)
(***************************************************************************)

\* Markup: between a '<' and the next '>', whatever is between them, both
\* included.  A '<' that no '>' follows is text.
InTag(k) ==
  /\ \E z \in k .. Len(text) : text[z] = Gt
  /\ \E a \in 1 .. k : text[a] = Lt /\ \A b \in a .. k - 1 : text[b] # Gt

Apart(k) == k \notin 1 .. Len(text) \/ InTag(k) \/ text[k] = Space

\* The words of the page, from their first to their last character.
Words ==
  {ab \in (1 .. Len(text)) \X (1 .. Len(text)) :
     /\ ab[1] <= ab[2]
     /\ \A k \in ab[1] .. ab[2] : ~Apart(k)
     /\ Apart(ab[1] - 1) /\ Apart(ab[2] + 1)}

\* What the Indexer is given: every run of text without markup or spaces of 3
\* to 32 bytes, in lower case, with the number of its occurrences.  Markup
\* separates words, a line break does not.
WordsCounted ==
  pc = "done" =>
    LET Word(ab) == SubSeq(text, ab[1], ab[2])
        kept == {ab \in Words : Size(Word(ab)) \in 3 .. 32}
    IN  frequencies =
          [w \in {LowerCases(Word(ab)) : ab \in kept} |->
             Cardinality({ab \in kept : LowerCases(Word(ab)) = w})]
=============================================================================
