----------------------------- MODULE QueryText -----------------------------
(***************************************************************************)
(* http_connection::parse_words and url_decoding: from the body of a POST, *)
(* "query=" and the words a browser encoded, to the four parameters of     *)
(* select_word.                                                            *)
(*                                                                         *)
(* Text is a sequence of bytes.  Positions count from 1, where those of    *)
(* std::string count from 0; j is the code's.  Left out are the prefixes   *)
(* that %x skips before the digits (white space, a sign, 0x): a browser    *)
(* encodes the first, and the others follow a '%' only in text that no     *)
(* browser encodes.                                                        *)
(***************************************************************************)
EXTENDS Integers, Sequences, FiniteSets

CONSTANT Bodies  \* what clients post

Byte == 0 .. 255
Percent == 37
Plus == 43
Equals == 61

ASSUME BodiesAssumption == Bodies \subseteq Seq(Byte)

VARIABLES
  pc,          \* "parse", "field", "decode", or "done"
  word,        \* what follows the '=', then what follows each '+'
  count_plus,
  i,           \* the entry of words_list the loop is at
  words_list,
  decode,      \* the parameter of url_decoding
  j, hex,      \* its variables
  tmp_word,
  text         \* history: all that follows the '='

loopVars == <<word, count_plus, i, words_list>>
decodeVars == <<decode, j, hex, tmp_word>>
vars == <<pc, loopVars, decodeVars, text>>

Entries == 0 .. 3

Init ==
  /\ pc = "parse"
  /\ word \in Bodies
  /\ count_plus = 0 /\ i = 0
  /\ words_list = [k \in Entries |-> <<>>]
  /\ decode = <<>> /\ j = 0 /\ hex = 0 /\ tmp_word = <<>>
  /\ text = <<>>

-----------------------------------------------------------------------------
Positions(s, b) == {k \in 1 .. Len(s) : s[k] = b}

\* s.substr(s.find(b) + 1): npos + 1 is 0, so it is all of s without b.
After(s, b) ==
  IF Positions(s, b) = {} THEN s
  ELSE LET k == CHOOSE k \in Positions(s, b) : \A l \in Positions(s, b) : k <= l
       IN  SubSeq(s, k + 1, Len(s))

\* s.substr(0, s.find(b))
Before(s, b) == SubSeq(s, 1, CHOOSE n \in 0 .. Len(s) :
                               /\ \A k \in 1 .. n : s[k] # b
                               /\ n < Len(s) => s[n + 1] = b)

\* Mutant: every '+' begins a field.
CountPlusUnbounded(s) == Cardinality(Positions(s, Plus))

CountPlus(s) ==
  IF Cardinality(Positions(s, Plus)) < 3 THEN Cardinality(Positions(s, Plus)) ELSE 3

\* The head of parse_words; an empty text is not searched for.
ParseWords ==
  /\ pc = "parse"
  /\ word' = After(word, Equals)
  /\ text' = word'
  /\ count_plus' = CountPlus(word')
  /\ pc' = IF word' = <<>> THEN "done" ELSE "field"
  /\ UNCHANGED <<i, words_list, decodeVars>>

\* Mutant: a word is cut off with its '+'.
NextWordWithPlus ==
  IF i = 0 THEN word ELSE SubSeq(word, Len(Before(word, Plus)) + 1, Len(word))

NextWord == IF i = 0 THEN word ELSE After(word, Plus)

\* The loop over i, up to its call of url_decoding.
TakeField ==
  /\ pc = "field"
  /\ i <= count_plus
  /\ word' = NextWord
  /\ decode' = Before(word', Plus)
  /\ j' = 0 /\ hex' = 0 /\ tmp_word' = <<>>
  /\ pc' = "decode"
  /\ UNCHANGED <<count_plus, i, words_list, text>>

Least(a, b) == IF a < b THEN a ELSE b

HexDigits == 48 .. 57 \cup 65 .. 70 \cup 97 .. 102
Value(d) == IF d <= 57 THEN d - 48 ELSE IF d <= 70 THEN d - 55 ELSE d - 87

\* The digits %x reads: those at the head of substr(j + 1, j + 2), which are
\* up to j + 2 characters, where two are meant.
DigitsRead ==
  LET from == j + 2
      room == Least(Len(decode), from + j + 1)
      n == CHOOSE n \in 0 .. room - from + 1 :
             /\ \A k \in from .. from + n - 1 : decode[k] \in HexDigits
             /\ from + n <= room => decode[from + n] \notin HexDigits
  IN  SubSeq(decode, from, from + n - 1)

\* What the cast to char leaves of the number they make: the last two of them.
\* No digit leaves hex as it was; more than eight overflow it.
Symbols(ds) ==
  CASE Len(ds) = 0 -> {hex}
    [] Len(ds) = 1 -> {Value(ds[1])}
    [] Len(ds) \in 2 .. 8 -> {16 * Value(ds[Len(ds) - 1]) + Value(ds[Len(ds)])}
    [] OTHER -> Byte

\* Mutant: every digit that was read is skipped.
AfterEscapeAll == j + 1 + Len(DigitsRead)

AfterEscape == j + 3

DecodeEscape ==
  /\ pc = "decode"
  /\ j < Len(decode) /\ decode[j + 1] = Percent
  /\ hex' \in Symbols(DigitsRead)
  /\ tmp_word' = Append(tmp_word, hex')
  /\ j' = AfterEscape
  /\ UNCHANGED <<pc, loopVars, decode, text>>

DecodePlain ==
  /\ pc = "decode"
  /\ j < Len(decode) /\ decode[j + 1] # Percent
  /\ tmp_word' = Append(tmp_word, decode[j + 1])
  /\ j' = j + 1
  /\ UNCHANGED <<pc, loopVars, decode, hex, text>>

\* words_list[i] = url_decoding(...), and i++.
KeepField ==
  /\ pc = "decode"
  /\ j >= Len(decode)
  /\ words_list' = [words_list EXCEPT ![i] = tmp_word]
  /\ i' = i + 1
  /\ pc' = IF i < count_plus THEN "field" ELSE "done"
  /\ UNCHANGED <<word, count_plus, decodeVars, text>>

Next ==
  \/ ParseWords \/ TakeField
  \/ DecodeEscape \/ DecodePlain \/ KeepField
  \/ pc = "done" /\ UNCHANGED vars

Spec == Init /\ [][Next]_vars

-----------------------------------------------------------------------------
(***************************************************************************)
(* Properties.                                                             *)
(***************************************************************************)

\* Every variable keeps its type; in particular the loop stays within the four
\* entries of words_list, however many words are asked for.
TypeOK ==
  /\ pc \in {"parse", "field", "decode", "done"}
  /\ word \in Seq(Byte)
  /\ count_plus \in Entries
  /\ i \in 0 .. 4
  /\ pc = "parse" => i = 0
  /\ pc \in {"field", "decode"} => i <= count_plus
  /\ words_list \in [Entries -> Seq(Byte)]
  /\ decode \in Seq(Byte) /\ tmp_word \in Seq(Byte)
  /\ j \in Nat /\ hex \in Byte
  /\ text \in Seq(Byte)

\* The entry i of words_list is made of the word that i '+' precede, from its
\* first byte to the last before the next '+'; the words that are searched for
\* are all there are, or the first four.
FieldsInOrder ==
  /\ pc = "decode" =>
       \E p \in 1 .. Len(text) + 1 :
         /\ p = 1 \/ text[p - 1] = Plus
         /\ Cardinality({q \in Positions(text, Plus) : q < p}) = i
         /\ decode = Before(SubSeq(text, p, Len(text)), Plus)
  /\ pc = "done" /\ text # <<>> =>
       i = Least(4, Cardinality(Positions(text, Plus)) + 1)

\* Percent-encoding, as a browser means it.
Encoded(s) ==
  \A k \in Positions(s, Percent) :
    k + 2 <= Len(s) /\ s[k + 1] \in HexDigits /\ s[k + 2] \in HexDigits

\* What the text from each position on means.
From(s) ==
  LET from[k \in 1 .. Len(s) + 1] ==
        IF k = Len(s) + 1 THEN <<>>
        ELSE IF s[k] = Percent
          THEN <<16 * Value(s[k + 1]) + Value(s[k + 2])>> \o from[k + 3]
          ELSE <<s[k]>> \o from[k + 1]
  IN  from

Meaning(s) == From(s)[1]

\* Where the byte that decode[l] begins has its place, and the places of escapes
\* that one more digit follows.
Place(l) == l - 2 * Cardinality({m \in Positions(decode, Percent) : m < l})
DigitFollows(k) ==
  \E l \in Positions(decode, Percent) \ {1} :
    l + 3 <= Len(decode) /\ k = Place(l) /\ decode[l + 3] \in HexDigits

\* Percent-encoded text is decoded to a text of the right length, and to the
\* right one but for the escapes, other than one at its start, that one of
\* 0-9, a-f or A-F follows: each of those may give a byte of its own.
DecodedUnlessDigitsFollow ==
  pc = "decode" /\ j >= Len(decode) /\ Encoded(decode) =>
    /\ Len(tmp_word) = Len(Meaning(decode))
    /\ \A k \in 1 .. Len(tmp_word) :
         tmp_word[k] = Meaning(decode)[k] \/ DigitFollows(k)

-----------------------------------------------------------------------------
(***************************************************************************)
(* What the properties rest on: the conjuncts that make them inductive.    *)
(***************************************************************************)

\* The i-th word of the text begins at p.
WordFrom(p, n) ==
  /\ p = 1 \/ text[p - 1] = Plus
  /\ Cardinality({q \in Positions(text, Plus) : q < p}) = n
  /\ word = SubSeq(text, p, Len(text))

\* Between two fields, word still begins with the field that was taken.
QueryInv ==
  /\ TypeOK
  /\ pc # "parse" => count_plus = CountPlus(text)
  /\ pc \in {"field", "decode"} => text # <<>>
  /\ pc = "field" /\ i = 0 => word = text
  /\ pc = "field" /\ i > 0 => \E p \in 1 .. Len(text) + 1 : WordFrom(p, i - 1)
  /\ pc = "decode" => \E p \in 1 .. Len(text) + 1 : WordFrom(p, i)
  /\ pc = "decode" => decode = Before(word, Plus)
  /\ pc = "done" /\ text # <<>> => i = count_plus + 1

\* Between two turns of url_decoding's loop j is at the start of an escape or of
\* a plain byte, and what is left means what tmp_word still lacks.
DecodedSoFar ==
  pc = "decode" /\ Encoded(decode) =>
    LET n == Len(tmp_word)
        exact == Meaning(decode)
        rest == From(decode)[j + 1]
    IN  /\ j <= Len(decode)
        /\ n + 1 = Place(j + 1)
        /\ Len(exact) = n + Len(rest)
        /\ \A k \in 1 .. Len(rest) : exact[n + k] = rest[k]
        /\ \A k \in 1 .. n : tmp_word[k] = exact[k] \/ DigitFollows(k)
=============================================================================
