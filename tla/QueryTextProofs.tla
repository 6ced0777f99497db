-------------------------- MODULE QueryTextProofs --------------------------
(***************************************************************************)
(* Proofs about QueryText, for every text a client can post.  What a scan  *)
(* finds first exists because the natural numbers are well ordered         *)
(* (HasLeast), so no lemma needs an induction of its own.                  *)
(***************************************************************************)
EXTENDS QueryText, FiniteSetTheorems, SequenceTheorems, WellFoundedInduction,
        TLAPS

LEMMA HasLeast ==
  ASSUME NEW S \in SUBSET Nat, S # {}
  PROVE  \E n \in S : \A m \in S : n <= m
<1> DEFINE R == {p \in Nat \X Nat : p[1] < p[2]}
<1>1. IsWellFoundedOn(R, Nat)
  BY NatLessThanWellFounded DEF OpToRel
<1>2. PICK n \in S : \A m \in S : ~ (<<m, n>> \in R)
  <2> HIDE DEF R
  <2> QED
    BY <1>1, WFMin
<1>3. ASSUME NEW m \in S PROVE n <= m
  <2>1. m \in Nat /\ n \in Nat
    OBVIOUS
  <2>2. <<m, n>> \in R <=> m < n
    BY <2>1
  <2> QED
    BY <1>2, <2>1, <2>2
<1> QED
  BY <1>3

\* A scan of N places stops at the first one in P, or behind the last.
LEMMA Scan ==
  ASSUME NEW N \in Nat, NEW P \in SUBSET (1 .. N)
  PROVE  \E n \in 0 .. N : /\ \A k \in 1 .. n : k \notin P
                           /\ n < N => n + 1 \in P
<1>1. CASE P = {}
  BY <1>1
<1>2. CASE P # {}
  <2>1. PICK p \in P : \A q \in P : p <= q
    BY <1>2, HasLeast
  <2>2. p - 1 \in 0 .. N /\ \A k \in 1 .. p - 1 : k \notin P
    BY <2>1
  <2> QED
    BY <2>2
<1> QED
  BY <1>1, <1>2

LEMMA BeforeIs ==
  ASSUME NEW s \in Seq(Byte), NEW b
  PROVE  \E n \in 0 .. Len(s) :
           /\ Before(s, b) = SubSeq(s, 1, n)
           /\ \A k \in 1 .. n : s[k] # b
           /\ n < Len(s) => s[n + 1] = b
<1> DEFINE Stop(n) == /\ \A k \in 1 .. n : s[k] # b
                      /\ n < Len(s) => s[n + 1] = b
           P == {k \in 1 .. Len(s) : s[k] = b}
<1>1. PICK n \in 0 .. Len(s) : /\ \A k \in 1 .. n : k \notin P
                               /\ n < Len(s) => n + 1 \in P
  <2>1. Len(s) \in Nat /\ P \in SUBSET (1 .. Len(s))
    OBVIOUS
  <2> HIDE DEF P
  <2> QED
    BY <2>1, Scan
<1>2. Stop(n)
  BY <1>1
<1> QED
  BY <1>2 DEF Before

LEMMA AfterIs ==
  ASSUME NEW s \in Seq(Byte), NEW b
  PROVE  /\ After(s, b) \in Seq(Byte)
         /\ Positions(s, b) # {} =>
              \E k \in Positions(s, b) :
                /\ \A l \in Positions(s, b) : k <= l
                /\ After(s, b) = SubSeq(s, k + 1, Len(s))
<1>1. CASE Positions(s, b) = {}
  BY <1>1 DEF After
<1>2. CASE Positions(s, b) # {}
  <2> DEFINE k == CHOOSE k \in Positions(s, b) : \A l \in Positions(s, b) : k <= l
  <2>1. Positions(s, b) \in SUBSET Nat
    BY DEF Positions
  <2>2. k \in Positions(s, b) /\ \A l \in Positions(s, b) : k <= l
    BY <1>2, <2>1, HasLeast
  <2>3. After(s, b) = SubSeq(s, k + 1, Len(s))
    BY <1>2 DEF After
  <2>4. k \in 1 .. Len(s)
    BY <2>2 DEF Positions
  <2> HIDE DEF k
  <2> QED
    BY <2>2, <2>3, <2>4
<1> QED
  BY <1>1, <1>2

LEMMA DigitsReadIs ==
  ASSUME decode \in Seq(Byte), j \in Nat, j < Len(decode)
  PROVE  DigitsRead \in Seq(HexDigits)
<1> DEFINE from == j + 2
           room == Least(Len(decode), from + j + 1)
           N == room - from + 1
           Stop(n) == /\ \A k \in from .. from + n - 1 : decode[k] \in HexDigits
                      /\ from + n <= room => decode[from + n] \notin HexDigits
           P == {k \in 1 .. N : decode[from + k - 1] \notin HexDigits}
           n == CHOOSE n \in 0 .. N : Stop(n)
<1>1. N \in Nat /\ from \in Nat /\ room \in Nat /\ room <= Len(decode)
  BY DEF Least
<1>2. PICK m \in 0 .. N : (\A k \in 1 .. m : k \notin P) /\ (m < N => m + 1 \in P)
  <2>1. P \in SUBSET (1 .. N)
    OBVIOUS
  <2> HIDE DEF P, N
  <2> QED
    BY <1>1, <2>1, Scan
<1>3. Stop(m)
  <2> HIDE DEF room
  <2>1. ASSUME NEW k \in from .. from + m - 1 PROVE decode[k] \in HexDigits
    <3>1. k - from + 1 \in 1 .. m /\ from + (k - from + 1) - 1 = k
      BY <1>1, <1>2
    <3>2. k - from + 1 \in 1 .. N
      BY <1>1, <1>2, <3>1
    <3> QED
      BY <1>2, <3>1, <3>2
  <2>2. from + m <= room => decode[from + m] \notin HexDigits
    <3>1. HAVE from + m <= room
    <3>2. m + 1 \in P /\ from + (m + 1) - 1 = from + m
      BY <1>1, <1>2, <3>1
    <3> QED
      BY <3>2
  <2> QED
    BY <2>1, <2>2
<1>4. n \in 0 .. N /\ Stop(n)
  <2> HIDE DEF Stop, N
  <2> QED
    BY <1>2, <1>3
<1>5. DigitsRead = SubSeq(decode, from, from + n - 1)
  BY DEF DigitsRead
<1> HIDE DEF n, room, from
<1>6. from + n - 1 <= Len(decode) /\ from \in 1 .. Len(decode) + 1
  BY <1>1, <1>4 DEF from
<1>7. \A k \in from .. from + n - 1 : decode[k] \in HexDigits
  BY <1>4
<1> QED
  BY <1>1, <1>4, <1>5, <1>6, <1>7

LEMMA SymbolsTyped ==
  ASSUME hex \in Byte, NEW ds \in Seq(HexDigits)
  PROVE  Symbols(ds) \subseteq Byte
<1>1. \A d \in HexDigits : Value(d) \in 0 .. 15
  BY DEF HexDigits, Value
<1>2. \A k \in 1 .. Len(ds) : Value(ds[k]) \in 0 .. 15
  <2>1. \A k \in 1 .. Len(ds) : ds[k] \in HexDigits
    OBVIOUS
  <2> QED
    BY <1>1, <2>1, Zenon
<1> DEFINE last == ds[Len(ds)]
           last2 == ds[Len(ds) - 1]
<1>3. CASE Len(ds) = 0
  BY <1>3 DEF Symbols
<1>4. CASE Len(ds) = 1
  <2>1. Value(ds[1]) \in 0 .. 15
    BY <1>2, <1>4
  <2>2. Symbols(ds) = {Value(ds[1])}
    BY <1>4 DEF Symbols
  <2> QED
    BY <2>1, <2>2 DEF Byte
<1>5. CASE Len(ds) \in 2 .. 8
  <2>1. Len(ds) \in 1 .. Len(ds) /\ Len(ds) - 1 \in 1 .. Len(ds)
    BY SMTT(30), <1>5
  <2>4. Value(last2) \in 0 .. 15 /\ Value(last) \in 0 .. 15
    BY <1>2, <2>1, Zenon
  <2>2. Len(ds) # 0 /\ Len(ds) # 1
    BY SMTT(30), <1>5
  <2>3. Symbols(ds) = {16 * Value(last2) + Value(last)}
    BY <1>5, <2>2 DEF Symbols
  <2> DEFINE a == Value(last2)
             b == Value(last)
  <2>5. a \in 0 .. 15 /\ b \in 0 .. 15 /\ Symbols(ds) = {16 * a + b}
    BY <2>3, <2>4
  <2> HIDE DEF a, b
  <2> QED
    BY <2>5 DEF Byte
<1>6. CASE Len(ds) \notin 0 .. 8
  BY <1>6 DEF Symbols
<1>7. Len(ds) \in Nat
  OBVIOUS
<1> QED
  BY <1>3, <1>4, <1>5, <1>6, <1>7

-----------------------------------------------------------------------------
Pluses(s) == Cardinality(Positions(s, Plus))

LEMMA PlusesFinite ==
  ASSUME NEW s \in Seq(Byte), NEW b
  PROVE  IsFiniteSet(Positions(s, b)) /\ Cardinality(Positions(s, b)) \in Nat
<1>1. IsFiniteSet(1 .. Len(s))
  BY FS_Interval
<1>2. Positions(s, b) \in SUBSET (1 .. Len(s))
  BY DEF Positions
<1> QED
  BY <1>1, <1>2, FS_Subset, FS_CardinalityType

LEMMA CountPlusTyped ==
  ASSUME NEW s \in Seq(Byte)
  PROVE  CountPlus(s) \in Entries /\ CountPlus(s) = Least(3, Pluses(s))
BY PlusesFinite DEF CountPlus, Entries, Pluses, Least

LEMMA QueryInit == Init => QueryInv
<1> SUFFICES ASSUME Init PROVE QueryInv
  OBVIOUS
<1>1. word \in Seq(Byte)
  BY BodiesAssumption DEF Init
<1>2. <<>> \in Seq(Byte)
  OBVIOUS
<1> QED
  BY <1>1, <1>2 DEF Init, QueryInv, TypeOK, Entries, Byte

LEMMA TypeStep ==
  ASSUME TypeOK, [Next]_vars
  PROVE  TypeOK'
<1> USE DEF TypeOK
<1>1. CASE ParseWords
  <2>1. word' \in Seq(Byte)
    BY <1>1, AfterIs DEF ParseWords
  <2>2. count_plus' \in Entries
    BY <1>1, <2>1, CountPlusTyped DEF ParseWords
  <2> QED
    BY <1>1, <2>1, <2>2 DEF ParseWords, decodeVars, Entries
<1>2. CASE TakeField
  <2>1. word' \in Seq(Byte)
    BY <1>2, AfterIs DEF TakeField, NextWord
  <2>2. decode' \in Seq(Byte)
    <3>1. decode' = Before(word', Plus)
      BY <1>2 DEF TakeField
    <3>2. PICK n \in 0 .. Len(word') : Before(word', Plus) = SubSeq(word', 1, n)
      BY <2>1, BeforeIs
    <3> QED
      BY <2>1, <3>1, <3>2
  <2> QED
    BY <1>2, <2>1, <2>2 DEF TakeField, Byte
<1>3. CASE DecodeEscape
  <2>1. hex' \in Byte
    BY <1>3, DigitsReadIs, SymbolsTyped DEF DecodeEscape
  <2> QED
    BY <1>3, <2>1 DEF DecodeEscape, loopVars, AfterEscape
<1>4. CASE DecodePlain
  <2>1. decode[j + 1] \in Byte
    BY <1>4 DEF DecodePlain
  <2> QED
    BY <1>4, <2>1 DEF DecodePlain, loopVars
<1>5. CASE KeepField
  BY <1>5 DEF KeepField, decodeVars, Entries
<1>6. CASE UNCHANGED vars
  BY <1>6 DEF vars, loopVars, decodeVars
<1> QED
  BY <1>1, <1>2, <1>3, <1>4, <1>5, <1>6 DEF Next

LEMMA WordFromStart ==
  text \in Seq(Byte) /\ word = text => WordFrom(1, 0)
<1> SUFFICES ASSUME text \in Seq(Byte), word = text PROVE WordFrom(1, 0)
  OBVIOUS
<1>1. {q \in Positions(text, Plus) : q < 1} = {}
  BY DEF Positions
<1>2. SubSeq(text, 1, Len(text)) = text
  OBVIOUS
<1> QED
  BY <1>1, <1>2, FS_EmptySet DEF WordFrom

\* The step from one word to the next: a '+' is left, for no more fields are
\* asked for than there are '+'.
LEMMA NextWordFrom ==
  ASSUME text \in Seq(Byte), NEW n \in Nat, n + 1 <= Pluses(text),
         NEW p \in 1 .. Len(text) + 1, WordFrom(p, n),
         word' = After(word, Plus), text' = text
  PROVE  \E q \in 1 .. Len(text') + 1 : WordFrom(q, n + 1)'
<1> DEFINE All == Positions(text, Plus)
           Up(q) == {r \in All : r < q}
<1>1. word \in Seq(Byte) /\ Len(word) = Len(text) - p + 1
      /\ \A k \in 1 .. Len(word) : word[k] = text[p + k - 1]
  BY DEF WordFrom
<1>2. Positions(word, Plus) # {}
  <2>1. SUFFICES ASSUME Positions(word, Plus) = {} PROVE FALSE
    OBVIOUS
  <2>2. ASSUME NEW r \in All PROVE r < p
    <3>1. SUFFICES ASSUME r >= p PROVE FALSE
      BY DEF Positions
    <3>2. r \in 1 .. Len(text) /\ text[r] = Plus
      BY DEF Positions
    <3>3. r - p + 1 \in 1 .. Len(word) /\ p + (r - p + 1) - 1 = r
      BY <1>1, <3>1, <3>2
    <3>4. r - p + 1 \in Positions(word, Plus)
      BY <1>1, <3>2, <3>3 DEF Positions
    <3> QED
      BY <2>1, <3>4
  <2>3. Up(p) = All
    BY <2>2
  <2>4. Pluses(text) = n
    BY <2>3 DEF Pluses, WordFrom
  <2> QED
    BY <2>4
<1>3. PICK k \in Positions(word, Plus) :
        /\ \A l \in Positions(word, Plus) : k <= l
        /\ After(word, Plus) = SubSeq(word, k + 1, Len(word))
  BY <1>1, <1>2, AfterIs
<1>4. k \in 1 .. Len(word) /\ word[k] = Plus
  BY <1>3 DEF Positions
<1> DEFINE q == p + k
<1>5. q \in 1 .. Len(text) + 1 /\ q - 1 \in 1 .. Len(text) /\ text[q - 1] = Plus
  BY <1>1, <1>4
<1>6. Cardinality(Up(q)) = n + 1
  <2>1. ASSUME NEW r \in All, r < q PROVE r \in Up(p) \cup {q - 1}
    <3>1. r \in 1 .. Len(text) /\ text[r] = Plus
      BY DEF Positions
    <3>2. SUFFICES ASSUME r >= p PROVE r = q - 1
      BY <3>1
    <3>3. r - p + 1 \in 1 .. Len(word) /\ p + (r - p + 1) - 1 = r
      BY <1>1, <3>1, <3>2
    <3>4. r - p + 1 \in Positions(word, Plus)
      BY <1>1, <3>1, <3>3 DEF Positions
    <3>5. k <= r - p + 1
      BY <1>3, <3>4
    <3> QED
      BY <1>4, <2>1, <3>1, <3>5
  <2>2. q - 1 \in All
    BY <1>5 DEF Positions
  <2>3. \A r \in Up(p) : r < q - 1 \/ r = q - 1
    BY <1>4 DEF Positions
  <2>4. Up(q) = Up(p) \cup {q - 1}
    <3>1. Up(q) \subseteq Up(p) \cup {q - 1}
      BY <2>1
    <3>2. \A r \in Up(p) : r < q
      BY <1>4 DEF Positions
    <3>3. q - 1 < q
      BY <1>5
    <3> HIDE DEF q, All
    <3> QED
      BY <2>2, <3>1, <3>2, <3>3
  <2>5. q - 1 \notin Up(p)
    BY <1>4
  <2>6. IsFiniteSet(Up(p)) /\ Cardinality(Up(p)) = n
    <3>1. IsFiniteSet(All)
      BY PlusesFinite
    <3>2. Up(p) \in SUBSET All
      OBVIOUS
    <3>3. Cardinality(Up(p)) = n
      BY DEF WordFrom
    <3> QED
      BY <3>1, <3>2, <3>3, FS_Subset
  <2> QED
    BY <2>4, <2>5, <2>6, FS_AddElement
<1>7. SubSeq(word, k + 1, Len(word)) = SubSeq(text, q, Len(text))
  BY <1>1, <1>4 DEF WordFrom
<1>8. WordFrom(q, n + 1)'
  BY <1>3, <1>5, <1>6, <1>7 DEF WordFrom
<1> QED
  BY <1>5, <1>8

LEMMA QueryStep ==
  ASSUME QueryInv, [Next]_vars
  PROVE  QueryInv'
<1>1. TypeOK /\ TypeOK'
  BY TypeStep DEF QueryInv
<1>2. CASE ParseWords
  <2>1. text' = word' /\ count_plus' = CountPlus(text') /\ pc' \in {"done", "field"}
        /\ i' = i /\ (pc' = "field" => text' # <<>>) /\ (pc' = "done" => text' = <<>>)
    BY <1>2 DEF ParseWords
  <2>2. i = 0
    BY <1>1, <1>2 DEF ParseWords, TypeOK
  <2> QED
    BY <1>1, <2>1, <2>2 DEF QueryInv
<1>3. CASE TakeField
  <2>1. pc' = "decode" /\ i' = i /\ text' = text /\ count_plus' = count_plus
        /\ decode' = Before(word', Plus)
    BY <1>3 DEF TakeField
  <2>2. \E p \in 1 .. Len(text') + 1 : WordFrom(p, i)'
    <3>1. CASE i = 0
      <4>1. word' = text'
        BY <1>3, <2>1, <3>1 DEF TakeField, NextWord, QueryInv
      <4>2. (text \in Seq(Byte) /\ word = text => WordFrom(1, 0))'
        BY WordFromStart, PTL
      <4>3. WordFrom(1, 0)'
        BY <1>1, <4>1, <4>2 DEF TypeOK
      <4> QED
        BY <1>1, <2>1, <3>1, <4>3 DEF TypeOK
    <3>2. CASE i # 0
      <4>1. i \in Nat /\ i > 0 /\ i <= count_plus /\ text \in Seq(Byte)
        BY <1>1, <1>3, <3>2 DEF TypeOK, TakeField
      <4>2. PICK n \in Nat : n = i - 1
        BY <4>1
      <4>3. PICK p \in 1 .. Len(text) + 1 : WordFrom(p, n)
        BY <1>3, <4>1, <4>2 DEF QueryInv, TakeField
      <4>4. n + 1 <= Pluses(text)
        <5>1. count_plus = CountPlus(text)
          BY <1>3 DEF QueryInv, TakeField
        <5>2. Pluses(text) \in Nat /\ CountPlus(text) = Least(3, Pluses(text))
          BY <4>1, CountPlusTyped, PlusesFinite DEF Pluses
        <5> QED
          BY <4>1, <4>2, <5>1, <5>2 DEF Least
      <4>5. word' = After(word, Plus)
        BY <1>3, <3>2 DEF TakeField, NextWord
      <4>6. \E q \in 1 .. Len(text') + 1 : WordFrom(q, n + 1)'
        BY <2>1, <4>1, <4>3, <4>4, <4>5, NextWordFrom
      <4>7. n + 1 = i'
        BY <2>1, <4>1, <4>2
      <4> QED
        BY <4>6, <4>7 DEF WordFrom
    <3> QED
      BY <3>1, <3>2
  <2>3. text # <<>>
    BY <1>3 DEF TakeField, QueryInv
  <2> QED
    BY <1>1, <1>3, <2>1, <2>2, <2>3 DEF QueryInv, TakeField
<1>4. CASE DecodeEscape \/ DecodePlain
  <2>1. pc = "decode" /\ UNCHANGED <<pc, loopVars, decode, text>>
    BY <1>4 DEF DecodeEscape, DecodePlain
  <2> QED
    BY <1>1, <2>1 DEF QueryInv, WordFrom, loopVars
<1>5. CASE KeepField
  <2>1. pc = "decode" /\ i' = i + 1 /\ UNCHANGED <<word, count_plus, text, decode>>
        /\ pc' = (IF i < count_plus THEN "field" ELSE "done")
    BY <1>5 DEF KeepField, decodeVars
  <2>2. i \in Nat /\ count_plus \in Nat /\ i <= count_plus
    BY <1>1, <2>1 DEF TypeOK, Entries
  <2>3. PICK p \in 1 .. Len(text) + 1 : WordFrom(p, i)
    BY <2>1 DEF QueryInv
  <2>4. WordFrom(p, i - 1)'
    BY <2>1, <2>2, <2>3 DEF WordFrom
  <2> QED
    BY <1>1, <2>1, <2>2, <2>4 DEF QueryInv
<1>6. CASE UNCHANGED vars
  BY <1>1, <1>6 DEF QueryInv, WordFrom, vars, loopVars, decodeVars
<1> QED
  BY <1>2, <1>3, <1>4, <1>5, <1>6 DEF Next

LEMMA QueryImplies == QueryInv => FieldsInOrder
<1> SUFFICES ASSUME QueryInv PROVE FieldsInOrder
  OBVIOUS
<1>1. text \in Seq(Byte)
  BY DEF QueryInv, TypeOK
<1>2. pc = "done" /\ text # <<>> => i = Least(4, Pluses(text) + 1)
  BY <1>1, CountPlusTyped, PlusesFinite DEF QueryInv, Least, Pluses
<1> QED
  BY <1>2 DEF QueryInv, FieldsInOrder, WordFrom, Pluses

-----------------------------------------------------------------------------
(***************************************************************************)
(* The meaning of percent-encoded text.  Its recursive definition has a    *)
(* solution, shown from the end of the text to its beginning: of the       *)
(* positions from which there is none, there is no last one.               *)
(***************************************************************************)

Turn(f, s, k) ==
  IF k = Len(s) + 1 THEN <<>>
  ELSE IF s[k] = Percent
    THEN <<16 * Value(s[k + 1]) + Value(s[k + 2])>> \o f[k + 3]
    ELSE <<s[k]>> \o f[k + 1]

Solves(f, s, n) ==
  /\ f \in [n .. Len(s) + 1 -> Seq(Byte)]
  /\ \A k \in n .. Len(s) + 1 : f[k] = Turn(f, s, k)

LEMMA EscapeIsByte ==
  ASSUME NEW d \in HexDigits, NEW e \in HexDigits
  PROVE  16 * Value(d) + Value(e) \in Byte
<1>1. \A h \in HexDigits : Value(h) \in 0 .. 15
  BY DEF HexDigits, Value
<1>2. Value(d) \in 0 .. 15 /\ Value(e) \in 0 .. 15
  BY <1>1
<1>3. PICK a \in 0 .. 15, b \in 0 .. 15 : a = Value(d) /\ b = Value(e)
  BY <1>2
<1>4. 16 * a + b \in Byte
  BY DEF Byte
<1> QED
  BY <1>3, <1>4

\* An escape has its digits, and neither of them begins another escape.
LEMMA EscapeIs ==
  ASSUME NEW s \in Seq(Byte), Encoded(s), NEW k \in 1 .. Len(s), s[k] = Percent
  PROVE  /\ k + 2 \in 1 .. Len(s)
         /\ s[k + 1] \in HexDigits /\ s[k + 2] \in HexDigits
         /\ s[k + 1] # Percent /\ s[k + 2] # Percent
         /\ 16 * Value(s[k + 1]) + Value(s[k + 2]) \in Byte
<1>1. k + 2 <= Len(s) /\ s[k + 1] \in HexDigits /\ s[k + 2] \in HexDigits
  BY DEF Encoded, Positions
<1>2. Percent \notin HexDigits
  BY DEF Percent, HexDigits
<1> QED
  BY <1>1, <1>2, EscapeIsByte

LEMMA TurnTyped ==
  ASSUME NEW s \in Seq(Byte), Encoded(s), NEW k \in 1 .. Len(s) + 1, NEW f,
         \A m \in k + 1 .. Len(s) + 1 : f[m] \in Seq(Byte)
  PROVE  Turn(f, s, k) \in Seq(Byte)
<1>1. CASE k = Len(s) + 1
  BY <1>1 DEF Turn
<1>2. CASE k \in 1 .. Len(s) /\ s[k] = Percent
  <2>1. PICK b \in Byte : b = 16 * Value(s[k + 1]) + Value(s[k + 2])
    BY <1>2, EscapeIs
  <2>2. f[k + 3] \in Seq(Byte)
    BY <1>2, EscapeIs
  <2>3. Turn(f, s, k) = <<b>> \o f[k + 3]
    BY <1>2, <2>1 DEF Turn
  <2>4. <<b>> \in Seq(Byte)
    OBVIOUS
  <2> QED
    BY <2>2, <2>3, <2>4, ConcatProperties
<1>3. CASE k \in 1 .. Len(s) /\ s[k] # Percent
  <2>1. f[k + 1] \in Seq(Byte) /\ <<s[k]>> \in Seq(Byte)
    BY <1>3
  <2>2. Turn(f, s, k) = <<s[k]>> \o f[k + 1]
    BY <1>3 DEF Turn
  <2> QED
    BY <2>1, <2>2, ConcatProperties
<1> QED
  BY <1>1, <1>2, <1>3

\* The meaning from one position on rests on those behind it only.
LEMMA TurnSame ==
  ASSUME NEW s \in Seq(Byte), Encoded(s), NEW k \in 1 .. Len(s) + 1, NEW f, NEW g,
         \A m \in k + 1 .. Len(s) + 1 : f[m] = g[m]
  PROVE  Turn(f, s, k) = Turn(g, s, k)
<1>1. CASE k = Len(s) + 1
  BY <1>1 DEF Turn
<1>2. CASE k \in 1 .. Len(s) /\ s[k] = Percent
  <2>1. f[k + 3] = g[k + 3]
    BY <1>2, EscapeIs
  <2> QED
    BY <1>2, <2>1 DEF Turn
<1>3. CASE k \in 1 .. Len(s) /\ s[k] # Percent
  <2>1. f[k + 1] = g[k + 1]
    BY <1>3
  <2> QED
    BY <1>3, <2>1 DEF Turn
<1> QED
  BY <1>1, <1>2, <1>3

LEMMA Solvable ==
  ASSUME NEW s \in Seq(Byte), Encoded(s)
  PROVE  \E f : Solves(f, s, 1)
<1> DEFINE N == Len(s)
           Bad == {m \in 0 .. N : ~ \E f : Solves(f, s, N + 1 - m)}
<1>1. N \in Nat
  OBVIOUS
<1>2. SUFFICES ASSUME Bad # {} PROVE FALSE
  <2>1. N \in 0 .. N /\ N + 1 - N = 1
    BY <1>1
  <2> QED
    BY <2>1
<1>3. PICK m \in Bad : \A o \in Bad : m <= o
  <2>1. Bad \in SUBSET Nat
    OBVIOUS
  <2> HIDE DEF Bad
  <2> QED
    BY <1>2, <2>1, HasLeast
<1>4. m \in 0 .. N /\ ~ \E f : Solves(f, s, N + 1 - m)
  OBVIOUS
<1>5. PICK n \in 1 .. N + 1 : n = N + 1 - m
  BY <1>1, <1>4
<1>6. CASE m = 0
  <2> DEFINE f == [k \in N + 1 .. N + 1 |-> <<>>]
  <2>1. f \in [N + 1 .. N + 1 -> Seq(Byte)]
    OBVIOUS
  <2>2. \A k \in N + 1 .. N + 1 : f[k] = Turn(f, s, k)
    BY DEF Turn
  <2> HIDE DEF f
  <2>3. Solves(f, s, N + 1)
    BY <2>1, <2>2 DEF Solves
  <2> QED
    BY <1>1, <1>4, <1>6, <2>3
<1>7. CASE m > 0
  <2>1. m - 1 \notin Bad /\ m - 1 \in 0 .. N /\ N + 1 - (m - 1) = n + 1 /\ n <= N
    BY <1>1, <1>3, <1>4, <1>5, <1>7
  <2>2. PICK f : Solves(f, s, n + 1)
    BY <2>1
  <2> DEFINE g == [k \in n .. N + 1 |-> IF k = n THEN Turn(f, s, n) ELSE f[k]]
  <2>3. \A k \in n + 1 .. N + 1 : f[k] \in Seq(Byte) /\ f[k] = Turn(f, s, k)
    BY <2>2 DEF Solves
  <2>4. \A k \in n + 1 .. N + 1 : g[k] = f[k]
    BY <1>1, <1>5
  <2>5. g[n] = Turn(f, s, n) /\ g \in [n .. N + 1 -> Seq(Byte)]
    <3>1. Turn(f, s, n) \in Seq(Byte)
      BY <1>5, <2>3, TurnTyped
    <3>2. \A k \in n .. N + 1 : k = n \/ k \in n + 1 .. N + 1
      BY <1>1, <1>5
    <3>3. n \in n .. N + 1
      BY <1>1, <1>5
    <3> QED
      BY <2>3, <3>1, <3>2, <3>3
  <2> HIDE DEF g
  <2>6. ASSUME NEW k \in n .. N + 1 PROVE g[k] = Turn(g, s, k)
    <3>1. k \in 1 .. N + 1 /\ \A o \in k + 1 .. N + 1 : g[o] = f[o]
      BY <1>1, <1>5, <2>4
    <3>2. Turn(g, s, k) = Turn(f, s, k)
      BY <3>1, TurnSame
    <3>3. k = n \/ k \in n + 1 .. N + 1
      BY <1>1, <1>5
    <3> QED
      BY <2>3, <2>4, <2>5, <3>2, <3>3
  <2>7. Solves(g, s, n)
    BY <2>5, <2>6 DEF Solves
  <2> QED
    BY <1>4, <1>5, <2>7
<1> QED
  BY <1>1, <1>4, <1>6, <1>7

\* From obeys its equation wherever the text is percent-encoded.
LEMMA FromIs ==
  ASSUME NEW s \in Seq(Byte), Encoded(s)
  PROVE  \A k \in 1 .. Len(s) + 1 :
           From(s)[k] = Turn(From(s), s, k) /\ From(s)[k] \in Seq(Byte)
<1> DEFINE N == Len(s)
           F == From(s)
           Eq(f) == f = [k \in 1 .. N + 1 |-> Turn(f, s, k)]
<1>1. F = CHOOSE f : Eq(f)
  BY DEF From, Turn
<1>2. \E f : Eq(f)
  <2>1. PICK f : Solves(f, s, 1)
    BY Solvable
  <2>2. f = [k \in 1 .. N + 1 |-> f[k]] /\ \A k \in 1 .. N + 1 : f[k] = Turn(f, s, k)
    BY <2>1 DEF Solves
  <2>3. Eq(f)
    BY <2>2
  <2> QED
    BY <2>3
<1>3. Eq(F)
  <2> HIDE DEF Eq, F
  <2> QED
    BY <1>1, <1>2
<1>4. ASSUME NEW k \in 1 .. N + 1 PROVE F[k] = Turn(F, s, k)
  <2> DEFINE T(o) == Turn(F, s, o)
  <2>1. F = [o \in 1 .. N + 1 |-> T(o)]
    BY <1>3
  <2> HIDE DEF T, F
  <2>2. F[k] = T(k)
    BY <2>1
  <2> QED
    BY <2>2 DEF T
<1> HIDE DEF F
<1> DEFINE Bad == {m \in 0 .. N : F[N + 1 - m] \notin Seq(Byte)}
<1>5. N \in Nat
  OBVIOUS
<1>6. Bad = {}
  <2> SUFFICES ASSUME Bad # {} PROVE FALSE
    OBVIOUS
  <2>1. PICK m \in Bad : \A o \in Bad : m <= o
    <3>1. Bad \in SUBSET Nat
      OBVIOUS
    <3> HIDE DEF Bad
    <3> QED
      BY <3>1, HasLeast
  <2>2. m \in 0 .. N /\ F[N + 1 - m] \notin Seq(Byte)
    OBVIOUS
  <2>3. PICK n \in 1 .. N + 1 : n = N + 1 - m
    BY <1>5, <2>2
  <2>4. ASSUME NEW k \in n + 1 .. N + 1 PROVE F[k] \in Seq(Byte)
    <3>1. N + 1 - k \in 0 .. N /\ N + 1 - k < m /\ N + 1 - (N + 1 - k) = k
      BY <1>5, <2>2, <2>3
    <3>2. N + 1 - k \notin Bad
      BY <2>1, <2>2, <3>1
    <3> QED
      BY <3>1, <3>2
  <2>5. Turn(F, s, n) \in Seq(Byte)
    BY <2>3, <2>4, TurnTyped
  <2> QED
    BY <1>4, <2>2, <2>3, <2>5
<1>7. ASSUME NEW k \in 1 .. N + 1 PROVE F[k] \in Seq(Byte)
  <2>1. N + 1 - k \in 0 .. N /\ N + 1 - (N + 1 - k) = k
    BY <1>5
  <2> QED
    BY <1>6, <2>1
<1> QED
  BY <1>4, <1>7 DEF F

-----------------------------------------------------------------------------
(***************************************************************************)
(* The loop of url_decoding: what each turn adds to tmp_word, and where.   *)
(***************************************************************************)

\* Where no digit follows the two of an escape, or where the window is not yet
\* too long, %x reads those two.
LEMMA TwoDigitsRead ==
  ASSUME decode \in Seq(Byte), Encoded(decode), j \in Nat, j < Len(decode),
         decode[j + 1] = Percent,
         j = 0 \/ j + 4 > Len(decode) \/ decode[j + 4] \notin HexDigits
  PROVE  DigitsRead = SubSeq(decode, j + 2, j + 3)
<1> DEFINE from == j + 2
           room == Least(Len(decode), from + j + 1)
           N == room - from + 1
           Stop(n) == /\ \A k \in from .. from + n - 1 : decode[k] \in HexDigits
                      /\ from + n <= room => decode[from + n] \notin HexDigits
           n == CHOOSE n \in 0 .. N : Stop(n)
<1>1. j + 3 \in 1 .. Len(decode)
      /\ decode[j + 2] \in HexDigits /\ decode[j + 3] \in HexDigits
  <2>1. j + 1 \in 1 .. Len(decode)
    OBVIOUS
  <2>2. j + 1 + 2 \in 1 .. Len(decode)
        /\ decode[j + 1 + 1] \in HexDigits /\ decode[j + 1 + 2] \in HexDigits
    BY <2>1, EscapeIs
  <2> QED
    BY <2>2
<1>2. N \in Nat /\ 2 <= N /\ room \in Nat /\ room <= Len(decode) /\ from + 1 <= room
      /\ from = j + 2 /\ N = room - from + 1
  BY <1>1 DEF Least
<1>3. (j = 0 => room = j + 3) /\ (j # 0 /\ j + 4 <= Len(decode) => room >= j + 4)
      /\ (j + 4 > Len(decode) => room = j + 3)
  BY <1>1 DEF Least
<1> HIDE DEF room, N
<1>4. Stop(2)
  <2>1. \A k \in from .. from + 2 - 1 : decode[k] \in HexDigits
    <3>1. \A k \in from .. from + 2 - 1 : k = j + 2 \/ k = j + 3
      BY <1>2
    <3> QED
      BY <1>1, <3>1
  <2>2. from + 2 <= room => decode[from + 2] \notin HexDigits
    <3>1. HAVE from + 2 <= room
    <3>2. j # 0 /\ j + 4 <= Len(decode) /\ from + 2 = j + 4
      BY <1>2, <1>3, <3>1
    <3> QED
      BY <3>2
  <2> QED
    BY <2>1, <2>2
<1>5. n \in 0 .. N /\ Stop(n)
  <2>1. 2 \in 0 .. N
    BY <1>2
  <2> HIDE DEF Stop
  <2> QED
    BY <1>4, <2>1
<1>6. DigitsRead = SubSeq(decode, from, from + n - 1)
  BY DEF DigitsRead, room, N
<1> HIDE DEF n
<1>7. n >= 2
  <2>1. SUFFICES ASSUME n < 2 PROVE FALSE
    BY <1>2, <1>5
  <2>2. from + n <= room /\ (from + n = j + 2 \/ from + n = j + 3)
    BY <1>2, <1>5, <2>1
  <2>3. decode[from + n] \in HexDigits
    BY <1>1, <2>2
  <2> QED
    BY <1>5, <2>2, <2>3
<1>8. n <= 2
  <2>1. SUFFICES ASSUME n > 2 PROVE FALSE
    BY <1>2, <1>5
  <2>2. from + 2 <= room /\ from + 2 \in from .. from + n - 1
    BY <1>2, <1>5, <2>1
  <2>3. decode[from + 2] \in HexDigits
    BY <1>5, <2>2
  <2> QED
    BY <1>4, <2>2, <2>3
<1>9. n = 2
  BY <1>2, <1>5, <1>7, <1>8
<1> QED
  BY <1>6, <1>9

LEMMA SymbolOfTwo ==
  ASSUME NEW ds, ds \in Seq(HexDigits), Len(ds) = 2
  PROVE  Symbols(ds) = {16 * Value(ds[1]) + Value(ds[2])}
BY DEF Symbols

\* A byte has its place one behind the place of the byte before it.
LEMMA PlaceMoves ==
  ASSUME decode \in Seq(Byte), Encoded(decode), NEW k \in 1 .. Len(decode)
  PROVE  /\ Place(k) \in Int
         /\ decode[k] # Percent => Place(k + 1) = Place(k) + 1
         /\ decode[k] = Percent => Place(k + 3) = Place(k) + 1
<1> DEFINE All == Positions(decode, Percent)
           Up(l) == {m \in All : m < l}
<1>1. ASSUME NEW l \in Int PROVE IsFiniteSet(Up(l)) /\ Cardinality(Up(l)) \in Nat
  <2>1. IsFiniteSet(All) /\ Up(l) \in SUBSET All
    BY PlusesFinite
  <2> QED
    BY <2>1, FS_Subset, FS_CardinalityType
<1>2. k \in Int /\ Len(decode) \in Nat
  OBVIOUS
<1>3. ASSUME decode[k] # Percent PROVE Up(k + 1) = Up(k)
  <2>1. k \notin All
    BY <1>3 DEF Positions
  <2>2. \A m \in All : m \in Int /\ m # k
    BY <2>1 DEF Positions
  <2>3. \A m \in All : m < k + 1 <=> m < k
    BY <1>2, <2>2
  <2> QED
    BY <2>3
<1>4. ASSUME decode[k] = Percent PROVE Up(k + 3) = Up(k) \cup {k}
  <2>1. k \in All /\ k + 1 \notin All /\ k + 2 \notin All
    BY <1>4, EscapeIs DEF Positions
  <2>2. \A m \in All : m \in Int /\ m # k + 1 /\ m # k + 2
    BY <2>1 DEF Positions
  <2>3. \A m \in All : m < k + 3 <=> (m < k \/ m = k)
    BY <1>2, <2>2
  <2> QED
    BY <2>1, <2>3
<1>5. k \notin Up(k)
  BY <1>2
<1>6. ASSUME NEW l \in Int PROVE Place(l) = l - 2 * Cardinality(Up(l))
  BY Zenon DEF Place
<1>7. IsFiniteSet(Up(k)) /\ Cardinality(Up(k)) \in Nat
  BY <1>1, <1>2
<1>8. Cardinality(Up(k) \cup {k}) = Cardinality(Up(k)) + 1
  BY <1>5, <1>7, FS_AddElement
<1> HIDE DEF Up, All
<1>9. Place(k) = k - 2 * Cardinality(Up(k))
  BY <1>2, <1>6
<1>10. PICK l1 \in Int, l3 \in Int : l1 = k + 1 /\ l3 = k + 3
  BY <1>2
<1>11. Place(l1) = l1 - 2 * Cardinality(Up(l1)) /\ Place(l3) = l3 - 2 * Cardinality(Up(l3))
  BY <1>6
<1>12. /\ decode[k] # Percent => Cardinality(Up(l1)) = Cardinality(Up(k))
       /\ decode[k] = Percent => Cardinality(Up(l3)) = Cardinality(Up(k)) + 1
  BY <1>3, <1>4, <1>8, <1>10
<1>13. /\ decode[k] # Percent => Place(l1) = Place(k) + 1
       /\ decode[k] = Percent => Place(l3) = Place(k) + 1
  BY <1>2, <1>7, <1>9, <1>10, <1>11, <1>12
<1> QED
  BY <1>2, <1>7, <1>9, <1>10, <1>13

\* A turn that takes decode up to m and appends b, where e is meant.
LEMMA OneByteMore ==
  ASSUME TypeOK, DecodedSoFar, pc = "decode", Encoded(decode), j < Len(decode),
         NEW m \in Nat, m <= Len(decode), NEW b \in Byte, NEW e \in Byte,
         From(decode)[j + 1] = <<e>> \o From(decode)[m + 1],
         Place(m + 1) = Place(j + 1) + 1,
         b = e \/ DigitFollows(Place(j + 1)),
         tmp_word' = Append(tmp_word, b), j' = m, decode' = decode, pc' = pc
  PROVE  DecodedSoFar'
<1> DEFINE n == Len(tmp_word)
           exact == Meaning(decode)
           rest == From(decode)[j + 1]
           more == From(decode)[m + 1]
<1>1. decode \in Seq(Byte) /\ tmp_word \in Seq(Byte) /\ j \in Nat
  BY DEF TypeOK
<1>2. more \in Seq(Byte) /\ exact \in Seq(Byte)
  <2>1. m + 1 \in 1 .. Len(decode) + 1 /\ 1 \in 1 .. Len(decode) + 1
    BY <1>1
  <2> QED
    BY <1>1, <2>1, FromIs DEF Meaning
<1>3. /\ n + 1 = Place(j + 1)
      /\ Len(exact) = n + Len(rest)
      /\ \A k \in 1 .. Len(rest) : exact[n + k] = rest[k]
      /\ \A k \in 1 .. n : tmp_word[k] = exact[k] \/ DigitFollows(k)
  BY DEF DecodedSoFar
<1>4. rest = <<e>> \o more
  OBVIOUS
<1> HIDE DEF exact, rest, more
<1>5. Len(rest) = 1 + Len(more) /\ rest[1] = e
      /\ \A k \in 1 .. Len(more) : rest[k + 1] = more[k]
  BY <1>2, <1>4
<1>6. n \in Nat /\ Len(more) \in Nat /\ Len(tmp_word') = n + 1
      /\ tmp_word'[n + 1] = b /\ \A k \in 1 .. n : tmp_word'[k] = tmp_word[k]
  BY <1>1, <1>2
<1> HIDE DEF n
<1>7. exact[n + 1] = e
  <2>1. 1 \in 1 .. Len(rest)
    BY <1>5, <1>6
  <2> QED
    BY <1>3, <1>5, <2>1
<1>8. ASSUME NEW k \in 1 .. Len(more) PROVE exact[n + 1 + k] = more[k]
  <2>1. k + 1 \in 1 .. Len(rest) /\ n + (k + 1) = n + 1 + k
    BY <1>5, <1>6
  <2> QED
    BY <1>3, <1>5, <2>1
<1>9. ASSUME NEW k \in 1 .. n + 1
      PROVE  tmp_word'[k] = exact[k] \/ DigitFollows(k)
  <2>1. CASE k = n + 1
    BY <1>3, <1>6, <1>7, <2>1
  <2>2. CASE k \in 1 .. n
    BY <1>3, <1>6, <2>2
  <2> QED
    BY <1>6, <2>1, <2>2
<1>10. Meaning(decode') = exact /\ From(decode')[j' + 1] = more
  BY DEF exact, more
<1>11. \A k \in Int : DigitFollows(k)' = DigitFollows(k)
  BY DEF DigitFollows, Place
<1>12. Place(j + 1)' = Place(m + 1)
  BY DEF Place
<1>13. n + 1 + 1 = Place(m + 1) /\ Len(exact) = n + 1 + Len(more)
  BY <1>3, <1>5, <1>6
<1> QED
  BY <1>6, <1>8, <1>9, <1>10, <1>11, <1>12, <1>13 DEF DecodedSoFar

LEMMA EscapeStep ==
  ASSUME TypeOK, TypeOK', DecodedSoFar, DecodeEscape, Encoded(decode)
  PROVE  DecodedSoFar'
<1>1. decode \in Seq(Byte) /\ j \in Nat /\ tmp_word \in Seq(Byte) /\ hex' \in Byte
  BY DEF TypeOK
<1>2. pc = "decode" /\ j < Len(decode) /\ decode[j + 1] = Percent
      /\ hex' \in Symbols(DigitsRead) /\ tmp_word' = Append(tmp_word, hex')
      /\ j' = j + 3 /\ pc' = pc /\ decode' = decode
  BY DEF DecodeEscape, AfterEscape
<1>3. PICK l \in 1 .. Len(decode) : l = j + 1
  BY <1>1, <1>2
<1>4. PICK e \in Byte : e = 16 * Value(decode[l + 1]) + Value(decode[l + 2])
  BY <1>1, <1>2, <1>3, EscapeIs
<1>5. l + 2 \in 1 .. Len(decode) /\ decode[l + 1] \in HexDigits
      /\ decode[l + 2] \in HexDigits
  BY <1>1, <1>2, <1>3, EscapeIs
<1>6. From(decode)[l] = <<e>> \o From(decode)[l + 3]
  <2>1. From(decode)[l] = Turn(From(decode), decode, l)
    BY <1>1, <1>3, FromIs
  <2>2. l # Len(decode) + 1 /\ decode[l] = Percent
    BY <1>1, <1>2, <1>3
  <2> QED
    BY <1>4, <2>1, <2>2 DEF Turn
<1>7. Place(l + 3) = Place(l) + 1
  BY <1>1, <1>2, <1>3, PlaceMoves
<1>8. hex' = e \/ DigitFollows(Place(l))
  <2>1. CASE j = 0 \/ j + 4 > Len(decode) \/ decode[j + 4] \notin HexDigits
    <3>1. DigitsRead = SubSeq(decode, j + 2, j + 3)
      BY <1>1, <1>2, <2>1, TwoDigitsRead
    <3>2. j + 2 = l + 1 /\ j + 3 = l + 2 /\ l + 1 \in 1 .. Len(decode)
      BY <1>1, <1>3, <1>5
    <3> DEFINE ds == SubSeq(decode, l + 1, l + 2)
    <3>3. DigitsRead = ds
      BY <3>1, <3>2
    <3>4. Len(ds) = 2 /\ ds[1] = decode[l + 1] /\ ds[2] = decode[l + 2]
      BY <1>1, <1>3, <1>5, <3>2
    <3>5. ds \in Seq(HexDigits)
      <4>1. \A k \in l + 1 .. l + 2 : k = l + 1 \/ k = l + 2
        BY <1>3
      <4> QED
        BY <1>1, <1>5, <3>2, <4>1, SubSeqProperties
    <3> HIDE DEF ds
    <3>6. Symbols(DigitsRead) = {e}
      BY <1>4, <3>3, <3>4, <3>5, SymbolOfTwo
    <3> QED
      BY <1>2, <3>6
  <2>2. CASE j # 0 /\ j + 4 <= Len(decode) /\ decode[j + 4] \in HexDigits
    <3>1. l \in Positions(decode, Percent) \ {1} /\ l + 3 <= Len(decode)
          /\ decode[l + 3] \in HexDigits
      <4>1. l + 3 = j + 4 /\ l # 1
        BY <1>1, <1>3, <2>2
      <4> QED
        BY <1>2, <1>3, <2>2, <4>1 DEF Positions
    <3> QED
      BY <3>1 DEF DigitFollows
  <2> QED
    BY <1>1, <2>1, <2>2
<1>9. PICK m \in Nat : m = j + 3
  BY <1>1
<1>10. m <= Len(decode) /\ m + 1 = l + 3
  BY <1>1, <1>3, <1>5, <1>9
<1> QED
  BY <1>1, <1>2, <1>3, <1>6, <1>7, <1>8, <1>9, <1>10, OneByteMore

LEMMA PlainStep ==
  ASSUME TypeOK, DecodedSoFar, DecodePlain, Encoded(decode)
  PROVE  DecodedSoFar'
<1>1. decode \in Seq(Byte) /\ j \in Nat
  BY DEF TypeOK
<1>2. pc = "decode" /\ j < Len(decode) /\ decode[j + 1] # Percent
      /\ tmp_word' = Append(tmp_word, decode[j + 1])
      /\ j' = j + 1 /\ pc' = pc /\ decode' = decode
  BY DEF DecodePlain
<1>3. PICK l \in 1 .. Len(decode) : l = j + 1
  BY <1>1, <1>2
<1>4. PICK e \in Byte : e = decode[l]
  BY <1>1
<1>5. From(decode)[l] = <<e>> \o From(decode)[l + 1]
  <2>1. From(decode)[l] = Turn(From(decode), decode, l)
    BY <1>1, <1>3, FromIs
  <2>2. l # Len(decode) + 1 /\ decode[l] # Percent
    BY <1>1, <1>2, <1>3
  <2> QED
    BY <1>4, <2>1, <2>2 DEF Turn
<1>6. Place(l + 1) = Place(l) + 1
  BY <1>1, <1>2, <1>3, PlaceMoves
<1>7. l \in Nat /\ l <= Len(decode)
  BY <1>1, <1>3
<1> QED
  BY <1>1, <1>2, <1>3, <1>4, <1>5, <1>6, <1>7, OneByteMore

LEMMA FieldBegins ==
  ASSUME TypeOK', TakeField
  PROVE  DecodedSoFar'
<1>1. j' = 0 /\ tmp_word' = <<>> /\ decode' \in Seq(Byte)
  BY DEF TypeOK, TakeField
<1>2. SUFFICES ASSUME Encoded(decode') PROVE DecodedSoFar'
  BY DEF DecodedSoFar
<1>3. Place(j + 1)' = 1
  <2>1. {m \in Positions(decode', Percent) : m < 0 + 1} = {}
    BY DEF Positions
  <2> QED
    BY <1>1, <2>1, FS_EmptySet DEF Place
<1>4. Len(tmp_word') = 0 /\ Len(decode') \in Nat
  BY <1>1
<1>5. From(decode')[0 + 1] = Meaning(decode')
  BY DEF Meaning
<1>6. Meaning(decode') \in Seq(Byte)
  <2>1. 1 \in 1 .. Len(decode') + 1
    BY <1>4
  <2> QED
    BY <1>1, <1>2, <2>1, FromIs DEF Meaning
<1>7. Len(Meaning(decode')) \in Nat
  BY <1>6
<1>8. \A k \in 1 .. Len(Meaning(decode')) :
        Meaning(decode')[0 + k] = Meaning(decode')[k]
  OBVIOUS
<1>9. 0 <= Len(decode') /\ Len(Meaning(decode')) = 0 + Len(Meaning(decode'))
      /\ 0 + 1 = Place(j + 1)'
  BY <1>3, <1>4, <1>7
<1> QED
  BY <1>1, <1>4, <1>5, <1>8, <1>9 DEF DecodedSoFar

LEMMA DecodedStep ==
  ASSUME TypeOK, TypeOK', DecodedSoFar, [Next]_vars
  PROVE  DecodedSoFar'
<1>1. CASE ParseWords
  BY <1>1 DEF ParseWords, DecodedSoFar
<1>2. CASE TakeField
  BY <1>2, FieldBegins
<1>3. CASE DecodeEscape \/ DecodePlain
  <2>1. decode' = decode
    BY <1>3 DEF DecodeEscape, DecodePlain
  <2>2. CASE Encoded(decode)
    BY <1>3, <2>2, EscapeStep, PlainStep
  <2>3. CASE ~ Encoded(decode)
    BY <2>1, <2>3 DEF DecodedSoFar
  <2> QED
    BY <2>2, <2>3
<1>4. CASE KeepField
  BY <1>4 DEF KeepField, DecodedSoFar
<1>5. CASE UNCHANGED vars
  <2>1. UNCHANGED <<pc, decode, j, tmp_word>>
    BY <1>5 DEF vars, decodeVars
  <2> QED
    BY <2>1 DEF DecodedSoFar, DigitFollows, Place
<1> QED
  BY <1>1, <1>2, <1>3, <1>4, <1>5 DEF Next

\* At the end of the text nothing is lacking.
LEMMA DecodedImplies ==
  TypeOK /\ DecodedSoFar => DecodedUnlessDigitsFollow
<1> SUFFICES ASSUME TypeOK, DecodedSoFar, pc = "decode", j >= Len(decode),
                    Encoded(decode)
             PROVE  /\ Len(tmp_word) = Len(Meaning(decode))
                    /\ \A k \in 1 .. Len(tmp_word) :
                         tmp_word[k] = Meaning(decode)[k] \/ DigitFollows(k)
  BY DEF DecodedUnlessDigitsFollow
<1>1. decode \in Seq(Byte) /\ tmp_word \in Seq(Byte) /\ j \in Nat
  BY DEF TypeOK
<1>2. j = Len(decode)
  BY <1>1 DEF DecodedSoFar
<1>3. From(decode)[j + 1] = <<>>
  <2>1. j + 1 \in 1 .. Len(decode) + 1
    BY <1>1, <1>2
  <2>2. From(decode)[j + 1] = Turn(From(decode), decode, j + 1)
    BY <1>1, <2>1, FromIs
  <2> QED
    BY <1>2, <2>2 DEF Turn
<1> QED
  BY <1>1, <1>3 DEF DecodedSoFar

LEMMA QueryInvariance == Spec => []QueryInv
<1>1. Init => QueryInv
  BY QueryInit
<1>2. QueryInv /\ [Next]_vars => QueryInv'
  BY QueryStep
<1> QED
  BY <1>1, <1>2, PTL DEF Spec

\* Whatever a client posts, parse_words writes no entry of words_list beyond
\* the four there are, and every byte of a decoded word is a byte.
THEOREM QueryTyped == Spec => []TypeOK
<1>1. QueryInv => TypeOK
  BY DEF QueryInv
<1> QED
  BY <1>1, QueryInvariance, PTL

\* The words that are searched for are the first four of the text, each in its
\* place and whole, for every text with any number of '+'.
THEOREM WordsInTheirPlaces == Spec => []FieldsInOrder
BY QueryImplies, QueryInvariance, PTL

\* url_decoding gives a percent-encoded text of any length its length and its
\* bytes, but for the escapes that a further digit follows.
THEOREM DecodedWherePossible == Spec => []DecodedUnlessDigitsFollow
<1>1. Init => DecodedSoFar
  BY DEF Init, DecodedSoFar
<1>2. TypeOK /\ TypeOK' /\ DecodedSoFar /\ [Next]_vars => DecodedSoFar'
  BY DecodedStep
<1>3. TypeOK /\ DecodedSoFar => DecodedUnlessDigitsFollow
  BY DecodedImplies
<1> QED
  BY <1>1, <1>2, <1>3, QueryTyped, PTL DEF Spec
=============================================================================
