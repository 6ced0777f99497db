---------------------------- MODULE LinksProofs ----------------------------
(***************************************************************************)
(* Proofs about Links, for pages of any content and paths of any length.   *)
(* What a scan finds first exists because the natural numbers are well     *)
(* ordered.                                                                *)
(***************************************************************************)
EXTENDS Links, FiniteSetTheorems, SequenceTheorems, WellFoundedInduction, TLAPS

LEMMA HasLeast ==
  ASSUME NEW S \in SUBSET Nat, S # {}
  PROVE  \E n \in S : \A m \in S : n <= m
<1> DEFINE R == {p \in Nat \X Nat : p[1] < p[2]}
<1>1. IsWellFoundedOn(R, Nat)
  BY NatLessThanWellFounded DEF OpToRel
<1>2. PICK n \in S : \A m \in S : ~ (<<m, n>> \in R)
  <2> HIDE DEF R
  <2> QED
    BY <1>1, WFMin
<1>3. ASSUME NEW m \in S PROVE n <= m
  <2>1. m \in Nat /\ n \in Nat
    OBVIOUS
  <2>2. <<m, n>> \in R <=> m < n
    BY <2>1
  <2> QED
    BY <1>2, <2>1, <2>2
<1> QED
  BY <1>3

-----------------------------------------------------------------------------
(***************************************************************************)
(* The parts of a text.                                                    *)
(***************************************************************************)

LEMMA Distinct ==
  /\ Slash \notin {Question, Esc, Raw, Colon, Hash, Http}
  /\ Hash \notin {Question, Esc, Raw, Colon, Http}
  /\ Question \notin {Esc, Raw, Http, Colon}
  /\ Colon \notin {Http, Raw, Esc}
  /\ Raw \notin {Esc, Open, Http, Colon}
  /\ Http \notin {Esc, Raw}
  /\ Open # Quote
<1> DEFINE D(m, n) == Marks[m] = Marks[n] => m = n
<1>1. Len(Marks) = 9
  BY DEF Marks
<1>2. \A m, n \in 1 .. 9 : D(m, n)
  BY <1>1, LinksAssumption
<1>3. /\ Marks[1] = Open /\ Marks[2] = Quote /\ Marks[3] = Http /\ Marks[4] = Colon
      /\ Marks[5] = Slash /\ Marks[6] = Hash /\ Marks[7] = Question
      /\ Marks[8] = Raw /\ Marks[9] = Esc
  BY DEF Marks
<1>4. \A m, n \in 1 .. 9 : m # n => Marks[m] # Marks[n]
  BY <1>2
<1> QED
  BY <1>3, <1>4

LEMMA MarksAreChars ==
  {Open, Quote, Http, Colon, Slash, Hash, Question, Raw, Esc} \subseteq Char
<1>1. Len(Marks) = 9
  BY DEF Marks
<1>2. /\ Marks[1] = Open /\ Marks[2] = Quote /\ Marks[3] = Http /\ Marks[4] = Colon
      /\ Marks[5] = Slash /\ Marks[6] = Hash /\ Marks[7] = Question
      /\ Marks[8] = Raw /\ Marks[9] = Esc
  BY DEF Marks
<1>3. \A m \in 1 .. 9 : Marks[m] \in Char
  BY <1>1 DEF Char
<1> QED
  BY <1>2, <1>3

LEMMA FirstIs ==
  ASSUME NEW s \in Seq(Char), NEW cs
  PROVE  /\ First(s, cs) \in 1 .. Len(s) + 1
         /\ \A k \in 1 .. First(s, cs) - 1 : s[k] \notin cs
         /\ First(s, cs) <= Len(s) => s[First(s, cs)] \in cs
<1> DEFINE Stop(n) == /\ \A k \in 1 .. n - 1 : s[k] \notin cs
                      /\ n <= Len(s) => s[n] \in cs
           P == {n \in 1 .. Len(s) + 1 : n <= Len(s) => s[n] \in cs}
           f == CHOOSE n \in 1 .. Len(s) + 1 : Stop(n)
<1>1. PICK m \in P : \A o \in P : m <= o
  <2>1. P \in SUBSET Nat /\ Len(s) + 1 \in P
    OBVIOUS
  <2> HIDE DEF P
  <2> QED
    BY <2>1, HasLeast
<1>2. m \in 1 .. Len(s) + 1 /\ Stop(m)
  <2>1. m \in 1 .. Len(s) + 1 /\ (m <= Len(s) => s[m] \in cs)
    OBVIOUS
  <2>2. ASSUME NEW k \in 1 .. m - 1 PROVE s[k] \notin cs
    <3>1. k \notin P /\ k \in 1 .. Len(s) + 1
      BY <1>1, <2>1
    <3> QED
      BY <3>1
  <2> QED
    BY <2>1, <2>2
<1>3. f \in 1 .. Len(s) + 1 /\ Stop(f)
  <2> HIDE DEF Stop
  <2> QED
    BY <1>2
<1>4. First(s, cs) = f
  BY DEF First
<1> HIDE DEF f
<1> QED
  BY <1>3, <1>4

\* There is but one first place.
LEMMA FirstAt ==
  ASSUME NEW s \in Seq(Char), NEW cs, NEW n \in 1 .. Len(s) + 1,
         \A k \in 1 .. n - 1 : s[k] \notin cs,
         n <= Len(s) => s[n] \in cs
  PROVE  First(s, cs) = n
<1>1. PICK m \in 1 .. Len(s) + 1 : m = First(s, cs)
  BY FirstIs
<1>2. /\ \A k \in 1 .. m - 1 : s[k] \notin cs
      /\ m <= Len(s) => s[m] \in cs
  BY <1>1, FirstIs
<1>3. ~ m < n
  <2>1. ASSUME m < n PROVE m \in 1 .. n - 1 /\ m <= Len(s)
    BY <2>1
  <2> QED
    BY <1>2, <2>1
<1>4. ~ n < m
  <2>1. ASSUME n < m PROVE n \in 1 .. m - 1 /\ n <= Len(s)
    BY <2>1
  <2> QED
    BY <1>2, <2>1
<1> QED
  BY <1>1, <1>3, <1>4

LEMMA FirstAfter ==
  ASSUME NEW s \in Seq(Char), NEW cs, NEW n \in 0 .. Len(s),
         \A k \in 1 .. n : s[k] \notin cs,
         n < Len(s) => s[n + 1] \in cs
  PROVE  First(s, cs) = n + 1
<1>1. PICK m \in 1 .. Len(s) + 1 : m = n + 1
  OBVIOUS
<1>2. \A k \in 1 .. m - 1 : s[k] \notin cs
  BY <1>1
<1>3. m <= Len(s) => s[m] \in cs
  BY <1>1
<1> QED
  BY <1>1, <1>2, <1>3, FirstAt

LEMMA UpToIs ==
  ASSUME NEW s \in Seq(Char), NEW cs
  PROVE  /\ UpTo(s, cs) \in Seq(Char)
         /\ Len(UpTo(s, cs)) = First(s, cs) - 1
         /\ Len(UpTo(s, cs)) <= Len(s)
         /\ \A k \in 1 .. Len(UpTo(s, cs)) : UpTo(s, cs)[k] = s[k] /\ s[k] \notin cs
<1>1. PICK n \in 1 .. Len(s) + 1 : n = First(s, cs)
  BY FirstIs
<1>2. UpTo(s, cs) = SubSeq(s, 1, n - 1)
  BY <1>1 DEF UpTo
<1> QED
  BY <1>1, <1>2, FirstIs

LEMMA UpToAfter ==
  ASSUME NEW s \in Seq(Char), NEW cs, NEW n \in Nat, First(s, cs) = n + 1
  PROVE  /\ UpTo(s, cs) \in Seq(Char) /\ Len(UpTo(s, cs)) = n
         /\ \A k \in 1 .. n : UpTo(s, cs)[k] = s[k]
<1>1. n + 1 - 1 = n
  OBVIOUS
<1>2. Len(UpTo(s, cs)) = n
  BY <1>1, UpToIs
<1> QED
  BY <1>2, UpToIs

LEMMA BehindIs ==
  ASSUME NEW s \in Seq(Char), NEW n \in Nat
  PROVE  /\ Behind(s, n) \in Seq(Char)
         /\ n <= Len(s) => Len(Behind(s, n)) = Len(s) - n
         /\ n > Len(s) => Len(Behind(s, n)) = 0
         /\ \A k \in 1 .. Len(s) - n : Behind(s, n)[k] = s[n + k]
<1>1. \A k \in n + 1 .. Len(s) : s[k] \in Char
  OBVIOUS
<1>2. Len(s) \in Nat
  OBVIOUS
<1>3. Behind(s, n) = SubSeq(s, n + 1, Len(s))
  BY DEF Behind
<1>4. /\ SubSeq(s, n + 1, Len(s)) \in Seq(Char)
      /\ Len(SubSeq(s, n + 1, Len(s))) = IF n + 1 <= Len(s) THEN Len(s) - (n + 1) + 1 ELSE 0
      /\ \A k \in 1 .. Len(s) - (n + 1) + 1 : SubSeq(s, n + 1, Len(s))[k] = s[n + 1 + k - 1]
  BY <1>1, <1>2, SubSeqProperties
<1>5. \A k \in 1 .. Len(s) - n : n + 1 + k - 1 = n + k /\ k \in 1 .. Len(s) - (n + 1) + 1
  BY <1>2
<1> QED
  BY <1>2, <1>3, <1>4, <1>5

LEMMA BehindShort ==
  ASSUME NEW s \in Seq(Char), NEW n \in Nat
  PROVE  Behind(s, n) \in Seq(Char) /\ Len(Behind(s, n)) <= Len(s)
<1>1. /\ Behind(s, n) \in Seq(Char)
      /\ n <= Len(s) => Len(Behind(s, n)) = Len(s) - n
      /\ n > Len(s) => Len(Behind(s, n)) = 0
  BY BehindIs
<1>2. Len(s) \in Nat
  OBVIOUS
<1> QED
  BY <1>1, <1>2

LEMMA BehindPart ==
  ASSUME NEW s \in Seq(Char), NEW n \in Nat, NEW m \in Nat, Len(s) = n + m
  PROVE  /\ Behind(s, n) \in Seq(Char) /\ Len(Behind(s, n)) = m
         /\ \A k \in 1 .. m : Behind(s, n)[k] = s[n + k]
<1>1. Len(s) - n = m /\ n <= Len(s)
  OBVIOUS
<1>2. Len(Behind(s, n)) = m
  BY <1>1, BehindIs
<1>3. \A k \in 1 .. m : Behind(s, n)[k] = s[n + k]
  BY <1>1, BehindIs
<1> QED
  BY <1>2, <1>3, BehindIs

LEMMA DecodedIs ==
  ASSUME NEW s \in Seq(Char)
  PROVE  /\ Decoded(s) \in Seq(Char)
         /\ Len(Decoded(s)) = Len(s)
         /\ \A k \in 1 .. Len(s) : Decoded(s)[k] = IF s[k] = Esc THEN Raw ELSE s[k]
BY MarksAreChars DEF Decoded

LEMMA StartsWithIs ==
  ASSUME NEW s \in Seq(Char)
  PROVE  /\ \A x : StartsWith(s, <<x>>) <=> Len(s) >= 1 /\ s[1] = x
         /\ \A x, y : StartsWith(s, <<x, y>>) <=> Len(s) >= 2 /\ s[1] = x /\ s[2] = y
<1>1. ASSUME NEW x PROVE StartsWith(s, <<x>>) <=> Len(s) >= 1 /\ s[1] = x
  <2>1. ASSUME Len(s) >= 1 PROVE SubSeq(s, 1, 1) = <<s[1]>>
    <3>1. <<s[1]>> \in Seq(Char) /\ SubSeq(s, 1, 1) \in Seq(Char)
      BY <2>1
    <3>2. Len(SubSeq(s, 1, 1)) = 1 /\ SubSeq(s, 1, 1)[1] = s[1]
      BY <2>1
    <3>3. Len(<<s[1]>>) = 1 /\ \A k \in 1 .. 1 : SubSeq(s, 1, 1)[k] = <<s[1]>>[k]
      BY <3>2
    <3> QED
      BY <3>1, <3>2, <3>3, SeqEqual
  <2>2. Len(<<x>>) = 1
    OBVIOUS
  <2>3. <<s[1]>> = <<x>> <=> s[1] = x
    OBVIOUS
  <2> QED
    BY <2>1, <2>2, <2>3 DEF StartsWith
<1>2. ASSUME NEW x, NEW y
      PROVE  StartsWith(s, <<x, y>>) <=> Len(s) >= 2 /\ s[1] = x /\ s[2] = y
  <2>1. ASSUME Len(s) >= 2 PROVE SubSeq(s, 1, 2) = <<s[1], s[2]>>
    <3>1. <<s[1], s[2]>> \in Seq(Char) /\ SubSeq(s, 1, 2) \in Seq(Char)
      BY <2>1
    <3>2. Len(SubSeq(s, 1, 2)) = 2 /\ \A k \in 1 .. 2 : SubSeq(s, 1, 2)[k] = s[k]
      BY <2>1
    <3>3. \A k \in 1 .. 2 : <<s[1], s[2]>>[k] = s[k]
      OBVIOUS
    <3> QED
      BY <3>1, <3>2, <3>3, SeqEqual
  <2>2. Len(<<x, y>>) = 2
    OBVIOUS
  <2>3. <<s[1], s[2]>> = <<x, y>> <=> s[1] = x /\ s[2] = y
    OBVIOUS
  <2> QED
    BY <2>1, <2>2, <2>3 DEF StartsWith
<1> QED
  BY <1>1, <1>2

LEMMA AbsoluteIs ==
  ASSUME NEW s \in Seq(Char)
  PROVE  Absolute(s) <=> /\ Len(s) >= 4
                         /\ s[1] = Http /\ s[2] = Colon /\ s[3] = Slash /\ s[4] = Slash
<1> DEFINE t == <<Http, Colon, Slash, Slash>>
<1>1. t \in Seq(Char) /\ Len(t) = 4
  BY MarksAreChars
<1>2. t[1] = Http /\ t[2] = Colon /\ t[3] = Slash /\ t[4] = Slash
  OBVIOUS
<1> HIDE DEF t
<1>3. ASSUME Len(s) >= 4
      PROVE  SubSeq(s, 1, 4) = t <=> \A k \in 1 .. 4 : s[k] = t[k]
  <2>1. SubSeq(s, 1, 4) \in Seq(Char) /\ Len(SubSeq(s, 1, 4)) = 4
        /\ \A k \in 1 .. 4 : SubSeq(s, 1, 4)[k] = s[k]
    BY <1>3
  <2> QED
    BY <1>1, <2>1, SeqEqual
<1>4. (\A k \in 1 .. 4 : s[k] = t[k])
        <=> s[1] = Http /\ s[2] = Colon /\ s[3] = Slash /\ s[4] = Slash
  BY <1>2
<1>5. Absolute(s) <=> Len(s) >= 4 /\ SubSeq(s, 1, 4) = t
  BY <1>1 DEF Absolute, StartsWith, t
<1> QED
  BY <1>3, <1>4, <1>5
-----------------------------------------------------------------------------
(***************************************************************************)
(* What HandleUrl makes of an entry.                                       *)
(***************************************************************************)

LEMMA HierTyped ==
  ASSUME NEW e \in Seq(Char)
  PROVE  Hier(e) \in Seq(Char)
<1>1. First(e, {Colon}) \in Nat
  BY FirstIs
<1> QED
  BY <1>1, BehindIs DEF Hier

LEMMA AuthorityIs ==
  ASSUME NEW e \in Seq(Char)
  PROVE  /\ Authority(e) \in Seq(Char)
         /\ \A k \in 1 .. Len(Authority(e)) : Authority(e)[k] \notin {Slash, Question, Hash}
<1>1. Hier(e) \in Seq(Char)
  BY HierTyped
<1>2. Behind(Hier(e), 2) \in Seq(Char)
  BY <1>1, BehindIs
<1>3. CASE StartsWith(Hier(e), <<Slash, Slash>>)
  <2>1. Authority(e) = UpTo(Behind(Hier(e), 2), {Slash, Question, Hash})
    BY <1>3 DEF Authority
  <2> HIDE DEF Authority
  <2> QED
    BY <1>2, <2>1, UpToIs
<1>4. CASE ~ StartsWith(Hier(e), <<Slash, Slash>>)
  BY <1>4 DEF Authority
<1> QED
  BY <1>3, <1>4

LEMMA NameIs ==
  ASSUME NEW e \in Seq(Char)
  PROVE  /\ Name(e) \in Seq(Char)
         /\ \A k \in 1 .. Len(Name(e)) : Name(e)[k] \notin {Slash, Question, Hash}
         /\ Name(e) # <<>> => Authority(e) # <<>>
<1> DEFINE a == Authority(e)
<1>1. a \in Seq(Char) /\ \A k \in 1 .. Len(a) : a[k] \notin {Slash, Question, Hash}
  BY AuthorityIs
<1>2. Name(e) = UpTo(a, {Colon})
  BY DEF Name
<1> HIDE DEF a
<1>3. /\ Name(e) \in Seq(Char) /\ Len(Name(e)) <= Len(a)
      /\ \A k \in 1 .. Len(Name(e)) : Name(e)[k] = a[k]
  BY <1>1, <1>2, UpToIs
<1>4. Name(e) # <<>> => a # <<>>
  BY <1>1, <1>3
<1> QED
  BY <1>1, <1>3, <1>4 DEF a

LEMMA NoAuthority ==
  ASSUME NEW e \in Seq(Char), Authority(e) = <<>>
  PROVE  Name(e) = <<>> /\ All(Port(e), Digit)
<1>1. PICK a \in Seq(Char) : a = Authority(e) /\ Len(a) = 0
  BY AuthorityIs
<1>2. Name(e) = <<>>
  <2>1. Name(e) = UpTo(a, {Colon})
    BY <1>1 DEF Name
  <2>2. UpTo(a, {Colon}) \in Seq(Char) /\ Len(UpTo(a, {Colon})) <= 0
    BY <1>1, UpToIs
  <2> QED
    BY <2>1, <2>2
<1>3. Port(e) = Behind(a, 1)
  BY <1>1, <1>2 DEF Port
<1>4. Len(Behind(a, 1)) = 0
  <2>1. PICK n \in Nat : n = 1
    OBVIOUS
  <2>2. Behind(a, n) \in Seq(Char) /\ Len(Behind(a, n)) <= Len(a)
    BY BehindShort
  <2> QED
    BY <1>1, <2>1, <2>2
<1> QED
  BY <1>2, <1>3, <1>4 DEF All

\* What the path is cut from, before the query is cut off.
Rest(e) == IF StartsWith(Hier(e), <<Slash, Slash>>)
           THEN Behind(Hier(e), 2 + Len(Authority(e))) ELSE Hier(e)

LEMMA RestTyped ==
  ASSUME NEW e \in Seq(Char)
  PROVE  Rest(e) \in Seq(Char)
<1>1. Hier(e) \in Seq(Char) /\ Len(Authority(e)) \in Nat
  BY HierTyped, AuthorityIs
<1> QED
  BY <1>1, BehindIs DEF Rest

LEMMA CutDecoded ==
  ASSUME NEW s \in Seq(Char)
  PROVE  /\ Decoded(UpTo(s, {Question, Hash})) \in Seq(Char)
         /\ Len(Decoded(UpTo(s, {Question, Hash}))) = First(s, {Question, Hash}) - 1
         /\ \A k \in 1 .. First(s, {Question, Hash}) - 1 :
              /\ s[k] \notin {Question, Hash}
              /\ Decoded(UpTo(s, {Question, Hash}))[k] = IF s[k] = Esc THEN Raw ELSE s[k]
              /\ Decoded(UpTo(s, {Question, Hash}))[k] \notin {Question, Hash, Esc}
<1>1. UpTo(s, {Question, Hash}) \in Seq(Char)
      /\ Len(UpTo(s, {Question, Hash})) = First(s, {Question, Hash}) - 1
      /\ \A k \in 1 .. Len(UpTo(s, {Question, Hash})) :
           UpTo(s, {Question, Hash})[k] = s[k] /\ s[k] \notin {Question, Hash}
  BY UpToIs
<1> QED
  BY <1>1, DecodedIs, Distinct

LEMMA PathIs ==
  ASSUME NEW e \in Seq(Char)
  PROVE  /\ Path(e) = Decoded(UpTo(Rest(e), {Question, Hash}))
         /\ Path(e) \in Seq(Char)
         /\ \A k \in 1 .. Len(Path(e)) : Path(e)[k] \notin {Question, Hash, Esc}
         /\ Authority(e) # <<>> /\ Path(e) # <<>> => Path(e)[1] = Slash
<1>1. Path(e) = Decoded(UpTo(Rest(e), {Question, Hash}))
  BY DEF Path, Rest
<1>2. Rest(e) \in Seq(Char) /\ First(Rest(e), {Question, Hash}) \in 1 .. Len(Rest(e)) + 1
  BY RestTyped, FirstIs
<1>3. /\ Path(e) \in Seq(Char)
      /\ Len(Path(e)) = First(Rest(e), {Question, Hash}) - 1
      /\ \A k \in 1 .. First(Rest(e), {Question, Hash}) - 1 :
           /\ Rest(e)[k] \notin {Question, Hash}
           /\ Path(e)[k] = IF Rest(e)[k] = Esc THEN Raw ELSE Rest(e)[k]
           /\ Path(e)[k] \notin {Question, Hash, Esc}
  BY <1>1, <1>2, CutDecoded
<1>4. ASSUME Authority(e) # <<>>, Path(e) # <<>> PROVE Path(e)[1] = Slash
  <2> DEFINE h == Hier(e)
             b == Behind(h, 2)
             n == First(b, {Slash, Question, Hash})
  <2>1. StartsWith(h, <<Slash, Slash>>)
    BY <1>4 DEF Authority
  <2>2. h \in Seq(Char) /\ Len(h) >= 2
    BY <2>1, HierTyped, StartsWithIs
  <2>3. b \in Seq(Char) /\ Len(b) = Len(h) - 2
        /\ \A k \in 1 .. Len(h) - 2 : b[k] = h[2 + k]
    BY <2>2, BehindIs
  <2>4. Authority(e) = UpTo(b, {Slash, Question, Hash})
    BY <2>1 DEF Authority
  <2>5. n \in 1 .. Len(b) + 1 /\ (n <= Len(b) => b[n] \in {Slash, Question, Hash})
    BY <2>3, FirstIs
  <2>6. Len(Authority(e)) = n - 1
    BY <2>3, <2>4, UpToIs
  <2>7. Rest(e) = Behind(h, 2 + (n - 1))
    BY <2>1, <2>6 DEF Rest
  <2>8. 1 <= Len(Path(e)) /\ 1 <= Len(Rest(e))
    BY <1>2, <1>3, <1>4
  <2> HIDE DEF n, b, h
  <2>9. 2 + (n - 1) \in Nat /\ 2 + (n - 1) <= Len(h)
    BY <2>2, <2>3, <2>5
  <2>10. 2 + (n - 1) < Len(h) /\ Rest(e)[1] = h[2 + (n - 1) + 1]
    <3>1. PICK m \in Nat : m = 2 + (n - 1) /\ m <= Len(h)
      BY <2>9
    <3>2. Rest(e) = Behind(h, m)
      BY <2>7, <3>1
    <3>3. Len(Rest(e)) = Len(h) - m /\ \A k \in 1 .. Len(h) - m : Rest(e)[k] = h[m + k]
      <4>1. Len(Behind(h, m)) = Len(h) - m /\ \A k \in 1 .. Len(h) - m : Behind(h, m)[k] = h[m + k]
        BY <2>2, <3>1, BehindIs
      <4> QED
        BY <3>2, <4>1
    <3>4. 1 \in 1 .. Len(h) - m
      BY <2>2, <2>8, <3>1, <3>3
    <3> QED
      BY <2>2, <3>1, <3>3, <3>4
  <2>11. n <= Len(b) /\ b[n] = h[2 + n] /\ 2 + (n - 1) + 1 = 2 + n
    BY <2>2, <2>3, <2>5, <2>10
  <2>12. Rest(e)[1] \in {Slash, Question, Hash}
    BY <2>5, <2>10, <2>11
  <2>13. 1 \in 1 .. First(Rest(e), {Question, Hash}) - 1
    BY <1>2, <1>3, <2>8
  <2> QED
    BY <1>3, <2>12, <2>13, Distinct
<1> QED
  BY <1>1, <1>3, <1>4

\* A host is one segment without escapes; a target begins with a '/', or is empty.
LEMMA HostAndTargetAre ==
  ASSUME NEW e \in Seq(Char), Locates(e)
  PROVE  /\ HostOf(e) \in Seq(Char)
         /\ \A k \in 1 .. Len(HostOf(e)) : HostOf(e)[k] \notin {Slash, Question, Hash, Esc}
         /\ TargetOf(e) \in Seq(Char \ {Question, Hash, Esc})
         /\ TargetOf(e) = <<>> \/ TargetOf(e)[1] = Slash
<1>1. /\ Path(e) \in Seq(Char)
      /\ \A k \in 1 .. Len(Path(e)) : Path(e)[k] \notin {Question, Hash, Esc}
  BY PathIs
<1>2. CASE Name(e) # <<>>
  <2>1. HostOf(e) = Decoded(Name(e)) /\ TargetOf(e) = Path(e)
    BY <1>2 DEF HostOf, TargetOf
  <2>2. Name(e) \in Seq(Char) /\ Authority(e) # <<>>
        /\ \A k \in 1 .. Len(Name(e)) : Name(e)[k] \notin {Slash, Question, Hash}
    BY <1>2, NameIs
  <2>3. HostOf(e) \in Seq(Char)
        /\ \A k \in 1 .. Len(HostOf(e)) : HostOf(e)[k] \notin {Slash, Question, Hash, Esc}
    BY <2>1, <2>2, DecodedIs, Distinct
  <2>4. Path(e) \in Seq(Char \ {Question, Hash, Esc})
    BY <1>1
  <2> QED
    BY <2>1, <2>2, <2>3, <2>4, PathIs
<1>3. CASE Name(e) = <<>>
  <2> DEFINE p == Path(e)
             n == First(p, {Slash})
  <2>1. HostOf(e) = UpTo(p, {Slash}) /\ TargetOf(e) = Behind(p, Len(HostOf(e)))
    BY <1>3 DEF HostOf, TargetOf
  <2>2. n \in 1 .. Len(p) + 1 /\ (n <= Len(p) => p[n] = Slash)
        /\ \A k \in 1 .. n - 1 : p[k] # Slash
    BY <1>1, FirstIs
  <2>3. Has(p, Slash)
    BY <1>3 DEF Locates
  <2>4. n <= Len(p)
    <3>1. PICK k \in 1 .. Len(p) : p[k] = Slash
      BY <2>3 DEF Has
    <3>2. k \notin 1 .. n - 1
      BY <2>2, <3>1
    <3> HIDE DEF n
    <3>3. n \in Int /\ k \in Int /\ k >= 1 /\ k <= Len(p) /\ Len(p) \in Int
      BY <1>1, <2>2
    <3> QED
      BY <3>2, <3>3
  <2>5. HostOf(e) \in Seq(Char) /\ Len(HostOf(e)) = n - 1
        /\ \A k \in 1 .. Len(HostOf(e)) : HostOf(e)[k] = p[k] /\ p[k] # Slash
    BY <1>1, <2>1, UpToIs
  <2> HIDE DEF n
  <2>6. n - 1 \in Nat /\ Len(p) \in Nat
    BY <1>1, <2>2
  <2>7. /\ TargetOf(e) \in Seq(Char) /\ Len(TargetOf(e)) = Len(p) - (n - 1)
        /\ \A k \in 1 .. Len(p) - (n - 1) : TargetOf(e)[k] = p[n - 1 + k]
    <3>1. PICK m \in Nat : m = n - 1
      BY <2>6
    <3>2. TargetOf(e) = Behind(p, m) /\ m <= Len(p)
      BY <2>1, <2>2, <2>4, <2>5, <2>6, <3>1
    <3> HIDE DEF p
    <3>3. /\ Behind(p, m) \in Seq(Char) /\ Len(Behind(p, m)) = Len(p) - m
          /\ \A k \in 1 .. Len(p) - m : Behind(p, m)[k] = p[m + k]
      BY <1>1, <3>2, BehindIs DEF p
    <3> QED
      BY <3>1, <3>2, <3>3
  <2>8. \A k \in 1 .. Len(p) - (n - 1) : n - 1 + k \in 1 .. Len(p)
    BY <2>2, <2>6
  <2>9. TargetOf(e) \in Seq(Char \ {Question, Hash, Esc})
    BY <1>1, <2>7, <2>8
  <2>10. TargetOf(e)[1] = Slash
    <3>1. 1 \in 1 .. Len(p) - (n - 1) /\ n - 1 + 1 = n
      BY <2>2, <2>4, <2>6
    <3> QED
      BY <2>2, <2>4, <2>7, <3>1
  <2>11. \A k \in 1 .. Len(HostOf(e)) : HostOf(e)[k] \notin {Slash, Question, Hash, Esc}
    <3>1. \A k \in 1 .. Len(HostOf(e)) : k \in 1 .. Len(p)
      BY <2>2, <2>5, <2>6
    <3> QED
      BY <1>1, <2>5, <3>1
  <2> QED
    BY <2>5, <2>9, <2>10, <2>11
<1> QED
  BY <1>2, <1>3
-----------------------------------------------------------------------------
(***************************************************************************)
(* What is pushed, and the invariant.                                      *)
(***************************************************************************)

\* An entry is the link, if that has a scheme, or it begins with the host.
MadeOf(h, t, link, e) ==
  \/ Absolute(link) /\ e = link /\ ~Has(link, Hash)
  \/ \E u \in Seq(Char) :
       /\ e = h \o u
       /\ t # <<>> => u # <<>> /\ u[1] = Slash
       /\ ~Has(link, Raw) /\ ~Has(t, Raw) => ~Has(u, Raw)
       /\ ~Has(t, Hash) => ~Has(u, Hash)

LEMMA PushedIs ==
  ASSUME NEW h \in Seq(Char), NEW t \in Seq(Char), t = <<>> \/ t[1] = Slash,
         NEW link \in Seq(Char), Entry(h, t, link) # <<>>
  PROVE  \E e \in Seq(Char) : Entry(h, t, link) = <<e>> /\ MadeOf(h, t, link, e)
<1>1. CASE Has(link, Hash)
  <2> DEFINE w == UpTo(link, {Hash})
             u == t \o w
  <2>1. /\ w \in Seq(Char) /\ Len(w) <= Len(link)
        /\ \A k \in 1 .. Len(w) : w[k] = link[k] /\ w[k] # Hash
    BY UpToIs
  <2>0. link[1] # Hash
    BY <1>1 DEF Entry
  <2> HIDE DEF w
  <2>2. u \in Seq(Char) /\ Len(u) = Len(t) + Len(w)
        /\ \A k \in 1 .. Len(u) : u[k] = IF k <= Len(t) THEN t[k]
                                         ELSE w[k - Len(t)]
    BY <2>1, ConcatProperties
  <2>3. Entry(h, t, link) = <<h \o t \o w>>
    BY <1>1, <2>0 DEF Entry, w
  <2>4. h \o t \o w = h \o u
    <3>1. (h \o t) \o w = h \o (t \o w)
      BY SMTT(30), <2>1, ConcatAssociative
    <3> QED
      BY <3>1
  <2>5. t # <<>> => u # <<>> /\ u[1] = Slash
    <3>1. HAVE t # <<>>
    <3>2. Len(t) \in Nat /\ Len(t) >= 1 /\ Len(w) \in Nat
      BY <2>1, <3>1
    <3>3. 1 \in 1 .. Len(u) /\ 1 <= Len(t)
      BY <2>2, <3>2
    <3>4. u[1] = t[1]
      BY <2>2, <3>3
    <3> QED
      BY <3>1, <3>3, <3>4
  <2>6. ~Has(link, Raw) /\ ~Has(t, Raw) => ~Has(u, Raw)
    <3> SUFFICES ASSUME ~Has(link, Raw), ~Has(t, Raw), NEW k \in 1 .. Len(u)
                 PROVE  u[k] # Raw
      BY DEF Has
    <3>1. Len(t) \in Nat /\ Len(w) \in Nat /\ Len(link) \in Nat
      BY <2>1
    <3> HIDE DEF u
    <3>2. CASE k <= Len(t)
      <4>1. k \in 1 .. Len(t) /\ u[k] = t[k]
        BY <2>2, <3>1, <3>2
      <4> QED
        BY <4>1 DEF Has
    <3>3. CASE k > Len(t)
      <4>1. k - Len(t) \in 1 .. Len(w) /\ u[k] = w[k - Len(t)]
        BY <2>2, <3>1, <3>3
      <4>2. k - Len(t) \in 1 .. Len(link) /\ w[k - Len(t)] = link[k - Len(t)]
        BY <2>1, <3>1, <4>1
      <4> QED
        BY <4>1, <4>2 DEF Has
    <3> QED
      BY <3>1, <3>2, <3>3
  <2>8. ~Has(t, Hash) => ~Has(u, Hash)
    <3> SUFFICES ASSUME ~Has(t, Hash), NEW k \in 1 .. Len(u) PROVE u[k] # Hash
      BY DEF Has
    <3>1. Len(t) \in Nat /\ Len(w) \in Nat
      BY <2>1
    <3> HIDE DEF u
    <3>2. CASE k <= Len(t)
      <4>1. k \in 1 .. Len(t) /\ u[k] = t[k]
        BY <2>2, <3>1, <3>2
      <4> QED
        BY <4>1 DEF Has
    <3>3. CASE k > Len(t)
      <4>1. k - Len(t) \in 1 .. Len(w) /\ u[k] = w[k - Len(t)]
        BY <2>2, <3>1, <3>3
      <4> QED
        BY <2>1, <4>1
    <3> QED
      BY <3>1, <3>2, <3>3
  <2> HIDE DEF u
  <2>7. h \o u \in Seq(Char)
    BY <2>2, ConcatProperties
  <2> QED
    BY <2>2, <2>3, <2>4, <2>5, <2>6, <2>7, <2>8 DEF MadeOf
<1>2. CASE ~Has(link, Hash) /\ StartsWith(link, <<Slash>>)
  <2>1. Entry(h, t, link) = <<h \o link>>
    BY <1>2, Zenon DEF Entry
  <2>2. link # <<>> /\ link[1] = Slash
    BY <1>2, StartsWithIs
  <2>3. h \o link \in Seq(Char)
    BY ConcatProperties
  <2> QED
    BY <1>2, <2>1, <2>2, <2>3 DEF MadeOf
<1>3. CASE ~Has(link, Hash) /\ ~StartsWith(link, <<Slash>>)
  <2>1. Absolute(link) /\ Entry(h, t, link) = <<link>>
    BY <1>3 DEF Entry
  <2> QED
    BY <1>3, <2>1 DEF MadeOf
<1> QED
  BY <1>1, <1>2, <1>3

LEMMA LinkAtIs ==
  ASSUME NEW s \in Seq(Char), NEW o \in 1 .. Len(s),
         o + First(Behind(s, o), {Quote, Open}) <= Len(s)
  PROVE  /\ LinkAt(s, o) \in Seq(Char)
         /\ First(Behind(s, o), {Quote, Open}) \in Nat \ {0}
<1>1. Behind(s, o) \in Seq(Char)
  BY BehindIs
<1>2. PICK n \in Nat \ {0} : n = First(Behind(s, o), {Quote, Open})
  BY <1>1, FirstIs
<1>3. PICK z \in Int : z = o + n - 1 /\ z < Len(s)
  BY <1>2
<1>4. SubSeq(s, o + 1, o + n - 1) \in Seq(Char)
  <2>1. \A k \in o + 1 .. z : s[k] \in Char
    BY <1>3
  <2>2. SubSeq(s, o + 1, z) \in Seq(Char)
    BY <2>1, SubSeqProperties
  <2> QED
    BY <1>3, <2>2
<1> DEFINE t == IF s[o + n] = Open THEN <<Raw>> ELSE <<>>
<1>5. t \in Seq(Char)
  BY MarksAreChars
<1>6. LinkAt(s, o) = SubSeq(s, o + 1, o + n - 1) \o t
  BY <1>2 DEF LinkAt
<1> HIDE DEF t
<1>7. SubSeq(s, o + 1, o + n - 1) \o t \in Seq(Char)
  BY <1>4, <1>5, ConcatProperties
<1> QED
  BY <1>2, <1>6, <1>7

\* The loop's match: a link begins and ends within what is left of the page.
LEMMA MatchIs ==
  ASSUME url_str \in Seq(Char), Matches
  PROVE  \E o \in 1 .. Len(url_str) :
           /\ o = First(url_str, {Open})
           /\ o + First(Behind(url_str, o), {Quote, Open}) <= Len(url_str)
<1>1. PICK o \in 1 .. Len(url_str) + 1 : o = First(url_str, {Open})
  BY FirstIs
<1>2. Behind(url_str, o) \in Seq(Char)
  BY BehindIs
<1>3. PICK n \in Nat \ {0} : n = First(Behind(url_str, o), {Quote, Open})
  BY <1>2, FirstIs
<1>4. n <= Len(url_str) - o
  BY <1>1, <1>3 DEF Matches
<1>5. Len(url_str) \in Nat
  OBVIOUS
<1> QED
  BY <1>1, <1>3, <1>4, <1>5

LEMMA LinksInit == Init => LinksInv
<1> SUFFICES ASSUME Init PROVE LinksInv
  OBVIOUS
<1>1. entry \in Seq(Char) /\ 0 \in 0 .. Depth
  BY LinksAssumption DEF Init
<1> QED
  BY <1>1 DEF Init, LinksInv, TypeOK

LEMMA HandleStep ==
  ASSUME LinksInv, HandleUrl
  PROVE  LinksInv'
<1>1. TypeOK /\ entry \in Seq(Char) /\ Locates(entry)
  BY DEF LinksInv, TypeOK, HandleUrl
<1>2. /\ host' \in Seq(Char)
      /\ \A k \in 1 .. Len(host') : host'[k] \notin {Slash, Question, Hash, Esc}
      /\ target' \in Seq(Char \ {Question, Hash, Esc})
      /\ target' = <<>> \/ target'[1] = Slash
  <2>1. host' = HostOf(entry) /\ target' = TargetOf(entry)
    BY DEF HandleUrl
  <2> QED
    BY <1>1, <2>1, HostAndTargetAre
<1>3. text' \in Seq(Char) /\ url_str' = text' /\ url_list' = <<>> /\ seen' = <<>>
      /\ pc' = "scan" /\ UNCHANGED <<entry, from, level>>
  BY LinksAssumption DEF HandleUrl
<1> QED
  BY <1>1, <1>2, <1>3 DEF LinksInv, TypeOK

LEMMA NextLinkStep ==
  ASSUME LinksInv, NextLink
  PROVE  LinksInv'
<1> DEFINE o == First(url_str, {Open})
           n == First(Behind(url_str, o), {Quote, Open})
           link == LinkAt(url_str, o)
           pushed == Entry(host, target, link)
           new == [k \in 1 .. Len(pushed) |-> [link |-> link, entry |-> pushed[k]]]
<1>1. TypeOK /\ url_str \in Seq(Char) /\ host \in Seq(Char) /\ target \in Seq(Char)
      /\ (target = <<>> \/ target[1] = Slash)
      /\ url_list \in Seq([link : Seq(Char), entry : Seq(Char)])
  BY DEF LinksInv, TypeOK
<1>2. /\ Matches /\ pc = "scan" /\ seen' = Append(seen, link) /\ url_list' = url_list \o new
      /\ url_str' = Behind(url_str, o + n)
      /\ UNCHANGED <<pc, entry, host, target, text, from, level>>
  BY DEF NextLink, Suffix
<1> HIDE DEF new, pushed, link, n, o
<1>3. o \in 1 .. Len(url_str) /\ o + n <= Len(url_str)
  BY <1>1, <1>2, MatchIs DEF n, o
<1>4. link \in Seq(Char) /\ n \in Nat \ {0}
  BY <1>1, <1>3, LinkAtIs DEF link, n
<1>5. url_str' \in Seq(Char)
  <2>1. o + n \in Nat
    BY <1>3, <1>4
  <2> QED
    BY <1>1, <1>2, <2>1, BehindIs
<1>6. \/ pushed = <<>> /\ url_list' = url_list
      \/ \E e \in Seq(Char) :
           pushed = <<e>> /\ url_list' = Append(url_list, [link |-> link, entry |-> e])
  <2>1. CASE pushed = <<>>
    <3>1. new = <<>>
      BY <2>1 DEF new
    <3> QED
      BY <1>1, <1>2, <2>1, <3>1
  <2>2. CASE pushed # <<>>
    <3>1. PICK e \in Seq(Char) : pushed = <<e>>
      BY <1>1, <1>4, <2>2, PushedIs DEF pushed
    <3>2. new = <<[link |-> link, entry |-> e]>>
      BY <3>1 DEF new
    <3> DEFINE r == [link |-> link, entry |-> e]
    <3>3. r \in [link : Seq(Char), entry : Seq(Char)]
      BY <1>4
    <3> HIDE DEF r
    <3>4. url_list \o <<r>> = Append(url_list, r)
      BY <1>1, <3>3
    <3> QED
      BY <1>2, <3>1, <3>2, <3>4 DEF r
  <2> QED
    BY <2>1, <2>2
<1>7. url_list' \in Seq([link : Seq(Char), entry : Seq(Char)])
  <2>1. ASSUME NEW e \in Seq(Char),
               url_list' = Append(url_list, [link |-> link, entry |-> e])
        PROVE  url_list' \in Seq([link : Seq(Char), entry : Seq(Char)])
    <3> DEFINE r == [link |-> link, entry |-> e]
    <3>1. r \in [link : Seq(Char), entry : Seq(Char)]
      BY <1>4
    <3> HIDE DEF r
    <3>2. Append(url_list, r) \in Seq([link : Seq(Char), entry : Seq(Char)])
      BY <1>1, <3>1
    <3> QED
      BY <2>1, <3>2 DEF r
  <2> QED
    BY <1>1, <1>6, <2>1
<1>8. seen' \in Seq(Seq(Char))
  BY <1>1, <1>2, <1>4 DEF TypeOK
<1>9. TypeOK'
  BY <1>1, <1>2, <1>5, <1>7, <1>8 DEF TypeOK
<1>10. ASSUME NEW k \in 1 .. Len(url_list')
       PROVE  Entry(host, target, url_list'[k].link) = <<url_list'[k].entry>>
  <2>1. CASE k \in 1 .. Len(url_list) /\ url_list'[k] = url_list[k]
    BY <2>1 DEF LinksInv
  <2>2. CASE k \notin 1 .. Len(url_list) \/ url_list'[k] # url_list[k]
    <3>1. PICK e \in Seq(Char) :
            pushed = <<e>> /\ url_list' = Append(url_list, [link |-> link, entry |-> e])
      BY <1>6, <2>2
    <3> DEFINE r == [link |-> link, entry |-> e]
    <3>2. r.link = link /\ r.entry = e
      OBVIOUS
    <3> HIDE DEF r
    <3>3. url_list' = Append(url_list, r)
      BY <3>1 DEF r
    <3>4. url_list'[k] = r
      BY <1>1, <2>2, <3>3
    <3> QED
      BY <3>1, <3>2, <3>4 DEF pushed
  <2> QED
    BY <2>1, <2>2
<1> QED
  BY <1>2, <1>9, <1>10 DEF LinksInv

LEMMA PopStep ==
  ASSUME LinksInv, Pop
  PROVE  LinksInv'
<1>1. TypeOK /\ host \in Seq(Char) /\ target \in Seq(Char)
      /\ url_list \in Seq([link : Seq(Char), entry : Seq(Char)])
  BY DEF LinksInv, TypeOK
<1>2. PICK k \in 1 .. Len(url_list) :
        /\ entry' = url_list[k].entry
        /\ from' = [host |-> host, target |-> target, link |-> url_list[k].link]
  BY DEF Pop
<1>3. /\ level' = level + 1 /\ pc = "next" /\ pc' = "fetch" /\ level < Depth
      /\ UNCHANGED <<host, target, text, url_str, url_list, seen>>
  BY DEF Pop
<1>4. url_list[k] \in [link : Seq(Char), entry : Seq(Char)]
  BY <1>1, ElementOfSeq, Zenon
<1>5. level' \in 0 .. Depth
  BY <1>1, <1>3, LinksAssumption DEF TypeOK
<1>6. entry' \in Seq(Char)
      /\ from' \in [host : Seq(Char), target : Seq(Char), link : Seq(Char)]
  BY <1>1, <1>2, <1>4
<1>7. TypeOK'
  BY <1>1, <1>3, <1>5, <1>6 DEF TypeOK
<1>8. from'.host = host /\ from'.target = target /\ from'.link = url_list[k].link
  BY <1>2
<1>9. Entry(host, target, url_list[k].link) = <<url_list[k].entry>>
  BY DEF LinksInv
<1>10. \A l \in 1 .. Len(url_list') :
         Entry(host', target', url_list'[l].link) = <<url_list'[l].entry>>
  BY <1>3 DEF LinksInv
<1>11. \A l \in 1 .. Len(host') : host'[l] \notin {Slash, Question, Hash, Esc}
  BY <1>3 DEF LinksInv
<1>12. Entry(host', target', from'.link) = <<entry'>>
  BY <1>2, <1>3, <1>8, <1>9
<1> QED
  BY <1>3, <1>7, <1>8, <1>10, <1>11, <1>12 DEF LinksInv

LEMMA LinksStep ==
  ASSUME LinksInv, [Next]_vars
  PROVE  LinksInv'
<1>1. CASE HandleUrl
  BY <1>1, HandleStep
<1>2. CASE NextLink
  BY <1>2, NextLinkStep
<1>3. CASE Pop
  BY <1>3, PopStep
<1>4. CASE HandleUrlThrows \/ EndScan \/ UNCHANGED vars
  <2>1. /\ UNCHANGED <<entry, host, target, text, url_str, url_list, seen, from, level>>
        /\ pc' \in {"fetch", "scan", "next", "thrown"} \/ pc' = pc
        /\ pc' \in {"fetch", "thrown"} => pc \in {"fetch", "thrown"}
        /\ pc' = "thrown" => ~Locates(entry)
    BY <1>4 DEF HandleUrlThrows, EndScan, vars, LinksInv
  <2>2. TypeOK'
    BY <2>1 DEF LinksInv, TypeOK
  <2> QED
    BY <2>1, <2>2 DEF LinksInv
<1> QED
  BY <1>1, <1>2, <1>3, <1>4 DEF Next
-----------------------------------------------------------------------------
(***************************************************************************)
(* Where an entry leads that begins with a host.                           *)
(***************************************************************************)

LEMMA BehindAll ==
  ASSUME NEW d \in Seq(Char), NEW e \in Seq(Char), NEW n \in Nat, Len(d) = n + Len(e),
         \A k \in 1 .. Len(e) : d[n + k] = e[k]
  PROVE  Behind(d, n) = e
<1>1. PICK m \in Nat : m = Len(e) /\ Len(d) = n + m
  OBVIOUS
<1>2. /\ Behind(d, n) \in Seq(Char) /\ Len(Behind(d, n)) = m
      /\ \A k \in 1 .. m : Behind(d, n)[k] = d[n + k]
  <2>1. Len(d) = n + m
    BY <1>1
  <2> QED
    BY ONLY <2>1, d \in Seq(Char), n \in Nat, m \in Nat, BehindPart
<1> QED
  BY <1>1, <1>2, SeqEqual

LEMMA ResultIs ==
  ASSUME NEW e \in Seq(Char)
  PROVE  /\ ResultLink(e) \in Seq(Char) /\ Len(ResultLink(e)) = 4 + Len(e)
         /\ ResultLink(e)[1] = Http /\ ResultLink(e)[2] = Colon
         /\ ResultLink(e)[3] = Slash /\ ResultLink(e)[4] = Slash
         /\ \A k \in 1 .. Len(e) : ResultLink(e)[4 + k] = e[k]
<1> DEFINE t == <<Http, Colon, Slash, Slash>>
<1>1. t \in Seq(Char) /\ Len(t) = 4
      /\ t[1] = Http /\ t[2] = Colon /\ t[3] = Slash /\ t[4] = Slash
  BY MarksAreChars
<1>2. ResultLink(e) = t \o e
  BY DEF ResultLink
<1> HIDE DEF t
<1>3. /\ t \o e \in Seq(Char) /\ Len(t \o e) = 4 + Len(e)
      /\ \A k \in 1 .. 4 + Len(e) : (t \o e)[k] = IF k <= 4 THEN t[k] ELSE e[k - 4]
  <2>1. /\ t \o e \in Seq(Char) /\ Len(t \o e) = Len(t) + Len(e)
        /\ \A k \in 1 .. Len(t) + Len(e) :
             (t \o e)[k] = IF k <= Len(t) THEN t[k] ELSE e[k - Len(t)]
    BY <1>1, ConcatProperties
  <2> QED
    BY <1>1, <2>1
<1>4. \A k \in 1 .. 4 : (t \o e)[k] = t[k]
  <2>1. \A k \in 1 .. 4 : k \in 1 .. 4 + Len(e) /\ k <= 4
    OBVIOUS
  <2> QED
    BY <1>3, <2>1
<1>5. ASSUME NEW k \in 1 .. Len(e) PROVE (t \o e)[4 + k] = e[k]
  <2>1. 4 + k \in 1 .. 4 + Len(e) /\ ~ 4 + k <= 4 /\ 4 + k - 4 = k
    OBVIOUS
  <2> QED
    BY <1>3, <2>1
<1> QED
  BY <1>1, <1>2, <1>3, <1>4, <1>5

\* A URL of scheme http or https and what follows its "http://".
LEMMA AbsoluteParts ==
  ASSUME NEW e \in Seq(Char), Absolute(e)
  PROVE  /\ HasScheme(e)
         /\ Scheme(e) \in Seq(Char) /\ Len(Scheme(e)) = 1 /\ Scheme(e)[1] = Http
         /\ Hier(e) \in Seq(Char) /\ Len(Hier(e)) + 2 = Len(e)
         /\ StartsWith(Hier(e), <<Slash, Slash>>)
<1>1. Len(e) >= 4 /\ e[1] = Http /\ e[2] = Colon /\ e[3] = Slash /\ e[4] = Slash
  BY AbsoluteIs
<1>2. ASSUME NEW cs, Colon \in cs, cs \subseteq {Colon, Slash, Question, Hash}
      PROVE  First(e, cs) = 1 + 1
  <2>1. \A k \in 1 .. 1 : e[k] \notin cs
    BY <1>1, <1>2, Distinct
  <2>2. 1 \in 0 .. Len(e) /\ e[1 + 1] \in cs
    BY <1>1, <1>2
  <2> QED
    BY <2>1, <2>2, FirstAfter
<1>3. First(e, {Colon, Slash, Question, Hash}) = 2 /\ First(e, {Colon}) = 1 + 1
  BY <1>2
<1>4. HasScheme(e)
  BY <1>1, <1>3 DEF HasScheme
<1>5. Scheme(e) \in Seq(Char) /\ Len(Scheme(e)) = 1 /\ Scheme(e)[1] = Http
  <2>1. Scheme(e) \in Seq(Char) /\ Len(Scheme(e)) = 1
        /\ \A k \in 1 .. 1 : Scheme(e)[k] = e[k]
    <3>1. 1 \in Nat
      OBVIOUS
    <3> QED
      BY <1>3, <3>1, UpToAfter, Zenon DEF Scheme
  <2>2. 1 \in 1 .. 1
    OBVIOUS
  <2> QED
    BY <1>1, <2>1, <2>2
<1>6. PICK n \in Nat, m \in Nat : n = 2 /\ Len(e) = n + m /\ m >= 2
  <2>1. Len(e) - 2 \in Nat /\ Len(e) = 2 + (Len(e) - 2) /\ Len(e) - 2 >= 2
    BY <1>1
  <2> QED
    BY <2>1
<1>7. Hier(e) = Behind(e, n)
  BY <1>3, <1>4, <1>6 DEF Hier
<1>8. Hier(e) \in Seq(Char) /\ Len(Hier(e)) = m /\ \A k \in 1 .. m : Hier(e)[k] = e[n + k]
  <2>1. /\ Behind(e, n) \in Seq(Char) /\ Len(Behind(e, n)) = m
        /\ \A k \in 1 .. m : Behind(e, n)[k] = e[n + k]
    BY <1>6, BehindPart, Zenon
  <2> QED
    BY <1>7, <2>1
<1>9. Hier(e)[1] = e[2 + 1] /\ Hier(e)[2] = e[2 + 2]
  <2>1. 1 \in 1 .. m /\ 2 \in 1 .. m
    BY <1>6
  <2> QED
    BY <1>6, <1>8, <2>1
<1>10. StartsWith(Hier(e), <<Slash, Slash>>)
  BY <1>1, <1>6, <1>8, <1>9, StartsWithIs
<1> QED
  BY <1>4, <1>5, <1>6, <1>8, <1>10

PlainHost(h) ==
  /\ h \in Seq(Char) /\ h # <<>>
  /\ \A k \in 1 .. Len(h) : h[k] \notin {Slash, Question, Hash, Esc, Colon}

LEMMA HostThenPath ==
  ASSUME NEW h, PlainHost(h), NEW u \in Seq(Char), u # <<>>, u[1] = Slash
  PROVE  /\ h \o u \in Seq(Char)
         /\ Len(h \o u) = Len(h) + Len(u)
         /\ Len(h) \in Nat \ {0} /\ Len(u) \in Nat \ {0}
         /\ \A k \in 1 .. Len(h) : (h \o u)[k] = h[k]
         /\ \A k \in 1 .. Len(u) : (h \o u)[Len(h) + k] = u[k]
         /\ \A cs : Slash \in cs /\ cs \subseteq {Slash, Question, Hash, Esc, Colon} =>
              First(h \o u, cs) = Len(h) + 1
<1> DEFINE e == h \o u
           n == Len(h) + 1
<1>1. h \in Seq(Char) /\ Len(h) \in Nat \ {0} /\ Len(u) \in Nat \ {0}
  BY DEF PlainHost
<1>2. /\ e \in Seq(Char) /\ Len(e) = Len(h) + Len(u)
      /\ \A k \in 1 .. Len(h) + Len(u) :
           e[k] = IF k <= Len(h) THEN h[k] ELSE u[k - Len(h)]
  BY <1>1, ConcatProperties
<1> HIDE DEF e
<1>3. \A k \in 1 .. Len(h) : e[k] = h[k]
  BY <1>1, <1>2
<1>4. ASSUME NEW k \in 1 .. Len(u) PROVE e[Len(h) + k] = u[k]
  <2>1. Len(h) + k \in 1 .. Len(h) + Len(u) /\ ~ Len(h) + k <= Len(h)
        /\ Len(h) + k - Len(h) = k
    BY <1>1
  <2> QED
    BY <1>2, <2>1
<1>5. ASSUME NEW cs, Slash \in cs, cs \subseteq {Slash, Question, Hash, Esc, Colon}
      PROVE  First(e, cs) = n
  <2>1. Len(h) \in 0 .. Len(e)
    BY <1>1, <1>2
  <2>2. \A k \in 1 .. Len(h) : e[k] \notin cs
    BY <1>1, <1>3, <1>5 DEF PlainHost
  <2>3. e[Len(h) + 1] = Slash
    <3>1. 1 \in 1 .. Len(u)
      BY <1>1
    <3> QED
      BY <1>4, <3>1
  <2> QED
    BY <1>2, <1>5, <2>1, <2>2, <2>3, FirstAfter
<1> QED
  BY <1>1, <1>2, <1>3, <1>4, <1>5 DEF e

\* An entry that begins with a host is one without scheme and authority: its
\* first segment is the host, and what follows, without its query, the target.
LEMMA HostFirst ==
  ASSUME NEW h, PlainHost(h), NEW u \in Seq(Char), u # <<>>, u[1] = Slash
  PROVE  /\ ~HasScheme(h \o u)
         /\ Authority(h \o u) = <<>>
         /\ HostOf(h \o u) = h
         /\ TargetOf(h \o u) = Decoded(UpTo(u, {Question, Hash}))
         /\ Has(Path(h \o u), Slash)
<1> DEFINE e == h \o u
           a == Len(h)
<1>1. /\ e \in Seq(Char) /\ Len(e) = a + Len(u)
      /\ a \in Nat \ {0} /\ Len(u) \in Nat \ {0} /\ h \in Seq(Char)
      /\ \A k \in 1 .. a : e[k] = h[k]
      /\ \A k \in 1 .. Len(u) : e[a + k] = u[k]
  BY HostThenPath DEF PlainHost
<1>2. \A cs : Slash \in cs /\ cs \subseteq {Slash, Question, Hash, Esc, Colon} => First(e, cs) = a + 1
  BY HostThenPath
<1>3. \A k \in 1 .. a : e[k] \notin {Slash, Question, Hash, Esc, Colon}
  BY <1>1 DEF PlainHost
<1> HIDE DEF e, a
<1>4. e[a + 1] = Slash /\ a + 1 <= Len(e)
  <2>1. 1 \in 1 .. Len(u)
    BY <1>1
  <2> QED
    BY <1>1, <2>1
<1>5. ~HasScheme(e)
  <2>1. First(e, {Colon, Slash, Question, Hash}) = a + 1
    BY <1>2
  <2> QED
    BY <1>4, <2>1, Distinct DEF HasScheme
<1>6. Hier(e) = e
  BY <1>5 DEF Hier
<1>7. ~StartsWith(Hier(e), <<Slash, Slash>>)
  <2>1. 1 \in 1 .. a
    BY <1>1
  <2> QED
    BY <1>1, <1>3, <1>6, <2>1, StartsWithIs
<1>8. Authority(e) = <<>> /\ Rest(e) = e
  BY <1>6, <1>7 DEF Authority, Rest
<1> DEFINE q == First(u, {Question, Hash})
           p == Path(e)
           t == Decoded(UpTo(u, {Question, Hash}))
<1>9. q \in 2 .. Len(u) + 1 /\ First(e, {Question, Hash}) = a + q
  <2>1. /\ q \in 1 .. Len(u) + 1 /\ (q <= Len(u) => u[q] \in {Question, Hash})
        /\ \A k \in 1 .. q - 1 : u[k] \notin {Question, Hash}
    BY FirstIs
  <2>2. q # 1
    BY <1>1, <2>1, Distinct
  <2> HIDE DEF q
  <2>3. PICK m \in Nat : m = a + q - 1
    BY <1>1, <2>1
  <2>4. ASSUME NEW k \in 1 .. m PROVE e[k] \notin {Question, Hash}
    <3>1. CASE k <= a
      BY <1>1, <1>3, <3>1
    <3>2. CASE k > a
      <4>1. k - a \in 1 .. q - 1 /\ k - a \in 1 .. Len(u) /\ a + (k - a) = k
        BY <1>1, <2>1, <2>3, <3>2
      <4> QED
        BY <1>1, <2>1, <4>1
    <3> QED
      BY <1>1, <2>1, <3>1, <3>2
  <2>5. m < Len(e) => e[m + 1] \in {Question, Hash}
    <3>1. HAVE m < Len(e)
    <3>2. q \in 1 .. Len(u) /\ m + 1 = a + q
      BY <1>1, <2>1, <2>3, <3>1
    <3>3. e[a + q] = u[q]
      BY <1>1, <3>2
    <3> QED
      BY <2>1, <3>2, <3>3
  <2>6. m \in 0 .. Len(e)
    BY <1>1, <2>1, <2>3
  <2>7. First(e, {Question, Hash}) = m + 1
    BY <1>1, <2>4, <2>5, <2>6, FirstAfter
  <2>8. m + 1 = a + q
    BY <1>1, <2>1, <2>3
  <2> QED
    BY <2>1, <2>2, <2>7, <2>8
<1>10. /\ p \in Seq(Char) /\ Len(p) = a + q - 1
       /\ \A k \in 1 .. a + q - 1 : p[k] = IF e[k] = Esc THEN Raw ELSE e[k]
  <2>1. p = Decoded(UpTo(e, {Question, Hash}))
    BY <1>1, <1>8, PathIs
  <2>2. /\ p \in Seq(Char) /\ Len(p) = First(e, {Question, Hash}) - 1
        /\ \A k \in 1 .. First(e, {Question, Hash}) - 1 : p[k] = IF e[k] = Esc THEN Raw ELSE e[k]
    BY <1>1, <2>1, CutDecoded
  <2> HIDE DEF q, p
  <2>3. PICK m \in Nat : m = a + q
    BY <1>1, <1>9
  <2>4. First(e, {Question, Hash}) - 1 = m - 1 /\ a + q - 1 = m - 1
    BY <1>1, <1>9, <2>3
  <2> QED
    BY <2>2, <2>4
<1>11. /\ t \in Seq(Char) /\ Len(t) = q - 1
       /\ \A k \in 1 .. q - 1 : t[k] = IF u[k] = Esc THEN Raw ELSE u[k]
  BY <1>9, CutDecoded
<1> HIDE DEF p, t, q
<1>12. \A k \in 1 .. a : p[k] = h[k] /\ p[k] # Slash
  <2>1. \A k \in 1 .. a : k \in 1 .. a + q - 1
    BY <1>1, <1>9
  <2> QED
    BY <1>1, <1>3, <1>10, <2>1
<1>13. p[a + 1] = Slash /\ a + 1 \in 1 .. Len(p)
  <2>1. a + 1 \in 1 .. a + q - 1
    BY <1>1, <1>9
  <2> QED
    BY <1>4, <1>10, <2>1, Distinct
<1>14. First(p, {Slash}) = a + 1
  <2>1. \A k \in 1 .. a : p[k] \notin {Slash}
    BY <1>12
  <2>2. a \in 0 .. Len(p)
    BY <1>1, <1>10, <1>13
  <2> QED
    BY <1>10, <1>13, <2>1, <2>2, FirstAfter
<1>0. Name(e) = <<>>
  BY <1>1, <1>8, NoAuthority
<1>15. HostOf(e) = h
  <2>1. HostOf(e) = UpTo(p, {Slash})
    BY <1>0 DEF HostOf, p
  <2>2. /\ UpTo(p, {Slash}) \in Seq(Char) /\ Len(UpTo(p, {Slash})) = a
        /\ \A k \in 1 .. a : UpTo(p, {Slash})[k] = p[k]
    <3>1. PICK cs : cs = {Slash}
      OBVIOUS
    <3>2. a \in Nat /\ First(p, cs) = a + 1
      BY <1>1, <1>14, <3>1
    <3>3. /\ UpTo(p, cs) \in Seq(Char) /\ Len(UpTo(p, cs)) = a
          /\ \A k \in 1 .. a : UpTo(p, cs)[k] = p[k]
      BY <1>10, <3>2, UpToAfter
    <3> QED
      BY <3>1, <3>3
  <2>3. Len(h) = a /\ \A k \in 1 .. a : UpTo(p, {Slash})[k] = h[k]
    BY <1>12, <2>2 DEF a
  <2> QED
    BY <1>1, <2>1, <2>2, <2>3, SeqEqual
<1>16. TargetOf(e) = t
  <2>1. TargetOf(e) = Behind(p, a)
    BY <1>0, <1>15 DEF TargetOf, p, a
  <2>2. a \in Nat /\ a <= Len(p) /\ Len(p) - a = q - 1
    BY <1>1, <1>9, <1>10
  <2>3. /\ Behind(p, a) \in Seq(Char) /\ Len(Behind(p, a)) = q - 1
        /\ \A k \in 1 .. q - 1 : Behind(p, a)[k] = p[a + k]
    <3>1. /\ Behind(p, a) \in Seq(Char) /\ Len(Behind(p, a)) = Len(p) - a
          /\ \A k \in 1 .. Len(p) - a : Behind(p, a)[k] = p[a + k]
      BY <1>10, <2>2, BehindIs
    <3> QED
      BY <2>2, <3>1
  <2>4. ASSUME NEW k \in 1 .. q - 1 PROVE p[a + k] = t[k]
    <3>1. k \in 1 .. Len(u) /\ a + k \in 1 .. a + q - 1
      BY <1>1, <1>9
    <3>2. e[a + k] = u[k]
      BY <1>1, <3>1
    <3> QED
      BY <1>10, <1>11, <3>1, <3>2
  <2> QED
    BY <1>11, <2>1, <2>3, <2>4, SeqEqual
<1>17. Has(p, Slash)
  BY <1>13 DEF Has
<1> QED
  BY <1>5, <1>8, <1>15, <1>16, <1>17 DEF e, p, t

-----------------------------------------------------------------------------
(***************************************************************************)
(* Where a browser goes for a result.                                      *)
(***************************************************************************)

LEMMA ResultHead ==
  ASSUME NEW e \in Seq(Char)
  PROVE  Absolute(ResultLink(e)) /\ Behind(ResultLink(e), 4) = e
<1> DEFINE r == ResultLink(e)
<1>1. /\ r \in Seq(Char) /\ Len(r) = 4 + Len(e)
      /\ r[1] = Http /\ r[2] = Colon /\ r[3] = Slash /\ r[4] = Slash
      /\ \A k \in 1 .. Len(e) : r[4 + k] = e[k]
  BY ResultIs
<1> HIDE DEF r
<1>2. Absolute(r)
  BY <1>1, AbsoluteIs
<1>3. PICK n \in Nat : n = 4
  OBVIOUS
<1>4. Behind(r, n) = e
  BY <1>1, <1>3, BehindAll
<1> QED
  BY <1>2, <1>3, <1>4 DEF r

\* What follows the first n + 1 characters of an entry, in its result.
LEMMA ResultTail ==
  ASSUME NEW e \in Seq(Char), NEW n \in Nat, NEW t \in Seq(Char), Len(e) = n + Len(t),
         \A k \in 1 .. Len(t) : e[n + k] = t[k]
  PROVE  Behind(ResultLink(e), 3 + (n + 1)) = t
<1> DEFINE r == ResultLink(e)
<1>1. r \in Seq(Char) /\ Len(r) = 4 + Len(e) /\ \A k \in 1 .. Len(e) : r[4 + k] = e[k]
  BY ResultIs
<1> HIDE DEF r
<1>2. PICK m \in Nat : m = 3 + (n + 1)
  OBVIOUS
<1>3. Len(r) = m + Len(t)
  BY <1>1, <1>2
<1>4. ASSUME NEW k \in 1 .. Len(t) PROVE r[m + k] = t[k]
  <2>1. n + k \in 1 .. Len(e) /\ m + k = 4 + (n + k)
    BY <1>2
  <2> QED
    BY <1>1, <2>1
<1>5. Behind(r, m) = t
  BY <1>1, <1>3, <1>4, BehindAll
<1> QED
  BY <1>2, <1>5 DEF r

LEMMA NoHash ==
  ASSUME NEW s \in Seq(Char), ~Has(s, Hash)
  PROVE  UpTo(s, {Hash}) = s
<1>1. \A k \in 1 .. Len(s) : s[k] \notin {Hash}
  BY DEF Has
<1>2. PICK n \in Nat : n = Len(s)
  OBVIOUS
<1>3. First(s, {Hash}) = n + 1
  BY <1>1, <1>2, FirstAfter
<1> DEFINE u == UpTo(s, {Hash})
<1>4. u \in Seq(Char) /\ Len(u) = n /\ \A k \in 1 .. n : u[k] = s[k]
  BY <1>3, UpToAfter
<1> HIDE DEF u
<1>5. u = s
  BY <1>2, <1>4, SeqEqual
<1> QED
  BY <1>5 DEF u

\* For an entry that begins with a host it asks that host, for all that follows.
LEMMA BrowserOfHost ==
  ASSUME NEW h, PlainHost(h), NEW u \in Seq(Char), u # <<>>, u[1] = Slash, ~Has(u, Hash)
  PROVE  /\ BrowserHost(ResultLink(h \o u)) = h
         /\ BrowserTarget(ResultLink(h \o u)) = u
<1> DEFINE e == h \o u
           r == ResultLink(e)
           a == Len(h)
<1>1. /\ e \in Seq(Char) /\ Len(e) = a + Len(u)
      /\ a \in Nat \ {0} /\ Len(u) \in Nat \ {0} /\ h \in Seq(Char)
      /\ \A k \in 1 .. a : e[k] = h[k]
      /\ \A k \in 1 .. Len(u) : e[a + k] = u[k]
  BY HostThenPath DEF PlainHost
<1>2. /\ First(e, {Colon, Slash, Question, Hash}) = a + 1
      /\ First(e, {Slash, Question, Hash}) = a + 1
  BY HostThenPath
<1> HIDE DEF e, a
<1>3. Absolute(r) /\ Behind(r, 4) = e /\ Behind(r, 3 + (a + 1)) = u
  BY <1>1, ResultHead, ResultTail
<1> HIDE DEF r
<1>4. BrowserHost(r) = h
  <2> DEFINE cs == {Colon, Slash, Question, Hash}
  <2>1. BrowserHost(r) = UpTo(e, cs)
    BY <1>3 DEF BrowserHost
  <2>2. First(e, cs) = a + 1
    BY <1>2
  <2> HIDE DEF cs
  <2>3. UpTo(e, cs) \in Seq(Char) /\ Len(UpTo(e, cs)) = a
        /\ \A k \in 1 .. a : UpTo(e, cs)[k] = e[k]
    BY ZenonT(60), <1>1, <2>2, UpToAfter
  <2>4. \A k \in 1 .. a : UpTo(e, cs)[k] = h[k]
    BY <1>1, <2>3
  <2> QED
    BY <1>1, <2>1, <2>3, <2>4, SeqEqual DEF a
<1>5. BrowserTarget(r) = u
  <2>1. UpTo(u, {Hash}) = u
    BY NoHash
  <2>2. StartsWith(u, <<Slash>>)
    BY <1>1, StartsWithIs
  <2> QED
    BY <1>2, <1>3, <2>1, <2>2 DEF BrowserTarget
<1> QED
  BY <1>4, <1>5 DEF r, e

\* That is what was fetched if nothing of it was cut off or decoded.
LEMMA FetchedAsIs ==
  ASSUME NEW u \in Seq(Char), ~Has(u, Hash)
  PROVE  Decoded(UpTo(u, {Question, Hash})) = u <=> ~Has(u, Question) /\ ~Has(u, Esc)
<1> DEFINE cs == {Question, Hash}
           v == Decoded(UpTo(u, cs))
<1>1. /\ v \in Seq(Char) /\ Len(v) = First(u, cs) - 1
      /\ \A k \in 1 .. First(u, cs) - 1 :
           v[k] = (IF u[k] = Esc THEN Raw ELSE u[k]) /\ v[k] \notin {Question, Hash, Esc}
  BY CutDecoded
<1> HIDE DEF v
<1>2. ASSUME v = u PROVE ~Has(u, Question) /\ ~Has(u, Esc)
  <2>1. \A k \in 1 .. Len(v) : v[k] \notin {Question, Hash, Esc}
    BY <1>1
  <2> QED
    BY <1>2, <2>1 DEF Has
<1>3. ASSUME ~Has(u, Question), ~Has(u, Esc) PROVE v = u
  <2>1. \A k \in 1 .. Len(u) : u[k] \notin cs /\ u[k] # Esc
    BY <1>3 DEF Has
  <2>2. PICK n \in Nat : n = Len(u)
    OBVIOUS
  <2> HIDE DEF cs
  <2>3. First(u, cs) = n + 1
    BY <2>1, <2>2, FirstAfter
  <2>4. Len(v) = n /\ \A k \in 1 .. n : v[k] = u[k]
    <3>1. n + 1 - 1 = n
      OBVIOUS
    <3> QED
      BY <1>1, <2>1, <2>2, <2>3, <3>1
  <2> QED
    BY <1>1, <2>2, <2>4, SeqEqual
<1> QED
  BY <1>2, <1>3 DEF v, cs

\* For an entry with a scheme it asks a host "http" for all from the "//" on,
\* more than the entry's own target.
LEMMA BrowserOfAbsolute ==
  ASSUME NEW e \in Seq(Char), Absolute(e), ~Has(e, Hash)
  PROVE  Len(BrowserTarget(ResultLink(e))) + 2 >= Len(e)
<1> DEFINE r == ResultLink(e)
<1>1. Len(e) >= 4 /\ e[1] = Http /\ e[2] = Colon /\ e[3] = Slash /\ e[4] = Slash
  BY AbsoluteIs
<1>2. First(e, {Slash, Question, Hash}) = 2 + 1
  <2>1. \A k \in 1 .. 2 : e[k] \notin {Slash, Question, Hash}
    <3>1. \A k \in 1 .. 2 : k = 1 \/ k = 2
      OBVIOUS
    <3> QED
      BY <1>1, <3>1, Distinct
  <2>2. 2 \in 0 .. Len(e) /\ e[2 + 1] \in {Slash, Question, Hash}
    BY <1>1
  <2> QED
    BY <2>1, <2>2, FirstAfter
<1>3. PICK n \in Nat, m \in Nat : n = 2 /\ Len(e) = n + m
  <2>1. Len(e) - 2 \in Nat /\ Len(e) = 2 + (Len(e) - 2)
    BY <1>1
  <2> QED
    BY <2>1
<1> DEFINE t == Behind(e, n)
<1>4. t \in Seq(Char) /\ Len(t) = m /\ \A k \in 1 .. m : t[k] = e[n + k]
  BY <1>3, BehindPart
<1> HIDE DEF t
<1>5. Behind(r, 3 + (n + 1)) = t
  BY <1>3, <1>4, ResultTail
<1>6. Behind(r, 4) = e
  BY ResultHead
<1> HIDE DEF r
<1>7. UpTo(t, {Hash}) = t
  <2>1. \A k \in 1 .. m : n + k \in 1 .. Len(e)
    BY <1>3
  <2>2. ~Has(t, Hash)
    BY <1>4, <2>1 DEF Has
  <2> QED
    BY <1>4, <2>2, NoHash
<1>8. BrowserTarget(r) = t \/ BrowserTarget(r) = <<Slash>> \o t
  BY <1>2, <1>3, <1>5, <1>6, <1>7 DEF BrowserTarget
<1>9. Len(<<Slash>> \o t) = 1 + m
  <2>1. <<Slash>> \in Seq(Char) /\ Len(<<Slash>>) = 1
    BY MarksAreChars
  <2> QED
    BY <1>4, <2>1, ConcatProperties
<1> QED
  BY <1>3, <1>4, <1>8, <1>9 DEF r

LEMMA TargetOfAbsolute ==
  ASSUME NEW e \in Seq(Char), Absolute(e), Locates(e)
  PROVE  Len(TargetOf(e)) + 4 <= Len(e)
<1>1. /\ Hier(e) \in Seq(Char) /\ Len(Hier(e)) + 2 = Len(e)
      /\ StartsWith(Hier(e), <<Slash, Slash>>)
  BY AbsoluteParts
<1>2. Len(Hier(e)) >= 2
  BY <1>1, StartsWithIs
<1>3. PICK n \in Nat : n = 2 + Len(Authority(e))
  BY AuthorityIs
<1>4. Rest(e) = Behind(Hier(e), n) /\ n >= 2
  <2>1. Len(Authority(e)) \in Nat
    BY AuthorityIs
  <2> QED
    BY <1>1, <1>3, <2>1 DEF Rest
<1>5. Rest(e) \in Seq(Char) /\ Len(Rest(e)) + 2 <= Len(Hier(e))
  <2>1. Rest(e) \in Seq(Char)
    BY <1>1, <1>4, BehindIs
  <2>2. /\ n <= Len(Hier(e)) => Len(Rest(e)) = Len(Hier(e)) - n
        /\ n > Len(Hier(e)) => Len(Rest(e)) = 0
    BY <1>1, <1>4, BehindIs
  <2>3. Len(Hier(e)) \in Nat
    BY <1>1
  <2> QED
    BY <1>2, <1>4, <2>1, <2>2, <2>3
<1>6. Path(e) \in Seq(Char) /\ Len(Path(e)) <= Len(Rest(e))
  <2>1. Path(e) = Decoded(UpTo(Rest(e), {Question, Hash})) /\ Path(e) \in Seq(Char)
    BY PathIs
  <2>2. Len(Path(e)) = First(Rest(e), {Question, Hash}) - 1
    BY <1>5, <2>1, CutDecoded
  <2>3. First(Rest(e), {Question, Hash}) \in 1 .. Len(Rest(e)) + 1
    BY <1>5, FirstIs
  <2> QED
    BY <1>5, <2>1, <2>2, <2>3
<1>7. Len(TargetOf(e)) <= Len(Path(e))
  <2>1. CASE Name(e) # <<>>
    BY <1>6, <2>1 DEF TargetOf
  <2>2. CASE Name(e) = <<>>
    <3>1. PICK k \in Nat : k = Len(HostOf(e))
      BY HostAndTargetAre
    <3>2. TargetOf(e) = Behind(Path(e), k)
      BY <2>2, <3>1 DEF TargetOf
    <3>3. Len(Behind(Path(e), k)) <= Len(Path(e))
      BY <1>6, BehindShort
    <3> QED
      BY <3>2, <3>3
  <2> QED
    BY <2>1, <2>2
<1>8. Len(TargetOf(e)) \in Nat
  <2>1. TargetOf(e) \in Seq(Char \ {Question, Hash, Esc})
    BY HostAndTargetAre
  <2> QED
    BY <2>1
<1> QED
  BY <1>1, <1>5, <1>6, <1>7, <1>8

-----------------------------------------------------------------------------
(***************************************************************************)
(* What the invariant implies.                                             *)
(***************************************************************************)

LEMMA PlacedIs ==
  ASSUME LinksInv, Placed
  PROVE  PlainHost(host)
BY DEF LinksInv, TypeOK, Placed, PlainHost, Has

LEMMA HostIsNoScheme ==
  ASSUME NEW h, PlainHost(h), NEW u \in Seq(Char), u # <<>>, u[1] = Slash
  PROVE  ~Absolute(h \o u)
<1> DEFINE e == h \o u
           a == Len(h)
<1>1. /\ e \in Seq(Char) /\ a \in Nat \ {0} /\ Len(u) \in Nat \ {0}
      /\ \A k \in 1 .. a : e[k] = h[k]
      /\ \A k \in 1 .. Len(u) : e[a + k] = u[k]
  BY HostThenPath
<1>2. \A k \in 1 .. a : e[k] # Colon
  BY <1>1 DEF PlainHost
<1> HIDE DEF e, a
<1>3. e[2] # Colon
  <2>1. CASE a = 1
    <3>1. 1 \in 1 .. Len(u) /\ a + 1 = 2
      BY <1>1, <2>1
    <3> QED
      BY <1>1, <3>1, Distinct
  <2>2. CASE a # 1
    BY <1>1, <1>2, <2>2
  <2> QED
    BY <2>1, <2>2
<1> QED
  BY <1>1, <1>3, AbsoluteIs DEF e

\* What was pushed on a page that has its place.
LEMMA PlacedPushes ==
  ASSUME LinksInv, Placed, NEW link \in Seq(Char), NEW e,
         Entry(host, target, link) = <<e>>
  PROVE  \/ Absolute(link) /\ e = link /\ ~Has(e, Hash)
         \/ \E u \in Seq(Char) :
              /\ e = host \o u /\ u # <<>> /\ u[1] = Slash /\ ~Has(u, Hash)
              /\ ~Has(link, Raw) /\ ~Has(target, Raw) => ~Has(u, Raw)
<1>1. host \in Seq(Char) /\ target \in Seq(Char) /\ target # <<>>
      /\ (target = <<>> \/ target[1] = Slash) /\ ~Has(target, Hash)
  BY DEF LinksInv, TypeOK, Placed, Has
<1>2. PICK f \in Seq(Char) :
        Entry(host, target, link) = <<f>> /\ MadeOf(host, target, link, f)
  <2>1. Entry(host, target, link) # <<>>
    OBVIOUS
  <2> QED
    BY <1>1, <2>1, PushedIs
<1>3. f = e
  <2>1. <<f>> = <<e>>
    BY <1>2
  <2> QED
    BY <2>1
<1> QED
  BY <1>1, <1>2, <1>3 DEF MadeOf

LEMMA ListedIs ==
  ASSUME LinksInv, NEW k \in 1 .. Len(url_list)
  PROVE  /\ url_list[k].link \in Seq(Char)
         /\ Entry(host, target, url_list[k].link) = <<url_list[k].entry>>
<1>1. url_list \in Seq([link : Seq(Char), entry : Seq(Char)])
  BY DEF LinksInv, TypeOK
<1>2. url_list[k] \in [link : Seq(Char), entry : Seq(Char)]
  BY <1>1, ElementOfSeq, Zenon
<1>3. Entry(host, target, url_list[k].link) = <<url_list[k].entry>>
  BY DEF LinksInv
<1> QED
  BY <1>2, <1>3

LEMMA StaysImplied == LinksInv => StaysOnHost
<1> SUFFICES ASSUME LinksInv, Placed, NEW k \in 1 .. Len(url_list),
                    ~Absolute(url_list[k].link)
             PROVE  HostOf(url_list[k].entry) = host
  BY DEF StaysOnHost
<1>1. url_list[k].link \in Seq(Char)
      /\ Entry(host, target, url_list[k].link) = <<url_list[k].entry>>
  BY ListedIs
<1>2. PICK u \in Seq(Char) : url_list[k].entry = host \o u /\ u # <<>> /\ u[1] = Slash
  BY <1>1, PlacedPushes
<1> QED
  BY <1>2, PlacedIs, HostFirst

LEMMA HostHas ==
  ASSUME NEW h, PlainHost(h), NEW u \in Seq(Char), u # <<>>, u[1] = Slash, NEW x
  PROVE  Has(h \o u, x) <=> Has(h, x) \/ Has(u, x)
<1> DEFINE e == h \o u
           a == Len(h)
<1>1. /\ Len(e) = a + Len(u) /\ a \in Nat /\ Len(u) \in Nat
      /\ \A k \in 1 .. a : e[k] = h[k]
      /\ \A k \in 1 .. Len(u) : e[a + k] = u[k]
  BY HostThenPath
<1> HIDE DEF e, a
<1>2. ASSUME NEW k \in 1 .. a, h[k] = x PROVE Has(e, x)
  <2>1. k \in 1 .. Len(e)
    BY <1>1
  <2> QED
    BY <1>1, <1>2, <2>1 DEF Has
<1>3. ASSUME NEW k \in 1 .. Len(u), u[k] = x PROVE Has(e, x)
  <2>1. a + k \in 1 .. Len(e)
    BY <1>1
  <2> QED
    BY <1>1, <1>3, <2>1 DEF Has
<1>4. ASSUME NEW k \in 1 .. Len(e), e[k] = x PROVE Has(h, x) \/ Has(u, x)
  <2>1. CASE k <= a
    <3>1. k \in 1 .. a
      BY <1>1, <2>1
    <3> QED
      BY <1>1, <1>4, <3>1 DEF Has, a
  <2>2. CASE k > a
    <3>1. k - a \in 1 .. Len(u) /\ a + (k - a) = k
      BY <1>1, <2>2
    <3>2. u[k - a] = e[k]
      BY <1>1, <3>1
    <3> QED
      BY <1>4, <3>1, <3>2 DEF Has
  <2> QED
    BY <1>1, <2>1, <2>2
<1> QED
  BY <1>2, <1>3, <1>4 DEF Has, e, a

LEMMA ResultsImplied == LinksInv => ResultsLeadThere
<1> SUFFICES ASSUME LinksInv, Placed, NEW k \in 1 .. Len(url_list),
                    Locates(url_list[k].entry)
             PROVE  LET e == url_list[k].entry
                        r == ResultLink(e)
                    IN  BrowserHost(r) = HostOf(e) /\ BrowserTarget(r) = TargetOf(e)
                          <=> ~Absolute(e) /\ ~Has(e, Question) /\ ~Has(e, Esc)
  BY DEF ResultsLeadThere
<1> DEFINE link == url_list[k].link
           e == url_list[k].entry
<1>1. link \in Seq(Char) /\ Entry(host, target, link) = <<e>> /\ Locates(e)
  BY ListedIs
<1> HIDE DEF link, e
<1>2. CASE Absolute(link) /\ e = link /\ ~Has(e, Hash)
  <2>1. Len(BrowserTarget(ResultLink(e))) + 2 >= Len(e)
    BY <1>1, <1>2, BrowserOfAbsolute
  <2>2. Len(TargetOf(e)) + 4 <= Len(e)
    BY <1>1, <1>2, TargetOfAbsolute
  <2>3. Len(TargetOf(e)) \in Nat /\ Len(e) \in Nat
    <3>1. TargetOf(e) \in Seq(Char \ {Question, Hash, Esc})
      BY <1>1, <1>2, HostAndTargetAre
    <3> QED
      BY <1>1, <1>2, <3>1
  <2>4. BrowserTarget(ResultLink(e)) # TargetOf(e)
    BY <2>1, <2>2, <2>3
  <2> QED
    BY <1>2, <2>4 DEF e
<1>3. ASSUME NEW u \in Seq(Char), e = host \o u, u # <<>>, u[1] = Slash, ~Has(u, Hash)
      PROVE  /\ ~Absolute(e)
             /\ BrowserHost(ResultLink(e)) = HostOf(e)
             /\ BrowserTarget(ResultLink(e)) = TargetOf(e)
                  <=> ~Has(e, Question) /\ ~Has(e, Esc)
  <2>1. PlainHost(host)
    BY PlacedIs
  <2>2. ~Absolute(e) /\ BrowserHost(ResultLink(e)) = HostOf(e)
    BY <1>3, <2>1, HostIsNoScheme, HostFirst, BrowserOfHost
  <2>3. /\ BrowserTarget(ResultLink(e)) = u
        /\ TargetOf(e) = Decoded(UpTo(u, {Question, Hash}))
    BY <1>3, <2>1, HostFirst, BrowserOfHost
  <2>4. Decoded(UpTo(u, {Question, Hash})) = u <=> ~Has(u, Question) /\ ~Has(u, Esc)
    BY <1>3, FetchedAsIs
  <2>5. /\ Has(e, Question) <=> Has(u, Question)
        /\ Has(e, Esc) <=> Has(u, Esc)
    <3>1. ~Has(host, Question) /\ ~Has(host, Esc)
      BY <2>1 DEF PlainHost, Has
    <3>2. \A x : Has(e, x) <=> Has(host, x) \/ Has(u, x)
      BY <1>3, <2>1, HostHas
    <3> QED
      BY <3>1, <3>2
  <2> QED
    BY <2>2, <2>3, <2>4, <2>5
<1>4. \/ Absolute(link) /\ e = link /\ ~Has(e, Hash)
      \/ \E u \in Seq(Char) : e = host \o u /\ u # <<>> /\ u[1] = Slash /\ ~Has(u, Hash)
  BY <1>1, PlacedPushes
<1>5. CASE \E u \in Seq(Char) : e = host \o u /\ u # <<>> /\ u[1] = Slash /\ ~Has(u, Hash)
  <2>1. PICK u \in Seq(Char) : e = host \o u /\ u # <<>> /\ u[1] = Slash /\ ~Has(u, Hash)
    BY <1>5
  <2>2. /\ ~Absolute(e)
        /\ BrowserHost(ResultLink(e)) = HostOf(e)
        /\ BrowserTarget(ResultLink(e)) = TargetOf(e) <=> ~Has(e, Question) /\ ~Has(e, Esc)
    BY <1>3, <2>1
  <2> QED
    BY <2>2 DEF e
<1> QED
  BY <1>2, <1>4, <1>5

OneHash(e) == ~Has(Behind(e, First(e, {Hash})), Hash)

LEMMA NoHashIsOne ==
  ASSUME NEW e \in Seq(Char), ~Has(e, Hash)
  PROVE  OneHash(e)
<1>1. PICK n \in 1 .. Len(e) + 1 : n = First(e, {Hash})
  BY FirstIs
<1>2. n > Len(e)
  <2>1. n <= Len(e) => e[n] = Hash
    BY <1>1, FirstIs
  <2> QED
    BY <1>1, <2>1 DEF Has
<1>3. Len(Behind(e, n)) = 0
  BY <1>2, BehindIs
<1> QED
  BY <1>1, <1>3 DEF OneHash, Has

\* HandleUrl finds a host and a target in a URL that names its peer, ...
LEMMA PeerLocates ==
  ASSUME NEW e \in Seq(Char), Absolute(e), ~Has(e, Raw), OneHash(e), ~NoPeer(e)
  PROVE  Locates(e)
<1>1. Scheme(e) \in Seq(Char) /\ Len(Scheme(e)) = 1 /\ Scheme(e)[1] = Http
  BY AbsoluteParts
<1>2. /\ All(Scheme(e), Letter \cup {Http} \cup Digit \cup Dot)
      /\ Scheme(e) # <<>> /\ Scheme(e)[1] \in Letter \cup {Http}
  <2>1. \A k \in 1 .. Len(Scheme(e)) : Scheme(e)[k] = Http
    BY <1>1
  <2>2. Scheme(e) # <<>>
    <3>1. PICK z \in Seq(Char) : z = Scheme(e) /\ Len(z) = 1
      BY <1>1
    <3>2. z # <<>>
      BY <3>1
    <3> QED
      BY <3>1, <3>2
  <2> QED
    BY <1>1, <2>1, <2>2, Zenon DEF All
<1>3. Name(e) # <<>> /\ All(Port(e), Digit)
  BY DEF NoPeer
<1> QED
  BY <1>2, <1>3 DEF Locates, Parses, OneHash

\* ... and in one that begins with a name and a '/'.
LEMMA SegmentLocates ==
  ASSUME NEW e \in Seq(Char), NEW n \in 2 .. Len(e), ~Has(e, Raw), OneHash(e),
         First(e, {Colon, Slash, Question, Hash}) = n, e[n] = Slash
  PROVE  Locates(e)
<1>1. \A k \in 1 .. n - 1 : e[k] \notin {Colon, Slash, Question, Hash}
  BY FirstIs
<1>2. ~HasScheme(e) /\ Hier(e) = e
  BY Distinct DEF HasScheme, Hier
<1>3. ~StartsWith(Hier(e), <<Slash, Slash>>)
  <2>1. 1 \in 1 .. n - 1
    OBVIOUS
  <2> QED
    BY <1>1, <1>2, <2>1, StartsWithIs
<1>4. Authority(e) = <<>> /\ Rest(e) = e
  BY <1>2, <1>3 DEF Authority, Rest
<1>5. Has(Path(e), Slash)
  <2>1. PICK q \in 1 .. Len(e) + 1 : q = First(e, {Question, Hash})
    BY FirstIs
  <2>2. q > n
    <3>1. q <= Len(e) => e[q] \in {Question, Hash}
      BY <2>1, FirstIs
    <3>2. q # n
      BY <3>1, Distinct
    <3>3. ASSUME q < n PROVE FALSE
      <4>1. q \in 1 .. n - 1 /\ q <= Len(e)
        BY <3>3
      <4> QED
        BY <1>1, <3>1, <4>1
    <3> QED
      BY <3>2, <3>3
  <2>3. /\ Len(Path(e)) = q - 1
        /\ \A k \in 1 .. q - 1 : Path(e)[k] = IF e[k] = Esc THEN Raw ELSE e[k]
    BY <1>4, <2>1, PathIs, CutDecoded
  <2>4. n \in 1 .. q - 1
    BY <2>2
  <2>5. Path(e)[n] = Slash
    BY <2>3, <2>4, Distinct
  <2> QED
    BY <2>3, <2>4, <2>5 DEF Has
<1> QED
  BY <1>2, <1>4, <1>5, NoAuthority DEF Locates, Parses, OneHash

LEMMA LinkEndsImplied ==
  ASSUME LinksInv, pc = "thrown", level > 0,
         ~Has(from.link, Raw), ~Has(from.host, Raw), ~Has(from.target, Raw),
         from.target # <<>>, from.host # <<>>, ~Has(from.host, Colon),
         ~NoPeer(from.link)
  PROVE  Locates(entry)
<1> DEFINE link == from.link
<1>1. from.host = host /\ from.target = target /\ Entry(host, target, link) = <<entry>>
      /\ link \in Seq(Char) /\ entry \in Seq(Char)
  BY DEF LinksInv, TypeOK
<1>2. Placed /\ ~Has(host, Raw) /\ ~Has(target, Raw) /\ PlainHost(host)
  <2>1. Placed /\ ~Has(host, Raw) /\ ~Has(target, Raw)
    BY <1>1 DEF Placed
  <2> QED
    BY <2>1, PlacedIs
<1>3. ~Has(link, Raw) /\ ~NoPeer(link)
  OBVIOUS
<1> HIDE DEF link
<1>4. CASE Absolute(link) /\ entry = link /\ ~Has(entry, Hash)
  BY <1>1, <1>3, <1>4, PeerLocates, NoHashIsOne
<1>5. ASSUME NEW u \in Seq(Char), entry = host \o u, u # <<>>, u[1] = Slash,
             ~Has(u, Hash), ~Has(u, Raw)
      PROVE  Locates(entry)
  <2>1. PICK n \in Nat : n = Len(host) + 1
    BY <1>2, <1>5, HostThenPath
  <2>2. /\ n \in 2 .. Len(entry) /\ entry[n] = Slash
        /\ First(entry, {Colon, Slash, Question, Hash}) = n
    <3>1. /\ Len(entry) = Len(host) + Len(u)
          /\ Len(host) \in Nat \ {0} /\ Len(u) \in Nat \ {0}
          /\ \A k \in 1 .. Len(u) : entry[Len(host) + k] = u[k]
      BY <1>2, <1>5, HostThenPath
    <3>2. First(entry, {Colon, Slash, Question, Hash}) = Len(host) + 1
      BY <1>2, <1>5, HostThenPath
    <3>3. 1 \in 1 .. Len(u)
      BY <3>1
    <3> QED
      BY <1>5, <2>1, <3>1, <3>2, <3>3
  <2>3. ~Has(host, Hash)
    BY <1>2 DEF PlainHost, Has
  <2>4. ~Has(entry, Raw) /\ ~Has(entry, Hash)
    BY <1>2, <1>5, <2>3, HostHas
  <2> QED
    BY <1>1, <2>2, <2>4, SegmentLocates, NoHashIsOne
<1>6. \/ Absolute(link) /\ entry = link /\ ~Has(entry, Hash)
      \/ \E u \in Seq(Char) : /\ entry = host \o u /\ u # <<>> /\ u[1] = Slash
                             /\ ~Has(u, Hash) /\ ~Has(u, Raw)
  <2>1. \/ Absolute(link) /\ entry = link /\ ~Has(entry, Hash)
        \/ \E u \in Seq(Char) :
             /\ entry = host \o u /\ u # <<>> /\ u[1] = Slash /\ ~Has(u, Hash)
             /\ ~Has(link, Raw) /\ ~Has(target, Raw) => ~Has(u, Raw)
    BY <1>1, <1>2, PlacedPushes
  <2> QED
    BY <1>2, <1>3, <2>1
<1> QED
  BY <1>4, <1>5, <1>6

LEMMA EndsImplied == LinksInv => EndsForAReason
<1> SUFFICES ASSUME LinksInv, pc = "thrown" PROVE EndsForAReason
  BY DEF EndsForAReason
<1>1. entry \in Seq(Char) /\ ~Locates(entry)
  BY DEF LinksInv, TypeOK
<1>2. PICK n \in 1 .. Len(entry) + 1 : n = First(entry, {Colon, Slash, Question, Hash})
  BY <1>1, FirstIs
<1>3. \/ Has(entry, Raw) \/ ~OneHash(entry) \/ NoPeer(entry)
      \/ ~Absolute(entry) /\ (n = 1 \/ n > Len(entry) \/ entry[n] # Slash)
  <2>1. CASE Absolute(entry)
    BY <1>1, <2>1, PeerLocates
  <2>2. ASSUME n # 1, ~ n > Len(entry), entry[n] = Slash
        PROVE  Has(entry, Raw) \/ ~OneHash(entry)
    <3>1. n \in 2 .. Len(entry)
      BY <1>1, <2>2
    <3> QED
      BY <1>1, <1>2, <2>2, <3>1, SegmentLocates
  <2> QED
    BY <2>1, <2>2
<1> QED
  BY <1>1, <1>2, <1>3, LinkEndsImplied DEF EndsForAReason, OneHash

-----------------------------------------------------------------------------
(***************************************************************************)
(* The loop over the suffixes, as facts about a text s and a place c in it.*)
(***************************************************************************)

OpenIn(s, c) == {k \in 1 .. c : s[k] = Open /\ \A q \in k .. c : s[q] # Quote}

StartsIn(s) ==
  {p \in 1 .. Len(s) : /\ s[p] = Open
                       /\ Cardinality(OpenIn(s, p - 1)) % 2 = 0
                       /\ \E k \in p + 1 .. Len(s) : s[k] \in {Quote, Open}}

Upto(s, c) == {p \in StartsIn(s) : p <= c}

\* rest is what follows the first c characters, found the links that begin there.
Scanned(s, rest, found, c) ==
  /\ rest = Behind(s, c)
  /\ Cardinality(OpenIn(s, c)) % 2 = 0
  /\ Len(found) = Cardinality(Upto(s, c))
  /\ \A p \in Upto(s, c) : found[Cardinality(Upto(s, p))] = LinkAt(s, p)

\* The first of the characters cs is at n.
FirstAtPlace(s, cs, n) == First(s, cs) = n

LEMMA LastQuote ==
  ASSUME NEW s \in Seq(Char), NEW p \in Nat \ {0}
  PROVE  \E q \in 0 .. p - 1 : /\ q = 0 \/ s[q] = Quote
                               /\ \A k \in q + 1 .. p - 1 : s[k] # Quote
<1> DEFINE S == {m \in 0 .. p - 1 : p - 1 - m = 0 \/ s[p - 1 - m] = Quote}
<1>1. PICK m \in S : \A o \in S : m <= o
  <2>1. S \in SUBSET Nat /\ p - 1 \in S
    OBVIOUS
  <2> HIDE DEF S
  <2> QED
    BY <2>1, HasLeast
<1>2. m \in 0 .. p - 1 /\ (p - 1 - m = 0 \/ s[p - 1 - m] = Quote)
  OBVIOUS
<1>3. PICK q \in 0 .. p - 1 : q = p - 1 - m
  BY <1>2
<1>4. ASSUME NEW k \in q + 1 .. p - 1 PROVE s[k] # Quote
  <2>1. p - 1 - k \in 0 .. p - 1 /\ p - 1 - (p - 1 - k) = k /\ ~ m <= p - 1 - k
    BY <1>2, <1>3
  <2>2. p - 1 - k \notin S
    BY <1>1, <2>1
  <2> QED
    BY <2>1, <2>2
<1> QED
  BY <1>2, <1>3, <1>4

LEMMA LinkStartsIs ==
  ASSUME text \in Seq(Char)
  PROVE  LinkStarts = StartsIn(text)
<1> DEFINE Is(p, q) == /\ q = 0 \/ text[q] = Quote
                       /\ \A k \in q + 1 .. p - 1 : text[k] # Quote
           last(p) == CHOOSE q \in 0 .. p - 1 : Is(p, q)
           Since(p, q) == {k \in q + 1 .. p - 1 : text[k] = Open}
<1>1. ASSUME NEW p \in 1 .. Len(text) PROVE Since(p, last(p)) = OpenIn(text, p - 1)
  <2>1. last(p) \in 0 .. p - 1 /\ Is(p, last(p))
    <3>1. \E q \in 0 .. p - 1 : Is(p, q)
      <4>1. p \in Nat \ {0}
        OBVIOUS
      <4>2. PICK q \in 0 .. p - 1 : /\ q = 0 \/ text[q] = Quote
                                   /\ \A k \in q + 1 .. p - 1 : text[k] # Quote
        BY <4>1, LastQuote
      <4>3. Is(p, q)
        BY <4>2
      <4> QED
        BY <4>3
    <3> HIDE DEF Is
    <3> QED
      BY <3>1
  <2>2. PICK q \in 0 .. p - 1 : q = last(p)
    BY <2>1
  <2>3. Is(p, q)
    BY <2>1, <2>2
  <2> HIDE DEF last
  <2>4. ASSUME NEW k \in 1 .. p - 1, \A r \in k .. p - 1 : text[r] # Quote
        PROVE  k \in q + 1 .. p - 1
    <3>1. ~ q >= k
      <4>1. ASSUME q >= k PROVE q \in k .. p - 1 /\ text[q] = Quote
        BY <2>3, <4>1
      <4> QED
        BY <2>4, <4>1
    <3> QED
      BY <3>1
  <2>5. ASSUME NEW k \in q + 1 .. p - 1
        PROVE  k \in 1 .. p - 1 /\ \A r \in k .. p - 1 : text[r] # Quote
    <3>1. \A r \in k .. p - 1 : r \in q + 1 .. p - 1
      OBVIOUS
    <3> QED
      BY <2>3, <3>1
  <2>6. Since(p, q) = OpenIn(text, p - 1)
    BY <2>4, <2>5 DEF OpenIn
  <2> QED
    BY <2>2, <2>6
<1>2. LinkStarts = {p \in 1 .. Len(text) :
                      /\ text[p] = Open
                      /\ Cardinality(Since(p, last(p))) % 2 = 0
                      /\ \E k \in p + 1 .. Len(text) : text[k] \in {Quote, Open}}
  BY DEF LinkStarts
<1> HIDE DEF Since, last
<1> QED
  BY <1>1, <1>2 DEF StartsIn

LEMMA OpenFinite ==
  ASSUME NEW s, NEW c \in Int
  PROVE  IsFiniteSet(OpenIn(s, c)) /\ Cardinality(OpenIn(s, c)) \in Nat
<1>1. IsFiniteSet(1 .. c) /\ OpenIn(s, c) \in SUBSET (1 .. c)
  BY FS_Interval DEF OpenIn
<1> QED
  BY <1>1, FS_Subset, FS_CardinalityType

LEMMA UptoFinite ==
  ASSUME NEW s \in Seq(Char), NEW c \in Int
  PROVE  IsFiniteSet(Upto(s, c)) /\ Cardinality(Upto(s, c)) \in Nat
<1>1. IsFiniteSet(1 .. Len(s)) /\ Upto(s, c) \in SUBSET (1 .. Len(s))
  BY FS_Interval DEF Upto, StartsIn
<1> QED
  BY <1>1, FS_Subset, FS_CardinalityType

LEMMA Parity ==
  ASSUME NEW n \in Nat, n % 2 = 0
  PROVE  (n + 1) % 2 # 0 /\ (n + 2) % 2 = 0
OBVIOUS

\* Characters that are neither, and quotes, between two places.
LEMMA OpenStays ==
  ASSUME NEW s \in Seq(Char), NEW c \in Nat, NEW d \in Nat, c <= d,
         \A k \in c + 1 .. d : s[k] # Open
  PROVE  /\ (\A k \in c + 1 .. d : s[k] # Quote) => OpenIn(s, d) = OpenIn(s, c)
         /\ (\E k \in c + 1 .. d : s[k] = Quote) => OpenIn(s, d) = {}
<1>1. ASSUME NEW k \in 1 .. d, s[k] = Open PROVE k \in 1 .. c
  BY <1>1
<1>2. ASSUME \A k \in c + 1 .. d : s[k] # Quote, NEW k \in 1 .. c,
             \A q \in k .. c : s[q] # Quote
      PROVE  \A q \in k .. d : s[q] # Quote
  <2>1. \A q \in k .. d : q \in k .. c \/ q \in c + 1 .. d
    OBVIOUS
  <2> QED
    BY <1>2, <2>1
<1>3. \A k \in 1 .. c : k \in 1 .. d /\ \A q \in k .. c : q \in k .. d
  OBVIOUS
<1>4. (\A k \in c + 1 .. d : s[k] # Quote) => OpenIn(s, d) = OpenIn(s, c)
  BY <1>1, <1>2, <1>3 DEF OpenIn
<1>5. ASSUME NEW r \in c + 1 .. d, s[r] = Quote PROVE OpenIn(s, d) = {}
  <2>1. \A k \in 1 .. c : r \in k .. d
    OBVIOUS
  <2> QED
    BY <1>1, <1>5, <2>1 DEF OpenIn
<1> QED
  BY <1>4, <1>5

LEMMA OpenAdds ==
  ASSUME NEW s \in Seq(Char), NEW c \in Nat, s[c + 1] = Open
  PROVE  /\ OpenIn(s, c + 1) = OpenIn(s, c) \cup {c + 1}
         /\ Cardinality(OpenIn(s, c + 1)) = Cardinality(OpenIn(s, c)) + 1
<1>1. s[c + 1] # Quote
  BY Distinct
<1>2. ASSUME NEW k \in 1 .. c, \A q \in k .. c : s[q] # Quote
      PROVE  \A q \in k .. c + 1 : s[q] # Quote
  <2>1. \A q \in k .. c + 1 : q \in k .. c \/ q = c + 1
    OBVIOUS
  <2> QED
    BY <1>1, <1>2, <2>1
<1>3. \A k \in 1 .. c : k \in 1 .. c + 1 /\ \A q \in k .. c : q \in k .. c + 1
  OBVIOUS
<1>4. \A k \in 1 .. c + 1 : k \in 1 .. c \/ k = c + 1
  OBVIOUS
<1>5. c + 1 \in 1 .. c + 1 /\ \A q \in c + 1 .. c + 1 : q = c + 1
  OBVIOUS
<1>6. c + 1 \in OpenIn(s, c + 1)
  BY <1>1, <1>5 DEF OpenIn
<1>7. OpenIn(s, c + 1) = OpenIn(s, c) \cup {c + 1}
  <2>1. \A k \in OpenIn(s, c) : k \in OpenIn(s, c + 1)
    BY <1>2, <1>3 DEF OpenIn
  <2>2. ASSUME NEW k \in OpenIn(s, c + 1), k # c + 1 PROVE k \in OpenIn(s, c)
    <3>1. k \in 1 .. c
      BY <1>4, <2>2 DEF OpenIn
    <3> QED
      BY <1>3, <3>1 DEF OpenIn
  <2> QED
    BY <1>6, <2>1, <2>2
<1>8. c + 1 \notin OpenIn(s, c)
  BY DEF OpenIn
<1> QED
  BY <1>7, <1>8, OpenFinite, FS_AddElement

LEMMA BehindBehind ==
  ASSUME NEW s \in Seq(Char), NEW c \in Nat, NEW o \in Nat, NEW l \in Nat,
         Len(s) = c + l, o <= l
  PROVE  Behind(Behind(s, c), o) = Behind(s, c + o)
<1>1. PICK m \in Nat : l = o + m
  <2>1. l - o \in Nat /\ l = o + (l - o)
    OBVIOUS
  <2> QED
    BY <2>1
<1> DEFINE b == Behind(s, c)
<1>2. b \in Seq(Char) /\ Len(b) = l /\ \A k \in 1 .. l : b[k] = s[c + k]
  BY BehindPart
<1> HIDE DEF b
<1> Len(b) = o + m
  BY <1>1, <1>2
<1>3. /\ Behind(b, o) \in Seq(Char) /\ Len(Behind(b, o)) = m
      /\ \A k \in 1 .. m : Behind(b, o)[k] = b[o + k]
  BY <1>2, BehindPart
<1>4. PICK t \in Nat : t = c + o
  OBVIOUS
<1>5. /\ Behind(s, t) \in Seq(Char) /\ Len(Behind(s, t)) = m
      /\ \A k \in 1 .. m : Behind(s, t)[k] = s[t + k]
  <2>1. Len(s) = t + m
    BY <1>1, <1>4
  <2> QED
    BY <2>1, BehindPart
<1>6. ASSUME NEW k \in 1 .. m PROVE b[o + k] = s[t + k]
  <2>1. o + k \in 1 .. l /\ c + (o + k) = t + k
    BY <1>1, <1>4
  <2> QED
    BY <1>2, <2>1
<1>7. Behind(b, o) = Behind(s, t)
  BY <1>3, <1>5, <1>6, SeqEqual
<1> QED
  BY <1>4, <1>7 DEF b

\* The link that is found in the rest is the one in the text.
LEMMA LinkAtRest ==
  ASSUME NEW s \in Seq(Char), NEW c \in Nat, NEW o \in Nat \ {0}, NEW n \in Nat \ {0},
         NEW l \in Nat, Len(s) = c + l, o + n <= l,
         FirstAtPlace(Behind(s, c + o), {Quote, Open}, n)
  PROVE  LinkAt(Behind(s, c), o) = LinkAt(s, c + o)
<1> DEFINE b == Behind(s, c)
<1>2. b \in Seq(Char) /\ Len(b) = l /\ \A k \in 1 .. l : b[k] = s[c + k]
  BY BehindPart
<1>3. Behind(b, o) = Behind(s, c + o)
  <2>1. o <= l
    OBVIOUS
  <2> QED
    BY <2>1, BehindBehind DEF b
<1> HIDE DEF b
<1>4. b[o + n] = s[c + o + n]
  <2>1. o + n \in 1 .. l /\ c + (o + n) = c + o + n
    OBVIOUS
  <2> QED
    BY <1>2, <2>1
<1> DEFINE i == c + o
           x == SubSeq(b, o + 1, o + n - 1)
           y == SubSeq(s, i + 1, i + n - 1)
<1>5. i \in Nat /\ i + n <= Len(s) /\ o + n <= l /\ i = c + o /\ Len(s) \in Nat
  OBVIOUS
<1> HIDE DEF i
<1>6. /\ x \in Seq(Char) /\ Len(x) = n - 1
      /\ \A k \in 1 .. n - 1 : x[k] = b[o + k]
  <2>1. \A k \in o + 1 .. o + n - 1 : k \in 1 .. Len(b)
    BY <1>2, <1>5
  <2>2. PICK z \in Int, a \in Int : z = o + n - 1 /\ a = o + 1
    OBVIOUS
  <2> \A k \in a .. z : b[k] \in Char
    BY <1>2, <2>1, <2>2
  <2>3. /\ SubSeq(b, a, z) \in Seq(Char) /\ Len(SubSeq(b, a, z)) = IF a <= z THEN z - a + 1 ELSE 0
        /\ \A k \in 1 .. z - a + 1 : SubSeq(b, a, z)[k] = b[a + k - 1]
    BY SubSeqProperties
  <2>4. z - a + 1 = n - 1 /\ (IF a <= z THEN z - a + 1 ELSE 0) = n - 1
        /\ \A k \in 1 .. n - 1 : a + k - 1 = o + k
    BY <2>2
  <2> QED
    BY <2>2, <2>3, <2>4
<1>7. /\ y \in Seq(Char) /\ Len(y) = n - 1
      /\ \A k \in 1 .. n - 1 : y[k] = s[i + k]
  <2>1. \A k \in i + 1 .. i + n - 1 : k \in 1 .. Len(s)
    BY <1>5
  <2>2. PICK z \in Int, a \in Int : z = i + n - 1 /\ a = i + 1
    BY <1>5
  <2> \A k \in a .. z : s[k] \in Char
    <3>1. \A k \in 1 .. Len(s) : s[k] \in Char
      OBVIOUS
    <3>2. \A k \in a .. z : k \in 1 .. Len(s)
      BY <2>1, <2>2
    <3> QED
      BY <3>1, <3>2
  <2>3. /\ SubSeq(s, a, z) \in Seq(Char) /\ Len(SubSeq(s, a, z)) = IF a <= z THEN z - a + 1 ELSE 0
        /\ \A k \in 1 .. z - a + 1 : SubSeq(s, a, z)[k] = s[a + k - 1]
    BY SubSeqProperties
  <2>4. z - a + 1 = n - 1 /\ (IF a <= z THEN z - a + 1 ELSE 0) = n - 1
        /\ \A k \in 1 .. n - 1 : a + k - 1 = i + k
    BY <1>5, <2>2
  <2> QED
    BY <2>2, <2>3, <2>4
<1> HIDE DEF x, y
<1>8. ASSUME NEW k \in 1 .. n - 1 PROVE x[k] = y[k]
  <2>1. o + k \in 1 .. l /\ c + (o + k) = i + k
    BY <1>5
  <2> QED
    BY <1>2, <1>6, <1>7, <2>1
<1>9. x = y
  BY <1>6, <1>7, <1>8, SeqEqual
<1>10. LinkAt(b, o) = x \o (IF b[o + n] = Open THEN <<Raw>> ELSE <<>>)
  BY <1>3 DEF LinkAt, x, FirstAtPlace
<1>11. LinkAt(s, i) = y \o (IF s[i + n] = Open THEN <<Raw>> ELSE <<>>)
  BY <1>5 DEF LinkAt, y, FirstAtPlace
<1> QED
  BY <1>4, <1>5, <1>9, <1>10, <1>11 DEF b, i

\* One round of the loop: one link more has been found, at p, and the rest
\* begins behind the end e of the match, where no link goes on.
LEMMA ScanRound ==
  ASSUME NEW s \in Seq(Char), NEW c \in Nat, NEW rest \in Seq(Char),
         NEW found \in Seq(Seq(Char)), Scanned(s, rest, found, c),
         NEW o \in Nat \ {0}, FirstAtPlace(rest, {Open}, o),
         NEW n \in Nat \ {0}, FirstAtPlace(Behind(rest, o), {Quote, Open}, n),
         NEW l \in Nat, Len(s) = c + l, o + n <= l
  PROVE  \E d \in 0 .. Len(s) :
           Scanned(s, Behind(rest, o + n), Append(found, LinkAt(rest, o)), d)
<1>1. rest = Behind(s, c)
  BY DEF Scanned
<1>3. Len(rest) = l /\ \A k \in 1 .. l : rest[k] = s[c + k]
  <2>1. /\ Len(Behind(s, c)) = l
        /\ \A k \in 1 .. l : Behind(s, c)[k] = s[c + k]
    BY BehindPart
  <2> QED
    BY <1>1, <2>1
<1>4. PICK v \in Nat : l = o + v
  <2>1. l - o \in Nat /\ l = o + (l - o)
    OBVIOUS
  <2> QED
    BY <2>1
<1>5. PICK p \in Nat, e \in Nat : p = c + o /\ e = c + o + n
  <2>1. c + o \in Nat /\ c + o + n \in Nat
    OBVIOUS
  <2> QED
    BY <2>1
<1>6. p > c /\ p < e /\ e <= Len(s) /\ e = p + n /\ p \in 1 .. Len(s)
      /\ Len(s) = p + v
  BY <1>4, <1>5
<1>7. s[p] = Open /\ \A k \in c + 1 .. p - 1 : s[k] # Open
  <2>1. o <= Len(rest) /\ rest[o] = Open /\ \A k \in 1 .. o - 1 : rest[k] # Open
    <3>1. o <= Len(rest)
      BY <1>3
    <3> QED
      BY <3>1, FirstIs DEF FirstAtPlace
  <2>2. rest[o] = s[c + o]
    BY <1>3
  <2>3. ASSUME NEW k \in c + 1 .. p - 1 PROVE s[k] # Open
    <3>1. k - c \in 1 .. o - 1 /\ k - c \in 1 .. l /\ c + (k - c) = k
      BY <1>5
    <3> QED
      BY <1>3, <2>1, <3>1
  <2> QED
    BY <1>5, <2>1, <2>2, <2>3
<1>8. Behind(rest, o) = Behind(s, p) /\ Behind(rest, o + n) = Behind(s, e)
  <2>1. \A u \in Nat : u <= l => Behind(Behind(s, c), u) = Behind(s, c + u)
    BY ZenonT(30), BehindBehind
  <2>2. Behind(rest, o) = Behind(s, c + o)
    BY <1>1, <2>1
  <2>3. PICK u \in Nat : u = o + n /\ u <= l /\ c + u = e
    <3>1. o + n \in Nat /\ c + (o + n) = c + o + n
      OBVIOUS
    <3> QED
      BY <1>5, <3>1
  <2>4. Behind(rest, u) = Behind(s, e)
    BY <1>1, <2>1, <2>3
  <2> QED
    BY <1>5, <2>2, <2>3, <2>4
<1>9. s[e] \in {Quote, Open} /\ \A k \in p + 1 .. e - 1 : s[k] \notin {Quote, Open}
  <2> DEFINE b == Behind(s, p)
  <2>2. b \in Seq(Char) /\ Len(b) = v /\ \A k \in 1 .. v : b[k] = s[p + k]
    BY <1>6, BehindPart
  <2> HIDE DEF b
  <2>3. First(b, {Quote, Open}) = n
    BY <1>8 DEF b, FirstAtPlace
  <2>4. n \in 1 .. v
    BY <1>4
  <2>5. b[n] \in {Quote, Open} /\ \A k \in 1 .. n - 1 : b[k] \notin {Quote, Open}
    <3>1. n <= Len(b)
      BY <2>2, <2>4
    <3> QED
      BY <2>2, <2>3, <3>1, FirstIs
  <2>6. ASSUME NEW k \in p + 1 .. e - 1 PROVE s[k] \notin {Quote, Open}
    <3>1. k - p \in 1 .. n - 1 /\ k - p \in 1 .. v /\ p + (k - p) = k
      BY <1>6, <2>4
    <3> QED
      BY <2>2, <2>5, <3>1
  <2> QED
    BY <1>6, <2>2, <2>4, <2>5, <2>6
<1>10. LinkAt(rest, o) = LinkAt(s, p)
  <2>1. FirstAtPlace(Behind(s, c + o), {Quote, Open}, n)
    BY <1>5, <1>8
  <2>2. LinkAt(Behind(s, c), o) = LinkAt(s, c + o)
    BY <2>1, LinkAtRest
  <2> QED
    BY <1>1, <1>5, <2>2
<1>11. Cardinality(OpenIn(s, p - 1)) % 2 = 0
  <2>1. Cardinality(OpenIn(s, c)) % 2 = 0
    BY DEF Scanned
  <2>2. p - 1 \in Nat /\ c <= p - 1
    BY <1>6
  <2>3. OpenIn(s, p - 1) = OpenIn(s, c) \/ OpenIn(s, p - 1) = {}
    BY <1>6, <1>7, <2>2, OpenStays
  <2>4. Cardinality({}) = 0 /\ 0 % 2 = 0
    BY FS_EmptySet
  <2> QED
    BY <2>1, <2>3, <2>4
<1>12. p \in StartsIn(s)
  <2>1. e \in p + 1 .. Len(s)
    BY <1>6
  <2> QED
    BY <1>6, <1>7, <1>9, <1>11, <2>1 DEF StartsIn
<1>13. PICK q \in Nat : q = p - 1
  BY <1>6
<1>14. PICK h \in Nat : h = Cardinality(OpenIn(s, q)) /\ h % 2 = 0
  BY <1>11, <1>13, OpenFinite
<1>15. Cardinality(OpenIn(s, p)) = h + 1
  <2>1. q + 1 = p
    BY <1>6, <1>13
  <2> QED
    BY <1>7, <1>14, <2>1, OpenAdds
<1>16. PICK z \in Nat : z = e - 1 /\ z + 1 = e
  <2>1. e - 1 \in Nat /\ e - 1 + 1 = e
    BY <1>6
  <2> QED
    BY <2>1
<1>17. Cardinality(OpenIn(s, z)) = h + 1
  <2>1. p <= z /\ \A k \in p + 1 .. z : k \in p + 1 .. e - 1
    BY <1>6, <1>16
  <2>2. \A k \in p + 1 .. z : s[k] # Open /\ s[k] # Quote
    BY <1>9, <2>1
  <2>3. OpenIn(s, z) = OpenIn(s, p)
    BY ZenonT(30), <2>1, <2>2, OpenStays
  <2> QED
    BY <1>15, <2>3
<1>18. Cardinality(OpenIn(s, e)) % 2 = 0
  <2>1. CASE s[e] = Open
    <3>1. Cardinality(OpenIn(s, e)) = h + 1 + 1
      BY <1>16, <1>17, <2>1, OpenAdds
    <3>2. h + 1 + 1 = h + 2
      OBVIOUS
    <3> QED
      BY <1>14, <3>1, <3>2, Parity
  <2>2. CASE s[e] = Quote
    <3>1. \A k \in p + 1 .. e : s[k] # Open
      <4>1. \A k \in p + 1 .. e : k = e \/ k \in p + 1 .. e - 1
        BY <1>6
      <4> QED
        BY <1>9, <2>2, <4>1, Distinct
    <3>2. e \in p + 1 .. e /\ p <= e
      BY <1>6
    <3>3. OpenIn(s, e) = {}
      BY <2>2, <3>1, <3>2, OpenStays
    <3> QED
      BY <3>3, FS_EmptySet
  <2> QED
    BY <1>9, <2>1, <2>2
<1>19. e \notin StartsIn(s)
  <2>1. (h + 1) % 2 # 0
    BY <1>14, Parity
  <2> QED
    BY <1>16, <1>17, <2>1 DEF StartsIn
<1>20. ASSUME NEW r \in StartsIn(s), r <= e PROVE r <= c \/ r = p
  <2>1. r \in 1 .. Len(s) /\ s[r] = Open /\ r # e
    BY <1>19 DEF StartsIn
  <2>2. r \notin c + 1 .. p - 1 /\ r \notin p + 1 .. e - 1
    BY <1>7, <1>9, <2>1
  <2> QED
    BY <1>6, <1>20, <2>1, <2>2
<1>21. Upto(s, e) = Upto(s, c) \cup {p} /\ Upto(s, p) = Upto(s, e) /\ p \notin Upto(s, c)
  <2>1. StartsIn(s) \in SUBSET Int
    BY DEF StartsIn
  <2>2. \A r \in StartsIn(s) : r <= e <=> r <= c \/ r = p
    BY <1>6, <1>20, <2>1
  <2>3. \A r \in StartsIn(s) : r <= p <=> r <= c \/ r = p
    BY <1>6, <2>1, <2>2
  <2>4. ~ p <= c
    BY <1>6
  <2> QED
    BY <1>12, <2>2, <2>3, <2>4 DEF Upto
<1>22. PICK w \in Nat : w = Len(found)
  OBVIOUS
<1>23. Cardinality(Upto(s, c)) = w /\ IsFiniteSet(Upto(s, c))
  BY <1>6, <1>22, UptoFinite DEF Scanned
<1>24. Cardinality(Upto(s, e)) = w + 1
  BY <1>21, <1>23, FS_AddElement
<1>25. PICK link \in Seq(Char) : link = LinkAt(rest, o)
  <2>1. o \in 1 .. Len(rest) /\ o + First(Behind(rest, o), {Quote, Open}) <= Len(rest)
    BY <1>3 DEF FirstAtPlace
  <2>2. LinkAt(rest, o) \in Seq(Char)
    BY <2>1, LinkAtIs
  <2> QED
    BY <2>2
<1> DEFINE more == Append(found, link)
<1>26. Len(more) = w + 1 /\ more[w + 1] = link /\ \A k \in 1 .. w : more[k] = found[k]
  BY <1>22
<1>27. ASSUME NEW r \in Upto(s, e) PROVE more[Cardinality(Upto(s, r))] = LinkAt(s, r)
  <2>1. CASE r = p
    BY <1>10, <1>21, <1>24, <1>25, <1>26, <2>1
  <2>2. CASE r \in Upto(s, c)
    <3>1. Upto(s, r) \subseteq Upto(s, c) /\ r \in Upto(s, r) /\ r \in Int
      <4>1. StartsIn(s) \in SUBSET Int
        BY DEF StartsIn
      <4> QED
        BY <1>6, <2>2, <4>1 DEF Upto
    <3>2. Cardinality(Upto(s, r)) <= w
      BY <1>23, <3>1, FS_Subset
    <3>3. Cardinality(Upto(s, r)) \in Nat /\ Cardinality(Upto(s, r)) # 0
      BY <3>1, UptoFinite, FS_EmptySet
    <3>4. Cardinality(Upto(s, r)) \in 1 .. w
      BY <3>2, <3>3
    <3>5. found[Cardinality(Upto(s, r))] = LinkAt(s, r)
      BY <2>2 DEF Scanned
    <3> HIDE DEF more
    <3> QED
      BY <1>26, <3>4, <3>5
  <2> QED
    BY <1>21, <2>1, <2>2
<1> HIDE DEF more
<1>28. Scanned(s, Behind(rest, o + n), more, e)
  BY <1>8, <1>18, <1>24, <1>26, <1>27 DEF Scanned
<1>29. e \in 0 .. Len(s)
  BY <1>6
<1> QED
  BY <1>25, <1>28, <1>29 DEF more

\* Where there is no match any more there is no link.
LEMMA ScanEnds ==
  ASSUME NEW s \in Seq(Char), NEW c \in Nat, NEW l \in Nat, Len(s) = c + l,
         Scanned(s, url_str, seen, c), ~Matches,
         NEW p \in StartsIn(s)
  PROVE  p <= c
<1> SUFFICES ASSUME p > c PROVE Matches
  BY DEF StartsIn
<1>1. p \in 1 .. Len(s) /\ s[p] = Open
  BY DEF StartsIn
<1>2. PICK r \in p + 1 .. Len(s) : s[r] \in {Quote, Open}
  BY DEF StartsIn
<1>4. url_str \in Seq(Char) /\ Len(url_str) = l /\ \A k \in 1 .. l : url_str[k] = s[c + k]
  <2>1. /\ Behind(s, c) \in Seq(Char) /\ Len(Behind(s, c)) = l
        /\ \A k \in 1 .. l : Behind(s, c)[k] = s[c + k]
    BY BehindPart
  <2> QED
    BY <2>1 DEF Scanned
<1> DEFINE o == First(url_str, {Open})
<1>5. /\ o \in 1 .. l + 1
      /\ \A k \in 1 .. o - 1 : url_str[k] # Open
  <2>1. /\ o \in 1 .. Len(url_str) + 1
        /\ \A k \in 1 .. o - 1 : url_str[k] \notin {Open}
    BY <1>4, FirstIs
  <2> HIDE DEF o
  <2> QED
    BY <1>4, <2>1
<1> HIDE DEF o
<1>6. o <= p - c
  <2>1. p - c \in 1 .. l /\ c + (p - c) = p
    BY <1>1
  <2>2. url_str[p - c] = Open
    BY <1>1, <1>4, <2>1
  <2>3. p - c \notin 1 .. o - 1
    BY <1>5, <2>2
  <2> QED
    BY <1>5, <2>1, <2>3
<1>7. PICK m \in Nat : l = o + m
  <2>1. l - o \in Nat
    BY <1>1, <1>5, <1>6
  <2> QED
    BY <1>5, <2>1
<1> DEFINE b == Behind(url_str, o)
<1>8. b \in Seq(Char) /\ Len(b) = m /\ \A k \in 1 .. m : b[k] = url_str[o + k]
  <2>1. o \in Nat /\ Len(url_str) = o + m
    BY <1>4, <1>5, <1>7
  <2> QED
    BY <1>4, <2>1, BehindPart
<1> HIDE DEF b
<1>9. PICK k \in 1 .. m : k = r - c - o
  BY <1>1, <1>2, <1>5, <1>6, <1>7
<1>10. b[k] \in {Quote, Open}
  <2>1. o + k \in 1 .. l /\ c + (o + k) = r
    BY <1>5, <1>7, <1>9
  <2>2. b[k] = s[c + (o + k)]
    BY <1>4, <1>8, <2>1
  <2> QED
    BY <1>2, <2>1, <2>2
<1> DEFINE n == First(b, {Quote, Open})
<1>11. n \in 1 .. m + 1 /\ \A x \in 1 .. n - 1 : b[x] \notin {Quote, Open}
  BY <1>8, FirstIs
<1> HIDE DEF n
<1>12. k \notin 1 .. n - 1
  BY <1>10, <1>11
<1>13. n <= m
  BY <1>9, <1>11, <1>12
<1>14. n <= Len(url_str) - o
  BY <1>4, <1>5, <1>7, <1>11, <1>13
<1> QED
  BY <1>14 DEF Matches, n, b, o

\* What ScanInv says of a page, its rest and the links found in it.
ScanOf(s, rest, found, p) ==
  p \in {"scan", "next"} =>
    \E c \in 0 .. Len(s) :
      Scanned(s, rest, found, c) /\ (p = "next" => \A q \in StartsIn(s) : q <= c)

LEMMA ScanInvIs ==
  ASSUME text \in Seq(Char)
  PROVE  ScanInv <=> ScanOf(text, url_str, seen, pc)
<1>1. LinkStarts = StartsIn(text)
  BY LinkStartsIs
<1>2. \A c : OpenSince(c) = OpenIn(text, c)
  BY DEF OpenSince, OpenIn
<1>3. \A c : {p \in LinkStarts : p <= c} = Upto(text, c)
  BY <1>1 DEF Upto
<1>4. ASSUME NEW c
      PROVE  (\A p \in LinkStarts : p <= c =>
                seen[Cardinality({q \in LinkStarts : q <= p})] = LinkAt(text, p))
             <=> \A p \in Upto(text, c) : seen[Cardinality(Upto(text, p))] = LinkAt(text, p)
  BY <1>1, <1>3 DEF Upto
<1> DEFINE Now(c) == /\ url_str = Behind(text, c)
                     /\ Cardinality(OpenSince(c)) % 2 = 0
                     /\ Len(seen) = Cardinality({p \in LinkStarts : p <= c})
                     /\ \A p \in LinkStarts : p <= c =>
                          seen[Cardinality({q \in LinkStarts : q <= p})] = LinkAt(text, p)
<1>5. \A c : Now(c) <=> Scanned(text, url_str, seen, c)
  BY <1>2, <1>3, <1>4 DEF Scanned
<1>6. ScanInv <=> (pc \in {"scan", "next"} =>
                     \E c \in 0 .. Len(text) :
                       Now(c) /\ (pc = "next" => \A p \in LinkStarts : p <= c))
  BY DEF ScanInv
<1> HIDE DEF Now
<1> QED
  BY <1>1, <1>5, <1>6 DEF ScanOf

LEMMA ScanStep ==
  ASSUME LinksInv, LinksInv', ScanOf(text, url_str, seen, pc), Next
  PROVE  ScanOf(text', url_str', seen', pc')
<1>1. text \in Seq(Char) /\ url_str \in Seq(Char) /\ seen \in Seq(Seq(Char))
      /\ text' \in Seq(Char)
  BY DEF LinksInv, TypeOK
<1>2. CASE HandleUrl
  <2>1. pc' = "scan" /\ url_str' = text' /\ seen' = <<>>
    BY <1>2 DEF HandleUrl
  <2>2. PICK s \in Seq(Char) : s = text'
    BY <1>1
  <2>3. s = Behind(s, 0)
    <3>1. PICK l \in Nat : l = Len(s)
      OBVIOUS
    <3>2. Len(s) = 0 + l
      BY <3>1
    <3>3. /\ Behind(s, 0) \in Seq(Char) /\ Len(Behind(s, 0)) = l
          /\ \A k \in 1 .. l : Behind(s, 0)[k] = s[0 + k]
      BY <3>2, BehindPart
    <3>4. \A k \in 1 .. l : Behind(s, 0)[k] = s[k]
      BY <3>3
    <3> QED
      BY <3>1, <3>3, <3>4, SeqEqual
  <2>4. OpenIn(s, 0) = {} /\ Upto(s, 0) = {}
    BY DEF OpenIn, Upto, StartsIn
  <2>5. Cardinality({}) = 0 /\ 0 % 2 = 0 /\ Len(<<>>) = 0 /\ 0 \in 0 .. Len(s)
    BY FS_EmptySet
  <2>6. Scanned(s, s, <<>>, 0)
    BY <2>3, <2>4, <2>5 DEF Scanned
  <2>7. ScanOf(s, s, <<>>, "scan")
    BY <2>5, <2>6 DEF ScanOf
  <2> QED
    BY <2>1, <2>2, <2>7
<1>3. CASE NextLink
  <2>1. pc = "scan" /\ pc' = "scan" /\ text' = text /\ Matches
    BY <1>3 DEF NextLink
  <2>2. PICK c \in 0 .. Len(text) : Scanned(text, url_str, seen, c)
    BY <2>1 DEF ScanOf
  <2>3. PICK o \in 1 .. Len(url_str) :
          /\ o = First(url_str, {Open})
          /\ o + First(Behind(url_str, o), {Quote, Open}) <= Len(url_str)
    BY <1>1, <2>1, MatchIs
  <2>4. PICK n \in Nat \ {0} : n = First(Behind(url_str, o), {Quote, Open})
    BY <1>1, <2>3, LinkAtIs
  <2>5. /\ seen' = Append(seen, LinkAt(url_str, o))
        /\ url_str' = Behind(url_str, o + n)
    BY <1>3, <2>3, <2>4 DEF NextLink, Suffix
  <2>6. FirstAtPlace(url_str, {Open}, o)
        /\ FirstAtPlace(Behind(url_str, o), {Quote, Open}, n)
    BY <2>3, <2>4 DEF FirstAtPlace
  <2>7. c \in Nat /\ o \in Nat \ {0}
    BY <2>2, <2>3
  <2>8. PICK l \in Nat : Len(text) = c + l
    <3>1. Len(text) - c \in Nat /\ Len(text) = c + (Len(text) - c)
      BY <1>1, <2>2
    <3> QED
      BY <3>1
  <2>9. o + n <= l
    <3>1. url_str = Behind(text, c)
      BY <2>2 DEF Scanned
    <3>2. Len(Behind(text, c)) = l
      BY <1>1, <2>7, <2>8, BehindPart
    <3> QED
      BY <2>3, <2>4, <3>1, <3>2
  <2>10. PICK d \in 0 .. Len(text) :
           Scanned(text, Behind(url_str, o + n), Append(seen, LinkAt(url_str, o)), d)
    BY <1>1, <2>2, <2>4, <2>6, <2>7, <2>8, <2>9, ScanRound
  <2> QED
    BY <2>1, <2>5, <2>10 DEF ScanOf
<1>4. CASE EndScan
  <2>1. /\ pc = "scan" /\ ~Matches
        /\ text' = text /\ url_str' = url_str /\ seen' = seen
    BY <1>4 DEF EndScan
  <2>2. PICK c \in 0 .. Len(text) : Scanned(text, url_str, seen, c)
    BY <2>1 DEF ScanOf
  <2>3. PICK l \in Nat : Len(text) = c + l /\ c \in Nat
    <3>1. Len(text) - c \in Nat /\ Len(text) = c + (Len(text) - c) /\ c \in Nat
      BY <1>1, <2>2
    <3> QED
      BY <3>1
  <2>4. \A p \in StartsIn(text) : p <= c
    BY <1>1, <2>1, <2>2, <2>3, ScanEnds
  <2> QED
    BY <2>1, <2>2, <2>4 DEF ScanOf
<1>5. CASE HandleUrlThrows \/ Pop
  BY <1>5 DEF HandleUrlThrows, Pop, ScanOf
<1> QED
  BY <1>2, <1>3, <1>4, <1>5 DEF Next

LEMMA ScanInvariance == Spec => [](LinksInv /\ ScanInv)
<1>1. Init => LinksInv /\ ScanInv
  BY LinksInit DEF Init, ScanInv
<1>2. LinksInv => (ScanInv <=> ScanOf(text, url_str, seen, pc))
  BY ScanInvIs DEF LinksInv, TypeOK
<1>3. (LinksInv => (ScanInv <=> ScanOf(text, url_str, seen, pc)))'
  BY <1>2, PTL
<1>4. ASSUME LinksInv, ScanInv, [Next]_vars PROVE (LinksInv /\ ScanInv)'
  <2>1. LinksInv'
    BY <1>4, LinksStep
  <2>2. ScanOf(text, url_str, seen, pc)
    BY <1>2, <1>4
  <2>3. ScanOf(text', url_str', seen', pc')
    <3>1. CASE Next
      BY <1>4, <2>1, <2>2, <3>1, ScanStep
    <3>2. CASE UNCHANGED vars
      BY <2>2, <3>2 DEF vars
    <3> QED
      BY <1>4, <3>1, <3>2
  <2> QED
    BY <1>3, <2>1, <2>3
<1> QED
  BY <1>1, <1>4, PTL DEF Spec

LEMMA OnceImplied == LinksInv /\ ScanInv => EveryLinkOnce
<1> SUFFICES ASSUME LinksInv, ScanInv, pc = "next" PROVE EveryLinkOnce
  BY DEF EveryLinkOnce
<1>1. PICK c \in 0 .. Len(text) :
        /\ Len(seen) = Cardinality({p \in LinkStarts : p <= c})
        /\ \A p \in LinkStarts : p <= c =>
             seen[Cardinality({q \in LinkStarts : q <= p})] = LinkAt(text, p)
        /\ \A p \in LinkStarts : p <= c
  BY DEF ScanInv
<1>2. {p \in LinkStarts : p <= c} = LinkStarts
  BY <1>1
<1> QED
  BY <1>1, <1>2 DEF EveryLinkOnce

LEMMA LinksInvariance == Spec => []LinksInv
<1>1. Init => LinksInv
  BY LinksInit
<1>2. LinksInv /\ [Next]_vars => LinksInv'
  BY LinksStep
<1> QED
  BY <1>1, <1>2, PTL DEF Spec

\* Whatever pages contain, a request is for a target that begins with a '/' or
\* is empty, and that has no query and no fragment.
THEOREM LinksTyped == Spec => []TypeOK
<1>1. LinksInv => TypeOK
  BY DEF LinksInv
<1> QED
  BY <1>1, LinksInvariance, PTL

\* A link without a scheme never takes the crawl off the host of its page, on
\* paths of any length, over pages with any text.
THEOREM HostIsKept == Spec => []StaysOnHost
BY StaysImplied, LinksInvariance, PTL

\* A browser finds what was fetched behind exactly the results without a scheme
\* of their own, a query and an escape, for pages and start URLs of any text.
THEOREM ResultsWhereTheyLead == Spec => []ResultsLeadThere
BY ResultsImplied, LinksInvariance, PTL

\* A link of a page, or start_url, ends the program for one of the listed
\* reasons only: any other entry has a host and a target for its request.
THEOREM ReasonsAreAll == Spec => []EndsForAReason
BY EndsImplied, LinksInvariance, PTL

\* The loop over the suffixes finds every link of a page once and in order,
\* whatever the page contains: also where a link ends at the <a href=" of the
\* next, or at the end of the page.
THEOREM EveryLinkFoundOnce == Spec => []EveryLinkOnce
BY OnceImplied, ScanInvariance, PTL
=============================================================================
