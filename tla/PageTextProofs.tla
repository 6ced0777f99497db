--------------------------- MODULE PageTextProofs ---------------------------
(***************************************************************************)
(* Proofs about PageText, for texts of any length: the words that are      *)
(* counted are those of the page.                                          *)
(***************************************************************************)
EXTENDS PageText, FiniteSetTheorems, SequenceTheorems, WellFoundedInduction, TLAPS

LEMMA HasLeast ==
  ASSUME NEW S \in SUBSET Nat, S # {}
  PROVE  \E n \in S : \A m \in S : n <= m
<1> DEFINE R == {p \in Nat \X Nat : p[1] < p[2]}
<1>1. IsWellFoundedOn(R, Nat)
  BY NatLessThanWellFounded DEF OpToRel
<1>2. PICK n \in S : \A m \in S : ~ (<<m, n>> \in R)
  <2> HIDE DEF R
  <2> QED
    BY <1>1, WFMin
<1>3. ASSUME NEW m \in S PROVE n <= m
  <2>1. m \in Nat /\ n \in Nat
    OBVIOUS
  <2>2. <<m, n>> \in R <=> m < n
    BY <2>1
  <2> QED
    BY <1>2, <2>1, <2>2
<1> QED
  BY <1>3

\* The empty words, between two spaces, are too short.
LEMMA EmptyIsDropped == ~Kept(<<>>)
<1> DEFINE w == <<>>
           Fold(f) == f = [s \in SUBSET DOMAIN w |->
                             IF s = {} THEN 0
                             ELSE LET x == CHOOSE y \in s : TRUE
                                  IN  f[s \ {x}] + Width[w[x]]]
<1>1. Size(w) = (CHOOSE f : Fold(f))[DOMAIN w]
  BY DEF Size, FoldFunction, FoldFunctionOnSet, MapThenFoldSet
<1>2. DOMAIN w = {} /\ SUBSET DOMAIN w = {{}}
  OBVIOUS
<1>3. \E f : Fold(f)
  <2> DEFINE g == [s \in {{}} |-> 0]
  <2>1. Fold(g)
    BY <1>2
  <2> QED
    BY <2>1
<1> DEFINE h == CHOOSE f : Fold(f)
<1>4. Fold(h)
  BY <1>3
<1>5. h[{}] = 0
  BY <1>2, <1>4
<1>6. Size(w) = h[{}]
  BY <1>1, <1>2
<1> HIDE DEF h
<1>7. Size(w) = 0
  BY <1>5, <1>6
<1> QED
  BY SMTT(30), <1>7 DEF Kept

FirstFrom(s, a, cs, n) ==
  /\ n \in a .. Len(s) + 1
  /\ \A k \in a .. n - 1 : s[k] \notin cs
  /\ n <= Len(s) => s[n] \in cs

LEMMA Next1Is ==
  ASSUME NEW s \in Seq(Char), NEW a \in Nat \ {0}, a <= Len(s) + 1, NEW cs
  PROVE  FirstFrom(s, a, cs, Next1(s, a, cs))
<1> DEFINE Stop(n) == /\ \A k \in a .. n - 1 : s[k] \notin cs
                      /\ n <= Len(s) => s[n] \in cs
           P == {n \in a .. Len(s) + 1 : n <= Len(s) => s[n] \in cs}
           f == CHOOSE n \in a .. Len(s) + 1 : Stop(n)
<1>1. PICK m \in P : \A o \in P : m <= o
  <2>1. P \in SUBSET Nat /\ Len(s) + 1 \in P
    OBVIOUS
  <2> HIDE DEF P
  <2> QED
    BY <2>1, HasLeast
<1>2. m \in a .. Len(s) + 1 /\ Stop(m)
  <2>1. m \in a .. Len(s) + 1 /\ (m <= Len(s) => s[m] \in cs)
    OBVIOUS
  <2>2. ASSUME NEW k \in a .. m - 1 PROVE s[k] \notin cs
    <3>1. k \notin P /\ k \in a .. Len(s) + 1
      BY <1>1, <2>1
    <3> QED
      BY <3>1
  <2> QED
    BY <2>1, <2>2
<1>3. f \in a .. Len(s) + 1 /\ Stop(f)
  <2> HIDE DEF Stop
  <2> QED
    BY <1>2
<1>4. Next1(s, a, cs) = f
  BY DEF Next1
<1> HIDE DEF f
<1> QED
  BY <1>3, <1>4 DEF FirstFrom

-----------------------------------------------------------------------------
(***************************************************************************)
(* The text of a page and what is made of it: t is a copy of the places    *)
(* from f to e of s, with a space for markup.  x says which place each of  *)
(* its characters stands for; of markup it is the last one.                *)
(***************************************************************************)

Tagged(s, k) ==
  /\ \E z \in k .. Len(s) : s[z] = Gt
  /\ \E a \in 1 .. k : s[a] = Lt /\ \A b \in a .. k - 1 : s[b] # Gt

Gap(s, k) == k \notin 1 .. Len(s) \/ Tagged(s, k) \/ s[k] = Space

Copies(s, f, e, t, x) ==
  /\ x \in [1 .. Len(t) -> f .. e]
  /\ \A j, k \in 1 .. Len(t) : j < k => x[j] < x[k]
  /\ \A k \in 1 .. Len(t) : t[k] = IF Gap(s, x[k]) THEN Space ELSE s[x[k]]
  /\ \A p \in f .. e : ~Gap(s, p) => \E k \in 1 .. Len(t) : x[k] = p
  /\ \A p \in f .. e : Gap(s, p) =>
       \E k \in 1 .. Len(t) : p <= x[k] /\ \A r \in p .. x[k] : Gap(s, r)

\* Copies of adjacent parts.
LEMMA CopiesJoin ==
  ASSUME NEW s \in Seq(Char), NEW f \in Nat, NEW m \in Nat, NEW e \in Nat,
         f <= m + 1, m <= e, NEW t \in Seq(Char), NEW u \in Seq(Char),
         NEW x, Copies(s, f, m, t, x), NEW y, Copies(s, m + 1, e, u, y)
  PROVE  \E z : Copies(s, f, e, t \o u, z)
<1> DEFINE w == t \o u
           z == [k \in 1 .. Len(w) |-> IF k <= Len(t) THEN x[k] ELSE y[k - Len(t)]]
<1>1. PICK a \in Nat, b \in Nat : a = Len(t) /\ b = Len(u)
  OBVIOUS
<1>2. Len(w) = a + b /\ \A k \in 1 .. a + b : w[k] = IF k <= a THEN t[k] ELSE u[k - a]
  BY <1>1, ConcatProperties
<1>3. \A k \in 1 .. a : k \in 1 .. a + b /\ k <= a
  OBVIOUS
<1>4. \A k \in 1 .. b : a + k \in 1 .. a + b /\ ~ a + k <= a /\ a + k - a = k
  OBVIOUS
<1>5. z \in [1 .. a + b -> {z[k] : k \in 1 .. a + b}]
      /\ \A k \in 1 .. a + b : z[k] = IF k <= a THEN x[k] ELSE y[k - a]
  BY <1>1, <1>2
<1> HIDE DEF w, z
<1>6. \A k \in 1 .. a : w[k] = t[k] /\ z[k] = x[k]
  BY <1>2, <1>3, <1>5
<1>7. ASSUME NEW k \in 1 .. b PROVE w[a + k] = u[k] /\ z[a + k] = y[k]
  <2>1. PICK i \in 1 .. a + b : i = a + k /\ ~ i <= a /\ i - a = k
    BY <1>4
  <2>2. w[i] = u[i - a] /\ z[i] = y[i - a]
    BY <1>2, <1>5, <2>1
  <2> QED
    BY <2>1, <2>2
<1>8. \A k \in 1 .. a : x[k] \in f .. m
  BY <1>1 DEF Copies
<1>9. \A k \in 1 .. b : y[k] \in m + 1 .. e
  BY <1>1 DEF Copies
<1>10. ASSUME NEW k \in 1 .. a + b, k \notin 1 .. a
       PROVE  \E i \in 1 .. b : k = a + i
  <2>1. k - a \in 1 .. b /\ k = a + (k - a)
    BY <1>10
  <2> QED
    BY <2>1
<1>11. ASSUME NEW k \in 1 .. a + b PROVE z[k] \in f .. e
  <2>1. CASE k \in 1 .. a
    BY <1>6, <1>8, <2>1
  <2>2. CASE k \notin 1 .. a
    <3>1. PICK i \in 1 .. b : k = a + i
      BY <1>10, <2>2
    <3>2. y[i] \in f .. e
      BY <1>9
    <3> QED
      BY <1>7, <3>1, <3>2
  <2> QED
    BY <2>1, <2>2
<1>12. ASSUME NEW j \in 1 .. a + b, NEW k \in 1 .. a + b, j < k PROVE z[j] < z[k]
  <2>1. CASE k \in 1 .. a
    <3>1. j \in 1 .. a
      BY <1>12, <2>1
    <3>2. x[j] < x[k]
      BY <1>1, <1>12, <2>1, <3>1 DEF Copies
    <3> QED
      BY <1>6, <2>1, <3>1, <3>2
  <2>2. CASE k \notin 1 .. a /\ j \in 1 .. a
    <3>1. PICK i \in 1 .. b : k = a + i
      BY <1>10, <2>2
    <3>2. x[j] \in f .. m /\ y[i] \in m + 1 .. e
      BY <1>8, <1>9, <2>2
    <3>3. x[j] < y[i]
      BY <3>2
    <3> QED
      BY <1>6, <1>7, <2>2, <3>1, <3>3
  <2>3. CASE k \notin 1 .. a /\ j \notin 1 .. a
    <3>1. PICK i \in 1 .. b, h \in 1 .. b : k = a + i /\ j = a + h
      BY <1>10, <2>3
    <3>2. h < i
      BY <1>12, <3>1
    <3>3. y[h] < y[i]
      BY <1>1, <3>2 DEF Copies
    <3> QED
      BY <1>7, <3>1, <3>3
  <2> QED
    BY <2>1, <2>2, <2>3
<1>13. ASSUME NEW k \in 1 .. a + b
       PROVE  w[k] = IF Gap(s, z[k]) THEN Space ELSE s[z[k]]
  <2>1. CASE k \in 1 .. a
    BY <1>1, <1>6, <2>1 DEF Copies
  <2>2. CASE k \notin 1 .. a
    <3>1. PICK i \in 1 .. b : k = a + i
      BY <1>10, <2>2
    <3>2. u[i] = IF Gap(s, y[i]) THEN Space ELSE s[y[i]]
      BY <1>1 DEF Copies
    <3> QED
      BY <1>7, <3>1, <3>2
  <2> QED
    BY <2>1, <2>2
<1>14. ASSUME NEW p \in f .. e PROVE p \in f .. m \/ p \in m + 1 .. e
  OBVIOUS
<1>15. ASSUME NEW p \in f .. e, ~Gap(s, p)
       PROVE  \E k \in 1 .. a + b : z[k] = p
  <2>1. CASE p \in f .. m
    <3>1. PICK k \in 1 .. a : x[k] = p
      BY <1>1, <1>15, <2>1 DEF Copies
    <3> QED
      BY <1>3, <1>6, <3>1
  <2>2. CASE p \in m + 1 .. e
    <3>1. PICK k \in 1 .. b : y[k] = p
      BY <1>1, <1>15, <2>2 DEF Copies
    <3> QED
      BY <1>4, <1>7, <3>1
  <2> QED
    BY <1>14, <2>1, <2>2
<1>16. ASSUME NEW p \in f .. e, Gap(s, p)
       PROVE  \E k \in 1 .. a + b : p <= z[k] /\ \A r \in p .. z[k] : Gap(s, r)
  <2>1. CASE p \in f .. m
    <3>1. PICK k \in 1 .. a : p <= x[k] /\ \A r \in p .. x[k] : Gap(s, r)
      BY <1>1, <1>16, <2>1 DEF Copies
    <3>2. z[k] = x[k]
      BY <1>6
    <3> QED
      BY <1>3, <3>1, <3>2
  <2>2. CASE p \in m + 1 .. e
    <3>1. PICK k \in 1 .. b : p <= y[k] /\ \A r \in p .. y[k] : Gap(s, r)
      BY <1>1, <1>16, <2>2 DEF Copies
    <3>2. z[a + k] = y[k] /\ a + k \in 1 .. a + b
      BY <1>4, <1>7
    <3> QED
      BY <3>1, <3>2
  <2> QED
    BY <1>14, <2>1, <2>2
<1>17. Copies(s, f, e, w, z)
  <2>1. z \in [1 .. a + b -> f .. e]
    BY <1>5, <1>11
  <2> QED
    BY <1>2, <1>12, <1>13, <1>15, <1>16, <2>1 DEF Copies
<1> QED
  BY <1>17 DEF w

\* Text without markup is copied as it is.
LEMMA CopiesText ==
  ASSUME NEW s \in Seq(Char), NEW i \in Nat \ {0}, NEW j \in Nat,
         i <= j + 1, j <= Len(s), \A p \in i .. j : ~Tagged(s, p)
  PROVE  SubSeq(s, i, j) \in Seq(Char) /\ \E x : Copies(s, i, j, SubSeq(s, i, j), x)
<1> DEFINE t == SubSeq(s, i, j)
           x == [k \in 1 .. Len(t) |-> i + k - 1]
<1>1. PICK n \in Nat : j - i + 1 = n
  <2>1. j - i + 1 \in Nat
    OBVIOUS
  <2> QED
    BY <2>1
<1>2. \A k \in i .. j : k \in 1 .. Len(s) /\ s[k] \in Char
  OBVIOUS
<1>3. /\ t \in Seq(Char) /\ Len(t) = n
      /\ \A k \in 1 .. n : t[k] = s[i + k - 1]
  <2>1. /\ t \in Seq(Char) /\ Len(t) = (IF i <= j THEN j - i + 1 ELSE 0)
        /\ \A k \in 1 .. j - i + 1 : t[k] = s[i + k - 1]
    BY <1>2, SubSeqProperties
  <2> HIDE DEF t
  <2> QED
    BY <1>1, <2>1
<1> HIDE DEF t
<1>4. /\ x \in [1 .. n -> i .. j]
      /\ \A k \in 1 .. n : x[k] = i + k - 1
  BY <1>1, <1>3
<1> HIDE DEF x
<1>5. \A h, k \in 1 .. n : h < k => x[h] < x[k]
  BY <1>4
<1>6. \A k \in 1 .. n : t[k] = s[x[k]]
  BY <1>3, <1>4
<1>7. \A p \in i .. j : Gap(s, p) => s[p] = Space
  BY <1>2 DEF Gap
<1>8. \A k \in 1 .. n : t[k] = IF Gap(s, x[k]) THEN Space ELSE s[x[k]]
  BY <1>4, <1>6, <1>7
<1>9. ASSUME NEW p \in i .. j
      PROVE  \E k \in 1 .. n : x[k] = p
  <2>1. p - i + 1 \in 1 .. n /\ i + (p - i + 1) - 1 = p
    BY <1>1
  <2> QED
    BY <1>4, <2>1
<1>10. ASSUME NEW p \in i .. j, Gap(s, p)
       PROVE  \E k \in 1 .. n : p <= x[k] /\ \A r \in p .. x[k] : Gap(s, r)
  <2>1. PICK k \in 1 .. n : x[k] = p
    BY <1>9
  <2>2. p <= p /\ \A r \in p .. p : r = p
    OBVIOUS
  <2> QED
    BY <1>10, <2>1, <2>2
<1>11. Copies(s, i, j, t, x)
  BY <1>3, <1>4, <1>5, <1>8, <1>9, <1>10 DEF Copies
<1> QED
  BY <1>3, <1>11 DEF t

\* Markup becomes a space, which stands for its last place.
LEMMA CopiesTag ==
  ASSUME NEW s \in Seq(Char), NEW a \in Nat \ {0}, NEW z \in Nat,
         a <= z, z <= Len(s), \A p \in a .. z : Tagged(s, p)
  PROVE  <<Space>> \in Seq(Char) /\ \E x : Copies(s, a, z, <<Space>>, x)
<1> DEFINE x == [k \in 1 .. 1 |-> z]
<1>1. <<Space>> \in Seq(Char) /\ Len(<<Space>>) = 1 /\ <<Space>>[1] = Space
  BY CharAssumption
<1>2. \A k \in 1 .. 1 : k = 1
  OBVIOUS
<1>3. x \in [1 .. 1 -> a .. z] /\ x[1] = z
  OBVIOUS
<1> HIDE DEF x
<1>4. \A p \in a .. z : Gap(s, p)
  BY DEF Gap
<1>5. \A j, k \in 1 .. 1 : j < k => x[j] < x[k]
  OBVIOUS
<1>6. z \in a .. z /\ 1 \in 1 .. 1
  OBVIOUS
<1>7. \A k \in 1 .. 1 : <<Space>>[k] = IF Gap(s, x[k]) THEN Space ELSE s[x[k]]
  BY <1>1, <1>2, <1>3, <1>4, <1>6
<1>8. ASSUME NEW p \in a .. z
      PROVE  p <= x[1] /\ \A r \in p .. x[1] : Gap(s, r)
  <2>1. p <= z /\ \A r \in p .. z : r \in a .. z
    OBVIOUS
  <2> QED
    BY <1>3, <1>4, <2>1
<1>9. Copies(s, a, z, <<Space>>, x)
  BY <1>1, <1>3, <1>4, <1>5, <1>6, <1>7, <1>8 DEF Copies
<1> QED
  BY <1>1, <1>9

\* Behind a '>', or at the beginning, text is text up to the next '<'.
LEMMA TextIsText ==
  ASSUME NEW s \in Seq(Char), NEW i \in Nat \ {0}, i = 1 \/ s[i - 1] = Gt,
         NEW k \in i .. Len(s), \A q \in i .. k : s[q] # Lt
  PROVE  ~Tagged(s, k)
<1> SUFFICES ASSUME NEW a \in 1 .. k, s[a] = Lt, \A b \in a .. k - 1 : s[b] # Gt
             PROVE  FALSE
  BY DEF Tagged
<1>1. a < i
  <2>1. a \notin i .. k
    OBVIOUS
  <2> QED
    BY <2>1
<1>2. i # 1 /\ i - 1 \in a .. k - 1
  BY <1>1
<1> QED
  BY <1>2

LEMMA TagIsTag ==
  ASSUME NEW s \in Seq(Char), NEW a \in 1 .. Len(s), NEW z \in a .. Len(s),
         s[a] = Lt, s[z] = Gt, \A b \in a .. z - 1 : s[b] # Gt, NEW k \in a .. z
  PROVE  Tagged(s, k)
<1>1. z \in k .. Len(s) /\ a \in 1 .. k
  OBVIOUS
<1>2. \A b \in a .. k - 1 : b \in a .. z - 1
  OBVIOUS
<1> QED
  BY <1>1, <1>2 DEF Tagged

\* CleanText up to the place i, behind a match.
Cleaned(s, i, t) ==
  /\ i \in 1 .. Len(s) + 1
  /\ i = 1 \/ s[i - 1] = Gt
  /\ \E x : Copies(s, 1, i - 1, t, x)

LEMMA CleanTag ==
  ASSUME NEW s \in Seq(Char), NEW t \in Seq(Char), NEW i, Cleaned(s, i, t),
         NEW a, FirstFrom(s, i, {Lt}, a), NEW z, FirstFrom(s, a, {Gt}, z), z <= Len(s)
  PROVE  /\ t \o SubSeq(s, i, a - 1) \o <<Space>> \in Seq(Char)
         /\ Cleaned(s, z + 1, t \o SubSeq(s, i, a - 1) \o <<Space>>)
<1> DEFINE u == SubSeq(s, i, a - 1)
           v == <<Space>>
<1>1. i \in Nat \ {0} /\ (i = 1 \/ s[i - 1] = Gt)
  BY DEF Cleaned
<1>2. a \in Nat \ {0} /\ i <= a /\ \A q \in i .. a - 1 : s[q] # Lt
  BY <1>1 DEF FirstFrom
<1>3. z \in a .. Len(s) /\ s[z] = Gt /\ \A q \in a .. z - 1 : s[q] # Gt
  BY <1>2 DEF FirstFrom
<1>4. a \in 1 .. Len(s) /\ s[a] = Lt
  BY <1>2, <1>3 DEF FirstFrom
<1>5. PICK h \in Nat, j \in Nat : h = i - 1 /\ j = a - 1
  BY <1>1, <1>2
<1>6. i = h + 1 /\ a = j + 1 /\ i <= j + 1 /\ j < Len(s) /\ 1 <= h + 1 /\ h <= j
  BY <1>1, <1>2, <1>4, <1>5
<1>7. \A p \in i .. j : ~Tagged(s, p)
  <2>1. \A p \in i .. j : p \in i .. Len(s) /\ \A q \in i .. p : q \in i .. a - 1
    BY <1>5, <1>6
  <2> QED
    BY <1>1, <1>2, <2>1, TextIsText
<1>8. \A p \in a .. z : Tagged(s, p)
  BY <1>3, <1>4, TagIsTag
<1>9. u \in Seq(Char) /\ \E x : Copies(s, h + 1, j, u, x)
  <2>1. j <= Len(s)
    BY <1>6
  <2>2. SubSeq(s, i, j) \in Seq(Char) /\ \E x : Copies(s, i, j, SubSeq(s, i, j), x)
    BY <1>1, <1>6, <1>7, <2>1, CopiesText
  <2> QED
    BY <1>5, <1>6, <2>2
<1>10. v \in Seq(Char) /\ \E x : Copies(s, j + 1, z, v, x)
  <2>1. z \in Nat /\ a <= z /\ z <= Len(s)
    BY <1>2, <1>3
  <2>2. <<Space>> \in Seq(Char) /\ \E x : Copies(s, a, z, <<Space>>, x)
    BY <1>2, <1>8, <2>1, CopiesTag
  <2> QED
    BY <1>6, <2>2
<1>11. \E x : Copies(s, 1, h, t, x)
  BY <1>5 DEF Cleaned
<1> HIDE DEF u, v
<1>12. t \o u \in Seq(Char) /\ \E x : Copies(s, 1, j, t \o u, x)
  <2>1. 1 \in Nat
    OBVIOUS
  <2> QED
    BY <1>6, <1>9, <1>11, <2>1, CopiesJoin, ConcatProperties
<1>13. t \o u \o v \in Seq(Char) /\ \E x : Copies(s, 1, z, t \o u \o v, x)
  <2>1. 1 \in Nat /\ z \in Nat /\ 1 <= j + 1 /\ j <= z
    BY <1>2, <1>3, <1>6
  <2> QED
    BY <1>10, <1>12, <2>1, CopiesJoin, ConcatProperties
<1>14. z + 1 \in 1 .. Len(s) + 1 /\ z + 1 - 1 = z
  BY <1>2, <1>3
<1>15. Cleaned(s, z + 1, t \o u \o v)
  BY <1>3, <1>13, <1>14 DEF Cleaned
<1> QED
  BY <1>13, <1>15 DEF u, v

LEMMA CleanRest ==
  ASSUME NEW s \in Seq(Char), NEW t \in Seq(Char), NEW i, Cleaned(s, i, t),
         NEW a, FirstFrom(s, i, {Lt}, a), NEW z, FirstFrom(s, a, {Gt}, z), z > Len(s)
  PROVE  /\ t \o SubSeq(s, i, Len(s)) \in Seq(Char)
         /\ \E x : Copies(s, 1, Len(s), t \o SubSeq(s, i, Len(s)), x)
<1> DEFINE u == SubSeq(s, i, Len(s))
<1>1. i \in Nat \ {0} /\ (i = 1 \/ s[i - 1] = Gt) /\ i <= Len(s) + 1
  BY DEF Cleaned
<1>2. a \in Nat \ {0} /\ i <= a /\ \A q \in i .. a - 1 : s[q] # Lt
  BY <1>1 DEF FirstFrom
<1>3. \A q \in a .. Len(s) : s[q] # Gt
  <2>1. z = Len(s) + 1
    BY <1>2 DEF FirstFrom
  <2> QED
    BY <2>1 DEF FirstFrom
<1>4. \A p \in i .. Len(s) : ~Tagged(s, p)
  <2> SUFFICES ASSUME NEW p \in i .. Len(s) PROVE ~Tagged(s, p)
    OBVIOUS
  <2>1. CASE p < a
    <3>1. \A q \in i .. p : q \in i .. a - 1
      BY <1>1, <1>2, <2>1
    <3> QED
      BY <1>1, <1>2, <3>1, TextIsText
  <2>2. CASE p >= a
    <3>1. \A q \in p .. Len(s) : q \in a .. Len(s)
      BY <1>1, <1>2, <2>2
    <3> QED
      BY <1>3, <3>1 DEF Tagged
  <2> QED
    BY <1>1, <1>2, <2>1, <2>2
<1>5. PICK h \in Nat, e \in Nat : h = i - 1 /\ e = Len(s)
  BY <1>1
<1>6. i = h + 1 /\ h + 1 <= e + 1 /\ h <= e
  BY <1>1, <1>5
<1>7. u \in Seq(Char) /\ \E x : Copies(s, h + 1, e, u, x)
  <2>1. i <= e + 1 /\ e <= Len(s) /\ \A p \in i .. e : ~Tagged(s, p)
    BY <1>4, <1>5, <1>6
  <2>2. SubSeq(s, i, e) \in Seq(Char) /\ \E x : Copies(s, i, e, SubSeq(s, i, e), x)
    BY <1>1, <2>1, CopiesText
  <2> QED
    BY <1>5, <1>6, <2>2
<1>8. \E x : Copies(s, 1, h, t, x)
  BY <1>5 DEF Cleaned
<1> HIDE DEF u
<1>9. t \o u \in Seq(Char) /\ \E x : Copies(s, 1, e, t \o u, x)
  <2>1. 1 \in Nat /\ 1 <= h + 1
    OBVIOUS
  <2> QED
    BY <1>6, <1>7, <1>8, <2>1, CopiesJoin, ConcatProperties
<1> QED
  BY <1>5, <1>9 DEF u

-----------------------------------------------------------------------------
(***************************************************************************)
(* One round of the loop over the words: t is a copy of what follows the   *)
(* place b, which belongs to no word, and n is the first space in t.       *)
(***************************************************************************)

WordAhead(s, b, t, x, n) ==
  /\ s \in Seq(Char) /\ t \in Seq(Char)
  /\ b \in 0 .. Len(s)
  /\ Copies(s, b + 1, Len(s), t, x)
  /\ FirstFrom(t, 1, {Space}, n)

LEMMA AheadTyped ==
  ASSUME NEW s, NEW b, NEW t, NEW x, NEW n, WordAhead(s, b, t, x, n)
  PROVE  /\ s \in Seq(Char) /\ t \in Seq(Char) /\ Len(s) \in Nat /\ Len(t) \in Nat
         /\ b \in Nat /\ b <= Len(s) /\ n \in Nat \ {0} /\ n <= Len(t) + 1
         /\ \A k \in 1 .. Len(t) : x[k] \in Nat /\ b < x[k] /\ x[k] <= Len(s)
         /\ \A j, k \in 1 .. Len(t) : j < k => x[j] < x[k]
         /\ \A k \in 1 .. n - 1 : k \in 1 .. Len(t) /\ ~Gap(s, x[k])
         /\ n <= Len(t) => n \in 1 .. Len(t) /\ Gap(s, x[n])
<1>1. /\ s \in Seq(Char) /\ t \in Seq(Char) /\ b \in 0 .. Len(s)
      /\ Copies(s, b + 1, Len(s), t, x) /\ FirstFrom(t, 1, {Space}, n)
  BY DEF WordAhead
<1>2. Len(s) \in Nat /\ Len(t) \in Nat /\ b \in Nat /\ b <= Len(s)
  BY <1>1
<1>3. n \in Nat \ {0} /\ n <= Len(t) + 1
  BY <1>1, <1>2 DEF FirstFrom
<1>4. \A k \in 1 .. Len(t) : x[k] \in b + 1 .. Len(s)
  BY <1>1 DEF Copies
<1>5. \A j, k \in 1 .. Len(t) : j < k => x[j] < x[k]
  BY <1>1 DEF Copies
<1>6. ASSUME NEW k \in 1 .. n - 1 PROVE k \in 1 .. Len(t) /\ ~Gap(s, x[k])
  <2>1. k \in 1 .. Len(t)
    BY <1>2, <1>3
  <2>2. t[k] # Space
    BY <1>1 DEF FirstFrom
  <2> QED
    BY <1>1, <2>1, <2>2 DEF Copies
<1>7. ASSUME n <= Len(t) PROVE n \in 1 .. Len(t) /\ Gap(s, x[n])
  <2>1. n \in 1 .. Len(t)
    BY <1>2, <1>3, <1>7
  <2>2. t[n] = Space
    BY <1>1, <1>7 DEF FirstFrom
  <2>3. s[x[n]] = Space => Gap(s, x[n])
    BY DEF Gap
  <2>4. t[n] = IF Gap(s, x[n]) THEN Space ELSE s[x[n]]
    BY <1>1, <2>1 DEF Copies
  <2> QED
    BY <2>1, <2>2, <2>3, <2>4
<1>8. \A k \in 1 .. Len(t) : x[k] \in Nat /\ b < x[k] /\ x[k] <= Len(s)
  BY <1>2, <1>4
<1> QED
  BY <1>1, <1>2, <1>3, <1>5, <1>6, <1>7, <1>8

\* What is between two characters of the copy has been left out as a whole.
LEMMA LeftOut ==
  ASSUME NEW s, NEW b, NEW t, NEW x, NEW n, WordAhead(s, b, t, x, n),
         NEW p \in b + 1 .. Len(s)
  PROVE  \/ \E k \in 1 .. Len(t) : x[k] = p
         \/ Gap(s, p) /\ \E k \in 1 .. Len(t) : p <= x[k] /\ \A r \in p .. x[k] : Gap(s, r)
BY DEF WordAhead, Copies

\* The word is the text behind b.
LEMMA WordPlaces ==
  ASSUME NEW s, NEW b, NEW t, NEW x, NEW n, WordAhead(s, b, t, x, n)
  PROVE  \A k \in 1 .. n - 1 : x[k] = b + k /\ ~Gap(s, b + k)
<1>1. /\ Len(s) \in Nat /\ Len(t) \in Nat /\ b \in Nat /\ n \in Nat \ {0}
      /\ n <= Len(t) + 1
      /\ \A k \in 1 .. Len(t) : x[k] \in Nat /\ b < x[k] /\ x[k] <= Len(s)
  BY AheadTyped
<1>2. \A j, k \in 1 .. Len(t) : j < k => x[j] < x[k]
  BY AheadTyped
<1>3. \A k \in 1 .. n - 1 : k \in 1 .. Len(t) /\ ~Gap(s, x[k])
  BY AheadTyped
<1> DEFINE S == {k \in 1 .. n - 1 : x[k] # b + k}
<1>4. S = {}
  <2> SUFFICES ASSUME S # {} PROVE FALSE
    OBVIOUS
  <2>1. PICK m \in S : \A o \in S : m <= o
    <3>1. S \in SUBSET Nat
      OBVIOUS
    <3> HIDE DEF S
    <3> QED
      BY <3>1, HasLeast
  <2>2. m \in 1 .. n - 1 /\ x[m] # b + m /\ m \in 1 .. Len(t) /\ ~Gap(s, x[m])
    BY <1>3
  <2>3. ASSUME NEW j \in 1 .. m - 1 PROVE j \in 1 .. Len(t) /\ x[j] = b + j
    <3>1. j \in 1 .. n - 1 /\ ~ m <= j
      BY <1>1, <2>2
    <3> QED
      BY <1>3, <2>1, <3>1
  <2> HIDE DEF S
  <2>4. x[m] >= b + m
    <3>1. CASE m = 1
      BY <1>1, <2>2, <3>1
    <3>2. CASE m # 1
      <4>1. m - 1 \in 1 .. m - 1 /\ m - 1 < m
        BY <2>2, <3>2
      <4>2. x[m - 1] = b + (m - 1) /\ x[m - 1] < x[m]
        BY <1>2, <2>2, <2>3, <4>1
      <4> QED
        BY <1>1, <2>2, <4>2
    <3> QED
      BY <3>1, <3>2
  <2>5. PICK p \in Nat : p = b + m
    BY <1>1, <2>2
  <2>6. p < x[m] /\ p \in b + 1 .. Len(s)
    BY <1>1, <2>2, <2>4, <2>5
  <2>7. ASSUME NEW j \in 1 .. Len(t), x[j] >= p PROVE x[m] <= x[j]
    <3>1. j \notin 1 .. m - 1
      <4>1. ASSUME j \in 1 .. m - 1 PROVE x[j] = b + j /\ b + j < p
        BY <1>1, <2>2, <2>3, <2>5, <4>1
      <4> QED
        BY <1>1, <2>7, <4>1
    <3>2. j = m \/ m < j
      BY <2>2, <3>1
    <3> QED
      BY <1>1, <1>2, <2>2, <3>2
  <2>8. ~ \E k \in 1 .. Len(t) : x[k] = p
    BY <1>1, <2>2, <2>6, <2>7
  <2>9. PICK k \in 1 .. Len(t) : p <= x[k] /\ \A r \in p .. x[k] : Gap(s, r)
    BY <2>6, <2>8, LeftOut
  <2>10. x[m] \in p .. x[k]
    BY <1>1, <2>2, <2>6, <2>7, <2>9
  <2> QED
    BY <2>2, <2>9, <2>10
<1>5. \A k \in 1 .. n - 1 : x[k] = b + k
  BY <1>4
<1> HIDE DEF S
<1> QED
  BY <1>3, <1>5

\* Behind the word there is no other up to the place d of the space, or up to
\* the end of the page.
Behind(s, t, x, n, d) == IF n <= Len(t) THEN d = x[n] ELSE d = Len(s) + 1

LEMMA GapBehind ==
  ASSUME NEW s, NEW b, NEW t, NEW x, NEW n, WordAhead(s, b, t, x, n),
         NEW d, Behind(s, t, x, n, d)
  PROVE  d \in b + n .. Len(s) + 1 /\ \A p \in b + n .. d : Gap(s, p)
<1>1. /\ Len(s) \in Nat /\ Len(t) \in Nat /\ b \in Nat /\ b <= Len(s)
      /\ n \in Nat \ {0} /\ n <= Len(t) + 1
      /\ \A k \in 1 .. Len(t) : x[k] \in Nat /\ b < x[k] /\ x[k] <= Len(s)
  BY AheadTyped
<1>2. \A j, k \in 1 .. Len(t) : j < k => x[j] < x[k]
  BY AheadTyped
<1>3. n <= Len(t) => n \in 1 .. Len(t) /\ Gap(s, x[n])
  BY AheadTyped
<1>4. \A k \in 1 .. n - 1 : k \in 1 .. Len(t) /\ x[k] = b + k
  BY AheadTyped, WordPlaces
<1>5. n # 1 => n - 1 \in 1 .. Len(t) /\ x[n - 1] = b + (n - 1) /\ b + (n - 1) <= Len(s)
  <2> SUFFICES ASSUME n # 1
               PROVE  n - 1 \in 1 .. Len(t) /\ x[n - 1] = b + (n - 1) /\ b + (n - 1) <= Len(s)
    OBVIOUS
  <2>1. n - 1 \in 1 .. n - 1
    BY <1>1
  <2> QED
    BY <1>1, <1>4, <2>1
<1>6. d \in b + n .. Len(s) + 1
  <2>1. CASE n <= Len(t)
    <3>1. d = x[n] /\ d \in Nat /\ d <= Len(s)
      BY <1>1, <1>3, <2>1 DEF Behind
    <3>2. CASE n = 1
      BY <1>1, <1>3, <2>1, <3>1, <3>2
    <3>3. CASE n # 1
      <4>1. n - 1 < n /\ n \in 1 .. Len(t)
        BY <1>1, <1>3, <2>1
      <4>2. x[n - 1] < x[n]
        BY <1>2, <1>5, <3>3, <4>1
      <4> QED
        BY <1>1, <1>5, <3>1, <3>3, <4>2
    <3> QED
      BY <3>2, <3>3
  <2>2. CASE ~ n <= Len(t)
    <3>1. d = Len(s) + 1
      BY <2>2 DEF Behind
    <3> QED
      BY <1>1, <1>5, <3>1
  <2> QED
    BY <2>1, <2>2
<1>7. Gap(s, d)
  <2>1. CASE n <= Len(t)
    BY <1>3, <2>1 DEF Behind
  <2>2. CASE ~ n <= Len(t)
    <3>1. d = Len(s) + 1 /\ d \notin 1 .. Len(s)
      BY <1>1, <2>2 DEF Behind
    <3> QED
      BY <3>1 DEF Gap
  <2> QED
    BY <2>1, <2>2
<1>8. ASSUME NEW p \in b + n .. d, p # d, NEW k \in 1 .. Len(t), x[k] = p
      PROVE  FALSE
  <2>1. p < d /\ p \in Nat
    BY <1>1, <1>6, <1>8
  <2>2. k \notin 1 .. n - 1
    BY <1>1, <1>4, <1>8
  <2>3. n <= Len(t) /\ n <= k
    BY <1>1, <2>2
  <2>4. n \in 1 .. Len(t) /\ d = x[n]
    BY <1>3, <2>3 DEF Behind
  <2>5. k = n \/ n < k
    BY <1>1, <2>3
  <2> QED
    BY <1>1, <1>2, <1>8, <2>1, <2>4, <2>5
<1>9. ASSUME NEW p \in b + n .. d PROVE Gap(s, p)
  <2>1. CASE p = d
    BY <1>7, <2>1
  <2>2. CASE p # d
    <3>1. p \in b + 1 .. Len(s)
      BY <1>1, <1>6, <2>2
    <3> QED
      BY <1>8, <2>2, <3>1, LeftOut
  <2> QED
    BY <2>1, <2>2
<1> QED
  BY <1>6, <1>9

\* What is left to split is a copy of what follows the space.
LEMMA RestIsCopied ==
  ASSUME NEW s, NEW b, NEW t, NEW x, NEW n, WordAhead(s, b, t, x, n), n <= Len(t)
  PROVE  /\ SubSeq(t, n + 1, Len(t)) \in Seq(Char)
         /\ \E y : Copies(s, x[n] + 1, Len(s), SubSeq(t, n + 1, Len(t)), y)
<1>1. /\ s \in Seq(Char) /\ t \in Seq(Char)
      /\ Len(s) \in Nat /\ Len(t) \in Nat /\ b \in Nat /\ n \in Nat \ {0}
      /\ n \in 1 .. Len(t)
      /\ \A k \in 1 .. Len(t) : x[k] \in Nat /\ b < x[k] /\ x[k] <= Len(s)
  BY AheadTyped
<1>2. \A j, k \in 1 .. Len(t) : j < k => x[j] < x[k]
  BY AheadTyped
<1>3. PICK m \in Nat : Len(t) = n + m
  <2>1. Len(t) - n \in Nat /\ Len(t) = n + (Len(t) - n)
    BY <1>1
  <2> QED
    BY <2>1
<1> DEFINE u == SubSeq(t, n + 1, Len(t))
           y == [k \in 1 .. m |-> x[n + k]]
<1>4. /\ u \in Seq(Char) /\ Len(u) = m
      /\ \A k \in 1 .. m : u[k] = t[n + k]
  <2>1. PICK a \in Int, z \in Int : a = n + 1 /\ z = Len(t)
    BY <1>1
  <2>2. \A k \in a .. z : t[k] \in Char
    <3>1. \A k \in 1 .. Len(t) : t[k] \in Char
      BY <1>1
    <3>2. \A k \in a .. z : k \in 1 .. Len(t)
      BY <1>1, <2>1
    <3> QED
      BY <3>1, <3>2
  <2>3. /\ SubSeq(t, a, z) \in Seq(Char)
        /\ Len(SubSeq(t, a, z)) = (IF a <= z THEN z - a + 1 ELSE 0)
        /\ \A k \in 1 .. z - a + 1 : SubSeq(t, a, z)[k] = t[a + k - 1]
    BY <2>2, SubSeqProperties
  <2>4. z - a + 1 = m /\ (IF a <= z THEN z - a + 1 ELSE 0) = m
        /\ \A k \in 1 .. m : a + k - 1 = n + k
    BY <1>1, <1>3, <2>1
  <2>5. u = SubSeq(t, a, z)
    BY <2>1
  <2> HIDE DEF u
  <2> QED
    BY <2>3, <2>4, <2>5
<1> HIDE DEF u
<1>5. \A k \in 1 .. m : n + k \in 1 .. Len(t) /\ n < n + k
  BY <1>1, <1>3
<1>6. \A k \in 1 .. m : y[k] = x[n + k]
  OBVIOUS
<1>7. y \in [1 .. m -> x[n] + 1 .. Len(s)]
  <2>1. ASSUME NEW k \in 1 .. m PROVE x[n + k] \in x[n] + 1 .. Len(s)
    <3>1. PICK i \in 1 .. Len(t) : i = n + k /\ n < i
      BY <1>5
    <3>2. x[n] < x[i]
      BY <1>1, <1>2, <3>1
    <3>3. x[i] \in x[n] + 1 .. Len(s)
      BY <1>1, <3>2
    <3> QED
      BY <3>1, <3>3
  <2> QED
    BY <2>1
<1> HIDE DEF y
<1>8. ASSUME NEW j \in 1 .. m, NEW k \in 1 .. m, j < k PROVE y[j] < y[k]
  <2>1. PICK h \in 1 .. Len(t), i \in 1 .. Len(t) : h = n + j /\ i = n + k
    BY <1>5
  <2>2. h < i
    BY <1>1, <1>8, <2>1
  <2> QED
    BY <1>2, <1>6, <2>1, <2>2
<1>9. ASSUME NEW k \in 1 .. m
      PROVE  u[k] = IF Gap(s, y[k]) THEN Space ELSE s[y[k]]
  <2>1. PICK i \in 1 .. Len(t) : i = n + k
    BY <1>5
  <2>2. t[i] = IF Gap(s, x[i]) THEN Space ELSE s[x[i]]
    BY DEF WordAhead, Copies
  <2> QED
    BY <1>4, <1>6, <2>1, <2>2
<1>10. ASSUME NEW k \in 1 .. Len(t), x[k] > x[n]
       PROVE  \E i \in 1 .. m : y[i] = x[k]
  <2>1. ~ k < n /\ k # n
    BY <1>1, <1>2, <1>10
  <2>2. k - n \in 1 .. m /\ n + (k - n) = k
    BY <1>1, <1>3, <2>1
  <2>3. y[k - n] = x[k]
    BY <1>6, <2>2
  <2> QED
    BY <2>2, <2>3
<1>11. ASSUME NEW p \in x[n] + 1 .. Len(s)
       PROVE  p \in b + 1 .. Len(s) /\ p > x[n] /\ p \in Nat
  BY <1>1
<1>12. ASSUME NEW p \in x[n] + 1 .. Len(s), ~Gap(s, p)
       PROVE  \E k \in 1 .. m : y[k] = p
  <2>1. PICK k \in 1 .. Len(t) : x[k] = p
    BY <1>11, <1>12, LeftOut
  <2> QED
    BY <1>10, <1>11, <2>1
<1>13. ASSUME NEW p \in x[n] + 1 .. Len(s), Gap(s, p)
       PROVE  \E k \in 1 .. m : p <= y[k] /\ \A r \in p .. y[k] : Gap(s, r)
  <2>1. PICK k \in 1 .. Len(t) : p <= x[k] /\ \A r \in p .. x[k] : Gap(s, r)
    BY <1>11, <1>13 DEF WordAhead, Copies
  <2>2. x[k] > x[n]
    BY <1>1, <1>11, <2>1
  <2>3. PICK i \in 1 .. m : y[i] = x[k]
    BY <1>10, <2>2
  <2> QED
    BY <2>1, <2>3
<1>14. Copies(s, x[n] + 1, Len(s), u, y)
  BY <1>4, <1>7, <1>8, <1>9, <1>12, <1>13 DEF Copies
<1> QED
  BY <1>4, <1>14 DEF u

\* The word that is counted is the one of the page.
SameWord(s, b, t, n) == SubSeq(t, 1, n - 1) = SubSeq(s, b + 1, b + n - 1)

LEMMA WordIsText ==
  ASSUME NEW s, NEW b, NEW t, NEW x, NEW n, WordAhead(s, b, t, x, n)
  PROVE  SameWord(s, b, t, n)
<1>1. /\ s \in Seq(Char) /\ t \in Seq(Char)
      /\ Len(s) \in Nat /\ Len(t) \in Nat /\ b \in Nat /\ n \in Nat \ {0} /\ n <= Len(t) + 1
      /\ \A k \in 1 .. Len(t) : x[k] \in Nat /\ b < x[k] /\ x[k] <= Len(s)
  BY AheadTyped
<1>2. \A k \in 1 .. n - 1 : k \in 1 .. Len(t) /\ ~Gap(s, x[k]) /\ x[k] = b + k
  BY AheadTyped, WordPlaces
<1>3. PICK m \in Nat : m = n - 1
  <2>1. n - 1 \in Nat
    BY <1>1
  <2> QED
    BY <2>1
<1>4. /\ SubSeq(t, 1, m) \in Seq(Char) /\ Len(SubSeq(t, 1, m)) = m
      /\ \A k \in 1 .. m : SubSeq(t, 1, m)[k] = t[k]
  BY <1>1, <1>3
<1>5. PICK a \in Int, z \in Int : a = b + 1 /\ z = b + n - 1
  <2>1. b + 1 \in Int /\ b + n - 1 \in Int
    BY <1>1
  <2> QED
    BY <2>1
<1>6. ASSUME NEW k \in 1 .. m PROVE b + k \in 1 .. Len(s)
  <2>1. k \in 1 .. Len(t) /\ x[k] = b + k
    BY <1>2, <1>3
  <2>2. x[k] \in Nat /\ b < x[k] /\ x[k] <= Len(s)
    BY <1>1, <2>1
  <2> QED
    BY <1>1, <2>1, <2>2
<1>7. \A k \in a .. z : s[k] \in Char
  <2>1. \A k \in 1 .. Len(s) : s[k] \in Char
    BY <1>1
  <2>2. ASSUME NEW k \in a .. z PROVE k \in 1 .. Len(s)
    <3>1. k - b \in 1 .. m /\ b + (k - b) = k
      BY <1>1, <1>3, <1>5
    <3> QED
      BY <1>6, <3>1
  <2> QED
    BY <2>1, <2>2
<1>8. /\ SubSeq(s, a, z) \in Seq(Char)
      /\ Len(SubSeq(s, a, z)) = (IF a <= z THEN z - a + 1 ELSE 0)
      /\ \A k \in 1 .. z - a + 1 : SubSeq(s, a, z)[k] = s[a + k - 1]
  BY <1>7, SubSeqProperties
<1>9. z - a + 1 = m /\ (IF a <= z THEN z - a + 1 ELSE 0) = m
      /\ \A k \in 1 .. m : a + k - 1 = b + k
  BY <1>1, <1>3, <1>5
<1>10. \A k \in 1 .. m : t[k] = s[b + k]
  <2>1. ASSUME NEW k \in 1 .. Len(t)
        PROVE  t[k] = IF Gap(s, x[k]) THEN Space ELSE s[x[k]]
    BY DEF WordAhead, Copies
  <2> QED
    BY <1>2, <1>3, <2>1
<1>11. /\ Len(SubSeq(s, a, z)) = m
       /\ \A k \in 1 .. m : SubSeq(s, a, z)[k] = s[b + k]
  BY <1>8, <1>9
<1>12. SubSeq(t, 1, m) = SubSeq(s, a, z)
  BY <1>4, <1>8, <1>10, <1>11, SeqEqual
<1> QED
  BY <1>3, <1>5, <1>12 DEF SameWord

-----------------------------------------------------------------------------
(***************************************************************************)
(* The words of a text and their counts.                                   *)
(***************************************************************************)

WordsIn(s) ==
  {ab \in (1 .. Len(s)) \X (1 .. Len(s)) :
     /\ ab[1] <= ab[2]
     /\ \A k \in ab[1] .. ab[2] : ~Gap(s, k)
     /\ Gap(s, ab[1] - 1) /\ Gap(s, ab[2] + 1)}

LEMMA WordsFinite ==
  ASSUME NEW s \in Seq(Char), NEW K \in SUBSET WordsIn(s)
  PROVE  IsFiniteSet(K) /\ Cardinality(K) \in Nat
<1>1. IsFiniteSet((1 .. Len(s)) \X (1 .. Len(s)))
  <2>1. IsFiniteSet(1 .. Len(s))
    BY FS_Interval
  <2> QED
    BY <2>1, FS_Product
<1>2. K \in SUBSET ((1 .. Len(s)) \X (1 .. Len(s)))
  BY DEF WordsIn
<1> QED
  BY <1>1, <1>2, FS_Subset, FS_CardinalityType

\* Between b and d, which belong to no word, there is one, of n - 1 characters,
\* or none.
LEMMA NewWord ==
  ASSUME NEW s \in Seq(Char), NEW b \in 0 .. Len(s), Gap(s, b), NEW n \in Nat \ {0},
         \A k \in 1 .. n - 1 : ~Gap(s, b + k),
         NEW d \in b + n .. Len(s) + 1, \A p \in b + n .. d : Gap(s, p)
  PROVE  /\ n = 1 => \A ab \in WordsIn(s) : ab[2] <= d => ab[2] <= b
         /\ n # 1 => /\ <<b + 1, b + n - 1>> \in WordsIn(s)
                     /\ \A ab \in WordsIn(s) :
                          ab[2] <= d => ab[2] <= b \/ ab = <<b + 1, b + n - 1>>
<1>1. PICK c \in Nat, l \in Nat, m \in Nat : c = b /\ l = Len(s) /\ n = m + 1
  <2>1. b \in Nat /\ Len(s) \in Nat /\ n - 1 \in Nat /\ n = n - 1 + 1
    OBVIOUS
  <2> QED
    BY <2>1
<1>2. c + n = c + m + 1 /\ c + n - 1 = c + m /\ d \in Nat /\ c <= l /\ c + m + 1 <= d /\ d <= l + 1
  BY <1>1
<1>3. \A k \in c + 1 .. c + m : ~Gap(s, k)
  <2>1. ASSUME NEW k \in c + 1 .. c + m PROVE ~Gap(s, k)
    <3>1. k - b \in 1 .. n - 1 /\ b + (k - b) = k
      BY <1>1
    <3> QED
      BY <3>1
  <2> QED
    BY <2>1
<1>4. Gap(s, c) /\ \A p \in c + m + 1 .. d : Gap(s, p)
  BY <1>1, <1>2
<1>5. ASSUME NEW ab \in WordsIn(s), ab[2] <= d, ~ ab[2] <= c
      PROVE  m # 0 /\ ab = <<c + 1, c + m>>
  <2>1. /\ ab \in (1 .. l) \X (1 .. l) /\ ab[1] <= ab[2]
        /\ \A k \in ab[1] .. ab[2] : ~Gap(s, k)
        /\ Gap(s, ab[1] - 1) /\ Gap(s, ab[2] + 1)
    BY <1>1 DEF WordsIn
  <2>2. PICK u \in 1 .. l, v \in 1 .. l : ab = <<u, v>>
    BY <2>1
  <2>3. u <= v /\ v <= d /\ c < v /\ Gap(s, u - 1) /\ Gap(s, v + 1)
    BY <1>5, <2>1, <2>2
  <2>4. \A k \in u .. v : ~Gap(s, k)
    BY <2>1, <2>2
  <2>5. u > c
    <3>1. c \notin u .. v
      BY <1>4, <2>4
    <3> QED
      BY <2>3, <3>1
  <2>6. v <= c + m
    <3>1. v \notin c + m + 1 .. d
      <4>1. v \in u .. v
        BY <2>3
      <4> QED
        BY <1>4, <2>4, <4>1
    <3> QED
      BY <1>2, <2>3, <3>1
  <2>7. u = c + 1
    <3>1. u - 1 \notin c + 1 .. c + m
      BY <1>3, <2>3
    <3> QED
      BY <2>3, <2>5, <2>6, <3>1
  <2>8. v = c + m
    <3>1. v + 1 \notin c + 1 .. c + m
      BY <1>3, <2>3
    <3> QED
      BY <2>3, <2>6, <3>1
  <2> QED
    BY <2>2, <2>3, <2>7, <2>8
<1>6. ASSUME m # 0 PROVE <<c + 1, c + m>> \in WordsIn(s)
  <2>1. c + 1 \in 1 .. l /\ c + m \in 1 .. l /\ c + 1 <= c + m /\ c + 1 - 1 = c
    BY <1>2, <1>6
  <2>2. Gap(s, c + m + 1)
    BY <1>2, <1>4
  <2> DEFINE w == <<c + 1, c + m>>
  <2>3. w \in (1 .. Len(s)) \X (1 .. Len(s)) /\ w[1] = c + 1 /\ w[2] = c + m
    BY <1>1, <2>1
  <2> HIDE DEF w
  <2>4. w \in WordsIn(s)
    BY <1>3, <1>4, <2>1, <2>2, <2>3 DEF WordsIn
  <2> QED
    BY <2>4 DEF w
<1>7. (n = 1 <=> m = 0) /\ <<b + 1, b + n - 1>> = <<c + 1, c + m>>
  BY <1>1, <1>2
<1> QED
  BY <1>1, <1>5, <1>6, <1>7

LowAt(s, ab) == LowerCases(SubSeq(s, ab[1], ab[2]))
Tally(s, K) == [w \in {LowAt(s, ab) : ab \in K} |-> Cardinality({ab \in K : LowAt(s, ab) = w})]

\* The words that end at b or before, and are counted.
KeptIn(s, b) == {ab \in WordsIn(s) : ab[2] <= b /\ Kept(SubSeq(s, ab[1], ab[2]))}

LEMMA TallyAdds ==
  ASSUME NEW s \in Seq(Char), NEW K \in SUBSET WordsIn(s), NEW z, z \notin K
  PROVE  Tally(s, K \cup {z}) = Counted(Tally(s, K), LowAt(s, z))
<1> DEFINE N(w) == {ab \in K : LowAt(s, ab) = w}
           M(w) == {ab \in K \cup {z} : LowAt(s, ab) = w}
           D == {LowAt(s, ab) : ab \in K}
           f == [w \in D |-> Cardinality(N(w))]
<1>1. Tally(s, K) = f
  BY DEF Tally
<1>2. Tally(s, K \cup {z}) = [w \in D \cup {LowAt(s, z)} |-> Cardinality(M(w))]
  <2>1. {LowAt(s, ab) : ab \in K \cup {z}} = D \cup {LowAt(s, z)}
    OBVIOUS
  <2> QED
    BY <2>1 DEF Tally
<1>3. ASSUME NEW w PROVE IsFiniteSet(N(w)) /\ Cardinality(N(w)) \in Nat
  <2>1. N(w) \in SUBSET WordsIn(s)
    OBVIOUS
  <2> QED
    BY <2>1, WordsFinite
<1>4. Cardinality(M(LowAt(s, z))) = Cardinality(N(LowAt(s, z))) + 1
  <2>1. M(LowAt(s, z)) = N(LowAt(s, z)) \cup {z} /\ z \notin N(LowAt(s, z))
    OBVIOUS
  <2> HIDE DEF M, N
  <2> QED
    BY <1>3, <2>1, FS_AddElement
<1>5. ASSUME NEW w, w # LowAt(s, z) PROVE M(w) = N(w)
  BY <1>5
<1>6. ASSUME NEW w, w \notin D PROVE Cardinality(N(w)) = 0
  <2>1. N(w) = {}
    BY <1>6
  <2> QED
    BY <2>1, FS_EmptySet
<1>7. DOMAIN f = D /\ \A w \in D : f[w] = Cardinality(N(w))
  OBVIOUS
<1> HIDE DEF M, N, D, f
<1>8. ASSUME NEW w \in D \cup {LowAt(s, z)}
      PROVE  Cardinality(M(w)) =
               (IF w \in D THEN f[w] ELSE 0) + (IF w = LowAt(s, z) THEN 1 ELSE 0)
  <2>1. (IF w \in D THEN f[w] ELSE 0) = Cardinality(N(w))
    BY <1>6, <1>7
  <2>2. Cardinality(M(w)) = Cardinality(N(w)) + (IF w = LowAt(s, z) THEN 1 ELSE 0)
    <3>1. CASE w = LowAt(s, z)
      BY <1>4, <3>1
    <3>2. CASE w # LowAt(s, z)
      BY <1>3, <1>5, <3>2
    <3> QED
      BY <3>1, <3>2
  <2> QED
    BY <2>1, <2>2
<1>9. Counted(f, LowAt(s, z)) =
        [w \in D \cup {LowAt(s, z)} |->
           (IF w \in D THEN f[w] ELSE 0) + (IF w = LowAt(s, z) THEN 1 ELSE 0)]
  BY <1>7 DEF Counted
<1> QED
  BY <1>1, <1>2, <1>8, <1>9

LEMMA CountRound ==
  ASSUME NEW s, NEW b, NEW t, NEW x, NEW n, WordAhead(s, b, t, x, n), Gap(s, b),
         NEW d, Behind(s, t, x, n, d)
  PROVE  /\ Gap(s, d)
         /\ Tally(s, KeptIn(s, d)) =
              IF Kept(SubSeq(t, 1, n - 1))
              THEN Counted(Tally(s, KeptIn(s, b)), LowerCases(SubSeq(t, 1, n - 1)))
              ELSE Tally(s, KeptIn(s, b))
<1>1. /\ s \in Seq(Char) /\ t \in Seq(Char) /\ Len(s) \in Nat /\ b \in Nat
      /\ b <= Len(s) /\ n \in Nat \ {0}
  BY AheadTyped
<1>2. /\ d \in b + n .. Len(s) + 1 /\ \A p \in b + n .. d : Gap(s, p)
  BY GapBehind
<1>3. d \in Nat /\ b < d /\ d \in b + n .. d
  BY <1>1, <1>2
<1>4. Gap(s, d)
  BY <1>2, <1>3
<1>5. /\ \A k \in 1 .. n - 1 : ~Gap(s, b + k)
      /\ SubSeq(t, 1, n - 1) = SubSeq(s, b + 1, b + n - 1)
  <2>1. \A k \in 1 .. n - 1 : ~Gap(s, b + k)
    BY WordPlaces
  <2>2. SubSeq(t, 1, n - 1) = SubSeq(s, b + 1, b + n - 1)
    <3>1. SameWord(s, b, t, n)
      BY WordIsText
    <3> QED
      BY <3>1 DEF SameWord
  <2> QED
    BY <2>1, <2>2
<1>6. b \in 0 .. Len(s)
  BY <1>1
<1>7. \A ab \in WordsIn(s) : ab[2] \in Nat
  BY DEF WordsIn
<1> DEFINE word == SubSeq(t, 1, n - 1)
<1>8. CASE n = 1
  <2>1. \A ab \in WordsIn(s) : ab[2] <= d => ab[2] <= b
    BY <1>1, <1>2, <1>5, <1>6, <1>8, NewWord
  <2>2. KeptIn(s, d) = KeptIn(s, b)
    BY <1>1, <1>3, <1>7, <2>1 DEF KeptIn
  <2>3. word = <<>>
    BY <1>8, SubSeqEmpty
  <2> QED
    BY <1>4, <2>2, <2>3, EmptyIsDropped
<1>9. CASE n # 1
  <2>1. /\ <<b + 1, b + n - 1>> \in WordsIn(s)
        /\ \A ab \in WordsIn(s) : ab[2] <= d => ab[2] <= b \/ ab = <<b + 1, b + n - 1>>
    BY <1>1, <1>2, <1>5, <1>6, <1>9, NewWord
  <2>2. PICK z : z = <<b + 1, b + n - 1>>
    OBVIOUS
  <2>3. z[1] = b + 1 /\ z[2] = b + n - 1 /\ z[2] <= d /\ ~ z[2] <= b
    BY <1>1, <1>2, <1>9, <2>2
  <2>4. SubSeq(s, z[1], z[2]) = word
    <3>1. word = SubSeq(s, b + 1, b + n - 1)
      BY <1>5
    <3> HIDE DEF word
    <3> QED
      BY <2>3, <3>1
  <2>5. LowAt(s, z) = LowerCases(word)
    BY <2>4 DEF LowAt
  <2> HIDE DEF word
  <2>6. z \notin KeptIn(s, b) /\ KeptIn(s, b) \in SUBSET WordsIn(s)
    BY <2>3 DEF KeptIn
  <2>7. \A ab \in WordsIn(s) : ab[2] <= d <=> ab[2] <= b \/ ab = z
    BY <1>1, <1>3, <1>7, <2>1, <2>2, <2>3
  <2>8. KeptIn(s, d) = KeptIn(s, b) \cup (IF Kept(word) THEN {z} ELSE {})
    BY <2>1, <2>2, <2>4, <2>7 DEF KeptIn
  <2>9. CASE Kept(word)
    <3>1. Tally(s, KeptIn(s, d)) = Counted(Tally(s, KeptIn(s, b)), LowAt(s, z))
      BY <1>1, <2>6, <2>8, <2>9, TallyAdds
    <3> QED
      BY <1>4, <2>5, <2>9, <3>1 DEF word
  <2>10. CASE ~Kept(word)
    <3>1. KeptIn(s, d) = KeptIn(s, b)
      BY <2>8, <2>10
    <3> QED
      BY <1>4, <2>10, <3>1 DEF word
  <2> QED
    BY <2>9, <2>10
<1> QED
  BY <1>8, <1>9

-----------------------------------------------------------------------------
(***************************************************************************)
(* The inductive invariant: while the page is cleaned, tmp is a copy of    *)
(* what has been read; while words are counted, it is a copy of what is    *)
(* left, and the words before have been counted.                           *)
(***************************************************************************)

TextOf(p, s, i, t, f) ==
  /\ p \in {"clean", "count", "done"}
  /\ s \in Seq(Char) /\ t \in Seq(Char)
  /\ p = "clean" => Cleaned(s, i, t) /\ f = Nothing
  /\ p = "count" => \E b \in 0 .. Len(s) :
       /\ Gap(s, b) /\ f = Tally(s, KeptIn(s, b))
       /\ \E x : Copies(s, b + 1, Len(s), t, x)
  /\ p = "done" => f = Tally(s, KeptIn(s, Len(s) + 1))

TextInv == TextOf(pc, text, at, tmp, frequencies)

LEMMA TextInit == Init => TextInv
<1> SUFFICES ASSUME Init PROVE TextInv
  OBVIOUS
<1>1. /\ pc = "clean" /\ text \in Seq(Char) /\ at = 1 /\ tmp = <<>> /\ frequencies = Nothing
  BY CharAssumption DEF Init
<1>2. PICK s \in Seq(Char) : s = text
  BY <1>1
<1>3. Cleaned(s, 1, <<>>)
  <2> DEFINE x == [k \in 1 .. 0 |-> 0]
  <2>1. Len(<<>>) = 0 /\ 1 .. 0 = {} /\ 1 - 1 = 0 /\ 1 \in 1 .. Len(s) + 1
    OBVIOUS
  <2>2. x \in [1 .. 0 -> 1 .. 0]
    BY <2>1
  <2> HIDE DEF x
  <2>3. Copies(s, 1, 0, <<>>, x)
    BY <2>1, <2>2 DEF Copies
  <2> QED
    BY <2>1, <2>3 DEF Cleaned
<1>4. <<>> \in Seq(Char)
  OBVIOUS
<1> QED
  BY <1>1, <1>2, <1>3, <1>4 DEF TextInv, TextOf

LEMMA FirstPlaces ==
  ASSUME NEW s \in Seq(Char), NEW i \in 1 .. Len(s) + 1
  PROVE  /\ FirstFrom(s, i, {Lt}, Next1(s, i, {Lt}))
         /\ FirstFrom(s, Next1(s, i, {Lt}), {Gt}, Next1(s, Next1(s, i, {Lt}), {Gt}))
<1>1. FirstFrom(s, i, {Lt}, Next1(s, i, {Lt}))
  BY Next1Is
<1>2. PICK a \in Nat \ {0} : a = Next1(s, i, {Lt}) /\ a <= Len(s) + 1
  BY <1>1 DEF FirstFrom
<1>3. FirstFrom(s, a, {Gt}, Next1(s, a, {Gt}))
  BY <1>2, Next1Is
<1> QED
  BY <1>1, <1>2, <1>3

LEMMA ReplaceStep ==
  ASSUME TextInv, ReplaceTag
  PROVE  TextInv'
<1> DEFINE a == Next1(text, at, {Lt})
           z == Next1(text, a, {Gt})
           t == tmp \o SubSeq(text, at, a - 1) \o <<Space>>
<1>1. /\ pc = "clean" /\ pc' = pc /\ text' = text /\ frequencies' = frequencies
      /\ z <= Len(text) /\ tmp' = t /\ at' = z + 1
  BY DEF ReplaceTag, TagEnd
<1>2. /\ text \in Seq(Char) /\ tmp \in Seq(Char) /\ Cleaned(text, at, tmp)
      /\ frequencies = Nothing
  BY <1>1 DEF TextInv, TextOf
<1>3. FirstFrom(text, at, {Lt}, a) /\ FirstFrom(text, a, {Gt}, z)
  <2>1. at \in 1 .. Len(text) + 1
    BY <1>2 DEF Cleaned
  <2> QED
    BY <1>2, <2>1, FirstPlaces
<1> HIDE DEF a, z
<1>4. t \in Seq(Char) /\ Cleaned(text, z + 1, t)
  BY <1>1, <1>2, <1>3, CleanTag
<1> HIDE DEF t
<1> QED
  BY <1>1, <1>2, <1>4 DEF TextInv, TextOf

LEMMA CopyStep ==
  ASSUME TextInv, CopyRest
  PROVE  TextInv'
<1> DEFINE a == Next1(text, at, {Lt})
           z == Next1(text, a, {Gt})
           t == tmp \o SubSeq(text, at, Len(text))
<1>1. /\ pc = "clean" /\ pc' = "count" /\ text' = text /\ frequencies' = frequencies
      /\ z > Len(text) /\ tmp' = t
  BY DEF CopyRest, TagEnd
<1>2. /\ text \in Seq(Char) /\ tmp \in Seq(Char) /\ Cleaned(text, at, tmp)
      /\ frequencies = Nothing
  BY <1>1 DEF TextInv, TextOf
<1>3. FirstFrom(text, at, {Lt}, a) /\ FirstFrom(text, a, {Gt}, z)
  <2>1. at \in 1 .. Len(text) + 1
    BY <1>2 DEF Cleaned
  <2> QED
    BY <1>2, <2>1, FirstPlaces
<1> HIDE DEF a, z
<1>4. t \in Seq(Char) /\ \E x : Copies(text, 1, Len(text), t, x)
  BY <1>1, <1>2, <1>3, CleanRest
<1> HIDE DEF t
<1>5. PICK b \in Nat : b = 0
  OBVIOUS
<1>6. b + 1 = 1 /\ b \in 0 .. Len(text) /\ Gap(text, b)
  BY <1>2, <1>5 DEF Gap
<1>7. frequencies = Tally(text, KeptIn(text, b))
  <2>1. KeptIn(text, b) = {}
    BY <1>5 DEF KeptIn, WordsIn
  <2> QED
    BY <1>2, <2>1 DEF Tally, Nothing
<1>8. \E x : Copies(text, b + 1, Len(text), t, x)
  BY <1>4, <1>6
<1> QED
  BY <1>1, <1>2, <1>4, <1>6, <1>7, <1>8 DEF TextInv, TextOf

LEMMA CountStep ==
  ASSUME TextInv, CountWord
  PROVE  TextInv'
<1> DEFINE n == Next1(tmp, 1, {Space})
           word == SubSeq(tmp, 1, n - 1)
           t == SubSeq(tmp, n + 1, Len(tmp))
<1>1. /\ pc = "count" /\ text' = text
      /\ frequencies' = IF Kept(word) THEN Counted(frequencies, LowerCases(word))
                        ELSE frequencies
      /\ tmp' = t
      /\ pc' = IF n <= Len(tmp) THEN "count" ELSE "done"
  BY DEF CountWord
<1>2. text \in Seq(Char) /\ tmp \in Seq(Char)
  BY DEF TextInv, TextOf
<1>3. PICK b \in 0 .. Len(text) :
        /\ Gap(text, b) /\ frequencies = Tally(text, KeptIn(text, b))
        /\ \E x : Copies(text, b + 1, Len(text), tmp, x)
  BY <1>1 DEF TextInv, TextOf
<1>4. PICK x : Copies(text, b + 1, Len(text), tmp, x)
  BY <1>3
<1>5. WordAhead(text, b, tmp, x, n)
  <2>1. FirstFrom(tmp, 1, {Space}, n)
    BY <1>2, Next1Is
  <2> HIDE DEF n
  <2> QED
    BY <1>2, <1>4, <2>1 DEF WordAhead
<1> HIDE DEF n
<1>6. ASSUME NEW d, Behind(text, tmp, x, n, d)
      PROVE  Gap(text, d) /\ frequencies' = Tally(text, KeptIn(text, d))
  BY <1>1, <1>3, <1>5, <1>6, CountRound
<1> HIDE DEF word
<1>7. CASE n <= Len(tmp)
  <2>1. t \in Seq(Char) /\ \E y : Copies(text, x[n] + 1, Len(text), t, y)
    BY <1>5, <1>7, RestIsCopied
  <2> HIDE DEF t
  <2>2. Gap(text, x[n]) /\ frequencies' = Tally(text, KeptIn(text, x[n]))
    BY <1>6, <1>7 DEF Behind
  <2>3. x[n] \in 0 .. Len(text)
    <3>1. /\ n \in 1 .. Len(tmp) /\ Len(text) \in Nat
          /\ \A k \in 1 .. Len(tmp) : x[k] \in Nat /\ b < x[k] /\ x[k] <= Len(text)
      BY <1>5, <1>7, AheadTyped
    <3> QED
      BY <3>1
  <2>4. pc' = "count"
    BY <1>1, <1>7
  <2> QED
    BY <1>1, <1>2, <2>1, <2>2, <2>3, <2>4 DEF TextInv, TextOf
<1>8. CASE ~ n <= Len(tmp)
  <2>1. pc' = "done"
    BY <1>1, <1>8
  <2>2. frequencies' = Tally(text, KeptIn(text, Len(text) + 1))
    BY <1>6, <1>8 DEF Behind
  <2>3. t \in Seq(Char)
    <3>1. /\ n \in Nat \ {0} /\ n <= Len(tmp) + 1 /\ Len(tmp) \in Nat
      BY <1>5, AheadTyped
    <3>2. n + 1 \in Int /\ Len(tmp) \in Int /\ Len(tmp) < n + 1
      BY <1>8, <3>1
    <3>3. t = <<>>
      BY <3>2, SubSeqEmpty
    <3> HIDE DEF t
    <3> QED
      BY <3>3
  <2> HIDE DEF t
  <2> QED
    BY <1>1, <1>2, <2>1, <2>2, <2>3 DEF TextInv, TextOf
<1> QED
  BY <1>7, <1>8

LEMMA TextInvariance == Spec => []TextInv
<1>1. ASSUME TextInv, [Next]_vars PROVE TextInv'
  <2>1. CASE UNCHANGED vars
    BY <1>1, <2>1 DEF TextInv, vars
  <2> QED
    BY <1>1, <2>1, ReplaceStep, CopyStep, CountStep DEF Next
<1> QED
  BY <1>1, TextInit, PTL DEF Spec

LEMMA CountedImplied == TextInv => WordsCounted
<1> SUFFICES ASSUME TextInv, pc = "done" PROVE WordsCounted
  BY DEF WordsCounted
<1> DEFINE Word(ab) == SubSeq(text, ab[1], ab[2])
           kept == {ab \in Words : Size(Word(ab)) \in 3 .. 32}
<1>1. frequencies = Tally(text, KeptIn(text, Len(text) + 1)) /\ text \in Seq(Char)
  BY DEF TextInv, TextOf
<1>2. Words = WordsIn(text)
  BY DEF Words, WordsIn, Apart, Gap, InTag, Tagged
<1>3. \A ab \in WordsIn(text) : ab[2] <= Len(text) + 1
  BY <1>1 DEF WordsIn
<1>4. kept = KeptIn(text, Len(text) + 1)
  BY <1>2, <1>3 DEF KeptIn, Kept
<1>5. Tally(text, kept) =
        [w \in {LowerCases(Word(ab)) : ab \in kept} |->
           Cardinality({ab \in kept : LowerCases(Word(ab)) = w})]
  BY DEF Tally, LowAt
<1> QED
  BY <1>1, <1>4, <1>5 DEF WordsCounted

\* What the Indexer gets of a page of any length are the words of its text
\* and their counts.
THEOREM WordsAreCounted == Spec => []WordsCounted
BY CountedImplied, TextInvariance, PTL
=============================================================================
