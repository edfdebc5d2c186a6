----------------------------- MODULE TextProofs -----------------------------
(***************************************************************************)
(* Lemmas about the texts of Config and Version: how parseAnnotation reads *)
(* an annotation and splitVersion a version, for texts of every length.    *)
(***************************************************************************)
EXTENDS Config, WellFoundedInduction, TLAPS

-----------------------------------------------------------------------------
\* A set of naturals has a least element, which Min returns.
LEMMA MinOf ==
  ASSUME NEW I, I \subseteq Nat, I # {}
  PROVE  Min(I) \in I /\ \A y \in I : Min(I) <= y
<1> DEFINE R == {ss \in Nat \X Nat : ss[1] < ss[2]}
<1>1. IsWellFoundedOn(R, Nat)
  BY NatLessThanWellFounded DEF OpToRel
<1>2. \A x, y \in Nat : <<y, x>> \in R <=> y < x
  OBVIOUS
<1> HIDE DEF R
<1>3. PICK x \in I : \A y \in I : ~(<<y, x>> \in R)
  BY <1>1, WFMin, Zenon
<1>4. ASSUME NEW y \in I PROVE x <= y
  <2>1. x \in Nat /\ y \in Nat /\ ~(y < x)
    BY <1>2, <1>3, Zenon
  <2> QED BY <2>1
<1> QED BY <1>4, Zenon DEF Min

\* A bounded one has a greatest, which Max returns.
LEMMA MaxOf ==
  ASSUME NEW n \in Nat, NEW I, I \subseteq 0..n, I # {}
  PROVE  Max(I) \in I /\ \A y \in I : Max(I) >= y
<1> DEFINE J == {n - y : y \in I}
<1>1. PICK z : z \in I
  OBVIOUS
<1>2. J \subseteq Nat /\ n - z \in J
  BY <1>1
<1> HIDE DEF J
<1>3. Min(J) \in J /\ \A y \in J : Min(J) <= y
  BY <1>2, MinOf, Zenon
<1>4. PICK x \in I : Min(J) = n - x
  BY <1>3 DEF J
<1>5. ASSUME NEW y \in I PROVE x >= y
  <2>1. n - y \in J
    BY DEF J
  <2>2. n - x <= n - y
    BY <1>3, <1>4, <2>1
  <2> QED BY <2>2
<1> QED BY <1>5, Zenon DEF Max

\* Sequences are equal if they agree at every position.
LEMMA SameSeq ==
  ASSUME NEW S, NEW s \in Seq(S), NEW t \in Seq(S), Len(s) = Len(t),
         \A k \in 1..Len(s) : s[k] = t[k]
  PROVE  s = t
OBVIOUS

\* What SubSeq returns.
LEMMA SubSeqIs ==
  ASSUME NEW S, NEW s \in Seq(S), NEW a \in 1..(Len(s) + 1), NEW b \in 0..Len(s), a <= b + 1
  PROVE  /\ SubSeq(s, a, b) \in Seq(S) /\ Len(SubSeq(s, a, b)) = b - a + 1
         /\ \A k \in 1..(b - a + 1) : SubSeq(s, a, b)[k] = s[a + k - 1]
<1>1. Len(s) \in Nat
  OBVIOUS
<1> QED BY <1>1

\* A part of a part is a part.
LEMMA SubSub ==
  ASSUME NEW S, NEW s \in Seq(S), NEW a \in 1..(Len(s) + 1), NEW b \in 0..Len(s), a <= b + 1,
         NEW c \in 1..(b - a + 2), NEW d \in 0..(b - a + 1), c <= d + 1
  PROVE  SubSeq(SubSeq(s, a, b), c, d) = SubSeq(s, a + c - 1, a + d - 1)
<1> DEFINE t == SubSeq(s, a, b)
           x == SubSeq(t, c, d)
           y == SubSeq(s, a + c - 1, a + d - 1)
<1>1. /\ t \in Seq(S) /\ Len(t) = b - a + 1
      /\ \A k \in 1..(b - a + 1) : t[k] = s[a + k - 1]
  BY SubSeqIs
<1> HIDE DEF t
<1>2. /\ x \in Seq(S) /\ Len(x) = d - c + 1
      /\ \A k \in 1..(d - c + 1) : x[k] = t[c + k - 1]
  BY <1>1, SubSeqIs
<1>3. /\ y \in Seq(S) /\ Len(y) = d - c + 1
      /\ \A k \in 1..(d - c + 1) : y[k] = s[(a + c - 1) + k - 1]
  <2>1. /\ a + c - 1 \in 1..(Len(s) + 1) /\ a + d - 1 \in 0..Len(s)
        /\ a + c - 1 <= (a + d - 1) + 1 /\ (a + d - 1) - (a + c - 1) + 1 = d - c + 1
    OBVIOUS
  <2> HIDE DEF y
  <2> QED BY <2>1, SubSeqIs DEF y
<1> HIDE DEF x, y
<1>4. ASSUME NEW k \in 1..(d - c + 1) PROVE x[k] = y[k]
  <2>1. c + k - 1 \in 1..(b - a + 1) /\ a + (c + k - 1) - 1 = (a + c - 1) + k - 1
    OBVIOUS
  <2> QED BY <1>1, <1>2, <1>3, <2>1
<1>5. x = y
  BY <1>2, <1>3, <1>4, SameSeq
<1> QED BY <1>5 DEF t, x, y

-----------------------------------------------------------------------------
\* Of a..b, all but p..q is blank, and p and q are not.
Framed(s, a, b, p, q) ==
  /\ p \in a..b /\ q \in a..b /\ p <= q /\ s[p] # "space" /\ s[q] # "space"
  /\ \A x \in a..b : s[x] # "space" => p <= x /\ x <= q

\* There is one such p..q.
LEMMA FrameUnique ==
  ASSUME NEW s, NEW a \in Nat, NEW b \in Nat, NEW p, NEW q, NEW i, NEW j,
         Framed(s, a, b, p, q), Framed(s, a, b, i, j)
  PROVE  p = i /\ q = j
<1>1. p \in Nat /\ q \in Nat /\ i \in Nat /\ j \in Nat
  <2>1. p \in a..b /\ q \in a..b /\ i \in a..b /\ j \in a..b
    BY DEF Framed
  <2> QED BY <2>1
<1>2. p <= i /\ j <= q
  BY DEF Framed
<1>3. i <= p /\ q <= j
  BY DEF Framed
<1> QED BY <1>1, <1>2, <1>3

\* strings.TrimSpace of a text that is not blank.
LEMMA TrimIs ==
  ASSUME NEW S, NEW s \in Seq(S), ~Blank(s)
  PROVE  \E p, q \in 1..Len(s) :
           Framed(s, 1, Len(s), p, q) /\ TrimSpace(s) = SubSeq(s, p, q)
<1> DEFINE I == NonBlanks(s)
<1>1. Len(s) \in Nat /\ DOMAIN s = 1..Len(s)
  OBVIOUS
<1>2. \A x : x \in I <=> x \in 1..Len(s) /\ s[x] # "space"
  BY <1>1 DEF NonBlanks
<1>3. I # {} /\ I \subseteq Nat /\ I \subseteq 0..Len(s)
  <2>1. PICK k \in 1..Len(s) : s[k] # "space"
    BY <1>1 DEF Blank
  <2> HIDE DEF I
  <2>2. k \in I
    BY <1>2, <2>1
  <2>3. \A x \in I : x \in Nat /\ x \in 0..Len(s)
    BY <1>1, <1>2
  <2> QED BY <2>2, <2>3
<1>4. TrimSpace(s) = SubSeq(s, Min(I), Max(I))
  BY Zenon DEF TrimSpace
<1> HIDE DEF I
<1>5. Min(I) \in I /\ \A y \in I : Min(I) <= y
  BY <1>3, MinOf, Zenon
<1>6. Max(I) \in I /\ \A y \in I : Max(I) >= y
  BY <1>1, <1>3, MaxOf, Zenon
<1>7. Framed(s, 1, Len(s), Min(I), Max(I))
  BY <1>1, <1>2, <1>5, <1>6 DEF Framed
<1> QED BY <1>2, <1>4, <1>5, <1>6, <1>7, Zenon

\* strings.TrimSpace of a part of a text.
LEMMA TrimPart ==
  ASSUME NEW S, NEW s \in Seq(S), NEW a \in 1..(Len(s) + 1), NEW b \in 0..Len(s), a <= b + 1
  PROVE  IF \A x \in a..b : s[x] = "space" THEN TrimSpace(SubSeq(s, a, b)) = <<>>
         ELSE \E p, q \in a..b : /\ Framed(s, a, b, p, q)
                                 /\ TrimSpace(SubSeq(s, a, b)) = SubSeq(s, p, q)
<1> DEFINE t == SubSeq(s, a, b)
<1>1. Len(s) \in Nat /\ a \in Nat /\ b \in Nat
  OBVIOUS
<1>2. /\ t \in Seq(S) /\ Len(t) = b - a + 1
      /\ \A k \in 1..(b - a + 1) : t[k] = s[a + k - 1]
  BY SubSeqIs
<1> HIDE DEF t
<1>3. /\ DOMAIN t = 1..(b - a + 1)
      /\ \A x \in a..b : x - a + 1 \in DOMAIN t /\ t[x - a + 1] = s[x]
  <2>1. DOMAIN t = 1..(b - a + 1)
    BY <1>2
  <2>2. ASSUME NEW x \in a..b PROVE x - a + 1 \in 1..(b - a + 1) /\ a + (x - a + 1) - 1 = x
    BY <1>1
  <2> QED BY <1>2, <2>1, <2>2
<1>4. CASE \A x \in a..b : s[x] = "space"
  <2>1. ASSUME NEW k \in DOMAIN t PROVE t[k] = "space"
    <3>1. k \in 1..(b - a + 1) /\ a + k - 1 \in a..b
      BY <1>1, <1>3
    <3> QED BY <1>2, <1>4, <3>1, Zenon
  <2>2. TrimSpace(t) = <<>>
    BY <2>1 DEF TrimSpace, Blank
  <2> QED BY <1>4, <2>2 DEF t
<1>5. CASE ~ \A x \in a..b : s[x] = "space"
  <2>1. ~Blank(t)
    BY <1>3, <1>5 DEF Blank
  <2>2. PICK c, d \in 1..Len(t) : Framed(t, 1, Len(t), c, d) /\ TrimSpace(t) = SubSeq(t, c, d)
    BY <1>2, <2>1, TrimIs, Zenon
  <2> DEFINE p == a + c - 1
             q == a + d - 1
  <2>3. c \in 1..(b - a + 1) /\ d \in 1..(b - a + 1) /\ c <= d
    BY <1>2, <2>2 DEF Framed
  <2>4. p \in a..b /\ q \in a..b /\ p <= q
    BY <1>1, <2>3
  <2>5. SubSeq(t, c, d) = SubSeq(s, p, q)
    BY <1>1, <2>3, SubSub DEF t
  <2>6. s[p] # "space" /\ s[q] # "space"
    BY <1>2, <2>2, <2>3, Zenon DEF Framed
  <2>7. ASSUME NEW x \in a..b, s[x] # "space" PROVE p <= x /\ x <= q
    <3>1. x - a + 1 \in 1..Len(t) /\ t[x - a + 1] # "space"
      BY <1>2, <1>3, <2>7
    <3>2. c <= x - a + 1 /\ x - a + 1 <= d
      BY <2>2, <3>1 DEF Framed
    <3> QED BY <1>1, <2>3, <3>2
  <2>8. Framed(s, a, b, p, q)
    BY <2>4, <2>6, <2>7 DEF Framed
  <2> HIDE DEF p, q
  <2>9. TrimSpace(t) = SubSeq(s, p, q)
    BY <2>2, <2>5
  <2>10. \E u, v \in a..b : Framed(s, a, b, u, v) /\ TrimSpace(t) = SubSeq(s, u, v)
    BY <2>4, <2>8, <2>9
  <2> QED BY <1>5, <2>10 DEF t
<1> QED BY <1>4, <1>5

-----------------------------------------------------------------------------
\* The first "=" of a text.
FirstEq(s, e) == e \in 1..Len(s) /\ s[e] = "=" /\ \A x \in 1..(e-1) : s[x] # "="

\* Before it is the frame of a key.
Keyed(s, e, i, j) == Framed(s, 1, e - 1, i, j)

\* Behind it is the frame of a value, or nothing but blanks.
Valued(s, e, k, l) ==
  \/ k = e + 1 /\ l = e /\ \A n \in (e+1)..Len(s) : s[n] = "space"
  \/ Framed(s, e + 1, Len(s), k, l)

ReadAs(s, i, j, k, l) ==
  Readings(s) = {[key |-> SubSeq(s, i, j), val |-> SubSeq(s, k, l)]}

\* A layout is the frame of a key before the first "=", and the frame of a
\* value behind it or nothing but blanks.
LEMMA LayoutIs ==
  ASSUME NEW S, NEW s \in Seq(S), NEW e \in 1..Len(s), NEW x \in Layouts(s, e)
  PROVE  /\ FirstEq(s, e) /\ Framed(s, 1, e - 1, x.i, x.j)
         /\ \/ x.k = x.l + 1 /\ \A n \in (e+1)..Len(s) : s[n] = "space"
            \/ Framed(s, e + 1, Len(s), x.k, x.l)
         /\ x.k \in (e+1)..(Len(s)+1) /\ x.l \in e..Len(s)
<1>1. Len(s) \in Nat /\ DOMAIN s = 1..Len(s) /\ e \in 1..Len(s)
  OBVIOUS
<1>2. /\ x.i \in 1..(e-1) /\ x.j \in 1..(e-1)
      /\ x.k \in (e+1)..(Len(s)+1) /\ x.l \in e..Len(s)
      /\ s[e] = "=" /\ \A n \in x.i..x.j : s[n] # "="
      /\ \A n \in DOMAIN s \ ((x.i..x.j) \cup {e} \cup (x.k..x.l)) : s[n] = "space"
      /\ x.i <= x.j /\ s[x.i] # "space" /\ s[x.j] # "space"
      /\ x.k <= x.l + 1
      /\ x.k <= x.l => s[x.k] # "space" /\ s[x.l] # "space"
  BY DEF Layouts
<1>3. ASSUME NEW n \in 1..(e-1), ~(x.i <= n /\ n <= x.j) PROVE s[n] = "space"
  <2>0. x.i \in Int /\ x.j \in Int /\ x.k \in Int /\ x.l \in Int /\ e < x.k
    BY <1>1, <1>2, SMTT(20)
  <2>1. n \in DOMAIN s /\ n \notin x.i..x.j /\ n # e /\ n \notin x.k..x.l
    BY <1>1, <1>3, <2>0
  <2> QED BY <1>2, <2>1
<1>4. ASSUME NEW n \in (e+1)..Len(s), ~(x.k <= n /\ n <= x.l) PROVE s[n] = "space"
  <2>1. n \in DOMAIN s /\ n \notin x.i..x.j /\ n # e /\ n \notin x.k..x.l
    BY <1>1, <1>2, <1>4
  <2> QED BY <1>2, <2>1
<1>5. FirstEq(s, e)
  <2>1. ASSUME NEW n \in 1..(e-1) PROVE s[n] # "="
    <3>1. CASE x.i <= n /\ n <= x.j
      BY <1>2, <3>1
    <3>2. CASE ~(x.i <= n /\ n <= x.j)
      BY <1>3, <3>2
    <3> QED BY <3>1, <3>2
  <2> QED BY <1>1, <1>2, <2>1 DEF FirstEq
<1>6. Framed(s, 1, e - 1, x.i, x.j)
  BY <1>2, <1>3 DEF Framed
<1>7. CASE x.k <= x.l
  <2>1. x.k \in (e+1)..Len(s) /\ x.l \in (e+1)..Len(s)
    BY <1>1, <1>2, <1>7
  <2> QED BY <1>2, <1>4, <1>5, <1>6, <1>7, <2>1 DEF Framed
<1>8. CASE ~(x.k <= x.l)
  <2>1. x.k = x.l + 1
    <3>1. x.k \in Nat /\ x.l \in Nat /\ x.k <= x.l + 1
      BY <1>1, <1>2
    <3> QED BY <1>8, <3>1
  <2>2. ASSUME NEW n \in (e+1)..Len(s) PROVE s[n] = "space"
    BY <1>1, <1>2, <1>4, <2>1
  <2> QED BY <1>2, <1>5, <1>6, <2>1, <2>2
<1> QED BY <1>7, <1>8

\* And what has such frames is a layout.
LEMMA LayoutOf ==
  ASSUME NEW S, NEW s \in Seq(S), NEW e \in 1..Len(s), NEW i, NEW j, NEW k, NEW l,
         FirstEq(s, e), Framed(s, 1, e - 1, i, j), Valued(s, e, k, l)
  PROVE  [i |-> i, j |-> j, k |-> k, l |-> l] \in Layouts(s, e)
<1>1. Len(s) \in Nat /\ DOMAIN s = 1..Len(s) /\ e \in 1..Len(s)
  OBVIOUS
<1>2. /\ i \in 1..(e-1) /\ j \in 1..(e-1) /\ i <= j /\ s[i] # "space" /\ s[j] # "space"
      /\ \A n \in 1..(e-1) : s[n] # "space" => i <= n /\ n <= j
  BY DEF Framed
<1>3. s[e] = "=" /\ \A n \in i..j : s[n] # "="
  <2>1. \A n \in i..j : n \in 1..(e-1)
    BY <1>1, <1>2
  <2> QED BY <2>1 DEF FirstEq
<1>4. /\ k \in (e+1)..(Len(s)+1) /\ l \in e..Len(s) /\ k <= l + 1
      /\ k <= l => s[k] # "space" /\ s[l] # "space"
  BY <1>1 DEF Framed, Valued
<1>5. ASSUME NEW n \in (e+1)..Len(s), s[n] # "space" PROVE n \in k..l
  BY <1>1, <1>4, <1>5 DEF Framed, Valued
<1>6. ASSUME NEW n \in DOMAIN s \ ((i..j) \cup {e} \cup (k..l)) PROVE s[n] = "space"
  <2>1. n \in 1..(e-1) \/ n \in (e+1)..Len(s)
    BY <1>1
  <2>2. CASE n \in 1..(e-1)
    <3>1. ~(i <= n /\ n <= j)
      BY <1>2, <2>2
    <3> QED BY <1>2, <2>2, <3>1
  <2>3. CASE n \in (e+1)..Len(s)
    BY <1>5, <2>3
  <2> QED BY <2>1, <2>2, <2>3
<1> QED BY <1>2, <1>3, <1>4, <1>6 DEF Layouts

\* A text has one first "=" at most.
LEMMA FirstEqUnique ==
  ASSUME NEW S, NEW s \in Seq(S), NEW e, NEW f, FirstEq(s, e), FirstEq(s, f)
  PROVE  e = f
<1>1. e \in 1..Len(s) /\ f \in 1..Len(s) /\ Len(s) \in Nat
  BY DEF FirstEq
<1>2. ~(e < f)
  BY <1>1 DEF FirstEq
<1>3. ~(f < e)
  BY <1>1 DEF FirstEq
<1> QED BY <1>1, <1>2, <1>3

\* A text without "=", or with nothing before it, has no reading.
LEMMA NoReading ==
  ASSUME NEW S, NEW s \in Seq(S),
         \A e \in 1..Len(s) : FirstEq(s, e) => \A n \in 1..(e-1) : s[n] = "space"
  PROVE  Readings(s) = {}
<1> SUFFICES ASSUME NEW e \in DOMAIN s, NEW x \in Layouts(s, e) PROVE FALSE
  BY DEF Readings
<1>1. e \in 1..Len(s)
  OBVIOUS
<1>2. FirstEq(s, e) /\ Framed(s, 1, e - 1, x.i, x.j)
  BY <1>1, LayoutIs
<1>3. x.i \in 1..(e-1) /\ s[x.i] # "space"
  BY <1>2 DEF Framed
<1> QED BY <1>1, <1>2, <1>3

\* One with a key before it has exactly one.
LEMMA OneReading ==
  ASSUME NEW S, NEW s \in Seq(S), NEW e \in 1..Len(s), NEW i, NEW j, NEW k, NEW l,
         FirstEq(s, e), Keyed(s, e, i, j), Valued(s, e, k, l)
  PROVE  ReadAs(s, i, j, k, l)
<1> DEFINE r == [key |-> SubSeq(s, i, j), val |-> SubSeq(s, k, l)]
           y == [i |-> i, j |-> j, k |-> k, l |-> l]
<1>1. Len(s) \in Nat /\ DOMAIN s = 1..Len(s) /\ e \in Nat
  OBVIOUS
<1>2. y \in Layouts(s, e)
  BY LayoutOf DEF Keyed
<1>3. r \in Readings(s)
  <2>1. r = [key |-> SubSeq(s, y.i, y.j), val |-> SubSeq(s, y.k, y.l)]
    OBVIOUS
  <2> DEFINE T(f) == {[key |-> SubSeq(s, x.i, x.j), val |-> SubSeq(s, x.k, x.l)] :
                        x \in Layouts(s, f)}
  <2> HIDE DEF r, y
  <2>2. r \in T(e)
    BY <1>2, <2>1, Zenon
  <2>3. Readings(s) = UNION {T(f) : f \in DOMAIN s}
    BY DEF Readings
  <2> HIDE DEF T
  <2> QED BY <1>1, <2>2, <2>3
<1>4. ASSUME NEW f \in DOMAIN s, NEW x \in Layouts(s, f)
      PROVE  [key |-> SubSeq(s, x.i, x.j), val |-> SubSeq(s, x.k, x.l)] = r
  <2>1. /\ FirstEq(s, f) /\ Framed(s, 1, f - 1, x.i, x.j)
        /\ \/ x.k = x.l + 1 /\ \A n \in (f+1)..Len(s) : s[n] = "space"
           \/ Framed(s, f + 1, Len(s), x.k, x.l)
        /\ x.k \in (f+1)..(Len(s)+1) /\ x.l \in f..Len(s)
    BY <1>1, LayoutIs
  <2>2. f = e
    BY <2>1, FirstEqUnique
  <2>3. x.i = i /\ x.j = j
    <3>1. 1 \in Nat /\ e - 1 \in Nat
      BY <1>1
    <3> QED BY <2>1, <2>2, <3>1, FrameUnique DEF Keyed
  <2>4. SubSeq(s, x.k, x.l) = SubSeq(s, k, l)
    <3>1. CASE \A n \in (e+1)..Len(s) : s[n] = "space"
      <4>1. k = e + 1 /\ l = e
        BY <1>1, <3>1 DEF Framed, Valued
      <4>2. x.k = x.l + 1
        BY <1>1, <2>1, <2>2, <3>1 DEF Framed
      <4>3. ASSUME NEW a \in 1..(Len(s) + 1), NEW b \in 0..Len(s), a = b + 1
            PROVE  SubSeq(s, a, b) = <<>>
        <5>1. SubSeq(s, a, b) \in Seq(S) /\ Len(SubSeq(s, a, b)) = 0
          BY <4>3, SubSeqIs
        <5> QED BY <5>1
      <4>4. /\ x.k \in 1..(Len(s) + 1) /\ x.l \in 0..Len(s)
            /\ k \in 1..(Len(s) + 1) /\ l \in 0..Len(s)
        BY <1>1, <2>1, <2>2, <4>1
      <4> QED BY <4>1, <4>2, <4>3, <4>4
    <3>2. CASE ~ \A n \in (e+1)..Len(s) : s[n] = "space"
      <4>1. Framed(s, e + 1, Len(s), x.k, x.l) /\ Framed(s, e + 1, Len(s), k, l)
        BY <2>1, <2>2, <3>2 DEF Valued
      <4>2. x.k = k /\ x.l = l
        BY <1>1, <4>1, FrameUnique
      <4> QED BY <4>2
    <3> QED BY <3>1, <3>2, Zenon
  <2> QED BY <2>3, <2>4
<1>5. ASSUME NEW z \in Readings(s) PROVE z = r
  <2> HIDE DEF r
  <2> QED BY <1>4, <1>5, Zenon DEF Readings
<1> HIDE DEF r
<1>6. Readings(s) = {r}
  BY <1>3, <1>5
<1> QED BY <1>6 DEF r, ReadAs

-----------------------------------------------------------------------------
\* strings.SplitN of the trimmed text cuts it at the first "=" of the text.
LEMMA SplitIs ==
  ASSUME NEW S, NEW s \in Seq(S), NEW p \in 1..Len(s), NEW q \in 1..Len(s),
         Framed(s, 1, Len(s), p, q)
  PROVE  \/ /\ \A e \in 1..Len(s) : ~FirstEq(s, e)
            /\ SplitN(SubSeq(s, p, q)) = <<SubSeq(s, p, q)>>
         \/ \E e \in p..q : /\ FirstEq(s, e)
                            /\ SplitN(SubSeq(s, p, q))
                                 = <<SubSeq(s, p, e - 1), SubSeq(s, e + 1, q)>>
<1> DEFINE v == SubSeq(s, p, q)
           I == Equals(v)
<1>1. Len(s) \in Nat /\ p \in Nat /\ q \in Nat /\ p <= q
  BY DEF Framed
<1>2. /\ v \in Seq(S) /\ Len(v) = q - p + 1
      /\ \A k \in 1..(q - p + 1) : v[k] = s[p + k - 1]
  BY <1>1, SubSeqIs, SMTT(20)
<1>3. ASSUME NEW x \in 1..Len(s), s[x] = "=" PROVE x \in p..q
  <2>1. x < p \/ x > q => s[x] = "space"
    BY DEF Framed
  <2> QED BY <1>1, <1>3, <2>1
<1> HIDE DEF v
<1>4. \A k : k \in I <=> k \in 1..(q - p + 1) /\ v[k] = "="
  BY <1>2 DEF Equals
<1>5. ASSUME NEW x \in p..q PROVE x - p + 1 \in 1..(q - p + 1) /\ v[x - p + 1] = s[x]
  <2>1. x - p + 1 \in 1..(q - p + 1) /\ p + (x - p + 1) - 1 = x
    BY <1>1
  <2> QED BY <1>2, <2>1
<1>6. CASE I = {}
  <2>1. ASSUME NEW e \in 1..Len(s), FirstEq(s, e) PROVE FALSE
    <3>1. e \in p..q /\ s[e] = "="
      BY <1>3, <2>1 DEF FirstEq
    <3>2. e - p + 1 \in I
      BY <1>4, <1>5, <3>1, Zenon
    <3> QED BY <1>6, <3>2
  <2>2. SplitN(v) = <<v>>
    BY <1>6 DEF SplitN
  <2> QED BY <2>1, <2>2 DEF v
<1>7. CASE I # {}
  <2> DEFINE c == Min(I)
             e == p + c - 1
  <2> HIDE DEF I
  <2>1. I \subseteq Nat
    BY <1>1, <1>4
  <2>2. c \in I /\ \A y \in I : c <= y
    BY <1>7, <2>1, MinOf, Zenon
  <2> HIDE DEF c
  <2>3. c \in 1..(q - p + 1) /\ v[c] = "="
    BY <1>4, <2>2
  <2>4. e \in p..q /\ e \in 1..Len(s) /\ s[e] = "="
    BY <1>1, <1>2, <2>3
  <2>5. ASSUME NEW x \in 1..(e-1) PROVE s[x] # "="
    <3> SUFFICES ASSUME s[x] = "=" PROVE FALSE
      OBVIOUS
    <3>1. x \in 1..Len(s)
      BY <1>1, <2>4
    <3>2. x \in p..q
      BY <1>3, <3>1
    <3>3. x - p + 1 \in I
      BY <1>4, <1>5, <3>2
    <3>4. c <= x - p + 1
      BY <2>2, <3>3
    <3> QED BY <1>1, <2>3, <2>5, <3>2, <3>4
  <2>6. FirstEq(s, e)
    BY <2>4, <2>5 DEF FirstEq
  <2>7. SplitN(v) = <<SubSeq(v, 1, c - 1), SubSeq(v, c + 1, Len(v))>>
    BY <1>7 DEF SplitN, Cut, I, c
  <2>8. ASSUME NEW a \in 1..(q - p + 2), NEW b \in 0..(q - p + 1), a <= b + 1
        PROVE  SubSeq(v, a, b) = SubSeq(s, p + a - 1, p + b - 1)
    <3>1. p \in 1..(Len(s) + 1) /\ q \in 0..Len(s) /\ p <= q + 1
      BY <1>1
    <3> QED BY <2>8, <3>1, SubSub DEF v
  <2>9. SubSeq(v, 1, c - 1) = SubSeq(s, p, e - 1)
    <3>1. /\ 1 \in 1..(q - p + 2) /\ c - 1 \in 0..(q - p + 1) /\ 1 <= (c - 1) + 1
          /\ p + 1 - 1 = p /\ p + (c - 1) - 1 = e - 1
      BY <1>1, <2>3
    <3>2. SubSeq(v, 1, c - 1) = SubSeq(s, p + 1 - 1, p + (c - 1) - 1)
      BY <2>8, <3>1, Zenon
    <3> QED BY <3>1, <3>2
  <2>10. SubSeq(v, c + 1, Len(v)) = SubSeq(s, e + 1, q)
    <3>1. /\ c + 1 \in 1..(q - p + 2) /\ Len(v) \in 0..(q - p + 1) /\ c + 1 <= Len(v) + 1
          /\ p + (c + 1) - 1 = e + 1 /\ p + Len(v) - 1 = q
      BY <1>1, <1>2, <2>3
    <3>2. SubSeq(v, c + 1, Len(v)) = SubSeq(s, p + (c + 1) - 1, p + Len(v) - 1)
      BY <2>8, <3>1, Zenon
    <3> QED BY <3>1, <3>2, Zenon
  <2> HIDE DEF e
  <2> QED BY <2>4, <2>6, <2>7, <2>9, <2>10, Zenon DEF v
<1> QED BY <1>6, <1>7, Zenon

(***************************************************************************)
(* parseAnnotation (oomtracer.go:249-264) reads a text of any length as    *)
(* its one reading, and refuses it if there is none; a blank text is the   *)
(* only other one it accepts.                                              *)
(***************************************************************************)
LEMMA Parses ==
  ASSUME NEW S, NEW s \in Seq(S)
  PROVE  LET r == parseAnnotation(s) IN
         IF Blank(s) THEN r.ok /\ r.key = <<>> /\ r.val = <<>>
         ELSE \/ ~r.ok /\ Readings(s) = {}
              \/ r.ok /\ r.key # <<>> /\ Readings(s) = {[key |-> r.key, val |-> r.val]}
<1> DEFINE r == parseAnnotation(s)
<1>1. CASE Blank(s)
  BY <1>1 DEF parseAnnotation, TrimSpace
<1>2. CASE ~Blank(s)
  <2>1. PICK p, q \in 1..Len(s) :
          Framed(s, 1, Len(s), p, q) /\ TrimSpace(s) = SubSeq(s, p, q)
    BY <1>2, TrimIs
  <2> DEFINE v == SubSeq(s, p, q)
             parts == SplitN(v)
  <2>2. Len(s) \in Nat /\ p \in Nat /\ q \in Nat /\ p <= q
    BY <2>1 DEF Framed
  <2>3. v \in Seq(S) /\ v # <<>>
    <3>1. v \in Seq(S) /\ Len(v) = q - p + 1
      BY <2>2, SubSeqIs
    <3> HIDE DEF v
    <3> QED BY <2>2, <3>1
  <2>4. /\ Len(parts) # 2 => r = Invalid
        /\ Len(parts) = 2 => r = IF TrimSpace(parts[1]) = <<>> THEN Invalid
                                 ELSE [ok |-> TRUE, key |-> TrimSpace(parts[1]),
                                       val |-> TrimSpace(parts[2])]
    <3> HIDE DEF parts
    <3> QED BY <2>1, <2>3 DEF parseAnnotation, parts
  <2>5. CASE (\A e \in 1..Len(s) : ~FirstEq(s, e)) /\ parts = <<v>>
    <3>1. r = Invalid
      BY <2>4, <2>5
    <3>2. Readings(s) = {}
      BY <2>5, NoReading
    <3> QED BY <1>2, <3>1, <3>2 DEF Invalid
  <2>6. ASSUME NEW e \in p..q, FirstEq(s, e),
               parts = <<SubSeq(s, p, e - 1), SubSeq(s, e + 1, q)>>
        PROVE  \/ ~r.ok /\ Readings(s) = {}
               \/ r.ok /\ r.key # <<>> /\ Readings(s) = {[key |-> r.key, val |-> r.val]}
    <3> DEFINE key == TrimSpace(SubSeq(s, p, e - 1))
               val == TrimSpace(SubSeq(s, e + 1, q))
    <3>1. r = IF key = <<>> THEN Invalid ELSE [ok |-> TRUE, key |-> key, val |-> val]
      BY <2>4, <2>6
    <3>2. e \in 1..Len(s) /\ e \in Nat
      BY <2>2
    <3>3. /\ \A n \in 1..(e-1) : s[n] # "space" => n \in p..(e-1)
          /\ \A n \in (e+1)..Len(s) : s[n] # "space" => n \in (e+1)..q
      BY <2>1, <2>2, <3>2 DEF Framed
    <3> HIDE DEF r, parts
    <3>4. CASE \A n \in p..(e-1) : s[n] = "space"
      <4>1. key = <<>>
        <5>1. p \in 1..(Len(s) + 1) /\ e - 1 \in 0..Len(s) /\ p <= (e - 1) + 1
          BY <2>2, <3>2
        <5> QED BY <3>4, <5>1, TrimPart
      <4>2. \A f \in 1..Len(s) : FirstEq(s, f) => \A n \in 1..(f-1) : s[n] = "space"
        BY <2>6, <3>3, <3>4, FirstEqUnique
      <4>3. Readings(s) = {}
        BY <4>2, NoReading
      <4> QED BY <3>1, <4>1, <4>3 DEF Invalid
    <3>5. CASE ~ \A n \in p..(e-1) : s[n] = "space"
      <4>1. PICK i, j \in p..(e-1) : Framed(s, p, e - 1, i, j) /\ key = SubSeq(s, i, j)
        <5>1. p \in 1..(Len(s) + 1) /\ e - 1 \in 0..Len(s) /\ p <= (e - 1) + 1
          BY <2>2, <3>2
        <5> QED BY <3>5, <5>1, TrimPart, Zenon
      <4>2. Framed(s, 1, e - 1, i, j) /\ i <= j
        BY <2>2, <3>2, <3>3, <4>1 DEF Framed
      <4>3. key # <<>>
        <5>1. /\ i \in 1..(Len(s) + 1) /\ j \in 0..Len(s) /\ i <= j + 1
              /\ i \in Nat /\ j \in Nat
          BY <2>2, <3>2, <4>2
        <5>2. Len(SubSeq(s, i, j)) = j - i + 1
          BY <5>1, SubSeqIs
        <5>3. j - i + 1 > 0
          BY <4>2, <5>1
        <5> HIDE DEF key
        <5>4. Len(key) > 0
          BY <4>1, <5>2, <5>3
        <5> QED BY <5>4
      <4>4. e + 1 \in 1..(Len(s) + 1) /\ q \in 0..Len(s) /\ e + 1 <= q + 1
        BY <2>2, <3>2
      <4>5. \E k, l : val = SubSeq(s, k, l) /\ Valued(s, e, k, l)
        <5>1. CASE \A n \in (e+1)..q : s[n] = "space"
          <6>1. val = <<>>
            BY <4>4, <5>1, TrimPart
          <6>2. SubSeq(s, e + 1, e) \in Seq(S) /\ Len(SubSeq(s, e + 1, e)) = 0
            BY <2>2, <3>2, SubSeqIs
          <6>3. SubSeq(s, e + 1, e) = <<>>
            BY <6>2
          <6> HIDE DEF val
          <6>4. Valued(s, e, e + 1, e)
            BY <3>3, <5>1 DEF Valued
          <6> QED BY <6>1, <6>3, <6>4
        <5>2. CASE ~ \A n \in (e+1)..q : s[n] = "space"
          <6>1. PICK k, l \in (e+1)..q : Framed(s, e + 1, q, k, l) /\ val = SubSeq(s, k, l)
            BY <4>4, <5>2, TrimPart, Zenon
          <6>2. Framed(s, e + 1, Len(s), k, l)
            BY <2>2, <3>2, <3>3, <6>1 DEF Framed
          <6> HIDE DEF val
          <6> QED BY <6>1, <6>2 DEF Valued
        <5> QED BY <5>1, <5>2
      <4> HIDE DEF key, val
      <4>6. Readings(s) = {[key |-> key, val |-> val]}
        <5>1. PICK k, l : val = SubSeq(s, k, l) /\ Valued(s, e, k, l)
          BY <4>5, Zenon
        <5>2. FirstEq(s, e) /\ Keyed(s, e, i, j) /\ e \in 1..Len(s)
          BY <2>6, <3>2, <4>2 DEF Keyed
        <5>3. ReadAs(s, i, j, k, l)
          BY <5>1, <5>2, OneReading
        <5> QED BY <4>1, <5>1, <5>3 DEF ReadAs
      <4>7. r = [ok |-> TRUE, key |-> key, val |-> val]
        BY <3>1, <4>3
      <4> QED BY <4>3, <4>6, <4>7
    <3> QED BY <3>4, <3>5
  <2>7. \/ (\A e \in 1..Len(s) : ~FirstEq(s, e)) /\ parts = <<v>>
        \/ \E e \in p..q : /\ FirstEq(s, e)
                           /\ parts = <<SubSeq(s, p, e - 1), SubSeq(s, e + 1, q)>>
    BY <2>1, SplitIs, Zenon
  <2> HIDE DEF r, parts
  <2> QED BY <1>2, <2>5, <2>6, <2>7, Zenon DEF r
<1> QED BY <1>1, <1>2

\* Spaces at the end of a text do not matter to parseAnnotation.
LEMMA TrimmedAtEnd ==
  ASSUME NEW S, NEW s \in Seq(S), ~Blank(s)
  PROVE  LET t == SubSeq(s, 1, Max(NonBlanks(s)))
         IN  t \in Seq(S) /\ ~Blank(t) /\ parseAnnotation(t) = parseAnnotation(s)
<1> DEFINE I == NonBlanks(s)
           q == Max(I)
           t == SubSeq(s, 1, q)
<1>1. PICK p, z \in 1..Len(s) :
        Framed(s, 1, Len(s), p, z) /\ TrimSpace(s) = SubSeq(s, p, z)
  BY TrimIs
<1>2. Len(s) \in Nat /\ DOMAIN s = 1..Len(s)
  OBVIOUS
<1>3. \A x : x \in I <=> x \in 1..Len(s) /\ s[x] # "space"
  BY <1>2 DEF NonBlanks
<1> HIDE DEF I
<1>4. z \in I /\ I \subseteq 0..Len(s)
  BY <1>1, <1>2, <1>3 DEF Framed
<1>5. q \in I /\ \A y \in I : q >= y
  BY <1>2, <1>4, MaxOf, Zenon
<1> HIDE DEF q
<1>6. q = z
  BY <1>1, <1>2, <1>3, <1>4, <1>5 DEF Framed
<1>7. /\ p \in 1..z /\ 1 \in 1..(Len(s) + 1) /\ z \in 0..Len(s) /\ 1 <= z + 1
      /\ s[p] # "space"
  BY <1>1, <1>2 DEF Framed
<1>8. /\ t \in Seq(S) /\ Len(t) = z - 1 + 1
      /\ \A k \in 1..(z - 1 + 1) : t[k] = s[1 + k - 1]
  BY <1>6, <1>7, SubSeqIs
<1>9. ~Blank(t)
  <2>1. p \in DOMAIN t /\ t[p] = s[p]
    <3> HIDE DEF t
    <3>1. p \in 1..(z - 1 + 1) /\ 1 + p - 1 = p /\ DOMAIN t = 1..(z - 1 + 1)
      BY <1>2, <1>7, <1>8
    <3> QED BY <1>8, <3>1
  <2> QED BY <1>7, <2>1, Zenon DEF Blank
<1>10. TrimSpace(t) = TrimSpace(s)
  <2>1. PICK a, b \in 1..z : Framed(s, 1, z, a, b) /\ TrimSpace(t) = SubSeq(s, a, b)
    BY <1>6, <1>7, TrimPart, Zenon
  <2>2. Framed(s, 1, z, p, z)
    BY <1>1, <1>2, <1>7 DEF Framed
  <2>3. a = p /\ b = z
    BY <1>2, <2>1, <2>2, FrameUnique
  <2> QED BY <1>1, <2>1, <2>3
<1>11. parseAnnotation(t) = parseAnnotation(s)
  BY <1>10, Zenon DEF parseAnnotation
<1> QED BY <1>8, <1>9, <1>11 DEF q, I

-----------------------------------------------------------------------------
\* Adjacent parts of a text put together.
LEMMA Glue ==
  ASSUME NEW S, NEW s \in Seq(S), NEW a \in 1..(Len(s) + 1), NEW b \in 0..Len(s),
         NEW c \in 0..Len(s), a <= b + 1, b <= c
  PROVE  SubSeq(s, a, b) \o SubSeq(s, b + 1, c) = SubSeq(s, a, c)
<1> DEFINE x == SubSeq(s, a, b)
           y == SubSeq(s, b + 1, c)
           z == SubSeq(s, a, c)
           w == x \o y
<1>1. Len(s) \in Nat /\ a \in Nat /\ b \in Nat /\ c \in Nat
  OBVIOUS
<1>2. /\ x \in Seq(S) /\ Len(x) = b - a + 1
      /\ \A k \in 1..(b - a + 1) : x[k] = s[a + k - 1]
  BY SubSeqIs
<1>3. /\ y \in Seq(S) /\ Len(y) = c - (b + 1) + 1
      /\ \A k \in 1..(c - (b + 1) + 1) : y[k] = s[(b + 1) + k - 1]
  <2>1. b + 1 \in 1..(Len(s) + 1) /\ b + 1 <= c + 1
    BY <1>1
  <2> QED BY <2>1, SubSeqIs
<1>4. /\ z \in Seq(S) /\ Len(z) = c - a + 1
      /\ \A k \in 1..(c - a + 1) : z[k] = s[a + k - 1]
  <2>1. a <= c + 1
    BY <1>1
  <2> QED BY <2>1, SubSeqIs
<1> HIDE DEF x, y, z
<1>5. /\ w \in Seq(S) /\ Len(w) = c - a + 1
      /\ \A k \in 1..(b - a + 1) : w[k] = x[k]
      /\ \A k \in (b - a + 2)..(c - a + 1) : w[k] = y[k - (b - a + 1)]
  <2>1. /\ w \in Seq(S) /\ Len(w) = Len(x) + Len(y)
        /\ \A k \in (Len(x) + 1)..(Len(x) + Len(y)) : w[k] = y[k - Len(x)]
    <3>1. x \in Seq(S) /\ y \in Seq(S) /\ Len(x) \in Nat /\ Len(y) \in Nat
      BY <1>2, <1>3
    <3>2. w \in Seq(S)
      BY <3>1
    <3>3. Len(w) = Len(x) + Len(y)
      BY <3>1
    <3>4. ASSUME NEW k \in (Len(x) + 1)..(Len(x) + Len(y)) PROVE w[k] = y[k - Len(x)]
      BY <3>1
    <3> QED BY <3>2, <3>3, <3>4
  <2>2. Len(w) = c - a + 1
    <3>1. (b - a + 1) + (c - (b + 1) + 1) = c - a + 1
      BY <1>1
    <3> HIDE DEF w
    <3> QED BY <1>2, <1>3, <2>1, <3>1
  <2>3. \A k \in 1..(b - a + 1) : w[k] = x[k]
    BY <1>1, <1>2, <1>3
  <2>4. \A k \in (b - a + 2)..(c - a + 1) : w[k] = y[k - (b - a + 1)]
    <3> HIDE DEF w
    <3>1. (b - a + 2)..(c - a + 1) = (Len(x) + 1)..(Len(x) + Len(y))
      BY <1>1, <1>2, <1>3
    <3> QED BY <1>2, <2>1, <3>1
  <2> QED BY <2>1, <2>2, <2>3, <2>4
<1> HIDE DEF w
<1>6. ASSUME NEW k \in 1..(c - a + 1) PROVE w[k] = z[k]
  <2>1. CASE k \in 1..(b - a + 1)
    BY <1>2, <1>4, <1>5, <2>1
  <2>2. CASE k \in (b - a + 2)..(c - a + 1)
    <3>1. /\ k - (b - a + 1) \in 1..(c - (b + 1) + 1)
          /\ (b + 1) + (k - (b - a + 1)) - 1 = a + k - 1
      BY <1>1, <2>2
    <3>2. y[k - (b - a + 1)] = s[(b + 1) + (k - (b - a + 1)) - 1]
      BY <1>3, <3>1
    <3> QED BY <1>4, <1>5, <2>2, <3>1, <3>2
  <2> QED BY <1>1, <2>1, <2>2
<1>7. w = z
  BY <1>4, <1>5, <1>6, SameSeq
<1> QED BY <1>7 DEF w, x, y, z

\* One character is a part.
LEMMA OneChar ==
  ASSUME NEW S, NEW s \in Seq(S), NEW a \in 1..Len(s)
  PROVE  <<s[a]>> = SubSeq(s, a, a)
<1> DEFINE x == SubSeq(s, a, a)
           y == <<s[a]>>
<1>1. x \in Seq(S) /\ Len(x) = 1 /\ x[1] = s[a]
  <2>1. /\ x \in Seq(S) /\ Len(x) = a - a + 1
        /\ \A k \in 1..(a - a + 1) : x[k] = s[a + k - 1]
    BY SubSeqIs
  <2> HIDE DEF x
  <2>2. a - a + 1 = 1 /\ a + 1 - 1 = a /\ 1 \in 1..1
    OBVIOUS
  <2> QED BY <2>1, <2>2
<1>2. y \in Seq(S) /\ Len(y) = 1 /\ y[1] = s[a]
  OBVIOUS
<1> HIDE DEF x, y
<1>3. \A k \in 1..1 : y[k] = x[k]
  BY <1>1, <1>2
<1>4. y = x
  BY <1>1, <1>2, <1>3, SameSeq
<1> QED BY <1>4 DEF x, y

\* The next "." ends a part of strings.Split, and the end of the text the last.
LEMMA PartEndIs ==
  ASSUME NEW S, NEW s \in Seq(S), NEW a \in 1..(Len(s) + 1), NEW d \in a..(Len(s) + 1),
         d <= Len(s) => s[d] = ".", \A x \in a..Len(s) : x < d => s[x] # "."
  PROVE  PartEnd(s, a) = d
<1> DEFINE D == {x \in a..Len(s) : s[x] = "."}
<1>1. Len(s) \in Nat /\ a \in Nat /\ d \in Nat
  OBVIOUS
<1>2. PartEnd(s, a) = IF D = {} THEN Len(s) + 1 ELSE Min(D)
  BY DEF PartEnd
<1>3. CASE d = Len(s) + 1
  <2>1. D = {}
    BY <1>1, <1>3
  <2> QED BY <1>2, <1>3, <2>1
<1>4. CASE d <= Len(s)
  <2>1. d \in D /\ D \subseteq Nat /\ \A x \in D : x >= d
    BY <1>1, <1>4
  <2> HIDE DEF D
  <2>2. Min(D) \in D /\ \A x \in D : Min(D) <= x
    BY <2>1, MinOf, Zenon
  <2>3. Min(D) \in Nat /\ Min(D) >= d /\ Min(D) <= d
    BY <2>1, <2>2, Zenon
  <2>4. Min(D) = d
    BY <1>1, <2>3
  <2> QED BY <1>2, <2>1, <2>4
<1> QED BY <1>1, <1>3, <1>4

\* The first three separators strings.Split finds, the end of the text included.
Separated(s, a, b, c) ==
  /\ a \in Nat /\ b \in Nat /\ c \in Nat
  /\ PartEnd(s, 1) = a /\ PartEnd(s, a + 1) = b /\ PartEnd(s, b + 1) = c

\* What is between them.
Parted(s, a, b, c, n) ==
  /\ n = 1 => Part(s, n) = SubSeq(s, 1, a - 1)
  /\ n = 2 => Part(s, n) = SubSeq(s, a + 1, b - 1)
  /\ n = 3 => Part(s, n) = SubSeq(s, b + 1, c - 1)

\* The first three parts of strings.Split.
LEMMA PartIs ==
  ASSUME NEW s, NEW a, NEW b, NEW c, NEW n \in 1..3, Separated(s, a, b, c)
  PROVE  Parted(s, a, b, c, n)
<1> DEFINE F(f) == [k \in 0..n |-> IF k = 0 THEN 0 ELSE PartEnd(s, f[k - 1] + 1)]
           g == [k \in 0..n |-> IF k = 0 THEN 0 ELSE IF k = 1 THEN a
                                ELSE IF k = 2 THEN b ELSE c]
           t == CHOOSE f : f = F(f)
<1> USE DEF Separated, Parted
<1>1. Part(s, n) = SubSeq(s, t[n - 1] + 1, t[n] - 1)
  BY DEF Part
<1>2. g = F(g)
  <2>1. \A k \in 0..n : k = 0 \/ k = 1 \/ k = 2 \/ k = 3
    OBVIOUS
  <2>2. ASSUME NEW k \in 0..n PROVE g[k] = F(g)[k]
    <3>1. CASE k = 0
      BY <3>1
    <3>2. CASE k = 1
      BY <3>2
    <3>3. CASE k = 2
      BY <3>3
    <3>4. CASE k = 3
      BY <3>4
    <3> QED BY <2>1, <3>1, <3>2, <3>3, <3>4
  <2> QED BY <2>2
<1>3. t = F(t)
  <2> HIDE DEF F, g
  <2> QED BY <1>2
<1> HIDE DEF t
<1>4. t[0] = 0 /\ \A k \in 1..n : t[k] = PartEnd(s, t[k - 1] + 1)
  BY <1>3
<1>5. t[1] = a /\ (n >= 2 => t[2] = b) /\ (n >= 3 => t[3] = c)
  <2>1. t[1] = a
    BY <1>4
  <2>2. n >= 2 => t[2] = b
    BY <1>4, <2>1
  <2>3. n >= 3 => t[3] = c
    BY <1>4, <2>2
  <2> QED BY <2>1, <2>2, <2>3
<1>6. /\ n = 1 => t[n - 1] = 0 /\ t[n] = a
      /\ n = 2 => t[n - 1] = a /\ t[n] = b
      /\ n = 3 => t[n - 1] = b /\ t[n] = c
  BY <1>4, <1>5
<1>7. CASE n = 1
  <2>1. t[n - 1] + 1 = 1
    BY <1>6, <1>7
  <2> QED BY <1>1, <1>6, <1>7, <2>1
<1>8. CASE n = 2
  <2>1. t[n - 1] = a /\ t[n] = b
    BY <1>6, <1>8
  <2> QED BY <1>1, <1>8, <2>1
<1>9. CASE n = 3
  <2>1. t[n - 1] = b /\ t[n] = c
    BY <1>6, <1>9
  <2> QED BY <1>1, <1>9, <2>1
<1>10. n = 1 \/ n = 2 \/ n = 3
  OBVIOUS
<1> QED BY <1>7, <1>8, <1>9, <1>10

\* What the expressions of splitVersion match: v, digits, and two dots.
Dotted(s, a, b) ==
  /\ a \in 3..Len(s) /\ b \in (a + 1)..Len(s)
  /\ s[1] = "v" /\ s[a] = "." /\ s[b] = "." /\ \A x \in 2..(a-1) : s[x] = "7"
  /\ \A x \in 1..Len(s) : x # a /\ x # b => s[x] # "."

\* What a part consists of, its text does between its ends.
LEMMA DigitsOf ==
  ASSUME NEW S, NEW s \in Seq(S), NEW a \in 1..(Len(s) + 1), NEW b \in 0..Len(s), a <= b + 1
  PROVE  /\ Digits(SubSeq(s, a, b)) <=> a <= b /\ \A x \in a..b : s[x] = "7"
         /\ Word(SubSeq(s, a, b)) <=> a <= b /\ \A x \in a..b : s[x] \in {"7", "v"}
<1> DEFINE t == SubSeq(s, a, b)
<1>1. Len(s) \in Nat /\ a \in Nat /\ b \in Nat
  OBVIOUS
<1>2. /\ t \in Seq(S) /\ Len(t) = b - a + 1
      /\ \A k \in 1..(b - a + 1) : t[k] = s[a + k - 1]
  BY SubSeqIs
<1> HIDE DEF t
<1>3. t # <<>> <=> a <= b
  <2>1. t # <<>> <=> Len(t) > 0
    BY <1>2
  <2> QED BY <1>1, <1>2, <2>1
<1>4. DOMAIN t = 1..(b - a + 1)
  BY <1>2
<1>5. ASSUME NEW x \in a..b PROVE x - a + 1 \in DOMAIN t /\ t[x - a + 1] = s[x]
  <2>1. x - a + 1 \in 1..(b - a + 1) /\ a + (x - a + 1) - 1 = x
    BY <1>1
  <2> QED BY <1>2, <1>4, <2>1
<1>6. ASSUME NEW k \in DOMAIN t PROVE a + k - 1 \in a..b /\ t[k] = s[a + k - 1]
  <2>1. k \in 1..(b - a + 1)
    BY <1>4
  <2>2. a + k - 1 \in a..b
    BY <1>1, <2>1
  <2> QED BY <1>2, <2>1, <2>2
<1>7. (\A k \in DOMAIN t : t[k] = "7") <=> \A x \in a..b : s[x] = "7"
  BY <1>5, <1>6, Zenon
<1>8. (\A k \in DOMAIN t : t[k] \in {"7", "v"}) <=> \A x \in a..b : s[x] \in {"7", "v"}
  BY <1>5, <1>6, Zenon
<1> QED BY <1>3, <1>7, <1>8, Zenon DEF Digits, Word, t

\* The version of a tag.
LEMMA TagIs ==
  ASSUME NEW S, NEW s \in Seq(S), IsTag(s)
  PROVE  \E a, b \in 1..Len(s) : Dotted(s, a, b)
<1>1. PICK a, b \in 1..Len(s) :
        /\ 1 < a /\ a < b /\ s[1] = "v" /\ s[a] = "." /\ s[b] = "."
        /\ Digits(SubSeq(s, 2, a - 1)) /\ Digits(SubSeq(s, a + 1, b - 1))
        /\ Digits(SubSeq(s, b + 1, Len(s)))
  <2>1. DOMAIN s = 1..Len(s)
    OBVIOUS
  <2> QED BY <2>1 DEF IsTag
<1>2. Len(s) \in Nat /\ a \in Nat /\ b \in Nat /\ a \in 1..Len(s) /\ b \in 1..Len(s)
  OBVIOUS
<1>3. 2 <= a - 1 /\ \A x \in 2..(a-1) : s[x] = "7"
  <2>1. 2 \in 1..(Len(s) + 1) /\ a - 1 \in 0..Len(s) /\ 2 <= (a - 1) + 1
    BY <1>1, <1>2
  <2>2. Digits(SubSeq(s, 2, a - 1))
    BY <1>1
  <2> QED BY <2>1, <2>2, DigitsOf
<1>4. \A x \in (a+1)..(b-1) : s[x] = "7"
  <2>1. a + 1 \in 1..(Len(s) + 1) /\ b - 1 \in 0..Len(s) /\ a + 1 <= (b - 1) + 1
    BY <1>1, <1>2
  <2>2. Digits(SubSeq(s, a + 1, b - 1))
    BY <1>1
  <2> QED BY <2>1, <2>2, DigitsOf
<1>5. \A x \in (b+1)..Len(s) : s[x] = "7"
  <2>1. b + 1 \in 1..(Len(s) + 1) /\ Len(s) \in 0..Len(s) /\ b + 1 <= Len(s) + 1
    BY <1>1, <1>2
  <2>2. Digits(SubSeq(s, b + 1, Len(s)))
    BY <1>1
  <2> QED BY <2>1, <2>2, DigitsOf
<1>6. ASSUME NEW x \in 1..Len(s), x # a, x # b PROVE s[x] # "."
  <2>1. x = 1 \/ x \in 2..(a-1) \/ x \in (a+1)..(b-1) \/ x \in (b+1)..Len(s)
    BY <1>1, <1>2, <1>6
  <2> QED BY <1>1, <1>3, <1>4, <1>5, <2>1
<1>7. a \in 3..Len(s) /\ b \in (a + 1)..Len(s)
  BY <1>1, <1>2, <1>3
<1> QED BY <1>1, <1>2, <1>3, <1>6, <1>7 DEF Dotted

\* The version of a build that is no tag: there is no dot behind the tag's.
LEMMA BuildIs ==
  ASSUME NEW S, NEW s \in Seq(S), IsBuild(s)
  PROVE  \E a, b \in 1..Len(s) : Dotted(s, a, b)
<1>1. PICK c, d \in 1..Len(s) :
        /\ 1 < c /\ c < d /\ s[c] = "-" /\ s[d] = "-" /\ IsTag(SubSeq(s, 1, c - 1))
        /\ Word(SubSeq(s, c + 1, d - 1)) /\ Word(SubSeq(s, d + 1, Len(s)))
  <2>1. DOMAIN s = 1..Len(s)
    OBVIOUS
  <2> QED BY <2>1 DEF IsBuild
<1> DEFINE t == SubSeq(s, 1, c - 1)
<1>2. Len(s) \in Nat /\ c \in Nat /\ d \in Nat /\ 1 < c /\ c < d /\ d <= Len(s)
  BY <1>1
<1>3. /\ t \in Seq(S) /\ Len(t) = c - 1
      /\ \A k \in 1..(c - 1) : t[k] = s[k]
  <2>1. 1 \in 1..(Len(s) + 1) /\ c - 1 \in 0..Len(s) /\ 1 <= (c - 1) + 1
    BY <1>2
  <2>2. /\ t \in Seq(S) /\ Len(t) = (c - 1) - 1 + 1
        /\ \A k \in 1..((c - 1) - 1 + 1) : t[k] = s[1 + k - 1]
    BY <2>1, SubSeqIs
  <2> HIDE DEF t
  <2>3. (c - 1) - 1 + 1 = c - 1 /\ \A k \in 1..(c - 1) : 1 + k - 1 = k
    BY <1>2
  <2> QED BY <2>2, <2>3
<1>4. IsTag(t)
  BY <1>1
<1> HIDE DEF t
<1>5. PICK a, b \in 1..Len(t) : Dotted(t, a, b)
  BY <1>3, <1>4, TagIs
<1>6. /\ a \in 3..(c-1) /\ b \in (a + 1)..(c-1)
      /\ t[1] = "v" /\ t[a] = "." /\ t[b] = "." /\ \A x \in 2..(a-1) : t[x] = "7"
      /\ \A x \in 1..(c-1) : x # a /\ x # b => t[x] # "."
  BY <1>3, <1>5 DEF Dotted
<1>7. \A x \in (c+1)..(d-1) : s[x] \in {"7", "v"}
  <2>1. c + 1 \in 1..(Len(s) + 1) /\ d - 1 \in 0..Len(s) /\ c + 1 <= (d - 1) + 1
    BY <1>2
  <2>2. Word(SubSeq(s, c + 1, d - 1))
    BY <1>1
  <2> DEFINE i == c + 1
             j == d - 1
  <2> HIDE DEF i, j
  <2>3. i \in 1..(Len(s) + 1) /\ j \in 0..Len(s) /\ i <= j + 1 /\ Word(SubSeq(s, i, j))
    BY <2>1, <2>2 DEF i, j
  <2>4. \A x \in i..j : s[x] \in {"7", "v"}
    BY <2>3, DigitsOf
  <2> QED BY <2>4 DEF i, j
<1>8. \A x \in (d+1)..Len(s) : s[x] \in {"7", "v"}
  <2>1. d + 1 \in 1..(Len(s) + 1) /\ Len(s) \in 0..Len(s) /\ d + 1 <= Len(s) + 1
    BY <1>2
  <2>2. Word(SubSeq(s, d + 1, Len(s)))
    BY <1>1
  <2> QED BY <2>1, <2>2, DigitsOf
<1>9. ASSUME NEW x \in 1..Len(s), x # a, x # b PROVE s[x] # "."
  <2>1. \/ x \in 1..(c-1) \/ x = c \/ x \in (c+1)..(d-1) \/ x = d \/ x \in (d+1)..Len(s)
    BY <1>2
  <2>2. CASE x \in 1..(c-1)
    BY <1>3, <1>6, <1>9, <2>2
  <2>3. CASE x = c \/ x = d
    BY <1>1, <2>3
  <2>4. CASE x \in (c+1)..(d-1) \/ x \in (d+1)..Len(s)
    BY <1>7, <1>8, <2>4
  <2> QED BY <2>1, <2>2, <2>3, <2>4
<1>10. /\ a \in 3..Len(s) /\ b \in (a + 1)..Len(s) /\ a \in 1..(c-1) /\ b \in 1..(c-1)
       /\ a \in 1..Len(s) /\ b \in 1..Len(s) /\ 1 \in 1..(c-1)
  BY <1>2, <1>6
<1>11. s[1] = "v" /\ s[a] = "." /\ s[b] = "."
  BY <1>3, <1>6, <1>10
<1>12. ASSUME NEW x \in 2..(a-1) PROVE s[x] = "7"
  <2>1. x \in 1..(c-1)
    BY <1>2, <1>6
  <2> QED BY <1>3, <1>6, <2>1
<1> QED BY <1>9, <1>10, <1>11, <1>12 DEF Dotted

(***************************************************************************)
(* splitVersion (version.go:51-68) takes a version of any length apart     *)
(* without losing anything of it, or does not recognise it.                *)
(***************************************************************************)
LEMMA Splits ==
  ASSUME NEW S, NEW s \in Seq(S), splitVersion(s).Major # <<>>
  PROVE  LET r == splitVersion(s)
         IN  Digits(r.Major) /\ <<"v">> \o r.Major \o <<".">> \o r.Minor = s
<1> DEFINE r == splitVersion(s)
<1>1. IsTag(s) \/ IsBuild(s)
  BY DEF splitVersion
<1>2. r.Major = Trim(Part(s, 1)) /\ r.Minor = Part(s, 2) \o <<".">> \o Part(s, 3)
  BY DEF splitVersion
<1> HIDE DEF r
<1>3. PICK a, b \in 1..Len(s) : Dotted(s, a, b)
  BY <1>1, TagIs, BuildIs
<1>4. /\ Len(s) \in Nat /\ a \in Nat /\ b \in Nat /\ 3 <= a /\ a < b /\ b <= Len(s)
      /\ s[1] = "v" /\ s[a] = "." /\ s[b] = "." /\ \A x \in 2..(a-1) : s[x] = "7"
      /\ \A x \in 1..Len(s) : x # a /\ x # b => s[x] # "."
  BY <1>3 DEF Dotted
<1>5. PartEnd(s, 1) = a
  <2>1. /\ 1 \in 1..(Len(s) + 1) /\ a \in 1..(Len(s) + 1)
        /\ \A x \in 1..Len(s) : x < a => s[x] # "."
    BY <1>4
  <2> QED BY <1>4, <2>1, PartEndIs
<1>6. PartEnd(s, a + 1) = b
  <2>1. /\ a + 1 \in 1..(Len(s) + 1) /\ b \in (a + 1)..(Len(s) + 1)
        /\ \A x \in (a + 1)..Len(s) : x < b => s[x] # "."
    BY <1>4
  <2> QED BY <1>4, <2>1, PartEndIs
<1>7. PartEnd(s, b + 1) = Len(s) + 1
  <2>1. /\ b + 1 \in 1..(Len(s) + 1) /\ Len(s) + 1 \in (b + 1)..(Len(s) + 1)
        /\ \A x \in (b + 1)..Len(s) : s[x] # "."
        /\ ~(Len(s) + 1 <= Len(s))
    BY <1>4
  <2> QED BY <2>1, PartEndIs
<1>8. /\ Part(s, 1) = SubSeq(s, 1, a - 1) /\ Part(s, 2) = SubSeq(s, a + 1, b - 1)
      /\ Part(s, 3) = SubSeq(s, b + 1, Len(s))
  <2>1. (Len(s) + 1) - 1 = Len(s) /\ 1 \in 1..3 /\ 2 \in 1..3 /\ 3 \in 1..3
    BY <1>4
  <2>2. ASSUME NEW n \in 1..3
        PROVE  /\ n = 1 => Part(s, n) = SubSeq(s, 1, a - 1)
               /\ n = 2 => Part(s, n) = SubSeq(s, a + 1, b - 1)
               /\ n = 3 => Part(s, n) = SubSeq(s, b + 1, (Len(s) + 1) - 1)
    <3> DEFINE c == Len(s) + 1
    <3>1. Separated(s, a, b, c)
      <4>1. c \in Nat
        BY <1>4
      <4> QED BY <1>4, <1>5, <1>6, <1>7, <4>1 DEF Separated
    <3> HIDE DEF c
    <3>2. Parted(s, a, b, c, n)
      BY <3>1, PartIs, Zenon
    <3> QED BY <3>2 DEF c, Parted
  <2> QED BY <2>1, <2>2
<1>9. Trim(Part(s, 1)) = SubSeq(s, 2, a - 1)
  <2> DEFINE t == SubSeq(s, 1, a - 1)
             O == {x \in DOMAIN t : t[x] # "v"}
  <2>1. /\ t \in Seq(S) /\ Len(t) = a - 1
        /\ \A k \in 1..(a - 1) : t[k] = s[k]
    <3>1. 1 \in 1..(Len(s) + 1) /\ a - 1 \in 0..Len(s) /\ 1 <= (a - 1) + 1
      BY <1>4
    <3>2. /\ t \in Seq(S) /\ Len(t) = (a - 1) - 1 + 1
          /\ \A k \in 1..((a - 1) - 1 + 1) : t[k] = s[1 + k - 1]
      BY <3>1, SubSeqIs
    <3> HIDE DEF t
    <3>3. (a - 1) - 1 + 1 = a - 1 /\ \A k \in 1..(a - 1) : 1 + k - 1 = k
      BY <1>4
    <3> QED BY <3>2, <3>3
  <2> HIDE DEF t
  <2>2. \A x : x \in O <=> x \in 2..(a-1)
    <3>1. DOMAIN t = 1..(a-1) /\ t[1] = "v"
      BY <1>4, <2>1
    <3>2. ASSUME NEW x \in O PROVE x \in 2..(a-1)
      <4>1. x \in 1..(a-1) /\ x # 1
        BY <3>1
      <4> QED BY <1>4, <4>1
    <3>3. ASSUME NEW x \in 2..(a-1) PROVE x \in O
      <4>1. x \in 1..(a-1) /\ s[x] = "7"
        BY <1>4
      <4> QED BY <2>1, <3>1, <4>1
    <3> QED BY <3>2, <3>3
  <2>3. Trim(t) = IF O = {} THEN <<>> ELSE SubSeq(t, Min(O), Max(O))
    BY DEF Trim
  <2> HIDE DEF O
  <2>4. 2 \in O /\ a - 1 \in O /\ O \subseteq Nat /\ O \subseteq 0..(a-1) /\ a - 1 \in Nat
    BY <1>4, <2>2
  <2>5. Min(O) = 2
    <3>1. Min(O) \in O /\ \A y \in O : Min(O) <= y
      BY <2>4, MinOf
    <3>2. Min(O) \in 2..(a-1) /\ Min(O) <= 2
      BY <2>2, <2>4, <3>1
    <3> QED BY <1>4, <3>2
  <2>6. Max(O) = a - 1
    <3>1. Max(O) \in O /\ \A y \in O : Max(O) >= y
      BY <2>4, MaxOf, Zenon
    <3>2. Max(O) \in 2..(a-1) /\ Max(O) >= a - 1
      BY <2>2, <2>4, <3>1
    <3> QED BY <1>4, <3>2
  <2>7. SubSeq(t, 2, a - 1) = SubSeq(s, 2, a - 1)
    <3>1. /\ 1 \in 1..(Len(s) + 1) /\ a - 1 \in 0..Len(s) /\ 1 <= (a - 1) + 1
          /\ 2 \in 1..((a - 1) - 1 + 2) /\ a - 1 \in 0..((a - 1) - 1 + 1) /\ 2 <= (a - 1) + 1
          /\ 1 + 2 - 1 = 2 /\ 1 + (a - 1) - 1 = a - 1
      BY <1>4
    <3>2. SubSeq(t, 2, a - 1) = SubSeq(s, 1 + 2 - 1, 1 + (a - 1) - 1)
      BY <3>1, SubSub DEF t
    <3> QED BY <3>1, <3>2
  <2>8. Trim(t) = SubSeq(s, 2, a - 1)
    BY <2>3, <2>4, <2>5, <2>6, <2>7
  <2> QED BY <1>8, <2>8, Zenon DEF t
<1>10. Digits(r.Major)
  <2>1. 2 \in 1..(Len(s) + 1) /\ a - 1 \in 0..Len(s) /\ 2 <= (a - 1) + 1 /\ 2 <= a - 1
    BY <1>4
  <2>2. Digits(SubSeq(s, 2, a - 1))
    BY <1>4, <2>1, DigitsOf, Zenon
  <2> QED BY <1>2, <1>9, <2>2, Zenon
<1>11. /\ <<"v">> = SubSeq(s, 1, 1) /\ <<".">> = SubSeq(s, a, a) /\ <<".">> = SubSeq(s, b, b)
  <2>1. 1 \in 1..Len(s)
    BY <1>4
  <2>2. <<s[1]>> = SubSeq(s, 1, 1) /\ <<s[a]>> = SubSeq(s, a, a) /\ <<s[b]>> = SubSeq(s, b, b)
    BY <2>1, OneChar
  <2> QED BY <1>4, <2>2
<1>12. ASSUME NEW x \in 1..(Len(s) + 1), NEW y \in 0..Len(s), NEW z \in 0..Len(s),
              x <= y + 1, y <= z
       PROVE  SubSeq(s, x, y) \o SubSeq(s, y + 1, z) = SubSeq(s, x, z)
  BY <1>12, Glue, Zenon
<1>13. SubSeq(s, 1, 1) \o SubSeq(s, 2, a - 1) = SubSeq(s, 1, a - 1)
  <2>1. /\ 1 \in 1..(Len(s) + 1) /\ 1 \in 0..Len(s) /\ a - 1 \in 0..Len(s)
        /\ 1 <= 1 + 1 /\ 1 <= a - 1 /\ 1 + 1 = 2
    BY <1>4
  <2> QED BY <1>12, <2>1
<1>14. SubSeq(s, 1, a - 1) \o SubSeq(s, a, a) = SubSeq(s, 1, a)
  <2>1. /\ 1 \in 1..(Len(s) + 1) /\ a - 1 \in 0..Len(s) /\ a \in 0..Len(s)
        /\ 1 <= (a - 1) + 1 /\ a - 1 <= a /\ (a - 1) + 1 = a
    BY <1>4
  <2>2. SubSeq(s, 1, a - 1) \o SubSeq(s, (a - 1) + 1, a) = SubSeq(s, 1, a)
    BY <1>12, <2>1
  <2> QED BY <2>1, <2>2
<1>15. SubSeq(s, a + 1, b - 1) \o SubSeq(s, b, b) = SubSeq(s, a + 1, b)
  <2>1. /\ a + 1 \in 1..(Len(s) + 1) /\ b - 1 \in 0..Len(s) /\ b \in 0..Len(s)
        /\ a + 1 <= (b - 1) + 1 /\ b - 1 <= b /\ (b - 1) + 1 = b
    BY <1>4
  <2>2. SubSeq(s, a + 1, b - 1) \o SubSeq(s, (b - 1) + 1, b) = SubSeq(s, a + 1, b)
    BY <1>12, <2>1
  <2> QED BY <2>1, <2>2
<1>16. SubSeq(s, a + 1, b) \o SubSeq(s, b + 1, Len(s)) = SubSeq(s, a + 1, Len(s))
  <2>1. /\ a + 1 \in 1..(Len(s) + 1) /\ b \in 0..Len(s) /\ Len(s) \in 0..Len(s)
        /\ a + 1 <= b + 1 /\ b <= Len(s)
    BY <1>4
  <2> QED BY <1>12, <2>1, Zenon
<1>17. SubSeq(s, 1, a) \o SubSeq(s, a + 1, Len(s)) = SubSeq(s, 1, Len(s))
  <2>1. /\ 1 \in 1..(Len(s) + 1) /\ a \in 0..Len(s) /\ Len(s) \in 0..Len(s)
        /\ 1 <= a + 1 /\ a <= Len(s)
    BY <1>4
  <2> QED BY <1>12, <2>1
<1>18. SubSeq(s, 1, Len(s)) = s
  OBVIOUS
<1>19. r.Minor = SubSeq(s, a + 1, Len(s))
  BY <1>2, <1>8, <1>11, <1>15, <1>16, Zenon
<1>20. <<"v">> \o r.Major \o <<".">> = SubSeq(s, 1, a)
  BY <1>2, <1>9, <1>11, <1>13, <1>14
<1> QED BY <1>10, <1>17, <1>18, <1>19, <1>20, Zenon DEF r
=============================================================================
