-------------------------- MODULE EprHeader_proofs --------------------------
(***************************************************************************)
(* Proofs about EprHeader, for headers of any well-formed lines and any    *)
(* capacity: the fields of a record have the values of their own lines, a  *)
(* malformed line is reported, the process ends only for the causes named, *)
(* and every step of the loop gets on in the text.                         *)
(***************************************************************************)
EXTENDS EprHeader, WellFoundedInduction, TLAPS

(***************************************************************************)
(* Induction, over a set of numbers, and least numbers.                    *)
(***************************************************************************)
LEMMA SetInduction ==
  ASSUME NEW S, 0 \in S, \A n \in Nat : n \in S => n + 1 \in S
  PROVE  Nat \subseteq S
<1> SUFFICES ASSUME Nat \ S # {} PROVE FALSE
  OBVIOUS
<1> DEFINE R == {ss \in Nat \X Nat : ss[1] < ss[2]}
           T == Nat \ S
<1>1. IsWellFoundedOn(R, Nat)
  BY NatLessThanWellFounded DEF OpToRel
<1>2. PICK x \in T : \A y \in T : <<y, x>> \notin R
  <2> HIDE DEF R
  <2> QED BY <1>1, WFMin
<1>3. x # 0 /\ x - 1 \in Nat /\ <<x - 1, x>> \in R
  OBVIOUS
<1>4. x - 1 \in S
  BY <1>2, <1>3
<1> QED BY <1>2, <1>3, <1>4

LEMMA Least ==
  ASSUME NEW S \in SUBSET Nat, S # {}
  PROVE  Min(S) \in S /\ \A y \in S : Min(S) <= y
<1> DEFINE R == {ss \in Nat \X Nat : ss[1] < ss[2]}
<1>1. IsWellFoundedOn(R, Nat)
  BY NatLessThanWellFounded DEF OpToRel
<1>2. PICK x \in S : \A y \in S : <<y, x>> \notin R
  <2> HIDE DEF R
  <2> QED BY <1>1, WFMin
<1>3. ASSUME NEW y \in S PROVE x <= y
  <2>1. x \in Nat /\ y \in Nat
    OBVIOUS
  <2>2. y < x => <<y, x>> \in R
    BY <2>1
  <2> QED BY <1>2, <2>1, <2>2
<1> QED BY <1>3 DEF Min

\* The least number is the one that has no other below it.
LEMMA LeastIs ==
  ASSUME NEW S \in SUBSET Nat, NEW q \in S, \A x \in S : q <= x
  PROVE  Min(S) = q
<1>1. Min(S) \in S /\ Min(S) <= q /\ q <= Min(S)
  BY Least
<1>2. Min(S) \in Nat /\ q \in Nat
  BY <1>1
<1> QED BY <1>1, <1>2

-----------------------------------------------------------------------------
(***************************************************************************)
(* Scanning.                                                               *)
(***************************************************************************)
Texts == Seq(Chars)

Found(text, pos) == [found |-> TRUE, text |-> text, pos |-> pos]

LEMMA TokenHit ==
  ASSUME NEW text \in Texts, NEW p \in Nat, NEW q \in Nat, NEW P,
         p <= q, q < Len(text), q \in P, \A x \in p .. q - 1 : x \notin P
  PROVE  Token(text, p, P) = Found(SubSeq(text, p + 1, q), q + 1)
<1> DEFINE hits == {x \in p .. Len(text) - 1 : x \in P}
<1>1. Len(text) \in Nat
  BY DEF Texts
<1>2. hits \in SUBSET Nat /\ q \in hits /\ \A x \in hits : q <= x
  BY <1>1
<1>3. Min(hits) = q /\ hits # {}
  <2> HIDE DEF hits
  <2> QED BY <1>2, LeastIs
<1>4. ~(p >= Len(text))
  BY <1>1
<1> QED BY <1>3, <1>4 DEF Token, Found

LEMMA TokenRest ==
  ASSUME NEW text \in Texts, NEW p \in Nat, NEW P,
         p < Len(text), \A x \in p .. Len(text) - 1 : x \notin P
  PROVE  Token(text, p, P) =
           Found(SubSeq(text, p + 1, Len(text)), IF p = 0 THEN Len(text) + 1 ELSE Len(text))
<1>1. Len(text) \in Nat
  BY DEF Texts
<1>2. {x \in p .. Len(text) - 1 : x \in P} = {}
  OBVIOUS
<1>3. ~(p >= Len(text))
  BY <1>1
<1> QED BY <1>2, <1>3 DEF Token, Found

LEMMA TokenEnd ==
  ASSUME NEW text \in Texts, NEW p \in Nat, NEW P, p >= Len(text)
  PROVE  Token(text, p, P) = [found |-> FALSE, text |-> << >>, pos |-> p]
  BY DEF Token

LEMMA SeqEqual ==
  ASSUME NEW S, NEW a \in Seq(S), NEW b \in Seq(S), Len(a) = Len(b),
         \A i \in 1 .. Len(b) : a[i] = b[i]
  PROVE  a = b
  OBVIOUS

LEMMA Concat ==
  ASSUME NEW S, NEW a \in Seq(S), NEW b \in Seq(S)
  PROVE  /\ a \o b \in Seq(S) /\ Len(a \o b) = Len(a) + Len(b)
         /\ Len(a) \in Nat /\ Len(b) \in Nat
         /\ DOMAIN a = 1 .. Len(a) /\ DOMAIN b = 1 .. Len(b)
         /\ \A i \in 1 .. Len(a) : (a \o b)[i] = a[i]
         /\ \A i \in 1 .. Len(b) : (a \o b)[Len(a) + i] = b[i]
  OBVIOUS

LEMMA Added ==
  ASSUME NEW S, NEW a \in Seq(S), NEW b \in Seq(S)
  PROVE  a \o b \in Seq(S) /\ Len(a \o b) = Len(a) + Len(b)
  OBVIOUS

\* Text t is a part of another, from position p on.
Stands(t, text, p) == p + Len(t) <= Len(text) /\ \A i \in 1 .. Len(t) : text[p + i] = t[i]

LEMMA StandsIn ==
  ASSUME NEW S, NEW a \in Seq(S), NEW b \in Seq(S)
  PROVE  Stands(a, a \o b, 0) /\ Stands(b, a \o b, Len(a))
  BY Concat DEF Stands

LEMMA StandsTrans ==
  ASSUME NEW S, NEW a \in Seq(S), NEW b \in Seq(S), NEW c \in Seq(S), NEW p \in Nat, NEW q \in Nat,
         Stands(a, b, p), Stands(b, c, q)
  PROVE  Stands(a, c, q + p)
<1>1. Len(a) \in Nat /\ Len(b) \in Nat /\ Len(c) \in Nat
  OBVIOUS
<1>2. q + p + Len(a) <= Len(c)
  BY <1>1 DEF Stands
<1>3. ASSUME NEW i \in 1 .. Len(a) PROVE c[q + p + i] = a[i]
  <2>1. p + i \in 1 .. Len(b) /\ q + (p + i) = q + p + i
    BY <1>1 DEF Stands
  <2>2. c[q + (p + i)] = b[p + i] /\ b[p + i] = a[i]
    BY <2>1 DEF Stands
  <2> QED BY <2>1, <2>2
<1> QED BY <1>2, <1>3 DEF Stands

LEMMA SubSeqIs ==
  ASSUME NEW S, NEW t \in Seq(S), NEW text \in Seq(S), NEW p \in Nat, Stands(t, text, p)
  PROVE  SubSeq(text, p + 1, p + Len(t)) = t
<1>1. Len(t) \in Nat /\ Len(text) \in Nat /\ p + Len(t) <= Len(text)
  BY DEF Stands
<1> DEFINE u == SubSeq(text, p + 1, p + Len(t))
<1>2. u \in Seq(S) /\ Len(u) = Len(t) /\ \A i \in 1 .. Len(t) : u[i] = text[p + i]
  BY <1>1
<1> HIDE DEF u
<1>3. \A i \in 1 .. Len(t) : u[i] = t[i]
  BY <1>2 DEF Stands
<1>4. u = t
  BY <1>2, <1>3, SeqEqual
<1> QED BY <1>4 DEF u

\* The token in front of a separator, and one at the end of a text.
LEMMA StrTokAt ==
  ASSUME NEW text \in Texts, NEW t \in Texts, NEW p \in Nat, NEW seps,
         Stands(t, text, p), ~HasChar(t, seps),
         p + Len(t) < Len(text), text[p + Len(t) + 1] \in seps
  PROVE  StrTok(text, seps, p) = Found(t, p + Len(t) + 1)
<1>1. Len(t) \in Nat /\ Len(text) \in Nat /\ DOMAIN t = 1 .. Len(t)
  BY DEF Texts
<1>2. PICK q \in Nat : q = p + Len(t)
  BY <1>1
<1>3. q \in Places(text, seps)
  BY <1>1, <1>2 DEF Places
<1>4. ASSUME NEW x \in p .. q - 1 PROVE x \notin Places(text, seps)
  <2>1. x + 1 - p \in 1 .. Len(t) /\ p + (x + 1 - p) = x + 1
    BY <1>1, <1>2
  <2>2. text[x + 1] = t[x + 1 - p]
    BY <2>1 DEF Stands
  <2> QED BY <1>1, <2>1, <2>2 DEF Places, HasChar
<1>5. p <= q /\ q < Len(text) /\ q + 1 = p + Len(t) + 1
  BY <1>1, <1>2
<1>6. Token(text, p, Places(text, seps)) = Found(SubSeq(text, p + 1, q), q + 1)
  BY <1>3, <1>4, <1>5, TokenHit
<1>7. SubSeq(text, p + 1, q) = t
  BY <1>2, SubSeqIs DEF Texts
<1> QED BY <1>5, <1>6, <1>7 DEF StrTok

LEMMA StrTokLast ==
  ASSUME NEW text \in Texts, NEW t \in Texts, NEW p \in Nat, NEW seps,
         Stands(t, text, p), ~HasChar(t, seps), p + Len(t) = Len(text), t # << >>
  PROVE  StrTok(text, seps, p) = Found(t, IF p = 0 THEN Len(text) + 1 ELSE Len(text))
<1>1. Len(t) \in Nat \ {0} /\ Len(text) \in Nat /\ DOMAIN t = 1 .. Len(t) /\ p < Len(text)
  BY DEF Texts
<1>2. ASSUME NEW x \in p .. Len(text) - 1 PROVE x \notin Places(text, seps)
  <2>1. x + 1 - p \in 1 .. Len(t) /\ p + (x + 1 - p) = x + 1
    BY <1>1
  <2>2. text[x + 1] = t[x + 1 - p]
    BY <2>1 DEF Stands
  <2> QED BY <1>1, <2>1, <2>2 DEF Places, HasChar
<1>3. Token(text, p, Places(text, seps)) =
        Found(SubSeq(text, p + 1, Len(text)), IF p = 0 THEN Len(text) + 1 ELSE Len(text))
  BY <1>1, <1>2, TokenRest
<1>4. SubSeq(text, p + 1, Len(text)) = t
  BY SubSeqIs DEF Texts
<1> QED BY <1>3, <1>4 DEF StrTok

LEMMA StrTokNone ==
  ASSUME NEW text \in Texts, NEW seps, NEW p \in Nat, p >= Len(text)
  PROVE  StrTok(text, seps, p) = [found |-> FALSE, text |-> << >>, pos |-> p]
  BY TokenEnd DEF StrTok

-----------------------------------------------------------------------------
(***************************************************************************)
(* Sums, and sequences laid one after the other.                           *)
(***************************************************************************)

\* A recursive sum is what its definition says.
Sums(b, L, g) == g \in [0 .. L -> Nat] /\ g = [n \in 0 .. L |-> IF n = 0 THEN 0 ELSE g[n - 1] + b[n]]

LEMMA SumExists ==
  ASSUME NEW b, NEW L \in Nat, \A n \in 1 .. L : b[n] \in Nat
  PROVE  \E g : Sums(b, L, g)
<1> DEFINE Sum(g, m) == g[0] = 0 /\ \A n \in 1 .. m : g[n] = g[n - 1] + b[n]
           S == {m \in Nat : m <= L => \E g \in [0 .. m -> Nat] : Sum(g, m)}
<1>1. 0 \in S
  <2>1. Sum([n \in 0 .. 0 |-> 0], 0)
    OBVIOUS
  <2> QED BY <2>1
<1>2. ASSUME NEW m \in Nat, m \in S PROVE m + 1 \in S
  <2> SUFFICES ASSUME m + 1 <= L PROVE \E g \in [0 .. m + 1 -> Nat] : Sum(g, m + 1)
    OBVIOUS
  <2>1. PICK g \in [0 .. m -> Nat] : Sum(g, m)
    BY <1>2
  <2> DEFINE h == [n \in 0 .. m + 1 |-> IF n = m + 1 THEN g[m] + b[m + 1] ELSE g[n]]
  <2>2. h \in [0 .. m + 1 -> Nat]
    OBVIOUS
  <2>3. Sum(h, m + 1)
    BY <2>1
  <2> HIDE DEF h
  <2> QED BY <2>2, <2>3
<1>3. L \in S
  <2> HIDE DEF S
  <2> QED BY <1>1, <1>2, SetInduction
<1>4. PICK g \in [0 .. L -> Nat] : Sum(g, L)
  <2>1. L <= L => \E g \in [0 .. L -> Nat] : Sum(g, L)
    <3> HIDE DEF Sum
    <3> QED BY <1>3
  <2> HIDE DEF Sum
  <2> QED BY <2>1
<1>5. g = [n \in 0 .. L |-> IF n = 0 THEN 0 ELSE g[n - 1] + b[n]]
  BY <1>4
<1> QED BY <1>4, <1>5 DEF Sums

\* Where each element of a sequence of sequences ends when all are laid one
\* after the other.
IsEnds(s, ends) ==
  /\ ends \in [0 .. Len(s) -> Nat]
  /\ ends[0] = 0
  /\ \A k \in 1 .. Len(s) : ends[k] = ends[k - 1] + Len(s[k])

Laid(s, f, ends) ==
  /\ IsEnds(s, ends)
  /\ Len(f) = ends[Len(s)]
  /\ \A k \in 1 .. Len(s) : Stands(s[k], f, ends[k - 1])

LEMMA EndsExist ==
  ASSUME NEW S, NEW s \in Seq(Seq(S))
  PROVE  \E ends : IsEnds(s, ends)
<1> DEFINE b == [k \in 1 .. Len(s) |-> Len(s[k])]
<1>1. Len(s) \in Nat /\ \A k \in 1 .. Len(s) : s[k] \in Seq(S) /\ b[k] = Len(s[k]) /\ b[k] \in Nat
  OBVIOUS
<1> HIDE DEF b
<1>2. PICK g : Sums(b, Len(s), g)
  BY <1>1, SumExists
<1>3. g \in [0 .. Len(s) -> Nat] /\ g[0] = 0
  BY <1>1, <1>2 DEF Sums
<1>4. ASSUME NEW k \in 1 .. Len(s) PROVE g[k] = g[k - 1] + b[k]
  <2>1. k \in 0 .. Len(s) /\ k # 0
    BY <1>1
  <2> QED BY <1>2, <2>1 DEF Sums
<1> QED BY <1>1, <1>3, <1>4 DEF IsEnds

LEMMA FlattenFacts ==
  ASSUME NEW S, NEW s \in Seq(Seq(S))
  PROVE  FlattenSeq(s) \in Seq(S) /\ \E ends : Laid(s, FlattenSeq(s), ends)
<1>1. PICK ends : IsEnds(s, ends)
  BY EndsExist
<1>2. PICK L \in Nat : L = Len(s) /\ DOMAIN s = 1 .. L /\ \A k \in 1 .. L : s[k] \in Seq(S)
  OBVIOUS
<1>3. /\ ends \in [0 .. L -> Nat] /\ ends[0] = 0
      /\ \A k \in 1 .. L : ends[k] = ends[k - 1] + Len(s[k])
  BY <1>1, <1>2 DEF IsEnds
<1>4. CASE L = 0
  <2>1. FlattenSeq(s) = s
    BY <1>2, <1>4 DEF FlattenSeq
  <2>2. s = << >> /\ s \in Seq(S)
    BY <1>2, <1>4
  <2> QED BY <1>1, <1>2, <1>3, <1>4, <2>1, <2>2 DEF Laid
<1>5. CASE L # 0
  <2> DEFINE Flat(g, m) == \A i \in 1 .. m : g[i] = IF i = 1 THEN s[i] ELSE g[i - 1] \o s[i]
             Right(f, m) == /\ f \in Seq(S) /\ Len(f) = ends[m]
                            /\ \A k \in 1 .. m : Stands(s[k], f, ends[k - 1])
             Parts(g, m) == \A i \in 1 .. m : Right(g[i], i)
             Exists(m)   == \E g \in [1 .. m -> Seq(S)] : Flat(g, m) /\ Parts(g, m)
             N == {m \in Nat : m + 1 <= L => Exists(m + 1)}
             flatten == CHOOSE g : g = [i \in 1 .. L |-> IF i = 1 THEN s[i] ELSE g[i - 1] \o s[i]]
  <2>1. Exists(1)
    <3> DEFINE g == [i \in 1 .. 1 |-> s[1]]
    <3>1. g \in [1 .. 1 -> Seq(S)] /\ \A i \in 1 .. 1 : i = 1 /\ g[i] = s[1]
      BY <1>2, <1>5
    <3>2. Right(s[1], 1)
      <4>1. s[1] \in Seq(S) /\ Len(s[1]) \in Nat /\ ends[1] = 0 + Len(s[1])
        BY <1>2, <1>3, <1>5
      <4>2. Stands(s[1], s[1], 0)
        BY <4>1 DEF Stands
      <4>3. \A k \in 1 .. 1 : k = 1 /\ ends[k - 1] = 0
        BY <1>3
      <4> QED BY <4>1, <4>2, <4>3
    <3> HIDE DEF g, Right
    <3>3. Flat(g, 1) /\ Parts(g, 1)
      BY <3>1, <3>2
    <3> QED BY <3>1, <3>3
  <2>2. ASSUME NEW m \in Nat, m \in N PROVE m + 1 \in N
    <3> SUFFICES ASSUME m + 2 <= L PROVE Exists(m + 2)
      <4>1. m + 1 + 1 = m + 2 /\ m + 1 \in Nat
        OBVIOUS
      <4> HIDE DEF Exists
      <4> QED BY <4>1
    <3>1. PICK g \in [1 .. m + 1 -> Seq(S)] : Flat(g, m + 1) /\ Parts(g, m + 1)
      <4> HIDE DEF Flat, Parts
      <4> QED BY <2>2
    <3> DEFINE new == g[m + 1] \o s[m + 2]
               h   == [i \in 1 .. m + 2 |-> IF i = m + 2 THEN new ELSE g[i]]
    <3>2. Right(g[m + 1], m + 1) /\ s[m + 2] \in Seq(S)
      BY <1>2, <3>1
    <3>3. /\ new \in Seq(S) /\ Len(new) = ends[m + 1] + Len(s[m + 2])
          /\ Stands(g[m + 1], new, 0) /\ Stands(s[m + 2], new, ends[m + 1])
      <4>1. g[m + 1] \in Seq(S) /\ Len(g[m + 1]) = ends[m + 1]
        BY <3>2
      <4>2. s[m + 2] \in Seq(S)
        BY <3>2
      <4> HIDE DEF Right
      <4>3. new \in Seq(S) /\ Len(new) = Len(g[m + 1]) + Len(s[m + 2])
        BY <4>1, <4>2, Added
      <4>4. Stands(g[m + 1], new, 0) /\ Stands(s[m + 2], new, Len(g[m + 1]))
        BY <4>1, <4>2, StandsIn
      <4> QED BY <4>1, <4>3, <4>4
    <3>4. ends[m + 2] = ends[m + 1] + Len(s[m + 2])
      <4>1. m + 2 \in 1 .. L /\ (m + 2) - 1 = m + 1
        OBVIOUS
      <4> QED BY <1>3, <4>1
    <3>5. \A k \in 1 .. m + 1 : Stands(s[k], new, ends[k - 1])
      <4> TAKE k \in 1 .. m + 1
      <4>1. s[k] \in Seq(S) /\ ends[k - 1] \in Nat /\ 0 + ends[k - 1] = ends[k - 1]
        <5>1. k \in 1 .. L /\ k - 1 \in 0 .. L
          OBVIOUS
        <5>2. ends[k - 1] \in Nat
          BY <1>3, <5>1
        <5> QED BY <1>2, <5>1, <5>2
      <4>2. Stands(s[k], g[m + 1], ends[k - 1])
        BY <3>2
      <4>3. Stands(s[k], new, 0 + ends[k - 1])
        <5> HIDE DEF new, Right
        <5>1. g[m + 1] \in Seq(S)
          BY <3>2 DEF Right
        <5> QED BY <3>3, <4>1, <4>2, <5>1, StandsTrans
      <4> QED BY <4>1, <4>3
    <3>6. Right(new, m + 2)
      <4> HIDE DEF new
      <4>1. \A k \in 1 .. m + 2 : k \in 1 .. m + 1 \/ (k = m + 2 /\ k - 1 = m + 1)
        OBVIOUS
      <4> QED BY <3>3, <3>4, <3>5, <4>1
    <3>7. h \in [1 .. m + 2 -> Seq(S)]
      <4> HIDE DEF new
      <4> QED BY <3>3
    <3>8. h[m + 2] = new /\ \A i \in 1 .. m + 1 : h[i] = g[i]
      <4> HIDE DEF new
      <4> QED OBVIOUS
    <3> HIDE DEF h, Right
    <3>9. Flat(h, m + 2)
      <4> SUFFICES ASSUME NEW i \in 1 .. m + 2
                   PROVE  h[i] = IF i = 1 THEN s[i] ELSE h[i - 1] \o s[i]
        OBVIOUS
      <4>1. CASE i \in 1 .. m + 1
        <5>1. h[i] = g[i] /\ (i # 1 => h[i - 1] = g[i - 1])
          BY <3>8, <4>1
        <5> QED BY <3>1, <4>1, <5>1
      <4>2. CASE i = m + 2
        <5>1. h[i] = new /\ i # 1 /\ i - 1 = m + 1 /\ h[m + 1] = g[m + 1]
          <6> HIDE DEF new
          <6> QED BY <3>8, <4>2
        <5> QED BY <4>2, <5>1
      <4> QED BY <4>1, <4>2
    <3>10. Parts(h, m + 2)
      <4> HIDE DEF new
      <4>1. \A i \in 1 .. m + 2 : i \in 1 .. m + 1 \/ i = m + 2
        OBVIOUS
      <4> QED BY <3>1, <3>6, <3>8, <4>1
    <3> HIDE DEF Flat, Parts
    <3> QED BY <3>7, <3>9, <3>10
  <2>3. L - 1 \in N
    <3> HIDE DEF Exists
    <3>1. 0 \in N
      BY <2>1
    <3> HIDE DEF N
    <3>2. Nat \subseteq N
      BY <2>2, <3>1, SetInduction
    <3>3. L - 1 \in Nat
      BY <1>5
    <3> QED BY <3>2, <3>3
  <2>4. PICK g \in [1 .. L -> Seq(S)] : Flat(g, L) /\ Parts(g, L)
    <3>1. L - 1 + 1 = L
      OBVIOUS
    <3> HIDE DEF Flat, Parts
    <3> QED BY <2>3, <3>1
  <2>5. g = [i \in 1 .. L |-> IF i = 1 THEN s[i] ELSE g[i - 1] \o s[i]]
    BY <2>4
  <2>6. flatten = [i \in 1 .. L |-> IF i = 1 THEN s[i] ELSE flatten[i - 1] \o s[i]]
    BY <2>5
  <2> HIDE DEF flatten
  <2> DEFINE M == {m \in Nat : m + 1 <= L => flatten[m + 1] = g[m + 1]}
  <2>7. Nat \subseteq M
    <3>1. 0 \in M
      BY <1>5, <2>5, <2>6
    <3>2. ASSUME NEW m \in Nat, m \in M PROVE m + 1 \in M
      <4> SUFFICES ASSUME m + 2 <= L PROVE flatten[m + 2] = g[m + 2]
        <5>1. m + 1 + 1 = m + 2
          OBVIOUS
        <5> QED BY <5>1
      <4>1. flatten[m + 1] = g[m + 1]
        BY <3>2
      <4>2. m + 2 \in 1 .. L /\ m + 2 # 1 /\ (m + 2) - 1 = m + 1
        OBVIOUS
      <4>3. flatten[m + 2] = flatten[m + 1] \o s[m + 2]
        BY <2>6, <4>2
      <4>4. g[m + 2] = g[m + 1] \o s[m + 2]
        BY <2>5, <4>2
      <4> QED BY <4>1, <4>3, <4>4
    <3> HIDE DEF M
    <3> QED BY <3>1, <3>2, SetInduction
  <2>8. flatten[L] = g[L]
    <3>1. L - 1 \in Nat /\ L - 1 + 1 = L
      BY <1>5
    <3>2. L - 1 \in M
      BY <2>7, <3>1
    <3> QED BY <3>1, <3>2
  <2>9. FlattenSeq(s) = flatten[L]
    BY <1>2, <1>5 DEF FlattenSeq, flatten
  <2>10. Right(g[L], L)
    <3>1. L \in 1 .. L
      BY <1>5
    <3> QED BY <2>4, <3>1
  <2> QED BY <1>1, <1>2, <2>8, <2>9, <2>10 DEF Laid
<1> QED BY <1>4, <1>5

-----------------------------------------------------------------------------
(***************************************************************************)
(* Texts in parts.                                                         *)
(***************************************************************************)

\* w is the parts a and b, one after the other.
Joins(S, a, b, w) ==
  /\ w \in Seq(S) /\ Len(w) = Len(a) + Len(b)
  /\ Stands(a, w, 0) /\ Stands(b, w, Len(a))

LEMMA InTwo ==
  ASSUME NEW S, NEW a \in Seq(S), NEW b \in Seq(S)
  PROVE  Joins(S, a, b, a \o b)
  BY Added, StandsIn DEF Joins

LEMMA JoinMore ==
  ASSUME NEW S, NEW a \in Seq(S), NEW b \in Seq(S), NEW w, Joins(S, a, b, w),
         NEW t \in Seq(S), NEW p \in Nat, Stands(t, a, p)
  PROVE  Stands(t, w, p)
<1>1. w \in Seq(S) /\ Stands(a, w, 0) /\ 0 + p = p
  BY DEF Joins
<1>2. Stands(t, w, 0 + p)
  BY <1>1, StandsTrans
<1> QED BY <1>1, <1>2

InThreeParts(S, a, b, c, w) ==
  /\ w \in Seq(S) /\ Len(w) = Len(a) + Len(b) + Len(c)
  /\ Stands(a, w, 0) /\ Stands(b, w, Len(a)) /\ Stands(c, w, Len(a) + Len(b))

LEMMA InThree ==
  ASSUME NEW S, NEW a \in Seq(S), NEW b \in Seq(S), NEW c \in Seq(S)
  PROVE  InThreeParts(S, a, b, c, a \o b \o c)
<1>1. PICK ab : ab = a \o b
  OBVIOUS
<1>2. Joins(S, a, b, ab)
  BY <1>1, InTwo
<1>3. ab \in Seq(S) /\ Len(ab) = Len(a) + Len(b) /\ Stands(a, ab, 0) /\ Stands(b, ab, Len(a))
  BY <1>2 DEF Joins
<1>4. PICK w : w = ab \o c
  OBVIOUS
<1>5. Joins(S, ab, c, w)
  BY <1>3, <1>4, InTwo
<1>6. Len(a) \in Nat
  OBVIOUS
<1>7. Stands(a, w, 0) /\ Stands(b, w, Len(a))
  BY <1>3, <1>5, <1>6, JoinMore
<1>8. w \in Seq(S) /\ Len(w) = Len(ab) + Len(c) /\ Stands(c, w, Len(ab))
  BY <1>5 DEF Joins
<1>9. InThreeParts(S, a, b, c, w)
  BY <1>3, <1>7, <1>8 DEF InThreeParts
<1> QED BY <1>1, <1>4, <1>9

InFourParts(S, a, b, c, d, w) ==
  /\ w \in Seq(S) /\ Len(w) = Len(a) + Len(b) + Len(c) + Len(d)
  /\ Stands(a, w, 0) /\ Stands(b, w, Len(a)) /\ Stands(c, w, Len(a) + Len(b))
  /\ Stands(d, w, Len(a) + Len(b) + Len(c))

LEMMA InFour ==
  ASSUME NEW S, NEW a \in Seq(S), NEW b \in Seq(S), NEW c \in Seq(S), NEW d \in Seq(S)
  PROVE  InFourParts(S, a, b, c, d, a \o b \o c \o d)
<1>1. PICK abc : abc = a \o b \o c
  OBVIOUS
<1>2. InThreeParts(S, a, b, c, abc)
  BY <1>1, InThree
<1>3. /\ abc \in Seq(S) /\ Len(abc) = Len(a) + Len(b) + Len(c)
      /\ Stands(a, abc, 0) /\ Stands(b, abc, Len(a)) /\ Stands(c, abc, Len(a) + Len(b))
  BY <1>2 DEF InThreeParts
<1>4. PICK w : w = abc \o d
  OBVIOUS
<1>5. Joins(S, abc, d, w)
  BY <1>3, <1>4, InTwo
<1>6. PICK m \in Nat, n \in Nat : m = Len(a) /\ n = Len(a) + Len(b)
  OBVIOUS
<1>7. Stands(a, w, 0) /\ Stands(b, w, m) /\ Stands(c, w, n)
  BY <1>3, <1>5, <1>6, JoinMore
<1>8. w \in Seq(S) /\ Len(w) = Len(abc) + Len(d) /\ Stands(d, w, Len(abc))
  BY <1>5 DEF Joins
<1>9. InFourParts(S, a, b, c, d, w)
  BY <1>3, <1>6, <1>7, <1>8 DEF InFourParts
<1> QED BY <1>1, <1>4, <1>9

\* Characters that parts do not have the whole has not.
LEMMA LacksBoth ==
  ASSUME NEW S, NEW a \in Seq(S), NEW b \in Seq(S), NEW chars, ~HasChar(a, chars), ~HasChar(b, chars)
  PROVE  ~HasChar(a \o b, chars)
<1>1. ASSUME NEW i \in 1 .. Len(a) + Len(b) PROVE (a \o b)[i] \notin chars
  <2>1. Len(a) \in Nat /\ Len(b) \in Nat /\ DOMAIN a = 1 .. Len(a) /\ DOMAIN b = 1 .. Len(b)
    OBVIOUS
  <2>2. CASE i <= Len(a)
    <3>1. i \in DOMAIN a /\ (a \o b)[i] = a[i]
      BY <2>1, <2>2
    <3> QED BY <3>1 DEF HasChar
  <2>3. CASE i > Len(a)
    <3>1. i - Len(a) \in DOMAIN b /\ (a \o b)[i] = b[i - Len(a)]
      BY <2>1, <2>3
    <3> QED BY <3>1 DEF HasChar
  <2> QED BY <2>1, <2>2, <2>3
<1>2. DOMAIN (a \o b) = 1 .. Len(a) + Len(b)
  BY Added
<1> QED BY <1>1, <1>2 DEF HasChar

LEMMA LacksLess ==
  ASSUME NEW a, NEW chars, NEW more, chars \subseteq more, ~HasChar(a, more)
  PROVE  ~HasChar(a, chars)
  BY DEF HasChar

LEMMA One ==
  ASSUME NEW S, NEW c \in S
  PROVE  <<c>> \in Seq(S) /\ Len(<<c>>) = 1 /\ DOMAIN <<c>> = 1 .. 1 /\ <<c>>[1] = c
  OBVIOUS

LEMMA LacksOne ==
  ASSUME NEW S, NEW c \in S, NEW chars, c \notin chars
  PROVE  ~HasChar(<<c>>, chars)
<1>1. DOMAIN <<c>> = 1 .. 1 /\ <<c>>[1] = c
  BY One
<1> QED BY <1>1 DEF HasChar

\* A position in a sequence of lengths is in one of the parts.
LEMMA InSomePart ==
  ASSUME NEW S, NEW s \in Seq(Seq(S)), NEW ends, IsEnds(s, ends), NEW i \in 1 .. ends[Len(s)]
  PROVE  \E k \in 1 .. Len(s) : \E j \in 1 .. Len(s[k]) : i = ends[k - 1] + j
<1>1. PICK L \in Nat : L = Len(s)
  OBVIOUS
<1>2. ends \in [0 .. L -> Nat] /\ ends[0] = 0 /\ \A k \in 1 .. L : ends[k] = ends[k - 1] + Len(s[k])
  BY <1>1 DEF IsEnds
<1>3. i \in Nat /\ i > 0 /\ i <= ends[L]
  BY <1>1, <1>2
<1> DEFINE after == {k \in 0 .. L : i <= ends[k]}
<1>4. PICK k \in after : \A y \in after : k <= y
  <2>1. after \in SUBSET Nat /\ L \in after
    BY <1>3
  <2> HIDE DEF after
  <2> QED BY <2>1, Least
<1>5. k \in 1 .. L
  BY <1>2, <1>3
<1>6. ~(i <= ends[k - 1])
  BY <1>4, <1>5
<1>7. Len(s[k]) \in Nat /\ ends[k - 1] \in Nat /\ ends[k] = ends[k - 1] + Len(s[k])
  <2>1. k - 1 \in 0 .. L
    BY <1>5
  <2>2. s[k] \in Seq(S)
    BY <1>1, <1>5
  <2> QED BY <1>2, <1>5, <2>1, <2>2
<1>8. i - ends[k - 1] \in 1 .. Len(s[k]) /\ i = ends[k - 1] + (i - ends[k - 1])
  BY <1>3, <1>4, <1>6, <1>7
<1> QED BY <1>1, <1>5, <1>8

LEMMA LacksAll ==
  ASSUME NEW S, NEW s \in Seq(Seq(S)), NEW chars, \A k \in 1 .. Len(s) : ~HasChar(s[k], chars)
  PROVE  ~HasChar(FlattenSeq(s), chars)
<1> DEFINE f == FlattenSeq(s)
<1>1. PICK ends : f \in Seq(S) /\ Laid(s, f, ends)
  BY FlattenFacts
<1> HIDE DEF f
<1>2. DOMAIN f = 1 .. ends[Len(s)] /\ IsEnds(s, ends)
  BY <1>1 DEF Laid
<1>3. ASSUME NEW i \in 1 .. ends[Len(s)] PROVE f[i] \notin chars
  <2>1. PICK k \in 1 .. Len(s) : \E j \in 1 .. Len(s[k]) : i = ends[k - 1] + j
    BY <1>2, InSomePart
  <2>2. PICK j \in 1 .. Len(s[k]) : i = ends[k - 1] + j
    BY <2>1
  <2>3. f[i] = s[k][j]
    BY <1>1, <2>2 DEF Laid, Stands
  <2>4. j \in DOMAIN s[k]
    OBVIOUS
  <2> QED BY <2>3, <2>4 DEF HasChar
<1> QED BY <1>2, <1>3 DEF HasChar, f

-----------------------------------------------------------------------------
(***************************************************************************)
(* Lines as they are written.                                              *)
(***************************************************************************)

LEMMA Two ==
  ASSUME NEW S, NEW c \in S, NEW d \in S
  PROVE  <<c, d>> \in Seq(S) /\ Len(<<c, d>>) = 2 /\ <<c, d>>[1] = c /\ <<c, d>>[2] = d
         /\ DOMAIN <<c, d>> = 1 .. 2
  OBVIOUS

LEMMA LacksTwo ==
  ASSUME NEW S, NEW c \in S, NEW d \in S, NEW chars, c \notin chars, d \notin chars
  PROVE  ~HasChar(<<c, d>>, chars)
<1>1. DOMAIN <<c, d>> = 1 .. 2 /\ <<c, d>>[1] = c /\ <<c, d>>[2] = d
  BY Two
<1> QED BY <1>1 DEF HasChar

\* Characters are not one another.
LEMMA CharFacts ==
  /\ "=" \in Chars /\ "<" \in Chars /\ ">" \in Chars /\ Quote \in Chars /\ Newline \in Chars
  /\ "=" \notin {Newline} /\ "<" \notin {Newline} /\ ">" \notin {Newline} /\ Quote \notin {Newline}
  /\ Quote \notin Seps /\ "=" \in Seps /\ "<" \in Seps /\ ">" \in Seps
  /\ Quote # "=" /\ Quote # "<" /\ "=" # "<"
  BY CharsAssumption DEF Quote, Newline, Seps

LEMMA FlattenOne ==
  ASSUME NEW S, NEW s \in Seq(Seq(S)), Len(s) = 1
  PROVE  FlattenSeq(s) = s[1]
<1> DEFINE f == FlattenSeq(s)
<1>1. PICK ends : f \in Seq(S) /\ Laid(s, f, ends)
  BY FlattenFacts
<1> HIDE DEF f
<1>2. ends[0] = 0 /\ ends[1] = ends[0] + Len(s[1]) /\ Len(f) = ends[1] /\ Stands(s[1], f, 0)
  BY <1>1 DEF Laid, IsEnds
<1>3. s[1] \in Seq(S)
  OBVIOUS
<1>4. Len(f) = Len(s[1]) /\ \A i \in 1 .. Len(s[1]) : f[i] = s[1][i]
  BY <1>2, <1>3 DEF Stands
<1>5. f = s[1]
  BY <1>1, <1>3, <1>4, SeqEqual
<1> QED BY <1>5 DEF f

LEMMA LineFacts ==
  ASSUME NEW l \in LineType
  PROVE  /\ l.kind \in Kinds /\ l.name \in Texts /\ l.unit \in Texts
         /\ l.values \in Seq(Texts) /\ Len(l.values) \in Nat /\ DOMAIN l.values = 1 .. Len(l.values)
         /\ \A i \in 1 .. Len(l.values) : l.values[i] \in Texts
         /\ Len(l.name) \in Nat /\ DOMAIN l.name = 1 .. Len(l.name)
  BY DEF LineType, Texts

\* A line with a string.
StringLine(l, w) ==
  LET n == Len(l.name)
      v == l.values[1]
  IN  /\ w \in Texts /\ ~HasChar(w, {Newline})
      /\ n \in Nat \ {0} /\ v \in Texts /\ Len(v) \in Nat /\ Len(w) = n + 2 + Len(v) + 1
      /\ Stands(l.name, w, 0) /\ w[n + 1] = "=" /\ w[n + 2] = Quote
      /\ Stands(v, w, n + 2) /\ w[n + 2 + Len(v) + 1] = Quote

LEMMA WrittenString ==
  ASSUME NEW l \in LineType, WellFormedLine(l), l.kind = "string"
  PROVE  StringLine(l, Written(l))
<1> DEFINE v == l.values[1]
           w == l.name \o <<"=", Quote>> \o v \o <<Quote>>
<1>1. /\ l.name \in Keywords /\ Len(l.values) = 1 /\ ~HasChar(v, {Quote, Newline})
  BY DEF WellFormedLine, IsField
<1>2. l.name \in Texts /\ v \in Texts /\ Len(l.name) \in Nat \ {0}
  BY <1>1, LineFacts DEF Keywords, Texts
<1>3. <<"=", Quote>> \in Texts /\ Len(<<"=", Quote>>) = 2 /\ <<"=", Quote>>[1] = "=" /\ <<"=", Quote>>[2] = Quote
  BY CharFacts, Two DEF Texts
<1>4. <<Quote>> \in Texts /\ Len(<<Quote>>) = 1 /\ <<Quote>>[1] = Quote
  BY CharFacts, One DEF Texts
<1>5. PICK e \in Texts, q \in Texts : e = <<"=", Quote>> /\ q = <<Quote>>
  BY <1>3, <1>4
<1>6. w = l.name \o e \o v \o q
  BY <1>5
<1> HIDE DEF v, w
<1>7. /\ w \in Texts /\ Len(w) = Len(l.name) + Len(e) + Len(v) + Len(q)
      /\ Stands(l.name, w, 0) /\ Stands(e, w, Len(l.name)) /\ Stands(v, w, Len(l.name) + Len(e))
      /\ Stands(q, w, Len(l.name) + Len(e) + Len(v))
  <2>1. InFourParts(Chars, l.name, e, v, q, w)
    BY <1>2, <1>6, InFour DEF Texts
  <2> QED BY <2>1 DEF InFourParts, Texts
<1>8. Len(e) = 2 /\ e[1] = "=" /\ e[2] = Quote /\ Len(q) = 1 /\ q[1] = Quote /\ Len(v) \in Nat
  BY <1>2, <1>3, <1>4, <1>5 DEF Texts
<1>9. w[Len(l.name) + 1] = "=" /\ w[Len(l.name) + 2] = Quote /\ w[Len(l.name) + 2 + Len(v) + 1] = Quote
  BY <1>7, <1>8 DEF Stands
<1>10. ~HasChar(w, {Newline})
  <2>1. ~HasChar(l.name, {Newline}) /\ ~HasChar(v, {Newline})
    BY <1>1 DEF Keywords, HasChar
  <2>2. ~HasChar(e, {Newline}) /\ ~HasChar(q, {Newline})
    BY <1>5, CharFacts, LacksOne, LacksTwo
  <2>3. ~HasChar(l.name \o e, {Newline}) /\ l.name \o e \in Texts
    BY <1>2, <2>1, <2>2, LacksBoth, Added DEF Texts
  <2>4. ~HasChar(l.name \o e \o v, {Newline}) /\ l.name \o e \o v \in Texts
    BY <1>2, <2>1, <2>3, LacksBoth, Added DEF Texts
  <2>5. ~HasChar(l.name \o e \o v \o q, {Newline})
    BY <2>2, <2>4, LacksBoth DEF Texts
  <2> QED BY <1>6, <2>5
<1>11. Written(l) = w
  BY DEF Written, w, v
<1>12. /\ Len(w) = Len(l.name) + 2 + Len(v) + 1
       /\ Stands(v, w, Len(l.name) + 2)
  BY <1>7, <1>8
<1> QED BY <1>2, <1>7, <1>8, <1>9, <1>10, <1>11, <1>12 DEF StringLine, v

\* A line with a value that is no string, and perhaps a unit.
PlainLine(l, w) ==
  LET n == Len(l.name)
      v == FlattenSeq(l.values)
  IN  /\ w \in Texts /\ ~HasChar(w, {Newline})
      /\ n \in Nat \ {0} /\ v \in Texts /\ Len(v) \in Nat
      /\ Stands(l.name, w, 0) /\ w[n + 1] = "=" /\ Stands(v, w, n + 1)
      /\ IF l.unit = << >>
         THEN Len(w) = n + 1 + Len(v)
         ELSE /\ Len(w) = n + 1 + Len(v) + 1 + Len(l.unit) + 1
              /\ w[n + 1 + Len(v) + 1] = "<"
              /\ Stands(l.unit, w, n + 1 + Len(v) + 1)
              /\ w[n + 1 + Len(v) + 1 + Len(l.unit) + 1] = ">"

LEMMA PlainValues ==
  ASSUME NEW l \in LineType, WellFormedLine(l), l.kind \in {"list", "char"}
  PROVE  FlattenSeq(l.values) \in Texts /\ ~HasChar(FlattenSeq(l.values), Seps \cup {Newline})
<1>1. l.values \in Seq(Seq(Chars)) /\ FlattenSeq(l.values) \in Texts
  BY LineFacts, FlattenFacts DEF Texts
<1>2. CASE l.kind = "list"
  <2>1. \A k \in 1 .. Len(l.values) : ~HasChar(l.values[k], Seps \cup {Newline})
    BY <1>2, LineFacts DEF WellFormedLine, WellFormedList
  <2> QED BY <1>1, <2>1, LacksAll
<1>3. CASE l.kind = "char"
  <2>1. Len(l.values) = 1 /\ ~HasChar(l.values[1], Seps \cup Exponents \cup {Newline, Quote, "."})
    BY <1>3 DEF WellFormedLine
  <2>2. FlattenSeq(l.values) = l.values[1]
    BY <1>1, <2>1, FlattenOne
  <2> QED BY <1>1, <2>1, <2>2 DEF HasChar
<1> QED BY <1>2, <1>3

LEMMA WrittenPlain ==
  ASSUME NEW l \in LineType, WellFormedLine(l), l.kind \in {"list", "char"}
  PROVE  PlainLine(l, Written(l))
<1> DEFINE v    == FlattenSeq(l.values)
           ending == IF l.unit = << >> THEN << >> ELSE <<"<">> \o l.unit \o <<">">>
           w    == l.name \o <<"=">> \o v \o ending
<1>1. /\ l.name \in Keywords /\ ~HasChar(l.unit, {Newline})
  BY DEF WellFormedLine, IsField, HasChar
<1>2. /\ l.name \in Texts /\ v \in Texts /\ Len(l.name) \in Nat \ {0} /\ l.unit \in Texts
      /\ Len(v) \in Nat /\ Len(l.unit) \in Nat
      /\ ~HasChar(v, {Newline}) /\ ~HasChar(l.name, {Newline})
  <2>1. v \in Texts /\ ~HasChar(v, Seps \cup {Newline}) /\ ~HasChar(l.name, Seps \cup {Newline})
    BY <1>1, PlainValues DEF Keywords
  <2>2. ~HasChar(v, {Newline}) /\ ~HasChar(l.name, {Newline})
    BY <2>1, LacksLess
  <2>3. l.name \in Texts /\ l.unit \in Texts /\ l.name # << >>
    BY <1>1, LineFacts DEF Keywords
  <2> HIDE DEF v
  <2> QED BY <2>1, <2>2, <2>3 DEF Texts
<1>3. PICK e \in Texts : e = <<"=">> /\ Len(e) = 1 /\ e[1] = "=" /\ ~HasChar(e, {Newline})
  BY CharFacts, One, LacksOne DEF Texts
<1>4. PICK lt \in Texts, gt \in Texts :
        /\ lt = <<"<">> /\ Len(lt) = 1 /\ lt[1] = "<" /\ ~HasChar(lt, {Newline})
        /\ gt = <<">">> /\ Len(gt) = 1 /\ gt[1] = ">" /\ ~HasChar(gt, {Newline})
  BY CharFacts, One, LacksOne DEF Texts
<1>5. /\ ending \in Texts /\ ~HasChar(ending, {Newline})
      /\ IF l.unit = << >> THEN Len(ending) = 0
         ELSE /\ Len(ending) = 1 + Len(l.unit) + 1 /\ ending[1] = "<" /\ Stands(l.unit, ending, 1)
              /\ ending[1 + Len(l.unit) + 1] = ">"
  <2>1. CASE l.unit = << >>
    BY <2>1 DEF Texts, HasChar
  <2>2. CASE l.unit # << >>
    <3>1. ending = lt \o l.unit \o gt
      BY <1>4, <2>2
    <3> HIDE DEF ending
    <3>2. /\ ending \in Texts /\ Len(ending) = 1 + Len(l.unit) + 1
          /\ Stands(lt, ending, 0) /\ Stands(l.unit, ending, 1) /\ Stands(gt, ending, 1 + Len(l.unit))
      <4>1. InThreeParts(Chars, lt, l.unit, gt, ending)
        BY <1>2, <1>4, <3>1, InThree DEF Texts
      <4> QED BY <1>2, <1>4, <4>1 DEF InThreeParts, Texts
    <3>3. ~HasChar(lt \o l.unit, {Newline}) /\ lt \o l.unit \in Texts
      BY <1>1, <1>2, <1>4, LacksBoth, Added DEF Texts
    <3>4. ~HasChar(ending, {Newline})
      BY <1>4, <3>1, <3>3, LacksBoth DEF Texts
    <3>5. ending[1] = "<" /\ ending[1 + Len(l.unit) + 1] = ">"
      BY <1>4, <3>2 DEF Stands
    <3> QED BY <2>2, <3>2, <3>4, <3>5
  <2> QED BY <2>1, <2>2
<1>6. w = l.name \o e \o v \o ending
  BY <1>3
<1> HIDE DEF v, w, ending
<1>7. /\ w \in Texts /\ Len(w) = Len(l.name) + 1 + Len(v) + Len(ending)
      /\ Stands(l.name, w, 0) /\ Stands(e, w, Len(l.name)) /\ Stands(v, w, Len(l.name) + 1)
      /\ Stands(ending, w, Len(l.name) + 1 + Len(v))
  <2>1. InFourParts(Chars, l.name, e, v, ending, w)
    BY <1>2, <1>3, <1>5, <1>6, InFour DEF Texts
  <2> QED BY <1>3, <2>1 DEF InFourParts, Texts
<1>8. w[Len(l.name) + 1] = "="
  BY <1>3, <1>7 DEF Stands
<1>9. ~HasChar(w, {Newline})
  <2>1. ~HasChar(l.name \o e, {Newline}) /\ l.name \o e \in Texts
    BY <1>2, <1>3, LacksBoth, Added DEF Texts
  <2>2. ~HasChar(l.name \o e \o v, {Newline}) /\ l.name \o e \o v \in Texts
    BY <1>2, <2>1, LacksBoth, Added DEF Texts
  <2>3. ~HasChar(l.name \o e \o v \o ending, {Newline})
    BY <1>5, <2>2, LacksBoth DEF Texts
  <2> QED BY <1>6, <2>3
<1>10. PICK m \in Nat : m = Len(l.name) + 1 + Len(v)
  BY <1>2
<1>11. PICK u \in Nat : u = Len(l.unit)
  BY <1>2
<1>12. IF l.unit = << >>
       THEN Len(w) = m
       ELSE /\ Len(w) = m + 1 + u + 1
            /\ w[m + 1] = "<" /\ Stands(l.unit, w, m + 1) /\ w[m + 1 + u + 1] = ">"
  <2>1. CASE l.unit = << >>
    BY <1>5, <1>7, <1>10, <2>1
  <2>2. CASE l.unit # << >>
    <3>1. Stands(ending, w, m) /\ Len(ending) = 1 + u + 1 /\ ending[1 + u + 1] = ">"
      BY <1>5, <1>7, <1>10, <1>11, <2>2
    <3>2. Len(w) = m + 1 + u + 1
      <4>1. Len(w) = m + Len(ending)
        BY <1>2, <1>5, <1>7, <1>10 DEF Texts
      <4> QED BY <3>1, <4>1
    <3>3. w[m + 1] = ending[1]
      BY <3>1 DEF Stands
    <3>4. w[m + 1 + u + 1] = ending[1 + u + 1]
      <4>1. 1 + u + 1 \in 1 .. Len(ending) /\ m + (1 + u + 1) = m + 1 + u + 1
        BY <3>1
      <4>2. w[m + (1 + u + 1)] = ending[1 + u + 1]
        BY <3>1, <4>1 DEF Stands
      <4> QED BY <4>1, <4>2
    <3>5. Stands(l.unit, w, m + 1)
      BY <1>2, <1>5, <1>7, <2>2, <3>1, StandsTrans DEF Texts
    <3> QED BY <1>5, <2>2, <3>1, <3>2, <3>3, <3>4, <3>5
  <2> QED BY <2>1, <2>2
<1>13. Written(l) = w
  BY DEF Written, w, v, ending
<1> QED BY <1>2, <1>7, <1>8, <1>9, <1>10, <1>11, <1>12, <1>13 DEF PlainLine, v

\* A line that is no field.
LEMMA WrittenOther ==
  ASSUME NEW l \in LineType, WellFormedLine(l), ~IsField(l)
  PROVE  Written(l) = l.name /\ l.name \in Texts /\ ~HasChar(l.name, {Newline})
<1>0. l.kind \in {"blank", "odd", "fatal"}
  BY LineFacts DEF Kinds, IsField
<1>1. Written(l) = l.name /\ l.name \in Texts /\ DOMAIN l.name = 1 .. Len(l.name) /\ Len(l.name) \in Nat
  BY <1>0, LineFacts DEF Written
<1>2. CASE l.kind \in {"blank", "odd"}
  BY <1>1, <1>2 DEF WellFormedLine
<1>3. CASE l.kind = "fatal"
  <2>1. CASE l.name = << >>
    BY <1>1, <2>1 DEF HasChar
  <2>2. CASE l.name # << >>
    <3> DEFINE n == Len(l.name)
               k == SubSeq(l.name, 1, n - 2)
    <3>1. /\ n > 2 /\ k \in Keywords
          /\ l.name[n - 1] = "=" /\ l.name[n] \in {Quote, "."} \cup Exponents
      BY <1>3, <2>2 DEF WellFormedLine
    <3>2. \A i \in 1 .. n - 2 : k[i] = l.name[i] /\ i \in DOMAIN k
      BY <1>1, <3>1 DEF Texts
    <3>3. \A i \in 1 .. n - 2 : l.name[i] # Newline
      <4> HIDE DEF k
      <4> QED BY <3>1, <3>2 DEF Keywords, HasChar
    <3>4. l.name[n - 1] # Newline /\ l.name[n] # Newline
      BY <3>1 DEF Newline, Quote, Exponents
    <3>5. \A i \in 1 .. n : i \in 1 .. n - 2 \/ i = n - 1 \/ i = n
      BY <1>1
    <3> QED BY <1>1, <3>3, <3>4, <3>5 DEF HasChar
  <2> QED BY <1>1, <2>1, <2>2
<1> QED BY <1>0, <1>1, <1>2, <1>3

LEMMA WrittenText ==
  ASSUME NEW l \in LineType, WellFormedLine(l)
  PROVE  Written(l) \in Texts /\ ~HasChar(Written(l), {Newline})
<1>1. CASE l.kind = "string"
  BY <1>1, WrittenString DEF StringLine
<1>2. CASE l.kind \in {"list", "char"}
  BY <1>2, WrittenPlain DEF PlainLine
<1>3. CASE ~IsField(l)
  BY <1>3, WrittenOther
<1> QED BY <1>1, <1>2, <1>3 DEF IsField

-----------------------------------------------------------------------------
(***************************************************************************)
(* The text of a header, line by line.                                     *)
(***************************************************************************)

Rows(h) == [i \in DOMAIN h |-> Written(h[i]) \o <<Newline>>]

\* Where the lines end.
Ends(h) == CHOOSE ends : Laid(Rows(h), Rendered(h), ends)

LEMMA HeaderFacts ==
  ASSUME NEW h \in Headers
  PROVE  /\ h \in Seq(LineType) /\ Len(h) \in Nat /\ DOMAIN h = 1 .. Len(h)
         /\ \A k \in 1 .. Len(h) : h[k] \in LineType /\ WellFormedLine(h[k])
<1>1. h \in Seq(LineType) /\ \A k \in DOMAIN h : WellFormedLine(h[k])
  BY HeadersAssumption
<1> QED BY <1>1

LEMMA RowFacts ==
  ASSUME NEW h \in Headers
  PROVE  /\ Rows(h) \in Seq(Texts) /\ Len(Rows(h)) = Len(h)
         /\ \A k \in 1 .. Len(h) :
              /\ Written(h[k]) \in Texts /\ ~HasChar(Written(h[k]), {Newline})
              /\ Rows(h)[k] \in Texts
              /\ Joins(Chars, Written(h[k]), <<Newline>>, Rows(h)[k])
<1>1. Len(h) \in Nat /\ DOMAIN h = 1 .. Len(h)
  BY HeaderFacts
<1>2. ASSUME NEW k \in 1 .. Len(h)
      PROVE  /\ Written(h[k]) \in Texts /\ ~HasChar(Written(h[k]), {Newline})
             /\ Rows(h)[k] \in Texts
             /\ Joins(Chars, Written(h[k]), <<Newline>>, Rows(h)[k])
  <2>1. Written(h[k]) \in Texts /\ ~HasChar(Written(h[k]), {Newline})
    BY HeaderFacts, WrittenText
  <2>2. <<Newline>> \in Texts
    BY CharFacts, One DEF Texts
  <2>3. Rows(h)[k] = Written(h[k]) \o <<Newline>>
    BY <1>1 DEF Rows
  <2>4. Joins(Chars, Written(h[k]), <<Newline>>, Rows(h)[k])
    BY <2>1, <2>2, <2>3, InTwo DEF Texts
  <2> QED BY <2>1, <2>4 DEF Joins, Texts
<1>3. Rows(h) \in [1 .. Len(h) -> Texts]
  BY <1>1, <1>2 DEF Rows
<1>4. Rows(h) \in Seq(Texts) /\ Len(Rows(h)) = Len(h)
  BY <1>1, <1>3
<1> QED BY <1>2, <1>4

LEMMA RenderedFacts ==
  ASSUME NEW h \in Headers
  PROVE  /\ Rendered(h) \in Texts
         /\ Laid(Rows(h), Rendered(h), Ends(h))
         /\ Ends(h) \in [0 .. Len(h) -> Nat] /\ Ends(h)[0] = 0 /\ Ends(h)[Len(h)] = Len(Rendered(h))
<1>1. Rows(h) \in Seq(Seq(Chars)) /\ Rendered(h) = FlattenSeq(Rows(h)) /\ Len(Rows(h)) = Len(h)
  BY RowFacts DEF Rendered, Rows, Texts
<1>2. Rendered(h) \in Texts /\ \E ends : Laid(Rows(h), Rendered(h), ends)
  BY <1>1, FlattenFacts DEF Texts
<1>3. Laid(Rows(h), Rendered(h), Ends(h))
  BY <1>2 DEF Ends
<1> QED BY <1>1, <1>2, <1>3 DEF Laid, IsEnds

\* The lines of the text are those of the header, and nothing comes after them.
LEMMA LineAt ==
  ASSUME NEW h \in Headers, NEW k \in 1 .. Len(h)
  PROVE  /\ StrTok(Rendered(h), {Newline}, Ends(h)[k - 1]) = Found(Written(h[k]), Ends(h)[k])
         /\ Ends(h)[k - 1] \in Nat /\ Ends(h)[k] \in Nat /\ Ends(h)[k - 1] < Ends(h)[k]
         /\ Ends(h)[k] <= Len(Rendered(h))
<1>1. PICK text \in Texts, w \in Texts, row \in Texts, p \in Nat, nl \in Texts :
        /\ text = Rendered(h) /\ w = Written(h[k]) /\ row = Rows(h)[k] /\ p = Ends(h)[k - 1]
        /\ nl = <<Newline>> /\ Len(nl) = 1 /\ nl[1] = Newline
  <2>1. k - 1 \in 0 .. Len(h)
    BY HeaderFacts
  <2>2. Ends(h)[k - 1] \in Nat
    BY <2>1, RenderedFacts
  <2>3. <<Newline>> \in Texts /\ Len(<<Newline>>) = 1 /\ <<Newline>>[1] = Newline
    BY CharFacts, One DEF Texts
  <2> QED BY <2>2, <2>3, RenderedFacts, RowFacts
<1>2. Joins(Chars, w, nl, row) /\ ~HasChar(w, {Newline})
  BY <1>1, RowFacts
<1>3. Len(row) = Len(w) + 1 /\ Stands(w, row, 0) /\ Stands(nl, row, Len(w)) /\ Len(w) \in Nat
  BY <1>1, <1>2 DEF Joins, Texts
<1>4. Stands(row, text, p) /\ Ends(h)[k] = p + Len(row)
  BY <1>1, RenderedFacts, RowFacts DEF Laid, IsEnds
<1>5. Stands(w, text, p + 0) /\ Stands(nl, text, p + Len(w))
  <2>1. Len(w) \in Nat /\ 0 \in Nat
    BY <1>3
  <2>2. Stands(w, text, p + 0)
    BY <1>3, <1>4, <2>1, StandsTrans DEF Texts
  <2>3. Stands(nl, text, p + Len(w))
    BY <1>3, <1>4, <2>1, StandsTrans DEF Texts
  <2> QED BY <2>2, <2>3
<1>6. PICK q \in Nat : q = p + Len(w)
  BY <1>3
<1>7. q + 1 <= Len(text) /\ text[q + 1] = Newline /\ Len(text) \in Nat
  BY <1>1, <1>5, <1>6 DEF Stands, Texts
<1>8. StrTok(text, {Newline}, p) = Found(w, p + Len(w) + 1)
  <2>1. Stands(w, text, p) /\ p + Len(w) < Len(text) /\ text[p + Len(w) + 1] \in {Newline}
    BY <1>5, <1>6, <1>7
  <2> QED BY <1>2, <2>1, StrTokAt
<1>9. Ends(h)[k] = q + 1 /\ p + Len(w) + 1 = q + 1 /\ p < q + 1
  BY <1>3, <1>4, <1>6
<1> QED BY <1>1, <1>7, <1>8, <1>9

LEMMA NoLineLeft ==
  ASSUME NEW h \in Headers
  PROVE  ~StrTok(Rendered(h), {Newline}, Ends(h)[Len(h)]).found
<1>1. PICK text \in Texts, p \in Nat : text = Rendered(h) /\ p = Len(text) /\ p = Ends(h)[Len(h)]
  BY RenderedFacts DEF Texts
<1>2. StrTok(text, {Newline}, p) = [found |-> FALSE, text |-> << >>, pos |-> p]
  <2>1. p >= Len(text)
    BY <1>1
  <2> QED BY <2>1, StrTokNone
<1> QED BY <1>1, <1>2

-----------------------------------------------------------------------------
(***************************************************************************)
(* The numbers of a list.  Tokens are searched for from the second         *)
(* character on: the token of a number is the number without its first     *)
(* character, and the separator that ends it the sign of the next.         *)
(***************************************************************************)

\* v is the list s written down, and text what is searched.
ListLaid(s, v, text, ends, L) ==
  /\ L = Len(s) /\ L \in Nat \ {0} /\ v \in Texts /\ text \in Texts /\ Len(text) \in Nat
  /\ ends \in [0 .. L -> Nat] /\ ends[0] = 0 /\ ends[L] = Len(text) + 1 /\ ends[L] > 1
  /\ Len(v) = ends[L] /\ \A x \in 1 .. Len(text) : text[x] = v[x + 1]
  /\ \A i \in 1 .. L :
       /\ s[i] \in Texts /\ Len(s[i]) \in Nat \ {0} /\ DOMAIN s[i] = 1 .. Len(s[i])
       /\ ends[i - 1] \in Nat /\ ends[i] = ends[i - 1] + Len(s[i]) /\ ends[i] <= ends[L]
       /\ i > 1 => Len(s[i]) >= 2
       /\ i < L => ends[i] + 2 <= ends[L] /\ v[ends[i] + 1] \in Signs
       /\ \A j \in 1 .. Len(s[i]) : v[ends[i - 1] + j] = s[i][j]

LEMMA TailFacts ==
  ASSUME NEW S, NEW s \in Seq(S), s # << >>
  PROVE  /\ Tail(s) \in Seq(S) /\ Len(Tail(s)) = Len(s) - 1 /\ Len(s) \in Nat \ {0}
         /\ \A x \in 1 .. Len(s) - 1 : Tail(s)[x] = s[x + 1]
  OBVIOUS

LEMMA SignedFacts ==
  ASSUME NEW t \in Texts, t # << >>, t # <<"+">>, t # <<"-">>, t[1] \in Signs
  PROVE  Len(t) >= 2
<1>1. Len(t) \in Nat \ {0} /\ DOMAIN t = 1 .. Len(t)
  BY DEF Texts
<1>2. ASSUME Len(t) = 1 PROVE FALSE
  <2>1. t = <<t[1]>>
    <3>1. t[1] \in Chars
      BY <1>1 DEF Texts
    <3>2. <<t[1]>> \in Seq(Chars) /\ Len(<<t[1]>>) = 1 /\ <<t[1]>>[1] = t[1]
      BY <3>1, One
    <3>3. \A i \in 1 .. 1 : t[i] = <<t[1]>>[i]
      BY <3>2
    <3> QED BY <1>2, <3>2, <3>3, SeqEqual DEF Texts
  <2> QED BY <2>1 DEF Signs
<1> QED BY <1>1, <1>2

LEMMA ListFacts ==
  ASSUME NEW s \in Seq(Texts), WellFormedList(s)
  PROVE  \E ends : ListLaid(s, FlattenSeq(s), Tail(FlattenSeq(s)), ends, Len(s))
<1>1. PICK v \in Texts, ends \in [0 .. Len(s) -> Nat] : v = FlattenSeq(s) /\ Laid(s, v, ends)
  BY FlattenFacts DEF Texts, Laid, IsEnds
<1>2. PICK L \in Nat : L = Len(s) /\ DOMAIN s = 1 .. L
  OBVIOUS
<1>3. /\ ends \in [0 .. L -> Nat] /\ ends[0] = 0 /\ Len(v) = ends[L]
      /\ \A k \in 1 .. L : ends[k] = ends[k - 1] + Len(s[k]) /\ Stands(s[k], v, ends[k - 1])
  BY <1>1, <1>2 DEF Laid, IsEnds
<1>4. ends[L] > 1 /\ L # 0
  <2>1. Len(v) > 1
    BY <1>1 DEF WellFormedList
  <2> QED BY <1>3, <2>1
<1>5. v # << >>
  BY <1>3, <1>4
<1>6. PICK text \in Texts : /\ text = Tail(v) /\ Len(text) = ends[L] - 1
                            /\ \A x \in 1 .. ends[L] - 1 : text[x] = v[x + 1]
  <2>1. v \in Seq(Chars) /\ v # << >>
    BY <1>5 DEF Texts
  <2>2. /\ Tail(v) \in Seq(Chars) /\ Len(Tail(v)) = Len(v) - 1
        /\ \A x \in 1 .. Len(v) - 1 : Tail(v)[x] = v[x + 1]
    BY <2>1, TailFacts
  <2> QED BY <1>3, <2>2 DEF Texts
<1>7. ASSUME NEW i \in 1 .. L
      PROVE  /\ s[i] \in Texts /\ Len(s[i]) \in Nat \ {0} /\ DOMAIN s[i] = 1 .. Len(s[i])
             /\ ends[i - 1] \in Nat /\ ends[i] = ends[i - 1] + Len(s[i]) /\ ends[i] <= ends[L]
             /\ i > 1 => Len(s[i]) >= 2
             /\ \A j \in 1 .. Len(s[i]) : v[ends[i - 1] + j] = s[i][j]
  <2>1. s[i] \in Texts /\ s[i] # << >> /\ Len(s[i]) \in Nat \ {0} /\ DOMAIN s[i] = 1 .. Len(s[i])
    BY <1>2 DEF WellFormedList, Texts
  <2>2. i - 1 \in 0 .. L
    OBVIOUS
  <2>3. ends[i - 1] \in Nat /\ ends[i] = ends[i - 1] + Len(s[i])
    BY <1>3, <2>2
  <2>4. ends[i] <= ends[L] /\ \A j \in 1 .. Len(s[i]) : v[ends[i - 1] + j] = s[i][j]
    BY <1>3, <2>3 DEF Stands
  <2>5. i > 1 => Len(s[i]) >= 2
    BY <1>2, <2>1, SignedFacts DEF WellFormedList
  <2> QED BY <2>1, <2>3, <2>4, <2>5
<1>8. ASSUME NEW i \in 1 .. L, i < L PROVE ends[i] + 2 <= ends[L] /\ v[ends[i] + 1] \in Signs
  <2>1. i + 1 \in 1 .. L /\ i + 1 > 1 /\ i + 1 - 1 = i
    BY <1>8
  <2>0. PICK k \in 1 .. L : k = i + 1 /\ k > 1 /\ k - 1 = i
    BY <2>1
  <2>6. Len(s[k]) \in Nat /\ Len(s[k]) >= 2 /\ ends[k] = ends[k - 1] + Len(s[k])
        /\ ends[k] <= ends[L] /\ ends[k - 1] \in Nat
    BY <1>7, <2>0
  <2>2. Len(s[i + 1]) \in Nat /\ Len(s[i + 1]) >= 2 /\ ends[i + 1] = ends[i] + Len(s[i + 1])
        /\ ends[i + 1] <= ends[L] /\ ends[i] \in Nat
    BY <2>0, <2>6
  <2>3. v[ends[i] + 1] = s[i + 1][1]
    <3>1. v[ends[k - 1] + 1] = s[k][1]
      <4>1. 1 \in 1 .. Len(s[k])
        BY <2>6
      <4> QED BY <1>7, <2>0, <4>1
    <3> QED BY <2>0, <3>1
  <2>4. s[i + 1][1] \in Signs
    BY <1>2, <2>1 DEF WellFormedList
  <2>5. ends[L] \in Nat
    BY <1>3
  <2> QED BY <2>2, <2>3, <2>4, <2>5
<1>9. Len(text) \in Nat /\ ends[L] \in Nat
  BY <1>3 DEF Texts
<1>10. ends[L] = Len(text) + 1 /\ \A x \in 1 .. Len(text) : text[x] = v[x + 1]
  BY <1>6, <1>9
<1>11. ListLaid(s, v, text, ends, L)
  BY <1>2, <1>3, <1>4, <1>7, <1>8, <1>9, <1>10 DEF ListLaid
<1> QED BY <1>1, <1>2, <1>6, <1>11

\* The separators of the tokens.
SignPlaces(text, exceptions) ==
  {p \in Places(text, Signs) : p = 0 \/ text[p] \notin exceptions}

\* Which exceptions fit the list: those of doubles, or none if it has no exponent.
Fits(v, exceptions) == exceptions = Exponents \/ (exceptions = {} /\ ~HasChar(v, Exponents))

LEMMA NumberEnds ==
  ASSUME NEW s \in Seq(Texts), WellFormedList(s), NEW v, NEW text, NEW ends, NEW L,
         ListLaid(s, v, text, ends, L), NEW exceptions, Fits(v, exceptions),
         NEW i \in 1 .. L
  PROVE  /\ \A x \in ends[i - 1] .. ends[i] - 2 : x \notin SignPlaces(text, exceptions)
         /\ i < L => ends[i] - 1 \in SignPlaces(text, exceptions)
<1>1. /\ L = Len(s) /\ L \in Nat \ {0} /\ Len(text) \in Nat /\ ends[L] = Len(text) + 1
      /\ v \in Texts /\ Len(v) = ends[L] /\ \A x \in 1 .. Len(text) : text[x] = v[x + 1]
  BY DEF ListLaid
<1>2. PICK N \in Nat : N = Len(text)
  BY <1>1
<1>3. PICK p \in Nat, n \in Nat \ {0}, t \in Texts : p = ends[i - 1] /\ n = Len(s[i]) /\ t = s[i]
  BY DEF ListLaid
<1>4. ends[i] = p + n /\ p + n <= N + 1 /\ \A j \in 1 .. n : v[p + j] = t[j]
  BY <1>1, <1>2, <1>3 DEF ListLaid
<1>5. i < L => p + n + 1 <= N /\ v[p + n + 1] \in Signs
  <2>1. i < L => ends[i] + 2 <= ends[L] /\ v[ends[i] + 1] \in Signs
    BY DEF ListLaid
  <2> QED BY <1>1, <1>2, <1>4, <2>1
<1>6. /\ i = 1 => t[1] \notin Exponents
      /\ i > 1 => t[1] \in Signs
      /\ i < L => t[n] \notin Exponents
      /\ \A j \in 2 .. n : t[j] \in Signs => t[j - 1] \in Exponents
  <2>1. i \in DOMAIN s
    BY <1>1
  <2> QED BY <1>1, <1>3, <2>1 DEF WellFormedList
<1>7. t[1] \notin Exponents
  <2>1. \A c \in Signs : c \notin Exponents
    BY DEF Signs, Exponents
  <2> QED BY <1>6, <2>1
<1>8. \A x \in 1 .. N : text[x] = v[x + 1] /\ x + 1 \in DOMAIN v
  <2>1. DOMAIN v = 1 .. Len(v) /\ Len(v) = N + 1
    BY <1>1, <1>2 DEF Texts
  <2> QED BY <1>1, <1>2, <2>1
<1>9. ASSUME NEW x \in p .. p + n - 2 PROVE x \notin SignPlaces(text, exceptions)
  <2>1. PICK j \in 2 .. n : x = p + j - 2
    <3>1. x - p + 2 \in 2 .. n /\ x = p + (x - p + 2) - 2
      OBVIOUS
    <3> QED BY <3>1
  <2>2. x + 1 \in 1 .. N /\ (x + 1) + 1 = p + j
    BY <1>4, <2>1
  <2>3. text[x + 1] = t[j]
    <3>1. text[x + 1] = v[(x + 1) + 1]
      BY <1>8, <2>2
    <3> QED BY <1>4, <2>2, <3>1
  <2>4. SUFFICES ASSUME t[j] \in Signs, x = 0 \/ text[x] \notin exceptions PROVE FALSE
    BY <2>3 DEF SignPlaces, Places
  <2>5. t[j - 1] \in Exponents
    BY <1>6, <2>4
  <2>6. j # 2
    BY <1>7, <2>5
  <2>7. x \in 1 .. N /\ x + 1 = p + (j - 1) /\ j - 1 \in 1 .. n
    BY <1>4, <2>1, <2>6
  <2>8. text[x] = v[p + (j - 1)] /\ x # 0 /\ p + (j - 1) \in DOMAIN v
    BY <1>8, <2>7
  <2>9. v[p + (j - 1)] = t[j - 1]
    BY <1>4, <2>7
  <2>10. HasChar(v, Exponents)
    BY <2>5, <2>8, <2>9 DEF HasChar
  <2> QED BY <2>4, <2>5, <2>8, <2>9, <2>10 DEF Fits
<1>10. ASSUME i < L PROVE p + n - 1 \in SignPlaces(text, exceptions)
  <2>1. PICK q \in Nat : q + 1 = p + n /\ q + 1 \in 1 .. N /\ q = p + n - 1
    <3>1. p + n - 1 \in Nat /\ (p + n - 1) + 1 = p + n /\ p + n \in 1 .. N
      BY <1>5, <1>10
    <3> QED BY <3>1
  <2>2. text[q + 1] = v[p + n + 1]
    BY <1>8, <2>1
  <2>3. q \in Places(text, Signs)
    <3>1. q \in 0 .. Len(text) - 1
      BY <1>2, <2>1
    <3> QED BY <1>5, <1>10, <2>2, <3>1 DEF Places
  <2>4. CASE q = 0
    BY <2>1, <2>3, <2>4 DEF SignPlaces
  <2>5. CASE q # 0
    <3>1. q \in 1 .. N
      BY <2>1, <2>5
    <3>2. text[q] = v[p + n]
      BY <1>8, <2>1, <3>1
    <3>3. v[p + n] = t[n]
      BY <1>4
    <3>4. t[n] \notin exceptions
      BY <1>6, <1>10 DEF Fits
    <3> QED BY <2>1, <2>3, <3>2, <3>3, <3>4 DEF SignPlaces
  <2> QED BY <2>4, <2>5
<1>11. ends[i] - 2 = p + n - 2 /\ ends[i] - 1 = p + n - 1
  BY <1>4
<1> QED BY <1>3, <1>9, <1>10, <1>11

\* Number i of a list of N + 1 characters has n of them, from p on.
NumberIs(s, v, text, ends, L, i, p, n, N) ==
  /\ p = ends[i - 1] /\ n = Len(s[i]) /\ N = Len(text) /\ N > 0
  /\ ends[i] = p + n /\ ends[L] = N + 1 /\ Len(v) = N + 1
  /\ v[p + 1] = s[i][1]
  /\ p + n <= N + 1 /\ (i < L => p + n + 1 <= N)
  /\ (i = L => p + n = N + 1) /\ (p = 0 <=> i = 1)
  /\ (L > 1 => n < N + 1) /\ (L = 1 => n = N + 1) /\ (i = L => n > 1)
  /\ Stands(Tail(s[i]), text, p) /\ Len(Tail(s[i])) = n - 1 /\ Tail(s[i]) \in Texts

LEMMA NumberAt ==
  ASSUME NEW s \in Seq(Texts), NEW v, NEW text, NEW ends, NEW L,
         ListLaid(s, v, text, ends, L), NEW i \in 1 .. L
  PROVE  \E p \in Nat, n \in Nat \ {0}, N \in Nat : NumberIs(s, v, text, ends, L, i, p, n, N)
<1>1. /\ L = Len(s) /\ L \in Nat \ {0} /\ Len(text) \in Nat /\ ends[L] = Len(text) + 1
      /\ Len(v) = ends[L] /\ \A x \in 1 .. Len(text) : text[x] = v[x + 1]
      /\ ends[L] > 1
  BY DEF ListLaid
<1>2. PICK N \in Nat : N = Len(text)
  BY <1>1
<1>3. PICK p \in Nat, n \in Nat \ {0}, t \in Texts : p = ends[i - 1] /\ n = Len(s[i]) /\ t = s[i]
  BY DEF ListLaid
<1>4. /\ ends[i] = p + n /\ p + n <= N + 1 /\ \A j \in 1 .. n : v[p + j] = t[j]
  BY <1>1, <1>2, <1>3 DEF ListLaid
<1>5. i < L => p + n + 1 <= N
  <2>1. i < L => ends[i] + 2 <= ends[L]
    BY DEF ListLaid
  <2> QED BY <1>1, <1>2, <1>4, <2>1
<1>6. i = L => p + n = N + 1
  BY <1>1, <1>2, <1>4
<1>7. i = 1 => p = 0
  BY <1>3 DEF ListLaid
<1>8. i > 1 => p > 0
  <2> SUFFICES ASSUME i > 1 PROVE p > 0
    OBVIOUS
  <2>1. PICK k \in 1 .. L : k = i - 1
    BY <1>1
  <2>2. ends[k] = ends[k - 1] + Len(s[k]) /\ ends[k - 1] \in Nat /\ Len(s[k]) \in Nat \ {0}
    BY DEF ListLaid
  <2> QED BY <1>3, <2>1, <2>2
<1>9. L > 1 => n < N + 1
  BY <1>1, <1>4, <1>5, <1>6, <1>8
<1>10. L = 1 => n = N + 1
  BY <1>1, <1>6, <1>7
<1>11. i = L => n > 1
  <2>1. i > 1 => n >= 2
    BY <1>3 DEF ListLaid
  <2> QED BY <1>1, <1>2, <1>10, <2>1
<1>12. PICK u \in Texts : /\ u = Tail(t) /\ Len(u) = n - 1 /\ \A x \in 1 .. n - 1 : u[x] = t[x + 1]
  <2>1. t \in Seq(Chars) /\ t # << >>
    BY <1>3 DEF Texts
  <2>2. /\ Tail(t) \in Seq(Chars) /\ Len(Tail(t)) = Len(t) - 1
        /\ \A x \in 1 .. Len(t) - 1 : Tail(t)[x] = t[x + 1]
    BY <2>1, TailFacts
  <2> QED BY <1>3, <2>2 DEF Texts
<1>13. Stands(u, text, p)
  <2>1. p + Len(u) <= Len(text)
    BY <1>2, <1>4, <1>12
  <2>2. ASSUME NEW x \in 1 .. n - 1 PROVE text[p + x] = u[x]
    <3>1. p + x \in 1 .. Len(text) /\ x + 1 \in 1 .. n /\ (p + x) + 1 = p + (x + 1)
      BY <1>2, <1>4
    <3>2. text[p + x] = v[p + (x + 1)]
      BY <1>1, <3>1
    <3>3. v[p + (x + 1)] = t[x + 1]
      BY <1>4, <3>1
    <3> QED BY <1>12, <3>2, <3>3
  <2> QED BY <1>12, <2>1, <2>2 DEF Stands
<1>14. v[p + 1] = t[1]
  BY <1>4
<1>15. ends[L] = N + 1 /\ Len(v) = N + 1 /\ N > 0
  BY <1>1, <1>2
<1>16. p = 0 <=> i = 1
  BY <1>1, <1>7, <1>8
<1>17. NumberIs(s, v, text, ends, L, i, p, n, N)
  BY <1>2, <1>3, <1>4, <1>5, <1>6, <1>9, <1>10, <1>11, <1>12, <1>13, <1>14, <1>15, <1>16 DEF NumberIs
<1> QED BY <1>17

\* Where the search goes on after number i.
Stop(ends, L, i) == IF i < L \/ L = 1 THEN ends[i] ELSE ends[i] - 1

LEMMA NumberToken ==
  ASSUME NEW s \in Seq(Texts), WellFormedList(s), NEW v, NEW text, NEW ends, NEW L,
         ListLaid(s, v, text, ends, L), NEW exceptions, Fits(v, exceptions),
         NEW i \in 1 .. L
  PROVE  StrTokTok(text, Signs, exceptions, ends[i - 1]) = Found(Tail(s[i]), Stop(ends, L, i))
<1>0. PICK p \in Nat, n \in Nat \ {0}, N \in Nat : NumberIs(s, v, text, ends, L, i, p, n, N)
  BY NumberAt
<1>1. /\ p = ends[i - 1] /\ n = Len(s[i]) /\ N = Len(text) /\ N > 0
      /\ ends[i] = p + n /\ ends[L] = N + 1 /\ Len(v) = N + 1
      /\ p + n <= N + 1 /\ (i < L => p + n + 1 <= N)
      /\ (i = L => p + n = N + 1) /\ (p = 0 <=> i = 1) /\ (i = L => n > 1)
      /\ Stands(Tail(s[i]), text, p) /\ Len(Tail(s[i])) = n - 1 /\ Tail(s[i]) \in Texts
  BY <1>0 DEF NumberIs
<1>2. PICK P : P = SignPlaces(text, exceptions)
  OBVIOUS
<1>3. (\A x \in p .. p + n - 2 : x \notin P) /\ (i < L => p + n - 1 \in P)
  <2>1. /\ \A x \in ends[i - 1] .. ends[i] - 2 : x \notin P
        /\ i < L => ends[i] - 1 \in P
    BY <1>2, NumberEnds
  <2> QED BY <1>1, <2>1, SMTT(30)
<1>4. StrTokTok(text, Signs, exceptions, p) = Token(text, p, P)
  BY <1>2 DEF StrTokTok, SignPlaces
<1>5. PICK u \in Texts : u = Tail(s[i]) /\ Len(u) = n - 1 /\ Stands(u, text, p)
  BY <1>1
<1>6. SubSeq(text, p + 1, p + (n - 1)) = u /\ text \in Texts
  <2>1. text \in Seq(Chars)
    BY DEF ListLaid, Texts
  <2> QED BY <1>5, <2>1, SubSeqIs DEF Texts
<1>7. L \in Nat
  BY DEF ListLaid
<1>8. CASE i < L
  <2>0. p + n + 1 <= N /\ ends[i] = p + n /\ N = Len(text)
    BY <1>1, <1>8
  <2>1. PICK q \in Nat : q = p + (n - 1) /\ q = p + n - 1 /\ q - 1 = p + n - 2
    <3>1. p + (n - 1) \in Nat
      OBVIOUS
    <3> QED BY <3>1
  <2>5. p <= q /\ q < N /\ q + 1 = p + n
    BY <2>0, <2>1
  <2>2. p <= q /\ q < Len(text) /\ q \in P /\ \A x \in p .. q - 1 : x \notin P
    BY <1>3, <1>8, <2>0, <2>1, <2>5
  <2>3. Token(text, p, P) = Found(SubSeq(text, p + 1, q), q + 1)
    BY <1>6, <2>2, TokenHit
  <2>4. q + 1 = ends[i]
    BY <2>0, <2>5
  <2> QED BY <1>1, <1>4, <1>5, <1>6, <1>8, <2>1, <2>3, <2>4 DEF Stop
<1>9. CASE i = L
  <2>0. p + n = N + 1 /\ n > 1
    BY <1>1, <1>9
  <2>1. p < N /\ N - 1 = p + n - 2 /\ N = p + (n - 1)
    BY <2>0
  <2>2. p < Len(text) /\ \A x \in p .. Len(text) - 1 : x \notin P
    BY <1>1, <1>3, <2>1
  <2>3. Token(text, p, P) =
          Found(SubSeq(text, p + 1, Len(text)), IF p = 0 THEN Len(text) + 1 ELSE Len(text))
    BY <1>6, <2>2, TokenRest
  <2>4. Stop(ends, L, i) = IF p = 0 THEN N + 1 ELSE N
    BY <1>1, <1>7, <1>9 DEF Stop
  <2> QED BY <1>1, <1>4, <1>5, <1>6, <2>1, <2>3, <2>4
<1> QED BY <1>7, <1>8, <1>9

\* All tokens of a text, if every token is past the position of its search.
TokenSet == [found : BOOLEAN, text : Texts, pos : Nat]

AllFrom(f, tok, p) == IF tok[p].found THEN <<tok[p]>> \o f[tok[p].pos] ELSE << >>

LEMMA TokensExist ==
  ASSUME NEW N \in Nat, NEW tok \in [0 .. N + 1 -> TokenSet],
         \A p \in 0 .. N + 1 : tok[p].found => tok[p].pos > p /\ tok[p].pos <= N + 1
  PROVE  \E f \in [0 .. N + 1 -> Seq(TokenSet)] : f = [p \in 0 .. N + 1 |-> AllFrom(f, tok, p)]
<1> DEFINE F      == [0 .. N + 1 -> Seq(TokenSet)]
           Good(m) == \E f \in F : \A p \in 0 .. N + 1 : p + m >= N + 2 => f[p] = AllFrom(f, tok, p)
           S      == {m \in Nat : Good(m)}
<1>1. \A f \in F, p \in 0 .. N + 1 : AllFrom(f, tok, p) \in Seq(TokenSet)
  <2> TAKE f \in F, p \in 0 .. N + 1
  <2>1. CASE tok[p].found
    <3>1. tok[p].pos \in 0 .. N + 1
      BY <2>1 DEF TokenSet
    <3>2. f[tok[p].pos] \in Seq(TokenSet)
      BY <3>1
    <3>3. <<tok[p]>> \in Seq(TokenSet)
      OBVIOUS
    <3> QED BY <2>1, <3>2, <3>3, Added DEF AllFrom
  <2>2. CASE ~tok[p].found
    BY <2>2 DEF AllFrom
  <2> QED BY <2>1, <2>2
<1>2. 0 \in S
  <2>1. [p \in 0 .. N + 1 |-> << >>] \in F
    OBVIOUS
  <2>2. \A p \in 0 .. N + 1 : ~(p + 0 >= N + 2)
    OBVIOUS
  <2>3. Good(0)
    BY <2>1, <2>2
  <2> QED BY <2>3
<1>3. ASSUME NEW m \in Nat, m \in S PROVE m + 1 \in S
  <2>1. PICK f \in F : \A p \in 0 .. N + 1 : p + m >= N + 2 => f[p] = AllFrom(f, tok, p)
    BY <1>3
  <2> DEFINE g == [p \in 0 .. N + 1 |-> IF p + m = N + 1 THEN AllFrom(f, tok, p) ELSE f[p]]
  <2>2. g \in F
    BY <1>1
  <2>3. ASSUME NEW p \in 0 .. N + 1, p + m >= N + 1 PROVE AllFrom(g, tok, p) = AllFrom(f, tok, p)
    <3>1. CASE tok[p].found
      <4>1. tok[p].pos \in 0 .. N + 1 /\ tok[p].pos > p
        BY <3>1 DEF TokenSet
      <4>2. PICK q \in 0 .. N + 1 : q = tok[p].pos
        BY <4>1
      <4>3. q + m # N + 1
        BY <2>3, <4>1, <4>2
      <4>4. g[q] = f[q]
        BY <4>3
      <4> QED BY <4>2, <4>4 DEF AllFrom
    <3>2. CASE ~tok[p].found
      BY <3>2 DEF AllFrom
    <3> QED BY <3>1, <3>2
  <2>4. ASSUME NEW p \in 0 .. N + 1, p + (m + 1) >= N + 2 PROVE g[p] = AllFrom(g, tok, p)
    <3>1. p + m >= N + 1
      BY <2>4
    <3>2. AllFrom(g, tok, p) = AllFrom(f, tok, p)
      BY <2>3, <3>1
    <3>3. CASE p + m = N + 1
      BY <3>2, <3>3
    <3>4. CASE p + m # N + 1
      <4>1. p + m >= N + 2
        BY <3>1, <3>4
      <4>2. g[p] = f[p]
        BY <3>4
      <4> QED BY <2>1, <3>2, <4>1, <4>2
    <3> QED BY <3>3, <3>4
  <2> HIDE DEF g
  <2>5. Good(m + 1)
    BY <2>2, <2>4
  <2> HIDE DEF Good
  <2> QED BY <2>5
<1>4. N + 2 \in S
  <2> HIDE DEF S
  <2> QED BY <1>2, <1>3, SetInduction
<1>5. PICK f \in F : \A p \in 0 .. N + 1 : p + (N + 2) >= N + 2 => f[p] = AllFrom(f, tok, p)
  BY <1>4
<1>6. \A p \in 0 .. N + 1 : f[p] = AllFrom(f, tok, p)
  BY <1>5
<1>7. f = [p \in 0 .. N + 1 |-> AllFrom(f, tok, p)]
  BY <1>6
<1> QED BY <1>7

\* The search for the tokens of a text gets on.
LEMMA TokenGoesOn ==
  ASSUME NEW text \in Texts, NEW p \in Nat, NEW P
  PROVE  /\ Token(text, p, P) \in TokenSet
         /\ Token(text, p, P).found => /\ Token(text, p, P).pos > p
                                       /\ Token(text, p, P).pos <= Len(text) + 1
                                       /\ p < Len(text)
<1>1. Len(text) \in Nat /\ << >> \in Texts /\ \A m, n \in Nat : SubSeq(text, m + 1, n) \in Texts
                                             \/ ~(n <= Len(text))
  BY DEF Texts
<1> DEFINE hits == {x \in p .. Len(text) - 1 : x \in P}
<1>2. CASE p >= Len(text)
  <2>1. Token(text, p, P) = [found |-> FALSE, text |-> << >>, pos |-> p]
    BY <1>2, TokenEnd
  <2> HIDE DEF hits
  <2> QED BY <1>1, <2>1 DEF TokenSet
<1>3. CASE ~(p >= Len(text)) /\ hits = {}
  <2>1. Token(text, p, P) =
          Found(SubSeq(text, p + 1, Len(text)), IF p = 0 THEN Len(text) + 1 ELSE Len(text))
    <3>1. p < Len(text) /\ \A x \in p .. Len(text) - 1 : x \notin P
      BY <1>1, <1>3
    <3> QED BY <3>1, TokenRest
  <2>2. SubSeq(text, p + 1, Len(text)) \in Texts
    BY <1>1
  <2>3. PICK u \in Texts, q \in Nat :
          Token(text, p, P) = Found(u, q) /\ q > p /\ q <= Len(text) + 1 /\ p < Len(text)
    <3>1. IF p = 0 THEN Len(text) + 1 > p ELSE Len(text) > p
      BY <1>1, <1>3
    <3> HIDE DEF hits
    <3> QED BY <1>1, <1>3, <2>1, <2>2, <3>1
  <2> QED BY <2>3 DEF Found, TokenSet
<1>4. CASE ~(p >= Len(text)) /\ hits # {}
  <2>1. PICK q \in Nat : q = Min(hits) /\ q \in hits
    <3>1. hits \in SUBSET Nat
      BY <1>1
    <3> HIDE DEF hits
    <3> QED BY <1>4, <3>1, Least
  <2>2. p <= q /\ q < Len(text)
    BY <1>1, <2>1
  <2>3. Token(text, p, P) = Found(SubSeq(text, p + 1, q), q + 1)
    BY <1>4, <2>1 DEF Token, Found
  <2>4. SubSeq(text, p + 1, q) \in Texts
    BY <1>1, <2>2
  <2> QED BY <1>1, <2>2, <2>3, <2>4 DEF Found, TokenSet
<1> QED BY <1>2, <1>3, <1>4

\* What is left of T, a function on 1 .. L, after element k.
After(T, L, k) == [j \in 1 .. L - k |-> T[k + j]]

LEMMA AfterNext ==
  ASSUME NEW S, NEW L \in Nat, NEW T \in [1 .. L -> S], NEW k \in 1 .. L
  PROVE  <<T[k]>> \o After(T, L, k) = After(T, L, k - 1)
<1>1. L - k \in Nat /\ L - (k - 1) = L - k + 1
  OBVIOUS
<1>2. \A j \in 1 .. L - k : k + j \in 1 .. L
  OBVIOUS
<1>3. \A j \in 1 .. L - k + 1 : k - 1 + j \in 1 .. L
  OBVIOUS
<1>4. PICK a \in Seq(S) : /\ a = After(T, L, k) /\ Len(a) = L - k
                          /\ \A j \in 1 .. L - k : a[j] = T[k + j]
  <2> DEFINE x == After(T, L, k)
  <2>1. x \in Seq(S) /\ Len(x) = L - k /\ \A j \in 1 .. L - k : x[j] = T[k + j]
    BY <1>1, <1>2 DEF After
  <2> QED BY <2>1
<1>5. PICK b \in Seq(S) : /\ b = After(T, L, k - 1) /\ Len(b) = L - k + 1
                          /\ \A j \in 1 .. L - k + 1 : b[j] = T[k - 1 + j]
  <2> DEFINE x == After(T, L, k - 1)
  <2>1. x \in Seq(S) /\ Len(x) = L - k + 1 /\ \A j \in 1 .. L - k + 1 : x[j] = T[k - 1 + j]
    BY <1>1, <1>3 DEF After
  <2> QED BY <2>1
<1>6. T[k] \in S
  OBVIOUS
<1>7. PICK c \in Seq(S) : c = <<T[k]>> /\ Len(c) = 1 /\ c[1] = T[k]
  BY <1>6, One
<1>8. PICK d \in Seq(S) : /\ d = c \o a /\ Len(d) = L - k + 1 /\ d[1] = T[k]
                          /\ \A j \in 1 .. L - k : d[1 + j] = a[j]
  <2>1. /\ c \o a \in Seq(S) /\ Len(c \o a) = Len(c) + Len(a)
        /\ \A i \in 1 .. Len(c) : (c \o a)[i] = c[i]
        /\ \A i \in 1 .. Len(a) : (c \o a)[Len(c) + i] = a[i]
    BY Concat
  <2>2. Len(c \o a) = L - k + 1
    BY <1>1, <1>4, <1>7, <2>1
  <2>3. (c \o a)[1] = T[k]
    <3>1. 1 \in 1 .. Len(c)
      BY <1>7
    <3> QED BY <1>7, <2>1, <3>1
  <2> QED BY <1>4, <1>7, <2>1, <2>2, <2>3
<1>9. \A j \in 1 .. L - k + 1 : d[j] = b[j]
  <2> TAKE j \in 1 .. L - k + 1
  <2>1. CASE j = 1
    <3>1. b[1] = T[k - 1 + 1] /\ k - 1 + 1 = k
      BY <1>5, <2>1
    <3> QED BY <1>8, <2>1, <3>1
  <2>2. CASE j # 1
    <3>1. PICK i \in 1 .. L - k : j = 1 + i /\ k + i = k - 1 + j
      <4>1. j - 1 \in 1 .. L - k /\ j = 1 + (j - 1) /\ k + (j - 1) = k - 1 + j
        BY <1>1, <2>2
      <4> QED BY <4>1
    <3> QED BY <1>4, <1>5, <1>8, <3>1, SMTT(30)
  <2> QED BY <2>1, <2>2
<1>10. d = b
  BY <1>5, <1>8, <1>9, SeqEqual
<1> QED BY <1>4, <1>5, <1>7, <1>8, <1>10

LEMMA NumberTokens ==
  ASSUME NEW s \in Seq(Texts), WellFormedList(s), NEW v, NEW text, NEW ends, NEW L,
         ListLaid(s, v, text, ends, L), NEW exceptions, Fits(v, exceptions)
  PROVE  Tokens(text, exceptions) = [i \in 1 .. L |-> Found(Tail(s[i]), Stop(ends, L, i))]
<1>1. PICK N \in Nat : N = Len(text) /\ text \in Texts /\ L \in Nat \ {0} /\ ends[L] = N + 1
                       /\ ends \in [0 .. L -> Nat] /\ ends[0] = 0 /\ N > 0
  BY DEF ListLaid
<1> DEFINE tok  == [p \in 0 .. N + 1 |-> StrTokTok(text, Signs, exceptions, p)]
           T    == [i \in 1 .. L |-> Found(Tail(s[i]), Stop(ends, L, i))]
<1>2. /\ tok \in [0 .. N + 1 -> TokenSet]
      /\ \A p \in 0 .. N + 1 : tok[p].found => tok[p].pos > p /\ tok[p].pos <= N + 1 /\ p < N
  <2>1. ASSUME NEW p \in 0 .. N + 1
        PROVE  /\ StrTokTok(text, Signs, exceptions, p) \in TokenSet
               /\ StrTokTok(text, Signs, exceptions, p).found =>
                    /\ StrTokTok(text, Signs, exceptions, p).pos > p
                    /\ StrTokTok(text, Signs, exceptions, p).pos <= N + 1
                    /\ p < N
    <3>1. PICK P : StrTokTok(text, Signs, exceptions, p) = Token(text, p, P)
      BY DEF StrTokTok
    <3>2. p \in Nat
      OBVIOUS
    <3> QED BY <1>1, <3>1, <3>2, TokenGoesOn
  <2> QED BY <2>1
<1>3. PICK f : f = [p \in 0 .. N + 1 |-> AllFrom(f, tok, p)]
  <2> HIDE DEF tok
  <2> QED BY <1>2, TokensExist
<1>4. PICK from : Tokens(text, exceptions) = from[0] /\ from = [p \in 0 .. N + 1 |-> AllFrom(from, tok, p)]
  <2> DEFINE Rest(g, p) == IF StrTokTok(text, Signs, exceptions, p).found
                           THEN <<StrTokTok(text, Signs, exceptions, p)>>
                                  \o g[StrTokTok(text, Signs, exceptions, p).pos]
                           ELSE << >>
             all == CHOOSE g : g = [p \in 0 .. Len(text) + 1 |-> Rest(g, p)]
  <2>1. ASSUME NEW g PROVE \A p \in 0 .. N + 1 : AllFrom(g, tok, p) = Rest(g, p)
    BY DEF AllFrom
  <2>2. f = [p \in 0 .. Len(text) + 1 |-> Rest(f, p)]
    <3> HIDE DEF tok, Rest
    <3> QED BY <1>1, <1>3, <2>1
  <2>3. all = [p \in 0 .. Len(text) + 1 |-> Rest(all, p)]
    BY <2>2
  <2>4. Tokens(text, exceptions) = all[0]
    BY DEF Tokens
  <2> HIDE DEF all, Rest, tok
  <2>5. all = [p \in 0 .. N + 1 |-> AllFrom(all, tok, p)]
    <3>1. \A p \in 0 .. N + 1 : AllFrom(all, tok, p) = Rest(all, p)
      BY <2>1
    <3> QED BY <1>1, <2>3, <3>1
  <2> QED BY <2>4, <2>5
<1> DEFINE At(k) == IF k < L THEN ends[k] ELSE Stop(ends, L, L)
           S     == {m \in Nat : m <= L => from[At(L - m)] = After(T, L, L - m)}
<1>6. Tokens(text, exceptions) = from[0]
  BY <1>4
<1>7. \A p \in 0 .. N + 1 : from[p] = AllFrom(from, tok, p)
  <2> HIDE DEF tok
  <2> QED BY <1>4
<1>8. \A i \in 1 .. L : /\ Stop(ends, L, i) \in 0 .. N + 1 /\ T[i] \in TokenSet /\ T[i].found
                        /\ T[i].pos = Stop(ends, L, i)
                        /\ ends[i - 1] \in 0 .. N + 1 /\ tok[ends[i - 1]] = T[i]
  <2> TAKE i \in 1 .. L
  <2>1. PICK p \in Nat, n \in Nat \ {0}, u \in Texts :
          p = ends[i - 1] /\ ends[i] = p + n /\ p + n <= N + 1 /\ u = Tail(s[i])
    <3>1. PICK p \in Nat, n \in Nat \ {0}, M \in Nat : NumberIs(s, v, text, ends, L, i, p, n, M)
      BY NumberAt
    <3> QED BY <1>1, <3>1 DEF NumberIs
  <2>2. Stop(ends, L, i) \in 0 .. N + 1 /\ p \in 0 .. N + 1
    BY <2>1, SMTT(30) DEF Stop
  <2>3. T[i] = Found(Tail(s[i]), Stop(ends, L, i))
    OBVIOUS
  <2>4. tok[p] = T[i]
    BY <2>1, <2>2, <2>3, NumberToken
  <2>5. PICK q \in Nat : q = Stop(ends, L, i)
    BY <2>2
  <2>6. T[i] \in TokenSet /\ T[i].found /\ T[i].pos = Stop(ends, L, i)
    BY <2>1, <2>3, <2>5 DEF TokenSet, Found
  <2> QED BY <2>1, <2>2, <2>4, <2>6
<1>9. T \in [1 .. L -> TokenSet]
  BY <1>8
<1> HIDE DEF T, tok
<1>10. 0 \in S
  <2>1. Stop(ends, L, L) \in 0 .. N + 1 /\ Stop(ends, L, L) >= N
    <3>1. L \in 1 .. L
      BY <1>1
    <3> QED BY <1>1, <1>8, <3>1 DEF Stop
  <2>2. ~tok[Stop(ends, L, L)].found
    BY <1>2, <2>1
  <2>3. from[Stop(ends, L, L)] = << >>
    BY <1>7, <2>1, <2>2 DEF AllFrom
  <2>4. After(T, L, L) = << >>
    BY <1>1 DEF After
  <2> QED BY <1>1, <2>3, <2>4
<1>11. ASSUME NEW m \in Nat, m \in S PROVE m + 1 \in S
  <2> SUFFICES ASSUME m + 1 <= L PROVE from[At(L - (m + 1))] = After(T, L, L - (m + 1))
    OBVIOUS
  <2>1. PICK k \in 1 .. L : k = L - m /\ k - 1 = L - (m + 1)
    <3>1. L - m \in 1 .. L /\ (L - m) - 1 = L - (m + 1)
      BY <1>1
    <3> QED BY <3>1
  <2>2. from[At(k)] = After(T, L, k)
    BY <1>1, <1>11, <2>1
  <2>3. At(k) = Stop(ends, L, k) /\ At(k - 1) = ends[k - 1]
    BY <1>1 DEF Stop
  <2>4. from[ends[k - 1]] = AllFrom(from, tok, ends[k - 1])
    BY <1>7, <1>8
  <2>5. AllFrom(from, tok, ends[k - 1]) = <<T[k]>> \o from[Stop(ends, L, k)]
    BY <1>8 DEF AllFrom
  <2>6. <<T[k]>> \o After(T, L, k) = After(T, L, k - 1)
    BY <1>1, <1>9, AfterNext, ZenonT(40)
  <2> HIDE DEF At
  <2> QED BY <2>1, <2>2, <2>3, <2>4, <2>5, <2>6
<1>12. L \in S
  <2> HIDE DEF S
  <2> QED BY <1>1, <1>10, <1>11, SetInduction
<1>13. from[At(0)] = After(T, L, 0)
  <2>1. L - L = 0 /\ L <= L
    BY <1>1
  <2> QED BY <1>12, <2>1
<1>14. At(0) = 0
  BY <1>1
<1>15. After(T, L, 0) = T
  <2>1. L - 0 = L /\ \A j \in 1 .. L : 0 + j = j
    BY <1>1
  <2> QED BY <1>9, <2>1 DEF After
<1> QED BY <1>6, <1>13, <1>14, <1>15 DEF T

\* The character in front of a token is the first of its number.
LEMMA SignIs ==
  ASSUME NEW s \in Seq(Texts), NEW v, NEW text, NEW ends, NEW L,
         ListLaid(s, v, text, ends, L), NEW i \in 1 .. L, NEW shortAt,
         i = L /\ L > 1 => shortAt = ends[i - 1]
  PROVE  SignOf(v, Found(Tail(s[i]), Stop(ends, L, i)), shortAt) = s[i][1]
<1>0. PICK p \in Nat, n \in Nat \ {0}, N \in Nat : NumberIs(s, v, text, ends, L, i, p, n, N)
  BY NumberAt
<1>1. /\ p = ends[i - 1] /\ ends[i] = p + n /\ ends[L] = N + 1 /\ Len(v) = N + 1 /\ N > 0
      /\ v[p + 1] = s[i][1]
      /\ p + n <= N + 1 /\ (i < L => p + n + 1 <= N)
      /\ (i = L => p + n = N + 1) /\ (p = 0 <=> i = 1)
      /\ (L > 1 => n < N + 1) /\ (L = 1 => n = N + 1)
      /\ Len(Tail(s[i])) = n - 1
  BY <1>0 DEF NumberIs
<1> DEFINE t == Found(Tail(s[i]), Stop(ends, L, i))
<1>2. PICK a : a = s[i][1]
  OBVIOUS
<1>3. PICK z, u : z \in Int /\ u = Tail(s[i]) /\ t = Found(u, z) /\ Len(u) = n - 1 /\ z = Stop(ends, L, i)
  <2>1. Stop(ends, L, i) \in Int
    <3>1. ends[i] \in Int /\ ends[i] - 1 \in Int
      BY <1>1
    <3> QED BY <3>1 DEF Stop
  <2> QED BY <1>1, <2>1
<1>4. t.text = u /\ t.pos = z
  BY <1>3 DEF Found
<1>5. L \in Nat \ {0}
  BY DEF ListLaid
<1> HIDE DEF t
<1>6. CASE L = 1
  <2>1. i = 1 /\ p = 0
    BY <1>1, <1>6
  <2>2. Len(u) = Len(v) - 1
    BY <1>1, <1>3, <1>6
  <2>3. v[1] = a
    BY <1>1, <1>2, <2>1
  <2>4. SignOf(v, t, shortAt) = v[1]
    BY <1>4, <2>2 DEF SignOf
  <2> QED BY <1>2, <2>3, <2>4 DEF t
<1>7. CASE L > 1 /\ i < L
  <2>1. z = p + n /\ n < N + 1 /\ p + n + 1 <= N
    BY <1>1, <1>3, <1>7 DEF Stop
  <2>2. Len(u) # Len(v) - 1 /\ z < Len(v) - 1 /\ z - Len(u) = p + 1
    <3>1. n - 1 # (N + 1) - 1 /\ z < (N + 1) - 1 /\ z - (n - 1) = p + 1
      BY <2>1
    <3>2. Len(u) = n - 1 /\ Len(v) = N + 1
      BY <1>1, <1>3
    <3> QED BY <3>1, <3>2
  <2>3. SignOf(v, t, shortAt) = v[z - Len(u)]
    BY <1>4, <2>2 DEF SignOf
  <2> QED BY <1>1, <2>2, <2>3 DEF t
<1>8. CASE L > 1 /\ i = L
  <2>1. z = p + n - 1 /\ n < N + 1 /\ p + n = N + 1
    <3>1. z = ends[i] - 1
      BY <1>3, <1>8 DEF Stop
    <3> QED BY <1>1, <1>8, <3>1
  <2>2. Len(u) # Len(v) - 1 /\ ~(z < Len(v) - 1)
    BY <1>1, <1>3, <2>1, SMTT(30)
  <2>3. SignOf(v, t, shortAt) = v[shortAt + 1]
    BY <1>4, <2>2 DEF SignOf
  <2> QED BY <1>1, <1>8, <2>3 DEF t
<1> QED BY <1>5, <1>6, <1>7, <1>8

LEMMA Rejoined ==
  ASSUME NEW t \in Texts, t # << >>
  PROVE  <<t[1]>> \o Tail(t) = t
<1>1. Len(t) \in Nat \ {0} /\ t[1] \in Chars /\ t \in Seq(Chars)
  BY DEF Texts
<1>2. /\ Tail(t) \in Seq(Chars) /\ Len(Tail(t)) = Len(t) - 1
      /\ \A x \in 1 .. Len(t) - 1 : Tail(t)[x] = t[x + 1]
  BY <1>1, TailFacts
<1>3. PICK u \in Seq(Chars), c \in Seq(Chars) : u = Tail(t) /\ c = <<t[1]>> /\ Len(c) = 1 /\ c[1] = t[1]
  BY <1>1, <1>2, One
<1>4. /\ c \o u \in Seq(Chars) /\ Len(c \o u) = Len(c) + Len(u)
      /\ \A i \in 1 .. Len(c) : (c \o u)[i] = c[i]
      /\ \A i \in 1 .. Len(u) : (c \o u)[Len(c) + i] = u[i]
  BY Concat
<1>5. PICK d \in Seq(Chars) : d = c \o u
  BY <1>4
<1>6. Len(d) = Len(t) /\ d[1] = t[1] /\ \A i \in 1 .. Len(t) - 1 : d[1 + i] = t[i + 1]
  <2>1. 1 \in 1 .. Len(c)
    BY <1>3
  <2> QED BY <1>1, <1>2, <1>3, <1>4, <1>5, <2>1
<1>7. \A i \in 1 .. Len(t) : d[i] = t[i]
  <2> TAKE i \in 1 .. Len(t)
  <2>1. CASE i = 1
    BY <1>6, <2>1
  <2>2. CASE i # 1
    <3>1. PICK x \in 1 .. Len(t) - 1 : i = 1 + x /\ i = x + 1
      <4>1. i - 1 \in 1 .. Len(t) - 1 /\ i = 1 + (i - 1)
        BY <1>1, <2>2
      <4> QED BY <4>1
    <3> QED BY <1>6, <3>1
  <2> QED BY <2>1, <2>2
<1>8. d = t
  BY <1>1, <1>6, <1>7, SeqEqual
<1> QED BY <1>3, <1>5, <1>8

\* epr_parse_double_token finds the numbers of a list.
LEMMA DoublesFound ==
  ASSUME NEW s \in Seq(Texts), WellFormedList(s)
  PROVE  DoubleToken(FlattenSeq(s)).texts = s
<1>1. PICK v, text, ends, L :
        v = FlattenSeq(s) /\ text = Tail(v) /\ L = Len(s) /\ ListLaid(s, v, text, ends, L)
  BY ListFacts
<1> DEFINE T == [i \in 1 .. L |-> Found(Tail(s[i]), Stop(ends, L, i))]
           short(i) == T[i].pos - Len(T[i].text)
<1>2. Tokens(Tail(v), Exponents) = T
  <2>1. Fits(v, Exponents)
    BY DEF Fits
  <2> QED BY <1>1, <2>1, NumberTokens
<1>3. L \in Nat /\ s \in [1 .. L -> Texts] /\ \A i \in 1 .. L : s[i] \in Texts /\ s[i] # << >>
  <2>1. L \in Nat /\ DOMAIN s = 1 .. L
    BY <1>1 DEF ListLaid
  <2> QED BY <2>1 DEF WellFormedList
<1>4. ASSUME NEW i \in 1 .. L
      PROVE  <<SignOf(v, T[i], short(i))>> \o T[i].text = s[i]
  <2>1. PICK p \in Nat, n \in Nat \ {0}, N \in Nat : NumberIs(s, v, text, ends, L, i, p, n, N)
    BY <1>1, NumberAt
  <2>2. T[i] = Found(Tail(s[i]), Stop(ends, L, i))
    OBVIOUS
  <2>3. T[i].text = Tail(s[i]) /\ T[i].pos = Stop(ends, L, i)
    BY <2>2 DEF Found
  <2>4. i = L /\ L > 1 => short(i) = ends[i - 1]
    <3> SUFFICES ASSUME i = L, L > 1 PROVE short(i) = ends[i - 1]
      OBVIOUS
    <3> HIDE DEF T
    <3>1. T[i].pos = ends[i] - 1 /\ Len(T[i].text) = n - 1
      BY <2>1, <2>3 DEF Stop, NumberIs
    <3>2. ends[i] = p + n /\ p = ends[i - 1]
      BY <2>1 DEF NumberIs
    <3> QED BY <3>1, <3>2
  <2> HIDE DEF T, short
  <2>5. SignOf(v, T[i], short(i)) = s[i][1]
    BY <1>1, <2>2, <2>4, SignIs
  <2>6. <<s[i][1]>> \o Tail(s[i]) = s[i]
    BY <1>3, Rejoined
  <2> QED BY <2>3, <2>5, <2>6
<1>5. DOMAIN T = 1 .. L
  OBVIOUS
<1>6. DoubleToken(v).texts = [i \in DOMAIN T |-> <<SignOf(v, T[i], short(i))>> \o T[i].text]
  <2> HIDE DEF T
  <2> QED BY <1>2 DEF DoubleToken
<1> HIDE DEF T, short
<1>7. DoubleToken(v).texts = [i \in 1 .. L |-> s[i]]
  BY <1>4, <1>5, <1>6
<1> QED BY <1>1, <1>3, <1>7

\* epr_parse_int_token finds them too, and which of them are none.
LEMMA IntsFound ==
  ASSUME NEW s \in Seq(Texts), WellFormedList(s), ~HasChar(FlattenSeq(s), Exponents)
  PROVE  LET r     == IntToken(FlattenSeq(s))
             wrong == \E i \in DOMAIN s : ~IsNumber(s[i])
         IN  /\ r.bad = wrong
             /\ r.type = IF HasChar(FlattenSeq(s), {"-"}) \/ wrong THEN "int" ELSE "uint"
             /\ r.texts = [i \in DOMAIN s |-> IF IsNumber(s[i]) THEN s[i] ELSE Illegal]
<1>1. PICK v, text, ends, L :
        v = FlattenSeq(s) /\ text = Tail(v) /\ L = Len(s) /\ ListLaid(s, v, text, ends, L)
  BY ListFacts
<1> DEFINE T == [i \in 1 .. L |-> Found(Tail(s[i]), Stop(ends, L, i))]
           short(i) == IF Len(T[i].text) # 1 THEN T[i].pos - Len(T[i].text)
                       ELSE IF i = 1 THEN T[i].pos ELSE T[i].pos - 1
           bad(i) == ~NoLetters(T[i].text)
<1>2. Tokens(Tail(v), {}) = T
  <2>1. Fits(v, {})
    BY <1>1 DEF Fits
  <2> QED BY <1>1, <2>1, NumberTokens
<1>3. L \in Nat /\ DOMAIN s = 1 .. L /\ \A i \in 1 .. L : s[i] \in Texts /\ s[i] # << >>
  <2>1. L \in Nat /\ DOMAIN s = 1 .. L
    BY <1>1 DEF ListLaid
  <2> QED BY <2>1 DEF WellFormedList
<1>4. ASSUME NEW i \in 1 .. L
      PROVE  <<SignOf(v, T[i], short(i))>> \o T[i].text = s[i] /\ (bad(i) <=> ~IsNumber(s[i]))
  <2>1. PICK p \in Nat, n \in Nat \ {0}, N \in Nat : NumberIs(s, v, text, ends, L, i, p, n, N)
    BY <1>1, NumberAt
  <2>2. T[i] = Found(Tail(s[i]), Stop(ends, L, i))
    OBVIOUS
  <2>3. T[i].text = Tail(s[i]) /\ T[i].pos = Stop(ends, L, i)
    BY <2>2 DEF Found
  <2>4. i = L /\ L > 1 => short(i) = ends[i - 1]
    <3> SUFFICES ASSUME i = L, L > 1 PROVE short(i) = ends[i - 1]
      OBVIOUS
    <3> HIDE DEF T
    <3>1. T[i].pos = ends[i] - 1 /\ Len(T[i].text) = n - 1
      BY <2>1, <2>3 DEF Stop, NumberIs
    <3>2. ends[i] = p + n /\ p = ends[i - 1]
      BY <2>1 DEF NumberIs
    <3>3. i # 1
      OBVIOUS
    <3>4. T[i].pos = p + n - 1
      BY <3>1, <3>2
    <3>5. CASE n = 2
      <4>1. Len(T[i].text) = 1 /\ T[i].pos = p + 1
        BY <3>1, <3>4, <3>5
      <4>2. short(i) = p
        BY <3>3, <4>1
      <4> QED BY <3>2, <4>2
    <3>6. CASE n # 2
      <4>1. n - 1 # 1 /\ p + n - 1 - (n - 1) = p
        BY <3>6
      <4>2. short(i) = p
        BY <3>1, <3>4, <4>1
      <4> QED BY <3>2, <4>2
    <3> QED BY <3>5, <3>6
  <2>5. bad(i) <=> ~IsNumber(s[i])
    BY <2>3 DEF IsNumber
  <2> HIDE DEF T, short, bad
  <2>6. SignOf(v, T[i], short(i)) = s[i][1]
    <3>1. PICK z : z = short(i)
      OBVIOUS
    <3>2. SignOf(v, Found(Tail(s[i]), Stop(ends, L, i)), z) = s[i][1]
      BY <1>1, <2>4, <3>1, SignIs, SMTT(30)
    <3> QED BY <2>2, <3>1, <3>2
  <2>7. <<s[i][1]>> \o Tail(s[i]) = s[i]
    BY <1>3, Rejoined
  <2> QED BY <2>3, <2>5, <2>6, <2>7
<1>5. DOMAIN T = 1 .. L
  OBVIOUS
<1> DEFINE anyBad == \E i \in DOMAIN T : bad(i)
<1>6. IntToken(v) =
        [ type  |-> IF HasChar(v, {"-"}) \/ anyBad THEN "int" ELSE "uint",
          bad   |-> anyBad,
          texts |-> [i \in DOMAIN T |-> IF bad(i) THEN Illegal
                                        ELSE <<SignOf(v, T[i], short(i))>> \o T[i].text] ]
  <2> HIDE DEF T
  <2> QED BY <1>2 DEF IntToken
<1> HIDE DEF T, short, bad
<1>7. anyBad = \E i \in DOMAIN s : ~IsNumber(s[i])
  BY <1>3, <1>4, <1>5
<1>8. [i \in DOMAIN T |-> IF bad(i) THEN Illegal ELSE <<SignOf(v, T[i], short(i))>> \o T[i].text]
        = [i \in DOMAIN s |-> IF IsNumber(s[i]) THEN s[i] ELSE Illegal]
  BY <1>3, <1>4, <1>5
<1> HIDE DEF anyBad
<1> QED BY <1>1, <1>6, <1>7, <1>8

-----------------------------------------------------------------------------
(***************************************************************************)
(* What a line of a header is read as.                                     *)
(***************************************************************************)
Key(w) == StrTok(w, Seps, 0)

\* The keyword of a field, and that the line is not skipped.
FieldStart(l, w, n) ==
  /\ w \in Texts /\ n = Len(l.name) /\ n \in Nat \ {0} /\ n + 1 <= Len(w) /\ Len(w) \in Nat
  /\ Key(w) = Found(l.name, n + 1)
  /\ w # << >> /\ w[1] # Blank

LEMMA KeywordRead ==
  ASSUME NEW l \in LineType, WellFormedLine(l), IsField(l)
  PROVE  \E n : FieldStart(l, Written(l), n)
<1> DEFINE w == Written(l)
<1>1. l.name \in Keywords
  BY DEF WellFormedLine
<1>2. PICK n \in Nat \ {0} :
        /\ n = Len(l.name) /\ w \in Texts /\ Len(w) \in Nat /\ n + 1 <= Len(w)
        /\ Stands(l.name, w, 0) /\ w[n + 1] = "="
  <2>1. CASE l.kind = "string"
    <3>1. StringLine(l, w)
      BY <2>1, WrittenString
    <3>2. PICK n \in Nat \ {0}, m \in Nat : n = Len(l.name) /\ m = Len(l.values[1]) /\ Len(w) = n + 2 + m + 1
      BY <3>1 DEF StringLine
    <3> HIDE DEF w
    <3>3. n + 1 <= Len(w) /\ Len(w) \in Nat
      <4>1. n + 2 + m + 1 \in Nat /\ n + 1 <= n + 2 + m + 1
        OBVIOUS
      <4>2. Len(w) = n + 2 + m + 1
        BY <3>2
      <4> QED BY <4>1, <4>2
    <3> QED BY <3>1, <3>2, <3>3 DEF StringLine
  <2>2. CASE l.kind \in {"list", "char"}
    <3>1. PlainLine(l, w)
      BY <2>2, WrittenPlain
    <3>2. PICK n \in Nat \ {0}, m \in Nat, u \in Nat :
            n = Len(l.name) /\ m = Len(FlattenSeq(l.values)) /\ u = Len(l.unit)
      BY <3>1, LineFacts DEF PlainLine, Texts
    <3>3. Len(w) = n + 1 + m \/ Len(w) = n + 1 + m + 1 + u + 1
      BY <3>1, <3>2 DEF PlainLine
    <3> HIDE DEF w
    <3>4. n + 1 <= Len(w) /\ Len(w) \in Nat
      <4>1. CASE Len(w) = n + 1 + m
        BY <4>1
      <4>2. CASE Len(w) = n + 1 + m + 1 + u + 1
        BY <4>2
      <4> QED BY <3>3, <4>1, <4>2
    <3> QED BY <3>1, <3>2, <3>4 DEF PlainLine
  <2> QED BY <2>1, <2>2 DEF IsField
<1> HIDE DEF w
<1>3. l.name \in Texts /\ ~HasChar(l.name, Seps) /\ l.name[1] # Blank
  <2>1. l.name \in Texts /\ ~HasChar(l.name, Seps \cup {Newline}) /\ l.name[1] # Blank
    BY <1>1 DEF Keywords, Texts
  <2> QED BY <2>1, LacksLess
<1>4. StrTok(w, Seps, 0) = Found(l.name, 0 + Len(l.name) + 1)
  <2>1. 0 + Len(l.name) < Len(w) /\ w[0 + Len(l.name) + 1] \in Seps
    <3>1. 0 + Len(l.name) = n
      BY <1>2
    <3> QED BY <1>2, <3>1, CharFacts
  <2> QED BY <1>2, <1>3, <2>1, StrTokAt
<1>5. 0 + Len(l.name) + 1 = n + 1
  BY <1>2
<1>6. w[1] = l.name[1]
  <2>1. 1 \in 1 .. Len(l.name) /\ 0 + 1 = 1
    BY <1>2
  <2>2. w[0 + 1] = l.name[1]
    BY <1>2, <2>1 DEF Stands
  <2> QED BY <2>1, <2>2
<1>7. w # << >>
  BY <1>2
<1>8. FieldStart(l, w, n)
  BY <1>2, <1>3, <1>4, <1>5, <1>6, <1>7 DEF FieldStart, Key
<1> QED BY <1>8 DEF w

LEMMA StringRead ==
  ASSUME NEW l \in LineType, WellFormedLine(l), l.kind = "string", NEW n, n = Len(l.name)
  PROVE  /\ n + 1 < Len(Written(l)) /\ Written(l)[n + 2] = Quote
         /\ StrTok(Written(l), {Quote}, n + 2).found
         /\ StrTok(Written(l), {Quote}, n + 2).text = l.values[1]
<1>1. PICK w, v \in Texts : w = Written(l) /\ v = l.values[1]
  BY WrittenString DEF StringLine
<1>2. StringLine(l, w)
  BY <1>1, WrittenString
<1>3. PICK m \in Nat : m = Len(v)
  BY <1>1, <1>2 DEF StringLine
<1>4. /\ w \in Texts /\ n \in Nat \ {0} /\ Len(w) = n + 2 + m + 1 /\ w[n + 2] = Quote
      /\ Stands(v, w, n + 2) /\ w[n + 2 + m + 1] = Quote
  BY <1>1, <1>2, <1>3 DEF StringLine
<1>5. ~HasChar(v, {Quote})
  BY <1>1 DEF WellFormedLine, HasChar
<1>6. n + 2 \in Nat /\ n + 2 + m < Len(w) /\ n + 1 < Len(w)
  BY <1>4
<1>7. StrTok(w, {Quote}, n + 2) = Found(v, n + 2 + Len(v) + 1)
  <2>1. n + 2 + Len(v) < Len(w) /\ w[n + 2 + Len(v) + 1] \in {Quote}
    BY <1>3, <1>4, <1>6
  <2>2. w \in Texts /\ v \in Texts /\ n + 2 \in Nat /\ Stands(v, w, n + 2)
    BY <1>1, <1>4, <1>6, WrittenString DEF StringLine
  <2> QED BY <1>5, <2>1, <2>2, StrTokAt
<1> QED BY <1>1, <1>4, <1>6, <1>7 DEF Found

\* The value that is no string, and its unit.
LEMMA ValueRead ==
  ASSUME NEW l \in LineType, WellFormedLine(l), l.kind \in {"list", "char"}, NEW n, n = Len(l.name)
  PROVE  LET w == Written(l)
             v == FlattenSeq(l.values)
             t == StrTok(w, Seps, n + 1)
         IN  /\ ~(n + 1 < Len(w) /\ w[n + 2] = Quote)
             /\ IF v = << >> THEN ~t.found
                ELSE t.found /\ t.text = v /\ StrTok(w, Seps, t.pos).text = l.unit
<1>1. PICK w \in Texts, v \in Texts : w = Written(l) /\ v = FlattenSeq(l.values)
  BY WrittenPlain DEF PlainLine
<1>2. PlainLine(l, w)
  BY <1>1, WrittenPlain
<1>3. PICK m \in Nat, u \in Nat, unit \in Texts : m = Len(v) /\ unit = l.unit /\ u = Len(unit)
  BY <1>1, <1>2, LineFacts DEF PlainLine, Texts
<1>4. /\ n \in Nat \ {0} /\ Stands(v, w, n + 1)
      /\ IF unit = << >> THEN Len(w) = n + 1 + m
         ELSE /\ Len(w) = n + 1 + m + 1 + u + 1 /\ w[n + 1 + m + 1] = "<"
              /\ Stands(unit, w, n + 1 + m + 1) /\ w[n + 1 + m + 1 + u + 1] = ">"
  BY <1>1, <1>2, <1>3 DEF PlainLine
<1>5. ~HasChar(v, Seps) /\ ~HasChar(unit, Seps)
  <2>1. ~HasChar(v, Seps \cup {Newline}) /\ ~HasChar(unit, Seps \cup {Newline})
    BY <1>1, <1>3, PlainValues DEF WellFormedLine, IsField
  <2> QED BY <2>1, LacksLess
<1>6. Len(v) \in Nat /\ Len(unit) \in Nat /\ (v = << >> <=> m = 0)
  BY <1>3 DEF Texts
<1>7. v = << >> => unit = << >>
  <2>1. CASE l.kind = "list"
    <3>1. Len(v) > 1
      BY <1>1, <2>1 DEF WellFormedLine, WellFormedList
    <3> QED BY <1>3, <1>6, <3>1
  <2>2. CASE l.kind = "char"
    <3>1. Len(l.values) = 1 /\ l.values \in Seq(Seq(Chars)) /\ (l.values[1] = << >> => l.unit = << >>)
      BY <2>2, LineFacts DEF WellFormedLine, Texts
    <3>2. v = l.values[1]
      BY <1>1, <3>1, FlattenOne
    <3> QED BY <1>3, <3>1, <3>2
  <2> QED BY <2>1, <2>2
<1>8. v # << >> => v[1] # Quote
  <2>1. CASE l.kind = "list"
    <3>1. PICK text, ends, L :
            L = Len(l.values) /\ ListLaid(l.values, v, text, ends, L) /\ WellFormedList(l.values)
      <4>1. WellFormedList(l.values) /\ l.values \in Seq(Texts)
        BY <2>1, LineFacts DEF WellFormedLine
      <4> QED BY <1>1, <4>1, ListFacts
    <3>2. PICK x : x = l.values[1]
      OBVIOUS
    <3>3. L \in Nat \ {0} /\ ends[0] = 0 /\ 1 \in 1 .. L /\ DOMAIN l.values = 1 .. L
      BY <3>1, LineFacts DEF ListLaid
    <3>4. v[0 + 1] = x[1] /\ 1 \in 1 .. Len(x)
      <4>1. /\ Len(l.values[1]) \in Nat \ {0}
            /\ \A j \in 1 .. Len(l.values[1]) : v[ends[1 - 1] + j] = l.values[1][j]
        BY <3>1, <3>3 DEF ListLaid
      <4>2. 1 \in 1 .. Len(x)
        BY <3>2, <4>1
      <4> QED BY <3>2, <3>3, <4>1, <4>2
    <3>5. x[1] # Quote
      BY <3>1, <3>2, <3>3 DEF WellFormedList
    <3> QED BY <3>4, <3>5
  <2>2. CASE l.kind = "char"
    <3>1. /\ Len(l.values) = 1 /\ l.values \in Seq(Seq(Chars))
          /\ ~HasChar(l.values[1], Seps \cup Exponents \cup {Newline, Quote, "."})
      BY <2>2, LineFacts DEF WellFormedLine, Texts
    <3>2. v = l.values[1]
      BY <1>1, <3>1, FlattenOne
    <3>3. v # << >> => 1 \in DOMAIN v
      BY DEF Texts
    <3> QED BY <3>1, <3>2, <3>3 DEF HasChar
  <2> QED BY <2>1, <2>2
<1>9. ~(n + 1 < Len(w) /\ w[n + 2] = Quote)
  <2>1. CASE v = << >>
    BY <1>4, <1>6, <1>7, <2>1
  <2>2. CASE v # << >>
    <3>1. 1 \in 1 .. Len(v) /\ n + 1 + 1 = n + 2
      BY <1>3, <1>4, <1>6, <2>2
    <3>2. w[n + 1 + 1] = v[1]
      BY <1>4, <3>1 DEF Stands
    <3> QED BY <1>8, <2>2, <3>1, <3>2
  <2> QED BY <2>1, <2>2
<1>10. CASE v = << >>
  <2>1. n + 1 >= Len(w) /\ n + 1 \in Nat
    BY <1>4, <1>6, <1>7, <1>10
  <2>2. ~StrTok(w, Seps, n + 1).found
    BY <2>1, StrTokNone
  <2> QED BY <1>1, <1>9, <1>10, <2>2
<1>11. CASE v # << >> /\ unit = << >>
  <2>1. n + 1 \in Nat /\ n + 1 + Len(v) = Len(w) /\ n + 1 # 0
    BY <1>3, <1>4, <1>11
  <2>2. StrTok(w, Seps, n + 1) = Found(v, Len(w))
    BY <1>4, <1>5, <1>11, <2>1, StrTokLast
  <2>3. StrTok(w, Seps, Len(w)).text = << >>
    <3>1. Len(w) \in Nat /\ Len(w) >= Len(w)
      BY <1>4, <1>11
    <3> QED BY <3>1, StrTokNone
  <2>4. PICK t : t = StrTok(w, Seps, n + 1) /\ t.found /\ t.text = v /\ t.pos = Len(w)
    BY <2>2 DEF Found
  <2> QED BY <1>1, <1>3, <1>9, <1>11, <2>3, <2>4
<1>12. CASE v # << >> /\ unit # << >>
  <2>1. PICK q \in Nat : q = n + 1 + m + 1
    BY <1>4
  <2>2. n + 1 \in Nat /\ n + 1 + m < Len(w) /\ q + u < Len(w)
    BY <1>4, <1>12, <2>1
  <2>3. StrTok(w, Seps, n + 1) = Found(v, n + 1 + Len(v) + 1)
    <3>1. n + 1 + Len(v) < Len(w) /\ w[n + 1 + Len(v) + 1] \in Seps
      BY <1>3, <1>4, <1>12, <2>2, CharFacts
    <3> QED BY <1>4, <1>5, <2>2, <3>1, StrTokAt
  <2>4. StrTok(w, Seps, q) = Found(unit, q + Len(unit) + 1)
    <3>1. Stands(unit, w, q) /\ w[q + u + 1] = ">"
      BY <1>4, <1>12, <2>1
    <3>2. q + Len(unit) < Len(w) /\ w[q + Len(unit) + 1] \in Seps
      BY <1>3, <2>2, <3>1, CharFacts
    <3> QED BY <1>5, <3>1, <3>2, StrTokAt
  <2>5. n + 1 + Len(v) + 1 = q
    BY <1>3, <2>1
  <2>6. PICK t : t = StrTok(w, Seps, n + 1) /\ t.found /\ t.text = v /\ t.pos = q
    BY <2>3, <2>5 DEF Found
  <2>7. StrTok(w, Seps, q).text = unit
    BY <2>4 DEF Found
  <2> QED BY <1>1, <1>3, <1>9, <1>12, <2>6, <2>7
<1> QED BY <1>10, <1>11, <1>12

LEMMA TextIfFound ==
  ASSUME NEW text \in Texts, NEW p \in Nat, NEW seps
  PROVE  ~StrTok(text, seps, p).found => StrTok(text, seps, p).text = << >>
<1> DEFINE P == Places(text, seps)
           hits == {x \in p .. Len(text) - 1 : x \in P}
<1>1. CASE p >= Len(text)
  BY <1>1, TokenEnd DEF StrTok
<1>2. CASE ~(p >= Len(text))
  <2>1. CASE hits = {}
    BY <1>2, <2>1 DEF StrTok, Token
  <2>2. CASE hits # {}
    BY <1>2, <2>2 DEF StrTok, Token
  <2> QED BY <2>1, <2>2
<1> QED BY <1>1, <1>2

\* The two lists that PlainValue tells apart.
LEMMA ListCases ==
  ASSUME NEW w, NEW p, NEW t, NEW v, t = StrTok(w, Seps, p), t.found, v = t.text, Len(v) > 1
  PROVE  PlainValue(w, p) =
           IF HasChar(v, {"."} \cup Exponents)
           THEN Result("double", DoubleToken(v).texts, StrTok(w, Seps, t.pos).text, FALSE)
           ELSE Result(IntToken(v).type, IntToken(v).texts, StrTok(w, Seps, t.pos).text,
                       IntToken(v).bad)
<1> DEFINE point == HasChar(v, {"."} \cup Exponents)
           long  == Len(v) > 1
<1>1. PICK d, i : /\ d = Result("double", DoubleToken(v).texts, StrTok(w, Seps, t.pos).text, FALSE)
                  /\ i = Result(IntToken(v).type, IntToken(v).texts, StrTok(w, Seps, t.pos).text,
                               IntToken(v).bad)
  OBVIOUS
<1>2. PlainValue(w, p) =
        CASE ~t.found        -> Result("uchar", <<<< >>>>, << >>, TRUE)
          [] point           -> d
          [] long /\ ~point  -> i
          [] OTHER           -> Result("uchar", <<v>>, << >>, FALSE)
  BY <1>1 DEF PlainValue
<1> HIDE DEF point, long
<1>3. PlainValue(w, p) = IF point THEN d ELSE i
  BY <1>2 DEF long
<1> QED BY <1>1, <1>3 DEF point

\* The values that are read are those that the line means, and the error is
\* set for a malformed line.
LEMMA PlainRead ==
  ASSUME NEW l \in LineType, WellFormedLine(l), l.kind \in {"list", "char"}, NEW n, n = Len(l.name)
  PROVE  PlainValue(Written(l), n + 1) =
           Result(Meant(l).type, Meant(l).elems, Meant(l).unit, Malformed(l))
<1> DEFINE w == Written(l)
           v == FlattenSeq(l.values)
           s == l.values
           t == StrTok(w, Seps, n + 1)
           plain == PlainValue(w, n + 1)
<1>1. IF v = << >> THEN ~t.found
      ELSE t.found /\ t.text = v /\ StrTok(w, Seps, t.pos).text = l.unit
  BY ValueRead
<1>2. s \in Seq(Texts) /\ s \in Seq(Seq(Chars)) /\ v \in Texts /\ DOMAIN s = 1 .. Len(s)
  BY LineFacts, PlainValues DEF Texts
<1>3. Len(v) \in Nat /\ (v = << >> <=> Len(v) = 0)
  BY <1>2 DEF Texts
<1>4. ~t.found => t.text = << >>
  <2>1. w \in Texts /\ n \in Nat
    BY LineFacts, WrittenText
  <2>2. n + 1 \in Nat
    BY <2>1
  <2> HIDE DEF w
  <2> QED BY <2>1, <2>2, TextIfFound
<1> HIDE DEF w, t
<1>5. CASE l.kind = "list"
  <2>1. WellFormedList(s) /\ Len(v) > 1
    BY <1>5 DEF WellFormedLine, WellFormedList
  <2>2. t.found /\ t.text = v /\ StrTok(w, Seps, t.pos).text = l.unit
    BY <1>1, <1>3, <2>1
  <2>3. Meant(l).type = ListType(s) /\ Meant(l).unit = l.unit
    BY <1>5 DEF Meant
  <2>4. Malformed(l) = (ListType(s) = "int" /\ \E i \in DOMAIN s : ~IsNumber(s[i]))
    BY <1>5, <2>3 DEF Malformed, IsField
  <2>5. Meant(l).elems =
          [i \in DOMAIN s |-> IF ListType(s) # "int" \/ IsNumber(s[i]) THEN s[i] ELSE Illegal]
    BY <1>5 DEF Meant
  <2>6. s = [i \in DOMAIN s |-> s[i]]
    BY <1>2
  <2>9. plain = IF HasChar(v, {"."} \cup Exponents)
                THEN Result("double", DoubleToken(v).texts, l.unit, FALSE)
                ELSE Result(IntToken(v).type, IntToken(v).texts, l.unit, IntToken(v).bad)
    <3> HIDE DEF v, s
    <3>1. PICK tt, vv, q, ww : tt = t /\ vv = v /\ q = n + 1 /\ ww = w
      OBVIOUS
    <3>2. tt = StrTok(ww, Seps, q) /\ tt.found /\ vv = tt.text /\ Len(vv) > 1
      BY <2>1, <2>2, <3>1 DEF t
    <3>3. PlainValue(ww, q) =
            IF HasChar(vv, {"."} \cup Exponents)
            THEN Result("double", DoubleToken(vv).texts, StrTok(ww, Seps, tt.pos).text, FALSE)
            ELSE Result(IntToken(vv).type, IntToken(vv).texts, StrTok(ww, Seps, tt.pos).text,
                        IntToken(vv).bad)
      BY <3>2, ListCases, ZenonT(40)
    <3> QED BY <2>2, <3>1, <3>3
  <2>7. CASE HasChar(v, {"."} \cup Exponents)
    <3>1. ListType(s) = "double"
      BY <2>7 DEF ListType
    <3>2. DoubleToken(v).texts = s
      BY <1>2, <2>1, DoublesFound
    <3>3. plain = Result("double", s, l.unit, FALSE)
      <4> HIDE DEF v, s, plain
      <4> QED BY <2>7, <2>9, <3>2
    <3>4. Meant(l).elems = s /\ Malformed(l) = FALSE
      BY <2>4, <2>5, <2>6, <3>1
    <3> QED BY <2>3, <3>1, <3>3, <3>4 DEF w
  <2>8. CASE ~HasChar(v, {"."} \cup Exponents)
    <3> DEFINE wrong == \E i \in DOMAIN s : ~IsNumber(s[i])
               r     == IntToken(v)
    <3>1. ListType(s) = IF HasChar(v, {"-"}) \/ wrong THEN "int" ELSE "uint"
      BY <2>8 DEF ListType
    <3>2. /\ r.bad = wrong
          /\ r.type = IF HasChar(v, {"-"}) \/ wrong THEN "int" ELSE "uint"
          /\ r.texts = [i \in DOMAIN s |-> IF IsNumber(s[i]) THEN s[i] ELSE Illegal]
      <4>1. ~HasChar(v, Exponents)
        BY <2>8 DEF HasChar
      <4> QED BY <1>2, <2>1, <4>1, IntsFound
    <3>3. plain = Result(r.type, r.texts, l.unit, r.bad)
      <4> HIDE DEF v, s, r
      <4>1. r = IntToken(v)
        BY DEF r
      <4> HIDE DEF plain
      <4> QED BY <2>8, <2>9, <4>1
    <3> HIDE DEF r
    <3>4. Meant(l).elems = r.texts
      BY <2>5, <3>1, <3>2
    <3>5. Malformed(l) = r.bad
      BY <2>4, <3>1, <3>2
    <3>6. Meant(l).type = r.type
      BY <2>3, <3>1, <3>2
    <3> QED BY <2>3, <3>3, <3>4, <3>5, <3>6 DEF w
  <2> QED BY <2>7, <2>8
<1>6. CASE l.kind = "char"
  <2>1. /\ Len(s) = 1 /\ Len(s[1]) <= 1
        /\ ~HasChar(s[1], Seps \cup Exponents \cup {Newline, Quote, "."})
    BY <1>6 DEF WellFormedLine
  <2>2. v = s[1]
    BY <1>2, <2>1, FlattenOne
  <2>3. Meant(l).type = "uchar" /\ Meant(l).unit = << >>
    BY <1>6 DEF Meant
  <2>4. Malformed(l) = (v = << >>)
    BY <1>6, <2>2, <2>3 DEF Malformed, IsField
  <2>5. Meant(l).elems = <<v>>
    <3>1. Meant(l).elems = [i \in DOMAIN s |-> s[i]]
      BY <1>6 DEF Meant
    <3>2. DOMAIN s = 1 .. 1
      BY <1>2, <2>1
    <3> HIDE DEF s
    <3>3. [i \in 1 .. 1 |-> s[i]] = <<s[1]>>
      OBVIOUS
    <3> QED BY <2>2, <3>1, <3>2, <3>3
  <2>6. ~HasChar(v, {"."} \cup Exponents) /\ ~(Len(v) > 1)
    <3> HIDE DEF v, s
    <3> QED BY <1>3, <2>1, <2>2 DEF HasChar
  <2> HIDE DEF v, s
  <2>7. CASE v = << >>
    <3>1. ~t.found
      BY <1>1, <2>7
    <3>2. t.text = << >> /\ ~HasChar(t.text, {"."} \cup Exponents) /\ ~(Len(t.text) > 1)
      BY <1>4, <3>1, <2>6, <2>7
    <3>3. plain = Result("uchar", <<v>>, << >>, TRUE)
      BY <2>7, <3>1, <3>2 DEF PlainValue, t
    <3> QED BY <2>3, <2>4, <2>5, <2>7, <3>3 DEF w
  <2>8. CASE v # << >>
    <3>1. t.found /\ t.text = v
      BY <1>1, <2>8
    <3>2. plain = Result("uchar", <<v>>, << >>, FALSE)
      BY <2>6, <3>1 DEF PlainValue, t
    <3> QED BY <2>3, <2>4, <2>5, <2>8, <3>2 DEF w
  <2> QED BY <2>7, <2>8
<1> QED BY <1>5, <1>6

\* The lines that are no fields.
LEMMA BlankRead ==
  ASSUME NEW l \in LineType, WellFormedLine(l), l.kind = "blank"
  PROVE  Written(l) # << >> /\ Written(l)[1] = Blank
<1>1. Written(l) = l.name
  BY WrittenOther DEF IsField
<1> QED BY <1>1 DEF WellFormedLine

LEMMA OddRead ==
  ASSUME NEW l \in LineType, WellFormedLine(l), l.kind = "odd"
  PROVE  /\ Written(l) # << >> /\ Written(l)[1] # Blank
         /\ Key(Written(l)).pos = 1 \/ Key(Written(l)).pos = Len(Written(l)) + 1
<1>1. PICK w \in Texts : w = Written(l) /\ w = l.name
  BY WrittenOther DEF IsField
<1>2. w # << >> /\ w[1] # Blank /\ (w[1] \in Seps \/ ~HasChar(w, Seps))
  BY <1>1 DEF WellFormedLine
<1>3. Len(w) \in Nat \ {0}
  BY <1>2 DEF Texts
<1>4. CASE w[1] \in Seps
  <2>1. /\ << >> \in Texts /\ Stands(<< >>, w, 0) /\ ~HasChar(<< >>, Seps) /\ Len(<< >>) = 0
    BY <1>3 DEF Texts, Stands, HasChar
  <2>2. PICK t \in Texts : t = << >> /\ Len(t) = 0 /\ Stands(t, w, 0) /\ ~HasChar(t, Seps)
    BY <2>1
  <2>3. 0 + Len(t) < Len(w) /\ w[0 + Len(t) + 1] \in Seps
    BY <1>3, <1>4, <2>2
  <2>4. Key(w) = Found(t, 0 + Len(t) + 1)
    BY <2>2, <2>3, StrTokAt DEF Key
  <2>5. 0 + Len(t) + 1 = 1
    BY <2>2
  <2> QED BY <1>1, <1>2, <2>4, <2>5 DEF Found
<1>5. CASE ~HasChar(w, Seps)
  <2>1. Stands(w, w, 0) /\ 0 + Len(w) = Len(w)
    BY <1>3 DEF Stands
  <2>2. Key(w) = Found(w, IF 0 = 0 THEN Len(w) + 1 ELSE Len(w))
    BY <1>2, <1>5, <2>1, StrTokLast DEF Key
  <2> QED BY <1>1, <1>2, <2>2 DEF Found
<1> QED BY <1>2, <1>4, <1>5

LEMMA Nothing ==
  ASSUME NEW S
  PROVE  << >> \in Seq(S) /\ Len(<< >>) = 0 /\ DOMAIN << >> = {}
  OBVIOUS

\* An empty line, which has no keyword.
LEMMA EmptyRead ==
  /\ Key(<< >>) = [found |-> FALSE, text |-> << >>, pos |-> 0]
  /\ PlainValue(<< >>, 0) = Result("uchar", <<<< >>>>, << >>, TRUE)
<1>1. PICK w \in Texts : w = << >> /\ Len(w) = 0
  <2>1. << >> \in Seq(Chars) /\ Len(<< >>) = 0
    BY Nothing
  <2> QED BY <2>1 DEF Texts
<1>2. StrTok(w, Seps, 0) = [found |-> FALSE, text |-> << >>, pos |-> 0]
  BY <1>1, StrTokNone
<1>3. PICK t : t = StrTok(w, Seps, 0) /\ ~t.found /\ t.text = w /\ ~HasChar(t.text, {"."} \cup Exponents)
               /\ ~(Len(t.text) > 1)
  <2>1. ~HasChar(w, {"."} \cup Exponents)
    BY <1>1 DEF HasChar
  <2> QED BY <1>1, <1>2, <2>1
<1>4. PlainValue(w, 0) = Result("uchar", <<<< >>>>, << >>, TRUE)
  BY <1>3 DEF PlainValue
<1> QED BY <1>1, <1>2, <1>4 DEF Key

LEMMA NoTokens ==
  ASSUME NEW exceptions
  PROVE  Tokens(<< >>, exceptions) = << >>
<1> DEFINE Rest(g, p) == IF StrTokTok(<< >>, Signs, exceptions, p).found
                         THEN <<StrTokTok(<< >>, Signs, exceptions, p)>>
                                \o g[StrTokTok(<< >>, Signs, exceptions, p).pos]
                         ELSE << >>
           all == CHOOSE g : g = [p \in 0 .. Len(<< >>) + 1 |-> Rest(g, p)]
<1>1. PICK e \in Texts : e = << >> /\ Len(e) = 0
  <2>1. << >> \in Seq(Chars) /\ Len(<< >>) = 0
    BY Nothing
  <2> QED BY <2>1 DEF Texts
<1>2. \A p \in 0 .. Len(<< >>) + 1 : ~StrTokTok(<< >>, Signs, exceptions, p).found
  <2> TAKE p \in 0 .. Len(<< >>) + 1
  <2>1. PICK P : StrTokTok(e, Signs, exceptions, p) = Token(e, p, P)
    BY DEF StrTokTok
  <2>2. p \in Nat /\ p >= Len(e)
    BY <1>1
  <2>3. ~Token(e, p, P).found
    BY <2>2, TokenEnd
  <2> QED BY <1>1, <2>1, <2>3
<1>3. ASSUME NEW g PROVE \A p \in 0 .. Len(<< >>) + 1 : Rest(g, p) = << >>
  BY <1>2
<1>4. Tokens(<< >>, exceptions) = all[0]
  BY DEF Tokens
<1> HIDE DEF Rest
<1>5. PICK f : f = [p \in 0 .. Len(<< >>) + 1 |-> << >>]
  OBVIOUS
<1>6. f = [p \in 0 .. Len(<< >>) + 1 |-> Rest(f, p)]
  BY <1>3, <1>5
<1>7. all = [p \in 0 .. Len(<< >>) + 1 |-> Rest(all, p)]
  BY <1>6
<1> HIDE DEF all
<1>8. 0 \in 0 .. Len(<< >>) + 1
  BY <1>1
<1> QED BY <1>3, <1>4, <1>7, <1>8

LEMMA PointCase ==
  ASSUME NEW w, NEW p, NEW t, NEW v, t = StrTok(w, Seps, p), t.found, v = t.text,
         HasChar(v, {"."} \cup Exponents)
  PROVE  PlainValue(w, p) = Result("double", DoubleToken(v).texts, StrTok(w, Seps, t.pos).text, FALSE)
<1> DEFINE point == HasChar(v, {"."} \cup Exponents)
<1>1. PICK d, i, long : /\ d = Result("double", DoubleToken(v).texts, StrTok(w, Seps, t.pos).text, FALSE)
                        /\ i = Result(IntToken(v).type, IntToken(v).texts, StrTok(w, Seps, t.pos).text,
                                     IntToken(v).bad)
                        /\ long = (Len(v) > 1)
  OBVIOUS
<1>2. PlainValue(w, p) =
        CASE ~t.found        -> Result("uchar", <<<< >>>>, << >>, TRUE)
          [] point           -> d
          [] long /\ ~point  -> i
          [] OTHER           -> Result("uchar", <<v>>, << >>, FALSE)
  BY <1>1 DEF PlainValue
<1>3. point
  OBVIOUS
<1> HIDE DEF point
<1> QED BY <1>1, <1>2, <1>3

\* A keyword and one more character: a quote, or what is taken for a list.
LEMMA FatalRead ==
  ASSUME NEW l \in LineType, WellFormedLine(l), l.kind = "fatal", l.name # << >>
  PROVE  \E n \in Nat :
           LET w == Written(l)
           IN  /\ w \in Texts /\ n > 2 /\ n = Len(w) /\ w # << >> /\ w[1] # Blank
               /\ Key(w).found /\ Key(w).pos = n - 1
               /\ IF w[n] = Quote THEN ~StrTok(w, {Quote}, n).found
                  ELSE PlainValue(w, n - 1) = Result("double", << >>, << >>, FALSE)
<1>1. PICK w \in Texts : w = Written(l) /\ w = l.name
  BY WrittenOther DEF IsField
<1>2. PICK n : /\ n = Len(w) /\ n > 2 /\ SubSeq(w, 1, n - 2) \in Keywords
               /\ w[n - 1] = "=" /\ w[n] \in {Quote, "."} \cup Exponents
  BY <1>1 DEF WellFormedLine
<1>3. n \in Nat /\ n - 2 \in Nat /\ n - 1 \in Nat
  BY <1>2 DEF Texts
<1>4. PICK k \in Texts : /\ k = SubSeq(w, 1, n - 2) /\ k \in Keywords /\ Len(k) = n - 2
                         /\ \A i \in 1 .. n - 2 : k[i] = w[i]
  <2>1. SubSeq(w, 1, n - 2) \in Texts
    BY <1>2 DEF Keywords, Texts
  <2>2. Len(SubSeq(w, 1, n - 2)) = n - 2 /\ \A i \in 1 .. n - 2 : SubSeq(w, 1, n - 2)[i] = w[i]
    BY <1>2, <1>3 DEF Texts
  <2> QED BY <1>2, <2>1, <2>2
<1>5. w # << >> /\ w[1] # Blank
  <2>1. w[1] = k[1] /\ w # << >>
    BY <1>2, <1>3, <1>4
  <2> QED BY <1>4, <2>1 DEF Keywords
<1>6. Key(w).found /\ Key(w).pos = n - 1
  <2>1. Stands(k, w, 0) /\ 0 + Len(k) < Len(w) /\ w[0 + Len(k) + 1] \in Seps /\ 0 + Len(k) + 1 = n - 1
    <3>1. 0 + Len(k) = n - 2 /\ n - 2 + 1 = n - 1
      BY <1>3, <1>4
    <3>2. \A i \in 1 .. Len(k) : w[0 + i] = k[i]
      <4> TAKE i \in 1 .. Len(k)
      <4>1. i \in 1 .. n - 2 /\ 0 + i = i
        BY <1>3, <1>4
      <4> QED BY <1>4, <4>1
    <3> QED BY <1>2, <1>3, <3>1, <3>2, CharFacts DEF Stands
  <2>2. ~HasChar(k, Seps)
    BY <1>4, LacksLess DEF Keywords, HasChar
  <2>3. StrTok(w, Seps, 0) = Found(k, 0 + Len(k) + 1)
    BY <2>1, <2>2, StrTokAt
  <2> QED BY <2>1, <2>3 DEF Key, Found
<1>7. w[n] = Quote => ~StrTok(w, {Quote}, n).found
  <2>1. n >= Len(w)
    BY <1>2, <1>3
  <2> QED BY <1>3, <2>1, StrTokNone
<1>8. ASSUME w[n] # Quote PROVE PlainValue(w, n - 1) = Result("double", << >>, << >>, FALSE)
  <2>1. PICK c \in Chars, v \in Texts :
          /\ c = w[n] /\ c \in {"."} \cup Exponents /\ v = <<c>> /\ Len(v) = 1 /\ v[1] = c
          /\ DOMAIN v = 1 .. 1
    <3>1. w[n] \in Chars
      BY <1>2, <1>3 DEF Texts
    <3>2. <<w[n]>> \in Texts /\ Len(<<w[n]>>) = 1 /\ <<w[n]>>[1] = w[n] /\ DOMAIN <<w[n]>> = 1 .. 1
      BY <3>1, One DEF Texts
    <3> QED BY <1>2, <1>8, <3>1, <3>2
  <2>2. HasChar(v, {"."} \cup Exponents)
    BY <2>1 DEF HasChar
  <2>3. ~HasChar(v, Seps)
    BY <2>1 DEF HasChar, Seps, Exponents
  <2>4. StrTok(w, Seps, n - 1) = Found(v, Len(w))
    <3>1. n - 1 + Len(v) = Len(w) /\ n - 1 # 0 /\ v # << >>
      BY <1>2, <1>3, <2>1
    <3>2. Stands(v, w, n - 1)
      <4>1. \A i \in 1 .. Len(v) : i = 1 /\ n - 1 + i = n
        BY <1>3, <2>1
      <4>2. n - 1 + Len(v) <= Len(w)
        BY <1>2, <1>3, <3>1
      <4> QED BY <2>1, <4>1, <4>2 DEF Stands
    <3> QED BY <1>3, <2>3, <3>1, <3>2, StrTokLast
  <2>5. StrTok(w, Seps, Len(w)).text = << >>
    <3>1. Len(w) >= Len(w) /\ Len(w) \in Nat
      BY <1>2, <1>3
    <3> QED BY <3>1, StrTokNone
  <2>6. DoubleToken(v).texts = << >>
    <3>1. Tail(v) = << >>
      BY <2>1
    <3>2. Tokens(<< >>, Exponents) = << >>
      BY NoTokens
    <3>3. DOMAIN << >> = {}
      BY Nothing
    <3>4. PICK ts : ts = << >> /\ DOMAIN ts = {} /\ Tokens(Tail(v), Exponents) = ts
      BY <3>1, <3>2, <3>3
    <3>5. DoubleToken(v).texts =
            [i \in DOMAIN ts |-> <<SignOf(v, ts[i], ts[i].pos - Len(ts[i].text))>> \o ts[i].text]
      BY <3>4 DEF DoubleToken
    <3>6. [i \in {} |-> <<SignOf(v, ts[i], ts[i].pos - Len(ts[i].text))>> \o ts[i].text] = << >>
      OBVIOUS
    <3> QED BY <3>4, <3>5, <3>6
  <2>7. PICK t : t = StrTok(w, Seps, n - 1) /\ t.found /\ t.text = v /\ t.pos = Len(w)
    BY <2>4 DEF Found
  <2>8. PlainValue(w, n - 1) = Result("double", DoubleToken(v).texts, StrTok(w, Seps, Len(w)).text, FALSE)
    BY <2>1, <2>2, <2>7, PointCase, ZenonT(40)
  <2> QED BY <2>5, <2>6, <2>8
<1> QED BY <1>1, <1>2, <1>3, <1>5, <1>6, <1>7, <1>8

-----------------------------------------------------------------------------
(***************************************************************************)
(* The arrays.                                                             *)
(***************************************************************************)
Roomy(S) == {a \in [capacity : Nat \ {0}, elems : Seq(S)] : Sized(a)}

LEMMA NewRoomy ==
  ASSUME NEW S
  PROVE  NewArray(Capacity) \in Roomy(S) /\ NewArray(Capacity).elems = << >>
<1>1. Capacity \in Nat \ {0} /\ << >> \in Seq(S) /\ Len(<< >>) = 0
  BY CapacityAssumption, Nothing
<1> QED BY <1>1 DEF NewArray, Roomy, Sized

LEMMA AddOne ==
  ASSUME NEW S, NEW a \in Roomy(S), NEW e \in S, NEW b \in AddElem(a, e)
  PROVE  b \in Roomy(S) /\ (b.elems = a.elems \/ b.elems = Append(a.elems, e))
<1>1. PICK c \in Nat \ {0}, s \in Seq(S), n \in Nat :
        /\ a = [capacity |-> c, elems |-> s] /\ n = Len(s) /\ n <= c
        /\ c = Capacity \/ c < 2 * n
  <2>1. a \in [capacity : Nat \ {0}, elems : Seq(S)]
    BY DEF Roomy
  <2>2. a = [capacity |-> a.capacity, elems |-> a.elems] /\ a.capacity \in Nat \ {0} /\ a.elems \in Seq(S)
    BY <2>1
  <2>3. Len(a.elems) \in Nat
    BY <2>2
  <2>4. Sized(a)
    BY DEF Roomy
  <2> QED BY <2>2, <2>3, <2>4 DEF Sized
<1>2. Append(s, e) \in Seq(S) /\ Len(Append(s, e)) = n + 1
  BY <1>1
<1>3. PICK t \in Seq(S) : t = Append(s, e) /\ Len(t) = n + 1
  BY <1>2
<1>4. CASE b = a
  BY <1>4
<1>5. CASE b = [capacity |-> c, elems |-> t] /\ n + 1 <= c
  <2>1. b.elems = t /\ b.capacity = c
    BY <1>5
  <2>2. c = Capacity \/ c < 2 * (n + 1)
    BY <1>1
  <2>3. Sized(b)
    BY <1>3, <1>5, <2>1, <2>2 DEF Sized
  <2>4. b \in [capacity : Nat \ {0}, elems : Seq(S)]
    BY <1>5
  <2> QED BY <1>1, <1>3, <2>1, <2>3, <2>4 DEF Roomy
<1>6. CASE b = [capacity |-> 2 * c, elems |-> t] /\ n + 1 > c
  <2>1. b.elems = t /\ b.capacity = 2 * c
    BY <1>6
  <2>2. n + 1 <= 2 * c /\ 2 * c < 2 * (n + 1) /\ 2 * c \in Nat \ {0}
    BY <1>1, <1>6
  <2>3. Sized(b)
    BY <1>3, <2>1, <2>2 DEF Sized
  <2>4. b \in [capacity : Nat \ {0}, elems : Seq(S)]
    BY <1>6, <2>2
  <2> QED BY <1>1, <1>3, <2>1, <2>3, <2>4 DEF Roomy
<1>7. CASE n + 1 > c
  <2> DEFINE g == [capacity |-> 2 * c, elems |-> s]
  <2>1. Full(a) /\ [a EXCEPT !.capacity = 2 * a.capacity] = g
    BY <1>1, <1>7 DEF Full
  <2>5. ~Full(g)
    <3>1. Len(g.elems) = n /\ g.capacity = 2 * c
      BY <1>1
    <3>2. ~(n + 1 > 2 * c)
      BY <1>1, <1>7
    <3> HIDE DEF g
    <3> QED BY <3>1, <3>2 DEF Full
  <2>6. [g EXCEPT !.elems = Append(@, e)] = [capacity |-> 2 * c, elems |-> t]
    <3>1. Append(g.elems, e) = t
      BY <1>3
    <3> HIDE DEF g
    <3>2. [g EXCEPT !.elems = Append(@, e)] = [g EXCEPT !.elems = t]
      BY <3>1
    <3>3. [[capacity |-> 2 * c, elems |-> s] EXCEPT !.elems = t] = [capacity |-> 2 * c, elems |-> t]
      OBVIOUS
    <3> QED BY <3>2, <3>3 DEF g
  <2>2. ~Full(g) /\ [g EXCEPT !.elems = Append(@, e)] = [capacity |-> 2 * c, elems |-> t]
    BY <2>5, <2>6
  <2>3. b \in {IF Full(x) THEN x ELSE [x EXCEPT !.elems = Append(@, e)] : x \in {a, g}}
    BY <2>1 DEF AddElem, Grow
  <2> HIDE DEF g
  <2>4. b = a \/ b = [g EXCEPT !.elems = Append(@, e)]
    BY <2>1, <2>2, <2>3
  <2> QED BY <1>4, <1>6, <1>7, <2>2, <2>4
<1>8. CASE n + 1 <= c
  <2>3. Len(a.elems) = n /\ a.capacity = c /\ a.elems = s
    BY <1>1
  <2>4. ~(n + 1 > c)
    BY <1>8
  <2>5. ~Full(a)
    BY <2>3, <2>4 DEF Full
  <2>6. [a EXCEPT !.elems = Append(@, e)] = [capacity |-> c, elems |-> t]
    <3>1. Append(a.elems, e) = t
      BY <1>3, <2>3
    <3>2. [a EXCEPT !.elems = Append(@, e)] = [a EXCEPT !.elems = t]
      BY <3>1
    <3>3. [[capacity |-> c, elems |-> s] EXCEPT !.elems = t] = [capacity |-> c, elems |-> t]
      OBVIOUS
    <3> QED BY <1>1, <3>2, <3>3
  <2>1. ~Full(a) /\ [a EXCEPT !.elems = Append(@, e)] = [capacity |-> c, elems |-> t]
    BY <2>5, <2>6
  <2>2. b \in {IF Full(x) THEN x ELSE [x EXCEPT !.elems = Append(@, e)] : x \in {a}}
    BY <2>1 DEF AddElem
  <2> QED BY <1>5, <1>8, <2>1, <2>2
<1> QED BY <1>1, <1>7, <1>8

\* n elements of s were added to a, to get b, if all of them were.
Grown(a, s, n, b) ==
  /\ Len(b.elems) <= Len(a.elems) + n
  /\ Len(b.elems) = Len(a.elems) + n =>
       /\ \A j \in 1 .. Len(a.elems) : b.elems[j] = a.elems[j]
       /\ \A j \in 1 .. n : b.elems[Len(a.elems) + j] = s[j]

LEMMA GrownNext ==
  ASSUME NEW S, NEW a \in Roomy(S), NEW s \in Seq(S), NEW n \in Nat, n + 1 <= Len(s),
         NEW c \in Roomy(S), Grown(a, s, n, c), NEW b \in AddElem(c, s[n + 1])
  PROVE  b \in Roomy(S) /\ Grown(a, s, n + 1, b)
<1>1. s[n + 1] \in S
  OBVIOUS
<1>2. b \in Roomy(S) /\ (b.elems = c.elems \/ b.elems = Append(c.elems, s[n + 1]))
  BY <1>1, AddOne
<1>3. PICK x \in Seq(S), y \in Seq(S), z \in Seq(S), e \in S :
        x = a.elems /\ y = c.elems /\ z = b.elems /\ e = s[n + 1]
  BY <1>1, <1>2 DEF Roomy
<1>4. PICK k \in Nat, m \in Nat : k = Len(x) /\ m = Len(y)
  OBVIOUS
<1>5. /\ m <= k + n
      /\ m = k + n => (\A j \in 1 .. k : y[j] = x[j]) /\ (\A j \in 1 .. n : y[k + j] = s[j])
  BY <1>3, <1>4 DEF Grown
<1>6. CASE z = y
  <2>1. Len(z) <= k + (n + 1) /\ Len(z) # k + (n + 1)
    BY <1>4, <1>5, <1>6
  <2> QED BY <1>2, <1>3, <1>4, <2>1 DEF Grown
<1>7. CASE z = Append(y, e)
  <2>1. Len(z) = m + 1 /\ z[m + 1] = e /\ \A j \in 1 .. m : z[j] = y[j]
    BY <1>4, <1>7
  <2>2. Len(z) <= k + (n + 1)
    BY <1>5, <2>1
  <2>3. ASSUME Len(z) = k + (n + 1)
        PROVE  (\A j \in 1 .. k : z[j] = x[j]) /\ (\A j \in 1 .. n + 1 : z[k + j] = s[j])
    <3>1. m = k + n
      BY <2>1, <2>3
    <3>2. \A j \in 1 .. k : z[j] = x[j]
      BY <1>5, <2>1, <3>1
    <3>3. \A j \in 1 .. n : z[k + j] = s[j]
      <4> TAKE j \in 1 .. n
      <4>1. k + j \in 1 .. m
        BY <3>1
      <4> QED BY <1>5, <2>1, <3>1, <4>1
    <3>4. z[k + (n + 1)] = s[n + 1]
      <4>1. m + 1 = k + (n + 1)
        BY <3>1
      <4> QED BY <1>3, <2>1, <4>1
    <3>5. \A j \in 1 .. n + 1 : j \in 1 .. n \/ j = n + 1
      OBVIOUS
    <3> QED BY <3>2, <3>3, <3>4, <3>5
  <2> QED BY <1>2, <1>3, <1>4, <2>2, <2>3 DEF Grown
<1> QED BY <1>2, <1>3, <1>6, <1>7

\* The sets of arrays that the elements are added to, one after the other.
Adds(a, s, f) ==
  f = [n \in 0 .. Len(s) |-> IF n = 0 THEN {a} ELSE UNION {AddElem(b, s[n]) : b \in f[n - 1]}]

LEMMA AddsExist ==
  ASSUME NEW S, NEW a, NEW s \in Seq(S)
  PROVE  \E f : Adds(a, s, f)
<1> DEFINE Step(f, n) == UNION {AddElem(b, s[n]) : b \in f[n - 1]}
           Good(f, m) == f[0] = {a} /\ \A n \in 1 .. m : f[n] = Step(f, n)
           N == {m \in Nat : m <= Len(s) => \E f : Good(f, m)}
<1>1. 0 \in N
  <2>1. Good([n \in 0 .. 0 |-> {a}], 0)
    OBVIOUS
  <2> QED BY <2>1
<1>2. ASSUME NEW m \in Nat, m \in N PROVE m + 1 \in N
  <2> SUFFICES ASSUME m + 1 <= Len(s) PROVE \E f : Good(f, m + 1)
    <3> HIDE DEF Good
    <3> QED OBVIOUS
  <2>1. PICK f : Good(f, m)
    <3>1. m <= Len(s)
      OBVIOUS
    <3> HIDE DEF Good
    <3> QED BY <1>2, <3>1
  <2>2. PICK g : g = [n \in 0 .. m + 1 |-> IF n = m + 1 THEN Step(f, m + 1) ELSE f[n]]
    OBVIOUS
  <2>3. \A n \in 0 .. m : g[n] = f[n]
    BY <2>2
  <2>4. g[m + 1] = Step(f, m + 1)
    BY <2>2
  <2>5. \A n \in 1 .. m + 1 : Step(g, n) = Step(f, n)
    <3> TAKE n \in 1 .. m + 1
    <3>1. g[n - 1] = f[n - 1]
      BY <2>3
    <3> QED BY <3>1
  <2> HIDE DEF Step
  <2>6. \A n \in 1 .. m + 1 : g[n] = Step(g, n)
    <3> TAKE n \in 1 .. m + 1
    <3>1. CASE n = m + 1
      BY <2>4, <2>5, <3>1
    <3>2. CASE n # m + 1
      BY <2>1, <2>3, <2>5, <3>2
    <3> QED BY <3>1, <3>2
  <2>7. g[0] = {a}
    BY <2>1, <2>3
  <2>8. Good(g, m + 1)
    BY <2>6, <2>7
  <2> HIDE DEF Good
  <2> QED BY <2>8
<1>3. Len(s) \in N
  <2> HIDE DEF N
  <2> QED BY <1>1, <1>2, SetInduction
<1>4. PICK f : Good(f, Len(s))
  <2> HIDE DEF Good
  <2> QED BY <1>3
<1>5. PICK g : g = [n \in 0 .. Len(s) |-> f[n]]
  OBVIOUS
<1>6. \A n \in 1 .. Len(s) : Step(g, n) = Step(f, n)
  BY <1>5
<1>7. \A n \in 0 .. Len(s) : g[n] = IF n = 0 THEN {a} ELSE Step(g, n)
  <2> HIDE DEF Step
  <2> QED BY <1>4, <1>5, <1>6
<1>8. g = [n \in 0 .. Len(s) |-> IF n = 0 THEN {a} ELSE Step(g, n)]
  <2> HIDE DEF Step
  <2> QED BY <1>5, <1>7
<1> QED BY <1>8 DEF Adds

LEMMA AddMany ==
  ASSUME NEW S, NEW a \in Roomy(S), NEW s \in Seq(S), NEW b \in AddElems(a, s)
  PROVE  b \in Roomy(S) /\ Grown(a, s, Len(s), b)
<1> DEFINE add == CHOOSE f : Adds(a, s, f)
           N == {m \in Nat : m <= Len(s) => \A c \in add[m] : c \in Roomy(S) /\ Grown(a, s, m, c)}
<1>1. \E f : Adds(a, s, f)
  BY AddsExist
<1>2. Adds(a, s, add)
  BY <1>1
<1>3. AddElems(a, s) = add[Len(s)]
  BY DEF AddElems, Adds
<1> HIDE DEF add
<1>4. Len(s) \in Nat
  OBVIOUS
<1>5. add[0] = {a} /\ \A n \in 1 .. Len(s) : add[n] = UNION {AddElem(c, s[n]) : c \in add[n - 1]}
  <2>1. ASSUME NEW n \in 0 .. Len(s)
        PROVE  add[n] = IF n = 0 THEN {a} ELSE UNION {AddElem(c, s[n]) : c \in add[n - 1]}
    BY <1>2 DEF Adds
  <2>2. 0 \in 0 .. Len(s) /\ \A n \in 1 .. Len(s) : n \in 0 .. Len(s) /\ n # 0
    BY <1>4
  <2> QED BY <2>1, <2>2
<1>6. 0 \in N
  <2>1. Len(a.elems) \in Nat
    BY DEF Roomy
  <2>2. Grown(a, s, 0, a)
    BY <2>1 DEF Grown
  <2> QED BY <1>5, <2>2
<1>7. ASSUME NEW m \in Nat, m \in N PROVE m + 1 \in N
  <2> SUFFICES ASSUME m + 1 <= Len(s), NEW c \in add[m + 1]
               PROVE  c \in Roomy(S) /\ Grown(a, s, m + 1, c)
    OBVIOUS
  <2>1. m + 1 \in 1 .. Len(s) /\ m + 1 - 1 = m /\ m <= Len(s)
    BY <1>4
  <2>2. add[m + 1] = UNION {AddElem(x, s[m + 1]) : x \in add[m]}
    BY <1>5, <2>1
  <2>3. PICK x \in add[m] : c \in AddElem(x, s[m + 1])
    BY <2>2
  <2>4. x \in Roomy(S) /\ Grown(a, s, m, x)
    BY <1>7, <2>1, <2>3
  <2> QED BY <2>3, <2>4, GrownNext
<1>8. Len(s) \in N
  <2> HIDE DEF N
  <2> QED BY <1>4, <1>6, <1>7, SetInduction
<1> QED BY <1>3, <1>4, <1>8

\* ptr_index counts the elements of the fields.
LEMMA TakenIs ==
  ASSUME Len(infos.elems) \in Nat, \A n \in 1 .. Len(infos.elems) : infos.elems[n].count \in Nat
  PROVE  Sums([n \in 1 .. Len(infos.elems) |-> infos.elems[n].count], Len(infos.elems), Taken)
<1> DEFINE L == Len(infos.elems)
           b == [n \in 1 .. L |-> infos.elems[n].count]
           sum == CHOOSE g : g = [n \in 0 .. L |-> IF n = 0 THEN 0 ELSE g[n - 1] + infos.elems[n].count]
<1>1. \A n \in 1 .. L : b[n] \in Nat /\ b[n] = infos.elems[n].count
  OBVIOUS
<1> HIDE DEF b
<1>2. PICK g : Sums(b, L, g)
  BY <1>1, SumExists
<1>3. g = [n \in 0 .. L |-> IF n = 0 THEN 0 ELSE g[n - 1] + infos.elems[n].count]
  <2>1. \A n \in 0 .. L : n # 0 => n \in 1 .. L
    OBVIOUS
  <2> QED BY <1>1, <1>2, <2>1 DEF Sums
<1>4. sum = [n \in 0 .. L |-> IF n = 0 THEN 0 ELSE sum[n - 1] + infos.elems[n].count]
  BY <1>3
<1>5. Taken = sum
  BY DEF Taken
<1> HIDE DEF sum
<1> DEFINE N == {m \in Nat : m <= L => sum[m] = g[m]}
<1>6. 0 \in N
  BY <1>3, <1>4
<1>7. ASSUME NEW m \in Nat, m \in N PROVE m + 1 \in N
  <2> SUFFICES ASSUME m + 1 <= L PROVE sum[m + 1] = g[m + 1]
    OBVIOUS
  <2>1. m + 1 \in 0 .. L /\ m + 1 # 0 /\ m + 1 - 1 = m /\ m <= L
    OBVIOUS
  <2>2. sum[m + 1] = sum[m] + infos.elems[m + 1].count /\ g[m + 1] = g[m] + infos.elems[m + 1].count
    BY <1>3, <1>4, <2>1
  <2> QED BY <1>7, <2>1, <2>2
<1>8. \A m \in 0 .. L : sum[m] = g[m]
  <2>1. Nat \subseteq N
    <3> HIDE DEF N
    <3> QED BY <1>6, <1>7, SetInduction
  <2> QED BY <2>1
<1>9. sum = g
  <2>1. \A n \in 0 .. L : n # 0 => sum[n - 1] = g[n - 1]
    BY <1>8
  <2>2. [n \in 0 .. L |-> IF n = 0 THEN 0 ELSE sum[n - 1] + infos.elems[n].count]
          = [n \in 0 .. L |-> IF n = 0 THEN 0 ELSE g[n - 1] + infos.elems[n].count]
    BY <2>1
  <2> QED BY <1>3, <1>4, <2>2
<1> QED BY <1>2, <1>5, <1>9 DEF b

-----------------------------------------------------------------------------
(***************************************************************************)
(* What fields mean.                                                       *)
(***************************************************************************)
LEMMA Seven ==
  ASSUME NEW S, NEW c \in S, NEW d \in S
  PROVE  <<c, d, d, d, d, d, d>> \in Seq(S)
  OBVIOUS

LEMMA IllegalText ==
  Illegal \in Texts
<1>1. "-" \in Chars /\ "9" \in Chars
  BY CharsAssumption DEF Signs, Digits
<1> QED BY <1>1, Seven DEF Illegal, Texts

LEMMA Greatest ==
  ASSUME NEW n \in Nat, NEW S \in SUBSET (1 .. n), S # {}
  PROVE  Max(S) \in S
<1> DEFINE R == {n - x : x \in S}
<1>0. \A x \in S : x \in 1 .. n /\ n - x \in Nat
  OBVIOUS
<1>1. R \in SUBSET Nat /\ R # {}
  BY <1>0
<1>2. PICK r : r \in R /\ \A y \in R : r <= y
  <2> HIDE DEF R
  <2> QED BY <1>1, Least
<1>3. PICK x \in S : r = n - x
  BY <1>2
<1>4. \A y \in S : x >= y
  <2> TAKE y \in S
  <2>1. n - x <= n - y
    BY <1>2, <1>3
  <2> QED BY <2>1
<1> QED BY <1>4 DEF Max

LEMMA StripText ==
  ASSUME NEW t \in Texts
  PROVE  StripR(t) \in Texts
<1> DEFINE printed == {i \in DOMAIN t : t[i] # Blank}
           n == IF printed = {} THEN 0 ELSE Max(printed)
<1>1. Len(t) \in Nat /\ DOMAIN t = 1 .. Len(t)
  BY DEF Texts
<1>2. n \in 0 .. Len(t)
  <2>1. CASE printed = {}
    BY <1>1, <2>1
  <2>2. CASE printed # {}
    <3>1. printed \in SUBSET (1 .. Len(t))
      BY <1>1
    <3> HIDE DEF printed
    <3>2. Max(printed) \in printed
      BY <1>1, <2>2, <3>1, Greatest
    <3>3. n = Max(printed)
      BY <2>2
    <3>4. PICK x : x = Max(printed)
      OBVIOUS
    <3>5. x \in 1 .. Len(t)
      BY <3>1, <3>2, <3>4
    <3> HIDE DEF n
    <3> QED BY <1>1, <3>3, <3>4, <3>5
  <2> QED BY <2>1, <2>2
<1>3. StripR(t) = SubSeq(t, 1, n)
  BY DEF StripR
<1> HIDE DEF n
<1>4. SubSeq(t, 1, n) \in Texts
  BY <1>1, <1>2 DEF Texts
<1> QED BY <1>3, <1>4

Types == {"string", "uchar", "int", "uint", "double", "none"}

LEMMA MeantFacts ==
  ASSUME NEW l \in LineType, WellFormedLine(l), IsField(l)
  PROVE  /\ Meant(l).name = l.name /\ l.name \in Texts /\ l.name # << >>
         /\ Meant(l).type \in Types \ {"none"} /\ Meant(l).unit \in Texts
         /\ Meant(l).elems \in Seq(Texts) /\ Len(Meant(l).elems) \in Nat \ {0}
<1>1. /\ l.values \in Seq(Texts) /\ DOMAIN l.values = 1 .. Len(l.values) /\ Len(l.values) \in Nat
      /\ l.unit \in Texts /\ \A i \in 1 .. Len(l.values) : l.values[i] \in Texts
  BY LineFacts
<1>2. l.name \in Texts /\ l.name # << >> /\ Meant(l).name = l.name
  BY DEF WellFormedLine, Keywords, Texts, Meant
<1>3. Meant(l).type \in Types \ {"none"}
  BY DEF Meant, ListType, Types, IsField
<1>4. << >> \in Texts
  BY Nothing DEF Texts
<1>5. Meant(l).unit \in Texts
  BY <1>1, <1>4 DEF Meant
<1>6. CASE l.kind = "string"
  <2>1. Len(l.values) = 1 /\ 1 \in 1 .. Len(l.values)
    BY <1>6 DEF WellFormedLine
  <2>2. Meant(l).elems = <<StripR(l.values[1])>>
    BY <1>6 DEF Meant
  <2>3. StripR(l.values[1]) \in Texts
    BY <1>1, <2>1, StripText
  <2>4. <<StripR(l.values[1])>> \in Seq(Texts) /\ Len(<<StripR(l.values[1])>>) = 1
    BY <2>3, One
  <2> QED BY <1>2, <1>3, <1>5, <2>2, <2>4
<1>7. CASE l.kind \in {"list", "char"}
  <2>1. Len(l.values) # 0
    <3>1. CASE l.kind = "list"
      <4>1. WellFormedList(l.values)
        BY <3>1 DEF WellFormedLine
      <4>2. PICK v, text, ends, L : L = Len(l.values) /\ ListLaid(l.values, v, text, ends, L)
        BY <1>1, <4>1, ListFacts
      <4> QED BY <4>2 DEF ListLaid
    <3>2. CASE l.kind = "char"
      BY <3>2 DEF WellFormedLine
    <3> QED BY <1>7, <3>1, <3>2
  <2>2. PICK legal : Meant(l).elems = [i \in DOMAIN l.values |-> IF legal[i] THEN l.values[i] ELSE Illegal]
    <3> DEFINE ok == [i \in DOMAIN l.values |-> Meant(l).type # "int" \/ IsNumber(l.values[i])]
    <3>1. Meant(l).elems =
            [i \in DOMAIN l.values |->
               IF Meant(l).type # "int" \/ IsNumber(l.values[i]) THEN l.values[i] ELSE Illegal]
      BY <1>7 DEF Meant
    <3>2. Meant(l).elems = [i \in DOMAIN l.values |-> IF ok[i] THEN l.values[i] ELSE Illegal]
      BY <3>1
    <3> HIDE DEF ok
    <3> QED BY <3>2
  <2>3. Meant(l).elems \in [1 .. Len(l.values) -> Texts]
    BY <1>1, <2>2, IllegalText
  <2>4. Meant(l).elems \in Seq(Texts) /\ Len(Meant(l).elems) = Len(l.values)
    BY <1>1, <2>3
  <2> QED BY <1>1, <1>2, <1>3, <1>5, <2>1, <2>4
<1> QED BY <1>6, <1>7 DEF IsField

LEMMA StringMeant ==
  ASSUME NEW l \in LineType, WellFormedLine(l), l.kind = "string"
  PROVE  /\ Result("string", <<StripR(l.values[1])>>, << >>, FALSE)
              = Result(Meant(l).type, Meant(l).elems, Meant(l).unit, Malformed(l))
<1>1. Meant(l).type = "string" /\ Meant(l).elems = <<StripR(l.values[1])>> /\ Meant(l).unit = << >>
  BY DEF Meant
<1>2. Malformed(l) = FALSE
  BY <1>1 DEF Malformed
<1> QED BY <1>1, <1>2

(***************************************************************************)
(* What the arrays hold after the first k lines of a header h: an info for *)
(* each field, of line place[n], and its elements after the first start[n  *)
(* - 1] values.                                                            *)
(***************************************************************************)
InfoType == [name : Texts, type : Types, unit : Texts, count : Nat]

InfoOf(m) == [name |-> m.name, type |-> m.type, unit |-> m.unit, count |-> Len(m.elems)]

FieldsTo(h, k) == {i \in 1 .. k : IsField(h[i])}

Holds(h, vs, is, place, start, n) ==
  /\ is[n] = InfoOf(Meant(h[place[n]]))
  /\ start[n] = start[n - 1] + Len(Meant(h[place[n]]).elems)
  /\ Stands(Meant(h[place[n]]).elems, vs, start[n - 1])

ReadTo(h, k, vs, is, place, start) ==
  /\ place \in [1 .. Len(is) -> FieldsTo(h, k)]
  /\ \A i \in FieldsTo(h, k) : \E n \in 1 .. Len(is) : place[n] = i
  /\ \A m, n \in 1 .. Len(is) : m < n => place[m] < place[n]
  /\ start \in [0 .. Len(is) -> Nat] /\ start[0] = 0 /\ start[Len(is)] = Len(vs)
  /\ \A n \in 1 .. Len(is) : Holds(h, vs, is, place, start, n)

\* A line that is no field adds nothing.
LEMMA ReadSame ==
  ASSUME NEW h, NEW k \in Nat \ {0}, NEW vs, NEW is, NEW place, NEW start,
         ReadTo(h, k - 1, vs, is, place, start), ~IsField(h[k])
  PROVE  ReadTo(h, k, vs, is, place, start)
<1>1. FieldsTo(h, k) = FieldsTo(h, k - 1)
  BY DEF FieldsTo
<1> QED BY <1>1 DEF ReadTo

\* Nothing is read at first.
LEMMA ReadNone ==
  ASSUME NEW h
  PROVE  \E place, start : ReadTo(h, 0, << >>, << >>, place, start)
<1>1. PICK z : z = Len(<< >>) /\ z = 0
  OBVIOUS
<1> DEFINE place == [n \in 1 .. 0 |-> 0]
           start == [n \in 0 .. 0 |-> 0]
<1>2. FieldsTo(h, 0) = {} /\ 1 .. 0 = {}
  BY DEF FieldsTo
<1>3. place \in [1 .. z -> FieldsTo(h, 0)]
  BY <1>1, <1>2
<1>4. start \in [0 .. z -> Nat] /\ start[0] = 0 /\ start[z] = z
  BY <1>1
<1> HIDE DEF place, start
<1>5. \A n \in 1 .. z : FALSE
  BY <1>1
<1>6. ReadTo(h, 0, << >>, << >>, place, start)
  BY <1>1, <1>2, <1>3, <1>4, <1>5 DEF ReadTo
<1> QED BY <1>6

\* The values of a field, behind those of the fields before it.
LEMMA StandsStill ==
  ASSUME NEW S, NEW t \in Seq(S), NEW vs \in Seq(S), NEW ws \in Seq(S), NEW p \in Nat,
         Stands(t, vs, p), Len(vs) <= Len(ws), \A j \in 1 .. Len(vs) : ws[j] = vs[j]
  PROVE  Stands(t, ws, p)
<1>1. Len(t) \in Nat /\ Len(vs) \in Nat /\ Len(ws) \in Nat
  OBVIOUS
<1>2. p + Len(t) <= Len(vs) /\ \A i \in 1 .. Len(t) : vs[p + i] = t[i]
  BY DEF Stands
<1>3. p + Len(t) <= Len(ws)
  BY <1>1, <1>2
<1>4. ASSUME NEW i \in 1 .. Len(t) PROVE ws[p + i] = t[i]
  <2>1. p + i \in 1 .. Len(vs)
    BY <1>1, <1>2
  <2> QED BY <1>2, <2>1
<1> QED BY <1>3, <1>4 DEF Stands

LEMMA ReadMore ==
  ASSUME NEW h \in Headers, NEW k \in 1 .. Len(h), IsField(h[k]),
         NEW vs \in Seq(Texts), NEW is \in Seq(InfoType), NEW place, NEW start,
         ReadTo(h, k - 1, vs, is, place, start),
         NEW ws \in Seq(Texts), Len(ws) = Len(vs) + Len(Meant(h[k]).elems),
         \A j \in 1 .. Len(vs) : ws[j] = vs[j],
         \A j \in 1 .. Len(Meant(h[k]).elems) : ws[Len(vs) + j] = Meant(h[k]).elems[j]
  PROVE  \E place2, start2 : ReadTo(h, k, ws, Append(is, InfoOf(Meant(h[k]))), place2, start2)
<1>1. Len(h) \in Nat /\ \A i \in 1 .. Len(h) : h[i] \in LineType /\ WellFormedLine(h[i])
  BY HeaderFacts
<1>2. PICK m : m = Meant(h[k])
  OBVIOUS
<1>3. m.elems \in Seq(Texts) /\ Len(m.elems) \in Nat \ {0} /\ InfoOf(m) \in InfoType
  <2>1. h[k] \in LineType /\ WellFormedLine(h[k])
    BY <1>1
  <2>2. /\ m.name \in Texts /\ m.type \in Types /\ m.unit \in Texts
        /\ m.elems \in Seq(Texts) /\ Len(m.elems) \in Nat \ {0}
    BY <1>2, <2>1, MeantFacts
  <2> QED BY <2>2 DEF InfoOf, InfoType
<1>4. PICK F \in Nat, V \in Nat, js \in Seq(InfoType) :
         /\ F = Len(is) /\ V = Len(vs) /\ js = Append(is, InfoOf(m)) /\ Len(js) = F + 1
         /\ js[F + 1] = InfoOf(m) /\ \A n \in 1 .. F : js[n] = is[n]
  <2>1. PICK e \in InfoType : e = InfoOf(m)
    BY <1>3
  <2>2. Len(is) \in Nat /\ Len(vs) \in Nat
    OBVIOUS
  <2>3. /\ Len(Append(is, e)) = Len(is) + 1 /\ Append(is, e)[Len(is) + 1] = e
        /\ \A n \in 1 .. Len(is) : Append(is, e)[n] = is[n]
    OBVIOUS
  <2>4. Append(is, e) \in Seq(InfoType)
    OBVIOUS
  <2> QED BY <2>1, <2>2, <2>3, <2>4
<1>5. /\ place \in [1 .. F -> FieldsTo(h, k - 1)]
      /\ \A i \in FieldsTo(h, k - 1) : \E n \in 1 .. F : place[n] = i
      /\ \A x, n \in 1 .. F : x < n => place[x] < place[n]
      /\ start \in [0 .. F -> Nat] /\ start[0] = 0 /\ start[F] = V
      /\ \A n \in 1 .. F : Holds(h, vs, is, place, start, n)
  BY <1>4 DEF ReadTo
<1>6. /\ FieldsTo(h, k) = FieldsTo(h, k - 1) \cup {k} /\ \A i \in FieldsTo(h, k - 1) : i < k
      /\ FieldsTo(h, k - 1) \subseteq 1 .. Len(h)
      /\ \A i \in FieldsTo(h, k - 1) : IsField(h[i])
  BY <1>1 DEF FieldsTo
<1> DEFINE place2 == [n \in 1 .. F + 1 |-> IF n = F + 1 THEN k ELSE place[n]]
           start2 == [n \in 0 .. F + 1 |-> IF n = F + 1 THEN V + Len(m.elems) ELSE start[n]]
<1>7. /\ place2[F + 1] = k /\ \A n \in 1 .. F : place2[n] = place[n]
      /\ start2[F + 1] = V + Len(m.elems) /\ \A n \in 0 .. F : start2[n] = start[n]
  OBVIOUS
<1>8. place2 \in [1 .. F + 1 -> FieldsTo(h, k)]
  BY <1>5, <1>6
<1>9. start2 \in [0 .. F + 1 -> Nat]
  BY <1>3, <1>5
<1> HIDE DEF place2, start2
<1>10. ASSUME NEW i \in FieldsTo(h, k) PROVE \E n \in 1 .. F + 1 : place2[n] = i
  <2>1. CASE i = k
    BY <1>7, <2>1
  <2>2. CASE i # k
    <3>1. PICK n \in 1 .. F : place[n] = i
      BY <1>5, <1>6, <2>2
    <3>2. n \in 1 .. F + 1 /\ place2[n] = place[n]
      BY <1>4, <1>7, <3>1
    <3> QED BY <3>1, <3>2
  <2> QED BY <2>1, <2>2
<1>11. ASSUME NEW x \in 1 .. F + 1, NEW n \in 1 .. F + 1, x < n PROVE place2[x] < place2[n]
  <2>4. x \in 1 .. F
    BY <1>4, <1>11
  <2>1. x \in 1 .. F /\ place2[x] = place[x] /\ place[x] \in FieldsTo(h, k - 1)
    <3>1. place2[x] = place[x]
      BY <1>7, <2>4
    <3>2. place[x] \in FieldsTo(h, k - 1)
      BY <1>5, <2>4
    <3> QED BY <2>4, <3>1, <3>2
  <2>2. CASE n = F + 1
    BY <1>6, <1>7, <2>1, <2>2
  <2>3. CASE n # F + 1
    <3>1. n \in 1 .. F
      BY <1>4, <2>3
    <3>2. place[x] < place[n]
      BY <1>5, <1>11, <2>4, <3>1
    <3>3. place2[n] = place[n]
      BY <1>7, <3>1
    <3> QED BY <2>1, <3>2, <3>3
  <2> QED BY <2>2, <2>3
<1>12. start2[0] = 0 /\ start2[F + 1] = Len(ws)
  BY <1>2, <1>4, <1>5, <1>7
<1>13. ASSUME NEW n \in 1 .. F + 1 PROVE Holds(h, ws, js, place2, start2, n)
  <2>1. CASE n = F + 1
    <3>1. n - 1 \in 0 .. F /\ n - 1 = F /\ start2[n - 1] = V
      BY <1>5, <1>7, <2>1
    <3>2. Stands(m.elems, ws, V)
      <4>1. V + Len(m.elems) <= Len(ws)
        BY <1>2, <1>3, <1>4
      <4>2. \A j \in 1 .. Len(m.elems) : ws[V + j] = m.elems[j]
        BY <1>2, <1>4
      <4> QED BY <4>1, <4>2 DEF Stands
    <3>3. Meant(h[place2[n]]) = m /\ js[n] = InfoOf(m)
      BY <1>2, <1>4, <1>7, <2>1
    <3>4. start2[n] = start2[n - 1] + Len(m.elems)
      BY <1>7, <2>1, <3>1
    <3> QED BY <3>1, <3>2, <3>3, <3>4 DEF Holds
  <2>2. CASE n # F + 1
    <3>1. n \in 1 .. F /\ n - 1 \in 0 .. F
      BY <2>2
    <3>2. Holds(h, vs, is, place, start, n)
      BY <1>5, <3>1
    <3>3. place2[n] = place[n] /\ start2[n] = start[n] /\ start2[n - 1] = start[n - 1] /\ js[n] = is[n]
      BY <1>4, <1>7, <3>1
    <3>4. PICK q : q = Meant(h[place[n]])
      OBVIOUS
    <3>5. place[n] \in FieldsTo(h, k - 1) /\ start[n - 1] \in Nat
      BY <1>5, <3>1
    <3>6. q.elems \in Seq(Texts)
      <4>1. h[place[n]] \in LineType /\ WellFormedLine(h[place[n]]) /\ IsField(h[place[n]])
        BY <1>1, <1>6, <3>5
      <4> QED BY <3>4, <4>1, MeantFacts
    <3>7. Stands(q.elems, vs, start[n - 1])
      BY <3>2, <3>4 DEF Holds
    <3>8. Len(vs) <= Len(ws)
      BY <1>2, <1>3, <1>4
    <3>9. Stands(q.elems, ws, start[n - 1])
      BY <3>5, <3>6, <3>7, <3>8, StandsStill
    <3> QED BY <3>2, <3>3, <3>4, <3>9 DEF Holds
  <2> QED BY <2>1, <2>2
<1>14. ReadTo(h, k, ws, js, place2, start2)
  BY <1>4, <1>8, <1>9, <1>10, <1>11, <1>12, <1>13 DEF ReadTo
<1> QED BY <1>2, <1>4, <1>14

(***************************************************************************)
(* States.                                                                 *)
(***************************************************************************)
Shape ==
  /\ lines \in Headers /\ source = Rendered(lines)
  /\ values \in Roomy(Texts) /\ infos \in Roomy(InfoType)
  /\ err \in BOOLEAN /\ starved \in BOOLEAN
  /\ pc \in {"lines", "made", "returned", "crash"}
  /\ \E k \in 0 .. Len(lines) : at = Ends(lines)[k]

\* Where the position is after k lines, the next line is the one after them.
NextIs(k) ==
  /\ k \in 1 .. Len(lines) /\ lines[k] \in LineType /\ WellFormedLine(lines[k])
  /\ NextLine = Found(Written(lines[k]), Ends(lines)[k])
  /\ NextLine.text = Written(lines[k]) /\ NextLine.pos = Ends(lines)[k]
  /\ Keyword = Key(Written(lines[k]))
  /\ NextLine.pos \in Nat /\ at < NextLine.pos

LEMMA NextLineIs ==
  ASSUME Shape, NEW k \in 0 .. Len(lines), at = Ends(lines)[k], NextLine.found
  PROVE  NextIs(k + 1)
<1>1. lines \in Headers /\ source = Rendered(lines)
  BY DEF Shape
<1>2. Len(lines) \in Nat /\ k \in Nat
  BY <1>1, HeaderFacts
<1>3. k # Len(lines)
  <2> SUFFICES ASSUME k = Len(lines) PROVE FALSE
    OBVIOUS
  <2>1. ~StrTok(Rendered(lines), {Newline}, Ends(lines)[Len(lines)]).found
    BY <1>1, NoLineLeft
  <2> QED BY <1>1, <2>1 DEF NextLine
<1>4. PICK j \in 1 .. Len(lines) : j = k + 1 /\ j - 1 = k
  BY <1>2, <1>3
<1>5. /\ StrTok(Rendered(lines), {Newline}, Ends(lines)[j - 1]) = Found(Written(lines[j]), Ends(lines)[j])
      /\ Ends(lines)[j - 1] < Ends(lines)[j] /\ Ends(lines)[j] \in Nat
  BY <1>1, LineAt
<1>6. NextLine = Found(Written(lines[j]), Ends(lines)[j])
  BY <1>1, <1>4, <1>5 DEF NextLine
<1>7. NextLine.text = Written(lines[j]) /\ NextLine.pos = Ends(lines)[j]
  BY <1>6 DEF Found
<1>8. lines[j] \in LineType /\ WellFormedLine(lines[j])
  BY <1>1, HeaderFacts
<1>9. Keyword = Key(Written(lines[j]))
  BY <1>7 DEF Keyword, Key
<1>10. NextIs(j)
  BY <1>4, <1>5, <1>6, <1>7, <1>8, <1>9 DEF NextIs
<1> QED BY <1>4, <1>10

LEMMA NextLineSome ==
  ASSUME Shape, Parsing
  PROVE  \E k \in 1 .. Len(lines) : NextIs(k)
<1>1. PICK k \in 0 .. Len(lines) : at = Ends(lines)[k]
  BY DEF Shape
<1>2. NextIs(k + 1)
  BY <1>1, NextLineIs DEF Parsing
<1> QED BY <1>2 DEF NextIs

LEMMA AllRead ==
  ASSUME Shape, NEW k \in 0 .. Len(lines), at = Ends(lines)[k], ~NextLine.found
  PROVE  k = Len(lines)
<1>1. lines \in Headers /\ source = Rendered(lines)
  BY DEF Shape
<1>2. Len(lines) \in Nat
  BY <1>1, HeaderFacts
<1> SUFFICES ASSUME k # Len(lines) PROVE FALSE
  OBVIOUS
<1>4. PICK j \in 1 .. Len(lines) : j = k + 1 /\ j - 1 = k
  BY <1>2
<1>5. StrTok(Rendered(lines), {Newline}, Ends(lines)[j - 1]) = Found(Written(lines[j]), Ends(lines)[j])
  BY <1>1, LineAt
<1>6. NextLine = Found(Written(lines[j]), Ends(lines)[j])
  BY <1>1, <1>4, <1>5 DEF NextLine
<1> QED BY <1>6 DEF Found

(***************************************************************************)
(* Which lines the steps of the loop meet.                                 *)
(***************************************************************************)
\* What is read of a field; what of a line that ends the process later on.
ReadOf(l) == Result(Meant(l).type, Meant(l).elems, Meant(l).unit, Malformed(l))

NoValue == {Result("uchar", <<<< >>>>, << >>, TRUE), Result("double", << >>, << >>, FALSE)}

LEMMA MeetsField ==
  ASSUME NEW k, NextIs(k), IsField(lines[k])
  PROVE  /\ ~IsBlank /\ ~NoKeyword
         /\ Keyword = Found(lines[k].name, Len(lines[k].name) + 1)
<1>1. PICK l : l = lines[k] /\ l \in LineType /\ WellFormedLine(l)
  BY DEF NextIs
<1>2. PICK n : FieldStart(l, Written(l), n)
  BY <1>1, KeywordRead
<1>3. Keyword = Found(l.name, n + 1) /\ NextLine.text = Written(l)
  BY <1>1, <1>2 DEF NextIs, FieldStart
<1>4. PICK L : L = Len(Written(l)) /\ L \in Nat /\ n \in Nat \ {0} /\ n + 1 <= L /\ n = Len(l.name)
  BY <1>2 DEF FieldStart
<1>5. Keyword.pos = n + 1
  BY <1>3 DEF Found
<1>6. n + 1 # 1 /\ n + 1 # L + 1
  BY <1>4
<1>7. ~NoKeyword
  BY <1>3, <1>4, <1>5, <1>6 DEF NoKeyword
<1>8. ~IsBlank
  BY <1>2, <1>3 DEF FieldStart, IsBlank
<1> QED BY <1>1, <1>3, <1>4, <1>7, <1>8

LEMMA MeetsString ==
  ASSUME NEW k, NextIs(k), lines[k].kind = "string"
  PROVE  /\ IsQuoted /\ QuotedToken.found
         /\ Result("string", <<StripR(QuotedToken.text)>>, << >>, FALSE) = ReadOf(lines[k])
<1>1. PICK l : l = lines[k] /\ l \in LineType /\ WellFormedLine(l) /\ NextLine.text = Written(l)
  BY DEF NextIs
<1>2. IsField(lines[k])
  BY DEF IsField
<1>3. PICK n \in Nat : n = Len(l.name)
  BY <1>1, LineFacts
<1>4. Keyword.pos = n + 1
  <2>1. Keyword = Found(l.name, n + 1)
    BY <1>1, <1>2, <1>3, MeetsField
  <2> QED BY <2>1 DEF Found
<1>5. /\ n + 1 < Len(Written(l)) /\ Written(l)[n + 2] = Quote
      /\ StrTok(Written(l), {Quote}, n + 2).found
      /\ StrTok(Written(l), {Quote}, n + 2).text = l.values[1]
  BY <1>1, <1>3, StringRead
<1>6. (n + 1) + 1 = n + 2
  OBVIOUS
<1>7. IsQuoted
  BY <1>1, <1>4, <1>5, <1>6 DEF IsQuoted
<1>8. QuotedToken.found /\ QuotedToken.text = l.values[1]
  BY <1>1, <1>4, <1>5, <1>6 DEF QuotedToken
<1>9. Result("string", <<StripR(l.values[1])>>, << >>, FALSE) = ReadOf(l)
  BY <1>1, StringMeant DEF ReadOf
<1> QED BY <1>1, <1>7, <1>8, <1>9

LEMMA MeetsPlain ==
  ASSUME NEW k, NextIs(k), lines[k].kind \in {"list", "char"}
  PROVE  ~IsQuoted /\ PlainValue(NextLine.text, Keyword.pos) = ReadOf(lines[k])
<1>1. PICK l : l = lines[k] /\ l \in LineType /\ WellFormedLine(l) /\ NextLine.text = Written(l)
  BY DEF NextIs
<1>2. IsField(lines[k])
  BY DEF IsField
<1>3. PICK n \in Nat : n = Len(l.name)
  BY <1>1, LineFacts
<1>4. Keyword.pos = n + 1
  <2>1. Keyword = Found(l.name, n + 1)
    BY <1>1, <1>2, <1>3, MeetsField
  <2> QED BY <2>1 DEF Found
<1>5. ~(n + 1 < Len(Written(l)) /\ Written(l)[n + 2] = Quote)
  BY <1>1, <1>3, ValueRead
<1>6. (n + 1) + 1 = n + 2
  OBVIOUS
<1>7. ~IsQuoted
  BY <1>1, <1>4, <1>5, <1>6 DEF IsQuoted
<1>8. PlainValue(Written(l), n + 1) = ReadOf(l)
  BY <1>1, <1>3, PlainRead DEF ReadOf
<1> QED BY <1>1, <1>4, <1>7, <1>8

LEMMA MeetsFatal ==
  ASSUME NEW k, NextIs(k), lines[k].kind = "fatal"
  PROVE  /\ ~IsBlank /\ ~NoKeyword
         /\ IsQuoted => ~QuotedToken.found
         /\ ~IsQuoted => /\ PlainValue(NextLine.text, Keyword.pos) \in NoValue
                         /\ \/ ~Keyword.found
                            \/ PlainValue(NextLine.text, Keyword.pos).texts = << >>
<1>1. PICK l : l = lines[k] /\ l \in LineType /\ WellFormedLine(l) /\ NextLine.text = Written(l)
  BY DEF NextIs
<1>2. Keyword = Key(Written(l))
  BY <1>1 DEF NextIs
<1>3. CASE l.name = << >>
  <2>1. Written(l) = << >>
    BY <1>1, <1>3 DEF Written
  <2>2. NextLine.text = << >> /\ Keyword.pos = 0 /\ ~Keyword.found
    BY <1>1, <1>2, <2>1, EmptyRead
  <2>3. PlainValue(NextLine.text, Keyword.pos) = Result("uchar", <<<< >>>>, << >>, TRUE)
    BY <2>2, EmptyRead
  <2>4. Len(<< >>) = 0
    OBVIOUS
  <2>5. ~IsBlank
    BY <2>2 DEF IsBlank
  <2>6. ~NoKeyword
    <3>1. 0 # 0 + 1
      OBVIOUS
    <3> QED BY <2>2, <2>4, <3>1 DEF NoKeyword
  <2>7. ~IsQuoted
    <3>1. ~(0 < 0)
      OBVIOUS
    <3> QED BY <2>2, <2>4, <3>1 DEF IsQuoted
  <2> QED BY <2>2, <2>3, <2>5, <2>6, <2>7 DEF NoValue
<1>4. CASE l.name # << >>
  <2> DEFINE w == Written(l)
  <2>1. PICK n \in Nat :
           /\ n > 2 /\ n = Len(w) /\ w # << >> /\ w[1] # Blank
           /\ Key(w).found /\ Key(w).pos = n - 1
           /\ IF w[n] = Quote THEN ~StrTok(w, {Quote}, n).found
              ELSE PlainValue(w, n - 1) = Result("double", << >>, << >>, FALSE)
    BY <1>1, <1>4, FatalRead
  <2> HIDE DEF w
  <2>2. NextLine.text = w /\ Keyword.pos = n - 1
    BY <1>1, <1>2, <2>1 DEF w
  <2>10. n \in Nat /\ n > 2
    BY <2>1
  <2>3. n - 1 # 1 /\ n - 1 # n + 1 /\ n - 1 < n /\ (n - 1) + 1 = n
    BY <2>10
  <2>4. ~IsBlank
    BY <2>1, <2>2 DEF IsBlank
  <2>5. ~NoKeyword
    BY <2>1, <2>2, <2>3 DEF NoKeyword
  <2>6. IsQuoted <=> w[n] = Quote
    BY <2>1, <2>2, <2>3 DEF IsQuoted
  <2>7. QuotedToken = StrTok(w, {Quote}, n)
    BY <2>2, <2>3 DEF QuotedToken
  <2>8. ASSUME ~IsQuoted
        PROVE  PlainValue(NextLine.text, Keyword.pos) = Result("double", << >>, << >>, FALSE)
    BY <2>1, <2>2, <2>6, <2>8
  <2>9. Result("double", << >>, << >>, FALSE).texts = << >>
    BY DEF Result
  <2> QED BY <2>1, <2>4, <2>5, <2>6, <2>7, <2>8, <2>9 DEF NoValue
<1> QED BY <1>3, <1>4

(***************************************************************************)
(* What is known after k lines.  A line that ends the process leaves an    *)
(* info that the record cannot be made with.                               *)
(***************************************************************************)
FatalIn(h, k) == \E i \in 1 .. k : h[i].kind = "fatal"

BadIn(h, k) == \E i \in 1 .. k : Malformed(h[i])

Useless(is) == \E i \in 1 .. Len(is) : is[i] = NoInfo \/ is[i].count = 0

Kept(h, k, vs, is) ==
  IF FatalIn(h, k) THEN Useless(is) ELSE \E place, start : ReadTo(h, k, vs, is, place, start)

LEMMA InNext ==
  ASSUME NEW h, NEW k \in Nat \ {0}
  PROVE  /\ FatalIn(h, k) <=> FatalIn(h, k - 1) \/ h[k].kind = "fatal"
         /\ BadIn(h, k) <=> BadIn(h, k - 1) \/ Malformed(h[k])
<1>1. 1 .. k = (1 .. (k - 1)) \cup {k}
  OBVIOUS
<1>2. FatalIn(h, k) <=> FatalIn(h, k - 1) \/ h[k].kind = "fatal"
  BY <1>1 DEF FatalIn
<1>3. BadIn(h, k) <=> BadIn(h, k - 1) \/ Malformed(h[k])
  BY <1>1 DEF BadIn
<1> QED BY <1>2, <1>3

LEMMA UselessMore ==
  ASSUME NEW is \in Seq(InfoType), NEW e \in InfoType,
         Useless(is) \/ e = NoInfo \/ e.count = 0
  PROVE  Useless(Append(is, e))
<1>1. PICK F \in Nat, js \in Seq(InfoType) :
                           /\ F = Len(is) /\ js = Append(is, e) /\ Len(js) = F + 1
                           /\ js[F + 1] = e /\ \A n \in 1 .. F : js[n] = is[n]
  <2>1. Len(is) \in Nat
    OBVIOUS
  <2>2. /\ Len(Append(is, e)) = Len(is) + 1 /\ Append(is, e)[Len(is) + 1] = e
        /\ \A n \in 1 .. Len(is) : Append(is, e)[n] = is[n]
    OBVIOUS
  <2>3. Append(is, e) \in Seq(InfoType)
    OBVIOUS
  <2> QED BY <2>1, <2>2, <2>3
<1>2. CASE Useless(is)
  <2>1. PICK i \in 1 .. F : is[i] = NoInfo \/ is[i].count = 0
    BY <1>1, <1>2 DEF Useless
  <2>2. i \in 1 .. F + 1 /\ js[i] = is[i]
    BY <1>1, <2>1
  <2>3. Useless(js)
    BY <1>1, <2>1, <2>2 DEF Useless
  <2> QED BY <1>1, <2>3
<1>3. CASE e = NoInfo \/ e.count = 0
  <2>1. F + 1 \in 1 .. F + 1
    BY <1>1
  <2>2. Useless(js)
    BY <1>1, <1>3, <2>1 DEF Useless
  <2> QED BY <1>1, <2>2
<1> QED BY <1>2, <1>3

LEMMA KeptSame ==
  ASSUME NEW h, NEW k \in Nat \ {0}, NEW vs, NEW is, Kept(h, k - 1, vs, is),
         ~IsField(h[k]), h[k].kind # "fatal"
  PROVE  Kept(h, k, vs, is)
<1>1. FatalIn(h, k) <=> FatalIn(h, k - 1)
  BY InNext
<1>2. CASE FatalIn(h, k)
  BY <1>1, <1>2 DEF Kept
<1>3. CASE ~FatalIn(h, k)
  <2>1. PICK place, start : ReadTo(h, k - 1, vs, is, place, start)
    BY <1>1, <1>3 DEF Kept
  <2>2. ReadTo(h, k, vs, is, place, start)
    BY <2>1, ReadSame
  <2> QED BY <1>3, <2>2 DEF Kept
<1> QED BY <1>2, <1>3

LEMMA KeptFatal ==
  ASSUME NEW h, NEW k \in Nat \ {0}, NEW ws, NEW is \in Seq(InfoType), NEW e \in InfoType,
         h[k].kind = "fatal", e = NoInfo \/ e.count = 0
  PROVE  Kept(h, k, ws, Append(is, e))
<1>1. FatalIn(h, k)
  BY InNext
<1>2. Useless(Append(is, e))
  BY UselessMore
<1> QED BY <1>1, <1>2 DEF Kept

LEMMA KeptMore ==
  ASSUME NEW h \in Headers, NEW k \in 1 .. Len(h), IsField(h[k]),
         NEW vs \in Seq(Texts), NEW is \in Seq(InfoType), Kept(h, k - 1, vs, is),
         NEW ws \in Seq(Texts), Len(ws) = Len(vs) + Len(Meant(h[k]).elems),
         \A j \in 1 .. Len(vs) : ws[j] = vs[j],
         \A j \in 1 .. Len(Meant(h[k]).elems) : ws[Len(vs) + j] = Meant(h[k]).elems[j]
  PROVE  Kept(h, k, ws, Append(is, InfoOf(Meant(h[k]))))
<1>1. k \in Nat \ {0} /\ h[k] \in LineType /\ WellFormedLine(h[k])
  BY HeaderFacts
<1>2. h[k].kind # "fatal"
  BY DEF IsField
<1>3. FatalIn(h, k) <=> FatalIn(h, k - 1)
  BY <1>1, <1>2, InNext
<1>4. PICK e \in InfoType : e = InfoOf(Meant(h[k]))
  <2>1. /\ Meant(h[k]).name \in Texts /\ Meant(h[k]).type \in Types /\ Meant(h[k]).unit \in Texts
        /\ Len(Meant(h[k]).elems) \in Nat
    BY <1>1, MeantFacts
  <2> QED BY <2>1 DEF InfoOf, InfoType
<1>5. CASE FatalIn(h, k)
  <2>1. Useless(is)
    BY <1>3, <1>5 DEF Kept
  <2>2. Useless(Append(is, e))
    BY <2>1, UselessMore
  <2> QED BY <1>4, <1>5, <2>2 DEF Kept
<1>6. CASE ~FatalIn(h, k)
  <2>1. PICK place, start : ReadTo(h, k - 1, vs, is, place, start)
    BY <1>3, <1>6 DEF Kept
  <2>2. \E place2, start2 : ReadTo(h, k, ws, Append(is, InfoOf(Meant(h[k]))), place2, start2)
    BY <2>1, ReadMore
  <2> QED BY <1>6, <2>2 DEF Kept
<1> QED BY <1>5, <1>6

\* Where a field is added and the arrays grew, they hold it.
LEMMA FieldAdded ==
  ASSUME Shape, NEW r, AddField(r), r.texts \in Seq(Texts), FieldInfo(r) \in InfoType
  PROVE  /\ values' \in Roomy(Texts) /\ infos' \in Roomy(InfoType) /\ starved' \in BOOLEAN
         /\ ~starved' =>
              /\ ~starved /\ infos'.elems = Append(infos.elems, FieldInfo(r))
              /\ Len(values'.elems) = Len(values.elems) + Len(r.texts)
              /\ \A j \in 1 .. Len(values.elems) : values'.elems[j] = values.elems[j]
              /\ \A j \in 1 .. Len(r.texts) : values'.elems[Len(values.elems) + j] = r.texts[j]
<1>1. values \in Roomy(Texts) /\ infos \in Roomy(InfoType) /\ starved \in BOOLEAN
  BY DEF Shape
<1>2. /\ values' \in AddElems(values, r.texts) /\ infos' \in AddElem(infos, FieldInfo(r))
      /\ starved' = (\/ starved
                     \/ Len(values'.elems) # Len(values.elems) + Len(r.texts)
                     \/ Len(infos'.elems) # Len(infos.elems) + 1)
  BY DEF AddField
<1>3. values' \in Roomy(Texts) /\ Grown(values, r.texts, Len(r.texts), values')
  BY <1>1, <1>2, AddMany
<1>4. /\ infos' \in Roomy(InfoType)
      /\ infos'.elems = infos.elems \/ infos'.elems = Append(infos.elems, FieldInfo(r))
  BY <1>1, <1>2, AddOne
<1>5. starved' \in BOOLEAN
  BY <1>2
<1>6. ASSUME ~starved'
      PROVE  /\ ~starved /\ infos'.elems = Append(infos.elems, FieldInfo(r))
             /\ Len(values'.elems) = Len(values.elems) + Len(r.texts)
  <2>1. /\ ~starved /\ Len(values'.elems) = Len(values.elems) + Len(r.texts)
        /\ Len(infos'.elems) = Len(infos.elems) + 1
    BY <1>2, <1>6
  <2>2. Len(infos.elems) \in Nat
    BY <1>1 DEF Roomy
  <2>3. infos'.elems # infos.elems
    BY <2>1, <2>2
  <2> QED BY <1>4, <2>1, <2>3
<1>7. ASSUME ~starved'
      PROVE  /\ \A j \in 1 .. Len(values.elems) : values'.elems[j] = values.elems[j]
             /\ \A j \in 1 .. Len(r.texts) : values'.elems[Len(values.elems) + j] = r.texts[j]
  BY <1>3, <1>6, <1>7 DEF Grown
<1> QED BY <1>3, <1>4, <1>5, <1>6, <1>7

\* The state after k lines.
Parsed(k) ==
  /\ k \in 0 .. Len(lines) /\ at = Ends(lines)[k]
  /\ FatalIn(lines, k) \/ (err <=> BadIn(lines, k))
  /\ starved \/ Kept(lines, k, values.elems, infos.elems)

LEMMA LineSkipped ==
  ASSUME Shape, NEW k, Parsed(k - 1), NextIs(k), ~IsField(lines[k]), lines[k].kind # "fatal",
         Goes, UNCHANGED <<lines, source, values, infos, pc, record, dsd, starved>>,
         err' = (err \/ Malformed(lines[k]))
  PROVE  Shape' /\ Parsed(k)'
<1>1. lines \in Headers
  BY DEF Shape
<1>2. Len(lines) \in Nat /\ k \in 1 .. Len(lines) /\ k \in Nat \ {0} /\ k \in 0 .. Len(lines)
  BY <1>1, HeaderFacts DEF NextIs
<1>3. at' = Ends(lines)[k]
  BY DEF Goes, NextIs
<1>4. Shape'
  <2>1. err' \in BOOLEAN
    OBVIOUS
  <2> QED BY <1>2, <1>3, <2>1 DEF Shape
<1>5. FatalIn(lines, k) \/ (err' <=> BadIn(lines, k))
  <2>1. FatalIn(lines, k - 1) \/ (err <=> BadIn(lines, k - 1))
    BY DEF Parsed
  <2> QED BY <1>2, <2>1, InNext
<1>6. starved \/ Kept(lines, k, values.elems, infos.elems)
  <2>1. starved \/ Kept(lines, k - 1, values.elems, infos.elems)
    BY DEF Parsed
  <2> QED BY <1>2, <2>1, KeptSame
<1>7. Parsed(k)'
  BY <1>2, <1>3, <1>5, <1>6 DEF Parsed
<1> QED BY <1>4, <1>7

LEMMA FieldRead ==
  ASSUME Shape, NEW k, Parsed(k - 1), NextIs(k), IsField(lines[k]), AddField(ReadOf(lines[k]))
  PROVE  Shape' /\ Parsed(k)'
<1>1. lines \in Headers
  BY DEF Shape
<1>2. Len(lines) \in Nat /\ k \in 1 .. Len(lines) /\ k \in Nat \ {0} /\ k \in 0 .. Len(lines)
  BY <1>1, HeaderFacts DEF NextIs
<1>3. at' = Ends(lines)[k]
  BY DEF Goes, NextIs, AddField
<1>4. PICK m : m = Meant(lines[k])
  OBVIOUS
<1>5. /\ m.name = lines[k].name /\ m.name \in Texts /\ m.type \in Types /\ m.unit \in Texts
      /\ m.elems \in Seq(Texts) /\ Len(m.elems) \in Nat \ {0}
  BY <1>1, <1>2, <1>4, HeaderFacts, MeantFacts
<1>6. PICK r : r = ReadOf(lines[k])
  OBVIOUS
<1>7. r.type = m.type /\ r.texts = m.elems /\ r.unit = m.unit /\ r.bad = Malformed(lines[k])
  BY <1>4, <1>6 DEF ReadOf, Result
<1>8. FieldInfo(r) = InfoOf(m)
  <2>1. Keyword.found /\ Keyword.text = m.name
    BY <1>5, MeetsField DEF Found
  <2> QED BY <1>7, <2>1 DEF FieldInfo, InfoOf
<1>9. InfoOf(m) \in InfoType
  BY <1>5 DEF InfoOf, InfoType
<1>10. AddField(r)
  BY <1>6
<1>11. /\ values' \in Roomy(Texts) /\ infos' \in Roomy(InfoType) /\ starved' \in BOOLEAN
       /\ ~starved' =>
            /\ ~starved /\ infos'.elems = Append(infos.elems, FieldInfo(r))
            /\ Len(values'.elems) = Len(values.elems) + Len(r.texts)
            /\ \A j \in 1 .. Len(values.elems) : values'.elems[j] = values.elems[j]
            /\ \A j \in 1 .. Len(r.texts) : values'.elems[Len(values.elems) + j] = r.texts[j]
  BY <1>5, <1>7, <1>8, <1>9, <1>10, FieldAdded
<1>12. /\ err' = (err \/ Malformed(lines[k])) /\ lines' = lines /\ source' = source /\ pc' = pc
  BY <1>7, <1>10 DEF AddField
<1>13. Shape'
  <2>1. err' \in BOOLEAN
    BY <1>12
  <2> QED BY <1>2, <1>3, <1>11, <1>12, <2>1 DEF Shape
<1>14. FatalIn(lines, k) \/ (err' <=> BadIn(lines, k))
  <2>1. FatalIn(lines, k - 1) \/ (err <=> BadIn(lines, k - 1))
    BY DEF Parsed
  <2> QED BY <1>2, <1>12, <2>1, InNext
<1>15. ASSUME ~starved' PROVE Kept(lines, k, values'.elems, infos'.elems)
  <2>1. Kept(lines, k - 1, values.elems, infos.elems)
    BY <1>11, <1>15 DEF Parsed
  <2>2. PICK vs \in Seq(Texts), is \in Seq(InfoType), ws \in Seq(Texts) :
           vs = values.elems /\ is = infos.elems /\ ws = values'.elems
    BY <1>11 DEF Shape, Roomy
  <2>3. /\ Len(ws) = Len(vs) + Len(Meant(lines[k]).elems)
        /\ \A j \in 1 .. Len(vs) : ws[j] = vs[j]
        /\ \A j \in 1 .. Len(Meant(lines[k]).elems) : ws[Len(vs) + j] = Meant(lines[k]).elems[j]
    BY <1>4, <1>7, <1>11, <1>15, <2>2
  <2>4. Kept(lines, k - 1, vs, is)
    BY <2>1, <2>2
  <2>5. Kept(lines, k, ws, Append(is, InfoOf(Meant(lines[k]))))
    BY <1>1, <1>2, <2>3, <2>4, KeptMore
  <2> QED BY <1>4, <1>8, <1>11, <1>15, <2>2, <2>5
<1>16. Parsed(k)'
  <2>1. starved' \/ Kept(lines, k, values'.elems, infos'.elems)
    BY <1>15
  <2> QED BY <1>2, <1>3, <1>12, <1>14, <2>1 DEF Parsed
<1> QED BY <1>13, <1>16

LEMMA NoValueRead ==
  ASSUME Shape, NEW k, Parsed(k - 1), NextIs(k), lines[k].kind = "fatal",
         NEW r \in NoValue, AddField(r), ~Keyword.found \/ r.texts = << >>
  PROVE  Shape' /\ Parsed(k)'
<1>1. lines \in Headers
  BY DEF Shape
<1>2. Len(lines) \in Nat /\ k \in 1 .. Len(lines) /\ k \in Nat \ {0} /\ k \in 0 .. Len(lines)
  BY <1>1, HeaderFacts DEF NextIs
<1>3. at' = Ends(lines)[k]
  BY DEF Goes, NextIs, AddField
<1>4. << >> \in Texts /\ <<<< >>>> \in Seq(Texts) /\ << >> \in Seq(Texts)
  BY DEF Texts
<1>5. /\ r.texts \in Seq(Texts) /\ r.type \in Types /\ r.unit = << >> /\ r.bad \in BOOLEAN
  <2>1. CASE r = Result("uchar", <<<< >>>>, << >>, TRUE)
    <3>1. r.texts = <<<< >>>> /\ r.type = "uchar" /\ r.unit = << >> /\ r.bad = TRUE
      BY <2>1 DEF Result
    <3> QED BY <1>4, <3>1 DEF Types
  <2>2. CASE r = Result("double", << >>, << >>, FALSE)
    <3>1. r.texts = << >> /\ r.type = "double" /\ r.unit = << >> /\ r.bad = FALSE
      BY <2>2 DEF Result
    <3> QED BY <1>4, <3>1 DEF Types
  <2> QED BY <2>1, <2>2 DEF NoValue
<1>6. Keyword.text \in Texts
  <2>1. PICK w \in Texts : w = Written(lines[k])
    BY WrittenText DEF NextIs
  <2>2. Keyword = Token(w, 0, Places(w, Seps))
    BY <2>1 DEF NextIs, Key, StrTok
  <2>3. Token(w, 0, Places(w, Seps)) \in TokenSet
    BY TokenGoesOn
  <2> QED BY <2>2, <2>3 DEF TokenSet
<1>7. FieldInfo(r) \in InfoType /\ (FieldInfo(r) = NoInfo \/ FieldInfo(r).count = 0)
  <2>1. Len(r.texts) \in Nat
    BY <1>5
  <2>2. NoInfo \in InfoType
    BY <1>4 DEF NoInfo, InfoType, Types
  <2>3. CASE ~Keyword.found
    BY <2>2, <2>3 DEF FieldInfo
  <2>4. CASE Keyword.found
    <3>1. r.texts = << >>
      BY <2>4
    <3>2. Len(r.texts) = 0
      BY <3>1
    <3>3. FieldInfo(r) = [name |-> Keyword.text, type |-> r.type, unit |-> r.unit, count |-> 0]
      BY <2>4, <3>2 DEF FieldInfo
    <3> QED BY <1>4, <1>5, <1>6, <3>3 DEF InfoType
  <2> QED BY <2>3, <2>4
<1>8. /\ values' \in Roomy(Texts) /\ infos' \in Roomy(InfoType) /\ starved' \in BOOLEAN
      /\ ~starved' => infos'.elems = Append(infos.elems, FieldInfo(r))
  BY <1>5, <1>7, FieldAdded
<1>9. /\ err' = (err \/ r.bad) /\ lines' = lines /\ source' = source /\ pc' = pc
  BY DEF AddField
<1>10. Shape'
  <2>1. err' \in BOOLEAN
    BY <1>9
  <2> QED BY <1>2, <1>3, <1>8, <1>9, <2>1 DEF Shape
<1>11. FatalIn(lines, k)
  BY <1>2, InNext
<1>12. ASSUME ~starved' PROVE Kept(lines, k, values'.elems, infos'.elems)
  <2>1. infos.elems \in Seq(InfoType)
    BY DEF Shape, Roomy
  <2>2. Kept(lines, k, values'.elems, Append(infos.elems, FieldInfo(r)))
    BY <1>2, <1>7, <2>1, KeptFatal
  <2> QED BY <1>8, <1>12, <2>2
<1>13. Parsed(k)'
  <2>1. starved' \/ Kept(lines, k, values'.elems, infos'.elems)
    BY <1>12
  <2> QED BY <1>2, <1>3, <1>9, <1>11, <2>1 DEF Parsed
<1> QED BY <1>10, <1>13

LEMMA LoopStep ==
  ASSUME Shape, NEW k, Parsed(k - 1), NextIs(k),
         SkipBlank \/ SkipNoKeyword \/ ReadString \/ ReadValue
  PROVE  \/ Shape' /\ Parsed(k)' /\ pc' = "lines" /\ UNCHANGED <<lines, source, record, dsd>> /\ Goes
         \/ Crash /\ k \in 1 .. Len(lines) /\ lines[k].kind = "fatal"
<1>1. lines[k].kind \in Kinds /\ lines[k] \in LineType /\ WellFormedLine(lines[k]) /\ k \in 1 .. Len(lines)
  BY DEF NextIs, LineType
<1>2. pc = "lines"
  BY DEF SkipBlank, SkipNoKeyword, ReadString, ReadValue, Parsing
<1>3. NextLine.text = Written(lines[k]) /\ Keyword = Key(Written(lines[k]))
  BY DEF NextIs
<1>4. err \in BOOLEAN
  BY DEF Shape
<1>5. CASE lines[k].kind = "blank"
  <2>1. IsBlank
    BY <1>1, <1>3, <1>5, BlankRead DEF IsBlank
  <2>2. SkipBlank
    BY <2>1 DEF SkipNoKeyword, ReadString, ReadValue
  <2>3. ~Malformed(lines[k]) /\ ~IsField(lines[k])
    BY <1>5 DEF Malformed, IsField
  <2>4. err' = (err \/ Malformed(lines[k]))
    BY <1>4, <2>2, <2>3 DEF SkipBlank
  <2>5. Goes /\ UNCHANGED <<lines, source, values, infos, pc, record, dsd, starved>>
    BY <2>2 DEF SkipBlank
  <2>6. Shape' /\ Parsed(k)'
    BY <1>5, <2>3, <2>4, <2>5, LineSkipped
  <2> QED BY <1>2, <2>5, <2>6
<1>6. CASE lines[k].kind = "odd"
  <2>1. ~IsBlank /\ NoKeyword
    BY <1>1, <1>3, <1>6, OddRead DEF IsBlank, NoKeyword
  <2>2. SkipNoKeyword
    BY <2>1 DEF SkipBlank, ReadString, ReadValue
  <2>3. Malformed(lines[k]) /\ ~IsField(lines[k])
    BY <1>6 DEF Malformed, IsField
  <2>4. err' = (err \/ Malformed(lines[k]))
    BY <1>4, <2>2, <2>3 DEF SkipNoKeyword
  <2>5. Goes /\ UNCHANGED <<lines, source, values, infos, pc, record, dsd, starved>>
    BY <2>2 DEF SkipNoKeyword
  <2>6. Shape' /\ Parsed(k)'
    BY <1>6, <2>3, <2>4, <2>5, LineSkipped
  <2> QED BY <1>2, <2>5, <2>6
<1>7. CASE lines[k].kind = "string"
  <2>1. IsField(lines[k])
    BY <1>7 DEF IsField
  <2>2. ~IsBlank /\ ~NoKeyword
    BY <2>1, MeetsField
  <2>3. /\ IsQuoted /\ QuotedToken.found
        /\ Result("string", <<StripR(QuotedToken.text)>>, << >>, FALSE) = ReadOf(lines[k])
    BY <1>7, MeetsString
  <2>4. ReadString
    BY <2>2, <2>3 DEF SkipBlank, SkipNoKeyword, ReadValue
  <2>5. AddField(ReadOf(lines[k]))
    BY <2>3, <2>4 DEF ReadString
  <2>6. Shape' /\ Parsed(k)'
    BY <2>1, <2>5, FieldRead
  <2> QED BY <1>2, <2>5, <2>6 DEF AddField
<1>8. CASE lines[k].kind \in {"list", "char"}
  <2>1. IsField(lines[k])
    BY <1>8 DEF IsField
  <2>2. ~IsBlank /\ ~NoKeyword
    BY <2>1, MeetsField
  <2>3. ~IsQuoted /\ PlainValue(NextLine.text, Keyword.pos) = ReadOf(lines[k])
    BY <1>8, MeetsPlain
  <2>4. ReadValue
    BY <2>2, <2>3 DEF SkipBlank, SkipNoKeyword, ReadString
  <2>5. AddField(ReadOf(lines[k]))
    BY <2>3, <2>4 DEF ReadValue
  <2>6. Shape' /\ Parsed(k)'
    BY <2>1, <2>5, FieldRead
  <2> QED BY <1>2, <2>5, <2>6 DEF AddField
<1>9. CASE lines[k].kind = "fatal"
  <2> DEFINE r == PlainValue(NextLine.text, Keyword.pos)
  <2>1. ~IsBlank /\ ~NoKeyword
    BY <1>9, MeetsFatal
  <2>2. CASE IsQuoted
    <3>1. ~QuotedToken.found
      BY <1>9, <2>2, MeetsFatal
    <3>2. ReadString
      BY <2>1, <2>2 DEF SkipBlank, SkipNoKeyword, ReadValue
    <3>3. Crash
      BY <3>1, <3>2 DEF ReadString
    <3> QED BY <1>1, <1>9, <3>3
  <2>3. CASE ~IsQuoted
    <3>1. r \in NoValue /\ (~Keyword.found \/ r.texts = << >>)
      BY <1>9, <2>3, MeetsFatal
    <3>2. ReadValue
      BY <2>1, <2>3 DEF SkipBlank, SkipNoKeyword, ReadString
    <3>3. AddField(r)
      BY <3>2 DEF ReadValue
    <3> HIDE DEF r
    <3>4. Shape' /\ Parsed(k)'
      BY <1>9, <3>1, <3>3, NoValueRead
    <3> QED BY <1>2, <3>3, <3>4 DEF AddField
  <2> QED BY <2>2, <2>3
<1> QED BY <1>1, <1>5, <1>6, <1>7, <1>8, <1>9 DEF Kinds

(***************************************************************************)
(* The record: the values dealt out to the infos.                          *)
(***************************************************************************)
LEMMA TakenStart ==
  ASSUME Shape, NEW h, NEW k, NEW place, NEW start,
         ReadTo(h, k, values.elems, infos.elems, place, start), h \in Headers, k \in 0 .. Len(h)
  PROVE  \A n \in 0 .. Len(infos.elems) : Taken[n] = start[n]
<1>1. PICK F \in Nat, is \in Seq(InfoType) : F = Len(is) /\ is = infos.elems
  BY DEF Shape, Roomy
<1>2. \A n \in 1 .. F : is[n].count \in Nat
  <2> TAKE n \in 1 .. F
  <2>1. is[n] \in InfoType
    BY <1>1
  <2> QED BY <2>1 DEF InfoType
<1>3. PICK counts : counts = [n \in 1 .. F |-> is[n].count]
  OBVIOUS
<1>4. Sums(counts, F, Taken)
  BY <1>1, <1>2, <1>3, TakenIs
<1>5. /\ Taken[0] = 0 /\ \A n \in 1 .. F : Taken[n] = Taken[n - 1] + counts[n]
  BY <1>1, <1>4, SMTT(30) DEF Sums
<1>6. /\ start[0] = 0
      /\ \A n \in 1 .. F : Holds(h, values.elems, is, place, start, n)
  BY <1>1 DEF ReadTo
<1>7. \A n \in 1 .. F : start[n] = start[n - 1] + counts[n]
  <2> TAKE n \in 1 .. F
  <2>1. is[n].count = Len(Meant(h[place[n]]).elems) /\ start[n] = start[n - 1] + Len(Meant(h[place[n]]).elems)
    <3>1. PICK m : m = Meant(h[place[n]])
      OBVIOUS
    <3>2. is[n] = InfoOf(m) /\ start[n] = start[n - 1] + Len(m.elems)
      BY <1>6, <3>1 DEF Holds
    <3>3. is[n].count = Len(m.elems)
      BY <3>2 DEF InfoOf
    <3> QED BY <3>1, <3>2, <3>3
  <2> QED BY <1>3, <2>1
<1> DEFINE S == {n \in Nat : n <= F => Taken[n] = start[n]}
<1>8. 0 \in S
  BY <1>5, <1>6
<1>9. ASSUME NEW n \in Nat, n \in S PROVE n + 1 \in S
  <2>1. CASE n + 1 <= F
    <3>1. n + 1 \in 1 .. F /\ (n + 1) - 1 = n /\ n <= F
      BY <1>1, <2>1
    <3>2. Taken[n + 1] = Taken[n] + counts[n + 1]
      BY <1>5, <3>1
    <3>3. start[n + 1] = start[n] + counts[n + 1]
      BY <1>7, <3>1
    <3>4. Taken[n] = start[n]
      BY <1>9, <3>1
    <3> QED BY <3>2, <3>3, <3>4
  <2>2. CASE ~(n + 1 <= F)
    BY <2>2
  <2> QED BY <2>1, <2>2
<1>10. Nat \subseteq S
  <2> HIDE DEF S
  <2> QED BY <1>8, <1>9, SetInduction
<1> QED BY <1>1, <1>10

\* Then every field gets the values of its own line.
LEMMA DealtOut ==
  ASSUME Shape, NEW place, NEW start,
         ReadTo(lines, Len(lines), values.elems, infos.elems, place, start)
  PROVE  /\ ~Unusable
         /\ \A n \in 1 .. Len(infos.elems) : /\ place[n] \in FieldLines
                                             /\ FieldAt(n) = Meant(lines[place[n]])
<1>1. PICK F \in Nat, is \in Seq(InfoType) : F = Len(is) /\ is = infos.elems
  BY DEF Shape, Roomy
<1>2. PICK vs \in Seq(Texts) : vs = values.elems
  BY DEF Shape, Roomy
<1>3. lines \in Headers /\ Len(lines) \in Nat /\ DOMAIN lines = 1 .. Len(lines)
  BY HeaderFacts DEF Shape
<1>4. \A n \in 0 .. F : Taken[n] = start[n]
  <2>1. Len(lines) \in 0 .. Len(lines)
    BY <1>3
  <2> QED BY <1>1, <1>3, <2>1, TakenStart
<1>5. /\ place \in [1 .. F -> FieldsTo(lines, Len(lines))]
      /\ start \in [0 .. F -> Nat] /\ start[0] = 0 /\ start[F] = Len(vs)
      /\ \A n \in 1 .. F : Holds(lines, vs, is, place, start, n)
  BY <1>1, <1>2 DEF ReadTo
<1>6. FieldLines = FieldsTo(lines, Len(lines))
  BY <1>3 DEF FieldLines, FieldsTo
<1>7. ASSUME NEW n \in 1 .. F
      PROVE  /\ Meant(lines[place[n]]).name \in Texts /\ Meant(lines[place[n]]).name # << >>
             /\ Meant(lines[place[n]]).elems \in Seq(Texts)
             /\ Len(Meant(lines[place[n]]).elems) \in Nat \ {0}
  <2>1. place[n] \in 1 .. Len(lines) /\ IsField(lines[place[n]])
    BY <1>5 DEF FieldsTo
  <2>2. lines[place[n]] \in LineType /\ WellFormedLine(lines[place[n]])
    BY <1>3, <2>1, HeaderFacts
  <2> QED BY <2>1, <2>2, MeantFacts
<1>8. ~Unusable
  <2>1. ASSUME NEW i \in DOMAIN infos.elems PROVE infos.elems[i] # NoInfo /\ infos.elems[i].count # 0
    <3>1. i \in 1 .. F
      BY <1>1
    <3>2. is[i] = InfoOf(Meant(lines[place[i]]))
      BY <1>5, <3>1 DEF Holds
    <3>3. is[i].name # << >> /\ is[i].count # 0
      BY <1>7, <3>1, <3>2 DEF InfoOf
    <3>4. NoInfo.name = << >>
      BY DEF NoInfo
    <3> QED BY <1>1, <3>3, <3>4
  <2>2. F \in 0 .. F /\ Taken[F] = Len(vs) /\ Len(vs) \in Nat
    BY <1>1, <1>2, <1>4, <1>5
  <2>3. ~(Taken[F] > Len(vs))
    BY <2>2
  <2> QED BY <1>1, <1>2, <2>1, <2>3 DEF Unusable
<1>9. ASSUME NEW n \in 1 .. F PROVE FieldAt(n) = Meant(lines[place[n]])
  <2>1. PICK m : m = Meant(lines[place[n]])
    OBVIOUS
  <2>2. is[n] = InfoOf(m) /\ Stands(m.elems, vs, start[n - 1])
    BY <1>5, <2>1 DEF Holds
  <2>3. PICK p \in Nat : p = start[n - 1] /\ p = Taken[n - 1]
    <3>1. n - 1 \in 0 .. F
      BY <1>1
    <3> QED BY <1>4, <1>5, <3>1
  <2>4. PICK c \in Nat : c = Len(m.elems) /\ m.elems \in Seq(Texts)
    BY <1>7, <2>1
  <2>5. SubSeq(vs, p + 1, p + c) = m.elems
    BY <2>2, <2>3, <2>4, SubSeqIs
  <2>6. FirstValue(n) = p + 1
    <3>1. FirstValue(n) = 1 + p
      BY <2>3 DEF FirstValue
    <3> QED BY <3>1
  <2>7. FirstValue(n) + c - 1 = p + c
    BY <2>6
  <2>8. is[n].name = m.name /\ is[n].type = m.type /\ is[n].unit = m.unit /\ is[n].count = c
    BY <2>2, <2>4 DEF InfoOf
  <2>9. FieldAt(n) = [name |-> m.name, type |-> m.type, unit |-> m.unit, elems |-> m.elems]
    BY <1>1, <1>2, <2>5, <2>6, <2>7, <2>8 DEF FieldAt
  <2>10. m = [name |-> m.name, type |-> m.type, unit |-> m.unit, elems |-> m.elems]
    <3>1. \A a, b, c2, d : LET x == [name |-> a, type |-> b, unit |-> c2, elems |-> d]
                          IN  x = [name |-> x.name, type |-> x.type, unit |-> x.unit, elems |-> x.elems]
      OBVIOUS
    <3> QED BY <2>1, <3>1 DEF Meant
  <2> QED BY <2>1, <2>9, <2>10
<1>10. \A n \in 1 .. F : place[n] \in FieldLines
  BY <1>5, <1>6
<1> QED BY <1>1, <1>8, <1>9, <1>10

(***************************************************************************)
(* The invariant, of which the properties are a part.                      *)
(***************************************************************************)
IInv ==
  /\ Shape
  /\ DOMAIN record \subseteq Nat
  /\ pc = "lines" => \E k : Parsed(k)
  /\ pc \in {"lines", "made"} => dsd = << >>
  /\ OwnValues /\ MalformedReported /\ CrashCauses

LEMMA InitIInv ==
  ASSUME Init
  PROVE  IInv
<1>1. /\ lines \in Headers /\ source = Rendered(lines) /\ at = 0
      /\ values = NewArray(Capacity) /\ infos = NewArray(Capacity)
      /\ err = FALSE /\ pc = "lines" /\ record = << >> /\ dsd = << >> /\ starved = FALSE
  BY DEF Init
<1>2. Len(lines) \in Nat /\ 0 \in 0 .. Len(lines)
  BY <1>1, HeaderFacts
<1>3. Ends(lines)[0] = 0
  BY <1>1, RenderedFacts
<1>4. values \in Roomy(Texts) /\ values.elems = << >>
  BY <1>1, NewRoomy
<1>5. infos \in Roomy(InfoType) /\ infos.elems = << >>
  BY <1>1, NewRoomy
<1>6. Shape
  BY <1>1, <1>2, <1>3, <1>4, <1>5 DEF Shape
<1>7. ~FatalIn(lines, 0) /\ ~BadIn(lines, 0)
  BY DEF FatalIn, BadIn
<1>8. Kept(lines, 0, values.elems, infos.elems)
  BY <1>4, <1>5, <1>7, ReadNone DEF Kept
<1>9. Parsed(0)
  BY <1>1, <1>2, <1>3, <1>7, <1>8 DEF Parsed
<1>10. DOMAIN record \subseteq Nat
  BY <1>1
<1>11. OwnValues /\ MalformedReported /\ CrashCauses
  BY <1>1 DEF OwnValues, MalformedReported, CrashCauses
<1> QED BY <1>1, <1>6, <1>9, <1>10, <1>11 DEF IInv

\* An action of the loop over the lines.
Loop == SkipBlank \/ SkipNoKeyword \/ ReadString \/ ReadValue

LEMMA LoopMeets ==
  ASSUME IInv, Loop
  PROVE  \E k : Parsed(k - 1) /\ NextIs(k)
<1>1. Shape /\ pc = "lines" /\ NextLine.found
  BY DEF IInv, Loop, SkipBlank, SkipNoKeyword, ReadString, ReadValue, Parsing
<1>2. PICK k : Parsed(k)
  BY <1>1 DEF IInv
<1>3. k \in 0 .. Len(lines) /\ at = Ends(lines)[k]
  BY <1>2 DEF Parsed
<1>4. NextIs(k + 1)
  BY <1>1, <1>3, NextLineIs
<1>5. (k + 1) - 1 = k
  BY <1>3
<1> QED BY <1>2, <1>4, <1>5

LEMMA LoopIInv ==
  ASSUME IInv, Loop
  PROVE  IInv'
<1>1. Shape /\ pc = "lines" /\ DOMAIN record \subseteq Nat /\ dsd = << >>
  BY DEF IInv, Loop, SkipBlank, SkipNoKeyword, ReadString, ReadValue, Parsing
<1>2. PICK k : Parsed(k - 1) /\ NextIs(k)
  BY LoopMeets
<1>3. \/ Shape' /\ Parsed(k)' /\ pc' = "lines" /\ UNCHANGED <<lines, source, record, dsd>>
      \/ Crash /\ k \in 1 .. Len(lines) /\ lines[k].kind = "fatal"
  BY <1>1, <1>2, LoopStep DEF Loop
<1>4. CASE Shape' /\ Parsed(k)' /\ pc' = "lines" /\ UNCHANGED <<lines, source, record, dsd>>
  <2>1. OwnValues' /\ MalformedReported' /\ CrashCauses'
    BY <1>4 DEF OwnValues, MalformedReported, CrashCauses
  <2>2. DOMAIN record' \subseteq Nat /\ dsd' = << >>
    BY <1>1, <1>4
  <2> QED BY <1>4, <2>1, <2>2 DEF IInv
<1>5. CASE Crash /\ k \in 1 .. Len(lines) /\ lines[k].kind = "fatal"
  <2>1. pc' = "crash" /\ UNCHANGED <<lines, source, at, values, infos, err, record, dsd, starved>>
    BY <1>5 DEF Crash
  <2>2. Shape'
    BY <1>1, <2>1 DEF Shape
  <2>3. k \in DOMAIN lines
    BY <1>1, <1>5, HeaderFacts DEF Shape
  <2>4. CrashCauses'
    BY <1>5, <2>1, <2>3 DEF CrashCauses
  <2>5. OwnValues' /\ MalformedReported'
    BY <2>1 DEF OwnValues, MalformedReported
  <2>6. DOMAIN record' \subseteq Nat
    BY <1>1, <2>1
  <2> QED BY <2>1, <2>2, <2>4, <2>5, <2>6 DEF IInv
<1> QED BY <1>3, <1>4, <1>5

LEMMA MakeRecordIInv ==
  ASSUME IInv, MakeRecord
  PROVE  IInv'
<1>1. Shape /\ pc = "lines" /\ DOMAIN record \subseteq Nat /\ dsd = << >> /\ ~NextLine.found
  BY DEF IInv, MakeRecord, EndOfText
<1>2. PICK k : Parsed(k)
  BY <1>1 DEF IInv
<1>3. k = Len(lines)
  BY <1>1, <1>2, AllRead DEF Parsed
<1>4. lines \in Headers /\ Len(lines) \in Nat /\ DOMAIN lines = 1 .. Len(lines)
  BY <1>1, HeaderFacts DEF Shape
<1>5. PICK F \in Nat, is \in Seq(InfoType) : F = Len(is) /\ is = infos.elems /\ DOMAIN infos.elems = 1 .. F
  BY <1>1 DEF Shape, Roomy
<1>6. FatalIn(lines, k) <=> \E i \in DOMAIN lines : lines[i].kind = "fatal"
  BY <1>3, <1>4 DEF FatalIn
<1>7. BadIn(lines, k) <=> \E i \in DOMAIN lines : Malformed(lines[i])
  BY <1>3, <1>4 DEF BadIn
<1>8. starved \/ Kept(lines, k, values.elems, infos.elems)
  BY <1>2 DEF Parsed
<1>9. CASE Unusable
  <2>1. pc' = "crash" /\ UNCHANGED <<lines, source, at, values, infos, err, record, dsd, starved>>
    BY <1>9 DEF MakeRecord, Crash
  <2>2. Shape'
    BY <1>1, <2>1 DEF Shape
  <2>3. starved \/ FatalIn(lines, k)
    <3> SUFFICES ASSUME ~starved, ~FatalIn(lines, k) PROVE FALSE
      OBVIOUS
    <3>1. PICK place, start : ReadTo(lines, Len(lines), values.elems, infos.elems, place, start)
      BY <1>3, <1>8 DEF Kept
    <3> QED BY <1>1, <1>9, <3>1, DealtOut
  <2>4. CrashCauses'
    BY <1>6, <2>1, <2>3 DEF CrashCauses
  <2>5. OwnValues' /\ MalformedReported'
    BY <2>1 DEF OwnValues, MalformedReported
  <2>6. DOMAIN record' \subseteq Nat
    BY <1>1, <2>1
  <2> QED BY <2>1, <2>2, <2>4, <2>5, <2>6 DEF IInv
<1>10. CASE ~Unusable
  <2>1. /\ pc' = "made" /\ record' = [n \in DOMAIN infos.elems |-> FieldAt(n)]
        /\ UNCHANGED <<lines, source, at, values, infos, err, dsd, starved>>
    BY <1>10 DEF MakeRecord
  <2>2. Shape'
    BY <1>1, <2>1 DEF Shape
  <2>3. DOMAIN record' = 1 .. F /\ \A n \in 1 .. F : record'[n] = FieldAt(n)
    BY <1>5, <2>1
  <2>4. ASSUME ~starved PROVE FieldsOf(record', FieldLines)
    <3>1. ~FatalIn(lines, k)
      <4> SUFFICES ASSUME FatalIn(lines, k) PROVE FALSE
        OBVIOUS
      <4>1. Useless(infos.elems)
        BY <1>8, <2>4 DEF Kept
      <4> QED BY <1>5, <1>10, <4>1 DEF Useless, Unusable
    <3>2. PICK place, start : ReadTo(lines, Len(lines), values.elems, infos.elems, place, start)
      BY <1>3, <1>8, <2>4, <3>1 DEF Kept
    <3>3. \A n \in 1 .. F : FieldAt(n) = Meant(lines[place[n]])
      BY <1>1, <1>5, <3>2, DealtOut
    <3>4. /\ place \in [1 .. F -> FieldsTo(lines, Len(lines))]
          /\ \A i \in FieldsTo(lines, Len(lines)) : \E n \in 1 .. F : place[n] = i
          /\ \A m, n \in 1 .. F : m < n => place[m] < place[n]
      BY <1>5, <3>2 DEF ReadTo
    <3>5. FieldLines = FieldsTo(lines, Len(lines))
      BY <1>4 DEF FieldLines, FieldsTo
    <3>6. \A n \in 1 .. F : record'[n] = Meant(lines[place[n]])
      BY <2>3, <3>3
    <3> QED BY <2>3, <3>4, <3>5, <3>6 DEF FieldsOf
  <2>5. OwnValues'
    <3>1. FieldLines' = FieldLines
      BY <2>1 DEF FieldLines
    <3>2. ASSUME ~starved PROVE FieldsOf(record, FieldLines)'
      <4>1. FieldsOf(record', FieldLines)
        BY <2>4, <3>2
      <4>2. lines' = lines
        BY <2>1
      <4> QED BY <3>1, <4>1, <4>2 DEF FieldsOf
    <3> QED BY <1>1, <2>1, <3>2 DEF OwnValues
  <2>6. MalformedReported'
    <3>1. FatalIn(lines, k) \/ (err <=> BadIn(lines, k))
      BY <1>2 DEF Parsed
    <3> QED BY <1>6, <1>7, <2>1, <3>1 DEF MalformedReported
  <2>7. CrashCauses'
    BY <2>1 DEF CrashCauses
  <2>8. DOMAIN record' \subseteq Nat /\ dsd' = << >>
    BY <1>1, <2>1, <2>3
  <2> QED BY <2>1, <2>2, <2>5, <2>6, <2>7, <2>8 DEF IInv
<1> QED BY <1>9, <1>10

LEMMA ReturnIInv ==
  ASSUME IInv, ReturnHeader
  PROVE  IInv'
<1>1. /\ pc = "made" /\ pc' = "returned" /\ dsd = << >>
      /\ UNCHANGED <<lines, source, at, values, infos, err, record, dsd, starved>>
  BY DEF IInv, ReturnHeader
<1>2. Shape' /\ DOMAIN record' \subseteq Nat
  BY <1>1 DEF IInv, Shape
<1>3. OwnValues'
  <2>1. FieldLines' = FieldLines
    BY <1>1 DEF FieldLines
  <2>2. ASSUME ~starved PROVE FieldsOf(record, FieldLines)'
    <3>1. FieldsOf(record, FieldLines)
      BY <1>1, <2>2 DEF IInv, OwnValues
    <3>2. lines' = lines /\ record' = record
      BY <1>1
    <3> QED BY <2>1, <3>1, <3>2 DEF FieldsOf
  <2> QED BY <1>1, <2>2 DEF OwnValues
<1>4. MalformedReported' /\ CrashCauses'
  BY <1>1 DEF MalformedReported, CrashCauses
<1> QED BY <1>1, <1>2, <1>3, <1>4 DEF IInv

LEMMA FirstChar ==
  ASSUME NEW S, NEW s \in Seq(Seq(S)), Len(s) # 0, s[1] # << >>
  PROVE  1 \in DOMAIN FlattenSeq(s) /\ FlattenSeq(s)[1] = s[1][1]
<1> DEFINE f == FlattenSeq(s)
<1>1. PICK ends : f \in Seq(S) /\ Laid(s, f, ends)
  BY FlattenFacts
<1> HIDE DEF f
<1>2. 1 \in 1 .. Len(s) /\ s[1] \in Seq(S) /\ 1 \in 1 .. Len(s[1])
  OBVIOUS
<1>3. ends[0] = 0 /\ Stands(s[1], f, 0)
  <2>1. Stands(s[1], f, ends[1 - 1]) /\ ends[0] = 0
    BY <1>1, <1>2 DEF Laid, IsEnds
  <2>2. ends[1 - 1] = ends[0]
    OBVIOUS
  <2> QED BY <2>1, <2>2
<1>4. f[1] = s[1][1] /\ 1 <= Len(f)
  BY <1>1, <1>2, <1>3 DEF Stands
<1> QED BY <1>1, <1>4 DEF f

\* What a member of a descriptor is, by the line of its field.
Member(l, cast) == IF Suits(l, cast) THEN FirstOf(l, cast) ELSE Misread

\* Reading the field of a line through a cast gives what the line allows: whether
\* it does is known from the type, which is known from the line.
LEMMA SeenOfLine ==
  ASSUME NEW l \in LineType, WellFormedLine(l), IsField(l), NEW cast \in Casts
  PROVE  Seen(Meant(l), cast) = Member(l, cast)
<1>1. PICK m : m = Meant(l)
  OBVIOUS
<1>2. CASE l.kind = "string"
  <2>1. m.type = "string"
    BY <1>1, <1>2 DEF Meant
  <2> QED BY <1>1, <1>2, <2>1 DEF Seen, Member, Suits, FirstOf, Casts
<1>3. CASE l.kind = "char"
  <2>1. m.type = "uchar"
    BY <1>1, <1>3 DEF Meant
  <2>2. m.elems[1] = l.values[1]
    <3>1. Len(l.values) = 1 /\ DOMAIN l.values = 1 .. Len(l.values)
      BY <1>3, LineFacts DEF WellFormedLine
    <3> QED BY <1>1, <1>3, <3>1 DEF Meant
  <2> QED BY <1>1, <1>3, <2>1, <2>2 DEF Seen, Member, Suits, FirstOf, Casts
<1>4. CASE l.kind = "list"
  <2>1. m.type = ListType(l.values)
    BY <1>1, <1>4 DEF Meant
  <2>2. CASE ListType(l.values) = "double"
    BY <1>1, <1>4, <2>1, <2>2 DEF Seen, Member, Suits, FirstOf, Casts
  <2>3. CASE ListType(l.values) = "int"
    BY <1>1, <1>4, <2>1, <2>3 DEF Seen, Member, Suits, FirstOf, Casts
  <2>4. CASE ListType(l.values) = "uint"
    <3> DEFINE s == l.values
    <3>1. s \in Seq(Seq(Chars)) /\ DOMAIN s = 1 .. Len(s) /\ Len(s) \in Nat
      BY LineFacts DEF Texts
    <3>2. Len(s) # 0
      <4>1. Len(Meant(l).elems) # 0
        BY MeantFacts
      <4>2. Meant(l).elems = [i \in DOMAIN s |-> Meant(l).elems[i]]
        BY <1>4 DEF Meant
      <4> QED BY <3>1, <4>1, <4>2
    <3>3. m.elems[1] = s[1]
      BY <1>1, <1>4, <2>4, <3>1, <3>2 DEF Meant
    <3>4. s[1] # << >>
      BY <1>4, <3>1, <3>2 DEF WellFormedLine, WellFormedList
    <3>5. ~HasChar(FlattenSeq(s), {"-"})
      BY <2>4 DEF ListType
    <3>6. s[1][1] # "-"
      BY <3>1, <3>2, <3>4, <3>5, FirstChar DEF HasChar
    <3>7. ~Negative(m.elems[1])
      BY <3>3, <3>6 DEF Negative
    <3> QED BY <1>1, <1>4, <2>1, <2>4, <3>7 DEF Seen, Member, Suits, FirstOf, Casts
  <2> QED BY <2>2, <2>3, <2>4 DEF ListType
<1> QED BY <1>2, <1>3, <1>4 DEF IsField

LEMMA DescriptorIInv ==
  ASSUME IInv, TakeDescriptor
  PROVE  IInv'
<1>1. /\ pc = "made" /\ dsd = << >>
      /\ UNCHANGED <<lines, source, at, values, infos, record, starved>>
  BY DEF IInv, TakeDescriptor, Crash
<1>2. ASSUME ~starved PROVE FieldsOf(record, FieldLines)
  BY <1>1, <1>2 DEF IInv, OwnValues
<1>3. lines \in Headers /\ FieldLines \subseteq Nat /\ DOMAIN record \subseteq Nat
  <2>1. lines \in Headers /\ DOMAIN record \subseteq Nat
    BY DEF IInv, Shape
  <2>2. DOMAIN lines = 1 .. Len(lines)
    BY <2>1, HeaderFacts
  <2> QED BY <2>1, <2>2 DEF FieldLines
<1>4. \A i \in FieldLines : Meant(lines[i]).name = lines[i].name
  <2> TAKE i \in FieldLines
  <2>1. i \in 1 .. Len(lines) /\ IsField(lines[i])
    BY <1>3, HeaderFacts DEF FieldLines
  <2> QED BY <1>3, <2>1, HeaderFacts, MeantFacts
<1>5. CASE \E k \in DOMAIN Members : FieldsNamed(k) = {}
  <2>1. pc' = "crash" /\ err' = err /\ dsd' = dsd
    BY <1>5 DEF TakeDescriptor, Crash
  <2>2. Shape'
    BY <1>1, <2>1 DEF IInv, Shape
  <2>3. CrashCauses'
    <3>1. PICK k \in DOMAIN Members : FieldsNamed(k) = {}
      BY <1>5
    <3>2. ASSUME ~starved, NEW i \in FieldLines PROVE lines[i].name # k
      <4>1. PICK place \in [DOMAIN record -> FieldLines] :
               /\ \A x \in FieldLines : \E n \in DOMAIN record : place[n] = x
               /\ \A n \in DOMAIN record : record[n] = Meant(lines[place[n]])
        BY <1>2, <3>2 DEF FieldsOf
      <4>2. PICK n \in DOMAIN record : place[n] = i
        BY <3>2, <4>1
      <4>3. record[n].name = lines[i].name
        BY <1>4, <3>2, <4>1, <4>2
      <4> QED BY <3>1, <4>3 DEF FieldsNamed
    <3>3. FieldLines' = FieldLines
      BY <1>1 DEF FieldLines
    <3> QED BY <1>1, <3>2, <3>3 DEF CrashCauses
  <2>4. OwnValues' /\ MalformedReported'
    BY <2>1 DEF OwnValues, MalformedReported
  <2>5. DOMAIN record' \subseteq Nat
    BY <1>1, <1>3
  <2> QED BY <2>1, <2>2, <2>3, <2>4, <2>5 DEF IInv
<1>6. CASE ~\E k \in DOMAIN Members : FieldsNamed(k) = {}
  <2>1. /\ pc' = "returned" /\ err' = FALSE
        /\ dsd' = [k \in DOMAIN Members |-> Seen(record[Min(FieldsNamed(k))], Members[k])]
    BY <1>6 DEF TakeDescriptor
  <2>2. Shape'
    BY <1>1, <2>1 DEF IInv, Shape
  <2>3. FieldLines' = FieldLines
    BY <1>1 DEF FieldLines
  <2>4. ASSUME ~starved PROVE FieldsOf(record, FieldLines)'
    <3>1. FieldsOf(record, FieldLines)
      BY <1>2, <2>4
    <3>2. lines' = lines /\ record' = record
      BY <1>1
    <3> QED BY <2>3, <3>1, <3>2 DEF FieldsOf
  <2>5. ASSUME ~starved, NEW k \in DOMAIN Members
        PROVE  \E i \in FieldLines :
                 /\ lines[i].name = k
                 /\ \A j \in FieldLines : j < i => lines[j].name # k
                 /\ dsd'[k] = Member(lines[i], Members[k])
    <3>1. PICK place \in [DOMAIN record -> FieldLines] :
             /\ \A x \in FieldLines : \E n \in DOMAIN record : place[n] = x
             /\ \A m, n \in DOMAIN record : m < n => place[m] < place[n]
             /\ \A n \in DOMAIN record : record[n] = Meant(lines[place[n]])
      BY <1>2, <2>5 DEF FieldsOf
    <3>2. FieldsNamed(k) \in SUBSET Nat /\ FieldsNamed(k) # {}
      BY <1>3, <1>6, <2>5 DEF FieldsNamed
    <3>3. PICK n : n = Min(FieldsNamed(k))
      OBVIOUS
    <3>4. n \in FieldsNamed(k) /\ \A y \in FieldsNamed(k) : n <= y
      BY <3>2, <3>3, Least
    <3>5. n \in DOMAIN record /\ record[n].name = k
      BY <3>4 DEF FieldsNamed
    <3>6. place[n] \in FieldLines /\ lines[place[n]].name = k
      BY <1>4, <3>1, <3>5
    <3>7. dsd'[k] = Member(lines[place[n]], Members[k])
      <4>1. dsd'[k] = Seen(Meant(lines[place[n]]), Members[k])
        BY <2>1, <2>5, <3>1, <3>3, <3>5
      <4>2. place[n] \in 1 .. Len(lines) /\ IsField(lines[place[n]])
        BY <1>3, <3>6, HeaderFacts DEF FieldLines
      <4>3. lines[place[n]] \in LineType /\ WellFormedLine(lines[place[n]])
        BY <1>3, <4>2, HeaderFacts
      <4>4. Members[k] \in Casts
        BY <2>5, MembersAssumption
      <4> QED BY <4>1, <4>2, <4>3, <4>4, SeenOfLine
    <3>8. ASSUME NEW j \in FieldLines, j < place[n] PROVE lines[j].name # k
      <4> SUFFICES ASSUME lines[j].name = k PROVE FALSE
        OBVIOUS
      <4>1. PICK m \in DOMAIN record : place[m] = j
        BY <3>1, <3>8
      <4>2. record[m].name = k
        BY <1>4, <3>1, <3>8, <4>1
      <4>3. m \in FieldsNamed(k)
        BY <4>2 DEF FieldsNamed
      <4>4. n <= m /\ n \in Nat /\ m \in Nat
        BY <1>3, <3>4, <3>5, <4>3
      <4>5. n = m \/ place[n] < place[m]
        BY <3>1, <3>5, <4>4
      <4>6. j \in Nat /\ place[n] \in Nat
        BY <1>3, <3>6, <3>8
      <4> QED BY <3>8, <4>1, <4>5, <4>6
    <3> QED BY <3>6, <3>7, <3>8
  <2>6. OwnValues'
    <3>1. ASSUME ~starved, NEW k \in DOMAIN Members
          PROVE  \E i \in FieldLines' :
                   /\ lines'[i].name = k
                   /\ \A j \in FieldLines' : j < i => lines'[j].name # k
                   /\ dsd'[k] = Member(lines'[i], Members[k])
      BY <1>1, <2>3, <2>5, <3>1
    <3> QED BY <1>1, <2>4, <3>1 DEF OwnValues, Member
  <2>7. MalformedReported' /\ CrashCauses'
    BY <2>1 DEF MalformedReported, CrashCauses
  <2>8. DOMAIN record' \subseteq Nat
    BY <1>1, <1>3
  <2> QED BY <2>1, <2>2, <2>6, <2>7, <2>8 DEF IInv
<1> QED BY <1>5, <1>6

LEMMA SameIInv ==
  ASSUME IInv, UNCHANGED vars
  PROVE  IInv'
<1>1. UNCHANGED <<lines, source, at, values, infos, err, pc, record, dsd, starved>>
  BY DEF vars
<1>2. Shape' /\ DOMAIN record' \subseteq Nat
  BY <1>1 DEF IInv, Shape
<1>3. ASSUME pc' = "lines" PROVE \E k : Parsed(k)'
  <2>1. PICK k : Parsed(k)
    BY <1>1, <1>3 DEF IInv
  <2>2. Parsed(k)'
    BY <1>1, <2>1 DEF Parsed
  <2> QED BY <2>2
<1>4. OwnValues'
  BY <1>1 DEF IInv, OwnValues, FieldsOf, FieldLines
<1>5. MalformedReported' /\ CrashCauses'
  BY <1>1 DEF IInv, MalformedReported, CrashCauses, FieldLines
<1>6. pc' \in {"lines", "made"} => dsd' = << >>
  BY <1>1 DEF IInv
<1> QED BY <1>2, <1>3, <1>4, <1>5, <1>6 DEF IInv

LEMMA Inductive == Spec => []IInv
<1>1. ASSUME IInv, [Next]_vars PROVE IInv'
  <2>1. CASE Loop
    BY <1>1, <2>1, LoopIInv
  <2>2. CASE MakeRecord
    BY <1>1, <2>2, MakeRecordIInv
  <2>3. CASE ReturnHeader
    BY <1>1, <2>3, ReturnIInv
  <2>4. CASE TakeDescriptor
    BY <1>1, <2>4, DescriptorIInv
  <2>5. CASE UNCHANGED vars
    BY <1>1, <2>5, SameIInv
  <2>6. CASE Ended
    BY <1>1, <2>6, SameIInv DEF Ended
  <2> QED BY <1>1, <2>1, <2>2, <2>3, <2>4, <2>5, <2>6 DEF Next, Loop
<1> QED BY <1>1, InitIInv, PTL DEF Spec

(***************************************************************************)
(* The theorems.                                                           *)
(***************************************************************************)
LEMMA ShapeType ==
  ASSUME Shape
  PROVE  TypeOK
<1>1. /\ lines \in Headers /\ source = Rendered(lines)
      /\ values \in Roomy(Texts) /\ infos \in Roomy(InfoType)
      /\ err \in BOOLEAN /\ starved \in BOOLEAN
      /\ pc \in {"lines", "made", "returned", "crash"}
  BY DEF Shape
<1>2. at \in 0 .. Len(source) + 1
  <2>1. PICK k \in 0 .. Len(lines) : at = Ends(lines)[k]
    BY DEF Shape
  <2>2. Rendered(lines) \in Texts /\ Ends(lines)[0] = 0 /\ Len(lines) \in Nat
    BY <1>1, RenderedFacts, HeaderFacts
  <2>3. Len(source) \in Nat
    BY <1>1, <2>2 DEF Texts
  <2>4. CASE k = 0
    BY <2>1, <2>2, <2>3, <2>4
  <2>5. CASE k # 0
    <3>1. k \in 1 .. Len(lines)
      BY <2>2, <2>5
    <3>2. at \in Nat /\ at <= Len(source)
      BY <1>1, <2>1, <3>1, LineAt
    <3> QED BY <2>3, <3>2
  <2> QED BY <2>4, <2>5
<1>3. Sized(values) /\ Sized(infos)
  BY <1>1 DEF Roomy
<1>4. \A i \in DOMAIN values.elems : IsText(values.elems[i])
  <2>1. values.elems \in Seq(Texts)
    BY <1>1 DEF Roomy
  <2>2. ASSUME NEW t \in Texts PROVE IsText(t)
    BY DEF Texts, IsText
  <2>3. \A i \in DOMAIN values.elems : values.elems[i] \in Texts
    BY <2>1
  <2> QED BY <2>2, <2>3
<1>5. \A i \in DOMAIN infos.elems :
        infos.elems[i].type \in {"string", "uchar", "int", "uint", "double", "none"}
  <2>1. infos.elems \in Seq(InfoType)
    BY <1>1 DEF Roomy
  <2>2. \A i \in DOMAIN infos.elems : infos.elems[i] \in InfoType
    BY <2>1
  <2> QED BY <2>2 DEF InfoType, Types
<1>6. {err, starved} \subseteq BOOLEAN
  BY <1>1, ZenonT(20)
<1> QED BY <1>1, <1>2, <1>3, <1>4, <1>5, <1>6 DEF TypeOK

\* Whatever the lines of a header are, the two arrays are never longer than they
\* have room for, the position stays in the text, and types are those of fields.
THEOREM TypeCorrect == Spec => []TypeOK
<1>1. IInv => TypeOK
  BY ShapeType DEF IInv
<1> QED BY <1>1, Inductive, PTL

\* epr_parse_header and epr_set_header_field_values: the fields of the record
\* are those of the header, in order, each with the values of its own line; a
\* member of a descriptor is read from the first line of its keyword, and is the
\* value of that line if, and only if, the line is of a form that suits the cast.
THEOREM ValuesAreOwn == Spec => []OwnValues
<1>1. IInv => OwnValues
  BY DEF IInv
<1> QED BY <1>1, Inductive, PTL

\* The error code is set after the loop if, and only if, there was a line
\* without a keyword, a value or a number.
THEOREM MalformedAreReported == Spec => []MalformedReported
<1>1. IInv => MalformedReported
  BY DEF IInv
<1> QED BY <1>1, Inductive, PTL

\* No header ends the process but one with a line of the three kinds named, or
\* where memory ran out, or a descriptor without one of its keywords.
THEOREM CrashesHaveCauses == Spec => []CrashCauses
<1>1. IInv => CrashCauses
  BY DEF IInv
<1> QED BY <1>1, Inductive, PTL

\* Every step of the loop of epr_parse_header gets on in the text.
THEOREM GetsOn == Spec => Forward
<1>1. ASSUME IInv, [Next]_vars PROVE [pc' = "lines" => at' > at]_vars
  <2>1. CASE Loop
    <3>1. PICK k : Parsed(k - 1) /\ NextIs(k)
      BY <1>1, <2>1, LoopMeets
    <3>2. Goes \/ Crash
      BY <1>1, <2>1, <3>1, LoopStep DEF IInv, Loop
    <3>3. at \in Nat /\ NextLine.pos \in Nat /\ at < NextLine.pos
      <4>1. at \in 0 .. Len(source) + 1
        BY <1>1, ShapeType DEF IInv, TypeOK
      <4> QED BY <3>1, <4>1 DEF NextIs
    <3> QED BY <3>2, <3>3 DEF Goes, Crash
  <2>2. CASE ~Loop
    <3>1. pc' # "lines" \/ UNCHANGED vars
      BY <1>1, <2>2 DEF Next, Loop, MakeRecord, Crash, ReturnHeader, TakeDescriptor, Ended
    <3> QED BY <3>1
  <2> QED BY <2>1, <2>2
<1> QED BY <1>1, Inductive, PTL DEF Spec, Forward

=============================================================================
