------------------------- MODULE EprBitmask_proofs -------------------------
(***************************************************************************)
(* Proofs about the two modules of epr_bitmask.c, for any expressions,     *)
(* terms, bands, flag codings and pixels. EprBmParser: a bitmask has the   *)
(* meaning that the documented grammar gives its expression, and what is   *)
(* written of a term is read again. EprBitmask: a mask that was computed   *)
(* without an unresolved reference is the truth of the expression,         *)
(* conjunctions report their errors, and no band is read twice. At the     *)
(* end, both together.                                                     *)
(***************************************************************************)
EXTENDS EprBitmask, EprBmParser, WellFoundedInduction, TLAPS

-----------------------------------------------------------------------------
(***************************************************************************)
(* Recursion over the numbers, and the nodes that the functions of the     *)
(* descent make: the nodes only grow, arguments before what they are       *)
(* arguments of, so that what is returned has its type and Descent is      *)
(* what its definition says.                                               *)
(***************************************************************************)

\* Induction, with a set for the property.
LEMMA SetInduction ==
  ASSUME NEW S, 0 \in S, \A n \in Nat : n \in S => n + 1 \in S
  PROVE  Nat \subseteq S
<1> SUFFICES ASSUME Nat \ S # {} PROVE FALSE
  OBVIOUS
<1> DEFINE R == {ss \in Nat \X Nat : ss[1] < ss[2]}
<1>1. PICK x \in Nat \ S : \A y \in Nat \ S : x <= y
  <2>1. IsWellFoundedOn(R, Nat)
    BY NatLessThanWellFounded DEF OpToRel
  <2>2. PICK x \in Nat \ S : \A y \in Nat \ S : <<y, x>> \notin R
    <3> HIDE DEF R
    <3> QED BY <2>1, WFMin
  <2>3. ASSUME NEW y \in Nat \ S PROVE x <= y
    <3>1. y < x => <<y, x>> \in R
      OBVIOUS
    <3>2. ~(y < x)
      BY <2>2, <3>1
    <3> QED BY <3>2
  <2> QED BY <2>3
<1>2. x # 0 /\ x - 1 \in Nat /\ (x - 1) + 1 = x /\ ~(x <= x - 1)
  BY <1>1
<1> QED BY <1>1, <1>2

\* A function that is defined by recursion over the numbers exists.
Iterated(f, base, G) == f[0] = base /\ \A n \in Nat : f[n + 1] = G[n][f[n]]

LEMMA Iteration ==
  ASSUME NEW V, NEW base \in V, NEW G \in [Nat -> [V -> V]]
  PROVE  \E f \in [Nat -> V] : Iterated(f, base, G)
<1> DEFINE Upto(g, m) == g[0] = base /\ \A n \in 0 .. m - 1 : g[n + 1] = G[n][g[n]]
           S == {m \in Nat : \E g \in [0 .. m -> V] : Upto(g, m)}
<1>1. Nat \subseteq S
  <2>1. 0 \in S
    <3>1. [n \in 0 .. 0 |-> base] \in [0 .. 0 -> V] /\ Upto([n \in 0 .. 0 |-> base], 0)
      OBVIOUS
    <3> QED BY <3>1
  <2>2. ASSUME NEW m \in Nat, m \in S PROVE m + 1 \in S
    <3>1. PICK g \in [0 .. m -> V] : Upto(g, m)
      BY <2>2
    <3> DEFINE h == [n \in 0 .. m + 1 |-> IF n = m + 1 THEN G[m][g[m]] ELSE g[n]]
    <3>2. G[m] \in [V -> V] /\ g[m] \in V
      OBVIOUS
    <3>3. h \in [0 .. m + 1 -> V]
      BY <3>2
    <3>4. Upto(h, m + 1)
      <4>1. h[0] = base
        BY <3>1
      <4>2. ASSUME NEW n \in 0 .. m PROVE h[n + 1] = G[n][h[n]]
        <5>1. CASE n = m
          BY <5>1
        <5>2. CASE n # m
          BY <3>1, <5>2
        <5> QED BY <5>1, <5>2
      <4> HIDE DEF h
      <4> QED BY <4>1, <4>2
    <3> HIDE DEF h
    <3> QED BY <3>3, <3>4
  <2> HIDE DEF S
  <2> QED BY <2>1, <2>2, SetInduction
<1> DEFINE g(m) == CHOOSE g \in [0 .. m -> V] : Upto(g, m)
<1>2. ASSUME NEW m \in Nat PROVE g(m) \in [0 .. m -> V] /\ Upto(g(m), m)
  <2>1. \E h \in [0 .. m -> V] : Upto(h, m)
    BY <1>1
  <2> HIDE DEF Upto
  <2> QED BY <2>1
<1> HIDE DEF g
<1>3. ASSUME NEW m \in Nat PROVE g(m + 1)[m] = g(m)[m]
  <2> DEFINE A == {k \in Nat : k <= m => g(m + 1)[k] = g(m)[k]}
  <2>1. 0 \in A
    BY <1>2
  <2>2. ASSUME NEW k \in Nat, k \in A PROVE k + 1 \in A
    BY <1>2, <2>2
  <2>3. m \in A
    <3> HIDE DEF A
    <3> QED BY <2>1, <2>2, SetInduction
  <2> QED BY <2>3
<1> DEFINE f == [n \in Nat |-> g(n)[n]]
<1>4. f \in [Nat -> V]
  BY <1>2
<1>5. f[0] = base
  BY <1>2
<1>6. ASSUME NEW n \in Nat PROVE f[n + 1] = G[n][f[n]]
  <2>1. g(n + 1)[n + 1] = G[n][g(n + 1)[n]]
    BY <1>2
  <2> QED BY <1>3, <2>1
<1> HIDE DEF f
<1> QED BY <1>4, <1>5, <1>6 DEF Iterated

\* The heap only grows, and the arguments of a node are made before it.
Extends(h, k) == Len(h) <= Len(k) /\ \A i \in 1 .. Len(h) : k[i] = h[i]
Ordered(h)    == \A k \in DOMAIN h : h[k].arg1 < k /\ h[k].arg2 < k

\* What a function of the descent may return when it is called with q.
Results(q) ==
  {r \in Nat \X ParseInfo : /\ r[1] <= Len(r[2].nodes)
                            /\ Extends(q.nodes, r[2].nodes)
                            /\ Ordered(q.nodes) => Ordered(r[2].nodes)}

Functions == {f \in [ParseInfo -> Nat \X ParseInfo] : \A q \in ParseInfo : f[q] \in Results(q)}
Descents  == [OR : Functions, AND : Functions, unary : Functions]

LEMMA TokenFacts ==
  "" \in Token /\ "(" \in Token /\ ")" \in Token /\ "." \in Token
  BY DEF Token, Special

LEMMA ParseInfoType ==
  ASSUME NEW p \in ParseInfo
  PROVE  /\ p.rest \in Seq(Token) /\ p.token \in Token /\ p.nodes \in Seq(NodeType)
         /\ p.type \in {"name", "special", "eos", "unknown"}
         /\ p.pushed_back \in BOOLEAN /\ p.error \in BOOLEAN
         /\ Len(p.nodes) \in Nat
  BY DEF ParseInfo


\* The steps between two calls keep the nodes.
LEMMA StepTypes ==
  ASSUME NEW p \in ParseInfo
  PROVE  /\ NextToken(p) \in ParseInfo /\ NextToken(p).nodes = p.nodes /\ NextToken(p).error = p.error
         /\ PushBack(p) \in ParseInfo /\ PushBack(p).nodes = p.nodes /\ PushBack(p).error = p.error
         /\ Consume(p) \in ParseInfo /\ Consume(p).nodes = p.nodes /\ Consume(p).error = p.error
         /\ SetError(p) \in ParseInfo /\ SetError(p).nodes = p.nodes /\ SetError(p).error
<1> USE ParseInfoType
<1>1. NextToken(p) \in ParseInfo /\ NextToken(p).nodes = p.nodes /\ NextToken(p).error = p.error
  <2>1. CASE p.pushed_back
    BY <2>1 DEF NextToken, ParseInfo
  <2>2. CASE ~p.pushed_back /\ p.rest = << >>
    BY <2>2, TokenFacts DEF NextToken, ParseInfo
  <2>3. CASE ~p.pushed_back /\ p.rest # << >> /\ p.rest[1] = Unknown
    BY <2>3, TokenFacts DEF NextToken, ParseInfo
  <2>4. CASE ~p.pushed_back /\ p.rest # << >> /\ p.rest[1] # Unknown
    <3> DEFINE c == p.rest[1]
               w == Tail(p.rest)
               y == IF c \in Special THEN "special" ELSE "name"
    <3>1. c \in Token /\ w \in Seq(Token) /\ y \in {"name", "special"}
      BY <2>4
    <3>2. NextToken(p) = [p EXCEPT !.token = c, !.rest = w, !.type = y]
      BY <2>4 DEF NextToken
    <3> HIDE DEF c, w, y
    <3> QED BY <3>1, <3>2 DEF ParseInfo
  <2> QED BY <2>1, <2>2, <2>3, <2>4
<1>2. PushBack(p) \in ParseInfo /\ PushBack(p).nodes = p.nodes /\ PushBack(p).error = p.error
  BY DEF PushBack, ParseInfo
<1>3. Consume(p) \in ParseInfo /\ Consume(p).nodes = p.nodes /\ Consume(p).error = p.error
  BY TokenFacts DEF Consume, ParseInfo
<1>4. SetError(p) \in ParseInfo /\ SetError(p).nodes = p.nodes /\ SetError(p).error
  BY DEF SetError, PushBack, ParseInfo
<1> QED BY <1>1, <1>2, <1>3, <1>4

LEMMA AppendFacts ==
  ASSUME NEW S, NEW s \in Seq(S), NEW x \in S
  PROVE  /\ Append(s, x) \in Seq(S) /\ Len(Append(s, x)) = Len(s) + 1 /\ Len(s) \in Nat
         /\ DOMAIN s = 1 .. Len(s) /\ DOMAIN Append(s, x) = 1 .. Len(s) + 1
         /\ \A i \in 1 .. Len(s) : Append(s, x)[i] = s[i] /\ s[i] \in S
         /\ Append(s, x)[Len(s) + 1] = x
  OBVIOUS

\* A new node is added to the others.
LEMMA NewTermType ==
  ASSUME NEW q \in ParseInfo, NEW p \in ParseInfo, NEW n \in NodeType,
         Extends(q.nodes, p.nodes), Ordered(q.nodes) => Ordered(p.nodes),
         n.arg1 <= Len(p.nodes), n.arg2 <= Len(p.nodes)
  PROVE  /\ NewTerm(p, n) \in Results(q)
         /\ NewTerm(p, n)[1] = Len(p.nodes) + 1
         /\ NewTerm(p, n)[2] = [p EXCEPT !.nodes = Append(p.nodes, n)]
<1> DEFINE r == NewTerm(p, n)
<1>1. r[1] = Len(p.nodes) + 1 /\ r[2] = [p EXCEPT !.nodes = Append(p.nodes, n)]
      /\ r = <<r[1], r[2]>>
  BY DEF NewTerm
<1> HIDE DEF r
<1>2. p.nodes \in Seq(NodeType) /\ q.nodes \in Seq(NodeType) /\ Len(q.nodes) \in Nat
  BY ParseInfoType
<1>3. r[2] \in ParseInfo /\ r[2].nodes = Append(p.nodes, n)
  <2> DEFINE a == Append(p.nodes, n)
  <2>1. a \in Seq(NodeType)
    BY <1>2
  <2> HIDE DEF a
  <2>2. r[2] = [p EXCEPT !.nodes = a]
    BY <1>1 DEF a
  <2>3. r[2] \in ParseInfo /\ r[2].nodes = a
    BY <2>1, <2>2 DEF ParseInfo
  <2> QED BY <2>3 DEF a
<1>4. Extends(q.nodes, r[2].nodes)
  BY <1>2, <1>3, AppendFacts DEF Extends
<1>5. ASSUME Ordered(p.nodes) PROVE Ordered(r[2].nodes)
  <2> DEFINE a == r[2].nodes
             h == p.nodes
  <2>1. /\ DOMAIN h = 1 .. Len(h) /\ DOMAIN a = 1 .. Len(h) + 1 /\ Len(h) \in Nat
        /\ \A i \in 1 .. Len(h) : a[i] = h[i]
        /\ a[Len(h) + 1] = n
    BY <1>2, <1>3, AppendFacts
  <2>2. n.arg1 \in Nat /\ n.arg2 \in Nat
    BY DEF NodeType
  <2>3. /\ n.arg1 <= Len(h) /\ n.arg2 <= Len(h)
        /\ \A i \in 1 .. Len(h) : h[i].arg1 < i /\ h[i].arg2 < i
    BY <1>5, <2>1 DEF Ordered
  <2> HIDE DEF a, h
  <2>4. ASSUME NEW i \in 1 .. Len(h) + 1 PROVE a[i].arg1 < i /\ a[i].arg2 < i
    <3>1. CASE i = Len(h) + 1
      BY <2>1, <2>2, <2>3, <3>1
    <3>2. CASE i # Len(h) + 1
      <4>1. i \in 1 .. Len(h)
        BY <2>1, <3>2
      <4> QED BY <2>1, <2>3, <4>1
    <3> QED BY <3>1, <3>2
  <2> QED BY <2>1, <2>4 DEF Ordered, a
<1>6. r[1] \in Nat /\ r[1] <= Len(r[2].nodes)
  BY <1>1, <1>2, <1>3, AppendFacts
<1> QED BY <1>1, <1>3, <1>4, <1>5, <1>6 DEF Results, r

LEMMA ExtendsItself ==
  ASSUME NEW h \in Seq(NodeType)
  PROVE  Extends(h, h)
  BY DEF Extends

LEMMA ExtendsTrans ==
  ASSUME NEW h \in Seq(NodeType), NEW k \in Seq(NodeType), NEW l \in Seq(NodeType),
         Extends(h, k), Extends(k, l)
  PROVE  Extends(h, l)
  BY DEF Extends

\* A result for a state with the same nodes, and one with another state that has them.
LEMMA ResultOf ==
  ASSUME NEW q \in ParseInfo, NEW p \in ParseInfo, p.nodes = q.nodes, NEW r \in Results(p)
  PROVE  r \in Results(q) /\ r[1] \in Nat /\ r[2] \in ParseInfo
  BY DEF Results

LEMMA ResultWith ==
  ASSUME NEW q \in ParseInfo, NEW r \in Results(q), NEW p \in ParseInfo, p.nodes = r[2].nodes
  PROVE  <<r[1], p>> \in Results(q)
  BY DEF Results

LEMMA NoResult ==
  ASSUME NEW q \in ParseInfo, NEW p \in ParseInfo, p.nodes = q.nodes
  PROVE  <<0, p>> \in Results(q)
<1>1. q.nodes \in Seq(NodeType) /\ Len(q.nodes) \in Nat
  BY ParseInfoType
<1> QED BY <1>1, ExtendsItself DEF Results

LEMMA NodeTypes ==
  /\ \A a, b \in Token : REF(a, b) \in NodeType /\ REF(a, b).arg1 = 0 /\ REF(a, b).arg2 = 0
  /\ \A x \in Nat : NOT(x) \in NodeType /\ NOT(x).arg1 = x /\ NOT(x).arg2 = 0
  /\ \A x, y \in Nat : /\ AND(x, y) \in NodeType /\ AND(x, y).arg1 = x /\ AND(x, y).arg2 = y
                        /\ OR(x, y) \in NodeType /\ OR(x, y).arg1 = x /\ OR(x, y).arg2 = y
  BY TokenFacts DEF NodeType, REF, NOT, AND, OR

LEMMA FlagReferenceType ==
  ASSUME NEW q \in ParseInfo
  PROVE  FlagReference(q) \in Results(q)
<1> DEFINE point == NextToken(Consume(q))
           flag  == NextToken(point)
<1>1. point \in ParseInfo /\ point.nodes = q.nodes
  BY StepTypes
<1>2. flag \in ParseInfo /\ flag.nodes = q.nodes
  BY <1>1, StepTypes
<1>3. Consume(flag) \in ParseInfo /\ Consume(flag).nodes = q.nodes
  BY <1>2, StepTypes
<1>4. /\ SetError(point) \in ParseInfo /\ SetError(point).nodes = q.nodes
      /\ SetError(flag) \in ParseInfo /\ SetError(flag).nodes = q.nodes
  BY <1>1, <1>2, StepTypes
<1>5. <<0, SetError(point)>> \in Results(q) /\ <<0, SetError(flag)>> \in Results(q)
  BY <1>4, NoResult
<1>6. NewTerm(Consume(flag), REF(q.token, flag.token)) \in Results(q)
  <2>1. q.token \in Token /\ flag.token \in Token /\ q.nodes \in Seq(NodeType) /\ Len(q.nodes) \in Nat
    BY <1>2, ParseInfoType
  <2> DEFINE n == REF(q.token, flag.token)
             c == Consume(flag)
  <2>2. n \in NodeType /\ n.arg1 = 0 /\ n.arg2 = 0
    BY <2>1, NodeTypes
  <2>3. c \in ParseInfo /\ c.nodes = q.nodes /\ Extends(q.nodes, q.nodes)
    BY <1>3, <2>1, ExtendsItself
  <2> HIDE DEF n, c
  <2>4. /\ Extends(q.nodes, c.nodes) /\ (Ordered(q.nodes) => Ordered(c.nodes))
        /\ n.arg1 <= Len(c.nodes) /\ n.arg2 <= Len(c.nodes)
    BY <2>1, <2>2, <2>3
  <2>5. NewTerm(c, n) \in Results(q)
    BY <2>2, <2>3, <2>4, NewTermType
  <2> QED BY <2>5 DEF n, c
<1>7. FlagReference(q) = IF ~IsChar(point, ".") THEN <<0, SetError(point)>>
                         ELSE IF ~IsName(flag) THEN <<0, SetError(flag)>>
                         ELSE NewTerm(Consume(flag), REF(q.token, flag.token))
  BY DEF FlagReference, NULL
<1> HIDE DEF point, flag
<1> QED BY <1>5, <1>6, <1>7

LEMMA DeeperType ==
  ASSUME NEW d \in Descents, NEW p \in ParseInfo
  PROVE  d.OR[p] \in Results(p) /\ d.AND[p] \in Results(p) /\ d.unary[p] \in Results(p)
  BY DEF Descents, Functions

LEMMA PrimaryType ==
  ASSUME NEW d \in Descents, NEW q \in ParseInfo, NEW required \in BOOLEAN
  PROVE  parse_primary(d, q, required) \in Results(q)
<1> DEFINE p     == NextToken(q)
           inner == d.OR[p]
           close == NextToken(inner[2])
           end   == IF IsChar(close, ")") THEN close ELSE SetError(close)
<1>1. p \in ParseInfo /\ p.nodes = q.nodes
  BY StepTypes
<1>2. inner \in Results(q) /\ inner[2] \in ParseInfo
  <2>1. inner \in Results(p)
    BY <1>1, DeeperType
  <2> HIDE DEF p, inner
  <2> QED BY <1>1, <2>1, ResultOf
<1>3. close \in ParseInfo /\ close.nodes = inner[2].nodes
  BY <1>2, StepTypes
<1>4. end \in ParseInfo /\ end.nodes = inner[2].nodes
  BY <1>3, StepTypes
<1>5. <<inner[1], end>> \in Results(q)
  <2> HIDE DEF inner, end
  <2> QED BY <1>2, <1>4, ResultWith
<1>6. FlagReference(p) \in Results(q)
  <2>1. FlagReference(p) \in Results(p)
    BY <1>1, FlagReferenceType
  <2> HIDE DEF p
  <2> QED BY <1>1, <2>1, ResultOf
<1>7. <<0, p>> \in Results(q) /\ <<0, SetError(p)>> \in Results(q)
  <2>1. SetError(p) \in ParseInfo /\ SetError(p).nodes = q.nodes
    BY <1>1, StepTypes
  <2> HIDE DEF p
  <2> QED BY <1>1, <2>1, NoResult
<1>8. parse_primary(d, q, required) =
        CASE IsChar(p, "(") -> <<inner[1], end>>
          [] IsName(p) -> FlagReference(p)
          [] p.type = "eos" /\ ~required -> <<0, p>>
          [] OTHER -> <<0, SetError(p)>>
  BY DEF parse_primary, NULL
<1>9. IsName(p) => ~IsChar(p, "(")
  BY DEF IsName, IsChar
<1>10. p.type = "eos" => ~IsChar(p, "(") /\ ~IsName(p)
  BY DEF IsName, IsChar
<1> HIDE DEF p, inner, end
<1> QED BY <1>5, <1>6, <1>7, <1>8, <1>9, <1>10

LEMMA UnaryType ==
  ASSUME NEW d \in Descents, NEW q \in ParseInfo, NEW required \in BOOLEAN
  PROVE  parse_unary(d, q, required) \in Results(q)
<1> DEFINE p   == NextToken(q)
           arg == d.unary[p]
<1>1. p \in ParseInfo /\ p.nodes = q.nodes
  BY StepTypes
<1>2. arg \in Results(q) /\ arg[1] \in Nat /\ arg[2] \in ParseInfo
  <2>1. arg \in Results(p)
    BY <1>1, DeeperType
  <2> HIDE DEF p, arg
  <2> QED BY <1>1, <2>1, ResultOf
<1>3. NewTerm(arg[2], NOT(arg[1])) \in Results(q)
  <2> HIDE DEF arg
  <2> DEFINE n == NOT(arg[1])
  <2>1. n \in NodeType /\ n.arg1 = arg[1] /\ n.arg2 = 0
    BY <1>2, NodeTypes
  <2>2. /\ Extends(q.nodes, arg[2].nodes) /\ (Ordered(q.nodes) => Ordered(arg[2].nodes))
        /\ arg[1] <= Len(arg[2].nodes) /\ Len(arg[2].nodes) \in Nat
    BY <1>2, ParseInfoType DEF Results
  <2> HIDE DEF n
  <2>3. n.arg1 <= Len(arg[2].nodes) /\ n.arg2 <= Len(arg[2].nodes)
    BY <2>1, <2>2
  <2> DEFINE a == arg[2]
  <2>4. a \in ParseInfo /\ a.nodes \in Seq(NodeType)
    BY <1>2, ParseInfoType
  <2>5. NewTerm(a, n) \in Results(q)
    <3>1. /\ Extends(q.nodes, a.nodes) /\ (Ordered(q.nodes) => Ordered(a.nodes))
          /\ n.arg1 <= Len(a.nodes) /\ n.arg2 <= Len(a.nodes)
      BY <2>2, <2>3
    <3> HIDE DEF a
    <3> QED BY <2>1, <2>4, <3>1, NewTermType
  <2> QED BY <2>5 DEF n
<1>4. parse_primary(d, PushBack(p), required) \in Results(q)
  <2>1. PushBack(p) \in ParseInfo /\ PushBack(p).nodes = q.nodes
    BY <1>1, StepTypes
  <2>2. parse_primary(d, PushBack(p), required) \in Results(PushBack(p))
    BY <2>1, PrimaryType
  <2> HIDE DEF p
  <2> QED BY <2>1, <2>2, ResultOf
<1> HIDE DEF arg
<1>5. parse_unary(d, q, required) = IF IsOneOf(p, NotToken) THEN NewTerm(arg[2], NOT(arg[1]))
                                    ELSE parse_primary(d, PushBack(p), required)
  BY DEF parse_unary, arg
<1> QED BY <1>3, <1>4, <1>5

\* What parse_AND and parse_OR have in common: a term that is made of two.
LEMMA BinaryType ==
  ASSUME NEW q \in ParseInfo, NEW first \in Results(q), NEW p \in ParseInfo,
         p.nodes = first[2].nodes, NEW second \in Results(p)
  PROVE  /\ NewTerm(second[2], AND(first[1], second[1])) \in Results(q)
         /\ NewTerm(second[2], OR(first[1], second[1])) \in Results(q)
         /\ <<first[1], PushBack(p)>> \in Results(q)
<1>1. /\ first[1] \in Nat /\ first[2] \in ParseInfo /\ second[1] \in Nat /\ second[2] \in ParseInfo
      /\ first[1] <= Len(first[2].nodes) /\ second[1] <= Len(second[2].nodes)
      /\ Extends(q.nodes, first[2].nodes) /\ Extends(first[2].nodes, second[2].nodes)
      /\ Ordered(q.nodes) => Ordered(second[2].nodes)
  BY DEF Results
<1>2. /\ q.nodes \in Seq(NodeType) /\ first[2].nodes \in Seq(NodeType) /\ second[2].nodes \in Seq(NodeType)
      /\ Len(first[2].nodes) \in Nat /\ Len(second[2].nodes) \in Nat
  BY <1>1, ParseInfoType
<1>3. Extends(q.nodes, second[2].nodes) /\ first[1] <= Len(second[2].nodes)
  <2>1. Len(first[2].nodes) <= Len(second[2].nodes)
    BY <1>1 DEF Extends
  <2> QED BY <1>1, <1>2, <2>1, ExtendsTrans
<1>4. ASSUME NEW n \in NodeType, n.arg1 = first[1], n.arg2 = second[1]
      PROVE  NewTerm(second[2], n) \in Results(q)
  BY <1>1, <1>3, <1>4, NewTermType
<1>5. PushBack(p) \in ParseInfo /\ PushBack(p).nodes = first[2].nodes
  BY StepTypes
<1> QED BY <1>1, <1>4, <1>5, NodeTypes, ResultWith

LEMMA AndType ==
  ASSUME NEW d \in Descents, NEW q \in ParseInfo, NEW required \in BOOLEAN
  PROVE  parse_AND(d, q, required) \in Results(q)
<1> DEFINE first  == parse_unary(d, q, required)
           p      == NextToken(first[2])
           second == d.AND[p]
<1>1. first \in Results(q) /\ first[2] \in ParseInfo
  BY UnaryType, ResultOf
<1>2. p \in ParseInfo /\ p.nodes = first[2].nodes
  BY <1>1, StepTypes
<1>3. second \in Results(p)
  BY <1>2, DeeperType
<1>4. parse_AND(d, q, required) =
        IF first[1] = NULL \/ first[2].error THEN first
        ELSE IF IsOneOf(p, AndToken) THEN NewTerm(second[2], AND(first[1], second[1]))
        ELSE <<first[1], PushBack(p)>>
  BY DEF parse_AND
<1> HIDE DEF first, p, second
<1> QED BY <1>1, <1>2, <1>3, <1>4, BinaryType

LEMMA OrType ==
  ASSUME NEW d \in Descents, NEW q \in ParseInfo, NEW required \in BOOLEAN
  PROVE  parse_OR(d, q, required) \in Results(q)
<1> DEFINE first  == parse_AND(d, q, required)
           p      == NextToken(first[2])
           second == d.OR[p]
<1>1. first \in Results(q) /\ first[2] \in ParseInfo
  BY AndType, ResultOf
<1>2. p \in ParseInfo /\ p.nodes = first[2].nodes
  BY <1>1, StepTypes
<1>3. second \in Results(p)
  BY <1>2, DeeperType
<1>4. parse_OR(d, q, required) =
        IF first[1] = NULL \/ first[2].error THEN first
        ELSE IF IsOneOf(p, OrToken) THEN NewTerm(second[2], OR(first[1], second[1]))
        ELSE <<first[1], PushBack(p)>>
  BY DEF parse_OR
<1> HIDE DEF first, p, second
<1> QED BY <1>1, <1>2, <1>3, <1>4, BinaryType

\* The functions of a depth from those of the depth before.
LEMMA DescentIs ==
  /\ Descent \in [Nat -> Descents]
  /\ \A n \in Nat, q \in ParseInfo :
       /\ Descent[n + 1].OR[q] = parse_OR(Descent[n], q, TRUE)
       /\ Descent[n + 1].AND[q] = parse_AND(Descent[n], q, TRUE)
       /\ Descent[n + 1].unary[q] = parse_unary(Descent[n], q, TRUE)
<1> DEFINE base == [OR |-> Bottom, AND |-> Bottom, unary |-> Bottom]
           Next1(d) == [ OR    |-> [q \in ParseInfo |-> parse_OR(d, q, TRUE)],
                        AND   |-> [q \in ParseInfo |-> parse_AND(d, q, TRUE)],
                        unary |-> [q \in ParseInfo |-> parse_unary(d, q, TRUE)] ]
           IsDescent(f) == f = [n \in Nat |-> IF n = 0 THEN base ELSE Next1(f[n - 1])]
<1>1. base \in Descents
  <2>1. Bottom \in Functions
    <3>1. ASSUME NEW q \in ParseInfo PROVE Bottom[q] = <<0, q>> /\ <<0, q>> \in Results(q)
      BY NoResult DEF Bottom, NULL
    <3>2. DOMAIN Bottom = ParseInfo /\ Bottom = [q \in ParseInfo |-> Bottom[q]]
      BY DEF Bottom
    <3>3. \A q \in ParseInfo : Bottom[q] \in Nat \X ParseInfo
      BY <3>1 DEF Results
    <3> QED BY <3>1, <3>2, <3>3 DEF Functions
  <2> QED BY <2>1 DEF Descents
<1>2. ASSUME NEW d \in Descents PROVE Next1(d) \in Descents
  <2>1. ASSUME NEW f, DOMAIN f = ParseInfo, f = [q \in ParseInfo |-> f[q]],
               \A q \in ParseInfo : f[q] \in Results(q)
        PROVE  f \in Functions
    <3>1. \A q \in ParseInfo : f[q] \in Nat \X ParseInfo
      BY <2>1 DEF Results
    <3> QED BY <2>1, <3>1 DEF Functions
  <2> DEFINE fo == [q \in ParseInfo |-> parse_OR(d, q, TRUE)]
             fa == [q \in ParseInfo |-> parse_AND(d, q, TRUE)]
             fu == [q \in ParseInfo |-> parse_unary(d, q, TRUE)]
  <2>2. \A q \in ParseInfo : fo[q] \in Results(q) /\ fa[q] \in Results(q) /\ fu[q] \in Results(q)
    <3> TAKE q \in ParseInfo
    <3>1. fo[q] = parse_OR(d, q, TRUE) /\ fa[q] = parse_AND(d, q, TRUE) /\ fu[q] = parse_unary(d, q, TRUE)
      OBVIOUS
    <3>2. TRUE \in BOOLEAN
      OBVIOUS
    <3> HIDE DEF fo, fa, fu
    <3> QED BY <3>1, <3>2, OrType, AndType, UnaryType
  <2>3. fo \in Functions /\ fa \in Functions /\ fu \in Functions
    BY <2>1, <2>2
  <2>4. Next1(d) = [OR |-> fo, AND |-> fa, unary |-> fu]
    OBVIOUS
  <2> HIDE DEF Next1, fo, fa, fu
  <2> QED BY <2>3, <2>4 DEF Descents
<1>3. \E f : IsDescent(f)
  <2> DEFINE G == [n \in Nat |-> [d \in Descents |-> Next1(d)]]
  <2> HIDE DEF base, Next1
  <2>1. G \in [Nat -> [Descents -> Descents]] /\ \A n \in Nat, d \in Descents : G[n][d] = Next1(d)
    BY <1>2
  <2> HIDE DEF G
  <2>2. PICK f \in [Nat -> Descents] : f[0] = base /\ \A n \in Nat : f[n + 1] = G[n][f[n]]
    <3>1. \E f \in [Nat -> Descents] : Iterated(f, base, G)
      BY <1>1, <2>1, Iteration
    <3> QED BY <3>1 DEF Iterated
  <2>3. ASSUME NEW n \in Nat PROVE f[n] = IF n = 0 THEN base ELSE Next1(f[n - 1])
    <3>1. CASE n = 0
      BY <2>2, <3>1
    <3>2. CASE n # 0
      <4>1. n - 1 \in Nat /\ (n - 1) + 1 = n
        BY <3>2
      <4>2. f[n] = G[n - 1][f[n - 1]] /\ f[n - 1] \in Descents
        BY <2>2, <4>1
      <4> QED BY <2>1, <3>2, <4>1, <4>2
    <3> QED BY <3>1, <3>2
  <2>4. f = [n \in Nat |-> IF n = 0 THEN base ELSE Next1(f[n - 1])]
    BY <2>2, <2>3
  <2> QED BY <2>4
<1>4. Descent = CHOOSE f : IsDescent(f)
  BY DEF Descent
<1>5. IsDescent(Descent)
  <2> HIDE DEF IsDescent
  <2> QED BY <1>3, <1>4
<1>6. Descent[0] = base /\ \A n \in Nat : Descent[n + 1] = Next1(Descent[n])
  <2> HIDE DEF base, Next1
  <2> DEFINE f == Descent
  <2>1. f = [n \in Nat |-> IF n = 0 THEN base ELSE Next1(f[n - 1])]
    BY <1>5
  <2> HIDE DEF f
  <2>2. \A n \in Nat : n + 1 \in Nat /\ n + 1 # 0 /\ (n + 1) - 1 = n
    OBVIOUS
  <2>3. f[0] = base /\ \A n \in Nat : f[n + 1] = Next1(f[n])
    BY <2>1, <2>2
  <2> QED BY <2>3 DEF f
<1>7. Nat \subseteq {n \in Nat : Descent[n] \in Descents}
  <2> HIDE DEF Next1, base
  <2> DEFINE S == {n \in Nat : Descent[n] \in Descents}
  <2>1. 0 \in S /\ \A n \in Nat : n \in S => n + 1 \in S
    BY <1>1, <1>2, <1>6
  <2> HIDE DEF S
  <2>2. Nat \subseteq S
    BY <2>1, SetInduction
  <2> QED BY <2>2 DEF S
<1>8. Descent \in [Nat -> Descents]
  <2> HIDE DEF Next1, base
  <2> DEFINE f == Descent
  <2>1. f = [n \in Nat |-> IF n = 0 THEN base ELSE Next1(f[n - 1])] /\ \A n \in Nat : f[n] \in Descents
    BY <1>5, <1>7
  <2> HIDE DEF f
  <2>2. f \in [Nat -> Descents]
    BY <2>1
  <2> QED BY <2>2 DEF f
<1>9. ASSUME NEW d, NEW q \in ParseInfo
      PROVE  /\ Next1(d).OR[q] = parse_OR(d, q, TRUE) /\ Next1(d).AND[q] = parse_AND(d, q, TRUE)
             /\ Next1(d).unary[q] = parse_unary(d, q, TRUE)
  OBVIOUS
<1> HIDE DEF Next1, base
<1> QED BY <1>6, <1>8, <1>9

-----------------------------------------------------------------------------
(***************************************************************************)
(* Where the parser is: At(e, p, i) says that i tokens of e have been      *)
(* read.                                                                   *)
(***************************************************************************)

\* Of the expression e, i tokens have been read: the rest is left, or a token
\* before it that was pushed back.
Suffix(e, i) == SubSeq(e, i + 1, Len(e))

At(e, p, i) ==
  /\ p \in ParseInfo /\ ~p.error /\ i \in 0 .. Len(e)
  /\ IF ~p.pushed_back THEN p.rest = Suffix(e, i)
     ELSE IF p.type = "eos" THEN i = Len(e) /\ p.rest = Suffix(e, i)
     ELSE IF p.type = "unknown" THEN i < Len(e) /\ e[i + 1] = Unknown /\ p.rest = Suffix(e, i)
     ELSE /\ i < Len(e) /\ e[i + 1] # Unknown /\ p.token = e[i + 1]
          /\ p.rest = Suffix(e, i + 1)
          /\ p.type = IF e[i + 1] \in Special THEN "special" ELSE "name"

LEMMA SuffixFacts ==
  ASSUME NEW e \in Seq(Token), NEW i \in 0 .. Len(e)
  PROVE  /\ Suffix(e, i) \in Seq(Token) /\ Len(Suffix(e, i)) = Len(e) - i
         /\ i < Len(e) => /\ Suffix(e, i)[1] = e[i + 1] /\ Tail(Suffix(e, i)) = Suffix(e, i + 1)
                          /\ Suffix(e, i) # << >> /\ e[i + 1] \in Token
         /\ i = Len(e) => Suffix(e, i) = << >>
<1>1. Len(e) \in Nat /\ \A k \in 1 .. Len(e) : e[k] \in Token
  OBVIOUS
<1>2. Suffix(e, i) \in Seq(Token) /\ Len(Suffix(e, i)) = Len(e) - i
      /\ \A k \in 1 .. Len(e) - i : Suffix(e, i)[k] = e[i + k]
  BY <1>1 DEF Suffix
<1>3. ASSUME i < Len(e) PROVE Tail(Suffix(e, i)) = Suffix(e, i + 1)
  <2> DEFINE t == Tail(Suffix(e, i))
             u == Suffix(e, i + 1)
  <2>1. t \in Seq(Token) /\ Len(t) = Len(e) - i - 1 /\ \A k \in 1 .. Len(e) - i - 1 : t[k] = e[i + 1 + k]
    BY <1>1, <1>2, <1>3
  <2>2. u \in Seq(Token) /\ Len(u) = Len(e) - i - 1 /\ \A k \in 1 .. Len(e) - i - 1 : u[k] = e[i + 1 + k]
    BY <1>1, <1>3 DEF Suffix
  <2> HIDE DEF t, u
  <2>3. t = u
    BY <2>1, <2>2
  <2> QED BY <2>3 DEF t, u
<1>4. i < Len(e) => Suffix(e, i)[1] = e[i + 1] /\ Suffix(e, i) # << >>
  BY <1>1, <1>2
<1>5. i = Len(e) => Suffix(e, i) = << >>
  BY <1>2
<1> QED BY <1>1, <1>2, <1>3, <1>4, <1>5

\* A state is at one place.
LEMMA OnePlace ==
  ASSUME NEW e \in Seq(Token), NEW p, NEW i, NEW j, At(e, p, i), At(e, p, j)
  PROVE  i = j
<1>1. /\ i \in 0 .. Len(e) /\ j \in 0 .. Len(e) /\ Len(e) \in Nat
      /\ i < Len(e) => i + 1 \in 0 .. Len(e)
      /\ j < Len(e) => j + 1 \in 0 .. Len(e)
  BY DEF At
<1>2. \/ p.rest = Suffix(e, i) /\ p.rest = Suffix(e, j)
      \/ i < Len(e) /\ j < Len(e) /\ p.rest = Suffix(e, i + 1) /\ p.rest = Suffix(e, j + 1)
  BY DEF At
<1>3. \A k \in 0 .. Len(e) : Len(Suffix(e, k)) = Len(e) - k
  BY SuffixFacts
<1> QED BY <1>1, <1>2, <1>3

\* The next token is that of the place, and can be pushed back.
LEMMA TokenRead ==
  ASSUME NEW e \in Seq(Token), NEW p, NEW i, At(e, p, i)
  PROVE  LET q == NextToken(p)
         IN  /\ q \in ParseInfo /\ q.nodes = p.nodes
             /\ At(e, PushBack(q), i) /\ PushBack(q).nodes = p.nodes
             /\ i < Len(e) /\ e[i + 1] # Unknown =>
                  /\ At(e, q, i + 1) /\ At(e, Consume(q), i + 1) /\ q.token = e[i + 1]
             /\ q.type = "eos" <=> i = Len(e)
             /\ q.type = "eos" => At(e, q, i)
             /\ IsName(q) <=> i < Len(e) /\ IsAName(e[i + 1])
             /\ \A c \in Special : IsChar(q, c) <=> i < Len(e) /\ e[i + 1] = c
             /\ \A set : Unknown \notin set => (IsOneOf(q, set) <=> i < Len(e) /\ e[i + 1] \in set)
<1> DEFINE q == NextToken(p)
           z == PushBack(q)
           c == Consume(q)
<1>1. p \in ParseInfo /\ i \in 0 .. Len(e) /\ Len(e) \in Nat /\ ~p.error
  BY DEF At
<1>2. /\ q \in ParseInfo /\ q.nodes = p.nodes /\ ~q.error
      /\ z \in ParseInfo /\ z.nodes = p.nodes /\ ~z.error
      /\ c \in ParseInfo /\ c.nodes = p.nodes /\ ~c.error
  BY <1>1, StepTypes
<1>3. i # Len(e) => i < Len(e) /\ i + 1 \in 0 .. Len(e)
  BY <1>1
<1>4. /\ z.pushed_back /\ z.type = q.type /\ z.token = q.token /\ z.rest = q.rest
      /\ ~c.pushed_back /\ c.rest = q.rest
  <2> HIDE DEF q
  <2> QED BY <1>2 DEF PushBack, Consume, ParseInfo
<1>5. \/ i = Len(e) /\ q.type = "eos" /\ q.rest = Suffix(e, i) /\ ~q.pushed_back
      \/ i < Len(e) /\ e[i + 1] = Unknown /\ q.type = "unknown" /\ q.rest = Suffix(e, i) /\ ~q.pushed_back
      \/ /\ i < Len(e) /\ e[i + 1] # Unknown /\ q.token = e[i + 1] /\ ~q.pushed_back
         /\ q.rest = Suffix(e, i + 1)
         /\ q.type = IF e[i + 1] \in Special THEN "special" ELSE "name"
  <2>1. CASE p.pushed_back
    <3>1. q = [p EXCEPT !.pushed_back = FALSE]
      BY <2>1 DEF NextToken
    <3>2. ~q.pushed_back /\ q.type = p.type /\ q.token = p.token /\ q.rest = p.rest
      BY <1>1, <3>1 DEF ParseInfo
    <3> HIDE DEF q
    <3> QED BY <2>1, <3>2 DEF At
  <2>2. CASE ~p.pushed_back /\ i = Len(e)
    <3>1. p.rest = << >> /\ p.rest = Suffix(e, i)
      BY <1>1, <2>2, SuffixFacts DEF At
    <3>2. q = [p EXCEPT !.token = "", !.type = "eos"]
      BY <2>2, <3>1 DEF NextToken
    <3>3. ~q.pushed_back /\ q.type = "eos" /\ q.rest = p.rest
      BY <1>1, <2>2, <3>2 DEF ParseInfo
    <3> QED BY <2>2, <3>1, <3>3
  <2>3. CASE ~p.pushed_back /\ i < Len(e) /\ e[i + 1] = Unknown
    <3>1. p.rest # << >> /\ p.rest = Suffix(e, i) /\ p.rest[1] = Unknown
      BY <1>1, <2>3, SuffixFacts DEF At
    <3>2. q = [p EXCEPT !.token = "", !.type = "unknown"]
      BY <2>3, <3>1 DEF NextToken
    <3>3. ~q.pushed_back /\ q.type = "unknown" /\ q.rest = p.rest
      BY <1>1, <2>3, <3>2 DEF ParseInfo
    <3> QED BY <2>3, <3>1, <3>3
  <2>4. CASE ~p.pushed_back /\ i < Len(e) /\ e[i + 1] # Unknown
    <3> DEFINE t == p.rest[1]
               w == Tail(p.rest)
               y == IF t \in Special THEN "special" ELSE "name"
    <3>1. p.rest # << >> /\ t = e[i + 1] /\ w = Suffix(e, i + 1)
      <4>1. p.rest = Suffix(e, i)
        BY <2>4 DEF At
      <4>2. /\ Suffix(e, i) # << >> /\ Suffix(e, i)[1] = e[i + 1]
            /\ Tail(Suffix(e, i)) = Suffix(e, i + 1)
        BY <1>1, <2>4, SuffixFacts
      <4> QED BY <4>1, <4>2
    <3>2. q = [p EXCEPT !.token = t, !.rest = w, !.type = y]
      BY <2>4, <3>1 DEF NextToken
    <3>3. y = IF e[i + 1] \in Special THEN "special" ELSE "name"
      BY <3>1
    <3> HIDE DEF t, w, y
    <3>4. ~q.pushed_back /\ q.type = y /\ q.rest = w /\ q.token = t
      BY <1>1, <2>4, <3>2 DEF ParseInfo
    <3> QED BY <2>4, <3>1, <3>3, <3>4
  <2> QED BY <1>3, <2>1, <2>2, <2>3, <2>4
<1> HIDE DEF q, z, c
<1>6. At(e, z, i)
  BY <1>1, <1>2, <1>4, <1>5 DEF At
<1>7. i < Len(e) /\ e[i + 1] # Unknown => At(e, q, i + 1) /\ At(e, c, i + 1) /\ q.token = e[i + 1]
  BY <1>1, <1>2, <1>3, <1>4, <1>5 DEF At
<1>8. (q.type = "eos" <=> i = Len(e)) /\ (q.type = "eos" => At(e, q, i))
  BY <1>1, <1>2, <1>5 DEF At
<1>9. IsName(q) <=> i < Len(e) /\ IsAName(e[i + 1])
  BY <1>1, <1>5 DEF IsName, IsAName, Special, Unknown
<1>10. ASSUME NEW x \in Special PROVE IsChar(q, x) <=> i < Len(e) /\ e[i + 1] = x
  BY <1>1, <1>5, <1>10 DEF IsChar, Special, Unknown
<1>11. ASSUME NEW set, Unknown \notin set PROVE IsOneOf(q, set) <=> i < Len(e) /\ e[i + 1] \in set
  BY <1>1, <1>5, <1>11 DEF IsOneOf
<1> QED BY <1>2, <1>6, <1>7, <1>8, <1>9, <1>10, <1>11 DEF q, z, c

-----------------------------------------------------------------------------
(***************************************************************************)
(* The value of a term, by the values of its nodes in their order.         *)
(***************************************************************************)

\* Sequences that are made by appending, one after the other, what each place
\* makes of those before it.
Grown(f, n, G) == f = [k \in 0 .. n |-> IF k = 0 THEN << >> ELSE Append(f[k - 1], G[k][f[k - 1]])]

LEMMA GrownExists ==
  ASSUME NEW V, NEW n \in Nat, NEW G \in [1 .. n -> [Seq(V) -> V]]
  PROVE  \E f \in [0 .. n -> Seq(V)] : Grown(f, n, G)
<1> DEFINE H == [k \in Nat |-> [s \in Seq(V) |-> IF k < n THEN Append(s, G[k + 1][s]) ELSE s]]
<1>1. ASSUME NEW k \in Nat, NEW s \in Seq(V)
      PROVE  /\ H[k][s] \in Seq(V)
             /\ k < n => H[k][s] = Append(s, G[k + 1][s])
  <2>1. CASE k < n
    <3>1. k + 1 \in 1 .. n
      BY <2>1
    <3>2. G[k + 1] \in [Seq(V) -> V]
      BY <3>1
    <3>3. G[k + 1][s] \in V
      BY <3>2
    <3> QED BY <2>1, <3>3
  <2>2. CASE ~(k < n)
    BY <2>2
  <2> QED BY <2>1, <2>2
<1>2. H \in [Nat -> [Seq(V) -> Seq(V)]]
  BY <1>1
<1>3. << >> \in Seq(V)
  OBVIOUS
<1> HIDE DEF H
<1>4. PICK f \in [Nat -> Seq(V)] : f[0] = << >> /\ \A k \in Nat : f[k + 1] = H[k][f[k]]
  <2> DEFINE W == Seq(V)
             none == << >>
  <2>1. H \in [Nat -> [W -> W]] /\ none \in W
    BY <1>2, <1>3
  <2> HIDE DEF W, none
  <2>2. \E f \in [Nat -> W] : Iterated(f, none, H)
    BY <2>1, Iteration
  <2> QED BY <2>2 DEF W, none, Iterated
<1> DEFINE g == [k \in 0 .. n |-> f[k]]
<1>5. g \in [0 .. n -> Seq(V)]
  BY <1>4
<1>6. ASSUME NEW k \in 0 .. n
      PROVE  g[k] = IF k = 0 THEN << >> ELSE Append(g[k - 1], G[k][g[k - 1]])
  <2>1. CASE k = 0
    BY <1>4, <2>1
  <2>2. CASE k # 0
    <3>1. k - 1 \in Nat /\ k - 1 \in 0 .. n /\ (k - 1) + 1 = k /\ k - 1 < n
      BY <2>2
    <3>2. f[k] = H[k - 1][f[k - 1]] /\ f[k - 1] \in Seq(V)
      BY <1>4, <3>1
    <3>3. f[k] = Append(f[k - 1], G[k][f[k - 1]])
      BY <1>1, <3>1, <3>2
    <3> QED BY <2>2, <3>1, <3>3
  <2> QED BY <2>1, <2>2
<1>7. Grown(g, n, G)
  <2>1. g = [k \in 0 .. n |-> g[k]]
    OBVIOUS
  <2> HIDE DEF g
  <2> QED BY <1>6, <2>1 DEF Grown
<1> QED BY <1>5, <1>7

\* What each place is made of.
MadeBy(s, n, V, G) ==
  \A k \in 1 .. n : \E b \in Seq(V) :
    /\ Len(b) = k - 1 /\ \A l \in 1 .. k - 1 : b[l] = s[l]
    /\ s[k] = G[k][b]

LEMMA GrownIs ==
  ASSUME NEW V, NEW n \in Nat, NEW G \in [1 .. n -> [Seq(V) -> V]], NEW f, Grown(f, n, G)
  PROVE  /\ f[n] \in Seq(V) /\ Len(f[n]) = n
         /\ MadeBy(f[n], n, V, G)
<1>0. f[0] = << >> /\ \A k \in 1 .. n : f[k] = Append(f[k - 1], G[k][f[k - 1]])
  <2>1. /\ 0 \in 0 .. n
        /\ \A k \in 1 .. n : k \in 0 .. n /\ k # 0
    OBVIOUS
  <2>2. \A k \in 0 .. n : f[k] = IF k = 0 THEN << >> ELSE Append(f[k - 1], G[k][f[k - 1]])
    BY DEF Grown
  <2> QED BY <2>1, <2>2
<1> DEFINE S == {k \in Nat : k <= n => f[k] \in Seq(V) /\ Len(f[k]) = k}
<1>1. Nat \subseteq S
  <2>1. 0 \in S
    <3>1. << >> \in Seq(V) /\ Len(<< >>) = 0
      OBVIOUS
    <3> QED BY <1>0, <3>1
  <2>2. ASSUME NEW k \in Nat, k \in S PROVE k + 1 \in S
    <3>1. CASE k + 1 <= n
      <4>1. k + 1 \in 1 .. n /\ (k + 1) - 1 = k /\ f[k] \in Seq(V) /\ Len(f[k]) = k
        BY <2>2, <3>1
      <4>2. f[k + 1] = Append(f[k], G[k + 1][f[k]]) /\ G[k + 1] \in [Seq(V) -> V]
        BY <1>0, <4>1
      <4>3. G[k + 1][f[k]] \in V
        BY <4>1, <4>2
      <4>4. f[k + 1] \in Seq(V) /\ Len(f[k + 1]) = k + 1
        BY <4>1, <4>2, <4>3, AppendFacts
      <4> QED BY <4>4
    <3>2. CASE ~(k + 1 <= n)
      BY <3>2
    <3> QED BY <3>1, <3>2
  <2> HIDE DEF S
  <2> QED BY <2>1, <2>2, SetInduction
<1>2. ASSUME NEW k \in 0 .. n PROVE f[k] \in Seq(V) /\ Len(f[k]) = k
  BY <1>1
<1>3. ASSUME NEW k \in 1 .. n
      PROVE  /\ f[k][k] = G[k][f[k - 1]]
             /\ \A l \in 1 .. k - 1 : f[k][l] = f[k - 1][l]
  <2>1. k - 1 \in 0 .. n /\ f[k - 1] \in Seq(V) /\ Len(f[k - 1]) = k - 1
    BY <1>2
  <2>2. f[k] = Append(f[k - 1], G[k][f[k - 1]]) /\ G[k] \in [Seq(V) -> V]
    BY <1>0
  <2>3. G[k][f[k - 1]] \in V
    BY <2>1, <2>2
  <2> QED BY <2>1, <2>2, <2>3, AppendFacts
<1> DEFINE T == {m \in Nat : m <= n => \A k \in 0 .. m : \A l \in 1 .. k : f[m][l] = f[k][l]}
<1>4. Nat \subseteq T
  <2>1. 0 \in T
    OBVIOUS
  <2>2. ASSUME NEW m \in Nat, m \in T PROVE m + 1 \in T
    <3>1. ASSUME m + 1 <= n, NEW k \in 0 .. m + 1, NEW l \in 1 .. k PROVE f[m + 1][l] = f[k][l]
      <4>1. CASE k = m + 1
        BY <4>1
      <4>2. CASE k # m + 1
        <5>1. k \in 0 .. m /\ m <= n /\ m + 1 \in 1 .. n /\ (m + 1) - 1 = m /\ l \in 1 .. m
          BY <3>1, <4>2
        <5>2. f[m][l] = f[k][l]
          BY <2>2, <5>1
        <5>3. f[m + 1][l] = f[m][l]
          BY <1>3, <5>1
        <5> QED BY <5>2, <5>3
      <4> QED BY <4>1, <4>2
    <3> QED BY <3>1
  <2> HIDE DEF T
  <2> QED BY <2>1, <2>2, SetInduction
<1>5. ASSUME NEW k \in 0 .. n, NEW l \in 1 .. k PROVE f[n][l] = f[k][l]
  <2>1. n \in T
    BY <1>4
  <2> QED BY <2>1
<1>6. ASSUME NEW k \in 1 .. n
      PROVE  /\ f[k - 1] \in Seq(V) /\ Len(f[k - 1]) = k - 1
             /\ \A l \in 1 .. k - 1 : f[k - 1][l] = f[n][l]
             /\ f[n][k] = G[k][f[k - 1]]
  <2>1. k - 1 \in 0 .. n /\ k \in 0 .. n /\ k \in 1 .. k
    OBVIOUS
  <2> QED BY <1>2, <1>3, <1>5, <2>1
<1>7. n \in 0 .. n
  OBVIOUS
<1>8. f[n] \in Seq(V) /\ Len(f[n]) = n
  BY <1>2, <1>7
<1> HIDE DEF S, T
<1> QED BY <1>6, <1>8 DEF MadeBy

\* The arguments of a term are nodes.
Whole(h) ==
  \A k \in DOMAIN h : /\ h[k].arg1 < k /\ h[k].arg2 < k
                      /\ h[k].op # "REF" => h[k].arg1 # 0
                      /\ h[k].op \in {"AND", "OR"} => h[k].arg2 # 0

LEMMA NodeValueType ==
  ASSUME NEW n \in NodeType, NEW b, NEW pixel
  PROVE  NodeValue(n, b, pixel) \in BOOLEAN
<1>1. n.op \in {"REF", "NOT", "AND", "OR"}
  BY DEF NodeType
<1>2. CASE n.op = "REF"
  BY <1>2 DEF NodeValue
<1>3. CASE n.op = "NOT"
  BY <1>3 DEF NodeValue
<1>4. CASE n.op = "AND"
  BY <1>4 DEF NodeValue
<1>5. CASE n.op = "OR"
  BY <1>5 DEF NodeValue
<1> QED BY <1>1, <1>2, <1>3, <1>4, <1>5

\* The value of a node depends on those of its arguments.
LEMMA NodeValueSame ==
  ASSUME NEW n \in Nat, NEW x \in NodeType, x.arg1 < n, x.arg2 < n, NEW pixel,
         NEW b, NEW c, \A l \in 1 .. n - 1 : b[l] = c[l]
  PROVE  NodeValue(x, b, pixel) = NodeValue(x, c, pixel)
<1>1. x.arg1 \in Nat /\ x.arg2 \in Nat
  BY DEF NodeType
<1>2. /\ x.arg1 # 0 => b[x.arg1] = c[x.arg1]
      /\ x.arg2 # 0 => b[x.arg2] = c[x.arg2]
  BY <1>1
<1> QED BY <1>1, <1>2 DEF NodeValue

LEMMA ValuesAre ==
  ASSUME NEW t \in Seq(NodeType), Ordered(t), NEW pixel
  PROVE  /\ Values(t, pixel) \in Seq(BOOLEAN) /\ Len(Values(t, pixel)) = Len(t)
         /\ \A k \in 1 .. Len(t) : Values(t, pixel)[k] = NodeValue(t[k], Values(t, pixel), pixel)
<1> DEFINE n == Len(t)
           G == [k \in 1 .. n |-> [b \in Seq(BOOLEAN) |-> NodeValue(t[k], b, pixel)]]
           Is(f) == f = [k \in 0 .. n |->
                           IF k = 0 THEN << >> ELSE Append(f[k - 1], NodeValue(t[k], f[k - 1], pixel))]
           v == CHOOSE f : Is(f)
<1>1. n \in Nat /\ \A k \in 1 .. n : t[k] \in NodeType /\ t[k].arg1 < k /\ t[k].arg2 < k
  BY DEF Ordered
<1>2. Values(t, pixel) = v[n]
  BY DEF Values
<1>3. G \in [1 .. n -> [Seq(BOOLEAN) -> BOOLEAN]]
      /\ \A k \in 1 .. n, b \in Seq(BOOLEAN) : G[k][b] = NodeValue(t[k], b, pixel)
  BY <1>1, NodeValueType
<1> HIDE DEF n, G
<1>4. ASSUME NEW f, Grown(f, n, G), \A k \in 0 .. n : f[k] \in Seq(BOOLEAN) PROVE Is(f)
  <2>1. ASSUME NEW k \in 0 .. n
        PROVE  (IF k = 0 THEN << >> ELSE Append(f[k - 1], G[k][f[k - 1]]))
                 = IF k = 0 THEN << >> ELSE Append(f[k - 1], NodeValue(t[k], f[k - 1], pixel))
    <3>1. k # 0 => k - 1 \in 0 .. n /\ k \in 1 .. n
      BY <1>1
    <3> QED BY <1>3, <1>4, <3>1
  <2>2. f = [k \in 0 .. n |-> IF k = 0 THEN << >> ELSE Append(f[k - 1], G[k][f[k - 1]])]
    BY <1>4 DEF Grown
  <2> QED BY <2>1, <2>2
<1>5. PICK f \in [0 .. n -> Seq(BOOLEAN)] : Grown(f, n, G)
  BY <1>1, <1>3, GrownExists
<1>6. Is(f)
  BY <1>4, <1>5
<1>7. Is(v)
  <2> HIDE DEF Is
  <2> QED BY <1>6
<1> HIDE DEF v
<1>8. ASSUME NEW k \in 0 .. n PROVE v[k] = f[k]
  <2> DEFINE S == {m \in Nat : m <= n => v[m] = f[m]}
  <2>0. \A m \in 0 .. n : /\ v[m] = IF m = 0 THEN << >> ELSE Append(v[m - 1], NodeValue(t[m], v[m - 1], pixel))
                          /\ f[m] = IF m = 0 THEN << >> ELSE Append(f[m - 1], NodeValue(t[m], f[m - 1], pixel))
    BY <1>6, <1>7
  <2> HIDE DEF Is
  <2>1. 0 \in S
    BY <2>0, <1>1
  <2>2. ASSUME NEW m \in Nat, m \in S PROVE m + 1 \in S
    <3>1. CASE m + 1 <= n
      <4>1. m + 1 \in 0 .. n /\ (m + 1) - 1 = m /\ m + 1 # 0 /\ v[m] = f[m]
        BY <1>1, <2>2, <3>1
      <4>2. v[m + 1] = f[m + 1]
        BY <2>0, <4>1
      <4> QED BY <4>2
    <3>2. CASE ~(m + 1 <= n)
      BY <3>2
    <3> QED BY <3>1, <3>2
  <2>3. Nat \subseteq S
    <3> HIDE DEF S
    <3> QED BY <2>1, <2>2, SetInduction
  <2> QED BY <2>3
<1>9. v[n] = f[n] /\ n \in 0 .. n
  BY <1>1, <1>8
<1>10. /\ f[n] \in Seq(BOOLEAN) /\ Len(f[n]) = n
       /\ \A k \in 1 .. n : \E b \in Seq(BOOLEAN) :
            /\ Len(b) = k - 1 /\ \A l \in 1 .. k - 1 : b[l] = f[n][l]
            /\ f[n][k] = G[k][b]
  <2>1. G \in [1 .. n -> [Seq(BOOLEAN) -> BOOLEAN]]
    BY <1>3
  <2>2. Grown(f, n, G)
    BY <1>5
  <2>3. f[n] \in Seq(BOOLEAN) /\ Len(f[n]) = n /\ MadeBy(f[n], n, BOOLEAN, G)
    BY <1>1, <2>1, <2>2, GrownIs
  <2> QED BY <2>3 DEF MadeBy
<1>11. ASSUME NEW k \in 1 .. n PROVE f[n][k] = NodeValue(t[k], f[n], pixel)
  <2>1. PICK b \in Seq(BOOLEAN) : /\ \A l \in 1 .. k - 1 : b[l] = f[n][l]
                                  /\ f[n][k] = G[k][b]
    BY <1>10
  <2>2. NodeValue(t[k], b, pixel) = NodeValue(t[k], f[n], pixel)
    <3> DEFINE c == f[n]
               x == t[k]
    <3>1. k \in Nat /\ x \in NodeType /\ x.arg1 < k /\ x.arg2 < k /\ \A l \in 1 .. k - 1 : b[l] = c[l]
      BY <1>1, <2>1
    <3> HIDE DEF c, x
    <3>2. NodeValue(x, b, pixel) = NodeValue(x, c, pixel)
      BY <3>1, NodeValueSame
    <3> QED BY <3>2 DEF c, x
  <2> QED BY <1>3, <2>1, <2>2
<1> QED BY <1>2, <1>9, <1>10, <1>11 DEF n

-----------------------------------------------------------------------------
(***************************************************************************)
(* The value of a term that one more node was added to.                    *)
(***************************************************************************)

LEMMA ValueSame ==
  ASSUME NEW h \in Seq(NodeType), NEW k \in Seq(NodeType), Extends(h, k), Ordered(k), NEW pixel
  PROVE  /\ Ordered(h)
         /\ \A n \in 1 .. Len(h) : Values(k, pixel)[n] = Values(h, pixel)[n]
<1>1. /\ Len(h) \in Nat /\ Len(k) \in Nat /\ Len(h) <= Len(k)
      /\ \A n \in 1 .. Len(h) : n \in 1 .. Len(k) /\ k[n] = h[n]
      /\ DOMAIN h = 1 .. Len(h) /\ DOMAIN k = 1 .. Len(k)
  BY DEF Extends
<1>2. Ordered(h)
  BY <1>1 DEF Ordered
<1> DEFINE v == Values(k, pixel)
           w == Values(h, pixel)
<1>3. /\ \A n \in 1 .. Len(k) : v[n] = NodeValue(k[n], v, pixel)
      /\ \A n \in 1 .. Len(h) : w[n] = NodeValue(h[n], w, pixel)
  BY <1>2, ValuesAre
<1> HIDE DEF v, w
<1> DEFINE S == {n \in Nat : n <= Len(h) => \A m \in 1 .. n : v[m] = w[m]}
<1>4. 0 \in S
  OBVIOUS
<1>5. ASSUME NEW n \in Nat, n \in S PROVE n + 1 \in S
  <2>1. ASSUME n + 1 <= Len(h) PROVE v[n + 1] = w[n + 1]
    <3> DEFINE x == h[n + 1]
    <3>1. /\ n + 1 \in 1 .. Len(h) /\ k[n + 1] = x /\ x \in NodeType /\ n + 1 \in Nat
          /\ x.arg1 < n + 1 /\ x.arg2 < n + 1
          /\ \A l \in 1 .. (n + 1) - 1 : v[l] = w[l]
      BY <1>1, <1>2, <1>5, <2>1 DEF Ordered
    <3>2. v[n + 1] = NodeValue(x, v, pixel) /\ w[n + 1] = NodeValue(x, w, pixel)
      BY <1>1, <1>3, <3>1
    <3> HIDE DEF x
    <3>3. NodeValue(x, v, pixel) = NodeValue(x, w, pixel)
      BY <3>1, NodeValueSame
    <3> QED BY <3>2, <3>3
  <2> QED BY <1>1, <1>5, <2>1
<1>6. Nat \subseteq S
  <2> HIDE DEF S
  <2> QED BY <1>4, <1>5, SetInduction
<1>7. \A n \in 1 .. Len(h) : v[n] = w[n]
  BY <1>1, <1>6
<1> QED BY <1>2, <1>7 DEF v, w

\* Another node is added.
LEMMA AppendExtends ==
  ASSUME NEW k \in Seq(NodeType), NEW x \in NodeType
  PROVE  /\ Append(k, x) \in Seq(NodeType) /\ Len(Append(k, x)) = Len(k) + 1 /\ Len(k) \in Nat
         /\ Append(k, x)[Len(k) + 1] = x /\ DOMAIN Append(k, x) = 1 .. Len(k) + 1
         /\ Extends(k, Append(k, x))
         /\ Ordered(k) /\ x.arg1 <= Len(k) /\ x.arg2 <= Len(k) => Ordered(Append(k, x))
<1>1. /\ Append(k, x) \in Seq(NodeType) /\ Len(Append(k, x)) = Len(k) + 1 /\ Len(k) \in Nat
      /\ Append(k, x)[Len(k) + 1] = x
      /\ DOMAIN k = 1 .. Len(k) /\ DOMAIN Append(k, x) = 1 .. Len(k) + 1
      /\ \A i \in 1 .. Len(k) : Append(k, x)[i] = k[i]
  BY AppendFacts
<1>2. Extends(k, Append(k, x))
  BY <1>1 DEF Extends
<1>3. ASSUME Ordered(k), x.arg1 <= Len(k), x.arg2 <= Len(k) PROVE Ordered(Append(k, x))
  <2>1. x.arg1 \in Nat /\ x.arg2 \in Nat
    BY DEF NodeType
  <2>2. ASSUME NEW i \in 1 .. Len(k) + 1
        PROVE  Append(k, x)[i].arg1 < i /\ Append(k, x)[i].arg2 < i
    <3>1. CASE i \in 1 .. Len(k)
      BY <1>1, <1>3, <3>1 DEF Ordered
    <3>2. CASE i = Len(k) + 1
      BY <1>1, <1>3, <2>1, <3>2
    <3> QED BY <1>1, <3>1, <3>2
  <2> QED BY <1>1, <2>2 DEF Ordered
<1> QED BY <1>1, <1>2, <1>3

LEMMA HoldsNode ==
  ASSUME NEW k \in Seq(NodeType), Ordered(k), NEW x \in NodeType,
         x.arg1 <= Len(k), x.arg2 <= Len(k), NEW pixel
  PROVE  Holds(Append(k, x), pixel) = NodeValue(x, Values(k, pixel), pixel)
<1> DEFINE a == Append(k, x)
           v == Values(a, pixel)
           w == Values(k, pixel)
<1>1. /\ a \in Seq(NodeType) /\ Len(a) = Len(k) + 1 /\ Len(k) \in Nat /\ a[Len(k) + 1] = x
      /\ Extends(k, a) /\ Ordered(a)
  BY AppendExtends
<1> HIDE DEF a
<1>2. v[Len(a)] = NodeValue(x, v, pixel)
  BY <1>1, ValuesAre
<1>3. \A n \in 1 .. Len(k) : v[n] = w[n]
  BY <1>1, ValueSame
<1> HIDE DEF v, w
<1>4. NodeValue(x, v, pixel) = NodeValue(x, w, pixel)
  <2>1. \A l \in 1 .. (Len(k) + 1) - 1 : v[l] = w[l]
    BY <1>1, <1>3
  <2>2. Len(k) + 1 \in Nat /\ x.arg1 < Len(k) + 1 /\ x.arg2 < Len(k) + 1
    BY <1>1 DEF NodeType
  <2> DEFINE n == Len(k) + 1
  <2>3. n \in Nat /\ x.arg1 < n /\ x.arg2 < n /\ \A l \in 1 .. n - 1 : v[l] = w[l]
    BY <2>1, <2>2
  <2> HIDE DEF n
  <2> QED BY <2>3, NodeValueSame
<1>5. Holds(a, pixel) = v[Len(a)]
  BY DEF Holds, v
<1> QED BY <1>2, <1>4, <1>5 DEF a, w

LEMMA HoldsRef ==
  ASSUME NEW k \in Seq(NodeType), Ordered(k), NEW a \in Token, NEW b \in Token, NEW pixel
  PROVE  Holds(Append(k, REF(a, b)), pixel) <=> <<a, b>> \in pixel
<1> DEFINE x == REF(a, b)
<1>1. x \in NodeType /\ x.arg1 = 0 /\ x.arg2 = 0 /\ x.op = "REF" /\ x.band = a /\ x.flag = b
  BY NodeTypes DEF REF
<1> HIDE DEF x
<1>2. Len(k) \in Nat
  OBVIOUS
<1>3. Holds(Append(k, x), pixel) = NodeValue(x, Values(k, pixel), pixel)
  BY <1>1, <1>2, HoldsNode
<1>4. NodeValue(x, Values(k, pixel), pixel) <=> <<a, b>> \in pixel
  BY <1>1 DEF NodeValue
<1> QED BY <1>3, <1>4 DEF x

LEMMA HoldsNot ==
  ASSUME NEW k \in Seq(NodeType), Ordered(k), Len(k) # 0, NEW pixel
  PROVE  Holds(Append(k, NOT(Len(k))), pixel) <=> ~Holds(k, pixel)
<1> DEFINE x == NOT(Len(k))
<1>1. Len(k) \in Nat
  OBVIOUS
<1>2. x \in NodeType /\ x.arg1 = Len(k) /\ x.arg2 = 0 /\ x.op = "NOT"
  BY <1>1, NodeTypes DEF NOT
<1> HIDE DEF x
<1>3. Holds(Append(k, x), pixel) = NodeValue(x, Values(k, pixel), pixel)
  BY <1>1, <1>2, HoldsNode
<1>4. NodeValue(x, Values(k, pixel), pixel) <=> ~Values(k, pixel)[Len(k)]
  BY <1>2 DEF NodeValue
<1> QED BY <1>3, <1>4 DEF x, Holds

LEMMA HoldsTwo ==
  ASSUME NEW h \in Seq(NodeType), NEW k \in Seq(NodeType), Extends(h, k), Ordered(k),
         Len(h) # 0, NEW pixel
  PROVE  /\ Holds(Append(k, AND(Len(h), Len(k))), pixel) <=> Holds(h, pixel) /\ Holds(k, pixel)
         /\ Holds(Append(k, OR(Len(h), Len(k))), pixel) <=> Holds(h, pixel) \/ Holds(k, pixel)
<1> DEFINE x == AND(Len(h), Len(k))
           y == OR(Len(h), Len(k))
           v == Values(k, pixel)
<1>1. Len(h) \in Nat /\ Len(k) \in Nat /\ Len(h) <= Len(k) /\ Len(h) \in 1 .. Len(h)
  BY DEF Extends
<1>2. /\ x \in NodeType /\ x.arg1 = Len(h) /\ x.arg2 = Len(k) /\ x.op = "AND"
      /\ y \in NodeType /\ y.arg1 = Len(h) /\ y.arg2 = Len(k) /\ y.op = "OR"
  BY <1>1, NodeTypes DEF AND, OR
<1>3. Values(k, pixel)[Len(h)] = Values(h, pixel)[Len(h)]
  BY <1>1, ValueSame
<1>4. Holds(h, pixel) = v[Len(h)] /\ Holds(k, pixel) = v[Len(k)]
  BY <1>3 DEF Holds
<1> HIDE DEF x, y
<1>5. /\ Holds(Append(k, x), pixel) = NodeValue(x, v, pixel)
      /\ Holds(Append(k, y), pixel) = NodeValue(y, v, pixel)
  BY <1>1, <1>2, HoldsNode
<1> HIDE DEF v
<1>6. Len(h) # 0 /\ Len(k) # 0
  BY <1>1
<1>7. NodeValue(x, v, pixel) <=> v[Len(h)] /\ v[Len(k)]
  BY <1>2, <1>6 DEF NodeValue
<1>8. NodeValue(y, v, pixel) <=> v[Len(h)] \/ v[Len(k)]
  BY <1>2, <1>6 DEF NodeValue
<1> QED BY <1>4, <1>5, <1>7, <1>8 DEF x, y

-----------------------------------------------------------------------------
(***************************************************************************)
(* The text of a term, by the texts of its nodes in their order.           *)
(***************************************************************************)

LEMMA WholeOrdered ==
  ASSUME NEW h, Whole(h)
  PROVE  Ordered(h)
  BY DEF Whole, Ordered

LEMMA KeywordFacts ==
  /\ "NOT" \in Token /\ "AND" \in Token /\ "OR" \in Token
  /\ "(" \in Token /\ ")" \in Token /\ "." \in Token
  BY DEF Token, Special, NotToken, AndToken, OrToken

\* A node whose arguments are among n - 1 nodes, as far as it has any.
Argued(x, n) == /\ x.arg1 < n /\ x.arg2 < n
                /\ x.op # "REF" => x.arg1 # 0
                /\ x.op \in {"AND", "OR"} => x.arg2 # 0

LEMMA WrittenType ==
  ASSUME NEW n \in Nat, NEW x \in NodeType, Argued(x, n),
         NEW b \in Seq(Seq(Token)), Len(b) = n - 1
  PROVE  Written(x, b) \in Seq(Token)
<1>1. /\ x.arg1 \in Nat /\ x.arg2 \in Nat /\ x.op \in {"REF", "NOT", "AND", "OR"}
      /\ x.band \in Token /\ x.flag \in Token
  BY DEF NodeType
<1>2. /\ x.arg1 # 0 => b[x.arg1] \in Seq(Token)
      /\ x.arg2 # 0 => b[x.arg2] \in Seq(Token)
  BY <1>1 DEF Argued
<1>3. CASE x.op = "REF"
  <2>1. <<x.band, ".", x.flag>> \in Seq(Token)
    BY <1>1, KeywordFacts
  <2> QED BY <1>3, <2>1 DEF Written
<1>4. CASE x.op = "NOT"
  <2> DEFINE s == b[x.arg1]
  <2>1. s \in Seq(Token)
    BY <1>2, <1>4 DEF Argued
  <2>2. <<"NOT", "(">> \in Seq(Token) /\ <<")">> \in Seq(Token)
    BY KeywordFacts
  <2>3. Written(x, b) = <<"NOT", "(">> \o s \o <<")">>
    BY <1>4 DEF Written
  <2> HIDE DEF s
  <2> QED BY <2>1, <2>2, <2>3
<1>5. CASE x.op \in {"AND", "OR"}
  <2> DEFINE s == b[x.arg1]
             t == b[x.arg2]
             o == x.op
             mid == <<")", o, "(">>
  <2>1. s \in Seq(Token) /\ t \in Seq(Token)
    BY <1>2, <1>5 DEF Argued
  <2>2. o \in Token
    BY <1>5, KeywordFacts
  <2>3. Written(x, b) = <<"(">> \o s \o mid \o t \o <<")">>
    BY <1>5 DEF Written
  <2> HIDE DEF s, t, o
  <2>4. <<"(">> \in Seq(Token) /\ <<")">> \in Seq(Token) /\ mid \in Seq(Token)
    BY <2>2, KeywordFacts
  <2> HIDE DEF mid
  <2> QED BY <2>1, <2>3, <2>4
<1> QED BY <1>1, <1>3, <1>4, <1>5

LEMMA WrittenSame ==
  ASSUME NEW n \in Nat, NEW x \in NodeType, Argued(x, n),
         NEW b, NEW c, \A l \in 1 .. n - 1 : b[l] = c[l]
  PROVE  Written(x, b) = Written(x, c)
<1>1. x.arg1 \in Nat /\ x.arg2 \in Nat /\ x.op \in {"REF", "NOT", "AND", "OR"}
  BY DEF NodeType
<1>2. /\ x.arg1 # 0 => b[x.arg1] = c[x.arg1]
      /\ x.arg2 # 0 => b[x.arg2] = c[x.arg2]
  BY <1>1 DEF Argued
<1>3. CASE x.op = "REF"
  BY <1>3 DEF Written
<1>4. CASE x.op = "NOT"
  BY <1>2, <1>4 DEF Written, Argued
<1>5. CASE x.op \in {"AND", "OR"}
  BY <1>2, <1>5 DEF Written, Argued
<1> QED BY <1>1, <1>3, <1>4, <1>5

LEMMA TextsAre ==
  ASSUME NEW t \in Seq(NodeType), Whole(t)
  PROVE  /\ Texts(t) \in Seq(Seq(Token)) /\ Len(Texts(t)) = Len(t)
         /\ \A k \in 1 .. Len(t) : Texts(t)[k] = Written(t[k], Texts(t))
<1> DEFINE n == Len(t)
           V == Seq(Token)
           G == [k \in 1 .. n |-> [b \in Seq(V) |-> IF Len(b) = k - 1 THEN Written(t[k], b) ELSE << >>]]
           Is(f) == f = [k \in 0 .. n |->
                           IF k = 0 THEN << >> ELSE Append(f[k - 1], Written(t[k], f[k - 1]))]
           v == CHOOSE f : Is(f)
<1>1. n \in Nat /\ \A k \in 1 .. n : t[k] \in NodeType /\ Argued(t[k], k)
  BY DEF Whole, Argued
<1>2. Texts(t) = v[n]
  BY DEF Texts
<1>3a. ASSUME NEW k \in 1 .. n, NEW b \in Seq(V)
       PROVE  (IF Len(b) = k - 1 THEN Written(t[k], b) ELSE << >>) \in V
  <2>1. << >> \in V
    OBVIOUS
  <2> DEFINE x == t[k]
  <2>2. k \in Nat /\ x \in NodeType /\ Argued(x, k)
    BY <1>1
  <2> HIDE DEF x
  <2>3. Len(b) = k - 1 => Written(x, b) \in V
    BY <2>2, WrittenType
  <2> QED BY <2>1, <2>3 DEF x
<1>3. G \in [1 .. n -> [Seq(V) -> V]]
      /\ \A k \in 1 .. n, b \in Seq(V) : Len(b) = k - 1 => G[k][b] = Written(t[k], b)
  BY <1>3a
<1> HIDE DEF n, G, V
<1>4. ASSUME NEW f, Grown(f, n, G) PROVE Is(f)
  <2> DEFINE S == {k \in Nat : k <= n => f[k] \in Seq(V) /\ Len(f[k]) = k}
  <2>1. f = [k \in 0 .. n |-> IF k = 0 THEN << >> ELSE Append(f[k - 1], G[k][f[k - 1]])]
    BY <1>4 DEF Grown
  <2>2. ASSUME NEW k \in 0 .. n
        PROVE  f[k] = IF k = 0 THEN << >> ELSE Append(f[k - 1], G[k][f[k - 1]])
    BY <2>1
  <2>3. 0 \in S
    <3>1. << >> \in Seq(V) /\ Len(<< >>) = 0 /\ 0 \in 0 .. n
      BY <1>1
    <3> QED BY <2>2, <3>1
  <2>4. ASSUME NEW k \in Nat, k \in S PROVE k + 1 \in S
    <3>1. ASSUME k + 1 <= n PROVE f[k + 1] \in Seq(V) /\ Len(f[k + 1]) = k + 1
      <4>1. k + 1 \in 0 .. n /\ k + 1 \in 1 .. n /\ k + 1 # 0 /\ (k + 1) - 1 = k
            /\ f[k] \in Seq(V) /\ Len(f[k]) = k
        BY <1>1, <2>4, <3>1
      <4>2. f[k + 1] = Append(f[k], G[k + 1][f[k]])
        BY <2>2, <4>1
      <4>3. G[k + 1] \in [Seq(V) -> V]
        BY <1>3, <4>1
      <4>4. G[k + 1][f[k]] \in V
        BY <4>1, <4>3
      <4> QED BY <4>1, <4>2, <4>4, AppendFacts
    <3> QED BY <3>1
  <2>5. Nat \subseteq S
    <3> HIDE DEF S
    <3> QED BY <2>3, <2>4, SetInduction
  <2>6. \A k \in 0 .. n : f[k] \in Seq(V) /\ Len(f[k]) = k
    BY <2>5
  <2> HIDE DEF S
  <2>7. ASSUME NEW k \in 0 .. n
        PROVE  (IF k = 0 THEN << >> ELSE Append(f[k - 1], G[k][f[k - 1]]))
                 = IF k = 0 THEN << >> ELSE Append(f[k - 1], Written(t[k], f[k - 1]))
    <3>1. k # 0 => k - 1 \in 0 .. n /\ k \in 1 .. n
      BY <1>1
    <3>2. k # 0 => f[k - 1] \in Seq(V) /\ Len(f[k - 1]) = k - 1
      BY <2>6, <3>1
    <3> QED BY <1>3, <3>1, <3>2
  <2> QED BY <2>1, <2>7
<1>5. PICK f \in [0 .. n -> Seq(V)] : Grown(f, n, G)
  BY <1>1, <1>3, GrownExists
<1>6. Is(f)
  BY <1>4, <1>5
<1>7. Is(v)
  <2> HIDE DEF Is
  <2> QED BY <1>6
<1> HIDE DEF v
<1>8. ASSUME NEW k \in 0 .. n PROVE v[k] = f[k]
  <2> DEFINE S == {m \in Nat : m <= n => v[m] = f[m]}
  <2>0. \A m \in 0 .. n : /\ v[m] = IF m = 0 THEN << >> ELSE Append(v[m - 1], Written(t[m], v[m - 1]))
                          /\ f[m] = IF m = 0 THEN << >> ELSE Append(f[m - 1], Written(t[m], f[m - 1]))
    BY <1>6, <1>7
  <2> HIDE DEF Is
  <2>1. 0 \in S
    BY <2>0, <1>1
  <2>2. ASSUME NEW m \in Nat, m \in S PROVE m + 1 \in S
    <3>1. CASE m + 1 <= n
      <4>1. m + 1 \in 0 .. n /\ (m + 1) - 1 = m /\ m + 1 # 0 /\ v[m] = f[m]
        BY <1>1, <2>2, <3>1
      <4>2. v[m + 1] = f[m + 1]
        BY <2>0, <4>1
      <4> QED BY <4>2
    <3>2. CASE ~(m + 1 <= n)
      BY <3>2
    <3> QED BY <3>1, <3>2
  <2>3. Nat \subseteq S
    <3> HIDE DEF S
    <3> QED BY <2>1, <2>2, SetInduction
  <2> QED BY <2>3
<1>9. v[n] = f[n] /\ n \in 0 .. n
  BY <1>1, <1>8
<1>10. /\ f[n] \in Seq(V) /\ Len(f[n]) = n
       /\ \A k \in 1 .. n : \E b \in Seq(V) :
            /\ Len(b) = k - 1 /\ \A l \in 1 .. k - 1 : b[l] = f[n][l]
            /\ f[n][k] = G[k][b]
  <2>1. G \in [1 .. n -> [Seq(V) -> V]]
    BY <1>3
  <2>2. Grown(f, n, G)
    BY <1>5
  <2>3. f[n] \in Seq(V) /\ Len(f[n]) = n /\ MadeBy(f[n], n, V, G)
    BY <1>1, <2>1, <2>2, GrownIs
  <2> QED BY <2>3 DEF MadeBy
<1>11. ASSUME NEW k \in 1 .. n PROVE f[n][k] = Written(t[k], f[n])
  <2>1. PICK b \in Seq(V) : /\ Len(b) = k - 1
                            /\ \A l \in 1 .. k - 1 : b[l] = f[n][l]
                            /\ f[n][k] = G[k][b]
    BY <1>10
  <2>2. Written(t[k], b) = Written(t[k], f[n])
    <3> DEFINE c == f[n]
               x == t[k]
    <3>1. k \in Nat /\ x \in NodeType /\ Argued(x, k) /\ \A l \in 1 .. k - 1 : b[l] = c[l]
      BY <1>1, <2>1
    <3> HIDE DEF c, x
    <3>2. Written(x, b) = Written(x, c)
      BY <3>1, WrittenSame
    <3> QED BY <3>2 DEF c, x
  <2> QED BY <1>3, <2>1, <2>2
<1> QED BY <1>2, <1>9, <1>10, <1>11 DEF n, V

-----------------------------------------------------------------------------
(***************************************************************************)
(* The text of a term that one more node was added to.                     *)
(***************************************************************************)

LEMMA WholeAppend ==
  ASSUME NEW k \in Seq(NodeType), Whole(k), NEW x \in NodeType, Argued(x, Len(k) + 1)
  PROVE  Whole(Append(k, x))
<1>1. /\ Append(k, x) \in Seq(NodeType) /\ Len(k) \in Nat
      /\ Append(k, x)[Len(k) + 1] = x
      /\ DOMAIN k = 1 .. Len(k) /\ DOMAIN Append(k, x) = 1 .. Len(k) + 1
      /\ \A i \in 1 .. Len(k) : Append(k, x)[i] = k[i]
  BY AppendFacts
<1>2. ASSUME NEW i \in 1 .. Len(k) + 1 PROVE Argued(Append(k, x)[i], i)
  <2>1. CASE i \in 1 .. Len(k)
    BY <1>1, <2>1 DEF Whole, Argued
  <2>2. CASE i = Len(k) + 1
    BY <1>1, <2>2
  <2> QED BY <1>1, <2>1, <2>2
<1> QED BY <1>1, <1>2 DEF Whole, Argued

LEMMA WholePrefix ==
  ASSUME NEW h \in Seq(NodeType), NEW k \in Seq(NodeType), Extends(h, k), Whole(k)
  PROVE  Whole(h)
<1>1. /\ DOMAIN h = 1 .. Len(h) /\ DOMAIN k = 1 .. Len(k) /\ Len(h) \in Nat /\ Len(k) \in Nat
      /\ \A n \in 1 .. Len(h) : n \in 1 .. Len(k) /\ k[n] = h[n]
  BY DEF Extends
<1> QED BY <1>1 DEF Whole

LEMMA TextSame ==
  ASSUME NEW h \in Seq(NodeType), NEW k \in Seq(NodeType), Extends(h, k), Whole(k)
  PROVE  \A n \in 1 .. Len(h) : Texts(k)[n] = Texts(h)[n]
<1>1. /\ Len(h) \in Nat /\ Len(k) \in Nat /\ Len(h) <= Len(k)
      /\ \A n \in 1 .. Len(h) : n \in 1 .. Len(k) /\ k[n] = h[n]
      /\ DOMAIN h = 1 .. Len(h) /\ DOMAIN k = 1 .. Len(k)
  BY DEF Extends
<1>2. Whole(h)
  BY WholePrefix
<1> DEFINE v == Texts(k)
           w == Texts(h)
<1>3. /\ \A n \in 1 .. Len(k) : v[n] = Written(k[n], v)
      /\ \A n \in 1 .. Len(h) : w[n] = Written(h[n], w)
  BY <1>2, TextsAre
<1> HIDE DEF v, w
<1> DEFINE S == {n \in Nat : n <= Len(h) => \A m \in 1 .. n : v[m] = w[m]}
<1>4. 0 \in S
  OBVIOUS
<1>5. ASSUME NEW n \in Nat, n \in S PROVE n + 1 \in S
  <2>1. ASSUME n + 1 <= Len(h) PROVE v[n + 1] = w[n + 1]
    <3> DEFINE x == h[n + 1]
    <3>1. /\ n + 1 \in 1 .. Len(h) /\ k[n + 1] = x /\ x \in NodeType /\ n + 1 \in Nat
          /\ Argued(x, n + 1)
          /\ \A l \in 1 .. (n + 1) - 1 : v[l] = w[l]
      BY <1>1, <1>2, <1>5, <2>1 DEF Whole, Argued
    <3>2. v[n + 1] = Written(x, v) /\ w[n + 1] = Written(x, w)
      BY <1>1, <1>3, <3>1
    <3> HIDE DEF x
    <3>3. Written(x, v) = Written(x, w)
      <4> DEFINE m == n + 1
      <4>1. m \in Nat /\ x \in NodeType /\ Argued(x, m) /\ \A l \in 1 .. m - 1 : v[l] = w[l]
        BY <3>1
      <4> HIDE DEF m
      <4> QED BY <4>1, WrittenSame
    <3> QED BY <3>2, <3>3
  <2> QED BY <1>1, <1>5, <2>1
<1>6. Nat \subseteq S
  <2> HIDE DEF S
  <2> QED BY <1>4, <1>5, SetInduction
<1>7. \A n \in 1 .. Len(h) : v[n] = w[n]
  BY <1>1, <1>6
<1> QED BY <1>7 DEF v, w

LEMMA TextNode ==
  ASSUME NEW k \in Seq(NodeType), Whole(k), NEW x \in NodeType, Argued(x, Len(k) + 1)
  PROVE  epr_create_bm_expr(Append(k, x)) = Written(x, Texts(k))
<1> DEFINE a == Append(k, x)
           v == Texts(a)
           w == Texts(k)
<1>1. /\ a \in Seq(NodeType) /\ Len(a) = Len(k) + 1 /\ Len(k) \in Nat /\ a[Len(k) + 1] = x
      /\ Extends(k, a) /\ Whole(a)
  BY AppendExtends, WholeAppend
<1> HIDE DEF a
<1>2. v[Len(a)] = Written(x, v)
  BY <1>1, TextsAre
<1>3. \A n \in 1 .. Len(k) : v[n] = w[n]
  BY <1>1, TextSame
<1> HIDE DEF v, w
<1>4. Written(x, v) = Written(x, w)
  <2> DEFINE n == Len(k) + 1
  <2>1. n \in Nat /\ Argued(x, n) /\ \A l \in 1 .. n - 1 : v[l] = w[l]
    BY <1>1, <1>3
  <2> HIDE DEF n
  <2> QED BY <2>1, WrittenSame
<1>5. epr_create_bm_expr(a) = v[Len(a)]
  BY DEF epr_create_bm_expr, v
<1> QED BY <1>2, <1>4, <1>5 DEF a, w

LEMMA TextType ==
  ASSUME NEW h \in Seq(NodeType), Whole(h), Len(h) # 0
  PROVE  epr_create_bm_expr(h) \in Seq(Token) /\ epr_create_bm_expr(h) # << >>
<1> DEFINE x == h[Len(h)]
           w == Texts(h)
<1>1. Len(h) \in 1 .. Len(h) /\ Len(h) \in Nat /\ x \in NodeType
  OBVIOUS
<1>2. w \in Seq(Seq(Token)) /\ Len(w) = Len(h) /\ w[Len(h)] = Written(x, w)
  BY <1>1, TextsAre
<1>3. epr_create_bm_expr(h) = w[Len(h)]
  BY DEF epr_create_bm_expr
<1>4. epr_create_bm_expr(h) \in Seq(Token)
  <2> HIDE DEF w
  <2> QED BY <1>1, <1>2, <1>3
<1>5. Argued(x, Len(h)) /\ x.op \in {"REF", "NOT", "AND", "OR"}
      /\ x.arg1 \in Nat /\ x.arg2 \in Nat /\ x.band \in Token /\ x.flag \in Token
  BY <1>1 DEF Whole, Argued, NodeType
<1>6. /\ x.arg1 # 0 => w[x.arg1] \in Seq(Token)
      /\ x.arg2 # 0 => w[x.arg2] \in Seq(Token)
  <2> HIDE DEF w, x
  <2> QED BY <1>1, <1>2, <1>5 DEF Argued
<1> HIDE DEF w, x
<1>7. Written(x, w) # << >>
  <2>1. CASE x.op = "REF"
    BY <2>1 DEF Written
  <2>2. CASE x.op = "NOT"
    <3> DEFINE s == w[x.arg1]
    <3>1. s \in Seq(Token)
      BY <1>5, <1>6, <2>2 DEF Argued
    <3>2. Written(x, w) = <<"NOT", "(">> \o s \o <<")">>
      BY <2>2 DEF Written
    <3> HIDE DEF s
    <3>3. Len(Written(x, w)) = 3 + Len(s) /\ Len(s) \in Nat
      BY <3>1, <3>2
    <3> QED BY <3>3
  <2>3. CASE x.op \in {"AND", "OR"}
    <3> DEFINE s == w[x.arg1]
               t == w[x.arg2]
               o == x.op
    <3>1. s \in Seq(Token) /\ t \in Seq(Token)
      BY <1>5, <1>6, <2>3 DEF Argued
    <3>2. Written(x, w) = <<"(">> \o s \o <<")", o, "(">> \o t \o <<")">>
      BY <2>3 DEF Written
    <3> HIDE DEF s, t, o
    <3>3. Len(Written(x, w)) = 5 + Len(s) + Len(t) /\ Len(s) \in Nat /\ Len(t) \in Nat
      BY <3>1, <3>2
    <3> QED BY <3>3
  <2> QED BY <1>5, <2>1, <2>2, <2>3
<1> QED BY <1>2, <1>3, <1>4, <1>7

\* The texts of the terms that the parser makes.
LEMMA TextRef ==
  ASSUME NEW k \in Seq(NodeType), Whole(k), NEW a \in Token, NEW b \in Token
  PROVE  /\ Whole(Append(k, REF(a, b)))
         /\ epr_create_bm_expr(Append(k, REF(a, b))) = <<a, ".", b>>
<1> DEFINE x == REF(a, b)
<1>1. x \in NodeType /\ x.arg1 = 0 /\ x.arg2 = 0 /\ x.op = "REF" /\ x.band = a /\ x.flag = b
  BY NodeTypes DEF REF
<1> HIDE DEF x
<1>2. Argued(x, Len(k) + 1)
  BY <1>1 DEF Argued
<1>3. epr_create_bm_expr(Append(k, x)) = Written(x, Texts(k)) /\ Whole(Append(k, x))
  BY <1>1, <1>2, TextNode, WholeAppend
<1>4. Written(x, Texts(k)) = <<a, ".", b>>
  BY <1>1 DEF Written
<1> QED BY <1>3, <1>4 DEF x

LEMMA TextNot ==
  ASSUME NEW k \in Seq(NodeType), Whole(k), Len(k) # 0
  PROVE  /\ Whole(Append(k, NOT(Len(k))))
         /\ epr_create_bm_expr(Append(k, NOT(Len(k)))) = <<"NOT", "(">> \o epr_create_bm_expr(k) \o <<")">>
<1> DEFINE x == NOT(Len(k))
           w == Texts(k)
<1>1. Len(k) \in Nat
  OBVIOUS
<1>2. x \in NodeType /\ x.arg1 = Len(k) /\ x.arg2 = 0 /\ x.op = "NOT"
  BY <1>1, NodeTypes DEF NOT
<1> HIDE DEF x
<1>3. Argued(x, Len(k) + 1)
  BY <1>1, <1>2 DEF Argued
<1>4. epr_create_bm_expr(Append(k, x)) = Written(x, w) /\ Whole(Append(k, x))
  BY <1>2, <1>3, TextNode, WholeAppend
<1>5. Written(x, w) = <<"NOT", "(">> \o w[Len(k)] \o <<")">>
  BY <1>2 DEF Written
<1>6. epr_create_bm_expr(k) = w[Len(k)]
  BY DEF epr_create_bm_expr
<1> QED BY <1>4, <1>5, <1>6 DEF x

LEMMA TextTwo ==
  ASSUME NEW h \in Seq(NodeType), NEW k \in Seq(NodeType), Extends(h, k), Whole(k), Len(h) # 0
  PROVE  LET s == epr_create_bm_expr(h)
             t == epr_create_bm_expr(k)
         IN  /\ Whole(Append(k, AND(Len(h), Len(k))))
             /\ Whole(Append(k, OR(Len(h), Len(k))))
             /\ epr_create_bm_expr(Append(k, AND(Len(h), Len(k)))) = <<"(">> \o s \o <<")", "AND", "(">> \o t \o <<")">>
             /\ epr_create_bm_expr(Append(k, OR(Len(h), Len(k)))) = <<"(">> \o s \o <<")", "OR", "(">> \o t \o <<")">>
<1> DEFINE x == AND(Len(h), Len(k))
           y == OR(Len(h), Len(k))
           w == Texts(k)
           s == epr_create_bm_expr(h)
           t == epr_create_bm_expr(k)
<1>1. Len(h) \in Nat /\ Len(k) \in Nat /\ Len(h) <= Len(k) /\ Len(h) \in 1 .. Len(h) /\ Len(k) # 0
  BY DEF Extends
<1>2. /\ x \in NodeType /\ x.arg1 = Len(h) /\ x.arg2 = Len(k) /\ x.op = "AND"
      /\ y \in NodeType /\ y.arg1 = Len(h) /\ y.arg2 = Len(k) /\ y.op = "OR"
  BY <1>1, NodeTypes DEF AND, OR
<1>3. Texts(k)[Len(h)] = Texts(h)[Len(h)]
  BY <1>1, TextSame
<1>4. w[Len(h)] = s /\ w[Len(k)] = t
  BY <1>3 DEF epr_create_bm_expr
<1> HIDE DEF x, y
<1>5. Argued(x, Len(k) + 1) /\ Argued(y, Len(k) + 1)
  BY <1>1, <1>2 DEF Argued
<1>6. /\ epr_create_bm_expr(Append(k, x)) = Written(x, w) /\ Whole(Append(k, x))
      /\ epr_create_bm_expr(Append(k, y)) = Written(y, w) /\ Whole(Append(k, y))
  BY <1>2, <1>5, TextNode, WholeAppend
<1> HIDE DEF w, s, t
<1>7. /\ Written(x, w) = <<"(">> \o s \o <<")", "AND", "(">> \o t \o <<")">>
      /\ Written(y, w) = <<"(">> \o s \o <<")", "OR", "(">> \o t \o <<")">>
  BY <1>2, <1>4 DEF Written
<1> QED BY <1>6, <1>7 DEF x, y, s, t

-----------------------------------------------------------------------------
(***************************************************************************)
(* The grammar: what a sentence means comes from shorter sentences.        *)
(***************************************************************************)

Grammars(all) == [ OR : [Seq(Token) -> SUBSET SUBSET all], AND : [Seq(Token) -> SUBSET SUBSET all],
                   NOT : [Seq(Token) -> SUBSET SUBSET all] ]

\* The parts of a sentence are shorter.
LEMMA PartFacts ==
  ASSUME NEW s \in Seq(Token)
  PROVE  /\ \A i \in 1 .. Len(s) : /\ Before(s, i) \in Seq(Token) /\ Len(Before(s, i)) = i - 1
                                   /\ After(s, i) \in Seq(Token) /\ Len(After(s, i)) = Len(s) - i
         /\ s # << >> => Tail(s) \in Seq(Token) /\ Len(Tail(s)) = Len(s) - 1
         /\ Len(s) > 2 => SubSeq(s, 2, Len(s) - 1) \in Seq(Token) /\ Len(SubSeq(s, 2, Len(s) - 1)) = Len(s) - 2
         /\ Len(s) \in Nat /\ DOMAIN s = 1 .. Len(s) /\ (s # << >> => Len(s) > 0)
<1>1. Len(s) \in Nat /\ DOMAIN s = 1 .. Len(s) /\ (s # << >> => Len(s) > 0)
      /\ \A k \in 1 .. Len(s) : s[k] \in Token
  OBVIOUS
<1>2. ASSUME NEW i \in 1 .. Len(s)
      PROVE  /\ Before(s, i) \in Seq(Token) /\ Len(Before(s, i)) = i - 1
             /\ After(s, i) \in Seq(Token) /\ Len(After(s, i)) = Len(s) - i
  <2>1. Before(s, i) \in Seq(Token) /\ Len(Before(s, i)) = i - 1
    BY <1>1 DEF Before
  <2>2. After(s, i) \in Seq(Token) /\ Len(After(s, i)) = Len(s) - i
    <3>1. After(s, i) = Suffix(s, i) /\ i \in 0 .. Len(s)
      BY <1>1 DEF After, Suffix
    <3> QED BY <3>1, SuffixFacts
  <2> QED BY <2>1, <2>2
<1>3. s # << >> => Tail(s) \in Seq(Token) /\ Len(Tail(s)) = Len(s) - 1
  BY <1>1
<1>4. Len(s) > 2 => SubSeq(s, 2, Len(s) - 1) \in Seq(Token) /\ Len(SubSeq(s, 2, Len(s) - 1)) = Len(s) - 2
  BY <1>1
<1> QED BY <1>1, <1>2, <1>3, <1>4

LEMMA MeaningsType ==
  ASSUME NEW all, NEW g \in Grammars(all), NEW s \in Seq(Token)
  PROVE  /\ PrimaryMeanings(g, all, s) \in SUBSET SUBSET all
         /\ NotMeanings(g, all, s) \in SUBSET SUBSET all
         /\ AndMeanings(g, all, s) \in SUBSET SUBSET all
         /\ OrMeanings(g, all, s) \in SUBSET SUBSET all
<1>1. ASSUME NEW w \in Seq(Token)
      PROVE  g.OR[w] \subseteq SUBSET all /\ g.AND[w] \subseteq SUBSET all /\ g.NOT[w] \subseteq SUBSET all
  BY DEF Grammars
<1>2. PrimaryMeanings(g, all, s) \in SUBSET SUBSET all
  <2> DEFINE A == Len(s) = 3 /\ IsAName(s[1]) /\ s[1] \notin NotToken /\ s[2] = "." /\ IsAName(s[3])
             B == Len(s) > 2 /\ s[1] = "(" /\ s[Len(s)] = ")"
  <2>1. PrimaryMeanings(g, all, s) = CASE A -> {{pixel \in all : <<s[1], s[3]>> \in pixel}}
                                       [] B -> g.OR[SubSeq(s, 2, Len(s) - 1)]
                                       [] OTHER -> {}
    BY DEF PrimaryMeanings
  <2>2. A => ~B
    BY DEF IsAName, Special
  <2>3. B => g.OR[SubSeq(s, 2, Len(s) - 1)] \subseteq SUBSET all
    BY <1>1, PartFacts
  <2>4. {{pixel \in all : <<s[1], s[3]>> \in pixel}} \subseteq SUBSET all
    OBVIOUS
  <2> HIDE DEF A, B
  <2> QED BY <2>1, <2>2, <2>3, <2>4
<1>3. NotMeanings(g, all, s) \in SUBSET SUBSET all
  <2>1. {all \ m : m \in g.NOT[Tail(s)]} \subseteq SUBSET all
    OBVIOUS
  <2> QED BY <1>2, <2>1 DEF NotMeanings
<1>4. AndMeanings(g, all, s) \in SUBSET SUBSET all
  <2>1. ASSUME NEW i \in Splits(s, AndToken)
        PROVE  {m \cap k : m \in g.AND[Before(s, i)], k \in g.NOT[After(s, i)]} \subseteq SUBSET all
    <3>1. Before(s, i) \in Seq(Token) /\ After(s, i) \in Seq(Token)
      BY PartFacts DEF Splits
    <3> QED BY <1>1, <3>1
  <2> QED BY <1>3, <2>1 DEF AndMeanings
<1>5. OrMeanings(g, all, s) \in SUBSET SUBSET all
  <2>1. ASSUME NEW i \in Splits(s, OrToken)
        PROVE  {m \cup k : m \in g.OR[Before(s, i)], k \in g.AND[After(s, i)]} \subseteq SUBSET all
    <3>1. Before(s, i) \in Seq(Token) /\ After(s, i) \in Seq(Token)
      BY PartFacts DEF Splits
    <3> QED BY <1>1, <3>1
  <2> QED BY <1>4, <2>1 DEF OrMeanings
<1> QED BY <1>2, <1>3, <1>4, <1>5

\* The meanings of a sentence come from those of shorter ones.
LEMMA MeaningsSame ==
  ASSUME NEW all, NEW s \in Seq(Token), NEW g, NEW h,
         \A w \in Seq(Token) : Len(w) < Len(s) =>
           g.OR[w] = h.OR[w] /\ g.AND[w] = h.AND[w] /\ g.NOT[w] = h.NOT[w]
  PROVE  /\ PrimaryMeanings(g, all, s) = PrimaryMeanings(h, all, s)
         /\ NotMeanings(g, all, s) = NotMeanings(h, all, s)
         /\ AndMeanings(g, all, s) = AndMeanings(h, all, s)
         /\ OrMeanings(g, all, s) = OrMeanings(h, all, s)
<1>1. PrimaryMeanings(g, all, s) = PrimaryMeanings(h, all, s)
  <2>1. Len(s) > 2 => g.OR[SubSeq(s, 2, Len(s) - 1)] = h.OR[SubSeq(s, 2, Len(s) - 1)]
    <3> DEFINE w == SubSeq(s, 2, Len(s) - 1)
    <3>1. Len(s) > 2 => w \in Seq(Token) /\ Len(w) < Len(s)
      BY PartFacts
    <3> HIDE DEF w
    <3>2. Len(s) > 2 => g.OR[w] = h.OR[w]
      BY <3>1
    <3> QED BY <3>2 DEF w
  <2> QED BY <2>1 DEF PrimaryMeanings
<1>2. NotMeanings(g, all, s) = NotMeanings(h, all, s)
  <2>1. s # << >> => g.NOT[Tail(s)] = h.NOT[Tail(s)]
    <3>1. s # << >> => Tail(s) \in Seq(Token) /\ Len(Tail(s)) < Len(s)
      BY PartFacts
    <3> QED BY <3>1
  <2> QED BY <1>1, <2>1 DEF NotMeanings
<1>3. ASSUME NEW i \in 1 .. Len(s)
      PROVE  /\ g.OR[Before(s, i)] = h.OR[Before(s, i)] /\ g.AND[After(s, i)] = h.AND[After(s, i)]
             /\ g.AND[Before(s, i)] = h.AND[Before(s, i)] /\ g.NOT[After(s, i)] = h.NOT[After(s, i)]
  <2> DEFINE b == Before(s, i)
             a == After(s, i)
  <2>1. b \in Seq(Token) /\ Len(b) < Len(s) /\ a \in Seq(Token) /\ Len(a) < Len(s)
    BY PartFacts
  <2> HIDE DEF a, b
  <2>2. g.OR[b] = h.OR[b] /\ g.AND[b] = h.AND[b] /\ g.AND[a] = h.AND[a] /\ g.NOT[a] = h.NOT[a]
    BY <2>1
  <2> QED BY <2>2 DEF a, b
<1>4. AndMeanings(g, all, s) = AndMeanings(h, all, s)
  <2>1. \A i \in Splits(s, AndToken) : i \in 1 .. Len(s)
    BY PartFacts DEF Splits
  <2> DEFINE F(i) == {m \cap k : m \in g.AND[Before(s, i)], k \in g.NOT[After(s, i)]}
             G(i) == {m \cap k : m \in h.AND[Before(s, i)], k \in h.NOT[After(s, i)]}
             T == Splits(s, AndToken)
  <2>2. ASSUME NEW i \in T PROVE F(i) = G(i)
    BY <1>3, <2>1
  <2>3. /\ AndMeanings(g, all, s) = NotMeanings(g, all, s) \cup UNION {F(i) : i \in T}
        /\ AndMeanings(h, all, s) = NotMeanings(h, all, s) \cup UNION {G(i) : i \in T}
    BY DEF AndMeanings
  <2> HIDE DEF F, G, T
  <2>4. {F(i) : i \in T} = {G(i) : i \in T}
    BY <2>2
  <2> QED BY <1>2, <2>3, <2>4
<1>5. OrMeanings(g, all, s) = OrMeanings(h, all, s)
  <2>1. \A i \in Splits(s, OrToken) : i \in 1 .. Len(s)
    BY PartFacts DEF Splits
  <2> DEFINE F(i) == {m \cup k : m \in g.OR[Before(s, i)], k \in g.AND[After(s, i)]}
             G(i) == {m \cup k : m \in h.OR[Before(s, i)], k \in h.AND[After(s, i)]}
             T == Splits(s, OrToken)
  <2>2. ASSUME NEW i \in T PROVE F(i) = G(i)
    BY <1>3, <2>1
  <2>3. /\ OrMeanings(g, all, s) = AndMeanings(g, all, s) \cup UNION {F(i) : i \in T}
        /\ OrMeanings(h, all, s) = AndMeanings(h, all, s) \cup UNION {G(i) : i \in T}
    BY DEF OrMeanings
  <2> HIDE DEF F, G, T
  <2>4. {F(i) : i \in T} = {G(i) : i \in T}
    BY <2>2
  <2> QED BY <1>4, <2>3, <2>4
<1> QED BY <1>1, <1>2, <1>4, <1>5

LEMMA GrammarIs ==
  ASSUME NEW all
  PROVE  /\ Grammar(all) \in [Nat -> Grammars(all)]
         /\ \A n \in Nat, s \in Seq(Token) :
              /\ Grammar(all)[n + 1].OR[s] = OrMeanings(Grammar(all)[n], all, s)
              /\ Grammar(all)[n + 1].AND[s] = AndMeanings(Grammar(all)[n], all, s)
              /\ Grammar(all)[n + 1].NOT[s] = NotMeanings(Grammar(all)[n], all, s)
<1> DEFINE base == [ OR |-> [s \in Seq(Token) |-> {}], AND |-> [s \in Seq(Token) |-> {}],
                     NOT |-> [s \in Seq(Token) |-> {}] ]
           Nxt(g) == [ OR  |-> [s \in Seq(Token) |-> OrMeanings(g, all, s)],
                       AND |-> [s \in Seq(Token) |-> AndMeanings(g, all, s)],
                       NOT |-> [s \in Seq(Token) |-> NotMeanings(g, all, s)] ]
           Is(f) == f = [n \in Nat |-> IF n = 0 THEN base ELSE Nxt(f[n - 1])]
           v == CHOOSE f : Is(f)
           V == Grammars(all)
<1>1. base \in V
  BY DEF Grammars
<1>2. ASSUME NEW g \in V PROVE Nxt(g) \in V
  <2>1. ASSUME NEW s \in Seq(Token)
        PROVE  /\ OrMeanings(g, all, s) \in SUBSET SUBSET all
               /\ AndMeanings(g, all, s) \in SUBSET SUBSET all
               /\ NotMeanings(g, all, s) \in SUBSET SUBSET all
    BY MeaningsType
  <2> QED BY <2>1 DEF Grammars
<1>3. ASSUME NEW g, NEW s \in Seq(Token)
      PROVE  /\ Nxt(g).OR[s] = OrMeanings(g, all, s) /\ Nxt(g).AND[s] = AndMeanings(g, all, s)
             /\ Nxt(g).NOT[s] = NotMeanings(g, all, s)
  OBVIOUS
<1>4. Grammar(all) = v
  BY DEF Grammar
<1> HIDE DEF base, Nxt, V
<1>5. \E f \in [Nat -> V] : Is(f)
  <2> DEFINE G == [n \in Nat |-> [g \in V |-> Nxt(g)]]
  <2>1. G \in [Nat -> [V -> V]] /\ \A n \in Nat, g \in V : G[n][g] = Nxt(g)
    BY <1>2
  <2> HIDE DEF G
  <2>2. PICK f \in [Nat -> V] : Iterated(f, base, G)
    BY <1>1, <2>1, Iteration
  <2>3. ASSUME NEW n \in Nat PROVE f[n] = IF n = 0 THEN base ELSE Nxt(f[n - 1])
    <3>1. CASE n = 0
      BY <2>2, <3>1 DEF Iterated
    <3>2. CASE n # 0
      <4>1. n - 1 \in Nat /\ (n - 1) + 1 = n
        BY <3>2
      <4>2. f[n] = G[n - 1][f[n - 1]] /\ f[n - 1] \in V
        BY <2>2, <4>1 DEF Iterated
      <4> QED BY <2>1, <3>2, <4>1, <4>2
    <3> QED BY <3>1, <3>2
  <2>4. Is(f)
    BY <2>3
  <2> QED BY <2>4
<1>6. Is(v)
  <2> HIDE DEF Is
  <2> QED BY <1>5
<1> HIDE DEF v
<1>7. v[0] = base /\ \A n \in Nat : v[n + 1] = Nxt(v[n])
  <2>1. \A n \in Nat : v[n] = IF n = 0 THEN base ELSE Nxt(v[n - 1])
    BY <1>6
  <2>2. \A n \in Nat : n + 1 \in Nat /\ n + 1 # 0 /\ (n + 1) - 1 = n
    OBVIOUS
  <2> QED BY <2>1, <2>2
<1>8. ASSUME NEW n \in Nat PROVE v[n] \in V
  <2> DEFINE S == {k \in Nat : v[k] \in V}
  <2>1. 0 \in S /\ \A k \in Nat : k \in S => k + 1 \in S
    BY <1>1, <1>2, <1>7
  <2>2. Nat \subseteq S
    <3> HIDE DEF S
    <3> QED BY <2>1, SetInduction
  <2> QED BY <2>2
<1>9. v \in [Nat -> V]
  BY <1>6, <1>8
<1>10. ASSUME NEW n \in Nat, NEW s \in Seq(Token)
       PROVE  /\ v[n + 1].OR[s] = OrMeanings(v[n], all, s)
              /\ v[n + 1].AND[s] = AndMeanings(v[n], all, s)
              /\ v[n + 1].NOT[s] = NotMeanings(v[n], all, s)
  BY <1>3, <1>7
<1> QED BY <1>4, <1>9, <1>10 DEF V

-----------------------------------------------------------------------------
(***************************************************************************)
(* The meanings of a sentence do not depend on the bound of the grammar,   *)
(* and those of the part of an expression between two places come from     *)
(* those between places inside.                                            *)
(***************************************************************************)

\* The meanings of a sentence at the levels of the grammar.
PrimaryOf(all, s) == PrimaryMeanings(Grammar(all)[Len(s)], all, s)
NotOf(all, s)     == NotMeanings(Grammar(all)[Len(s)], all, s)
AndOf(all, s)     == AndMeanings(Grammar(all)[Len(s)], all, s)
OrOf(all, s)      == OrMeanings(Grammar(all)[Len(s)], all, s)

\* They are the same for every larger bound.
LEMMA Settled ==
  ASSUME NEW all, NEW s \in Seq(Token), NEW n \in Nat, Len(s) <= n
  PROVE  /\ NotMeanings(Grammar(all)[n], all, s) = NotOf(all, s)
         /\ AndMeanings(Grammar(all)[n], all, s) = AndOf(all, s)
         /\ OrMeanings(Grammar(all)[n], all, s) = OrOf(all, s)
<1> DEFINE G == Grammar(all)
           Same(w, m) == /\ NotMeanings(G[m], all, w) = NotOf(all, w)
                         /\ AndMeanings(G[m], all, w) = AndOf(all, w)
                         /\ OrMeanings(G[m], all, w) = OrOf(all, w)
           S == {l \in Nat : \A w \in Seq(Token) : Len(w) < l => \A m \in Nat : Len(w) <= m => Same(w, m)}
<1>1. 0 \in S
  <2>1. \A w \in Seq(Token) : ~(Len(w) < 0)
    BY PartFacts
  <2> HIDE DEF Same
  <2> QED BY <2>1
<1>2. ASSUME NEW l \in Nat, l \in S PROVE l + 1 \in S
  <2>1. ASSUME NEW w \in Seq(Token), Len(w) < l + 1, NEW m \in Nat, Len(w) <= m PROVE Same(w, m)
    <3>1. Len(w) \in Nat
      BY PartFacts
    <3>2. ASSUME NEW v \in Seq(Token), Len(v) < Len(w), NEW k \in Nat, Len(v) < k
          PROVE  G[k].OR[v] = OrOf(all, v) /\ G[k].AND[v] = AndOf(all, v) /\ G[k].NOT[v] = NotOf(all, v)
      <4>1. Len(v) \in Nat /\ Len(v) < l /\ k - 1 \in Nat /\ Len(v) <= k - 1 /\ (k - 1) + 1 = k
        BY <2>1, <3>1, <3>2, PartFacts
      <4>2. Same(v, k - 1)
        BY <1>2, <4>1
      <4>3. /\ G[(k - 1) + 1].OR[v] = OrMeanings(G[k - 1], all, v)
            /\ G[(k - 1) + 1].AND[v] = AndMeanings(G[k - 1], all, v)
            /\ G[(k - 1) + 1].NOT[v] = NotMeanings(G[k - 1], all, v)
        BY <4>1, GrammarIs
      <4> HIDE DEF G
      <4> QED BY <4>1, <4>2, <4>3
    <3> DEFINE g == G[m]
               h == G[Len(w)]
    <3>3. \A v \in Seq(Token) : Len(v) < Len(w) =>
            g.OR[v] = h.OR[v] /\ g.AND[v] = h.AND[v] /\ g.NOT[v] = h.NOT[v]
      <4>1. ASSUME NEW v \in Seq(Token), Len(v) < Len(w)
            PROVE  g.OR[v] = h.OR[v] /\ g.AND[v] = h.AND[v] /\ g.NOT[v] = h.NOT[v]
        <5>1. Len(v) \in Nat /\ Len(v) < m
          BY <2>1, <3>1, <4>1, PartFacts
        <5> HIDE DEF G
        <5> QED BY <3>1, <3>2, <4>1, <5>1
      <4> QED BY <4>1
    <3> HIDE DEF g, h, G
    <3>4. /\ NotMeanings(g, all, w) = NotMeanings(h, all, w)
          /\ AndMeanings(g, all, w) = AndMeanings(h, all, w)
          /\ OrMeanings(g, all, w) = OrMeanings(h, all, w)
      BY <3>3, MeaningsSame
    <3> QED BY <3>4 DEF g, h, G, NotOf, AndOf, OrOf
  <2> HIDE DEF Same
  <2> QED BY <2>1
<1>3. Nat \subseteq S
  <2> HIDE DEF S
  <2> QED BY <1>1, <1>2, SetInduction
<1>4. Len(s) + 1 \in Nat /\ Len(s) < Len(s) + 1
  BY PartFacts
<1>5. Same(s, n)
  <2> HIDE DEF Same
  <2> QED BY <1>3, <1>4
<1> QED BY <1>5

LEMMA OfShorter ==
  ASSUME NEW all, NEW s \in Seq(Token), NEW w \in Seq(Token), Len(w) < Len(s)
  PROVE  /\ Grammar(all)[Len(s)].OR[w] = OrOf(all, w)
         /\ Grammar(all)[Len(s)].AND[w] = AndOf(all, w)
         /\ Grammar(all)[Len(s)].NOT[w] = NotOf(all, w)
<1> DEFINE n == Len(s) - 1
<1>1. n \in Nat /\ Len(w) <= n /\ n + 1 = Len(s)
  BY PartFacts
<1> HIDE DEF n
<1>2. /\ Grammar(all)[n + 1].OR[w] = OrMeanings(Grammar(all)[n], all, w)
      /\ Grammar(all)[n + 1].AND[w] = AndMeanings(Grammar(all)[n], all, w)
      /\ Grammar(all)[n + 1].NOT[w] = NotMeanings(Grammar(all)[n], all, w)
  BY <1>1, GrammarIs
<1>3. /\ NotMeanings(Grammar(all)[n], all, w) = NotOf(all, w)
      /\ AndMeanings(Grammar(all)[n], all, w) = AndOf(all, w)
      /\ OrMeanings(Grammar(all)[n], all, w) = OrOf(all, w)
  BY <1>1, Settled
<1> QED BY <1>1, <1>2, <1>3

LEMMA OfType ==
  ASSUME NEW all, NEW s \in Seq(Token)
  PROVE  /\ NotOf(all, s) \in SUBSET SUBSET all /\ AndOf(all, s) \in SUBSET SUBSET all
         /\ OrOf(all, s) \in SUBSET SUBSET all
<1> DEFINE g == Grammar(all)[Len(s)]
<1>1. g \in Grammars(all)
  BY GrammarIs, PartFacts
<1> HIDE DEF g
<1>2. /\ NotMeanings(g, all, s) \in SUBSET SUBSET all /\ AndMeanings(g, all, s) \in SUBSET SUBSET all
      /\ OrMeanings(g, all, s) \in SUBSET SUBSET all
  BY <1>1, MeaningsType
<1> QED BY <1>2 DEF g, NotOf, AndOf, OrOf

\* The tokens between two places.
Span(e, i, j) == SubSeq(e, i + 1, j)

LEMMA SpanFacts ==
  ASSUME NEW e \in Seq(Token), NEW i \in 0 .. Len(e), NEW j \in i .. Len(e)
  PROVE  /\ Span(e, i, j) \in Seq(Token) /\ Len(Span(e, i, j)) = j - i /\ DOMAIN Span(e, i, j) = 1 .. j - i
         /\ \A k \in 1 .. j - i : Span(e, i, j)[k] = e[i + k]
  BY DEF Span

LEMMA SpanEqual ==
  ASSUME NEW s \in Seq(Token), NEW t \in Seq(Token), Len(s) = Len(t),
         \A k \in 1 .. Len(s) : s[k] = t[k]
  PROVE  s = t
  OBVIOUS

LEMMA SpanParts ==
  ASSUME NEW e \in Seq(Token), NEW i \in 0 .. Len(e), NEW j \in i .. Len(e)
  PROVE  /\ \A x \in i + 1 .. j : /\ Before(Span(e, i, j), x - i) = Span(e, i, x - 1)
                                  /\ After(Span(e, i, j), x - i) = Span(e, x, j)
         /\ i < j => Span(e, i, j) # << >> /\ Tail(Span(e, i, j)) = Span(e, i + 1, j)
         /\ j - i > 2 => SubSeq(Span(e, i, j), 2, Len(Span(e, i, j)) - 1) = Span(e, i + 1, j - 1)
<1> DEFINE s == Span(e, i, j)
<1>1. /\ Len(e) \in Nat /\ s \in Seq(Token) /\ Len(s) = j - i /\ j - i \in Nat /\ i \in Nat /\ j \in Nat
      /\ \A k \in 1 .. j - i : s[k] = e[i + k]
  <2>1. Len(e) \in Nat /\ j - i \in Nat /\ i \in Nat /\ j \in Nat
    OBVIOUS
  <2> HIDE DEF s
  <2>2. s \in Seq(Token) /\ Len(s) = j - i /\ \A k \in 1 .. j - i : s[k] = e[i + k]
    BY SpanFacts DEF s
  <2> QED BY <2>1, <2>2
<1> HIDE DEF s
<1>2. ASSUME NEW x \in i + 1 .. j PROVE Before(s, x - i) = Span(e, i, x - 1)
  <2> DEFINE a == Before(s, x - i)
             b == Span(e, i, x - 1)
  <2>1. /\ a \in Seq(Token) /\ Len(a) = x - i - 1 /\ \A k \in 1 .. x - i - 1 : a[k] = s[k]
    BY <1>1 DEF Before
  <2>2. /\ b \in Seq(Token) /\ Len(b) = x - 1 - i /\ \A k \in 1 .. x - 1 - i : b[k] = e[i + k]
    <3> DEFINE y == x - 1
    <3>1. y \in i .. Len(e)
      BY <1>1
    <3> HIDE DEF y
    <3>2. /\ Span(e, i, y) \in Seq(Token) /\ Len(Span(e, i, y)) = y - i
          /\ \A k \in 1 .. y - i : Span(e, i, y)[k] = e[i + k]
      BY <3>1, SpanFacts
    <3> QED BY <3>2 DEF y
  <2> HIDE DEF a, b
  <2>3. \A k \in 1 .. Len(a) : a[k] = b[k]
    <3> TAKE k \in 1 .. Len(a)
    <3>1. k \in 1 .. x - i - 1 /\ k \in 1 .. x - 1 - i /\ k \in 1 .. j - i
      BY <1>1, <2>1
    <3>2. s[k] = e[i + k]
      BY <1>1, <3>1
    <3> QED BY <2>1, <2>2, <3>1, <3>2
  <2>4. a = b
    <3>1. Len(a) = Len(b) /\ a \in Seq(Token) /\ b \in Seq(Token)
      BY <2>1, <2>2
    <3> QED BY <2>3, <3>1, SpanEqual
  <2> QED BY <2>4 DEF a, b
<1>3. ASSUME NEW x \in i + 1 .. j PROVE After(s, x - i) = Span(e, x, j)
  <2> DEFINE a == After(s, x - i)
             b == Span(e, x, j)
  <2>1. /\ a \in Seq(Token) /\ Len(a) = j - x /\ \A k \in 1 .. j - x : a[k] = s[x - i + k]
    <3>1. a = Suffix(s, x - i) /\ x - i \in 0 .. Len(s)
      BY <1>1 DEF After, Suffix
    <3>2. a \in Seq(Token) /\ Len(a) = j - x
      <4> DEFINE y == x - i
      <4>1. y \in 0 .. Len(s) /\ Len(s) - y = j - x
        BY <1>1
      <4> HIDE DEF y
      <4>2. Suffix(s, y) \in Seq(Token) /\ Len(Suffix(s, y)) = Len(s) - y
        BY <1>1, <4>1, SuffixFacts
      <4> QED BY <3>1, <4>1, <4>2 DEF y
    <3>3. \A k \in 1 .. j - x : a[k] = s[x - i + k]
      BY <1>1 DEF After
    <3> QED BY <3>2, <3>3
  <2>2. /\ b \in Seq(Token) /\ Len(b) = j - x /\ \A k \in 1 .. j - x : b[k] = e[x + k]
    <3>1. x \in 0 .. Len(e) /\ j \in x .. Len(e)
      BY <1>1
    <3> QED BY <3>1, SpanFacts
  <2> HIDE DEF a, b
  <2>3. \A k \in 1 .. Len(a) : a[k] = b[k]
    <3> TAKE k \in 1 .. Len(a)
    <3>1. x - i + k \in 1 .. j - i /\ i + (x - i + k) = x + k /\ k \in 1 .. j - x
      BY <1>1, <2>1
    <3>2. s[x - i + k] = e[x + k]
      BY <1>1, <3>1
    <3> QED BY <2>1, <2>2, <3>1, <3>2
  <2>4. a = b
    BY <1>1, <2>1, <2>2, <2>3, SpanEqual
  <2> QED BY <2>4 DEF a, b
<1>4. ASSUME i < j PROVE s # << >> /\ Tail(s) = Span(e, i + 1, j)
  <2> DEFINE a == Tail(s)
             b == Span(e, i + 1, j)
  <2>1. /\ s # << >> /\ a \in Seq(Token) /\ Len(a) = j - i - 1 /\ \A k \in 1 .. j - i - 1 : a[k] = s[k + 1]
    BY <1>1, <1>4
  <2>2. /\ b \in Seq(Token) /\ Len(b) = j - i - 1 /\ \A k \in 1 .. j - i - 1 : b[k] = e[i + 1 + k]
    <3> DEFINE x == i + 1
               y == j
    <3>1. x \in 0 .. Len(e) /\ y \in x .. Len(e) /\ y - x = j - i - 1
      BY <1>1, <1>4
    <3> HIDE DEF x, y
    <3>2. /\ Span(e, x, y) \in Seq(Token) /\ Len(Span(e, x, y)) = y - x
          /\ \A k \in 1 .. y - x : Span(e, x, y)[k] = e[x + k]
      BY <3>1, SpanFacts
    <3>3. b = Span(e, x, y)
      BY DEF x, y
    <3> HIDE DEF b
    <3>4. /\ b \in Seq(Token) /\ Len(b) = j - i - 1
          /\ \A k \in 1 .. j - i - 1 : b[k] = e[x + k]
      BY <3>1, <3>2, <3>3
    <3> QED BY <3>4 DEF x
  <2> HIDE DEF a, b
  <2>3. \A k \in 1 .. Len(a) : a[k] = b[k]
    <3> TAKE k \in 1 .. Len(a)
    <3>1. k + 1 \in 1 .. j - i /\ i + (k + 1) = i + 1 + k /\ k \in 1 .. j - i - 1
      BY <1>1, <2>1
    <3>2. s[k + 1] = e[i + 1 + k]
      BY <1>1, <3>1
    <3> QED BY <2>1, <2>2, <3>1, <3>2
  <2>4. a = b
    BY <2>1, <2>2, <2>3, SpanEqual
  <2> QED BY <2>1, <2>4 DEF a, b
<1>5. ASSUME j - i > 2 PROVE SubSeq(s, 2, Len(s) - 1) = Span(e, i + 1, j - 1)
  <2> DEFINE a == SubSeq(s, 2, Len(s) - 1)
             b == Span(e, i + 1, j - 1)
  <2>1. /\ a \in Seq(Token) /\ Len(a) = j - i - 2 /\ \A k \in 1 .. j - i - 2 : a[k] = s[k + 1]
    BY <1>1, <1>5
  <2>2. /\ b \in Seq(Token) /\ Len(b) = j - i - 2 /\ \A k \in 1 .. j - i - 2 : b[k] = e[i + 1 + k]
    <3> DEFINE x == i + 1
               y == j - 1
    <3>1. x \in 0 .. Len(e) /\ y \in x .. Len(e) /\ y - x = j - i - 2
      BY <1>1, <1>5
    <3> HIDE DEF x, y
    <3>2. /\ Span(e, x, y) \in Seq(Token) /\ Len(Span(e, x, y)) = y - x
          /\ \A k \in 1 .. y - x : Span(e, x, y)[k] = e[x + k]
      BY <3>1, SpanFacts
    <3>3. b = Span(e, x, y)
      BY DEF x, y
    <3> HIDE DEF b
    <3>4. /\ b \in Seq(Token) /\ Len(b) = j - i - 2
          /\ \A k \in 1 .. j - i - 2 : b[k] = e[x + k]
      BY <3>1, <3>2, <3>3
    <3> QED BY <3>4 DEF x
  <2> HIDE DEF a, b
  <2>3. \A k \in 1 .. Len(a) : a[k] = b[k]
    <3> TAKE k \in 1 .. Len(a)
    <3>1. k + 1 \in 1 .. j - i /\ i + (k + 1) = i + 1 + k /\ k \in 1 .. j - i - 2
      BY <1>1, <2>1
    <3>2. s[k + 1] = e[i + 1 + k]
      BY <1>1, <3>1
    <3> QED BY <2>1, <2>2, <3>1, <3>2
  <2>4. a = b
    BY <2>1, <2>2, <2>3, SpanEqual
  <2> QED BY <2>4 DEF a, b
<1> QED BY <1>2, <1>3, <1>4, <1>5 DEF s

-----------------------------------------------------------------------------
(***************************************************************************)
(* The documented operators associate to the left, the parser joins        *)
(* operands from the right.  A list of operands has the same meanings      *)
(* either way, if joining them is associative; that is said here for       *)
(* tables of meanings, once for AND and OR.                                *)
(***************************************************************************)

\* A table A of what operands can be, between two places each, and the table B of
\* what lists of them can be, which operators at the places T join from the left.
Joins(T, c, A, B, i, j, M) ==
  \E x \in i + 1 .. j : x \in T /\ \E m \in B[<<i, x - 1>>], k \in A[<<x, j>>] : M = c[<<m, k>>]

IsList(n, T, U, c, A, B) ==
  /\ \A a, b \in U : c[<<a, b>>] \in U
  /\ \A a, b, d \in U : c[<<a, c[<<b, d>>]>>] = c[<<c[<<a, b>>], d>>]
  /\ \A i \in 0 .. n : \A j \in i .. n :
       /\ A[<<i, j>>] \subseteq U /\ B[<<i, j>>] \subseteq U
       /\ \A M : M \in B[<<i, j>>] <=> M \in A[<<i, j>>] \/ Joins(T, c, A, B, i, j, M)

\* The same lists, joined from the right.
LEMMA ListCons ==
  ASSUME NEW n \in Nat, NEW T, NEW U, NEW c, NEW A, NEW B, IsList(n, T, U, c, A, B),
         NEW i \in 0 .. n, NEW x \in i + 1 .. n, x \in T, NEW j \in x .. n,
         NEW a \in A[<<i, x - 1>>], NEW b \in B[<<x, j>>]
  PROVE  c[<<a, b>>] \in B[<<i, j>>]
<1> DEFINE S == {l \in Nat : \A y \in x .. n : y <= x + l => \A d \in B[<<x, y>>] : c[<<a, d>>] \in B[<<i, y>>]}
<1>0. i \in Nat /\ x \in Nat /\ x - 1 \in i .. n /\ x \in 0 .. n /\ x - 1 \in Nat
  OBVIOUS
<1>1. ASSUME NEW y \in x .. n, NEW d \in A[<<x, y>>] PROVE c[<<a, d>>] \in B[<<i, y>>]
  <2>1. a \in B[<<i, x - 1>>]
    BY <1>0 DEF IsList
  <2>2. Joins(T, c, A, B, i, y, c[<<a, d>>])
    <3>1. x \in i + 1 .. y
      BY <1>0
    <3> QED BY <2>1, <3>1 DEF Joins
  <2>3. y \in i .. n
    BY <1>0
  <2> QED BY <2>2, <2>3 DEF IsList
<1>2. ASSUME NEW y \in x .. n, NEW d \in B[<<x, y>>],
             \A z \in x + 1 .. y : \A m \in B[<<x, z - 1>>] : c[<<a, m>>] \in B[<<i, z - 1>>]
      PROVE  c[<<a, d>>] \in B[<<i, y>>]
  <2>1. d \in A[<<x, y>>] \/ Joins(T, c, A, B, x, y, d)
    BY <1>0 DEF IsList
  <2>2. CASE d \in A[<<x, y>>]
    BY <1>1, <2>2
  <2>3. CASE Joins(T, c, A, B, x, y, d)
    <3>1. PICK z \in x + 1 .. y : z \in T /\ \E m \in B[<<x, z - 1>>], k \in A[<<z, y>>] : d = c[<<m, k>>]
      BY <2>3 DEF Joins
    <3>2. PICK m \in B[<<x, z - 1>>], k \in A[<<z, y>>] : d = c[<<m, k>>]
      BY <3>1
    <3>3. z - 1 \in x .. n /\ z \in 0 .. n /\ y \in z .. n /\ z \in i + 1 .. y /\ y \in i .. n /\ z - 1 \in i .. n
      BY <1>0
    <3>4. m \in U /\ k \in U /\ a \in U
      BY <1>0, <3>3 DEF IsList
    <3>5. c[<<a, d>>] = c[<<c[<<a, m>>], k>>]
      BY <3>2, <3>4 DEF IsList
    <3>6. c[<<a, m>>] \in B[<<i, z - 1>>]
      BY <1>2
    <3>7. Joins(T, c, A, B, i, y, c[<<a, d>>])
      BY <3>1, <3>3, <3>5, <3>6 DEF Joins
    <3> QED BY <3>3, <3>7 DEF IsList
  <2> QED BY <2>1, <2>2, <2>3
<1>3. 0 \in S
  <2>1. ASSUME NEW y \in x .. n, y <= x + 0, NEW d \in B[<<x, y>>] PROVE c[<<a, d>>] \in B[<<i, y>>]
    <3>1. x + 1 .. y = {}
      BY <1>0, <2>1
    <3> QED BY <1>2, <3>1
  <2> QED BY <2>1
<1>4. ASSUME NEW l \in Nat, l \in S PROVE l + 1 \in S
  <2>1. ASSUME NEW y \in x .. n, y <= x + (l + 1), NEW d \in B[<<x, y>>] PROVE c[<<a, d>>] \in B[<<i, y>>]
    <3>1. ASSUME NEW z \in x + 1 .. y, NEW m \in B[<<x, z - 1>>] PROVE c[<<a, m>>] \in B[<<i, z - 1>>]
      <4>1. z - 1 \in x .. n /\ z - 1 <= x + l
        BY <1>0, <2>1
      <4> QED BY <1>4, <4>1
    <3> QED BY <1>2, <3>1
  <2> QED BY <2>1
<1>5. Nat \subseteq S
  <2> HIDE DEF S
  <2> QED BY <1>3, <1>4, SetInduction
<1>6. j - x \in S /\ j <= x + (j - x) /\ j \in x .. n
  <2>1. j - x \in Nat /\ j <= x + (j - x)
    BY <1>0
  <2> QED BY <1>5, <2>1
<1> QED BY <1>6

Begun(T, A, B, i, j) ==
  \/ A[<<i, j>>] # {}
  \/ \E x \in i + 1 .. j : x \in T /\ A[<<i, x - 1>>] # {} /\ B[<<x, j>>] # {}

LEMMA ListUncons ==
  ASSUME NEW n \in Nat, NEW T, NEW U, NEW c, NEW A, NEW B, IsList(n, T, U, c, A, B),
         NEW i \in 0 .. n, NEW j \in i .. n, B[<<i, j>>] # {}
  PROVE  Begun(T, A, B, i, j)
<1> DEFINE First(y) == A[<<i, y>>] # {} \/ \E x \in i + 1 .. y : x \in T /\ A[<<i, x - 1>>] # {} /\ B[<<x, y>>] # {}
           S == {l \in Nat : \A y \in i .. n : y <= i + l => (B[<<i, y>>] # {} => First(y))}
<1>0. i \in Nat /\ j - i \in Nat /\ j <= i + (j - i)
  OBVIOUS
<1>1. ASSUME NEW y \in i .. n, B[<<i, y>>] # {}, \A z \in i + 1 .. y : B[<<i, z - 1>>] # {} => First(z - 1)
      PROVE  First(y)
  <2>1. PICK M : M \in A[<<i, y>>] \/ Joins(T, c, A, B, i, y, M)
    BY <1>1 DEF IsList
  <2>2. CASE M \in A[<<i, y>>]
    BY <2>2
  <2>3. CASE Joins(T, c, A, B, i, y, M)
    <3>1. PICK z \in i + 1 .. y : z \in T /\ \E m \in B[<<i, z - 1>>], k \in A[<<z, y>>] : M = c[<<m, k>>]
      BY <2>3 DEF Joins
    <3>2. PICK m \in B[<<i, z - 1>>], k \in A[<<z, y>>] : M = c[<<m, k>>]
      BY <3>1
    <3>3. z \in 0 .. n /\ y \in z .. n /\ z - 1 \in i .. n
      BY <1>0
    <3>4. First(z - 1)
      BY <1>1, <3>2
    <3>5. CASE A[<<i, z - 1>>] # {}
      <4>1. B[<<z, y>>] # {}
        BY <3>2, <3>3 DEF IsList
      <4> QED BY <3>1, <3>5, <4>1
    <3>6. CASE \E x \in i + 1 .. z - 1 : x \in T /\ A[<<i, x - 1>>] # {} /\ B[<<x, z - 1>>] # {}
      <4>1. PICK x \in i + 1 .. z - 1 : x \in T /\ A[<<i, x - 1>>] # {} /\ B[<<x, z - 1>>] # {}
        BY <3>6
      <4>2. PICK d : d \in B[<<x, z - 1>>]
        BY <4>1
      <4>3. x \in 0 .. n /\ y \in x .. n /\ z \in x + 1 .. y /\ x \in i + 1 .. y
        BY <1>0, <3>3
      <4>4. Joins(T, c, A, B, x, y, c[<<d, k>>])
        BY <3>1, <3>2, <4>2, <4>3 DEF Joins
      <4>5. c[<<d, k>>] \in B[<<x, y>>]
        BY <4>3, <4>4 DEF IsList
      <4> QED BY <4>1, <4>3, <4>5
    <3> QED BY <3>4, <3>5, <3>6
  <2> QED BY <2>1, <2>2, <2>3
<1>2. 0 \in S
  <2>1. ASSUME NEW y \in i .. n, y <= i + 0, B[<<i, y>>] # {} PROVE First(y)
    <3>1. i + 1 .. y = {}
      BY <1>0, <2>1
    <3> HIDE DEF First
    <3> QED BY <1>1, <2>1, <3>1
  <2> HIDE DEF First
  <2> QED BY <2>1
<1>3. ASSUME NEW l \in Nat, l \in S PROVE l + 1 \in S
  <2> HIDE DEF First
  <2>1. ASSUME NEW y \in i .. n, y <= i + (l + 1), B[<<i, y>>] # {} PROVE First(y)
    <3>1. ASSUME NEW z \in i + 1 .. y, B[<<i, z - 1>>] # {} PROVE First(z - 1)
      <4>1. z - 1 \in i .. n /\ z - 1 <= i + l
        BY <1>0, <2>1
      <4> QED BY <1>3, <3>1, <4>1
    <3> QED BY <1>1, <2>1, <3>1
  <2> QED BY <2>1
<1>4. Nat \subseteq S
  <2> HIDE DEF S
  <2> QED BY <1>2, <1>3, SetInduction
<1>5. First(j)
  <2> HIDE DEF First
  <2> QED BY <1>0, <1>4
<1> QED BY <1>5 DEF Begun

-----------------------------------------------------------------------------
(***************************************************************************)
(* What the tokens between two places mean, in terms of places.            *)
(***************************************************************************)

\* What the tokens between two places mean.
PrimaryAt(e, all, i, j) == PrimaryOf(all, Span(e, i, j))
NotAt(e, all, i, j)     == NotOf(all, Span(e, i, j))
AndAt(e, all, i, j)     == AndOf(all, Span(e, i, j))
OrAt(e, all, i, j)      == OrOf(all, Span(e, i, j))

LEMMA AtType ==
  ASSUME NEW all, NEW e \in Seq(Token), NEW i \in 0 .. Len(e), NEW j \in i .. Len(e)
  PROVE  /\ NotAt(e, all, i, j) \subseteq SUBSET all
         /\ AndAt(e, all, i, j) \subseteq SUBSET all
         /\ OrAt(e, all, i, j) \subseteq SUBSET all
<1>1. Span(e, i, j) \in Seq(Token)
  BY SpanFacts
<1> QED BY <1>1, OfType DEF NotAt, AndAt, OrAt

LEMMA PrimaryIs ==
  ASSUME NEW all, NEW e \in Seq(Token), NEW i \in 0 .. Len(e), NEW j \in i .. Len(e)
  PROVE  \A M : M \in PrimaryAt(e, all, i, j) <=>
           \/ /\ j = i + 3 /\ IsAName(e[i + 1]) /\ e[i + 1] \notin NotToken
              /\ e[i + 2] = "." /\ IsAName(e[i + 3])
              /\ M = {pixel \in all : <<e[i + 1], e[i + 3]>> \in pixel}
           \/ /\ i + 2 < j /\ e[i + 1] = "(" /\ e[j] = ")"
              /\ M \in OrAt(e, all, i + 1, j - 1)
<1> DEFINE s == Span(e, i, j)
           g == Grammar(all)[Len(s)]
           w == SubSeq(s, 2, Len(s) - 1)
           A == Len(s) = 3 /\ IsAName(s[1]) /\ s[1] \notin NotToken /\ s[2] = "." /\ IsAName(s[3])
           B == Len(s) > 2 /\ s[1] = "(" /\ s[Len(s)] = ")"
<1>1. /\ s \in Seq(Token) /\ Len(s) = j - i /\ \A k \in 1 .. j - i : s[k] = e[i + k]
  BY SpanFacts
<1>2. i \in Nat /\ j \in Nat /\ Len(e) \in Nat /\ i <= j
  OBVIOUS
<1>3. PrimaryAt(e, all, i, j) = CASE A -> {{pixel \in all : <<s[1], s[3]>> \in pixel}}
                                  [] B -> g.OR[w]
                                  [] OTHER -> {}
  BY DEF PrimaryAt, PrimaryOf, PrimaryMeanings
<1>4. A => ~B
  BY DEF IsAName, Special
<1>5. j - i > 2 => w = Span(e, i + 1, j - 1) /\ g.OR[w] = OrAt(e, all, i + 1, j - 1)
  <2>1. j - i > 2 => w = Span(e, i + 1, j - 1)
    BY SpanParts
  <2>2. j - i > 2 => w \in Seq(Token) /\ Len(w) < Len(s)
    <3> HIDE DEF s
    <3>1. Len(s) > 2 => w \in Seq(Token) /\ Len(w) = Len(s) - 2
      BY <1>1, PartFacts
    <3> HIDE DEF w
    <3> QED BY <1>1, <1>2, <3>1
  <2> HIDE DEF w, s
  <2>3. j - i > 2 => g.OR[w] = OrOf(all, w)
    BY <1>1, <2>2, OfShorter
  <2> QED BY <2>1, <2>3 DEF OrAt
<1>6. /\ j = i + 3 => s[1] = e[i + 1] /\ s[2] = e[i + 2] /\ s[3] = e[i + 3]
      /\ i + 2 < j => s[1] = e[i + 1] /\ s[Len(s)] = e[j]
  <2> HIDE DEF s
  <2>1. j = i + 3 => 1 \in 1 .. j - i /\ 2 \in 1 .. j - i /\ 3 \in 1 .. j - i
    BY <1>2
  <2>2. i + 2 < j => 1 \in 1 .. j - i /\ Len(s) \in 1 .. j - i /\ i + Len(s) = j
    BY <1>1, <1>2
  <2> QED BY <1>1, <2>1, <2>2
<1>7. (Len(s) = 3 <=> j = i + 3) /\ (Len(s) > 2 <=> i + 2 < j) /\ (j - i > 2 <=> i + 2 < j)
  <2> HIDE DEF s
  <2> QED BY <1>1, <1>2
<1>8. A <=> j = i + 3 /\ IsAName(e[i + 1]) /\ e[i + 1] \notin NotToken
            /\ e[i + 2] = "." /\ IsAName(e[i + 3])
  <2> HIDE DEF s
  <2> QED BY <1>6, <1>7
<1>9. B <=> i + 2 < j /\ e[i + 1] = "(" /\ e[j] = ")"
  <2> HIDE DEF s
  <2> QED BY <1>6, <1>7
<1>10. A => {{pixel \in all : <<s[1], s[3]>> \in pixel}} = {{pixel \in all : <<e[i + 1], e[i + 3]>> \in pixel}}
  <2> HIDE DEF s
  <2> QED BY <1>6, <1>7
<1>11. B => g.OR[w] = OrAt(e, all, i + 1, j - 1)
  <2> HIDE DEF s, g, w
  <2> QED BY <1>5, <1>7
<1> DEFINE a == {pixel \in all : <<e[i + 1], e[i + 3]>> \in pixel}
           b == OrAt(e, all, i + 1, j - 1)
<1>12. PrimaryAt(e, all, i, j) = IF A THEN {a} ELSE IF B THEN b ELSE {}
  <2> HIDE DEF A, B, s, g, w
  <2> QED BY <1>3, <1>4, <1>10, <1>11
<1> HIDE DEF a, b, A, B, s, g, w
<1>13. \A M : M \in PrimaryAt(e, all, i, j) <=> (A /\ M = a) \/ (B /\ M \in b)
  BY <1>4, <1>12
<1> QED BY <1>8, <1>9, <1>13 DEF a, b

NotJoined(e, all, i, j, M) ==
  i < j /\ e[i + 1] \in NotToken /\ \E m \in NotAt(e, all, i + 1, j) : M = all \ m

LEMMA NotIs ==
  ASSUME NEW all, NEW e \in Seq(Token), NEW i \in 0 .. Len(e), NEW j \in i .. Len(e)
  PROVE  \A M : M \in NotAt(e, all, i, j) <=>
           \/ M \in PrimaryAt(e, all, i, j)
           \/ NotJoined(e, all, i, j, M)
<1> DEFINE s == Span(e, i, j)
           g == Grammar(all)[Len(s)]
           P == PrimaryAt(e, all, i, j)
           K == NotAt(e, all, i + 1, j)
<1>1. s \in Seq(Token) /\ Len(s) = j - i /\ (i < j => s[1] = e[i + 1])
  <2>1. i < j => 1 \in 1 .. j - i
    OBVIOUS
  <2>2. s \in Seq(Token) /\ Len(s) = j - i /\ \A k \in 1 .. j - i : s[k] = e[i + k]
    BY SpanFacts
  <2> HIDE DEF s
  <2> QED BY <2>1, <2>2
<1>2. i \in Nat /\ j \in Nat /\ i <= j
  OBVIOUS
<1>3. NotAt(e, all, i, j) = P \cup IF s # << >> /\ s[1] \in NotToken THEN {all \ m : m \in g.NOT[Tail(s)]} ELSE {}
  BY DEF NotAt, NotOf, NotMeanings, PrimaryAt, PrimaryOf
<1>4. s # << >> <=> i < j
  <2> HIDE DEF s
  <2> QED BY <1>1, <1>2
<1>5. i < j => g.NOT[Tail(s)] = K
  <2> DEFINE w == Tail(s)
  <2>1. i < j => w = Span(e, i + 1, j)
    BY SpanParts
  <2>2. i < j => w \in Seq(Token) /\ Len(w) < Len(s)
    BY <1>1, <1>2, <1>4, PartFacts
  <2> HIDE DEF w, s
  <2>3. i < j => g.NOT[w] = NotOf(all, w)
    BY <1>1, <2>2, OfShorter
  <2>4. i < j => g.NOT[w] = K
    BY <2>1, <2>3 DEF NotAt
  <2> QED BY <2>4 DEF w
<1> DEFINE C == i < j /\ e[i + 1] \in NotToken
<1>6. NotAt(e, all, i, j) = P \cup IF C THEN {all \ m : m \in K} ELSE {}
  <2> HIDE DEF s, g, P, K
  <2> QED BY <1>1, <1>3, <1>4, <1>5
<1> HIDE DEF C, P, K
<1>7. \A M : M \in NotAt(e, all, i, j) <=> M \in P \/ (C /\ \E m \in K : M = all \ m)
  BY <1>6
<1> QED BY <1>7 DEF C, P, K, NotJoined

\* Where the operators of a kind are.
Places(e, operators) == {x \in 1 .. Len(e) : e[x] \in operators}

LEMMA SplitsIs ==
  ASSUME NEW e \in Seq(Token), NEW i \in 0 .. Len(e), NEW j \in i .. Len(e), NEW operators
  PROVE  /\ \A y \in Splits(Span(e, i, j), operators) : i + y \in i + 1 .. j /\ e[i + y] \in operators
         /\ \A x \in i + 1 .. j : e[x] \in operators => x - i \in Splits(Span(e, i, j), operators)
<1> DEFINE s == Span(e, i, j)
<1>1. DOMAIN s = 1 .. j - i /\ \A k \in 1 .. j - i : s[k] = e[i + k]
  BY SpanFacts
<1>2. i \in Nat /\ j \in Nat
  OBVIOUS
<1> HIDE DEF s
<1>3. ASSUME NEW y \in 1 .. j - i, s[y] \in operators PROVE i + y \in i + 1 .. j /\ e[i + y] \in operators
  BY <1>1, <1>2, <1>3
<1>4. ASSUME NEW x \in i + 1 .. j, e[x] \in operators PROVE x - i \in 1 .. j - i /\ s[x - i] \in operators
  <2>1. x - i \in 1 .. j - i /\ i + (x - i) = x
    BY <1>2
  <2> QED BY <1>1, <1>4, <2>1
<1> QED BY <1>1, <1>3, <1>4 DEF s, Splits

AndJoined(e, all, i, j, M) ==
  \E x \in i + 1 .. j : /\ e[x] \in AndToken
                        /\ \E m \in AndAt(e, all, i, x - 1), k \in NotAt(e, all, x, j) : M = m \cap k

LEMMA AndIs ==
  ASSUME NEW all, NEW e \in Seq(Token), NEW i \in 0 .. Len(e), NEW j \in i .. Len(e)
  PROVE  \A M : M \in AndAt(e, all, i, j) <=>
           \/ M \in NotAt(e, all, i, j)
           \/ AndJoined(e, all, i, j, M)
<1> DEFINE s == Span(e, i, j)
           g == Grammar(all)[Len(s)]
           P == NotAt(e, all, i, j)
           T == Splits(s, AndToken)
           F(y) == {m \cap k : m \in g.AND[Before(s, y)], k \in g.NOT[After(s, y)]}
           H(x) == {m \cap k : m \in AndAt(e, all, i, x - 1), k \in NotAt(e, all, x, j)}
<1>1. s \in Seq(Token) /\ Len(s) = j - i /\ i \in Nat /\ j \in Nat
  <2>1. i \in Nat /\ j \in Nat
    OBVIOUS
  <2> HIDE DEF s
  <2>2. s \in Seq(Token) /\ Len(s) = j - i
    BY SpanFacts DEF s
  <2> QED BY <2>1, <2>2
<1>2. AndAt(e, all, i, j) = P \cup UNION {F(y) : y \in T}
  BY DEF AndAt, AndOf, AndMeanings, NotAt, NotOf
<1>3. ASSUME NEW x \in i + 1 .. j PROVE F(x - i) = H(x)
  <2> DEFINE y == x - i
             b == Before(s, y)
             a == After(s, y)
  <2>1. y \in 1 .. Len(s)
    BY <1>1
  <2>2. b = Span(e, i, x - 1) /\ a = Span(e, x, j)
    BY SpanParts
  <2>3. b \in Seq(Token) /\ Len(b) < Len(s) /\ a \in Seq(Token) /\ Len(a) < Len(s)
    <3> HIDE DEF y, s
    <3>1. /\ Before(s, y) \in Seq(Token) /\ Len(Before(s, y)) = y - 1
          /\ After(s, y) \in Seq(Token) /\ Len(After(s, y)) = Len(s) - y
      BY <1>1, <2>1, PartFacts
    <3> QED BY <1>1, <2>1, <3>1
  <2> HIDE DEF a, b, s
  <2>4. g.AND[b] = AndOf(all, b) /\ g.NOT[a] = NotOf(all, a)
    BY <1>1, <2>3, OfShorter
  <2>5. F(y) = {m \cap k : m \in g.AND[b], k \in g.NOT[a]}
    BY DEF a, b
  <2> HIDE DEF F, g
  <2>6. F(y) = H(x)
    BY <2>2, <2>4, <2>5 DEF AndAt, NotAt
  <2> QED BY <2>6 DEF y
<1>4. /\ \A y \in T : i + y \in i + 1 .. j /\ e[i + y] \in AndToken /\ (i + y) - i = y
      /\ \A x \in i + 1 .. j : e[x] \in AndToken => x - i \in T
  <2>1. /\ \A y \in T : i + y \in i + 1 .. j /\ e[i + y] \in AndToken
        /\ \A x \in i + 1 .. j : e[x] \in AndToken => x - i \in T
    BY SplitsIs
  <2>2. \A y \in T : (i + y) - i = y
    BY <1>1, PartFacts DEF Splits
  <2> QED BY <2>1, <2>2
<1> HIDE DEF F, T, s, P
<1>5. \A M : M \in AndAt(e, all, i, j) <=>
         M \in P \/ \E x \in i + 1 .. j : e[x] \in AndToken /\ M \in H(x)
  <2> HIDE DEF H
  <2>1. ASSUME NEW y \in T, NEW M \in F(y)
        PROVE  \E x \in i + 1 .. j : e[x] \in AndToken /\ M \in H(x)
    <3> DEFINE x == i + y
    <3>1. x \in i + 1 .. j /\ e[x] \in AndToken /\ x - i = y
      BY <1>4
    <3> HIDE DEF x
    <3>2. M \in H(x)
      BY <1>3, <2>1, <3>1
    <3> QED BY <3>1, <3>2
  <2>2. ASSUME NEW x \in i + 1 .. j, e[x] \in AndToken, NEW M \in H(x)
        PROVE  M \in UNION {F(y) : y \in T}
    <3>1. x - i \in T /\ M \in F(x - i)
      BY <1>3, <1>4, <2>2
    <3> QED BY <3>1
  <2> QED BY <1>2, <2>1, <2>2
<1> QED BY <1>5 DEF P, H, AndJoined

OrJoined(e, all, i, j, M) ==
  \E x \in i + 1 .. j : /\ e[x] \in OrToken
                        /\ \E m \in OrAt(e, all, i, x - 1), k \in AndAt(e, all, x, j) : M = m \cup k

LEMMA OrIs ==
  ASSUME NEW all, NEW e \in Seq(Token), NEW i \in 0 .. Len(e), NEW j \in i .. Len(e)
  PROVE  \A M : M \in OrAt(e, all, i, j) <=>
           \/ M \in AndAt(e, all, i, j)
           \/ OrJoined(e, all, i, j, M)
<1> DEFINE s == Span(e, i, j)
           g == Grammar(all)[Len(s)]
           P == AndAt(e, all, i, j)
           T == Splits(s, OrToken)
           F(y) == {m \cup k : m \in g.OR[Before(s, y)], k \in g.AND[After(s, y)]}
           H(x) == {m \cup k : m \in OrAt(e, all, i, x - 1), k \in AndAt(e, all, x, j)}
<1>1. s \in Seq(Token) /\ Len(s) = j - i /\ i \in Nat /\ j \in Nat
  <2>1. i \in Nat /\ j \in Nat
    OBVIOUS
  <2> HIDE DEF s
  <2>2. s \in Seq(Token) /\ Len(s) = j - i
    BY SpanFacts DEF s
  <2> QED BY <2>1, <2>2
<1>2. OrAt(e, all, i, j) = P \cup UNION {F(y) : y \in T}
  BY DEF OrAt, OrOf, OrMeanings, AndAt, AndOf
<1>3. ASSUME NEW x \in i + 1 .. j PROVE F(x - i) = H(x)
  <2> DEFINE y == x - i
             b == Before(s, y)
             a == After(s, y)
  <2>1. y \in 1 .. Len(s)
    BY <1>1
  <2>2. b = Span(e, i, x - 1) /\ a = Span(e, x, j)
    BY SpanParts
  <2>3. b \in Seq(Token) /\ Len(b) < Len(s) /\ a \in Seq(Token) /\ Len(a) < Len(s)
    <3> HIDE DEF y, s
    <3>1. /\ Before(s, y) \in Seq(Token) /\ Len(Before(s, y)) = y - 1
          /\ After(s, y) \in Seq(Token) /\ Len(After(s, y)) = Len(s) - y
      BY <1>1, <2>1, PartFacts
    <3> QED BY <1>1, <2>1, <3>1
  <2> HIDE DEF a, b, s
  <2>4. g.OR[b] = OrOf(all, b) /\ g.AND[a] = AndOf(all, a)
    BY <1>1, <2>3, OfShorter
  <2>5. F(y) = {m \cup k : m \in g.OR[b], k \in g.AND[a]}
    BY DEF a, b
  <2> HIDE DEF F, g
  <2>6. F(y) = H(x)
    BY <2>2, <2>4, <2>5 DEF OrAt, AndAt
  <2> QED BY <2>6 DEF y
<1>4. /\ \A y \in T : i + y \in i + 1 .. j /\ e[i + y] \in OrToken /\ (i + y) - i = y
      /\ \A x \in i + 1 .. j : e[x] \in OrToken => x - i \in T
  <2>1. /\ \A y \in T : i + y \in i + 1 .. j /\ e[i + y] \in OrToken
        /\ \A x \in i + 1 .. j : e[x] \in OrToken => x - i \in T
    BY SplitsIs
  <2>2. \A y \in T : (i + y) - i = y
    BY <1>1, PartFacts DEF Splits
  <2> QED BY <2>1, <2>2
<1> HIDE DEF F, T, s, P
<1>5. \A M : M \in OrAt(e, all, i, j) <=>
         M \in P \/ \E x \in i + 1 .. j : e[x] \in OrToken /\ M \in H(x)
  <2> HIDE DEF H
  <2>1. ASSUME NEW y \in T, NEW M \in F(y)
        PROVE  \E x \in i + 1 .. j : e[x] \in OrToken /\ M \in H(x)
    <3> DEFINE x == i + y
    <3>1. x \in i + 1 .. j /\ e[x] \in OrToken /\ x - i = y
      BY <1>4
    <3> HIDE DEF x
    <3>2. M \in H(x)
      BY <1>3, <2>1, <3>1
    <3> QED BY <3>1, <3>2
  <2>2. ASSUME NEW x \in i + 1 .. j, e[x] \in OrToken, NEW M \in H(x)
        PROVE  M \in UNION {F(y) : y \in T}
    <3>1. x - i \in T /\ M \in F(x - i)
      BY <1>3, <1>4, <2>2
    <3> QED BY <3>1
  <2> QED BY <1>2, <2>1, <2>2
<1> QED BY <1>5 DEF P, H, OrJoined

-----------------------------------------------------------------------------
(***************************************************************************)
(* Lists of AND and of OR: union and intersection are associative.         *)
(***************************************************************************)

LEMMA AndList ==
  ASSUME NEW all, NEW e \in Seq(Token)
  PROVE  LET n == Len(e)
             N == (0 .. n) \X (0 .. n)
         IN  IsList(n, Places(e, AndToken), SUBSET all,
                    [p \in (SUBSET all) \X (SUBSET all) |-> p[1] \cap p[2]],
                    [p \in N |-> NotAt(e, all, p[1], p[2])], [p \in N |-> AndAt(e, all, p[1], p[2])])
<1> DEFINE n == Len(e)
           N == (0 .. n) \X (0 .. n)
           U == SUBSET all
           c == [p \in U \X U |-> p[1] \cap p[2]]
           A == [p \in N |-> NotAt(e, all, p[1], p[2])]
           B == [p \in N |-> AndAt(e, all, p[1], p[2])]
           T == Places(e, AndToken)
<1>1. n \in Nat
  OBVIOUS
<1>2. \A a, b \in U : c[<<a, b>>] = a \cap b /\ a \cap b \in U
  OBVIOUS
<1>3. \A i, j \in 0 .. n : A[<<i, j>>] = NotAt(e, all, i, j) /\ B[<<i, j>>] = AndAt(e, all, i, j)
  OBVIOUS
<1> HIDE DEF A, B, c
<1>4. /\ \A a, b \in U : c[<<a, b>>] \in U
      /\ \A a, b, d \in U : c[<<a, c[<<b, d>>]>>] = c[<<c[<<a, b>>], d>>]
  <2>1. ASSUME NEW a \in U, NEW b \in U, NEW d \in U
        PROVE  c[<<a, c[<<b, d>>]>>] = c[<<c[<<a, b>>], d>>]
    <3>1. c[<<b, d>>] = b \cap d /\ b \cap d \in U /\ c[<<a, b>>] = a \cap b /\ a \cap b \in U
      BY <1>2
    <3> DEFINE x == b \cap d
               y == a \cap b
    <3>2. x \in U /\ y \in U /\ a \cap x = y \cap d
      BY <3>1
    <3>3. c[<<a, x>>] = a \cap x /\ c[<<y, d>>] = y \cap d
      BY <1>2, <3>2
    <3> QED BY <3>1, <3>2, <3>3
  <2> HIDE DEF U
  <2> QED BY <1>2, <2>1
<1>5. ASSUME NEW i \in 0 .. n, NEW j \in i .. n
      PROVE  /\ A[<<i, j>>] \subseteq U /\ B[<<i, j>>] \subseteq U
             /\ \A M : M \in B[<<i, j>>] <=> M \in A[<<i, j>>] \/ Joins(T, c, A, B, i, j, M)
  <2>1. i \in 0 .. n /\ j \in 0 .. n
    BY <1>1
  <2>2. NotAt(e, all, i, j) \subseteq U /\ AndAt(e, all, i, j) \subseteq U
    BY AtType
  <2>3. ASSUME NEW x \in i + 1 .. j
        PROVE  /\ x - 1 \in 0 .. n /\ x \in 0 .. n /\ (x \in T <=> e[x] \in AndToken)
               /\ B[<<i, x - 1>>] = AndAt(e, all, i, x - 1) /\ A[<<x, j>>] = NotAt(e, all, x, j)
               /\ AndAt(e, all, i, x - 1) \subseteq U /\ NotAt(e, all, x, j) \subseteq U
    <3>1. x - 1 \in 0 .. n /\ x \in 0 .. n /\ x \in 1 .. n /\ x - 1 \in i .. n /\ j \in x .. n
      BY <1>1
    <3> DEFINE y == x - 1
    <3>2. y \in i .. n /\ y \in 0 .. n
      BY <3>1
    <3> HIDE DEF y
    <3>3. AndAt(e, all, i, y) \subseteq U /\ B[<<i, y>>] = AndAt(e, all, i, y)
      BY <1>3, <3>2, AtType
    <3>4. NotAt(e, all, x, j) \subseteq U /\ A[<<x, j>>] = NotAt(e, all, x, j)
      BY <1>3, <2>1, <3>1, AtType
    <3>5. x \in T <=> e[x] \in AndToken
      BY <3>1 DEF Places
    <3> QED BY <3>1, <3>3, <3>4, <3>5 DEF y
  <2> HIDE DEF T, U
  <2>4. ASSUME NEW M
        PROVE  Joins(T, c, A, B, i, j, M) <=>
                 \E x \in i + 1 .. j : /\ e[x] \in AndToken
                                       /\ \E m \in AndAt(e, all, i, x - 1), k \in NotAt(e, all, x, j) : M = m \cap k
    <3>1. ASSUME NEW x \in i + 1 .. j
          PROVE  (x \in T /\ \E m \in B[<<i, x - 1>>], k \in A[<<x, j>>] : M = c[<<m, k>>]) <=>
                   (/\ e[x] \in AndToken
                    /\ \E m \in AndAt(e, all, i, x - 1), k \in NotAt(e, all, x, j) : M = m \cap k)
      <4> DEFINE K == AndAt(e, all, i, x - 1)
                 L == NotAt(e, all, x, j)
      <4>1. /\ x \in T <=> e[x] \in AndToken
            /\ B[<<i, x - 1>>] = K /\ A[<<x, j>>] = L /\ K \subseteq U /\ L \subseteq U
        BY <2>3
      <4> HIDE DEF K, L
      <4>2. \A m \in K, k \in L : c[<<m, k>>] = m \cap k
        BY <1>2, <4>1
      <4>3. (\E m \in K, k \in L : M = c[<<m, k>>]) <=> \E m \in K, k \in L : M = m \cap k
        <5> DEFINE joined(m, k) == m \cap k
                   table(m, k)  == c[<<m, k>>]
        <5>1. \A m \in K, k \in L : table(m, k) = joined(m, k)
          BY <4>2
        <5> HIDE DEF joined, table
        <5>2. (\E m \in K, k \in L : M = table(m, k)) <=> \E m \in K, k \in L : M = joined(m, k)
          BY ONLY <5>1
        <5> QED BY <5>2 DEF joined, table
      <4>4. (\E m \in B[<<i, x - 1>>], k \in A[<<x, j>>] : M = c[<<m, k>>]) <=>
              \E m \in K, k \in L : M = c[<<m, k>>]
        BY <4>1
      <4>5. x \in T <=> e[x] \in AndToken
        BY <4>1
      <4>6. (\E m \in AndAt(e, all, i, x - 1), k \in NotAt(e, all, x, j) : M = m \cap k) <=>
              \E m \in K, k \in L : M = m \cap k
        BY DEF K, L
      <4> QED BY <4>3, <4>4, <4>5, <4>6
    <3> QED BY <3>1 DEF Joins
  <2>5. \A M : M \in AndAt(e, all, i, j) <=>
           \/ M \in NotAt(e, all, i, j)
           \/ AndJoined(e, all, i, j, M)
    BY AndIs
  <2>6. A[<<i, j>>] = NotAt(e, all, i, j) /\ B[<<i, j>>] = AndAt(e, all, i, j)
    BY <1>3, <2>1
  <2>7. ASSUME NEW M PROVE M \in B[<<i, j>>] <=> M \in A[<<i, j>>] \/ Joins(T, c, A, B, i, j, M)
    BY <2>4, <2>5, <2>6 DEF AndJoined
  <2> QED BY <2>2, <2>6, <2>7
<1> HIDE DEF U, n, T
<1>6. IsList(n, T, U, c, A, B)
  BY <1>4, <1>5 DEF IsList
<1> QED BY <1>6 DEF n, T, U, c, A, B, N

LEMMA AndCons ==
  ASSUME NEW all, NEW e \in Seq(Token), NEW i \in 0 .. Len(e), NEW x \in i + 1 .. Len(e),
         e[x] \in AndToken, NEW j \in x .. Len(e),
         NEW a \in NotAt(e, all, i, x - 1), NEW b \in AndAt(e, all, x, j)
  PROVE  a \cap b \in AndAt(e, all, i, j)
<1> DEFINE n == Len(e)
           N == (0 .. n) \X (0 .. n)
           U == SUBSET all
           c == [p \in U \X U |-> p[1] \cap p[2]]
           A == [p \in N |-> NotAt(e, all, p[1], p[2])]
           B == [p \in N |-> AndAt(e, all, p[1], p[2])]
           T == Places(e, AndToken)
<1>1. n \in Nat /\ x - 1 \in 0 .. n /\ x \in 0 .. n /\ j \in 0 .. n /\ x \in 1 .. n
      /\ x - 1 \in i .. n /\ j \in i .. n
  OBVIOUS
<1>2. A[<<i, x - 1>>] = NotAt(e, all, i, x - 1) /\ B[<<x, j>>] = AndAt(e, all, x, j)
      /\ B[<<i, j>>] = AndAt(e, all, i, j)
  BY <1>1
<1>3. a \in U /\ b \in U
  <2> DEFINE y == x - 1
  <2>1. y \in i .. n /\ a \in NotAt(e, all, i, y)
    BY <1>1
  <2> HIDE DEF y
  <2>2. a \in U
    BY <2>1, AtType
  <2>3. b \in U
    BY <1>1, AtType
  <2> QED BY <2>2, <2>3
<1>4. c[<<a, b>>] = a \cap b
  BY <1>3
<1>5. x \in T
  BY <1>1 DEF Places
<1>6. IsList(n, T, U, c, A, B)
  BY AndList
<1> HIDE DEF A, B, c, U, T
<1>7. c[<<a, b>>] \in B[<<i, j>>]
  BY <1>1, <1>2, <1>5, <1>6, ListCons
<1> QED BY <1>2, <1>4, <1>7

LEMMA AndUncons ==
  ASSUME NEW all, NEW e \in Seq(Token), NEW i \in 0 .. Len(e), NEW j \in i .. Len(e),
         AndAt(e, all, i, j) # {}
  PROVE  \/ NotAt(e, all, i, j) # {}
         \/ \E x \in i + 1 .. j : /\ e[x] \in AndToken /\ NotAt(e, all, i, x - 1) # {}
                                  /\ AndAt(e, all, x, j) # {}
<1> DEFINE n == Len(e)
           N == (0 .. n) \X (0 .. n)
           U == SUBSET all
           c == [p \in U \X U |-> p[1] \cap p[2]]
           A == [p \in N |-> NotAt(e, all, p[1], p[2])]
           B == [p \in N |-> AndAt(e, all, p[1], p[2])]
           T == Places(e, AndToken)
<1>1. n \in Nat /\ j \in 0 .. n
  OBVIOUS
<1>2. \A k, l \in 0 .. n : A[<<k, l>>] = NotAt(e, all, k, l) /\ B[<<k, l>>] = AndAt(e, all, k, l)
  OBVIOUS
<1>3. IsList(n, T, U, c, A, B)
  BY AndList
<1> HIDE DEF A, B, c, U, T
<1>4. B[<<i, j>>] # {}
  BY <1>1, <1>2
<1>5. \/ A[<<i, j>>] # {}
      \/ \E x \in i + 1 .. j : x \in T /\ A[<<i, x - 1>>] # {} /\ B[<<x, j>>] # {}
  <2>1. Begun(T, A, B, i, j)
    <3> HIDE DEF n
    <3> QED BY <1>1, <1>3, <1>4, ListUncons
  <2> QED BY <2>1 DEF Begun
<1>6. CASE A[<<i, j>>] # {}
  BY <1>1, <1>2, <1>6
<1>7. CASE \E x \in i + 1 .. j : x \in T /\ A[<<i, x - 1>>] # {} /\ B[<<x, j>>] # {}
  <2>1. PICK x \in i + 1 .. j : x \in T /\ A[<<i, x - 1>>] # {} /\ B[<<x, j>>] # {}
    BY <1>7
  <2>2. x \in 0 .. n /\ x - 1 \in 0 .. n /\ e[x] \in AndToken
    BY <1>1, <2>1 DEF Places, T
  <2> QED BY <1>1, <1>2, <2>1, <2>2
<1> QED BY <1>5, <1>6, <1>7

LEMMA OrList ==
  ASSUME NEW all, NEW e \in Seq(Token)
  PROVE  LET n == Len(e)
             N == (0 .. n) \X (0 .. n)
         IN  IsList(n, Places(e, OrToken), SUBSET all,
                    [p \in (SUBSET all) \X (SUBSET all) |-> p[1] \cup p[2]],
                    [p \in N |-> AndAt(e, all, p[1], p[2])], [p \in N |-> OrAt(e, all, p[1], p[2])])
<1> DEFINE n == Len(e)
           N == (0 .. n) \X (0 .. n)
           U == SUBSET all
           c == [p \in U \X U |-> p[1] \cup p[2]]
           A == [p \in N |-> AndAt(e, all, p[1], p[2])]
           B == [p \in N |-> OrAt(e, all, p[1], p[2])]
           T == Places(e, OrToken)
<1>1. n \in Nat
  OBVIOUS
<1>2. \A a, b \in U : c[<<a, b>>] = a \cup b /\ a \cup b \in U
  OBVIOUS
<1>3. \A i, j \in 0 .. n : A[<<i, j>>] = AndAt(e, all, i, j) /\ B[<<i, j>>] = OrAt(e, all, i, j)
  OBVIOUS
<1> HIDE DEF A, B, c
<1>4. /\ \A a, b \in U : c[<<a, b>>] \in U
      /\ \A a, b, d \in U : c[<<a, c[<<b, d>>]>>] = c[<<c[<<a, b>>], d>>]
  <2>1. ASSUME NEW a \in U, NEW b \in U, NEW d \in U
        PROVE  c[<<a, c[<<b, d>>]>>] = c[<<c[<<a, b>>], d>>]
    <3>1. c[<<b, d>>] = b \cup d /\ b \cup d \in U /\ c[<<a, b>>] = a \cup b /\ a \cup b \in U
      BY <1>2
    <3> DEFINE x == b \cup d
               y == a \cup b
    <3>2. x \in U /\ y \in U /\ a \cup x = y \cup d
      BY <3>1
    <3>3. c[<<a, x>>] = a \cup x /\ c[<<y, d>>] = y \cup d
      BY <1>2, <3>2
    <3> QED BY <3>1, <3>2, <3>3
  <2> HIDE DEF U
  <2> QED BY <1>2, <2>1
<1>5. ASSUME NEW i \in 0 .. n, NEW j \in i .. n
      PROVE  /\ A[<<i, j>>] \subseteq U /\ B[<<i, j>>] \subseteq U
             /\ \A M : M \in B[<<i, j>>] <=> M \in A[<<i, j>>] \/ Joins(T, c, A, B, i, j, M)
  <2>1. i \in 0 .. n /\ j \in 0 .. n
    BY <1>1
  <2>2. AndAt(e, all, i, j) \subseteq U /\ OrAt(e, all, i, j) \subseteq U
    BY AtType
  <2>3. ASSUME NEW x \in i + 1 .. j
        PROVE  /\ x - 1 \in 0 .. n /\ x \in 0 .. n /\ (x \in T <=> e[x] \in OrToken)
               /\ B[<<i, x - 1>>] = OrAt(e, all, i, x - 1) /\ A[<<x, j>>] = AndAt(e, all, x, j)
               /\ OrAt(e, all, i, x - 1) \subseteq U /\ AndAt(e, all, x, j) \subseteq U
    <3>1. x - 1 \in 0 .. n /\ x \in 0 .. n /\ x \in 1 .. n /\ x - 1 \in i .. n /\ j \in x .. n
      BY <1>1
    <3> DEFINE y == x - 1
    <3>2. y \in i .. n /\ y \in 0 .. n
      BY <3>1
    <3> HIDE DEF y
    <3>3. OrAt(e, all, i, y) \subseteq U /\ B[<<i, y>>] = OrAt(e, all, i, y)
      BY <1>3, <3>2, AtType
    <3>4. AndAt(e, all, x, j) \subseteq U /\ A[<<x, j>>] = AndAt(e, all, x, j)
      BY <1>3, <2>1, <3>1, AtType
    <3>5. x \in T <=> e[x] \in OrToken
      BY <3>1 DEF Places
    <3> QED BY <3>1, <3>3, <3>4, <3>5 DEF y
  <2> HIDE DEF T, U
  <2>4. ASSUME NEW M
        PROVE  Joins(T, c, A, B, i, j, M) <=>
                 \E x \in i + 1 .. j : /\ e[x] \in OrToken
                                       /\ \E m \in OrAt(e, all, i, x - 1), k \in AndAt(e, all, x, j) : M = m \cup k
    <3>1. ASSUME NEW x \in i + 1 .. j
          PROVE  (x \in T /\ \E m \in B[<<i, x - 1>>], k \in A[<<x, j>>] : M = c[<<m, k>>]) <=>
                   (/\ e[x] \in OrToken
                    /\ \E m \in OrAt(e, all, i, x - 1), k \in AndAt(e, all, x, j) : M = m \cup k)
      <4> DEFINE K == OrAt(e, all, i, x - 1)
                 L == AndAt(e, all, x, j)
      <4>1. /\ x \in T <=> e[x] \in OrToken
            /\ B[<<i, x - 1>>] = K /\ A[<<x, j>>] = L /\ K \subseteq U /\ L \subseteq U
        BY <2>3
      <4> HIDE DEF K, L
      <4>2. \A m \in K, k \in L : c[<<m, k>>] = m \cup k
        BY <1>2, <4>1
      <4>3. (\E m \in K, k \in L : M = c[<<m, k>>]) <=> \E m \in K, k \in L : M = m \cup k
        <5> DEFINE joined(m, k) == m \cup k
                   table(m, k)  == c[<<m, k>>]
        <5>1. \A m \in K, k \in L : table(m, k) = joined(m, k)
          BY <4>2
        <5> HIDE DEF joined, table
        <5>2. (\E m \in K, k \in L : M = table(m, k)) <=> \E m \in K, k \in L : M = joined(m, k)
          BY ONLY <5>1
        <5> QED BY <5>2 DEF joined, table
      <4>4. (\E m \in B[<<i, x - 1>>], k \in A[<<x, j>>] : M = c[<<m, k>>]) <=>
              \E m \in K, k \in L : M = c[<<m, k>>]
        BY <4>1
      <4>5. x \in T <=> e[x] \in OrToken
        BY <4>1
      <4>6. (\E m \in OrAt(e, all, i, x - 1), k \in AndAt(e, all, x, j) : M = m \cup k) <=>
              \E m \in K, k \in L : M = m \cup k
        BY DEF K, L
      <4> QED BY <4>3, <4>4, <4>5, <4>6
    <3> QED BY <3>1 DEF Joins
  <2>5. \A M : M \in OrAt(e, all, i, j) <=>
           \/ M \in AndAt(e, all, i, j)
           \/ OrJoined(e, all, i, j, M)
    BY OrIs
  <2>6. A[<<i, j>>] = AndAt(e, all, i, j) /\ B[<<i, j>>] = OrAt(e, all, i, j)
    BY <1>3, <2>1
  <2>7. ASSUME NEW M PROVE M \in B[<<i, j>>] <=> M \in A[<<i, j>>] \/ Joins(T, c, A, B, i, j, M)
    BY <2>4, <2>5, <2>6 DEF OrJoined
  <2> QED BY <2>2, <2>6, <2>7
<1> HIDE DEF U, n, T
<1>6. IsList(n, T, U, c, A, B)
  BY <1>4, <1>5 DEF IsList
<1> QED BY <1>6 DEF n, T, U, c, A, B, N

LEMMA OrCons ==
  ASSUME NEW all, NEW e \in Seq(Token), NEW i \in 0 .. Len(e), NEW x \in i + 1 .. Len(e),
         e[x] \in OrToken, NEW j \in x .. Len(e),
         NEW a \in AndAt(e, all, i, x - 1), NEW b \in OrAt(e, all, x, j)
  PROVE  a \cup b \in OrAt(e, all, i, j)
<1> DEFINE n == Len(e)
           N == (0 .. n) \X (0 .. n)
           U == SUBSET all
           c == [p \in U \X U |-> p[1] \cup p[2]]
           A == [p \in N |-> AndAt(e, all, p[1], p[2])]
           B == [p \in N |-> OrAt(e, all, p[1], p[2])]
           T == Places(e, OrToken)
<1>1. n \in Nat /\ x - 1 \in 0 .. n /\ x \in 0 .. n /\ j \in 0 .. n /\ x \in 1 .. n
      /\ x - 1 \in i .. n /\ j \in i .. n
  OBVIOUS
<1>2. A[<<i, x - 1>>] = AndAt(e, all, i, x - 1) /\ B[<<x, j>>] = OrAt(e, all, x, j)
      /\ B[<<i, j>>] = OrAt(e, all, i, j)
  BY <1>1
<1>3. a \in U /\ b \in U
  <2> DEFINE y == x - 1
  <2>1. y \in i .. n /\ a \in AndAt(e, all, i, y)
    BY <1>1
  <2> HIDE DEF y
  <2>2. a \in U
    BY <2>1, AtType
  <2>3. b \in U
    BY <1>1, AtType
  <2> QED BY <2>2, <2>3
<1>4. c[<<a, b>>] = a \cup b
  BY <1>3
<1>5. x \in T
  BY <1>1 DEF Places
<1>6. IsList(n, T, U, c, A, B)
  BY OrList
<1> HIDE DEF A, B, c, U, T
<1>7. c[<<a, b>>] \in B[<<i, j>>]
  BY <1>1, <1>2, <1>5, <1>6, ListCons
<1> QED BY <1>2, <1>4, <1>7

LEMMA OrUncons ==
  ASSUME NEW all, NEW e \in Seq(Token), NEW i \in 0 .. Len(e), NEW j \in i .. Len(e),
         OrAt(e, all, i, j) # {}
  PROVE  \/ AndAt(e, all, i, j) # {}
         \/ \E x \in i + 1 .. j : /\ e[x] \in OrToken /\ AndAt(e, all, i, x - 1) # {}
                                  /\ OrAt(e, all, x, j) # {}
<1> DEFINE n == Len(e)
           N == (0 .. n) \X (0 .. n)
           U == SUBSET all
           c == [p \in U \X U |-> p[1] \cup p[2]]
           A == [p \in N |-> AndAt(e, all, p[1], p[2])]
           B == [p \in N |-> OrAt(e, all, p[1], p[2])]
           T == Places(e, OrToken)
<1>1. n \in Nat /\ j \in 0 .. n
  OBVIOUS
<1>2. \A k, l \in 0 .. n : A[<<k, l>>] = AndAt(e, all, k, l) /\ B[<<k, l>>] = OrAt(e, all, k, l)
  OBVIOUS
<1>3. IsList(n, T, U, c, A, B)
  BY OrList
<1> HIDE DEF A, B, c, U, T
<1>4. B[<<i, j>>] # {}
  BY <1>1, <1>2
<1>5. \/ A[<<i, j>>] # {}
      \/ \E x \in i + 1 .. j : x \in T /\ A[<<i, x - 1>>] # {} /\ B[<<x, j>>] # {}
  <2>1. Begun(T, A, B, i, j)
    <3> HIDE DEF n
    <3> QED BY <1>1, <1>3, <1>4, ListUncons
  <2> QED BY <2>1 DEF Begun
<1>6. CASE A[<<i, j>>] # {}
  BY <1>1, <1>2, <1>6
<1>7. CASE \E x \in i + 1 .. j : x \in T /\ A[<<i, x - 1>>] # {} /\ B[<<x, j>>] # {}
  <2>1. PICK x \in i + 1 .. j : x \in T /\ A[<<i, x - 1>>] # {} /\ B[<<x, j>>] # {}
    BY <1>7
  <2>2. x \in 0 .. n /\ x - 1 \in 0 .. n /\ e[x] \in OrToken
    BY <1>1, <2>1 DEF Places, T
  <2> QED BY <1>1, <1>2, <2>1, <2>2
<1> QED BY <1>5, <1>6, <1>7

-----------------------------------------------------------------------------
(***************************************************************************)
(* What the next token is at a place, and what a reference to a flag       *)
(* reads.                                                                  *)
(***************************************************************************)

LEMMA AtNodes ==
  ASSUME NEW e \in Seq(Token), NEW p, NEW i, At(e, p, i), NEW h \in Seq(NodeType)
  PROVE  LET q == [p EXCEPT !.nodes = h] IN At(e, q, i) /\ q.nodes = h
<1> DEFINE q == [p EXCEPT !.nodes = h]
<1>1. p \in ParseInfo
  BY DEF At
<1>2. /\ q \in ParseInfo /\ q.nodes = h /\ q.error = p.error /\ q.pushed_back = p.pushed_back
      /\ q.rest = p.rest /\ q.type = p.type /\ q.token = p.token
  BY <1>1 DEF ParseInfo
<1> HIDE DEF q
<1>3. At(e, q, i)
  BY <1>2 DEF At
<1> QED BY <1>2, <1>3 DEF q

LEMMA AtFacts ==
  ASSUME NEW e \in Seq(Token), NEW p, NEW i, At(e, p, i)
  PROVE  /\ p \in ParseInfo /\ ~p.error /\ i \in 0 .. Len(e) /\ i \in Nat /\ Len(e) \in Nat
         /\ p.nodes \in Seq(NodeType) /\ Len(p.nodes) \in Nat
<1>1. p \in ParseInfo /\ ~p.error /\ i \in 0 .. Len(e)
  BY DEF At
<1> QED BY <1>1, ParseInfoType

\* What the next token is at a place.
LEMMA TokenKept ==
  ASSUME NEW e \in Seq(Token), NEW p, NEW i, At(e, p, i)
  PROVE  NextToken(p) \in ParseInfo /\ NextToken(p).nodes = p.nodes
  BY TokenRead

LEMMA TokenBack ==
  ASSUME NEW e \in Seq(Token), NEW p, NEW i, At(e, p, i)
  PROVE  At(e, PushBack(NextToken(p)), i) /\ PushBack(NextToken(p)).nodes = p.nodes
  BY TokenRead

LEMMA TokenNext ==
  ASSUME NEW e \in Seq(Token), NEW p, NEW i, At(e, p, i), i < Len(e), e[i + 1] # Unknown
  PROVE  /\ At(e, NextToken(p), i + 1) /\ At(e, Consume(NextToken(p)), i + 1)
         /\ NextToken(p).token = e[i + 1]
  BY TokenRead

LEMMA TokenEnd ==
  ASSUME NEW e \in Seq(Token), NEW p, NEW i, At(e, p, i)
  PROVE  /\ NextToken(p).type = "eos" <=> i = Len(e)
         /\ NextToken(p).type = "eos" => At(e, NextToken(p), i)
  BY TokenRead

LEMMA TokenName ==
  ASSUME NEW e \in Seq(Token), NEW p, NEW i, At(e, p, i)
  PROVE  IsName(NextToken(p)) <=> i < Len(e) /\ IsAName(e[i + 1])
  BY TokenRead

LEMMA TokenChar ==
  ASSUME NEW e \in Seq(Token), NEW p, NEW i, At(e, p, i), NEW c \in Special
  PROVE  IsChar(NextToken(p), c) <=> i < Len(e) /\ e[i + 1] = c
<1>1. \A d \in Special : IsChar(NextToken(p), d) <=> i < Len(e) /\ e[i + 1] = d
  BY TokenRead
<1> QED BY ONLY <1>1, c \in Special

LEMMA TokenOneOf ==
  ASSUME NEW e \in Seq(Token), NEW p, NEW i, At(e, p, i), NEW set, Unknown \notin set
  PROVE  IsOneOf(NextToken(p), set) <=> i < Len(e) /\ e[i + 1] \in set
  BY TokenRead

LEMMA OperatorFacts ==
  /\ "(" \notin NotToken /\ "(" \notin AndToken \cup OrToken
  /\ ")" \notin NotToken /\ ")" \notin AndToken \cup OrToken
  /\ "NOT" \in NotToken /\ "AND" \in AndToken /\ "OR" \in OrToken
  /\ "OR" \notin AndToken /\ "AND" \notin OrToken
  /\ AndToken \cap OrToken = {} /\ AndToken \cap NotToken = {} /\ OrToken \cap NotToken = {}
  /\ "(" \in Special /\ ")" \in Special /\ "." \in Special
  /\ Unknown \notin NotToken /\ Unknown \notin AndToken /\ Unknown \notin OrToken
  /\ Unknown \notin Special /\ ~IsAName("(") /\ ~IsAName(Unknown)
  BY DEF NotToken, AndToken, OrToken, Special, Unknown, IsAName

LEMMA ErrorSet ==
  ASSUME NEW p \in ParseInfo
  PROVE  SetError(p) \in ParseInfo /\ SetError(p).error
  BY StepTypes

\* A reference to a flag at a place.
LEMMA FlagReferenceRuns ==
  ASSUME NEW e \in Seq(Token), NEW q, NEW i, At(e, q, i),
         i + 2 < Len(e), e[i + 1] # Unknown, e[i + 2] = ".", IsAName(e[i + 3])
  PROVE  LET r == FlagReference(NextToken(q))
         IN  /\ r[1] = Len(q.nodes) + 1 /\ At(e, r[2], i + 3)
             /\ r[2].nodes = Append(q.nodes, REF(e[i + 1], e[i + 3]))
<1> DEFINE p     == NextToken(q)
           c     == Consume(p)
           point == NextToken(c)
           flag  == NextToken(point)
           f     == Consume(flag)
           r     == FlagReference(p)
           k     == i + 1
           l     == i + 2
<1>0. i \in Nat /\ Len(e) \in Nat /\ i < Len(e) /\ k \in Nat /\ k < Len(e) /\ k + 1 = l /\ l \in Nat
      /\ l < Len(e) /\ l + 1 = i + 3 /\ k = i + 1 /\ l = i + 2
  BY AtFacts
<1> HIDE DEF k, l
<1>1. At(e, c, k) /\ p.token = e[k] /\ p \in ParseInfo /\ p.nodes = q.nodes /\ c.nodes = p.nodes
  <2>1. At(e, Consume(NextToken(q)), i + 1) /\ NextToken(q).token = e[i + 1]
    BY <1>0, TokenNext
  <2>2. NextToken(q) \in ParseInfo /\ NextToken(q).nodes = q.nodes
    BY TokenKept
  <2>3. Consume(p).nodes = p.nodes
    BY <2>2, StepTypes
  <2> QED BY <1>0, <2>1, <2>2, <2>3
<1>3. r = IF ~IsChar(point, ".") THEN <<0, SetError(point)>>
          ELSE IF ~IsName(flag) THEN <<0, SetError(flag)>>
          ELSE NewTerm(f, REF(p.token, flag.token))
  BY DEF FlagReference, NULL
<1> HIDE DEF p, c
<1>4. IsChar(point, ".") /\ At(e, point, l) /\ point.nodes = c.nodes
  <2>1. e[k + 1] = "." /\ e[k + 1] # Unknown
    BY <1>0 DEF Unknown
  <2>2. IsChar(point, ".")
    BY <1>0, <1>1, <2>1, TokenChar, OperatorFacts
  <2>3. At(e, NextToken(c), k + 1)
    BY <1>0, <1>1, <2>1, TokenNext
  <2>4. point.nodes = c.nodes
    BY <1>1, TokenKept
  <2> QED BY <1>0, <2>2, <2>3, <2>4
<1> HIDE DEF point
<1>5. IsName(flag) /\ At(e, f, i + 3) /\ flag.token = e[i + 3] /\ f.nodes = point.nodes
  <2>1. IsAName(e[l + 1]) /\ e[l + 1] # Unknown
    BY <1>0 DEF IsAName
  <2>2. IsName(flag)
    BY <1>0, <1>4, <2>1, TokenName
  <2>3. At(e, Consume(NextToken(point)), l + 1) /\ NextToken(point).token = e[l + 1]
    BY <1>0, <1>4, <2>1, TokenNext
  <2>4. flag \in ParseInfo /\ flag.nodes = point.nodes
    BY <1>4, TokenKept
  <2>5. Consume(flag).nodes = flag.nodes
    BY <2>4, StepTypes
  <2> QED BY <1>0, <2>2, <2>3, <2>4, <2>5
<1> DEFINE n == REF(e[i + 1], e[i + 3])
           h == Append(f.nodes, n)
<1>6. r = NewTerm(f, n)
  BY <1>0, <1>1, <1>3, <1>4, <1>5
<1>7. n \in NodeType
  <2>1. e[i + 1] \in Token /\ e[i + 3] \in Token
    <3>1. i + 1 \in 1 .. Len(e) /\ i + 3 \in 1 .. Len(e)
      BY <1>0
    <3> QED BY <3>1
  <2> QED BY <2>1, NodeTypes
<1> HIDE DEF f, flag, r
<1>8. r[1] = Len(f.nodes) + 1 /\ r[2] = [f EXCEPT !.nodes = h]
  BY <1>6 DEF NewTerm
<1>9. h \in Seq(NodeType)
  BY <1>5, <1>7, AtFacts
<1>10. h = Append(q.nodes, n) /\ f.nodes = q.nodes
  BY <1>1, <1>4, <1>5
<1> HIDE DEF n, h
<1>11. At(e, [f EXCEPT !.nodes = h], i + 3) /\ [f EXCEPT !.nodes = h].nodes = h
  BY <1>5, <1>9, AtNodes
<1> QED BY <1>8, <1>10, <1>11 DEF r, p, n

LEMMA FlagReferenceFails ==
  ASSUME NEW e \in Seq(Token), NEW q, NEW i, At(e, q, i), i < Len(e), e[i + 1] # Unknown,
         ~(i + 2 < Len(e) /\ e[i + 2] = "." /\ IsAName(e[i + 3]))
  PROVE  FlagReference(NextToken(q))[2].error
<1> DEFINE p     == NextToken(q)
           c     == Consume(p)
           point == NextToken(c)
           flag  == NextToken(point)
           f     == Consume(flag)
           r     == FlagReference(p)
           k     == i + 1
           l     == i + 2
<1>0. i \in Nat /\ Len(e) \in Nat /\ k \in Nat /\ k + 1 = l /\ l \in Nat
      /\ l + 1 = i + 3 /\ k = i + 1 /\ l = i + 2
  BY AtFacts
<1> HIDE DEF k, l
<1>1. At(e, c, k)
  BY <1>0, TokenNext
<1>3. r = IF ~IsChar(point, ".") THEN <<0, SetError(point)>>
          ELSE IF ~IsName(flag) THEN <<0, SetError(flag)>>
          ELSE NewTerm(f, REF(p.token, flag.token))
  BY DEF FlagReference, NULL
<1> HIDE DEF p, c
<1>4. point \in ParseInfo
  BY <1>1, TokenKept
<1>5. CASE IsChar(point, ".")
  <2>1. k < Len(e) /\ e[k + 1] = "."
    BY <1>1, <1>5, TokenChar, OperatorFacts
  <2>2. e[k + 1] # Unknown
    BY <2>1 DEF Unknown
  <2>3. At(e, point, l)
    BY <1>0, <1>1, <2>1, <2>2, TokenNext
  <2>4. ~(l < Len(e) /\ IsAName(e[l + 1]))
    BY <1>0, <2>1
  <2>5. ~IsName(flag) /\ flag \in ParseInfo
    BY <2>3, <2>4, TokenName, TokenKept
  <2> HIDE DEF point, flag, f
  <2>6. r = <<0, SetError(flag)>>
    BY <1>3, <1>5, <2>5
  <2> QED BY <2>5, <2>6, ErrorSet DEF p
<1>6. CASE ~IsChar(point, ".")
  <2> HIDE DEF point
  <2>1. r = <<0, SetError(point)>>
    BY <1>3, <1>6
  <2> QED BY <1>4, <2>1, ErrorSet DEF p
<1> QED BY <1>5, <1>6

-----------------------------------------------------------------------------
(***************************************************************************)
(* What each function of the descent does at a place, by the next token.   *)
(***************************************************************************)

LEMMA NewTermMade ==
  ASSUME NEW e \in Seq(Token), NEW p, NEW i, At(e, p, i), NEW x \in NodeType
  PROVE  /\ NewTerm(p, x)[1] = Len(p.nodes) + 1 /\ At(e, NewTerm(p, x)[2], i)
         /\ NewTerm(p, x)[2].nodes = Append(p.nodes, x)
<1> DEFINE h == Append(p.nodes, x)
<1>1. NewTerm(p, x)[1] = Len(p.nodes) + 1 /\ NewTerm(p, x)[2] = [p EXCEPT !.nodes = h]
  BY DEF NewTerm
<1>2. h \in Seq(NodeType)
  BY AtFacts
<1> HIDE DEF h
<1>3. At(e, [p EXCEPT !.nodes = h], i) /\ [p EXCEPT !.nodes = h].nodes = h
  BY <1>2, AtNodes
<1> QED BY <1>1, <1>3 DEF h

LEMMA NewTermFails ==
  ASSUME NEW p \in ParseInfo, p.error, NEW x
  PROVE  NewTerm(p, x)[2].error
  BY DEF NewTerm, ParseInfo

\* What parse_primary does at a place.
Closed(z) == IF IsChar(NextToken(z), ")") THEN NextToken(z) ELSE SetError(NextToken(z))

\* What the functions return.
PrimaryRead(e, i, q, d, required, r) ==
  \E z : At(e, z, i) /\ z.nodes = q.nodes /\ r = parse_primary(d, z, required)
OpenRead(e, i, q, d, r) ==
  \E p : At(e, p, i + 1) /\ p.nodes = q.nodes /\ r = <<d.OR[p][1], Closed(d.OR[p][2])>>
NotIsRead(e, i, q, d, r) ==
  \E p : At(e, p, i + 1) /\ p.nodes = q.nodes /\ r = NewTerm(d.unary[p][2], NOT(d.unary[p][1]))
AndRead(e, j, first, d, r) ==
  \E p : At(e, p, j + 1) /\ p.nodes = first[2].nodes /\ r = NewTerm(d.AND[p][2], AND(first[1], d.AND[p][1]))
OrRead(e, j, first, d, r) ==
  \E p : At(e, p, j + 1) /\ p.nodes = first[2].nodes /\ r = NewTerm(d.OR[p][2], OR(first[1], d.OR[p][1]))
OnlyRead(e, j, first, r) ==
  \E z : At(e, z, j) /\ z.nodes = first[2].nodes /\ r = <<first[1], z>>

LEMMA ClosedFails ==
  ASSUME NEW z \in ParseInfo, z.error
  PROVE  Closed(z).error
<1> DEFINE close == NextToken(z)
<1>1. close \in ParseInfo /\ close.error
  BY StepTypes
<1> HIDE DEF close
<1>2. SetError(close).error
  BY <1>1, ErrorSet
<1>3. Closed(z) = close \/ Closed(z) = SetError(close)
  BY DEF Closed, close
<1> QED BY <1>1, <1>2, <1>3

LEMMA ClosedRuns ==
  ASSUME NEW e \in Seq(Token), NEW z, NEW j, At(e, z, j), j < Len(e), e[j + 1] = ")"
  PROVE  At(e, Closed(z), j + 1) /\ Closed(z).nodes = z.nodes
<1>1. IsChar(NextToken(z), ")")
  BY TokenChar, OperatorFacts
<1>2. e[j + 1] # Unknown
  BY DEF Unknown
<1>3. At(e, NextToken(z), j + 1) /\ NextToken(z).nodes = z.nodes
  BY <1>2, TokenNext, TokenKept
<1> QED BY <1>1, <1>3 DEF Closed

LEMMA ClosedMissing ==
  ASSUME NEW e \in Seq(Token), NEW z, NEW j, At(e, z, j), ~(j < Len(e) /\ e[j + 1] = ")")
  PROVE  Closed(z).error
<1>1. ~IsChar(NextToken(z), ")")
  BY TokenChar, OperatorFacts
<1>2. NextToken(z) \in ParseInfo
  BY TokenKept
<1> QED BY <1>1, <1>2, ErrorSet DEF Closed

LEMMA PrimaryCases ==
  ASSUME NEW d, NEW q, NEW required
  PROVE  LET p == NextToken(q)
             r == parse_primary(d, q, required)
         IN  /\ IsChar(p, "(") /\ ~IsName(p) /\ p.type # "eos" => r = <<d.OR[p][1], Closed(d.OR[p][2])>>
             /\ ~IsChar(p, "(") /\ IsName(p) /\ p.type # "eos" => r = FlagReference(p)
             /\ ~IsChar(p, "(") /\ ~IsName(p) /\ p.type = "eos" /\ ~required => r = <<0, p>>
             /\ ~IsChar(p, "(") /\ ~IsName(p) /\ ~(p.type = "eos" /\ ~required) => r = <<0, SetError(p)>>
<1> DEFINE p == NextToken(q)
           r == parse_primary(d, q, required)
           b == <<d.OR[p][1], Closed(d.OR[p][2])>>
           f == FlagReference(p)
           s == SetError(p)
<1>1. r = CASE IsChar(p, "(") -> b
            [] IsName(p) -> f
            [] p.type = "eos" /\ ~required -> <<0, p>>
            [] OTHER -> <<0, s>>
  BY DEF parse_primary, NULL, Closed
<1> HIDE DEF p, r, b, f, s
<1>2. IsChar(p, "(") /\ ~IsName(p) /\ p.type # "eos" => r = b
  BY <1>1
<1>3. ~IsChar(p, "(") /\ IsName(p) /\ p.type # "eos" => r = f
  BY <1>1
<1>4. ~IsChar(p, "(") /\ ~IsName(p) /\ p.type = "eos" /\ ~required => r = <<0, p>>
  BY <1>1
<1>5. ~IsChar(p, "(") /\ ~IsName(p) /\ ~(p.type = "eos" /\ ~required) => r = <<0, s>>
  BY <1>1
<1> QED BY <1>2, <1>3, <1>4, <1>5 DEF p, r, b, f, s

LEMMA PrimaryOpen ==
  ASSUME NEW e \in Seq(Token), NEW q, NEW i, NEW d, NEW required \in BOOLEAN, At(e, q, i),
         i < Len(e), e[i + 1] = "("
  PROVE  OpenRead(e, i, q, d, parse_primary(d, q, required))
<1> DEFINE p == NextToken(q)
<1>1. e[i + 1] # Unknown /\ ~IsAName(e[i + 1]) /\ i # Len(e)
  BY OperatorFacts, AtFacts DEF Unknown
<1>2. At(e, p, i + 1) /\ p.nodes = q.nodes
  BY <1>1, TokenNext, TokenKept
<1>3. IsChar(p, "(") /\ ~IsName(p) /\ p.type # "eos"
  BY <1>1, TokenChar, TokenName, TokenEnd, OperatorFacts
<1>4. parse_primary(d, q, required) = <<d.OR[p][1], Closed(d.OR[p][2])>>
  BY <1>3, PrimaryCases
<1> HIDE DEF p
<1> QED BY <1>2, <1>4 DEF OpenRead

LEMMA PrimaryName ==
  ASSUME NEW e \in Seq(Token), NEW q, NEW i, NEW d, NEW required \in BOOLEAN, At(e, q, i),
         i < Len(e), IsAName(e[i + 1])
  PROVE  parse_primary(d, q, required) = FlagReference(NextToken(q))
<1> DEFINE p == NextToken(q)
<1>1. e[i + 1] # "(" /\ i # Len(e)
  BY OperatorFacts, AtFacts
<1>2. ~IsChar(p, "(") /\ IsName(p) /\ p.type # "eos"
  BY <1>1, TokenChar, TokenName, TokenEnd, OperatorFacts
<1> QED BY <1>2, PrimaryCases

LEMMA PrimaryEnd ==
  ASSUME NEW e \in Seq(Token), NEW q, NEW i, NEW d, NEW required \in BOOLEAN, At(e, q, i), i = Len(e)
  PROVE  LET r == parse_primary(d, q, required)
         IN  r[1] = 0 /\ (required => r[2].error) /\ (~required => At(e, r[2], i) /\ r[2].nodes = q.nodes)
<1> DEFINE p == NextToken(q)
           r == parse_primary(d, q, required)
<1>1. ~(i < Len(e))
  BY AtFacts
<1>2. ~IsChar(p, "(") /\ ~IsName(p) /\ p.type = "eos"
  BY <1>1, TokenChar, TokenName, TokenEnd, OperatorFacts
<1>3. At(e, p, i) /\ p.nodes = q.nodes /\ p \in ParseInfo
  BY <1>2, TokenEnd, TokenKept
<1>4. CASE required
  <2>1. r = <<0, SetError(p)>>
    BY <1>2, <1>4, PrimaryCases
  <2>2. SetError(p).error
    BY <1>3, ErrorSet
  <2> HIDE DEF p, r
  <2>3. r[1] = 0 /\ r[2].error
    BY <2>1, <2>2
  <2> QED BY <1>4, <2>3 DEF r
<1>5. CASE ~required
  <2>1. r = <<0, p>>
    BY <1>2, <1>5, PrimaryCases
  <2> HIDE DEF p, r
  <2> QED BY <1>3, <1>5, <2>1 DEF r
<1> QED BY <1>4, <1>5

LEMMA PrimaryOther ==
  ASSUME NEW e \in Seq(Token), NEW q, NEW i, NEW d, NEW required \in BOOLEAN, At(e, q, i),
         i < Len(e), e[i + 1] # "(", ~IsAName(e[i + 1])
  PROVE  parse_primary(d, q, required)[2].error
<1> DEFINE p == NextToken(q)
           r == parse_primary(d, q, required)
<1>1. i # Len(e)
  BY AtFacts
<1>2. ~IsChar(p, "(") /\ ~IsName(p) /\ p.type # "eos"
  BY <1>1, TokenChar, TokenName, TokenEnd, OperatorFacts
<1>3. p \in ParseInfo
  BY TokenKept
<1>4. r = <<0, SetError(p)>>
  BY <1>2, PrimaryCases
<1> HIDE DEF p, r
<1> QED BY <1>3, <1>4, ErrorSet DEF r

\* What parse_unary does at a place.
LEMMA UnaryNot ==
  ASSUME NEW e \in Seq(Token), NEW q, NEW i, NEW d, NEW required, At(e, q, i),
         i < Len(e), e[i + 1] \in NotToken
  PROVE  NotIsRead(e, i, q, d, parse_unary(d, q, required))
<1> DEFINE p == NextToken(q)
<1>1. e[i + 1] # Unknown
  BY OperatorFacts
<1>2. At(e, p, i + 1) /\ p.nodes = q.nodes
  BY <1>1, TokenNext, TokenKept
<1>3. IsOneOf(p, NotToken)
  BY TokenOneOf, OperatorFacts
<1>4. parse_unary(d, q, required) = NewTerm(d.unary[p][2], NOT(d.unary[p][1]))
  BY <1>3 DEF parse_unary
<1> HIDE DEF p
<1> QED BY <1>2, <1>4 DEF NotIsRead

LEMMA UnaryOther ==
  ASSUME NEW e \in Seq(Token), NEW q, NEW i, NEW d, NEW required, At(e, q, i),
         ~(i < Len(e) /\ e[i + 1] \in NotToken)
  PROVE  PrimaryRead(e, i, q, d, required, parse_unary(d, q, required))
<1> DEFINE p == NextToken(q)
           z == PushBack(p)
<1>1. At(e, z, i) /\ z.nodes = q.nodes
  BY TokenBack
<1>2. ~IsOneOf(p, NotToken)
  BY TokenOneOf, OperatorFacts
<1>3. parse_unary(d, q, required) = parse_primary(d, z, required)
  BY <1>2 DEF parse_unary
<1> HIDE DEF p, z
<1> QED BY <1>1, <1>3 DEF PrimaryRead

\* What parse_AND and parse_OR do.
LEMMA AndStop ==
  ASSUME NEW d, NEW q, NEW required, NEW first, first = parse_unary(d, q, required),
         first[1] = 0 \/ first[2].error
  PROVE  parse_AND(d, q, required) = first
  BY DEF parse_AND, NULL

LEMMA AndOnly ==
  ASSUME NEW e \in Seq(Token), NEW q, NEW d, NEW required, NEW first, NEW j,
         first = parse_unary(d, q, required), first[1] # 0, At(e, first[2], j),
         ~(j < Len(e) /\ e[j + 1] \in AndToken)
  PROVE  OnlyRead(e, j, first, parse_AND(d, q, required))
<1> DEFINE y == first[2]
           p == NextToken(y)
           z == PushBack(p)
<1>1. At(e, y, j) /\ ~y.error
  BY AtFacts
<1> HIDE DEF y
<1>2. At(e, z, j) /\ z.nodes = y.nodes
  BY <1>1, TokenBack
<1>3. ~IsOneOf(p, AndToken)
  BY <1>1, TokenOneOf, OperatorFacts
<1>4. parse_AND(d, q, required) = <<first[1], z>>
  BY <1>1, <1>3 DEF parse_AND, NULL, y
<1> HIDE DEF p, z
<1> QED BY <1>2, <1>4 DEF y, OnlyRead

LEMMA AndMore ==
  ASSUME NEW e \in Seq(Token), NEW q, NEW d, NEW required, NEW first, NEW j,
         first = parse_unary(d, q, required), first[1] # 0, At(e, first[2], j),
         j < Len(e), e[j + 1] \in AndToken
  PROVE  AndRead(e, j, first, d, parse_AND(d, q, required))
<1> DEFINE y == first[2]
           p == NextToken(y)
<1>1. At(e, y, j) /\ ~y.error
  BY AtFacts
<1> HIDE DEF y
<1>2. e[j + 1] # Unknown
  BY OperatorFacts
<1>3. At(e, p, j + 1) /\ p.nodes = y.nodes
  BY <1>1, <1>2, TokenNext, TokenKept
<1>4. IsOneOf(p, AndToken)
  BY <1>1, TokenOneOf, OperatorFacts
<1>5. parse_AND(d, q, required) = NewTerm(d.AND[p][2], AND(first[1], d.AND[p][1]))
  BY <1>1, <1>4 DEF parse_AND, NULL, y
<1> HIDE DEF p
<1> QED BY <1>3, <1>5 DEF y, AndRead

LEMMA OrStop ==
  ASSUME NEW d, NEW q, NEW required, NEW first, first = parse_AND(d, q, required),
         first[1] = 0 \/ first[2].error
  PROVE  parse_OR(d, q, required) = first
  BY DEF parse_OR, NULL

LEMMA OrOnly ==
  ASSUME NEW e \in Seq(Token), NEW q, NEW d, NEW required, NEW first, NEW j,
         first = parse_AND(d, q, required), first[1] # 0, At(e, first[2], j),
         ~(j < Len(e) /\ e[j + 1] \in OrToken)
  PROVE  OnlyRead(e, j, first, parse_OR(d, q, required))
<1> DEFINE y == first[2]
           p == NextToken(y)
           z == PushBack(p)
<1>1. At(e, y, j) /\ ~y.error
  BY AtFacts
<1> HIDE DEF y
<1>2. At(e, z, j) /\ z.nodes = y.nodes
  BY <1>1, TokenBack
<1>3. ~IsOneOf(p, OrToken)
  BY <1>1, TokenOneOf, OperatorFacts
<1>4. parse_OR(d, q, required) = <<first[1], z>>
  BY <1>1, <1>3 DEF parse_OR, NULL, y
<1> HIDE DEF p, z
<1> QED BY <1>2, <1>4 DEF y, OnlyRead

LEMMA OrMore ==
  ASSUME NEW e \in Seq(Token), NEW q, NEW d, NEW required, NEW first, NEW j,
         first = parse_AND(d, q, required), first[1] # 0, At(e, first[2], j),
         j < Len(e), e[j + 1] \in OrToken
  PROVE  OrRead(e, j, first, d, parse_OR(d, q, required))
<1> DEFINE y == first[2]
           p == NextToken(y)
<1>1. At(e, y, j) /\ ~y.error
  BY AtFacts
<1> HIDE DEF y
<1>2. e[j + 1] # Unknown
  BY OperatorFacts
<1>3. At(e, p, j + 1) /\ p.nodes = y.nodes
  BY <1>1, <1>2, TokenNext, TokenKept
<1>4. IsOneOf(p, OrToken)
  BY <1>1, TokenOneOf, OperatorFacts
<1>5. parse_OR(d, q, required) = NewTerm(d.OR[p][2], OR(first[1], d.OR[p][1]))
  BY <1>1, <1>4 DEF parse_OR, NULL, y
<1> HIDE DEF p
<1> QED BY <1>3, <1>5 DEF y, OrRead

-----------------------------------------------------------------------------
(***************************************************************************)
(* A term that is made again wherever its text is read.                    *)
(***************************************************************************)

\* The tokens of s are those of f after the place k.
Reads(f, k, s) == k + Len(s) <= Len(f) /\ \A i \in 1 .. Len(s) : f[k + i] = s[i]

LEMMA ReadsParts ==
  ASSUME NEW f \in Seq(Token), NEW k \in Nat, NEW u \in Seq(Token), NEW v \in Seq(Token)
  PROVE  Reads(f, k, u \o v) => Reads(f, k, u) /\ Reads(f, k + Len(u), v)
<1> SUFFICES ASSUME Reads(f, k, u \o v)
             PROVE  Reads(f, k, u) /\ Reads(f, k + Len(u), v)
  OBVIOUS
<1> DEFINE w == u \o v
<1>1. /\ Len(w) = Len(u) + Len(v) /\ Len(u) \in Nat /\ Len(v) \in Nat /\ Len(f) \in Nat
      /\ \A i \in 1 .. Len(u) : w[i] = u[i]
      /\ \A i \in 1 .. Len(v) : w[Len(u) + i] = v[i]
  OBVIOUS
<1>2. k + Len(w) <= Len(f) /\ \A i \in 1 .. Len(w) : f[k + i] = w[i]
  BY DEF Reads
<1> HIDE DEF w
<1>3. Reads(f, k, u)
  BY <1>1, <1>2 DEF Reads
<1>4. Reads(f, k + Len(u), v)
  <2>1. ASSUME NEW i \in 1 .. Len(v) PROVE f[k + Len(u) + i] = v[i]
    <3>1. Len(u) + i \in 1 .. Len(w) /\ k + (Len(u) + i) = k + Len(u) + i
      BY <1>1
    <3> QED BY <1>1, <1>2, <3>1
  <2> QED BY <1>1, <1>2, <2>1 DEF Reads
<1> QED BY <1>3, <1>4

\* A term was made of what was read up to the place m.
Got(f, r, m, h) == r[1] = Len(h) /\ At(f, r[2], m) /\ r[2].nodes = h

\* The term is made again wherever its text is read, when the nodes before it are
\* there.
Starts(f, p, k, d, s, g) == At(f, p, k) /\ p.nodes = g /\ Reads(f, k, s) /\ Len(f) - k <= d

Follows(f, m, operators) == m < Len(f) /\ f[m + 1] \in operators

AgainAt(a, h, s, f, p, k, d, required) ==
  Starts(f, p, k, d, s, SubSeq(h, 1, a)) /\ ~Follows(f, k + Len(s), AndToken \cup OrToken) =>
    Got(f, parse_OR(Descent[d], p, required), k + Len(s), h)

Again(a, h) ==
  \A p : \A f \in Seq(Token), k \in Nat, d \in Nat, required \in BOOLEAN :
    AgainAt(a, h, epr_create_bm_expr(h), f, p, k, d, required)

LEMMA AndFromUnary ==
  ASSUME NEW f \in Seq(Token), NEW p, NEW d, NEW required, NEW m, NEW h \in Seq(NodeType), Len(h) # 0,
         Got(f, parse_unary(d, p, required), m, h), ~Follows(f, m, AndToken)
  PROVE  Got(f, parse_AND(d, p, required), m, h)
<1> DEFINE first == parse_unary(d, p, required)
           r     == parse_AND(d, p, required)
<1>1. first[1] # 0 /\ At(f, first[2], m) /\ first[1] = Len(h) /\ first[2].nodes = h
  BY DEF Got
<1> HIDE DEF first
<1>2. OnlyRead(f, m, first, r)
  BY <1>1, AndOnly DEF Follows, first
<1> HIDE DEF r
<1>3. PICK z : At(f, z, m) /\ z.nodes = first[2].nodes /\ r = <<first[1], z>>
  BY <1>2 DEF OnlyRead
<1>4. r[1] = Len(h) /\ At(f, r[2], m) /\ r[2].nodes = h
  BY <1>1, <1>3
<1> QED BY <1>4 DEF Got, r

LEMMA OrFromAnd ==
  ASSUME NEW f \in Seq(Token), NEW p, NEW d, NEW required, NEW m, NEW h \in Seq(NodeType), Len(h) # 0,
         Got(f, parse_AND(d, p, required), m, h), ~Follows(f, m, OrToken)
  PROVE  Got(f, parse_OR(d, p, required), m, h)
<1> DEFINE first == parse_AND(d, p, required)
           r     == parse_OR(d, p, required)
<1>1. first[1] # 0 /\ At(f, first[2], m) /\ first[1] = Len(h) /\ first[2].nodes = h
  BY DEF Got
<1> HIDE DEF first
<1>2. OnlyRead(f, m, first, r)
  BY <1>1, OrOnly DEF Follows, first
<1> HIDE DEF r
<1>3. PICK z : At(f, z, m) /\ z.nodes = first[2].nodes /\ r = <<first[1], z>>
  BY <1>2 DEF OnlyRead
<1>4. r[1] = Len(h) /\ At(f, r[2], m) /\ r[2].nodes = h
  BY <1>1, <1>3
<1> QED BY <1>4 DEF Got, r

LEMMA OrFromUnary ==
  ASSUME NEW f \in Seq(Token), NEW p, NEW d, NEW required, NEW m, NEW h \in Seq(NodeType), Len(h) # 0,
         Got(f, parse_unary(d, p, required), m, h), ~Follows(f, m, AndToken \cup OrToken)
  PROVE  Got(f, parse_OR(d, p, required), m, h)
<1>1. ~Follows(f, m, AndToken) /\ ~Follows(f, m, OrToken)
  BY DEF Follows
<1> QED BY <1>1, AndFromUnary, OrFromAnd

LEMMA DeeperIs ==
  ASSUME NEW d \in Nat, d # 0, NEW p \in ParseInfo
  PROVE  /\ Descent[d].OR[p] = parse_OR(Descent[d - 1], p, TRUE)
         /\ Descent[d].AND[p] = parse_AND(Descent[d - 1], p, TRUE)
         /\ Descent[d].unary[p] = parse_unary(Descent[d - 1], p, TRUE)
<1> DEFINE b == d - 1
<1>1. b \in Nat /\ b + 1 = d
  OBVIOUS
<1> HIDE DEF b
<1>2. /\ Descent[b + 1].OR[p] = parse_OR(Descent[b], p, TRUE)
      /\ Descent[b + 1].AND[p] = parse_AND(Descent[b], p, TRUE)
      /\ Descent[b + 1].unary[p] = parse_unary(Descent[b], p, TRUE)
  BY <1>1, DescentIs
<1> QED BY <1>1, <1>2 DEF b

\* The text of a term in parentheses.
LEMMA InParens ==
  ASSUME NEW h \in Seq(NodeType), Whole(h), Len(h) # 0, NEW a, Again(a, h),
         NEW f \in Seq(Token), NEW p, NEW k \in Nat, NEW d \in Nat, NEW required \in BOOLEAN,
         At(f, p, k), p.nodes = SubSeq(h, 1, a), Len(f) - k <= d,
         f[k + 1] = "(", Reads(f, k + 1, epr_create_bm_expr(h)),
         k + Len(epr_create_bm_expr(h)) + 2 <= Len(f), f[k + Len(epr_create_bm_expr(h)) + 2] = ")"
  PROVE  Got(f, parse_unary(Descent[d], p, required), k + Len(epr_create_bm_expr(h)) + 2, h)
<1> DEFINE s == epr_create_bm_expr(h)
           n == Len(s)
           D == Descent[d]
           r == parse_unary(D, p, required)
<1>1. s \in Seq(Token) /\ n \in Nat /\ Len(f) \in Nat
  <2> HIDE DEF s
  <2>1. s \in Seq(Token)
    BY TextType DEF s
  <2> QED BY <2>1
<1>2. /\ k + 1 <= Len(f) /\ f[k + 1] = "("
      /\ k + 1 + n + 1 <= Len(f) /\ f[k + 1 + n + 1] = ")"
  <2> HIDE DEF s
  <2>1. k + 1 + n + 1 = k + n + 2 /\ k + n + 2 <= Len(f) /\ f[k + n + 2] = ")"
    BY <1>1 DEF s
  <2> QED BY <1>1, <2>1
<1>3. At(f, p, k) /\ Reads(f, k + 1, s) /\ p.nodes = SubSeq(h, 1, a) /\ Again(a, h)
  OBVIOUS
<1> HIDE DEF s, n
<1>4. k < Len(f) /\ d # 0 /\ d - 1 \in Nat /\ (d - 1) + 1 = d /\ Len(f) - (k + 1) <= d - 1
  BY <1>1, <1>2
<1>5. PICK z : At(f, z, k) /\ z.nodes = p.nodes /\ r = parse_primary(D, z, required)
  <2> HIDE DEF D
  <2>1. At(f, p, k) /\ ~(k < Len(f) /\ f[k + 1] \in NotToken)
    BY <1>2, <1>3, OperatorFacts
  <2>2. PrimaryRead(f, k, p, D, required, parse_unary(D, p, required))
    BY <2>1, UnaryOther
  <2> QED BY <2>2 DEF PrimaryRead
<1> HIDE DEF D, r
<1>6. PICK q : At(f, q, k + 1) /\ q.nodes = z.nodes /\ r = <<D.OR[q][1], Closed(D.OR[q][2])>>
  <2>1. OpenRead(f, k, z, D, parse_primary(D, z, required))
    BY <1>2, <1>4, <1>5, PrimaryOpen
  <2> QED BY <1>5, <2>1 DEF OpenRead
<1> DEFINE inner == D.OR[q]
<1>7. inner = parse_OR(Descent[d - 1], q, TRUE)
  <2>1. q \in ParseInfo
    BY <1>6, AtFacts
  <2> QED BY <1>4, <2>1, DeeperIs DEF D
<1> HIDE DEF inner
<1>8. Got(f, inner, k + 1 + n, h)
  <2> DEFINE l == k + 1
             b == d - 1
  <2>1. l \in Nat /\ b \in Nat /\ k + 1 + n = l + n
    BY <1>4
  <2>2. Starts(f, q, l, b, s, SubSeq(h, 1, a))
    BY <1>3, <1>4, <1>5, <1>6 DEF Starts
  <2>3. ~Follows(f, l + n, AndToken \cup OrToken)
    BY <1>2, OperatorFacts DEF Follows
  <2>4. inner = parse_OR(Descent[b], q, TRUE)
    BY <1>7
  <2> HIDE DEF l, b
  <2>5. Got(f, parse_OR(Descent[b], q, TRUE), l + n, h)
    <3>1. AgainAt(a, h, s, f, q, l, b, TRUE)
      BY <1>3, <2>1 DEF Again, s
    <3> QED BY <2>2, <2>3, <3>1 DEF AgainAt, n
  <2> QED BY <2>1, <2>4, <2>5
<1>9. At(f, r[2], k + 1 + n + 1) /\ r[2].nodes = h /\ r[1] = Len(h)
  <2> DEFINE m == k + 1 + n
             z2 == inner[2]
  <2>1. At(f, z2, m) /\ z2.nodes = h /\ inner[1] = Len(h)
    BY <1>8 DEF Got
  <2>2. m < Len(f) /\ f[m + 1] = ")"
    BY <1>1, <1>2
  <2>3. r[1] = inner[1] /\ r[2] = Closed(z2)
    BY <1>6 DEF inner
  <2> HIDE DEF m, z2
  <2>4. At(f, Closed(z2), m + 1) /\ Closed(z2).nodes = z2.nodes
    BY <2>1, <2>2, ClosedRuns
  <2> QED BY <2>1, <2>3, <2>4 DEF m
<1>10. k + 1 + n + 1 = k + n + 2
  BY <1>1
<1> QED BY <1>9, <1>10 DEF Got, r, D, s, n

-----------------------------------------------------------------------------
(***************************************************************************)
(* Where the parts of a text are.                                          *)
(***************************************************************************)

LEMMA SameNodes ==
  ASSUME NEW h \in Seq(NodeType), NEW k \in Seq(NodeType), Len(h) = Len(k),
         \A n \in 1 .. Len(h) : h[n] = k[n]
  PROVE  h = k
  OBVIOUS

LEMMA PrefixFacts ==
  ASSUME NEW h \in Seq(NodeType), NEW a \in 0 .. Len(h)
  PROVE  /\ SubSeq(h, 1, a) \in Seq(NodeType) /\ Len(SubSeq(h, 1, a)) = a
         /\ \A n \in 1 .. a : SubSeq(h, 1, a)[n] = h[n]
  OBVIOUS

LEMMA PrefixAll ==
  ASSUME NEW h \in Seq(NodeType)
  PROVE  SubSeq(h, 1, Len(h)) = h
<1> DEFINE k == SubSeq(h, 1, Len(h))
<1>1. Len(h) \in 0 .. Len(h)
  OBVIOUS
<1>2. k \in Seq(NodeType) /\ Len(k) = Len(h) /\ \A n \in 1 .. Len(h) : k[n] = h[n]
  BY <1>1, PrefixFacts
<1> HIDE DEF k
<1>3. k = h
  BY <1>2, SameNodes
<1> QED BY <1>3 DEF k

LEMMA PrefixSame ==
  ASSUME NEW h \in Seq(NodeType), NEW k \in Seq(NodeType), Extends(h, k), NEW a \in 0 .. Len(h)
  PROVE  SubSeq(k, 1, a) = SubSeq(h, 1, a)
<1> DEFINE u == SubSeq(k, 1, a)
           v == SubSeq(h, 1, a)
<1>1. Len(h) <= Len(k) /\ a \in 0 .. Len(k) /\ \A n \in 1 .. Len(h) : k[n] = h[n]
  BY DEF Extends
<1>2. u \in Seq(NodeType) /\ Len(u) = a /\ \A n \in 1 .. a : u[n] = k[n]
  BY <1>1, PrefixFacts
<1>3. v \in Seq(NodeType) /\ Len(v) = a /\ \A n \in 1 .. a : v[n] = h[n]
  BY PrefixFacts
<1> HIDE DEF u, v
<1>4. \A n \in 1 .. Len(u) : u[n] = v[n]
  BY <1>1, <1>2, <1>3
<1>5. u = v
  BY <1>2, <1>3, <1>4, SameNodes
<1> QED BY <1>5 DEF u, v

\* What is read where the text of a term is.
LEMMA ReadsIs ==
  ASSUME NEW f \in Seq(Token), NEW k \in Nat, NEW s \in Seq(Token), Reads(f, k, s)
  PROVE  k + Len(s) <= Len(f) /\ \A i \in 1 .. Len(s) : f[k + i] = s[i]
  BY DEF Reads

LEMMA RefPlaces ==
  ASSUME NEW f \in Seq(Token), NEW k \in Nat, NEW x \in Token, NEW y \in Token,
         Reads(f, k, <<x, ".", y>>)
  PROVE  k + 3 <= Len(f) /\ f[k + 1] = x /\ f[k + 2] = "." /\ f[k + 3] = y
<1> DEFINE s == <<x, ".", y>>
<1>1. s \in Seq(Token) /\ Len(s) = 3 /\ s[1] = x /\ s[2] = "." /\ s[3] = y
  BY KeywordFacts
<1>2. Reads(f, k, s)
  OBVIOUS
<1> HIDE DEF s
<1>3. k + Len(s) <= Len(f) /\ \A i \in 1 .. Len(s) : f[k + i] = s[i]
  BY <1>1, <1>2, ReadsIs
<1> QED BY <1>1, <1>3

LEMMA JoinFacts ==
  ASSUME NEW u \in Seq(Token), NEW v \in Seq(Token)
  PROVE  u \o v \in Seq(Token) /\ Len(u \o v) = Len(u) + Len(v) /\ Len(u) \in Nat /\ Len(v) \in Nat
  OBVIOUS

LEMMA NotPlaces ==
  ASSUME NEW f \in Seq(Token), NEW k \in Nat, NEW s \in Seq(Token),
         Reads(f, k, <<"NOT", "(">> \o s \o <<")">>)
  PROVE  /\ k + Len(s) + 3 <= Len(f) /\ f[k + 1] = "NOT" /\ f[k + 2] = "(" /\ f[k + Len(s) + 3] = ")"
         /\ Reads(f, k + 2, s)
<1> DEFINE u == <<"NOT", "(">>
           v == <<")">>
           w == u \o s
           l == k + 2
           m == k + Len(w)
<1>1. /\ u \in Seq(Token) /\ v \in Seq(Token) /\ Len(u) = 2 /\ Len(v) = 1
      /\ u[1] = "NOT" /\ u[2] = "(" /\ v[1] = ")"
  BY KeywordFacts
<1>2. Reads(f, k, w \o v)
  OBVIOUS
<1> HIDE DEF u, v
<1>3. w \in Seq(Token) /\ Len(w) = Len(s) + 2 /\ Len(w) \in Nat /\ Len(s) \in Nat
  <2>1. u \in Seq(Token) /\ Len(u) = 2
    BY <1>1
  <2>2. u \o s \in Seq(Token) /\ Len(u \o s) = Len(u) + Len(s) /\ Len(s) \in Nat
    BY ONLY <2>1, s \in Seq(Token), JoinFacts
  <2> HIDE DEF w
  <2>3. w \in Seq(Token) /\ Len(w) = Len(u) + Len(s)
    BY <2>2 DEF w
  <2> QED BY <2>1, <2>2, <2>3
<1>4. Reads(f, k, w) /\ Reads(f, m, v)
  <2> HIDE DEF w
  <2> QED BY <1>1, <1>2, <1>3, ReadsParts
<1>5. Reads(f, k, u) /\ Reads(f, l, s)
  BY <1>1, <1>4, ReadsParts
<1>6. m \in Nat /\ m = k + Len(s) + 2 /\ Len(f) \in Nat
  BY <1>3
<1> HIDE DEF w, m
<1>7. m + Len(v) <= Len(f) /\ \A i \in 1 .. Len(v) : f[m + i] = v[i]
  BY <1>1, <1>4, <1>6, ReadsIs
<1>8. k + Len(u) <= Len(f) /\ \A i \in 1 .. Len(u) : f[k + i] = u[i]
  BY <1>1, <1>5, ReadsIs
<1>9. f[m + 1] = ")" /\ m + 1 <= Len(f) /\ m + 1 = k + Len(s) + 3
  BY <1>1, <1>3, <1>6, <1>7
<1>10. f[k + 1] = "NOT" /\ f[k + 2] = "("
  BY <1>1, <1>8
<1> QED BY <1>5, <1>9, <1>10

\* The text of a term of two operands.
TwoText(s, op, t) == <<"(">> \o s \o <<")", op, "(">> \o t \o <<")">>

LEMMA TwoPlaces ==
  ASSUME NEW f \in Seq(Token), NEW k \in Nat, NEW s \in Seq(Token), NEW t \in Seq(Token),
         NEW op \in {"AND", "OR"},
         Reads(f, k, TwoText(s, op, t))
  PROVE  /\ f[k + 1] = "(" /\ f[k + Len(s) + 2] = ")" /\ f[k + Len(s) + 3] = op
         /\ f[k + Len(s) + 4] = "(" /\ f[k + Len(s) + Len(t) + 5] = ")"
         /\ k + Len(s) + Len(t) + 5 <= Len(f)
         /\ Reads(f, k + 1, s) /\ Reads(f, k + Len(s) + 4, t)
<1> DEFINE u == <<"(">>
           v == <<")", op, "(">>
           x == <<")">>
           w1 == u \o s
           w2 == w1 \o v
           w3 == w2 \o t
           m1 == k + 1
           m2 == k + Len(s) + 1
           m3 == k + Len(s) + 4
           m4 == k + Len(s) + Len(t) + 4
<1>1. /\ u \in Seq(Token) /\ v \in Seq(Token) /\ x \in Seq(Token) /\ Len(u) = 1 /\ Len(v) = 3 /\ Len(x) = 1
      /\ u[1] = "(" /\ v[1] = ")" /\ v[2] = op /\ v[3] = "(" /\ x[1] = ")"
  BY KeywordFacts
<1>2. Reads(f, k, w3 \o x)
  BY DEF TwoText
<1> HIDE DEF u, v, x
<1>3. w1 \in Seq(Token) /\ Len(w1) = Len(s) + 1 /\ Len(s) \in Nat /\ Len(t) \in Nat /\ Len(f) \in Nat
  <2>1. u \in Seq(Token) /\ Len(u) = 1 /\ Len(t) \in Nat /\ Len(f) \in Nat
    BY <1>1
  <2>2. u \o s \in Seq(Token) /\ Len(u \o s) = Len(u) + Len(s) /\ Len(s) \in Nat
    BY ONLY <2>1, s \in Seq(Token), JoinFacts
  <2> HIDE DEF w1
  <2>3. w1 \in Seq(Token) /\ Len(w1) = Len(u) + Len(s)
    BY <2>2 DEF w1
  <2> QED BY <2>1, <2>2, <2>3
<1>4. w2 \in Seq(Token) /\ Len(w2) = Len(s) + 4
  <2> HIDE DEF w1
  <2>1. w1 \in Seq(Token) /\ v \in Seq(Token) /\ Len(v) = 3
    BY <1>1, <1>3
  <2>2. w1 \o v \in Seq(Token) /\ Len(w1 \o v) = Len(w1) + Len(v)
    BY ONLY <2>1, JoinFacts
  <2> HIDE DEF w2
  <2>3. w2 \in Seq(Token) /\ Len(w2) = Len(w1) + Len(v)
    BY <2>2 DEF w2
  <2> QED BY <1>3, <2>1, <2>3
<1>5. w3 \in Seq(Token) /\ Len(w3) = Len(s) + Len(t) + 4
  <2> HIDE DEF w2
  <2>1. w2 \o t \in Seq(Token) /\ Len(w2 \o t) = Len(w2) + Len(t)
    BY ONLY <1>4, t \in Seq(Token), JoinFacts
  <2> HIDE DEF w3
  <2>2. w3 \in Seq(Token) /\ Len(w3) = Len(w2) + Len(t)
    BY <2>1 DEF w3
  <2> QED BY <1>3, <1>4, <2>2
<1>6. /\ m1 \in Nat /\ m2 \in Nat /\ m3 \in Nat /\ m4 \in Nat
      /\ m1 = k + Len(u) /\ m2 = k + Len(w1) /\ m3 = k + Len(w2) /\ m4 = k + Len(w3)
  BY <1>1, <1>3, <1>4, <1>5
<1>7. Reads(f, k, w3) /\ Reads(f, m4, x)
  <2> HIDE DEF w3, m4
  <2>1. Reads(f, k, w3) /\ Reads(f, k + Len(w3), x)
    BY <1>1, <1>2, <1>5, ReadsParts
  <2> QED BY <1>6, <2>1
<1>8. Reads(f, k, w2) /\ Reads(f, m3, t)
  <2> HIDE DEF w2, m3
  <2>1. Reads(f, k, w2) /\ Reads(f, k + Len(w2), t)
    BY <1>4, <1>7, ReadsParts
  <2> QED BY <1>6, <2>1
<1>9. Reads(f, k, w1) /\ Reads(f, m2, v)
  <2> HIDE DEF w1, m2
  <2>1. Reads(f, k, w1) /\ Reads(f, k + Len(w1), v)
    BY <1>1, <1>3, <1>8, ReadsParts
  <2> QED BY <1>6, <2>1
<1>10. Reads(f, k, u) /\ Reads(f, m1, s)
  <2> HIDE DEF m1
  <2>1. Reads(f, k, u) /\ Reads(f, k + Len(u), s)
    BY <1>1, <1>9, ReadsParts
  <2> QED BY <1>6, <2>1
<1> HIDE DEF w1, w2, w3
<1>11. f[k + 1] = "("
  <2>1. \A i \in 1 .. Len(u) : f[k + i] = u[i]
    <3>1. u \in Seq(Token) /\ Reads(f, k, u)
      BY <1>1, <1>10
    <3> QED BY ONLY <3>1, f \in Seq(Token), k \in Nat, ReadsIs
  <2>2. 1 \in 1 .. Len(u) /\ u[1] = "("
    BY <1>1
  <2> QED BY <2>1, <2>2
<1>12. f[m2 + 1] = ")" /\ f[m2 + 2] = op /\ f[m2 + 3] = "("
  <2> HIDE DEF m2
  <2>1. \A i \in 1 .. Len(v) : f[m2 + i] = v[i]
    <3>1. v \in Seq(Token) /\ m2 \in Nat /\ Reads(f, m2, v)
      BY <1>1, <1>6, <1>9
    <3> QED BY ONLY <3>1, f \in Seq(Token), ReadsIs
  <2>2. /\ 1 \in 1 .. Len(v) /\ 2 \in 1 .. Len(v) /\ 3 \in 1 .. Len(v)
        /\ v[1] = ")" /\ v[2] = op /\ v[3] = "("
    BY <1>1
  <2> QED BY <2>1, <2>2
<1>13. f[m4 + 1] = ")" /\ m4 + 1 <= Len(f)
  <2> HIDE DEF m4
  <2>1. m4 + Len(x) <= Len(f) /\ \A i \in 1 .. Len(x) : f[m4 + i] = x[i]
    <3>1. x \in Seq(Token) /\ m4 \in Nat /\ Reads(f, m4, x)
      BY <1>1, <1>6, <1>7
    <3> QED BY ONLY <3>1, f \in Seq(Token), ReadsIs
  <2>2. Len(x) = 1 /\ 1 \in 1 .. Len(x) /\ x[1] = ")"
    BY <1>1
  <2> QED BY <2>1, <2>2
<1>14. /\ m2 + 1 = k + Len(s) + 2 /\ m2 + 2 = k + Len(s) + 3 /\ m2 + 3 = k + Len(s) + 4
       /\ m4 + 1 = k + Len(s) + Len(t) + 5
  BY <1>3
<1> QED BY <1>8, <1>10, <1>11, <1>12, <1>13, <1>14

-----------------------------------------------------------------------------
(***************************************************************************)
(* References and NOT are read again.                                      *)
(***************************************************************************)

LEMMA RefAgain ==
  ASSUME NEW g \in Seq(NodeType), Whole(g), NEW x \in Token, NEW y \in Token,
         IsAName(x), x \notin NotToken, IsAName(y)
  PROVE  Again(Len(g), Append(g, REF(x, y)))
<1> DEFINE h == Append(g, REF(x, y))
           s == epr_create_bm_expr(h)
           a == Len(g)
<1>1. s = <<x, ".", y>> /\ s \in Seq(Token) /\ Len(s) = 3
  <2>1. s = <<x, ".", y>>
    BY TextRef
  <2> HIDE DEF s
  <2> QED BY <2>1, KeywordFacts
<1>2. h \in Seq(NodeType) /\ Len(h) = a + 1 /\ a \in Nat /\ SubSeq(h, 1, a) = g
  <2>1. REF(x, y) \in NodeType
    BY NodeTypes
  <2>2. h \in Seq(NodeType) /\ Len(h) = Len(g) + 1 /\ Len(g) \in Nat /\ Extends(g, h)
    BY <2>1, AppendExtends
  <2> HIDE DEF h
  <2>3. SubSeq(h, 1, Len(g)) = SubSeq(g, 1, Len(g))
    BY <2>2, PrefixSame
  <2> QED BY <2>2, <2>3, PrefixAll
<1> HIDE DEF s
<1>3. ASSUME NEW f \in Seq(Token), NEW p, NEW k \in Nat, NEW d \in Nat, NEW required \in BOOLEAN,
             Starts(f, p, k, d, s, g), ~Follows(f, k + Len(s), AndToken \cup OrToken)
      PROVE  Got(f, parse_OR(Descent[d], p, required), k + Len(s), h)
  <2> DEFINE D == Descent[d]
             r == parse_unary(D, p, required)
  <2> HIDE DEF D
  <2>1. At(f, p, k) /\ p.nodes = g /\ Reads(f, k, s)
    BY <1>3 DEF Starts
  <2>2. k + 3 <= Len(f) /\ f[k + 1] = x /\ f[k + 2] = "." /\ f[k + 3] = y /\ Len(f) \in Nat
    BY <1>1, <2>1, RefPlaces
  <2>3. k < Len(f) /\ k + 2 < Len(f) /\ x # Unknown
    BY <2>2 DEF IsAName
  <2>4. PrimaryRead(f, k, p, D, required, r)
    BY <2>1, <2>2, UnaryOther
  <2> HIDE DEF r
  <2>5. PICK z : At(f, z, k) /\ z.nodes = p.nodes /\ r = parse_primary(D, z, required)
    BY <2>4 DEF PrimaryRead
  <2>6. r = FlagReference(NextToken(z))
    BY <2>2, <2>3, <2>5, PrimaryName
  <2>7. /\ r[1] = Len(z.nodes) + 1 /\ At(f, r[2], k + 3)
        /\ r[2].nodes = Append(z.nodes, REF(x, y))
    <3> DEFINE b == FlagReference(NextToken(z))
    <3>1. /\ b[1] = Len(z.nodes) + 1 /\ At(f, b[2], k + 3)
          /\ b[2].nodes = Append(z.nodes, REF(f[k + 1], f[k + 3]))
      BY <2>2, <2>3, <2>5, FlagReferenceRuns
    <3> HIDE DEF b
    <3>2. r = b
      BY <2>6 DEF b
    <3> QED BY <2>2, <3>1, <3>2
  <2>8. r[1] = Len(h) /\ At(f, r[2], k + Len(s)) /\ r[2].nodes = h
    BY <1>1, <1>2, <2>1, <2>5, <2>7
  <2> DEFINE m == k + Len(s)
  <2>9. Got(f, r, m, h) /\ Len(h) # 0 /\ ~Follows(f, m, AndToken \cup OrToken)
    BY <1>2, <1>3, <2>8 DEF Got
  <2> HIDE DEF h, m
  <2>10. Got(f, parse_OR(D, p, required), m, h)
    BY <1>2, <2>9, OrFromUnary DEF r
  <2> QED BY <2>10 DEF D, m
<1> HIDE DEF h, a
<1>4. Again(a, h)
  BY <1>2, <1>3 DEF Again, AgainAt, s
<1> QED BY <1>4 DEF a, h

LEMMA NotAgain ==
  ASSUME NEW h \in Seq(NodeType), Whole(h), Len(h) # 0, NEW a \in 0 .. Len(h), Again(a, h)
  PROVE  Again(a, Append(h, NOT(Len(h))))
<1> DEFINE x == NOT(Len(h))
           k0 == Append(h, x)
           s == epr_create_bm_expr(h)
           t == epr_create_bm_expr(k0)
<1>1. s \in Seq(Token) /\ Len(s) \in Nat
  <2>1. s \in Seq(Token)
    BY TextType
  <2> HIDE DEF s
  <2> QED BY <2>1
<1>2. t = <<"NOT", "(">> \o s \o <<")">>
  BY TextNot
<1>3. x \in NodeType /\ k0 \in Seq(NodeType) /\ Len(k0) = Len(h) + 1 /\ Len(h) \in Nat
      /\ SubSeq(k0, 1, a) = SubSeq(h, 1, a)
  <2>1. Len(h) \in Nat
    OBVIOUS
  <2>2. x \in NodeType
    BY <2>1, NodeTypes
  <2> HIDE DEF x
  <2>3. k0 \in Seq(NodeType) /\ Len(k0) = Len(h) + 1 /\ Extends(h, k0)
    BY <2>2, AppendExtends
  <2> HIDE DEF k0
  <2>4. SubSeq(k0, 1, a) = SubSeq(h, 1, a)
    BY <2>3, PrefixSame
  <2> QED BY <2>1, <2>2, <2>3, <2>4
<1> HIDE DEF s, t
<1>4. Len(t) = Len(s) + 3
  <2> DEFINE u == <<"NOT", "(">>
             v == <<")">>
  <2>1. u \in Seq(Token) /\ v \in Seq(Token) /\ Len(u) = 2 /\ Len(v) = 1
    BY KeywordFacts
  <2>2. t = (u \o s) \o v
    BY <1>2
  <2> HIDE DEF u, v
  <2>3. u \o s \in Seq(Token) /\ Len(u \o s) = Len(u) + Len(s)
    BY ONLY <1>1, <2>1, JoinFacts
  <2>4. Len((u \o s) \o v) = Len(u \o s) + Len(v)
    BY ONLY <2>1, <2>3, JoinFacts
  <2> QED BY <1>1, <2>1, <2>2, <2>3, <2>4
<1>5. ASSUME NEW f \in Seq(Token), NEW p, NEW k \in Nat, NEW d \in Nat, NEW required \in BOOLEAN,
             Starts(f, p, k, d, t, SubSeq(h, 1, a)), ~Follows(f, k + Len(t), AndToken \cup OrToken)
      PROVE  Got(f, parse_OR(Descent[d], p, required), k + Len(t), k0)
  <2> DEFINE D == Descent[d]
             r == parse_unary(D, p, required)
             l == k + 1
             b == d - 1
             g == SubSeq(h, 1, a)
  <2>1. At(f, p, k) /\ p.nodes = g /\ Reads(f, k, t) /\ Len(f) - k <= d
    BY <1>5 DEF Starts
  <2> HIDE DEF D, g
  <2>2. /\ k + Len(s) + 3 <= Len(f) /\ f[k + 1] = "NOT" /\ f[k + 2] = "(" /\ f[k + Len(s) + 3] = ")"
        /\ Reads(f, k + 2, s) /\ Len(f) \in Nat
    BY <1>1, <1>2, <2>1, NotPlaces
  <2>3. /\ k < Len(f) /\ f[k + 1] \in NotToken /\ d # 0 /\ l \in Nat /\ b \in Nat
        /\ Len(f) - l <= b /\ l + 1 = k + 2 /\ l + Len(s) + 2 = k + Len(s) + 3
    BY <1>1, <2>1, <2>2, OperatorFacts
  <2>4. NotIsRead(f, k, p, D, r)
    BY <2>1, <2>3, UnaryNot
  <2> HIDE DEF r
  <2>5. PICK z : At(f, z, l) /\ z.nodes = p.nodes /\ r = NewTerm(D.unary[z][2], NOT(D.unary[z][1]))
    BY <2>4 DEF NotIsRead
  <2> DEFINE inner == D.unary[z]
  <2>6. inner = parse_unary(Descent[b], z, TRUE)
    <3>1. z \in ParseInfo
      BY <2>5, AtFacts
    <3> QED BY <2>3, <3>1, DeeperIs DEF D
  <2> HIDE DEF inner, l, b
  <2>7. Got(f, inner, l + Len(s) + 2, h)
    <3>1. /\ f[l + 1] = "(" /\ Reads(f, l + 1, s) /\ l + Len(s) + 2 <= Len(f) /\ f[l + Len(s) + 2] = ")"
      BY <2>2, <2>3
    <3>2. At(f, z, l) /\ z.nodes = SubSeq(h, 1, a) /\ Len(f) - l <= b
      BY <2>1, <2>3, <2>5 DEF g
    <3>3. Got(f, parse_unary(Descent[b], z, TRUE), l + Len(s) + 2, h)
      BY <2>3, <3>1, <3>2, InParens DEF s
    <3> QED BY <2>6, <3>3
  <2> DEFINE m == k + Len(t)
             z2 == inner[2]
  <2>8. At(f, z2, m) /\ z2.nodes = h /\ inner[1] = Len(h) /\ r = NewTerm(z2, x)
    BY <1>1, <1>4, <2>3, <2>5, <2>7 DEF Got, inner
  <2> HIDE DEF m, z2, x
  <2>9. r[1] = Len(h) + 1 /\ At(f, r[2], m) /\ r[2].nodes = k0
    BY <1>3, <2>8, NewTermMade
  <2>10. Got(f, r, m, k0) /\ Len(k0) # 0 /\ ~Follows(f, m, AndToken \cup OrToken)
    BY <1>3, <1>5, <2>9 DEF Got, m
  <2> HIDE DEF k0
  <2>11. Got(f, parse_OR(D, p, required), m, k0)
    BY <1>3, <2>10, OrFromUnary DEF r
  <2> QED BY <2>11 DEF D, m
<1> HIDE DEF k0
<1>6. Again(a, k0)
  BY <1>3, <1>5 DEF Again, AgainAt, t
<1> QED BY <1>6 DEF k0, x

-----------------------------------------------------------------------------
(***************************************************************************)
(* AND and OR are read again.                                              *)
(***************************************************************************)

LEMMA TwoTextLength ==
  ASSUME NEW s \in Seq(Token), NEW t \in Seq(Token), NEW op \in {"AND", "OR"}
  PROVE  Len(TwoText(s, op, t)) = Len(s) + Len(t) + 5
<1> DEFINE u == <<"(">>
           v == <<")", op, "(">>
           x == <<")">>
           w1 == u \o s
           w2 == w1 \o v
           w3 == w2 \o t
<1>1. /\ u \in Seq(Token) /\ v \in Seq(Token) /\ x \in Seq(Token) /\ Len(u) = 1 /\ Len(v) = 3 /\ Len(x) = 1
      /\ Len(s) \in Nat /\ Len(t) \in Nat
  BY KeywordFacts
<1>2. TwoText(s, op, t) = w3 \o x
  BY DEF TwoText
<1> HIDE DEF u, v, x
<1>3. w1 \in Seq(Token) /\ Len(w1) = Len(u) + Len(s)
  BY ONLY <1>1, s \in Seq(Token), JoinFacts
<1> HIDE DEF w1
<1>4. w2 \in Seq(Token) /\ Len(w2) = Len(w1) + Len(v)
  BY ONLY <1>1, <1>3, JoinFacts
<1> HIDE DEF w2
<1>5. w3 \in Seq(Token) /\ Len(w3) = Len(w2) + Len(t)
  BY ONLY <1>4, t \in Seq(Token), JoinFacts
<1> HIDE DEF w3
<1>6. Len(w3 \o x) = Len(w3) + Len(x)
  BY ONLY <1>1, <1>5, JoinFacts
<1> QED BY <1>1, <1>2, <1>3, <1>4, <1>5, <1>6

\* Its operands are read: the first up to j, the second up to m.
Operands(f, p, d, required, j, m, op, h, k) ==
  /\ Got(f, parse_unary(Descent[d], p, required), j, h)
  /\ j < Len(f) /\ f[j + 1] = op
  /\ \A z : At(f, z, j + 1) /\ z.nodes = h => Got(f, parse_unary(Descent[d - 1], z, TRUE), m, k)

LEMMA OperandsRead ==
  ASSUME NEW h \in Seq(NodeType), NEW g \in Seq(NodeType), Extends(h, g), Whole(g), Len(h) # 0,
         NEW a \in 0 .. Len(h), Again(a, h), Again(Len(h), g),
         NEW op \in {"AND", "OR"},
         NEW f \in Seq(Token), NEW p, NEW k \in Nat, NEW d \in Nat, NEW required \in BOOLEAN,
         Starts(f, p, k, d, TwoText(epr_create_bm_expr(h), op, epr_create_bm_expr(g)), SubSeq(h, 1, a))
  PROVE  /\ Operands(f, p, d, required, k + Len(epr_create_bm_expr(h)) + 2,
                     k + Len(TwoText(epr_create_bm_expr(h), op, epr_create_bm_expr(g))), op, h, g)
         /\ d # 0
<1> DEFINE s == epr_create_bm_expr(h)
           t == epr_create_bm_expr(g)
           n == Len(s)
           l == Len(t)
           w == TwoText(s, op, t)
           j == k + n + 2
           i == j + 1
           m == k + n + l + 5
           b == d - 1
           k1 == SubSeq(h, 1, a)
<1>1. Whole(h) /\ Len(g) # 0 /\ SubSeq(g, 1, Len(h)) = h
  <2>1. Whole(h)
    BY WholePrefix
  <2>2. Len(h) \in Nat /\ Len(g) \in Nat /\ Len(h) <= Len(g) /\ Len(h) \in 0 .. Len(h)
    BY DEF Extends
  <2>3. SubSeq(g, 1, Len(h)) = SubSeq(h, 1, Len(h))
    BY <2>2, PrefixSame
  <2> QED BY <2>1, <2>2, <2>3, PrefixAll
<1>2. s \in Seq(Token) /\ t \in Seq(Token)
  BY <1>1, TextType
<1>3. Starts(f, p, k, d, w, k1)
  OBVIOUS
<1> HIDE DEF s, t, k1
<1>4. n \in Nat /\ l \in Nat /\ Len(f) \in Nat /\ Len(w) = n + l + 5 /\ k + Len(w) = m
  <2>1. Len(s) \in Nat /\ Len(t) \in Nat /\ Len(f) \in Nat
    BY <1>2
  <2>2. Len(w) = Len(s) + Len(t) + 5
    BY <1>2, TwoTextLength
  <2> HIDE DEF w
  <2> QED BY <2>1, <2>2
<1>5. At(f, p, k) /\ p.nodes = k1 /\ Reads(f, k, w) /\ Len(f) - k <= d
  BY <1>3 DEF Starts
<1> HIDE DEF w, n, l
<1>6. /\ f[k + 1] = "(" /\ f[k + n + 2] = ")" /\ f[k + n + 3] = op
      /\ f[k + n + 4] = "(" /\ f[k + n + l + 5] = ")"
      /\ k + n + l + 5 <= Len(f)
      /\ Reads(f, k + 1, s) /\ Reads(f, k + n + 4, t)
  <2>1. Reads(f, k, TwoText(s, op, t))
    BY <1>5 DEF w
  <2> QED BY <1>2, <2>1, TwoPlaces DEF n, l
<1>7. k + n + 2 <= Len(f)
  BY <1>4, <1>6
<1>8. Got(f, parse_unary(Descent[d], p, required), j, h)
  BY <1>1, <1>5, <1>6, <1>7, InParens DEF s, k1, n
<1>9. /\ i \in Nat /\ d # 0 /\ b \in Nat /\ Len(f) - i <= b /\ j < Len(f)
      /\ i = k + n + 3 /\ i + 1 = k + n + 4 /\ i + l + 2 = k + n + l + 5
  BY <1>4, <1>5, <1>6
<1> HIDE DEF j, i, b
<1>10. ASSUME NEW z, At(f, z, i), z.nodes = h
       PROVE  Got(f, parse_unary(Descent[b], z, TRUE), i + l + 2, g)
  <2>1. f[i + 1] = "(" /\ f[i + l + 2] = ")" /\ i + l + 2 <= Len(f) /\ Reads(f, i + 1, t)
    BY <1>6, <1>9
  <2>2. z.nodes = SubSeq(g, 1, Len(h))
    BY <1>1, <1>10
  <2> QED BY <1>1, <1>9, <1>10, <2>1, <2>2, InParens DEF l, t
<1>11. i = j + 1 /\ i + l + 2 = m /\ f[j + 1] = op
  BY <1>6, <1>9 DEF i
<1> HIDE DEF m
<1>12. Operands(f, p, d, required, j, m, op, h, g)
  BY <1>8, <1>9, <1>10, <1>11 DEF Operands, b
<1> QED BY <1>4, <1>9, <1>12 DEF j, n, s, t, w

LEMMA AndOfOperands ==
  ASSUME NEW h \in Seq(NodeType), NEW g \in Seq(NodeType), Len(h) # 0, Len(g) # 0,
         NEW f \in Seq(Token), NEW p, NEW d \in Nat, d # 0, NEW required \in BOOLEAN, NEW j \in Nat, NEW m,
         Operands(f, p, d, required, j, m, "AND", h, g), ~Follows(f, m, AndToken \cup OrToken)
  PROVE  Got(f, parse_OR(Descent[d], p, required), m, Append(g, AND(Len(h), Len(g))))
<1> DEFINE D == Descent[d]
           b == d - 1
           first == parse_unary(D, p, required)
           r == parse_AND(D, p, required)
           x == AND(Len(h), Len(g))
           k0 == Append(g, x)
<1>0. Len(h) \in Nat /\ Len(g) \in Nat /\ b \in Nat /\ "AND" \in AndToken
  BY OperatorFacts
<1>1. /\ Got(f, first, j, h) /\ j < Len(f) /\ f[j + 1] \in AndToken
      /\ \A z : At(f, z, j + 1) /\ z.nodes = h => Got(f, parse_unary(Descent[b], z, TRUE), m, g)
  BY <1>0 DEF Operands
<1> HIDE DEF D, first, r, b
<1>2. first[1] = Len(h) /\ At(f, first[2], j) /\ first[2].nodes = h
  BY <1>1 DEF Got
<1>3. AndRead(f, j, first, D, r)
  BY <1>1, <1>2, AndMore DEF first, r
<1>4. PICK z : /\ At(f, z, j + 1) /\ z.nodes = h
               /\ r = NewTerm(D.AND[z][2], AND(Len(h), D.AND[z][1]))
  BY <1>2, <1>3 DEF AndRead
<1> DEFINE inner == D.AND[z]
           y == inner[2]
<1>5. inner = parse_AND(Descent[b], z, TRUE)
  BY <1>4, AtFacts, DeeperIs DEF D, b
<1>6. Got(f, parse_unary(Descent[b], z, TRUE), m, g) /\ ~Follows(f, m, AndToken) /\ ~Follows(f, m, OrToken)
  BY <1>1, <1>4 DEF Follows
<1>7. Got(f, parse_AND(Descent[b], z, TRUE), m, g)
  BY <1>6, AndFromUnary
<1> HIDE DEF inner
<1>8. At(f, y, m) /\ y.nodes = g /\ inner[1] = Len(g)
  BY <1>5, <1>7 DEF Got
<1>9. r = NewTerm(y, x)
  BY <1>4, <1>8 DEF inner
<1>10. x \in NodeType
  BY <1>0, NodeTypes
<1> HIDE DEF x, y
<1>11. r[1] = Len(g) + 1 /\ At(f, r[2], m) /\ r[2].nodes = k0
  BY <1>8, <1>9, <1>10, NewTermMade
<1>12. k0 \in Seq(NodeType) /\ Len(k0) = Len(g) + 1
  BY <1>10, AppendExtends
<1> HIDE DEF k0
<1>13. Got(f, r, m, k0) /\ Len(k0) # 0
  BY <1>0, <1>11, <1>12 DEF Got
<1>14. Got(f, parse_OR(D, p, required), m, k0)
  BY <1>6, <1>12, <1>13, OrFromAnd DEF r
<1> QED BY <1>14 DEF D, k0, x

LEMMA OrOfOperands ==
  ASSUME NEW h \in Seq(NodeType), NEW g \in Seq(NodeType), Len(h) # 0, Len(g) # 0,
         NEW f \in Seq(Token), NEW p, NEW d \in Nat, d # 0, NEW required \in BOOLEAN, NEW j \in Nat, NEW m,
         Operands(f, p, d, required, j, m, "OR", h, g), ~Follows(f, m, AndToken \cup OrToken)
  PROVE  Got(f, parse_OR(Descent[d], p, required), m, Append(g, OR(Len(h), Len(g))))
<1> DEFINE D == Descent[d]
           b == d - 1
           first == parse_AND(D, p, required)
           r == parse_OR(D, p, required)
           x == OR(Len(h), Len(g))
           k0 == Append(g, x)
<1>0. Len(h) \in Nat /\ Len(g) \in Nat /\ b \in Nat /\ "OR" \in OrToken /\ "OR" \notin AndToken
  BY OperatorFacts
<1>1. /\ Got(f, parse_unary(D, p, required), j, h) /\ j < Len(f) /\ f[j + 1] \in OrToken
      /\ ~Follows(f, j, AndToken)
      /\ \A z : At(f, z, j + 1) /\ z.nodes = h => Got(f, parse_unary(Descent[b], z, TRUE), m, g)
  BY <1>0 DEF Operands, Follows
<1> HIDE DEF D, b
<1>2. Got(f, first, j, h)
  BY <1>1, AndFromUnary
<1> HIDE DEF first, r
<1>3. first[1] = Len(h) /\ At(f, first[2], j) /\ first[2].nodes = h
  BY <1>2 DEF Got
<1>4. OrRead(f, j, first, D, r)
  BY <1>1, <1>3, OrMore DEF first, r
<1>5. PICK z : /\ At(f, z, j + 1) /\ z.nodes = h
               /\ r = NewTerm(D.OR[z][2], OR(Len(h), D.OR[z][1]))
  BY <1>3, <1>4 DEF OrRead
<1> DEFINE inner == D.OR[z]
           y == inner[2]
<1>6. inner = parse_OR(Descent[b], z, TRUE)
  BY <1>5, AtFacts, DeeperIs DEF D, b
<1>7. Got(f, parse_OR(Descent[b], z, TRUE), m, g)
  BY <1>1, <1>5, OrFromUnary
<1> HIDE DEF inner
<1>8. At(f, y, m) /\ y.nodes = g /\ inner[1] = Len(g)
  BY <1>6, <1>7 DEF Got
<1>9. r = NewTerm(y, x)
  BY <1>5, <1>8 DEF inner
<1>10. x \in NodeType
  BY <1>0, NodeTypes
<1> HIDE DEF x, y
<1>11. r[1] = Len(g) + 1 /\ At(f, r[2], m) /\ r[2].nodes = k0
  BY <1>8, <1>9, <1>10, NewTermMade
<1>12. Len(k0) = Len(g) + 1
  BY <1>10, AppendExtends
<1> QED BY <1>11, <1>12 DEF Got, D, k0, x, r

LEMMA TwoAgain ==
  ASSUME NEW h \in Seq(NodeType), NEW g \in Seq(NodeType), Extends(h, g), Whole(g), Len(h) # 0,
         NEW a \in 0 .. Len(h), Again(a, h), Again(Len(h), g)
  PROVE  /\ Again(a, Append(g, AND(Len(h), Len(g))))
         /\ Again(a, Append(g, OR(Len(h), Len(g))))
<1> DEFINE s == epr_create_bm_expr(h)
           t == epr_create_bm_expr(g)
           x == AND(Len(h), Len(g))
           y == OR(Len(h), Len(g))
           kx == Append(g, x)
           ky == Append(g, y)
<1>1. Len(h) \in Nat /\ Len(g) \in Nat /\ Len(h) <= Len(g) /\ Len(g) # 0 /\ a \in 0 .. Len(g)
  BY DEF Extends
<1>2. epr_create_bm_expr(kx) = TwoText(s, "AND", t) /\ epr_create_bm_expr(ky) = TwoText(s, "OR", t)
  BY TextTwo DEF TwoText
<1>3. SubSeq(kx, 1, a) = SubSeq(h, 1, a) /\ SubSeq(ky, 1, a) = SubSeq(h, 1, a)
  <2>1. x \in NodeType /\ y \in NodeType
    BY <1>1, NodeTypes
  <2> HIDE DEF x, y
  <2>2. Extends(g, kx) /\ Extends(g, ky) /\ kx \in Seq(NodeType) /\ ky \in Seq(NodeType)
    BY <2>1, AppendExtends
  <2> HIDE DEF kx, ky
  <2>3. SubSeq(kx, 1, a) = SubSeq(g, 1, a) /\ SubSeq(ky, 1, a) = SubSeq(g, 1, a)
    BY <1>1, <2>2, PrefixSame
  <2> QED BY <2>3, PrefixSame
<1>4. Len(s) \in Nat
  <2>1. Whole(h)
    BY WholePrefix
  <2>2. s \in Seq(Token)
    BY <2>1, TextType
  <2> HIDE DEF s
  <2> QED BY <2>2
<1>5. ASSUME NEW f \in Seq(Token), NEW p, NEW k \in Nat, NEW d \in Nat, NEW required \in BOOLEAN,
             Starts(f, p, k, d, TwoText(s, "AND", t), SubSeq(h, 1, a)),
             ~Follows(f, k + Len(TwoText(s, "AND", t)), AndToken \cup OrToken)
      PROVE  Got(f, parse_OR(Descent[d], p, required), k + Len(TwoText(s, "AND", t)), kx)
  <2> DEFINE j == k + Len(s) + 2
             m == k + Len(TwoText(s, "AND", t))
  <2>1. Operands(f, p, d, required, j, m, "AND", h, g) /\ d # 0 /\ j \in Nat
    BY <1>4, <1>5, OperandsRead
  <2>2. ~Follows(f, m, AndToken \cup OrToken)
    BY <1>5
  <2> HIDE DEF j, m
  <2>3. Got(f, parse_OR(Descent[d], p, required), m, Append(g, AND(Len(h), Len(g))))
    BY <1>1, <2>1, <2>2, AndOfOperands
  <2> QED BY <2>3 DEF m
<1>6. ASSUME NEW f \in Seq(Token), NEW p, NEW k \in Nat, NEW d \in Nat, NEW required \in BOOLEAN,
             Starts(f, p, k, d, TwoText(s, "OR", t), SubSeq(h, 1, a)),
             ~Follows(f, k + Len(TwoText(s, "OR", t)), AndToken \cup OrToken)
      PROVE  Got(f, parse_OR(Descent[d], p, required), k + Len(TwoText(s, "OR", t)), ky)
  <2> DEFINE j == k + Len(s) + 2
             m == k + Len(TwoText(s, "OR", t))
  <2>1. Operands(f, p, d, required, j, m, "OR", h, g) /\ d # 0 /\ j \in Nat
    BY <1>4, <1>6, OperandsRead
  <2>2. ~Follows(f, m, AndToken \cup OrToken)
    BY <1>6
  <2> HIDE DEF j, m
  <2>3. Got(f, parse_OR(Descent[d], p, required), m, Append(g, OR(Len(h), Len(g))))
    BY <1>1, <2>1, <2>2, OrOfOperands
  <2> QED BY <2>3 DEF m
<1> HIDE DEF kx, ky, s, t
<1>7. Again(a, kx)
  BY <1>2, <1>3, <1>5 DEF Again, AgainAt
<1>8. Again(a, ky)
  BY <1>2, <1>3, <1>6 DEF Again, AgainAt
<1> QED BY <1>7, <1>8 DEF kx, ky, x, y

-----------------------------------------------------------------------------
(***************************************************************************)
(* The induction over the depth of calls.  What a function of the descent  *)
(* returns at a place is Good: without an error it is a term that has one  *)
(* of the meanings of the tokens it has read (Sound), and it is returned   *)
(* for every sentence that stands there and is not followed by an          *)
(* operator that it would read on (Complete).                              *)
(***************************************************************************)

\* The nodes h after the first a are a term that has one of the meanings ms and
\* that is made again from its text.
MaskOf(all, h) == {pixel \in all : Holds(h, pixel)}

Tree(all, a, h, ms) == Whole(h) /\ Len(h) # 0 /\ Again(a, h) /\ MaskOf(all, h) \in ms

LEMMA TreeMore ==
  ASSUME NEW all, NEW a, NEW h, NEW ms, NEW ns, Tree(all, a, h, ms), \A M \in ms : M \in ns
  PROVE  Tree(all, a, h, ns)
  BY DEF Tree

LEMMA TreeRef ==
  ASSUME NEW all, NEW g \in Seq(NodeType), Whole(g), NEW x \in Token, NEW y \in Token,
         IsAName(x), x \notin NotToken, IsAName(y), NEW ms,
         {pixel \in all : <<x, y>> \in pixel} \in ms
  PROVE  Tree(all, Len(g), Append(g, REF(x, y)), ms)
<1> DEFINE h == Append(g, REF(x, y))
<1>1. Again(Len(g), h)
  BY RefAgain
<1>2. Whole(h)
  BY TextRef
<1>3. Len(h) # 0
  <2>1. REF(x, y) \in NodeType
    BY NodeTypes
  <2>2. Len(h) = Len(g) + 1 /\ Len(g) \in Nat
    BY <2>1, AppendExtends
  <2> HIDE DEF h
  <2> QED BY <2>2
<1>4. \A pixel \in all : Holds(h, pixel) <=> <<x, y>> \in pixel
  BY WholeOrdered, HoldsRef
<1> HIDE DEF h
<1>5. MaskOf(all, h) = {pixel \in all : <<x, y>> \in pixel}
  BY <1>4 DEF MaskOf
<1> QED BY <1>1, <1>2, <1>3, <1>5 DEF Tree, h

LEMMA TreeNot ==
  ASSUME NEW all, NEW h \in Seq(NodeType), NEW a \in 0 .. Len(h), NEW ms, Tree(all, a, h, ms),
         NEW ns, \A M \in ms : all \ M \in ns
  PROVE  Tree(all, a, Append(h, NOT(Len(h))), ns)
<1> DEFINE g == Append(h, NOT(Len(h)))
<1>0. Whole(h) /\ Len(h) # 0 /\ Again(a, h) /\ MaskOf(all, h) \in ms /\ Ordered(h)
  BY WholeOrdered DEF Tree
<1>1. Again(a, g)
  BY <1>0, NotAgain
<1>2. Whole(g)
  BY <1>0, TextNot
<1>3. Len(g) # 0
  <2>1. Len(h) \in Nat
    OBVIOUS
  <2>2. NOT(Len(h)) \in NodeType
    BY <2>1, NodeTypes
  <2>3. Len(g) = Len(h) + 1
    BY <2>2, AppendExtends
  <2> HIDE DEF g
  <2> QED BY <2>1, <2>3
<1>4. \A pixel \in all : Holds(g, pixel) <=> ~Holds(h, pixel)
  BY <1>0, HoldsNot
<1> HIDE DEF g
<1>5. MaskOf(all, g) = all \ MaskOf(all, h)
  BY <1>4 DEF MaskOf
<1> QED BY <1>0, <1>1, <1>2, <1>3, <1>5 DEF Tree, g

LEMMA TreeAnd ==
  ASSUME NEW all, NEW h \in Seq(NodeType), NEW g \in Seq(NodeType), Extends(h, g),
         NEW a \in 0 .. Len(h), NEW ms, NEW ns, Tree(all, a, h, ms), Tree(all, Len(h), g, ns),
         NEW os, \A M \in ms, N \in ns : M \cap N \in os
  PROVE  Tree(all, a, Append(g, AND(Len(h), Len(g))), os)
<1> DEFINE k == Append(g, AND(Len(h), Len(g)))
<1>0. /\ Whole(h) /\ Len(h) # 0 /\ Again(a, h) /\ MaskOf(all, h) \in ms
      /\ Whole(g) /\ Len(g) # 0 /\ Again(Len(h), g) /\ MaskOf(all, g) \in ns /\ Ordered(g)
  BY WholeOrdered DEF Tree
<1>1. Again(a, k)
  BY <1>0, TwoAgain
<1>2. Whole(k)
  BY <1>0, TextTwo
<1>3. Len(k) # 0
  <2>1. Len(h) \in Nat /\ Len(g) \in Nat
    OBVIOUS
  <2>2. AND(Len(h), Len(g)) \in NodeType
    BY <2>1, NodeTypes
  <2>3. Len(k) = Len(g) + 1
    BY <2>2, AppendExtends
  <2> HIDE DEF k
  <2> QED BY <2>1, <2>3
<1>4. \A pixel \in all : Holds(k, pixel) <=> Holds(h, pixel) /\ Holds(g, pixel)
  BY <1>0, HoldsTwo
<1> HIDE DEF k
<1>5. MaskOf(all, k) = MaskOf(all, h) \cap MaskOf(all, g)
  BY <1>4 DEF MaskOf
<1> QED BY <1>0, <1>1, <1>2, <1>3, <1>5 DEF Tree, k

LEMMA TreeOr ==
  ASSUME NEW all, NEW h \in Seq(NodeType), NEW g \in Seq(NodeType), Extends(h, g),
         NEW a \in 0 .. Len(h), NEW ms, NEW ns, Tree(all, a, h, ms), Tree(all, Len(h), g, ns),
         NEW os, \A M \in ms, N \in ns : M \cup N \in os
  PROVE  Tree(all, a, Append(g, OR(Len(h), Len(g))), os)
<1> DEFINE k == Append(g, OR(Len(h), Len(g)))
<1>0. /\ Whole(h) /\ Len(h) # 0 /\ Again(a, h) /\ MaskOf(all, h) \in ms
      /\ Whole(g) /\ Len(g) # 0 /\ Again(Len(h), g) /\ MaskOf(all, g) \in ns /\ Ordered(g)
  BY WholeOrdered DEF Tree
<1>1. Again(a, k)
  BY <1>0, TwoAgain
<1>2. Whole(k)
  BY <1>0, TextTwo
<1>3. Len(k) # 0
  <2>1. Len(h) \in Nat /\ Len(g) \in Nat
    OBVIOUS
  <2>2. OR(Len(h), Len(g)) \in NodeType
    BY <2>1, NodeTypes
  <2>3. Len(k) = Len(g) + 1
    BY <2>2, AppendExtends
  <2> HIDE DEF k
  <2> QED BY <2>1, <2>3
<1>4. \A pixel \in all : Holds(k, pixel) <=> Holds(h, pixel) \/ Holds(g, pixel)
  BY <1>0, HoldsTwo
<1> HIDE DEF k
<1>5. MaskOf(all, k) = MaskOf(all, h) \cup MaskOf(all, g)
  BY <1>4 DEF MaskOf
<1> QED BY <1>0, <1>1, <1>2, <1>3, <1>5 DEF Tree, k

\* What a function may return at the place i, with the nodes g before: c tells
\* which it is.
MeansAt(c, e, all, i, j) == CASE c = "OR" -> OrAt(e, all, i, j)
                              [] c = "AND" -> AndAt(e, all, i, j)
                              [] c = "NOT" -> NotAt(e, all, i, j)

Following(c) == CASE c = "OR" -> AndToken \cup OrToken [] c = "AND" -> AndToken [] c = "NOT" -> {}

MadeTo(c, e, all, g, i, j, r) ==
  /\ At(e, r[2], j)
  /\ r[1] = Len(r[2].nodes)
  /\ Extends(g, r[2].nodes)
  /\ Tree(all, Len(g), r[2].nodes, MeansAt(c, e, all, i, j))
  /\ ~Follows(e, j, Following(c))

Made(c, e, all, g, i, r) == \E j \in i + 1 .. Len(e) : MadeTo(c, e, all, g, i, j, r)

Nothing(e, g, i, required, r) ==
  ~required /\ i = Len(e) /\ r[1] = 0 /\ At(e, r[2], i) /\ r[2].nodes = g

Sound(c, e, all, g, i, required, r) ==
  ~r[2].error => Made(c, e, all, g, i, r) \/ Nothing(e, g, i, required, r)

Readable(c, e, all, i, j) == MeansAt(c, e, all, i, j) # {} /\ ~Follows(e, j, Following(c))

Complete(c, e, all, i, r) ==
  \A j \in i .. Len(e) : Readable(c, e, all, i, j) => r[1] # 0 /\ At(e, r[2], j)

Good(c, e, all, g, i, required, r) ==
  /\ Sound(c, e, all, g, i, required, r)
  /\ Complete(c, e, all, i, r)
  /\ ~required /\ i = Len(e) => ~r[2].error

DeepGood(e, all, i, d) ==
  /\ \A z, k : At(e, z, k) /\ i < k /\ Whole(z.nodes) => Good("OR", e, all, z.nodes, k, TRUE, d.OR[z])
  /\ \A z, k : At(e, z, k) /\ i < k /\ Whole(z.nodes) => Good("AND", e, all, z.nodes, k, TRUE, d.AND[z])
  /\ \A z, k : At(e, z, k) /\ i < k /\ Whole(z.nodes) => Good("NOT", e, all, z.nodes, k, TRUE, d.unary[z])

LEMMA Kinds ==
  ASSUME NEW e, NEW all, NEW i, NEW j
  PROVE  /\ MeansAt("OR", e, all, i, j) = OrAt(e, all, i, j)
         /\ MeansAt("AND", e, all, i, j) = AndAt(e, all, i, j)
         /\ MeansAt("NOT", e, all, i, j) = NotAt(e, all, i, j)
         /\ Following("OR") = AndToken \cup OrToken /\ Following("AND") = AndToken /\ Following("NOT") = {}
  BY DEF MeansAt, Following

-----------------------------------------------------------------------------
(***************************************************************************)
(* parse_primary, without parentheses.                                     *)
(***************************************************************************)

\* A sentence of a primary expression that does not begin with NOT.
LEMMA PrimaryOfNot ==
  ASSUME NEW all, NEW e \in Seq(Token), NEW i \in 0 .. Len(e), NEW j \in i .. Len(e),
         ~(i < Len(e) /\ e[i + 1] \in NotToken), NotAt(e, all, i, j) # {}
  PROVE  \/ /\ i < Len(e) /\ j = i + 3 /\ IsAName(e[i + 1]) /\ e[i + 2] = "." /\ IsAName(e[i + 3])
         \/ /\ i < Len(e) /\ i + 2 < j /\ e[i + 1] = "(" /\ e[j] = ")"
            /\ OrAt(e, all, i + 1, j - 1) # {}
<1>1. PICK M : M \in NotAt(e, all, i, j)
  OBVIOUS
<1>2. i < j => i < Len(e)
  OBVIOUS
<1>3. M \in PrimaryAt(e, all, i, j)
  BY <1>1, <1>2, NotIs DEF NotJoined
<1>4. \/ /\ j = i + 3 /\ IsAName(e[i + 1]) /\ e[i + 1] \notin NotToken
         /\ e[i + 2] = "." /\ IsAName(e[i + 3])
      \/ /\ i + 2 < j /\ e[i + 1] = "(" /\ e[j] = ")"
         /\ M \in OrAt(e, all, i + 1, j - 1)
  BY <1>3, PrimaryIs
<1>5. j = i + 3 => i < Len(e)
  OBVIOUS
<1>6. i + 2 < j => i < Len(e)
  OBVIOUS
<1> QED BY <1>4, <1>5, <1>6

LEMMA SomeTokens ==
  ASSUME NEW all, NEW e \in Seq(Token), NEW i \in 0 .. Len(e), NEW j \in i .. Len(e),
         NotAt(e, all, i, j) # {}
  PROVE  i < j
<1>1. PICK M : M \in NotAt(e, all, i, j)
  OBVIOUS
<1>2. M \in PrimaryAt(e, all, i, j) \/ NotJoined(e, all, i, j, M)
  BY <1>1, NotIs
<1>3. CASE M \in PrimaryAt(e, all, i, j)
  <2>1. j = i + 3 \/ i + 2 < j
    BY <1>3, PrimaryIs
  <2> QED BY <2>1
<1>4. CASE NotJoined(e, all, i, j, M)
  BY <1>4 DEF NotJoined
<1> QED BY <1>2, <1>3, <1>4

LEMMA RefMeans ==
  ASSUME NEW all, NEW e \in Seq(Token), NEW i \in 0 .. Len(e), i + 3 <= Len(e),
         IsAName(e[i + 1]), e[i + 1] \notin NotToken, e[i + 2] = ".", IsAName(e[i + 3])
  PROVE  {pixel \in all : <<e[i + 1], e[i + 3]>> \in pixel} \in NotAt(e, all, i, i + 3)
<1> DEFINE j == i + 3
           M == {pixel \in all : <<e[i + 1], e[i + 3]>> \in pixel}
<1>1. j \in i .. Len(e) /\ j = i + 3
  OBVIOUS
<1>2. M = {pixel \in all : <<e[i + 1], e[i + 3]>> \in pixel}
  OBVIOUS
<1> HIDE DEF M, j
<1>3. M \in PrimaryAt(e, all, i, j)
  BY <1>1, <1>2, PrimaryIs
<1>4. M \in NotAt(e, all, i, j)
  BY <1>1, <1>3, NotIs
<1> QED BY <1>4 DEF M, j

LEMMA OpenMeans ==
  ASSUME NEW all, NEW e \in Seq(Token), NEW i \in 0 .. Len(e), NEW j \in i + 2 .. Len(e) - 1,
         e[i + 1] = "(", e[j + 1] = ")"
  PROVE  \A M \in OrAt(e, all, i + 1, j) : M \in NotAt(e, all, i, j + 1)
<1> DEFINE k == j + 1
<1>1. k \in i .. Len(e) /\ i + 2 < k /\ k - 1 = j /\ e[k] = ")"
  OBVIOUS
<1> HIDE DEF k
<1>2. ASSUME NEW M \in OrAt(e, all, i + 1, j) PROVE M \in NotAt(e, all, i, k)
  <2>1. M \in PrimaryAt(e, all, i, k)
    BY <1>1, PrimaryIs
  <2> QED BY <1>1, <2>1, NotIs
<1> QED BY <1>2 DEF k

LEMMA NotMeans ==
  ASSUME NEW all, NEW e \in Seq(Token), NEW i \in 0 .. Len(e), NEW j \in i + 1 .. Len(e),
         e[i + 1] \in NotToken
  PROVE  /\ \A M \in NotAt(e, all, i + 1, j) : all \ M \in NotAt(e, all, i, j)
         /\ NotAt(e, all, i, j) # {} => NotAt(e, all, i + 1, j) # {}
<1>0. j \in i .. Len(e) /\ i < j /\ e[i + 1] # "(" 
  BY OperatorFacts
<1>1. ASSUME NEW M \in NotAt(e, all, i + 1, j) PROVE all \ M \in NotAt(e, all, i, j)
  <2> DEFINE N == all \ M
  <2>1. NotJoined(e, all, i, j, N)
    BY <1>0, <1>1 DEF NotJoined
  <2> HIDE DEF N
  <2>2. N \in NotAt(e, all, i, j)
    BY <1>0, <2>1, NotIs
  <2> QED BY <2>2 DEF N
<1>2. ASSUME NotAt(e, all, i, j) # {} PROVE NotAt(e, all, i + 1, j) # {}
  <2>1. PICK M : M \in NotAt(e, all, i, j)
    BY <1>2
  <2>2. M \notin PrimaryAt(e, all, i, j)
    BY <1>0, PrimaryIs
  <2>3. NotJoined(e, all, i, j, M)
    BY <1>0, <2>1, <2>2, NotIs
  <2> QED BY <2>3 DEF NotJoined
<1> QED BY <1>1, <1>2

LEMMA NoMeaning ==
  ASSUME NEW all, NEW e \in Seq(Token), NEW i \in 0 .. Len(e), i = Len(e)
  PROVE  NotAt(e, all, i, i) = {}
<1>1. i \in i .. Len(e) /\ ~(i < i)
  OBVIOUS
<1> QED BY <1>1, SomeTokens

\* parse_primary is good where no NOT is.
LEMMA PrimaryEndGood ==
  ASSUME NEW all, NEW e \in Seq(Token), NEW q, NEW i, NEW d, NEW required \in BOOLEAN, At(e, q, i), i = Len(e)
  PROVE  Good("NOT", e, all, q.nodes, i, required, parse_primary(d, q, required))
<1> DEFINE r == parse_primary(d, q, required)
           g == q.nodes
<1>1. r[1] = 0 /\ (required => r[2].error) /\ (~required => At(e, r[2], i) /\ r[2].nodes = g)
  BY PrimaryEnd
<1>2. i \in 0 .. Len(e)
  BY AtFacts
<1> HIDE DEF r, g
<1>3. Sound("NOT", e, all, g, i, required, r)
  BY <1>1 DEF Sound, Nothing
<1>4. Complete("NOT", e, all, i, r)
  <2> SUFFICES ASSUME NEW j \in i .. Len(e), Readable("NOT", e, all, i, j) PROVE FALSE
    BY DEF Complete
  <2>1. j = i
    BY <1>2
  <2> QED BY <1>2, <2>1, NoMeaning, Kinds DEF Readable
<1>5. ~required => ~r[2].error
  BY <1>1, AtFacts
<1> QED BY <1>3, <1>4, <1>5 DEF Good, r, g

LEMMA PrimaryOtherGood ==
  ASSUME NEW all, NEW e \in Seq(Token), NEW q, NEW i, NEW d, NEW required \in BOOLEAN, At(e, q, i),
         i < Len(e), e[i + 1] # "(", ~IsAName(e[i + 1]), e[i + 1] \notin NotToken
  PROVE  Good("NOT", e, all, q.nodes, i, required, parse_primary(d, q, required))
<1> DEFINE r == parse_primary(d, q, required)
           g == q.nodes
<1>1. r[2].error
  BY PrimaryOther
<1>2. i \in 0 .. Len(e) /\ i # Len(e)
  BY AtFacts
<1> HIDE DEF r, g
<1>3. Sound("NOT", e, all, g, i, required, r)
  BY <1>1 DEF Sound
<1>4. Complete("NOT", e, all, i, r)
  <2> SUFFICES ASSUME NEW j \in i .. Len(e), Readable("NOT", e, all, i, j) PROVE FALSE
    BY DEF Complete
  <2>1. NotAt(e, all, i, j) # {}
    BY Kinds DEF Readable
  <2> QED BY <1>2, <2>1, PrimaryOfNot
<1> QED BY <1>2, <1>3, <1>4 DEF Good, r, g

LEMMA PrimaryNameGood ==
  ASSUME NEW all, NEW e \in Seq(Token), NEW q, NEW i, NEW d, NEW required \in BOOLEAN, At(e, q, i),
         Whole(q.nodes), i < Len(e), IsAName(e[i + 1]), e[i + 1] \notin NotToken
  PROVE  Good("NOT", e, all, q.nodes, i, required, parse_primary(d, q, required))
<1> DEFINE r == parse_primary(d, q, required)
           g == q.nodes
           fits == i + 2 < Len(e) /\ e[i + 2] = "." /\ IsAName(e[i + 3])
           n == REF(e[i + 1], e[i + 3])
           m == i + 3
<1>0. /\ i \in 0 .. Len(e) /\ i \in Nat /\ Len(e) \in Nat /\ i # Len(e)
      /\ g \in Seq(NodeType) /\ Len(g) \in Nat /\ Whole(g)
      /\ e[i + 1] # Unknown /\ e[i + 1] # "("
  BY AtFacts, OperatorFacts DEF IsAName
<1>1. r = FlagReference(NextToken(q))
  BY PrimaryName
<1>2. ~fits => r[2].error
  BY <1>0, <1>1, FlagReferenceFails
<1>3. fits => r[1] = Len(g) + 1 /\ At(e, r[2], m) /\ r[2].nodes = Append(g, n)
  <2> DEFINE b == FlagReference(NextToken(q))
  <2>1. fits => b[1] = Len(g) + 1 /\ At(e, b[2], m) /\ b[2].nodes = Append(g, n)
    BY <1>0, FlagReferenceRuns
  <2> QED BY <1>1, <2>1
<1> HIDE DEF r, g
<1>4. ASSUME fits
      PROVE  MadeTo("NOT", e, all, g, i, m, r) /\ m \in i + 1 .. Len(e) /\ r[1] # 0
  <2>1. e[i + 1] \in Token /\ e[i + 3] \in Token
    <3>1. i + 1 \in 1 .. Len(e) /\ i + 3 \in 1 .. Len(e)
      BY <1>0, <1>4
    <3> QED BY <3>1
  <2>2. {pixel \in all : <<e[i + 1], e[i + 3]>> \in pixel} \in NotAt(e, all, i, m)
    BY <1>0, <1>4, RefMeans
  <2> HIDE DEF m
  <2>3. Tree(all, Len(g), Append(g, n), NotAt(e, all, i, m))
    BY <1>0, <1>4, <2>1, <2>2, TreeRef
  <2>4. n \in NodeType
    BY <2>1, NodeTypes
  <2> HIDE DEF n
  <2>5. Extends(g, Append(g, n)) /\ Len(Append(g, n)) = Len(g) + 1
    BY <1>0, <2>4, AppendExtends
  <2>6. ~Follows(e, m, Following("NOT"))
    BY Kinds DEF Follows
  <2>7. MadeTo("NOT", e, all, g, i, m, r)
    BY <1>3, <1>4, <2>3, <2>5, <2>6, Kinds DEF MadeTo
  <2>8. r[1] # 0
    BY <1>0, <1>3, <1>4
  <2>9. m \in i + 1 .. Len(e)
    BY <1>0, <1>4 DEF m
  <2> QED BY <2>7, <2>8, <2>9
<1> HIDE DEF n
<1>5. Sound("NOT", e, all, g, i, required, r)
  BY <1>2, <1>4 DEF Sound, Made
<1>6. Complete("NOT", e, all, i, r)
  <2> SUFFICES ASSUME NEW j \in i .. Len(e), Readable("NOT", e, all, i, j)
               PROVE  r[1] # 0 /\ At(e, r[2], j)
    BY DEF Complete
  <2>1. NotAt(e, all, i, j) # {}
    BY Kinds DEF Readable
  <2>2. j = m /\ fits
    <3>1. j = i + 3 /\ e[i + 2] = "." /\ IsAName(e[i + 3])
      BY <1>0, <2>1, PrimaryOfNot
    <3> QED BY <1>0, <3>1
  <2> QED BY <1>3, <1>4, <2>2
<1> QED BY <1>0, <1>5, <1>6 DEF Good, r, g

-----------------------------------------------------------------------------
(***************************************************************************)
(* parse_primary with parentheses, and parse_unary.                        *)
(***************************************************************************)

LEMMA DeeperResult ==
  ASSUME NEW d \in Descents, NEW z \in ParseInfo
  PROVE  /\ d.OR[z][1] \in Nat /\ d.OR[z][2] \in ParseInfo
         /\ d.AND[z][1] \in Nat /\ d.AND[z][2] \in ParseInfo
         /\ d.unary[z][1] \in Nat /\ d.unary[z][2] \in ParseInfo
<1>1. d.OR[z] \in Results(z) /\ d.AND[z] \in Results(z) /\ d.unary[z] \in Results(z)
  BY DEF Descents, Functions
<1> QED BY <1>1 DEF Results

\* What a deeper call returns is a term.
LEMMA DeepMade ==
  ASSUME NEW c, NEW e, NEW all, NEW g, NEW i, NEW r, Good(c, e, all, g, i, TRUE, r), ~r[2].error
  PROVE  \E j \in i + 1 .. Len(e) : MadeTo(c, e, all, g, i, j, r)
  BY DEF Good, Sound, Made, Nothing

LEMMA GoodReads ==
  ASSUME NEW c, NEW e, NEW all, NEW g, NEW i, NEW required, NEW r,
         Good(c, e, all, g, i, required, r), NEW j \in i .. Len(e), Readable(c, e, all, i, j)
  PROVE  r[1] # 0 /\ At(e, r[2], j)
  BY DEF Good, Complete

LEMMA PrimaryOpenGood ==
  ASSUME NEW all, NEW e \in Seq(Token), NEW q, NEW i, NEW d \in Descents, NEW required \in BOOLEAN,
         At(e, q, i), Whole(q.nodes), DeepGood(e, all, i, d), i < Len(e), e[i + 1] = "("
  PROVE  Good("NOT", e, all, q.nodes, i, required, parse_primary(d, q, required))
<1> DEFINE r == parse_primary(d, q, required)
           g == q.nodes
           k == i + 1
<1>0. /\ i \in 0 .. Len(e) /\ i \in Nat /\ Len(e) \in Nat /\ i # Len(e) /\ e[i + 1] \notin NotToken
      /\ k \in Nat /\ k = i + 1 /\ i < k
  BY AtFacts, OperatorFacts
<1>1. OpenRead(e, i, q, d, r)
  BY PrimaryOpen
<1> HIDE DEF r, k
<1>2. PICK z : At(e, z, k) /\ z.nodes = g /\ r = <<d.OR[z][1], Closed(d.OR[z][2])>>
  BY <1>1 DEF OpenRead, k
<1> DEFINE b == d.OR[z]
           y == b[2]
<1>3. Good("OR", e, all, g, k, TRUE, b) /\ y \in ParseInfo /\ b[1] \in Nat
  BY <1>0, <1>2, AtFacts, DeeperResult DEF DeepGood
<1>4. r[1] = b[1] /\ r[2] = Closed(y)
  BY <1>2
<1> HIDE DEF b, y, g
<1>5. ASSUME ~r[2].error PROVE Made("NOT", e, all, g, i, r)
  <2>1. ~y.error
    BY <1>3, <1>4, <1>5, ClosedFails
  <2>2. PICK j \in k + 1 .. Len(e) : MadeTo("OR", e, all, g, k, j, b)
    BY <1>3, <2>1, DeepMade DEF y
  <2>3. /\ At(e, y, j) /\ b[1] = Len(y.nodes) /\ Extends(g, y.nodes)
        /\ Tree(all, Len(g), y.nodes, OrAt(e, all, k, j))
    BY <2>2, Kinds DEF MadeTo, y
  <2>4. j < Len(e) /\ e[j + 1] = ")"
    BY <1>4, <1>5, <2>3, ClosedMissing
  <2>5. At(e, r[2], j + 1) /\ r[2].nodes = y.nodes
    BY <1>4, <2>3, <2>4, ClosedRuns
  <2> DEFINE m == j + 1
  <2>6. j \in i + 2 .. Len(e) - 1 /\ m \in i + 1 .. Len(e)
    BY <1>0, <2>4
  <2>7. \A M \in OrAt(e, all, k, j) : M \in NotAt(e, all, i, m)
    BY <1>0, <2>4, <2>6, OpenMeans DEF k
  <2> HIDE DEF m
  <2>8. Tree(all, Len(g), y.nodes, NotAt(e, all, i, m))
    BY <2>3, <2>7, TreeMore
  <2>9. ~Follows(e, m, Following("NOT"))
    BY Kinds DEF Follows
  <2>10. At(e, r[2], m)
    BY <2>5 DEF m
  <2>11. MadeTo("NOT", e, all, g, i, m, r)
    BY <1>4, <2>3, <2>5, <2>8, <2>9, <2>10, Kinds DEF MadeTo
  <2> QED BY <2>6, <2>11 DEF Made
<1>6. Sound("NOT", e, all, g, i, required, r)
  BY <1>5 DEF Sound
<1>7. Complete("NOT", e, all, i, r)
  <2> SUFFICES ASSUME NEW j \in i .. Len(e), Readable("NOT", e, all, i, j)
               PROVE  r[1] # 0 /\ At(e, r[2], j)
    BY DEF Complete
  <2> DEFINE l == j - 1
  <2>1. NotAt(e, all, i, j) # {}
    BY Kinds DEF Readable
  <2>2. i + 2 < j /\ e[j] = ")" /\ OrAt(e, all, k, l) # {}
    <3>1. ~IsAName(e[i + 1])
      BY OperatorFacts
    <3> QED BY <1>0, <2>1, <3>1, PrimaryOfNot DEF k
  <2>3. l \in k .. Len(e) /\ l < Len(e) /\ e[l + 1] = ")" /\ l + 1 = j
    BY <1>0, <2>2
  <2> HIDE DEF l
  <2>4. ~Follows(e, l, Following("OR"))
    BY <2>3, Kinds, OperatorFacts DEF Follows
  <2>5. Readable("OR", e, all, k, l)
    BY <2>2, <2>4, Kinds DEF Readable
  <2>6. b[1] # 0 /\ At(e, y, l)
    BY <1>3, <2>3, <2>5, GoodReads DEF y
  <2>7. At(e, Closed(y), l + 1)
    BY <2>3, <2>6, ClosedRuns
  <2> QED BY <1>4, <2>3, <2>6, <2>7
<1> QED BY <1>0, <1>6, <1>7 DEF Good, r, g

LEMMA PrimaryGood ==
  ASSUME NEW all, NEW e \in Seq(Token), NEW q, NEW i, NEW d \in Descents, NEW required \in BOOLEAN,
         At(e, q, i), Whole(q.nodes), DeepGood(e, all, i, d), ~(i < Len(e) /\ e[i + 1] \in NotToken)
  PROVE  Good("NOT", e, all, q.nodes, i, required, parse_primary(d, q, required))
<1>1. i = Len(e) \/ i < Len(e)
  BY AtFacts
<1>2. CASE i = Len(e)
  BY <1>2, PrimaryEndGood
<1>3. CASE i < Len(e) /\ e[i + 1] = "("
  BY <1>3, PrimaryOpenGood
<1>4. CASE i < Len(e) /\ IsAName(e[i + 1])
  BY <1>4, PrimaryNameGood
<1>5. CASE i < Len(e) /\ e[i + 1] # "(" /\ ~IsAName(e[i + 1])
  BY <1>5, PrimaryOtherGood
<1> QED BY <1>1, <1>2, <1>3, <1>4, <1>5

LEMMA UnaryGood ==
  ASSUME NEW all, NEW e \in Seq(Token), NEW q, NEW i, NEW d \in Descents, NEW required \in BOOLEAN,
         At(e, q, i), Whole(q.nodes), DeepGood(e, all, i, d)
  PROVE  Good("NOT", e, all, q.nodes, i, required, parse_unary(d, q, required))
<1> DEFINE r == parse_unary(d, q, required)
           g == q.nodes
           k == i + 1
<1>0. /\ i \in 0 .. Len(e) /\ i \in Nat /\ Len(e) \in Nat
      /\ k \in Nat /\ k = i + 1 /\ i < k /\ g \in Seq(NodeType) /\ Len(g) \in Nat
  BY AtFacts
<1>1. CASE ~(i < Len(e) /\ e[i + 1] \in NotToken)
  <2>1. PrimaryRead(e, i, q, d, required, r)
    BY <1>1, UnaryOther
  <2> HIDE DEF r
  <2>2. PICK z : At(e, z, i) /\ z.nodes = g /\ r = parse_primary(d, z, required)
    BY <2>1 DEF PrimaryRead
  <2>3. Good("NOT", e, all, z.nodes, i, required, parse_primary(d, z, required))
    BY <1>1, <2>2, PrimaryGood
  <2> QED BY <2>2, <2>3 DEF r
<1>2. CASE i < Len(e) /\ e[i + 1] \in NotToken
  <2>1. NotIsRead(e, i, q, d, r)
    BY <1>2, UnaryNot
  <2> HIDE DEF r, k
  <2>2. PICK z : At(e, z, k) /\ z.nodes = g /\ r = NewTerm(d.unary[z][2], NOT(d.unary[z][1]))
    BY <2>1 DEF NotIsRead, k
  <2> DEFINE b == d.unary[z]
             y == b[2]
             n == NOT(b[1])
  <2>3. Good("NOT", e, all, g, k, TRUE, b) /\ y \in ParseInfo /\ b[1] \in Nat
    BY <1>0, <2>2, AtFacts, DeeperResult DEF DeepGood
  <2>4. r = NewTerm(y, n) /\ n \in NodeType
    BY <2>2, <2>3, NodeTypes
  <2> HIDE DEF b, y, g, n
  <2>5. ASSUME NEW j, At(e, y, j)
        PROVE  r[1] = Len(y.nodes) + 1 /\ At(e, r[2], j) /\ r[2].nodes = Append(y.nodes, n)
               /\ r[1] # 0 /\ y.nodes \in Seq(NodeType) /\ Len(y.nodes) \in Nat
    <3>1. y.nodes \in Seq(NodeType) /\ Len(y.nodes) \in Nat
      BY <2>5, AtFacts
    <3>2. r[1] = Len(y.nodes) + 1 /\ At(e, r[2], j) /\ r[2].nodes = Append(y.nodes, n)
      BY <2>4, <2>5, NewTermMade
    <3> QED BY <3>1, <3>2
  <2>6. ASSUME ~r[2].error PROVE Made("NOT", e, all, g, i, r)
    <3>1. ~y.error
      BY <2>3, <2>4, <2>6, NewTermFails
    <3>2. PICK j \in k + 1 .. Len(e) : MadeTo("NOT", e, all, g, k, j, b)
      BY <2>3, <3>1, DeepMade DEF y
    <3> DEFINE h == y.nodes
    <3>3. /\ At(e, y, j) /\ b[1] = Len(h) /\ Extends(g, h)
          /\ Tree(all, Len(g), h, NotAt(e, all, k, j))
      BY <3>2, Kinds DEF MadeTo, y
    <3>4. /\ r[1] = Len(h) + 1 /\ At(e, r[2], j) /\ r[2].nodes = Append(h, n)
          /\ h \in Seq(NodeType) /\ Len(h) \in Nat
      BY <2>5, <3>3
    <3> HIDE DEF h
    <3>5. j \in i + 1 .. Len(e) /\ Len(g) \in 0 .. Len(h)
      BY <1>0, <3>3, <3>4 DEF Extends
    <3>6. \A M \in NotAt(e, all, k, j) : all \ M \in NotAt(e, all, i, j)
      BY <1>0, <1>2, <3>5, NotMeans DEF k
    <3>7. Tree(all, Len(g), Append(h, NOT(Len(h))), NotAt(e, all, i, j))
      BY <3>3, <3>4, <3>5, <3>6, TreeNot
    <3>8. n = NOT(Len(h))
      BY <3>3 DEF n
    <3>9. Extends(h, Append(h, n)) /\ Append(h, n) \in Seq(NodeType) /\ Len(Append(h, n)) = Len(h) + 1
      BY <2>4, <3>4, AppendExtends
    <3>10. Extends(g, Append(h, n))
      BY <1>0, <3>3, <3>4, <3>9, ExtendsTrans DEF g
    <3>11. ~Follows(e, j, Following("NOT"))
      BY Kinds DEF Follows
    <3>12. MadeTo("NOT", e, all, g, i, j, r)
      BY <3>4, <3>7, <3>8, <3>9, <3>10, <3>11, Kinds DEF MadeTo
    <3> QED BY <3>5, <3>12 DEF Made
  <2>7. Sound("NOT", e, all, g, i, required, r)
    BY <2>6 DEF Sound
  <2>8. Complete("NOT", e, all, i, r)
    <3> SUFFICES ASSUME NEW j \in i .. Len(e), Readable("NOT", e, all, i, j)
                 PROVE  r[1] # 0 /\ At(e, r[2], j)
      BY DEF Complete
    <3>1. NotAt(e, all, i, j) # {}
      BY Kinds DEF Readable
    <3>2. j \in i + 1 .. Len(e)
      <4>1. i < j
        BY <1>0, <3>1, SomeTokens
      <4> QED BY <1>0, <4>1
    <3>3. NotAt(e, all, k, j) # {}
      BY <1>0, <1>2, <3>1, <3>2, NotMeans DEF k
    <3>4. ~Follows(e, j, Following("NOT"))
      BY Kinds DEF Follows
    <3>5. Readable("NOT", e, all, k, j) /\ j \in k .. Len(e)
      BY <1>0, <3>2, <3>3, <3>4, Kinds DEF Readable
    <3>6. At(e, y, j)
      BY <2>3, <3>5, GoodReads DEF y
    <3> QED BY <2>5, <3>6
  <2> QED BY <1>0, <1>2, <2>7, <2>8 DEF Good, r, g
<1> QED BY <1>1, <1>2

-----------------------------------------------------------------------------
(***************************************************************************)
(* A list of operands: what parse_AND and parse_OR have in common.         *)
(***************************************************************************)

\* The readable sentences of c1 are lists of those of c0, with operators of T.
Begins(c0, c1, T, e, all, i, j) ==
  \/ Readable(c0, e, all, i, j)
  \/ \E x \in i + 1 .. j : /\ e[x] \in T /\ Readable(c0, e, all, i, x - 1)
                           /\ Readable(c1, e, all, x, j)

ListsOf(c0, c1, T, e, all) ==
  /\ Following(c1) = Following(c0) \cup T
  /\ \A i \in 0 .. Len(e) : \A j \in i .. Len(e) : Readable(c1, e, all, i, j) => Begins(c0, c1, T, e, all, i, j)
  /\ \A i \in 0 .. Len(e) : \A j \in i .. Len(e) :
       \A M \in MeansAt(c0, e, all, i, j) : M \in MeansAt(c1, e, all, i, j)

LEMMA AndLists ==
  ASSUME NEW all, NEW e \in Seq(Token)
  PROVE  ListsOf("NOT", "AND", AndToken, e, all)
<1>1. Following("AND") = Following("NOT") \cup AndToken
  BY Kinds
<1>2. ASSUME NEW i \in 0 .. Len(e), NEW j \in i .. Len(e), NEW M \in NotAt(e, all, i, j)
      PROVE  M \in AndAt(e, all, i, j)
  BY <1>2, AndIs
<1>3. ASSUME NEW i \in 0 .. Len(e), NEW j \in i .. Len(e), Readable("AND", e, all, i, j)
      PROVE  Begins("NOT", "AND", AndToken, e, all, i, j)
  <2>1. AndAt(e, all, i, j) # {} /\ ~Follows(e, j, AndToken)
    BY <1>3, Kinds DEF Readable
  <2>2. \A k : ~Follows(e, k, Following("NOT"))
    BY Kinds DEF Follows
  <2>3. CASE NotAt(e, all, i, j) # {}
    <3>1. Readable("NOT", e, all, i, j)
      BY <2>2, <2>3, Kinds DEF Readable
    <3> QED BY <3>1 DEF Begins
  <2>4. CASE \E x \in i + 1 .. j : /\ e[x] \in AndToken /\ NotAt(e, all, i, x - 1) # {}
                                   /\ AndAt(e, all, x, j) # {}
    <3>1. PICK x \in i + 1 .. j : /\ e[x] \in AndToken /\ NotAt(e, all, i, x - 1) # {}
                                  /\ AndAt(e, all, x, j) # {}
      BY <2>4
    <3>2. Readable("NOT", e, all, i, x - 1)
      BY <2>2, <3>1, Kinds DEF Readable
    <3>3. Readable("AND", e, all, x, j)
      BY <2>1, <3>1, Kinds DEF Readable
    <3> QED BY <3>1, <3>2, <3>3 DEF Begins
  <2> QED BY <2>1, <2>3, <2>4, AndUncons
<1> QED BY <1>1, <1>2, <1>3, Kinds DEF ListsOf

LEMMA OrLists ==
  ASSUME NEW all, NEW e \in Seq(Token)
  PROVE  ListsOf("AND", "OR", OrToken, e, all)
<1>1. Following("OR") = Following("AND") \cup OrToken
  BY Kinds
<1>2. ASSUME NEW i \in 0 .. Len(e), NEW j \in i .. Len(e), NEW M \in AndAt(e, all, i, j)
      PROVE  M \in OrAt(e, all, i, j)
  BY <1>2, OrIs
<1>3. ASSUME NEW i \in 0 .. Len(e), NEW j \in i .. Len(e), Readable("OR", e, all, i, j)
      PROVE  Begins("AND", "OR", OrToken, e, all, i, j)
  <2>1. OrAt(e, all, i, j) # {} /\ ~Follows(e, j, AndToken \cup OrToken) /\ ~Follows(e, j, AndToken)
    BY <1>3, Kinds DEF Readable, Follows
  <2>2. CASE AndAt(e, all, i, j) # {}
    <3>1. Readable("AND", e, all, i, j)
      BY <2>1, <2>2, Kinds DEF Readable
    <3> QED BY <3>1 DEF Begins
  <2>3. CASE \E x \in i + 1 .. j : /\ e[x] \in OrToken /\ AndAt(e, all, i, x - 1) # {}
                                   /\ OrAt(e, all, x, j) # {}
    <3>1. PICK x \in i + 1 .. j : /\ e[x] \in OrToken /\ AndAt(e, all, i, x - 1) # {}
                                  /\ OrAt(e, all, x, j) # {}
      BY <2>3
    <3>2. ~Follows(e, x - 1, AndToken)
      <4>1. e[(x - 1) + 1] = e[x] /\ e[x] \notin AndToken
        BY <3>1, OperatorFacts
      <4> QED BY <4>1 DEF Follows
    <3>3. Readable("AND", e, all, i, x - 1)
      BY <3>1, <3>2, Kinds DEF Readable
    <3>4. Readable("OR", e, all, x, j)
      BY <2>1, <3>1, Kinds DEF Readable
    <3> QED BY <3>1, <3>3, <3>4 DEF Begins
  <2> QED BY <2>1, <2>2, <2>3, OrUncons
<1> QED BY <1>1, <1>2, <1>3, Kinds DEF ListsOf

\* The first operand is all there is, or nothing.
LEMMA ListStopGood ==
  ASSUME NEW c0, NEW c1, NEW T, NEW all, NEW e \in Seq(Token), ListsOf(c0, c1, T, e, all),
         NEW g, NEW i \in 0 .. Len(e), NEW required \in BOOLEAN, NEW first,
         Good(c0, e, all, g, i, required, first), first[1] = 0 \/ first[2].error
  PROVE  Good(c1, e, all, g, i, required, first)
<1>1. ASSUME NEW j \in i .. Len(e) PROVE ~Readable(c0, e, all, i, j)
  <2> SUFFICES ASSUME Readable(c0, e, all, i, j) PROVE FALSE
    OBVIOUS
  <2>1. first[1] # 0 /\ At(e, first[2], j)
    BY GoodReads
  <2> QED BY <2>1, AtFacts
<1>2. Sound(c1, e, all, g, i, required, first)
  <2> SUFFICES ASSUME ~first[2].error PROVE Nothing(e, g, i, required, first)
    BY DEF Sound
  <2>1. ~Made(c0, e, all, g, i, first)
    BY DEF Made, MadeTo, Tree
  <2> QED BY <2>1 DEF Good, Sound
<1>3. Complete(c1, e, all, i, first)
  <2> SUFFICES ASSUME NEW j \in i .. Len(e), Readable(c1, e, all, i, j) PROVE FALSE
    BY DEF Complete
  <2>1. Begins(c0, c1, T, e, all, i, j)
    BY DEF ListsOf
  <2>2. PICK x \in i + 1 .. j : Readable(c0, e, all, i, x - 1)
    BY <1>1, <2>1 DEF Begins
  <2>3. x - 1 \in i .. Len(e)
    OBVIOUS
  <2> QED BY <1>1, <2>2, <2>3
<1> QED BY <1>2, <1>3 DEF Good

LEMMA FirstMade ==
  ASSUME NEW c0, NEW all, NEW e \in Seq(Token), NEW g, NEW i, NEW required, NEW first,
         Good(c0, e, all, g, i, required, first), first[1] # 0, ~first[2].error
  PROVE  \E j \in i + 1 .. Len(e) : MadeTo(c0, e, all, g, i, j, first)
  BY DEF Good, Sound, Made, Nothing

LEMMA ListOnlyGood ==
  ASSUME NEW c0, NEW c1, NEW T, NEW all, NEW e \in Seq(Token), ListsOf(c0, c1, T, e, all),
         NEW g, NEW i \in 0 .. Len(e), NEW required \in BOOLEAN, NEW first,
         Good(c0, e, all, g, i, required, first), first[1] # 0,
         NEW k \in i + 1 .. Len(e), MadeTo(c0, e, all, g, i, k, first), ~Follows(e, k, T),
         NEW r, OnlyRead(e, k, first, r)
  PROVE  Good(c1, e, all, g, i, required, r)
<1>1. PICK z : At(e, z, k) /\ z.nodes = first[2].nodes /\ r = <<first[1], z>>
  BY DEF OnlyRead
<1>2. r[1] = first[1] /\ At(e, r[2], k) /\ r[2].nodes = first[2].nodes
  BY <1>1
<1>3. k \in i .. Len(e) /\ ~Follows(e, k, Following(c1))
  <2>1. ~Follows(e, k, Following(c0)) /\ Following(c1) = Following(c0) \cup T
    BY DEF MadeTo, ListsOf
  <2> QED BY <2>1 DEF Follows
<1>4. Sound(c1, e, all, g, i, required, r)
  <2>1. Tree(all, Len(g), first[2].nodes, MeansAt(c0, e, all, i, k))
    BY DEF MadeTo
  <2>2. \A M \in MeansAt(c0, e, all, i, k) : M \in MeansAt(c1, e, all, i, k)
    BY <1>3 DEF ListsOf
  <2>3. Tree(all, Len(g), r[2].nodes, MeansAt(c1, e, all, i, k))
    BY <1>2, <2>1, <2>2, TreeMore
  <2>4. MadeTo(c1, e, all, g, i, k, r)
    BY <1>2, <1>3, <2>3 DEF MadeTo
  <2> QED BY <2>4 DEF Sound, Made
<1>5. Complete(c1, e, all, i, r)
  <2> SUFFICES ASSUME NEW j \in i .. Len(e), Readable(c1, e, all, i, j)
               PROVE  r[1] # 0 /\ At(e, r[2], j)
    BY DEF Complete
  <2>0. At(e, first[2], k)
    BY DEF MadeTo
  <2>1. ASSUME NEW l \in i .. Len(e), Readable(c0, e, all, i, l) PROVE l = k
    <3>1. At(e, first[2], l)
      BY <2>1, GoodReads
    <3> QED BY <2>0, <3>1, OnePlace
  <2>2. Begins(c0, c1, T, e, all, i, j)
    BY DEF ListsOf
  <2>3. ASSUME NEW x \in i + 1 .. j, e[x] \in T, Readable(c0, e, all, i, x - 1) PROVE FALSE
    <3> DEFINE l == x - 1
    <3>1. l \in i .. Len(e) /\ l + 1 = x /\ l < Len(e)
      OBVIOUS
    <3>2. Readable(c0, e, all, i, l)
      BY <2>3
    <3> HIDE DEF l
    <3>3. l = k
      BY <2>1, <3>1, <3>2
    <3> QED BY <2>3, <3>1, <3>3 DEF Follows
  <2>4. Readable(c0, e, all, i, j)
    BY <2>2, <2>3 DEF Begins
  <2> QED BY <1>2, <2>1, <2>4
<1>6. i # Len(e)
  OBVIOUS
<1> QED BY <1>4, <1>5, <1>6 DEF Good

\* The second operand makes a term of the whole.
Completed(c1, e, all, g, h, i, l, b, x) ==
  \A j \in l + 1 .. Len(e) :
    MadeTo(c1, e, all, h, l, j, b) => Tree(all, Len(g), Append(b[2].nodes, x), MeansAt(c1, e, all, i, j))

LEMMA ListMoreGood ==
  ASSUME NEW c0, NEW c1, NEW T, NEW all, NEW e \in Seq(Token), ListsOf(c0, c1, T, e, all),
         NEW g \in Seq(NodeType), NEW i \in 0 .. Len(e), NEW required \in BOOLEAN, NEW first,
         Good(c0, e, all, g, i, required, first), first[1] # 0,
         NEW k \in i + 1 .. Len(e), MadeTo(c0, e, all, g, i, k, first), k < Len(e), e[k + 1] \in T,
         NEW h, h = first[2].nodes, NEW l, l = k + 1,
         NEW b, b[2] \in ParseInfo, Good(c1, e, all, h, l, TRUE, b),
         NEW x \in NodeType, Completed(c1, e, all, g, h, i, l, b, x)
  PROVE  Good(c1, e, all, g, i, required, NewTerm(b[2], x))
<1> DEFINE r == NewTerm(b[2], x)
           y == b[2]
<1>0. /\ i \in Nat /\ k \in Nat /\ Len(e) \in Nat /\ l \in Nat /\ l = k + 1 /\ i # Len(e)
      /\ h \in Seq(NodeType) /\ Extends(g, h) /\ At(e, first[2], k)
  BY AtFacts DEF MadeTo
<1>1. Good(c1, e, all, h, l, TRUE, b) /\ y \in ParseInfo /\ r = NewTerm(y, x)
  OBVIOUS
<1>2. \A j \in l + 1 .. Len(e) : MadeTo(c1, e, all, h, l, j, b) =>
             Tree(all, Len(g), Append(y.nodes, x), MeansAt(c1, e, all, i, j))
  BY DEF Completed
<1> HIDE DEF r, y
<1>3. ASSUME NEW j, At(e, y, j)
      PROVE  r[1] = Len(y.nodes) + 1 /\ At(e, r[2], j) /\ r[2].nodes = Append(y.nodes, x)
             /\ r[1] # 0 /\ y.nodes \in Seq(NodeType) /\ Len(y.nodes) \in Nat
  <2>1. y.nodes \in Seq(NodeType) /\ Len(y.nodes) \in Nat
    BY <1>3, AtFacts
  <2>2. r[1] = Len(y.nodes) + 1 /\ At(e, r[2], j) /\ r[2].nodes = Append(y.nodes, x)
    BY <1>1, <1>3, NewTermMade
  <2> QED BY <2>1, <2>2
<1>4. Sound(c1, e, all, g, i, required, r)
  <2> SUFFICES ASSUME ~r[2].error PROVE Made(c1, e, all, g, i, r)
    BY DEF Sound
  <2>1. ~y.error
    BY <1>1, NewTermFails
  <2>2. PICK j \in l + 1 .. Len(e) : MadeTo(c1, e, all, h, l, j, b)
    BY <1>1, <2>1, DeepMade DEF y
  <2>3. Tree(all, Len(g), Append(y.nodes, x), MeansAt(c1, e, all, i, j))
    BY <1>2, <2>2
  <2>4. At(e, y, j) /\ Extends(h, y.nodes) /\ ~Follows(e, j, Following(c1))
    BY <2>2 DEF MadeTo, y
  <2> DEFINE n == y.nodes
             m == Append(n, x)
  <2>5. /\ r[1] = Len(n) + 1 /\ At(e, r[2], j) /\ r[2].nodes = m
        /\ n \in Seq(NodeType) /\ Len(n) \in Nat
    BY <1>3, <2>4
  <2>6. Tree(all, Len(g), m, MeansAt(c1, e, all, i, j)) /\ Extends(h, n)
    BY <2>3, <2>4
  <2> HIDE DEF n
  <2>7. m \in Seq(NodeType) /\ Len(m) = Len(n) + 1 /\ Extends(n, m)
    BY <2>5, AppendExtends
  <2> HIDE DEF m
  <2>8. Extends(g, m)
    <3>1. Extends(g, n)
      BY <1>0, <2>5, <2>6, ExtendsTrans
    <3> QED BY <2>5, <2>7, <3>1, ExtendsTrans
  <2>9. MadeTo(c1, e, all, g, i, j, r)
    BY <2>4, <2>5, <2>6, <2>7, <2>8 DEF MadeTo
  <2>10. j \in i + 1 .. Len(e)
    BY <1>0
  <2> QED BY <2>9, <2>10 DEF Made
<1>5. Complete(c1, e, all, i, r)
  <2> SUFFICES ASSUME NEW j \in i .. Len(e), Readable(c1, e, all, i, j)
               PROVE  r[1] # 0 /\ At(e, r[2], j)
    BY DEF Complete
  <2>1. ASSUME NEW o \in i .. Len(e), Readable(c0, e, all, i, o) PROVE o = k
    <3>1. At(e, first[2], o)
      BY <2>1, GoodReads
    <3> QED BY <1>0, <3>1, OnePlace
  <2>2. Begins(c0, c1, T, e, all, i, j)
    BY DEF ListsOf
  <2>3. CASE Readable(c0, e, all, i, j)
    <3>1. j = k
      BY <2>1, <2>3
    <3>2. Follows(e, j, Following(c1))
      BY <3>1 DEF Follows, ListsOf
    <3> QED BY <3>2 DEF Readable
  <2>4. CASE \E o \in i + 1 .. j : /\ e[o] \in T /\ Readable(c0, e, all, i, o - 1)
                                   /\ Readable(c1, e, all, o, j)
    <3>1. PICK o \in i + 1 .. j : Readable(c0, e, all, i, o - 1) /\ Readable(c1, e, all, o, j)
      BY <2>4
    <3> DEFINE o1 == o - 1
    <3>2. o1 \in i .. Len(e) /\ o1 + 1 = o /\ Readable(c0, e, all, i, o1)
      BY <3>1
    <3> HIDE DEF o1
    <3>3. o1 = k
      BY <2>1, <3>2
    <3>4. Readable(c1, e, all, l, j) /\ j \in l .. Len(e)
      BY <1>0, <3>1, <3>2, <3>3
    <3>5. At(e, y, j)
      BY <1>1, <3>4, GoodReads DEF y
    <3> QED BY <1>3, <3>5
  <2> QED BY <2>2, <2>3, <2>4 DEF Begins
<1> QED BY <1>0, <1>4, <1>5 DEF Good, r, y

-----------------------------------------------------------------------------
(***************************************************************************)
(* parse_AND and parse_OR.                                                 *)
(***************************************************************************)

LEMMA AndGood ==
  ASSUME NEW all, NEW e \in Seq(Token), NEW q, NEW i, NEW d \in Descents, NEW required \in BOOLEAN,
         At(e, q, i), Whole(q.nodes), DeepGood(e, all, i, d)
  PROVE  Good("AND", e, all, q.nodes, i, required, parse_AND(d, q, required))
<1> DEFINE first == parse_unary(d, q, required)
           r == parse_AND(d, q, required)
           g == q.nodes
<1>0. /\ i \in 0 .. Len(e) /\ i \in Nat /\ Len(e) \in Nat /\ g \in Seq(NodeType) /\ Len(g) \in Nat
      /\ ListsOf("NOT", "AND", AndToken, e, all)
  BY AtFacts, AndLists
<1>1. Good("NOT", e, all, g, i, required, first)
  BY UnaryGood
<1>2. first = parse_unary(d, q, required) /\ r = parse_AND(d, q, required)
  OBVIOUS
<1> HIDE DEF first, r, g
<1>3. CASE first[1] = 0 \/ first[2].error
  <2>1. r = first
    BY <1>2, <1>3, AndStop
  <2>2. Good("AND", e, all, g, i, required, first)
    BY <1>0, <1>1, <1>3, ListStopGood
  <2> QED BY <2>1, <2>2 DEF r, g
<1>4. CASE ~(first[1] = 0 \/ first[2].error)
  <2>1. PICK k \in i + 1 .. Len(e) : MadeTo("NOT", e, all, g, i, k, first)
    BY <1>1, <1>4, FirstMade
  <2> DEFINE h == first[2].nodes
             l == k + 1
  <2>2. /\ At(e, first[2], k) /\ first[1] = Len(h) /\ Extends(g, h)
        /\ Tree(all, Len(g), h, NotAt(e, all, i, k)) /\ h \in Seq(NodeType) /\ Len(h) \in Nat
    BY <2>1, Kinds, AtFacts DEF MadeTo
  <2>3. CASE ~(k < Len(e) /\ e[k + 1] \in AndToken)
    <3>1. OnlyRead(e, k, first, r)
      BY <1>2, <1>4, <2>2, <2>3, AndOnly
    <3>2. ~Follows(e, k, AndToken)
      BY <2>3 DEF Follows
    <3>3. Good("AND", e, all, g, i, required, r)
      BY <1>0, <1>1, <1>4, <2>1, <3>1, <3>2, ListOnlyGood
    <3> QED BY <3>3 DEF r, g
  <2>4. CASE k < Len(e) /\ e[k + 1] \in AndToken
    <3>1. AndRead(e, k, first, d, r)
      BY <1>2, <1>4, <2>2, <2>4, AndMore
    <3>2. l \in Nat /\ i < l /\ l = k + 1 /\ l \in i + 1 .. Len(e) /\ k = l - 1
      BY <1>0, <2>4
    <3> HIDE DEF l
    <3>3. PICK z : At(e, z, l) /\ z.nodes = h /\ r = NewTerm(d.AND[z][2], AND(first[1], d.AND[z][1]))
      BY <3>1, <3>2 DEF AndRead
    <3> DEFINE b == d.AND[z]
               n == AND(first[1], b[1])
    <3>4. Whole(h)
      BY <2>2 DEF Tree
    <3> HIDE DEF h
    <3>5. Good("AND", e, all, h, l, TRUE, b) /\ b[2] \in ParseInfo /\ b[1] \in Nat
      BY <3>2, <3>3, <3>4, AtFacts, DeeperResult DEF DeepGood
    <3>6. r = NewTerm(b[2], n)
      BY <3>3
    <3> HIDE DEF b
    <3>7. n \in NodeType
      BY <2>2, <3>5, NodeTypes
    <3>8. ASSUME NEW j \in k + 2 .. Len(e), MadeTo("AND", e, all, h, l, j, b)
          PROVE  Tree(all, Len(g), Append(b[2].nodes, n), AndAt(e, all, i, j))
      <4> DEFINE m == b[2].nodes
      <4>1. /\ b[1] = Len(m) /\ Extends(h, m) /\ Tree(all, Len(h), m, AndAt(e, all, l, j))
            /\ m \in Seq(NodeType)
        BY <3>8, Kinds, AtFacts DEF MadeTo
      <4> HIDE DEF m
      <4>2. Len(g) \in 0 .. Len(h)
        BY <1>0, <2>2 DEF Extends
      <4>3. ASSUME NEW M \in NotAt(e, all, i, k), NEW N \in AndAt(e, all, l, j)
            PROVE  M \cap N \in AndAt(e, all, i, j)
        <5>1. e[l] \in AndToken /\ j \in l .. Len(e) /\ l \in i + 1 .. Len(e) /\ M \in NotAt(e, all, i, l - 1)
          BY <1>0, <2>4, <3>2, <4>3
        <5> QED BY <1>0, <4>3, <5>1, AndCons
      <4>4. Tree(all, Len(g), Append(m, AND(Len(h), Len(m))), AndAt(e, all, i, j))
        BY <2>2, <4>1, <4>2, <4>3, TreeAnd DEF h
      <4>5. n = AND(Len(h), Len(m))
        BY <2>2, <4>1 DEF h
      <4> QED BY <4>4, <4>5 DEF m
    <3> HIDE DEF n
    <3>9. h = first[2].nodes
      BY DEF h
    <3>10. Completed("AND", e, all, g, h, i, l, b, n)
      BY <3>2, <3>8, Kinds DEF Completed
    <3>11. Good("AND", e, all, g, i, required, NewTerm(b[2], n))
      BY <1>0, <1>1, <1>4, <2>1, <2>4, <3>2, <3>5, <3>7, <3>9, <3>10, ListMoreGood
    <3> QED BY <3>6, <3>11 DEF r, g
  <2> QED BY <2>3, <2>4
<1> QED BY <1>3, <1>4
LEMMA OrGood ==
  ASSUME NEW all, NEW e \in Seq(Token), NEW q, NEW i, NEW d \in Descents, NEW required \in BOOLEAN,
         At(e, q, i), Whole(q.nodes), DeepGood(e, all, i, d)
  PROVE  Good("OR", e, all, q.nodes, i, required, parse_OR(d, q, required))
<1> DEFINE first == parse_AND(d, q, required)
           r == parse_OR(d, q, required)
           g == q.nodes
<1>0. /\ i \in 0 .. Len(e) /\ i \in Nat /\ Len(e) \in Nat /\ g \in Seq(NodeType) /\ Len(g) \in Nat
      /\ ListsOf("AND", "OR", OrToken, e, all)
  BY AtFacts, OrLists
<1>1. Good("AND", e, all, g, i, required, first)
  BY AndGood
<1>2. first = parse_AND(d, q, required) /\ r = parse_OR(d, q, required)
  OBVIOUS
<1> HIDE DEF first, r, g
<1>3. CASE first[1] = 0 \/ first[2].error
  <2>1. r = first
    BY <1>2, <1>3, OrStop
  <2>2. Good("OR", e, all, g, i, required, first)
    BY <1>0, <1>1, <1>3, ListStopGood
  <2> QED BY <2>1, <2>2 DEF r, g
<1>4. CASE ~(first[1] = 0 \/ first[2].error)
  <2>1. PICK k \in i + 1 .. Len(e) : MadeTo("AND", e, all, g, i, k, first)
    BY <1>1, <1>4, FirstMade
  <2> DEFINE h == first[2].nodes
             l == k + 1
  <2>2. /\ At(e, first[2], k) /\ first[1] = Len(h) /\ Extends(g, h)
        /\ Tree(all, Len(g), h, AndAt(e, all, i, k)) /\ h \in Seq(NodeType) /\ Len(h) \in Nat
    BY <2>1, Kinds, AtFacts DEF MadeTo
  <2>3. CASE ~(k < Len(e) /\ e[k + 1] \in OrToken)
    <3>1. OnlyRead(e, k, first, r)
      BY <1>2, <1>4, <2>2, <2>3, OrOnly
    <3>2. ~Follows(e, k, OrToken)
      BY <2>3 DEF Follows
    <3>3. Good("OR", e, all, g, i, required, r)
      BY <1>0, <1>1, <1>4, <2>1, <3>1, <3>2, ListOnlyGood
    <3> QED BY <3>3 DEF r, g
  <2>4. CASE k < Len(e) /\ e[k + 1] \in OrToken
    <3>1. OrRead(e, k, first, d, r)
      BY <1>2, <1>4, <2>2, <2>4, OrMore
    <3>2. l \in Nat /\ i < l /\ l = k + 1 /\ l \in i + 1 .. Len(e) /\ k = l - 1
      BY <1>0, <2>4
    <3> HIDE DEF l
    <3>3. PICK z : At(e, z, l) /\ z.nodes = h /\ r = NewTerm(d.OR[z][2], OR(first[1], d.OR[z][1]))
      BY <3>1, <3>2 DEF OrRead
    <3> DEFINE b == d.OR[z]
               n == OR(first[1], b[1])
    <3>4. Whole(h)
      BY <2>2 DEF Tree
    <3> HIDE DEF h
    <3>5. Good("OR", e, all, h, l, TRUE, b) /\ b[2] \in ParseInfo /\ b[1] \in Nat
      BY <3>2, <3>3, <3>4, AtFacts, DeeperResult DEF DeepGood
    <3>6. r = NewTerm(b[2], n)
      BY <3>3
    <3> HIDE DEF b
    <3>7. n \in NodeType
      BY <2>2, <3>5, NodeTypes
    <3>8. ASSUME NEW j \in k + 2 .. Len(e), MadeTo("OR", e, all, h, l, j, b)
          PROVE  Tree(all, Len(g), Append(b[2].nodes, n), OrAt(e, all, i, j))
      <4> DEFINE m == b[2].nodes
      <4>1. /\ b[1] = Len(m) /\ Extends(h, m) /\ Tree(all, Len(h), m, OrAt(e, all, l, j))
            /\ m \in Seq(NodeType)
        BY <3>8, Kinds, AtFacts DEF MadeTo
      <4> HIDE DEF m
      <4>2. Len(g) \in 0 .. Len(h)
        BY <1>0, <2>2 DEF Extends
      <4>3. ASSUME NEW M \in AndAt(e, all, i, k), NEW N \in OrAt(e, all, l, j)
            PROVE  M \cup N \in OrAt(e, all, i, j)
        <5>1. e[l] \in OrToken /\ j \in l .. Len(e) /\ l \in i + 1 .. Len(e) /\ M \in AndAt(e, all, i, l - 1)
          BY <1>0, <2>4, <3>2, <4>3
        <5> QED BY <1>0, <4>3, <5>1, OrCons
      <4>4. Tree(all, Len(g), Append(m, OR(Len(h), Len(m))), OrAt(e, all, i, j))
        BY <2>2, <4>1, <4>2, <4>3, TreeOr DEF h
      <4>5. n = OR(Len(h), Len(m))
        BY <2>2, <4>1 DEF h
      <4> QED BY <4>4, <4>5 DEF m
    <3> HIDE DEF n
    <3>9. h = first[2].nodes
      BY DEF h
    <3>10. Completed("OR", e, all, g, h, i, l, b, n)
      BY <3>2, <3>8, Kinds DEF Completed
    <3>11. Good("OR", e, all, g, i, required, NewTerm(b[2], n))
      BY <1>0, <1>1, <1>4, <2>1, <2>4, <3>2, <3>5, <3>7, <3>9, <3>10, ListMoreGood
    <3> QED BY <3>6, <3>11 DEF r, g
  <2> QED BY <2>3, <2>4
<1> QED BY <1>3, <1>4

-----------------------------------------------------------------------------
(***************************************************************************)
(* Every depth.                                                            *)
(***************************************************************************)

\* What is read at p, with calls that are at most d levels deep.
AllGood(e, all, d, p, i, required) ==
  /\ Good("OR", e, all, p.nodes, i, required, parse_OR(Descent[d], p, required))
  /\ Good("AND", e, all, p.nodes, i, required, parse_AND(Descent[d], p, required))
  /\ Good("NOT", e, all, p.nodes, i, required, parse_unary(Descent[d], p, required))

GoodTo(e, all, d) ==
  \A p, i : \A required \in BOOLEAN :
    At(e, p, i) /\ Whole(p.nodes) /\ Len(e) - i <= d => AllGood(e, all, d, p, i, required)

LEMMA GoodWhere ==
  ASSUME NEW all, NEW e \in Seq(Token), NEW d \in Nat, NEW p, NEW i, NEW required \in BOOLEAN,
         At(e, p, i), Whole(p.nodes), DeepGood(e, all, i, Descent[d])
  PROVE  AllGood(e, all, d, p, i, required)
<1> DEFINE D == Descent[d]
<1>1. D \in Descents
  BY DescentIs
<1> HIDE DEF D
<1>2. DeepGood(e, all, i, D)
  BY DEF D
<1>3. Good("OR", e, all, p.nodes, i, required, parse_OR(D, p, required))
  BY <1>1, <1>2, OrGood
<1>4. Good("AND", e, all, p.nodes, i, required, parse_AND(D, p, required))
  BY <1>1, <1>2, AndGood
<1>5. Good("NOT", e, all, p.nodes, i, required, parse_unary(D, p, required))
  BY <1>1, <1>2, UnaryGood
<1> QED BY <1>3, <1>4, <1>5 DEF AllGood, D

LEMMA DeepGoodIs ==
  ASSUME NEW all, NEW e \in Seq(Token), NEW d \in Nat, NEW i \in Nat, Len(e) - i <= d,
         d # 0 => GoodTo(e, all, d - 1)
  PROVE  DeepGood(e, all, i, Descent[d])
<1> DEFINE D == Descent[d]
           b == d - 1
<1>1. ASSUME NEW z, NEW k, At(e, z, k), i < k, Whole(z.nodes)
      PROVE  /\ Good("OR", e, all, z.nodes, k, TRUE, D.OR[z])
             /\ Good("AND", e, all, z.nodes, k, TRUE, D.AND[z])
             /\ Good("NOT", e, all, z.nodes, k, TRUE, D.unary[z])
  <2>1. k \in 0 .. Len(e) /\ Len(e) \in Nat /\ z \in ParseInfo
    BY <1>1, AtFacts
  <2>2. d # 0 /\ Len(e) - k <= b
    BY <1>1, <2>1
  <2>3. /\ D.OR[z] = parse_OR(Descent[b], z, TRUE)
        /\ D.AND[z] = parse_AND(Descent[b], z, TRUE)
        /\ D.unary[z] = parse_unary(Descent[b], z, TRUE)
    BY <2>1, <2>2, DeeperIs
  <2>4. GoodTo(e, all, b)
    BY <2>2
  <2> HIDE DEF D, b
  <2>5. AllGood(e, all, b, z, k, TRUE)
    BY <1>1, <2>2, <2>4 DEF GoodTo
  <2> QED BY <2>3, <2>5 DEF AllGood
<1> HIDE DEF D
<1>2. DeepGood(e, all, i, D)
  BY <1>1 DEF DeepGood
<1> QED BY <1>2 DEF D

LEMMA GoodEverywhere ==
  ASSUME NEW all, NEW e \in Seq(Token)
  PROVE  \A d \in Nat : GoodTo(e, all, d)
<1> DEFINE P == {d \in Nat : GoodTo(e, all, d)}
<1>1. ASSUME NEW d \in Nat, d # 0 => GoodTo(e, all, d - 1) PROVE GoodTo(e, all, d)
  <2> SUFFICES ASSUME NEW p, NEW i, NEW required \in BOOLEAN,
                      At(e, p, i), Whole(p.nodes), Len(e) - i <= d
               PROVE  AllGood(e, all, d, p, i, required)
    BY DEF GoodTo
  <2>1. i \in Nat
    BY AtFacts
  <2>2. DeepGood(e, all, i, Descent[d])
    BY <1>1, <2>1, DeepGoodIs
  <2> QED BY <2>2, GoodWhere
<1>2. 0 \in P
  BY <1>1
<1>3. ASSUME NEW d \in P PROVE d + 1 \in P
  <2>1. d + 1 \in Nat /\ (d + 1) - 1 = d /\ GoodTo(e, all, d)
    OBVIOUS
  <2> DEFINE n == d + 1
  <2>2. n \in Nat /\ n - 1 = d
    BY <2>1
  <2> HIDE DEF n
  <2>3. GoodTo(e, all, n)
    BY <1>1, <2>1, <2>2
  <2> QED BY <2>2, <2>3 DEF n
<1> HIDE DEF P
<1>4. Nat \subseteq P
  BY <1>2, <1>3, SetInduction
<1> QED BY <1>4 DEF P

-----------------------------------------------------------------------------
(***************************************************************************)
(* epr_parse_bm_expr_str.                                                  *)
(***************************************************************************)

\* The parser begins at the first token.
LEMMA StartFacts ==
  ASSUME NEW e \in Seq(Token)
  PROVE  At(e, Start(e), 0) /\ Start(e).nodes = << >> /\ Whole(<< >>) /\ << >> \in Seq(NodeType)
<1>0. << >> \in Seq(NodeType)
  OBVIOUS
<1>1. << >> \in Seq(NodeType) /\ "" \in Token
  BY <1>0, TokenFacts
<1>2. Start(e) \in ParseInfo
  BY <1>1 DEF Start, ParseInfo
<1>3. Suffix(e, 0) = e /\ 0 \in 0 .. Len(e)
  <2>1. Len(e) \in Nat /\ 0 + 1 = 1
    OBVIOUS
  <2>2. SubSeq(e, 1, Len(e)) = e
    <3> DEFINE s == SubSeq(e, 1, Len(e))
    <3>1. s \in Seq(Token) /\ Len(s) = Len(e) /\ \A k \in 1 .. Len(s) : s[k] = e[k]
      OBVIOUS
    <3> HIDE DEF s
    <3>2. s = e
      BY <3>1, SpanEqual
    <3> QED BY <3>2 DEF s
  <2> QED BY <2>1, <2>2 DEF Suffix
<1>4. Whole(<< >>)
  BY DEF Whole
<1>5. /\ Start(e).nodes = << >> /\ Start(e).error = FALSE /\ Start(e).pushed_back = FALSE
      /\ Start(e).rest = e
  BY DEF Start
<1> QED BY <1>1, <1>2, <1>3, <1>4, <1>5 DEF At

LEMMA ParsedGood ==
  ASSUME NEW all, NEW e \in Seq(Token)
  PROVE  Good("OR", e, all, << >>, 0, FALSE, epr_parse_bm_expr_str(e))
<1> DEFINE d == Len(e)
           p == Start(e)
<1>1. d \in Nat /\ Len(e) - 0 <= d
  OBVIOUS
<1>2. At(e, p, 0) /\ p.nodes = << >> /\ Whole(p.nodes)
  BY StartFacts
<1> HIDE DEF d, p
<1>3. GoodTo(e, all, d)
  BY <1>1, GoodEverywhere
<1>4. AllGood(e, all, d, p, 0, FALSE)
  BY <1>1, <1>2, <1>3 DEF GoodTo
<1> QED BY <1>2, <1>4 DEF AllGood, epr_parse_bm_expr_str, d, p

\* What is parsed without an error.
ParsedTo(e, all, j, r) ==
  /\ At(e, r[2], j) /\ r[1] = Len(r[2].nodes) /\ ~Follows(e, j, AndToken \cup OrToken)
  /\ TermOf(r) = r[2].nodes /\ r[2].nodes \in Seq(NodeType)
  /\ Tree(all, 0, r[2].nodes, OrAt(e, all, 0, j))

LEMMA ParsedMade ==
  ASSUME NEW all, NEW e \in Seq(Token), ~epr_parse_bm_expr_str(e)[2].error
  PROVE  \/ \E j \in 1 .. Len(e) : ParsedTo(e, all, j, epr_parse_bm_expr_str(e))
         \/ e = << >> /\ epr_parse_bm_expr_str(e)[1] = 0
<1> DEFINE r == epr_parse_bm_expr_str(e)
<1>1. Good("OR", e, all, << >>, 0, FALSE, r) /\ ~r[2].error
  BY ParsedGood
<1> HIDE DEF r
<1>2. Made("OR", e, all, << >>, 0, r) \/ Nothing(e, << >>, 0, FALSE, r)
  BY <1>1 DEF Good, Sound
<1>3. CASE Nothing(e, << >>, 0, FALSE, r)
  <2>1. Len(e) = 0 /\ r[1] = 0
    BY <1>3 DEF Nothing
  <2> QED BY <2>1 DEF r
<1>4. CASE Made("OR", e, all, << >>, 0, r)
  <2>1. PICK j \in 0 + 1 .. Len(e) : MadeTo("OR", e, all, << >>, 0, j, r)
    BY <1>4 DEF Made
  <2> DEFINE h == r[2].nodes
  <2>2. /\ At(e, r[2], j) /\ r[1] = Len(h) /\ Tree(all, Len(<< >>), h, OrAt(e, all, 0, j))
        /\ ~Follows(e, j, AndToken \cup OrToken)
    BY <2>1, Kinds DEF MadeTo
  <2>3. h \in Seq(NodeType) /\ Len(<< >>) = 0 /\ j \in 1 .. Len(e)
    BY <2>2, AtFacts
  <2>4. TermOf(r) = SubSeq(h, 1, Len(h))
    BY <2>2 DEF TermOf
  <2> HIDE DEF h
  <2>5. TermOf(r) = h
    BY <2>3, <2>4, PrefixAll
  <2>6. ParsedTo(e, all, j, r)
    BY <2>2, <2>3, <2>5 DEF ParsedTo, h
  <2> QED BY <2>3, <2>6 DEF r
<1> QED BY <1>2, <1>3, <1>4

\* The sentences that the expression begins with.
LEMMA SentenceIs ==
  ASSUME NEW all, bm_expr \in Seq(Token), NEW n \in 1 .. Len(bm_expr)
  PROVE  /\ Meanings(SubSeq(bm_expr, 1, n), all) = OrAt(bm_expr, all, 0, n)
         /\ n \in Sentences(all) <=> Readable("OR", bm_expr, all, 0, n)
<1>1. Span(bm_expr, 0, n) = SubSeq(bm_expr, 1, n)
  BY DEF Span
<1>2. Meanings(SubSeq(bm_expr, 1, n), all) = OrAt(bm_expr, all, 0, n)
  BY <1>1 DEF Meanings, OrAt, OrOf
<1>3. n \in Sentences(all) <=> /\ n < Len(bm_expr) => bm_expr[n + 1] \notin AndToken \cup OrToken
                               /\ Meanings(SubSeq(bm_expr, 1, n), all) # {}
  BY DEF Sentences
<1>4. Readable("OR", bm_expr, all, 0, n) <=>
        OrAt(bm_expr, all, 0, n) # {} /\ ~Follows(bm_expr, n, AndToken \cup OrToken)
  BY Kinds DEF Readable
<1> QED BY <1>2, <1>3, <1>4 DEF Follows

LEMMA SentenceRead ==
  ASSUME NEW all, bm_expr \in Seq(Token), NEW n \in Sentences(all)
  PROVE  /\ ~epr_parse_bm_expr_str(bm_expr)[2].error /\ bm_expr # << >>
         /\ n \in 1 .. Len(bm_expr)
         /\ ParsedTo(bm_expr, all, n, epr_parse_bm_expr_str(bm_expr))
<1> DEFINE r == epr_parse_bm_expr_str(bm_expr)
<1>1. n \in 1 .. Len(bm_expr) /\ n \in 0 .. Len(bm_expr)
  BY DEF Sentences
<1>2. Readable("OR", bm_expr, all, 0, n)
  BY <1>1, SentenceIs
<1>3. r[1] # 0 /\ At(bm_expr, r[2], n)
  BY <1>1, <1>2, ParsedGood, GoodReads
<1>4. ~r[2].error /\ bm_expr # << >>
  BY <1>1, <1>3, AtFacts
<1>5. PICK j \in 1 .. Len(bm_expr) : ParsedTo(bm_expr, all, j, r)
  BY <1>4, ParsedMade
<1> HIDE DEF r
<1>6. j = n
  <2>1. At(bm_expr, r[2], j)
    BY <1>5 DEF ParsedTo
  <2> QED BY <1>3, <2>1, OnePlace
<1> QED BY <1>1, <1>4, <1>5, <1>6 DEF r

LEMMA SentenceFound ==
  ASSUME NEW all, bm_expr \in Seq(Token), bm_expr # << >>, ~epr_parse_bm_expr_str(bm_expr)[2].error
  PROVE  Sentences(all) # {}
<1>1. PICK j \in 1 .. Len(bm_expr) : ParsedTo(bm_expr, all, j, epr_parse_bm_expr_str(bm_expr))
  BY ParsedMade
<1>2. OrAt(bm_expr, all, 0, j) # {} /\ ~Follows(bm_expr, j, AndToken \cup OrToken)
  BY <1>1 DEF ParsedTo, Tree
<1>3. Readable("OR", bm_expr, all, 0, j)
  BY <1>2, Kinds DEF Readable
<1> QED BY <1>3, SentenceIs

LEMMA NothingParsed ==
  ASSUME NEW e \in Seq(Token), e = << >>
  PROVE  ~epr_parse_bm_expr_str(e)[2].error
<1>1. Good("OR", e, {}, << >>, 0, FALSE, epr_parse_bm_expr_str(e))
  BY ParsedGood
<1> QED BY <1>1 DEF Good

\* What is written is read again.
LEMMA WrittenRead ==
  ASSUME NEW h \in Seq(NodeType), Whole(h), Len(h) # 0, Again(0, h)
  PROVE  LET r == epr_parse_bm_expr_str(epr_create_bm_expr(h))
         IN  TermOf(r) = h /\ ~r[2].error
<1> DEFINE s == epr_create_bm_expr(h)
           r == epr_parse_bm_expr_str(s)
           d == Len(s)
           p == Start(s)
           m == 0 + Len(s)
<1>1. s \in Seq(Token)
  BY TextType
<1> HIDE DEF s
<1>2. d \in Nat /\ Len(s) - 0 <= d /\ m = Len(s) /\ 0 \in Nat /\ ~(m < Len(s))
  BY <1>1
<1>3. At(s, p, 0) /\ p.nodes = << >>
  BY <1>1, StartFacts
<1>4. Reads(s, 0, s)
  BY <1>1 DEF Reads
<1>5. SubSeq(h, 1, 0) = << >>
  OBVIOUS
<1>6. ~Follows(s, m, AndToken \cup OrToken)
  BY <1>2 DEF Follows
<1>7. r = parse_OR(Descent[d], p, FALSE)
  BY DEF epr_parse_bm_expr_str
<1> HIDE DEF r, d, p
<1>8. Starts(s, p, 0, d, s, SubSeq(h, 1, 0))
  BY <1>2, <1>3, <1>4, <1>5 DEF Starts
<1>9. AgainAt(0, h, s, s, p, 0, d, FALSE)
  BY <1>1, <1>2 DEF Again, s
<1>10. Got(s, r, m, h)
  BY <1>6, <1>7, <1>8, <1>9 DEF AgainAt
<1>11. r[1] = Len(h) /\ At(s, r[2], m) /\ r[2].nodes = h
  BY <1>10 DEF Got
<1>12. TermOf(r) = SubSeq(h, 1, Len(h))
  BY <1>11 DEF TermOf
<1>13. TermOf(r) = h /\ ~r[2].error
  BY <1>1, <1>11, <1>12, PrefixAll, AtFacts
<1> QED BY <1>13 DEF r, s

-----------------------------------------------------------------------------
(***************************************************************************)
(* The steps of the parser's caller.                                       *)
(***************************************************************************)

\* The parser's steps: what is known in each phase.
ParserInv ==
  /\ bm_expr \in Expressions
  /\ phase # "parse" => /\ parsed = TermOf(epr_parse_bm_expr_str(bm_expr))
                        /\ err = epr_parse_bm_expr_str(bm_expr)[2].error
  /\ phase \in {"create", "done"} /\ parsed # << >> => ~returned /\ mask = Mask(parsed, bm_expr)
  /\ text # << >> => /\ phase = "done" /\ ~err /\ parsed # << >>
                     /\ text = epr_create_bm_expr(parsed)
  /\ phase = "create" => ~err /\ parsed # << >>

\* Each phase finds what the phases before it left: the term and the error are
\* those of epr_parse_bm_expr_str, the mask is that of the term, the text is written
\* only for a term that was parsed without an error.
THEOREM ParserInvariant == ParserSpec => []ParserInv
<1>1. ParserInit => ParserInv
  BY DEF ParserInit, ParserInv
<1>2. ParserInv /\ [ParserNext]_parserVars => ParserInv'
  <2> SUFFICES ASSUME ParserInv, [ParserNext]_parserVars PROVE ParserInv'
    OBVIOUS
  <2>1. CASE Parse
    BY <2>1 DEF ParserInv, Parse
  <2>2. CASE Read
    BY <2>2 DEF ParserInv, Read
  <2>3. CASE Create
    BY <2>3 DEF ParserInv, Create
  <2>4. CASE Done
    BY <2>4 DEF ParserInv, Done, parserVars
  <2>5. CASE UNCHANGED parserVars
    BY <2>5 DEF ParserInv, parserVars
  <2> QED BY <2>1, <2>2, <2>3, <2>4, <2>5 DEF ParserNext
<1> QED BY <1>1, <1>2, PTL DEF ParserSpec

\* An error is set if and only if no sentence was found; the term of a sentence
\* has one of its meanings.
LEMMA KeptByInv == ParserInv => MeaningKept
<1> SUFFICES ASSUME ParserInv, phase = "done" PROVE MeaningKept
  BY DEF MeaningKept
<1> DEFINE all   == SUBSET FlagsOf(bm_expr)
           found == Sentences(all)
           r     == epr_parse_bm_expr_str(bm_expr)
<1>1. bm_expr \in Seq(Token)
  BY ExpressionsAssumption DEF ParserInv
<1>2. parsed = TermOf(r) /\ err = r[2].error /\ (parsed # << >> => ~returned /\ mask = Mask(parsed, bm_expr))
  BY DEF ParserInv
<1> HIDE DEF all
<1>3. r[2].error \in BOOLEAN
  <2>1. Descent[Len(bm_expr)] \in Descents /\ Start(bm_expr) \in ParseInfo
    <3>1. Len(bm_expr) \in Nat
      BY <1>1
    <3>2. Start(bm_expr) \in ParseInfo
      BY <1>1, StartFacts, AtFacts
    <3> QED BY <3>1, <3>2, DescentIs
  <2>2. r \in Results(Start(bm_expr))
    BY <2>1, OrType DEF epr_parse_bm_expr_str
  <2> HIDE DEF r
  <2>3. r[2] \in ParseInfo
    BY <2>2 DEF Results
  <2> QED BY <2>3 DEF ParseInfo
<1>4. err <=> found = {} /\ bm_expr # << >>
  <2>1. ASSUME NEW n \in found PROVE ~r[2].error
    BY <1>1, <2>1, SentenceRead
  <2>2. bm_expr = << >> => ~r[2].error
    BY <1>1, NothingParsed
  <2>3. bm_expr # << >> /\ ~r[2].error => found # {}
    BY <1>1, SentenceFound
  <2> HIDE DEF found, r
  <2> QED BY <1>2, <1>3, <2>1, <2>2, <2>3
<1>5. ASSUME NEW n \in found
      PROVE  ~returned /\ mask \in Meanings(SubSeq(bm_expr, 1, n), all)
  <2>1. n \in 1 .. Len(bm_expr) /\ ParsedTo(bm_expr, all, n, r)
    BY <1>1, <1>5, SentenceRead
  <2> HIDE DEF r
  <2>2. parsed # << >> /\ MaskOf(all, parsed) \in OrAt(bm_expr, all, 0, n)
    <3>1. parsed = r[2].nodes /\ Len(parsed) # 0 /\ MaskOf(all, parsed) \in OrAt(bm_expr, all, 0, n)
      BY <1>2, <2>1 DEF ParsedTo, Tree
    <3> QED BY <3>1
  <2>3. mask = MaskOf(all, parsed)
    BY <1>2, <2>2 DEF Mask, MaskOf, all
  <2>4. Meanings(SubSeq(bm_expr, 1, n), all) = OrAt(bm_expr, all, 0, n)
    BY <1>1, <2>1, SentenceIs
  <2> QED BY <1>2, <2>2, <2>3, <2>4
<1> HIDE DEF found
<1>6. /\ err <=> found = {} /\ bm_expr # << >>
      /\ \A n \in found : ~returned /\ mask \in Meanings(SubSeq(bm_expr, 1, n), all)
  BY <1>4, <1>5
<1> QED BY <1>6 DEF MeaningKept, found, all

\* For any expressions, whatever their length and nesting: a bitmask that is read
\* without an error of the parser is what the documented grammar gives the sentence
\* the expression begins with, and the parser has an error exactly when there is no
\* such sentence.
THEOREM MeaningIsKept == ParserSpec => []MeaningKept
BY ParserInvariant, KeptByInv, PTL

\* What the parser makes is made again from its text.
LEMMA TripByInv == ParserInv => RoundTrip
<1> SUFFICES ASSUME ParserInv, phase = "done", text # << >> PROVE RoundTrip
  BY DEF RoundTrip
<1> DEFINE r == epr_parse_bm_expr_str(bm_expr)
<1>1. bm_expr \in Seq(Token)
  BY ExpressionsAssumption DEF ParserInv
<1>2. parsed = TermOf(r) /\ ~r[2].error /\ parsed # << >> /\ text = epr_create_bm_expr(parsed)
  BY DEF ParserInv
<1>3. \/ \E j \in 1 .. Len(bm_expr) : ParsedTo(bm_expr, {}, j, r)
      \/ bm_expr = << >> /\ r[1] = 0
  BY <1>1, <1>2, ParsedMade
<1> HIDE DEF r
<1>4. r[1] # 0
  <2>1. r[1] = 0 => TermOf(r) = << >>
    BY DEF TermOf
  <2> QED BY <1>2, <2>1
<1>5. PICK j \in 1 .. Len(bm_expr) : ParsedTo(bm_expr, {}, j, r)
  BY <1>3, <1>4
<1>6. parsed \in Seq(NodeType) /\ Whole(parsed) /\ Len(parsed) # 0 /\ Again(0, parsed)
  BY <1>2, <1>5 DEF ParsedTo, Tree
<1>7. TermOf(epr_parse_bm_expr_str(text)) = parsed /\ ~epr_parse_bm_expr_str(text)[2].error
  BY <1>2, <1>6, WrittenRead
<1> QED BY <1>7 DEF RoundTrip

\* For any expression: what epr_create_bm_expr writes of its term is parsed, without
\* an error, to the same term.
THEOREM WhatIsWrittenIsRead == ParserSpec => []RoundTrip
BY ParserInvariant, TripByInv, PTL

-----------------------------------------------------------------------------
(***************************************************************************)
(* The inductive invariant of EprBitmask.  MaskCorrect speaks of the end of a call; what *)
(* holds in the middle of the recursion is that the value at hand is what  *)
(* the node on top of the stack waits for, that the value of that node is  *)
(* what the node below waits for, and so on down to the value of the term. *)
(* A second argument takes the place of its node, so that no node has to   *)
(* be remembered for it.                                                   *)
(***************************************************************************)
Running == pc \in {"visit", "result"}

\* The truth of every node of t at pixel i.
Truth(t, i) == CHOOSE M \in [0 .. Len(t) -> BOOLEAN] : IsMeaning(t, i, M)

\* What TypeOK leaves open.
Shape ==
  /\ stack \in Seq(Nat) /\ loaded \in Seq(Bands)
  /\ pc = "idle" => stack = << >>
  /\ pc # "idle" => term \in Terms
  /\ pc = "visit" => \A k \in DOMAIN stack : node < stack[k]

\* A reference that has been resolved has the band that its term names; one
\* without a mask has been noticed.
Resolved ==
  \A k \in DOMAIN term :
    \/ refs[k] = New
    \/ /\ refs[k] = Ready(term[k].band)
       /\ term[k].band \in Bands /\ term[k].flag \in Coding[term[k].band]
    \/ refs[k] = NoMask(term[k].band) /\ failed

\* The value that the evaluation has, or is about to have, at hand.
AtHand == IF pc = "visit" THEN Truth(term, pix)[node] ELSE val

\* The node that waits for the value at hand, if any, waits for its first
\* argument; so does each node below it for the value of the node above.
Evaluating ==
  Running /\ ~failed =>
    LET M == Truth(term, pix)
        n == Len(stack)
    IN  /\ n = 0 => AtHand = M[Len(term)]
        /\ n > 0 => AtHand = M[term[stack[n]].arg1] /\ M[stack[1]] = M[Len(term)]
        /\ \A j \in 1 .. n - 1 : M[stack[j + 1]] = M[term[stack[j]].arg1]

\* The pixels before the one at hand are done.
Painted ==
  Running /\ ~failed => \A i \in 0 .. pix - 1 : out[i] = Meaning(term, i)

Conjunction(t) == \A k \in DOMAIN t : t[k].op \in {"REF", "AND"}

\* After an error a conjunction only returns.
Returning ==
  Running /\ failed /\ Conjunction(term) => pc = "result" /\ ~val /\ errCode # "none"

IInv ==
  /\ TypeOK /\ Shape /\ Resolved /\ Evaluating /\ Painted /\ Returning
  /\ MaskCorrect /\ ConjunctionsReport /\ ReadOnce

-----------------------------------------------------------------------------
(***************************************************************************)
(* Terms and their truth.                                                  *)
(***************************************************************************)

LEMMA TermFacts ==
  ASSUME NEW t \in Terms
  PROVE  /\ t \in Seq(NodeType) /\ Len(t) \in Nat \ {0} /\ DOMAIN t = 1 .. Len(t)
         /\ Len(t) \in DOMAIN t
         /\ \A k \in DOMAIN t : /\ t[k] \in NodeType
                                /\ t[k].arg1 \in 0 .. k - 1 /\ t[k].arg2 \in 0 .. k - 1
<1>1. /\ t \in Seq(NodeType) /\ t # << >>
      /\ \A k \in DOMAIN t : t[k].arg1 < k /\ t[k].arg2 < k
  BY TermsAssumption
<1>2. Len(t) \in Nat \ {0} /\ DOMAIN t = 1 .. Len(t) /\ \A k \in DOMAIN t : t[k] \in NodeType
  BY <1>1
<1> QED BY <1>1, <1>2 DEF NodeType

\* The pixel i as the flags that a reference finds set there.
FlagsAt(i) ==
  {r \in Token \X Token : r[1] \in Bands /\ r[2] \in Coding[r[1]] /\ IsSet(r[1], r[2], i)}

\* The value that IsMeaning gives a node.
NodeMeans(x, i, M) ==
  CASE x.op = "REF" -> x.band \in Bands /\ x.flag \in Coding[x.band] /\ IsSet(x.band, x.flag, i)
    [] x.op = "AND" -> M[x.arg1] /\ M[x.arg2]
    [] x.op = "OR"  -> M[x.arg1] \/ M[x.arg2]
    [] x.op = "NOT" -> ~M[x.arg1]

LEMMA NodeMeansValue ==
  ASSUME NEW x \in NodeType, NEW n \in Nat, x.arg1 < n, x.arg2 < n, NEW i, NEW M, NEW b,
         M[0] = FALSE, \A k \in 1 .. n - 1 : M[k] = b[k] /\ b[k] \in BOOLEAN
  PROVE  NodeMeans(x, i, M) <=> NodeValue(x, b, FlagsAt(i))
<1>1. /\ x.op \in {"REF", "NOT", "AND", "OR"} /\ x.arg1 \in Nat /\ x.arg2 \in Nat
      /\ x.band \in Token /\ x.flag \in Token
  BY DEF NodeType
<1>2. /\ M[x.arg1] <=> x.arg1 # 0 /\ b[x.arg1]
      /\ M[x.arg2] <=> x.arg2 # 0 /\ b[x.arg2]
  <2>1. ASSUME NEW k \in Nat, k < n PROVE M[k] <=> k # 0 /\ b[k]
    <3>1. CASE k = 0
      BY <3>1
    <3>2. CASE k # 0
      <4>1. k \in 1 .. n - 1
        BY <2>1, <3>2
      <4>2. M[k] = b[k]
        BY <4>1
      <4> QED BY <3>2, <4>2
    <3> QED BY <3>1, <3>2
  <2> QED BY <1>1, <2>1
<1>3. CASE x.op = "REF"
  <2>1. NodeMeans(x, i, M) <=> x.band \in Bands /\ x.flag \in Coding[x.band] /\ IsSet(x.band, x.flag, i)
    BY <1>3 DEF NodeMeans
  <2>2. NodeValue(x, b, FlagsAt(i)) <=> <<x.band, x.flag>> \in FlagsAt(i)
    BY <1>3 DEF NodeValue
  <2>3. <<x.band, x.flag>> \in FlagsAt(i) <=>
          x.band \in Bands /\ x.flag \in Coding[x.band] /\ IsSet(x.band, x.flag, i)
    BY <1>1 DEF FlagsAt
  <2> QED BY <2>1, <2>2, <2>3
<1>4. CASE x.op = "NOT"
  BY <1>2, <1>4 DEF NodeMeans, NodeValue
<1>5. CASE x.op = "AND"
  BY <1>2, <1>5 DEF NodeMeans, NodeValue
<1>6. CASE x.op = "OR"
  BY <1>2, <1>6 DEF NodeMeans, NodeValue
<1> QED BY <1>1, <1>3, <1>4, <1>5, <1>6

\* Every term has a meaning at every pixel, and only one.
LEMMA MeaningExists ==
  ASSUME NEW t \in Seq(NodeType), Ordered(t), NEW i
  PROVE  \E M \in [0 .. Len(t) -> BOOLEAN] : IsMeaning(t, i, M) /\ \A k \in 1 .. Len(t) : M[k] = Values(t, FlagsAt(i))[k]
<1> DEFINE v == Values(t, FlagsAt(i))
           M == [k \in 0 .. Len(t) |-> IF k = 0 THEN FALSE ELSE v[k]]
<1>1. v \in Seq(BOOLEAN) /\ Len(v) = Len(t) /\ Len(t) \in Nat
      /\ \A k \in 1 .. Len(t) : v[k] = NodeValue(t[k], v, FlagsAt(i))
  BY ValuesAre
<1> HIDE DEF v
<1>0. ASSUME NEW k \in 1 .. Len(t) PROVE v[k] \in BOOLEAN
  BY <1>1
<1>2. /\ M \in [0 .. Len(t) -> BOOLEAN] /\ M[0] = FALSE
      /\ \A k \in 1 .. Len(t) : M[k] = v[k] /\ v[k] \in BOOLEAN
  <2> DEFINE n == Len(t)
             u(k) == v[k]
  <2>1. n \in Nat /\ \A k \in 1 .. n : u(k) \in BOOLEAN
    BY <1>0, <1>1
  <2>2. M = [k \in 0 .. n |-> IF k = 0 THEN FALSE ELSE u(k)]
    OBVIOUS
  <2> HIDE DEF n, u, M
  <2>3. ASSUME NEW k \in 0 .. n PROVE M[k] \in BOOLEAN /\ M[k] = (IF k = 0 THEN FALSE ELSE u(k))
    <3>1. M[k] = IF k = 0 THEN FALSE ELSE u(k)
      BY <2>2
    <3>2. CASE k = 0
      BY <3>1, <3>2
    <3>3. CASE k # 0
      <4>1. k \in 1 .. n
        BY <2>1, <3>3
      <4> QED BY <2>1, <3>1, <3>3, <4>1
    <3> QED BY <3>2, <3>3
  <2>4. M \in [0 .. n -> BOOLEAN]
    BY <2>2, <2>3
  <2>5. M[0] = FALSE
    <3>1. 0 \in 0 .. n
      BY <2>1
    <3> QED BY <2>2, <3>1
  <2>6. ASSUME NEW k \in 1 .. n PROVE M[k] = u(k) /\ u(k) \in BOOLEAN
    <3>1. k \in 0 .. n /\ k # 0 /\ u(k) \in BOOLEAN
      BY <2>1
    <3> QED BY <2>2, <3>1
  <2> QED BY <2>4, <2>5, <2>6 DEF n, u
<1> HIDE DEF M
<1>3. ASSUME NEW k \in DOMAIN t PROVE M[k] = NodeMeans(t[k], i, M)
  <2>1. k \in 1 .. Len(t) /\ k \in Nat /\ t[k] \in NodeType /\ t[k].arg1 < k /\ t[k].arg2 < k
    BY DEF Ordered
  <2>2. \A l \in 1 .. k - 1 : M[l] = v[l] /\ v[l] \in BOOLEAN
    BY <1>1, <1>2, <2>1
  <2> DEFINE x == t[k]
  <2>3. x \in NodeType /\ x.arg1 < k /\ x.arg2 < k
    BY <2>1
  <2> HIDE DEF x
  <2>4. NodeMeans(x, i, M) <=> NodeValue(x, v, FlagsAt(i))
    BY <1>2, <2>1, <2>2, <2>3, NodeMeansValue
  <2>5. M[k] = NodeValue(x, v, FlagsAt(i)) /\ M[k] \in BOOLEAN
    BY <1>1, <1>2, <2>1 DEF x
  <2>6. NodeMeans(x, i, M) \in BOOLEAN
    <3>1. x.op \in {"REF", "NOT", "AND", "OR"} /\ x.arg1 \in Nat
      BY <2>3 DEF NodeType
    <3>2. M[x.arg1] \in BOOLEAN
      <4>1. x.arg1 \in 0 .. Len(t)
        BY <2>1, <2>3, <3>1
      <4> QED BY <1>2, <4>1
    <3> QED BY <3>1, <3>2 DEF NodeMeans
  <2> QED BY <2>4, <2>5, <2>6 DEF x
<1>4. IsMeaning(t, i, M)
  BY <1>2, <1>3 DEF IsMeaning, NodeMeans
<1> QED BY <1>2, <1>4 DEF v

LEMMA TruthExists ==
  ASSUME NEW t \in Terms, NEW i \in Pixels
  PROVE  /\ Truth(t, i) \in [0 .. Len(t) -> BOOLEAN]
         /\ IsMeaning(t, i, Truth(t, i))
         /\ Meaning(t, i) = Truth(t, i)[Len(t)]
<1>1. t \in Seq(NodeType) /\ Ordered(t)
  BY TermsAssumption DEF Ordered
<1>2. \E M \in [0 .. Len(t) -> BOOLEAN] : IsMeaning(t, i, M)
  BY <1>1, MeaningExists
<1> QED BY <1>2 DEF Truth, Meaning

\* The truth of a node from that of its arguments.
LEMMA TruthOfNode ==
  ASSUME NEW t \in Terms, NEW i \in Pixels, NEW k \in DOMAIN t
  PROVE  LET M == Truth(t, i)
         IN  /\ M[k] \in BOOLEAN /\ M[t[k].arg1] \in BOOLEAN /\ M[t[k].arg2] \in BOOLEAN
             /\ t[k].op = "NOT" => M[k] = ~M[t[k].arg1]
             /\ GoesOn(t[k].op, M[t[k].arg1]) => M[k] = M[t[k].arg2]
             /\ t[k].op \in {"AND", "OR"} /\ ~GoesOn(t[k].op, M[t[k].arg1]) =>
                  M[k] = M[t[k].arg1]
             /\ t[k].op = "REF" => M[k] = (/\ t[k].band \in Bands
                                           /\ t[k].flag \in Coding[t[k].band]
                                           /\ IsSet(t[k].band, t[k].flag, i))
<1> DEFINE M == Truth(t, i)
<1>1. M \in [0 .. Len(t) -> BOOLEAN] /\ IsMeaning(t, i, M)
  BY TruthExists
<1>2. k \in 0 .. Len(t) /\ t[k].arg1 \in 0 .. Len(t) /\ t[k].arg2 \in 0 .. Len(t)
  BY TermFacts
<1>3. M[k] \in BOOLEAN /\ M[t[k].arg1] \in BOOLEAN /\ M[t[k].arg2] \in BOOLEAN
  BY <1>1, <1>2
<1>4. M[k] = CASE t[k].op = "REF" -> /\ t[k].band \in Bands
                                     /\ t[k].flag \in Coding[t[k].band]
                                     /\ IsSet(t[k].band, t[k].flag, i)
               [] t[k].op = "AND" -> M[t[k].arg1] /\ M[t[k].arg2]
               [] t[k].op = "OR"  -> M[t[k].arg1] \/ M[t[k].arg2]
               [] t[k].op = "NOT" -> ~M[t[k].arg1]
  BY <1>1 DEF IsMeaning
<1> HIDE DEF M
<1>5. CASE t[k].op = "REF"
  BY <1>3, <1>4, <1>5 DEF GoesOn, M
<1>6. CASE t[k].op = "AND"
  BY <1>3, <1>4, <1>6 DEF GoesOn, M
<1>7. CASE t[k].op = "OR"
  BY <1>3, <1>4, <1>7 DEF GoesOn, M
<1>8. CASE t[k].op = "NOT"
  BY <1>3, <1>4, <1>8 DEF GoesOn, M
<1> QED BY <1>5, <1>6, <1>7, <1>8, TermFacts DEF NodeType

\* A NULL argument is false.
LEMMA TruthOfNull ==
  ASSUME NEW t \in Terms, NEW i \in Pixels
  PROVE  Truth(t, i)[0] = FALSE
  BY TruthExists DEF IsMeaning

-----------------------------------------------------------------------------
(***************************************************************************)
(* Where the evaluation is.                                                *)
(***************************************************************************)

LEMMA RunningFacts ==
  ASSUME IInv, Running
  PROVE  /\ term \in Terms /\ pix \in Pixels /\ pix \in Nat
         /\ Len(term) \in Nat \ {0} /\ DOMAIN term = 1 .. Len(term)
         /\ node \in 0 .. Len(term) /\ (node # 0 => node \in DOMAIN term)
         /\ Len(stack) \in Nat /\ DOMAIN stack = 1 .. Len(stack)
         /\ \A k \in 1 .. Len(stack) : stack[k] \in DOMAIN term /\ term[stack[k]].op # "REF"
  BY TermFacts DEF IInv, Running, TypeOK, Shape, Pixels

\* In the middle of a call the properties of its end claim nothing.
LEMMA NotIdle ==
  pc' # "idle" => MaskCorrect' /\ ConjunctionsReport'
  BY DEF MaskCorrect, ConjunctionsReport, Idle

\* The node is evaluated: if nothing failed, to its truth, and to FALSE with an
\* error if something did in a conjunction.
LEMMA AnswerIInv ==
  ASSUME IInv, pc = "visit", NEW v \in BOOLEAN, Answer(v),
         UNCHANGED <<term, out, pix, loaded, last>>,
         errCode' \in ErrCodes, failed' \in BOOLEAN, failed => failed',
         refs' \in [DOMAIN term -> RefStates], Resolved',
         ~failed' => v = Truth(term, pix)[node],
         failed' /\ Conjunction(term) => ~v /\ errCode' # "none"
  PROVE  IInv'
<1>1. Running /\ pc' = "result" /\ val' = v /\ node' = node /\ stack' = stack
  BY DEF Answer, Running
<1>2. TypeOK'
  BY <1>1 DEF IInv, TypeOK
<1>3. Shape'
  BY <1>1 DEF IInv, Shape
<1>4. Evaluating'
  <2> SUFFICES ASSUME ~failed' PROVE Evaluating'
    BY DEF Evaluating
  <2>1. AtHand' = AtHand
    BY <1>1 DEF AtHand
  <2> QED BY <1>1, <2>1 DEF IInv, Evaluating, Running
<1>5. Painted'
  BY <1>1 DEF IInv, Painted, Running
<1>6. Returning'
  BY <1>1 DEF Returning
<1>7. ReadOnce'
  BY DEF IInv, ReadOnce
<1> QED BY <1>1, <1>2, <1>3, <1>4, <1>5, <1>6, <1>7, NotIdle DEF IInv

\* While a node of a conjunction is visited, nothing has failed.
LEMMA VisitClean ==
  ASSUME IInv, pc = "visit", Conjunction(term)
  PROVE  ~failed
  BY DEF IInv, Returning, Running

-----------------------------------------------------------------------------
\* Before the first call nothing is on the stack and nothing is loaded.
THEOREM InitIInv == Init => IInv
<1> SUFFICES ASSUME Init PROVE IInv
  OBVIOUS
<1>1. TypeOK
  <2>1. out \in [Pixels -> BOOLEAN] /\ pix \in Pixels /\ node \in 0 .. Len(term)
    BY PixelsAssumption DEF Init, Pixels
  <2>2. refs \in [DOMAIN term -> RefStates]
    BY DEF Init
  <2>3. last \in [code : ErrCodes \cup {"unread"}, term : Terms \cup {<< >>}, failed : BOOLEAN]
    BY DEF Init, NotRead
  <2>4. DOMAIN stack = {} /\ DOMAIN loaded = {}
    BY DEF Init
  <2>5. /\ term \in Terms \cup {<< >>} /\ errCode \in ErrCodes /\ val \in BOOLEAN
        /\ pc \in {"idle", "visit", "result", "crash"} /\ failed \in BOOLEAN
    BY DEF Init, ErrCodes
  <2> QED BY <2>1, <2>2, <2>3, <2>4, <2>5 DEF TypeOK
<1>2. Shape /\ Resolved /\ Evaluating /\ Painted /\ Returning
  BY DEF Init, Shape, Resolved, Evaluating, Painted, Returning, Running
<1>3. MaskCorrect /\ ConjunctionsReport /\ ReadOnce
  BY DEF Init, MaskCorrect, ConjunctionsReport, ReadOnce, NotRead
<1> QED BY <1>1, <1>2, <1>3 DEF IInv

-----------------------------------------------------------------------------
(***************************************************************************)
(* The call and the loop over the pixels.                                  *)
(***************************************************************************)
LEMMA ReadRefusedIInv == ASSUME IInv, ReadRefused PROVE IInv'
<1>1. /\ UNCHANGED <<term, out, pc, node, val, stack, pix, loaded, refs, failed>>
      /\ pc = "idle"
      /\ errCode' \in ErrCodes /\ last' = [NotRead EXCEPT !.code = errCode']
      /\ errCode' # "none"
  BY DEF ReadRefused, Idle, ErrCodes, ReadErrors
<1>2. TypeOK'
  BY <1>1 DEF IInv, TypeOK, NotRead
<1>3. Shape' /\ Resolved' /\ Evaluating' /\ Painted' /\ Returning' /\ ReadOnce'
  BY <1>1 DEF IInv, Shape, Resolved, Evaluating, Painted, Returning, Running, ReadOnce
<1>4. MaskCorrect' /\ ConjunctionsReport'
  BY <1>1 DEF MaskCorrect, ConjunctionsReport, NotRead
<1> QED BY <1>2, <1>3, <1>4 DEF IInv

LEMMA ReadBitmaskRasterIInv ==
  ASSUME IInv, NEW t \in Terms, ReadBitmaskRaster(t)
  PROVE  IInv'
<1>1. /\ term' = t /\ errCode' = "none" /\ pc' = "visit" /\ node' = Len(t) /\ pix' = 0
      /\ loaded' = << >> /\ refs' = [k \in DOMAIN t |-> New] /\ failed' = FALSE
      /\ last' = NotRead /\ UNCHANGED <<out, val, stack>> /\ stack = << >>
  BY DEF ReadBitmaskRaster, IInv, Shape, Idle
<1>2. Len(t) \in Nat \ {0} /\ 0 \in Pixels
  BY TermFacts, PixelsAssumption DEF Pixels
<1>3. TypeOK'
  <2>1. DOMAIN stack' = {} /\ DOMAIN loaded' = {} /\ Len(t) \in 0 .. Len(t)
    BY <1>1, <1>2
  <2>2. refs' \in [DOMAIN t -> RefStates]
    BY <1>1 DEF RefStates
  <2>3. last' \in [code : ErrCodes \cup {"unread"}, term : Terms \cup {<< >>}, failed : BOOLEAN]
    BY <1>1 DEF NotRead
  <2> QED BY <1>1, <1>2, <2>1, <2>2, <2>3 DEF IInv, TypeOK, ErrCodes
<1>4. Shape' /\ Resolved' /\ Returning' /\ ReadOnce' /\ Painted'
  BY <1>1 DEF Shape, Resolved, Returning, ReadOnce, Painted
<1>5. Evaluating'
  BY <1>1 DEF Evaluating, AtHand
<1> QED BY <1>1, <1>3, <1>4, <1>5, NotIdle DEF IInv

LEMMA PixelDoneIInv == ASSUME IInv, PixelDone PROVE IInv'
<1>1. /\ Running /\ pc = "result" /\ stack = << >> /\ stack' = << >>
      /\ out' = [out EXCEPT ![pix] = val]
  BY DEF PixelDone, Running
<1>2. /\ term \in Terms /\ pix \in Pixels /\ pix \in Nat /\ val \in BOOLEAN
      /\ Len(term) \in Nat \ {0} /\ out \in [Pixels -> BOOLEAN] /\ errCode \in ErrCodes
  BY <1>1, RunningFacts DEF IInv, TypeOK
\* The pixel just written is right, and so are those before it.
<1>3. ~failed => \A i \in 0 .. pix : out'[i] = Meaning(term, i)
  <2> SUFFICES ASSUME ~failed, NEW i \in 0 .. pix PROVE out'[i] = Meaning(term, i)
    OBVIOUS
  <2>1. val = Meaning(term, pix)
    BY <1>1, <1>2, TruthExists DEF IInv, Evaluating, AtHand
  <2>2. i # pix => out[i] = Meaning(term, i)
    BY <1>1, <1>2 DEF IInv, Painted
  <2>3. i \in Pixels
    BY <1>2, PixelsAssumption DEF Pixels
  <2> QED BY <1>1, <1>2, <2>1, <2>2, <2>3
<1>4. CASE /\ errCode = "none" /\ MorePixels
           /\ pix' = NextPixel /\ pc' = "visit" /\ node' = Len(term)
           /\ UNCHANGED <<term, errCode, val, loaded, refs, failed, last>>
  <2>1. pix' = pix + 1 /\ pix' \in Pixels
    BY <1>2, <1>4, PixelsAssumption DEF NextPixel, MorePixels, Pixels
  <2>2. TypeOK'
    BY <1>1, <1>2, <1>4, <2>1 DEF IInv, TypeOK
  <2>3. Shape' /\ Resolved' /\ ReadOnce'
    BY <1>1, <1>4 DEF IInv, Shape, Resolved, ReadOnce
  <2>4. Painted'
    BY <1>2, <1>3, <1>4, <2>1 DEF Painted
  <2>5. Evaluating'
    BY <1>1, <1>4 DEF Evaluating, AtHand
  <2>6. Returning'
    BY <1>1, <1>4 DEF IInv, Returning
  <2> QED BY <1>4, <2>2, <2>3, <2>4, <2>5, <2>6, NotIdle DEF IInv
<1>5. CASE /\ errCode # "none" \/ ~MorePixels
           /\ last' = [code |-> CodeToReturn, term |-> term, failed |-> failed]
           /\ errCode' = IF loaded # << >> THEN "none" ELSE errCode
           /\ pc' = "idle"
           /\ term' = << >> /\ refs' = << >> /\ loaded' = << >>
           /\ node' = 0 /\ pix' = 0 /\ val' = FALSE /\ failed' = FALSE
  <2>1. TypeOK'
    <3>1. errCode' \in ErrCodes /\ 0 \in Pixels /\ out' \in [Pixels -> BOOLEAN]
      BY <1>1, <1>2, <1>5, PixelsAssumption DEF ErrCodes, Pixels
    <3>2. last' \in [code : ErrCodes \cup {"unread"}, term : Terms \cup {<< >>}, failed : BOOLEAN]
      BY <1>2, <1>5 DEF CodeToReturn, IInv, TypeOK
    <3> QED BY <1>1, <1>5, <3>1, <3>2 DEF TypeOK
  <2>2. Shape' /\ Resolved' /\ Evaluating' /\ Painted' /\ Returning' /\ ReadOnce'
    BY <1>1, <1>5 DEF Shape, Resolved, Evaluating, Painted, Returning, Running, ReadOnce
  <2>3. MaskCorrect'
    <3> SUFFICES ASSUME errCode = "none", ~failed, NEW i \in Pixels
                 PROVE  out'[i] = Meaning(term, i)
      BY <1>5 DEF MaskCorrect, CodeToReturn
    <3>1. i \in 0 .. pix
      BY <1>2, <1>5, PixelsAssumption DEF MorePixels, Pixels
    <3> QED BY <1>3, <3>1
  <2>4. ConjunctionsReport'
    BY <1>1, <1>5 DEF IInv, Returning, Conjunction, ConjunctionsReport, CodeToReturn
  <2> QED BY <2>1, <2>2, <2>3, <2>4 DEF IInv
<1> QED BY <1>4, <1>5 DEF PixelDone

-----------------------------------------------------------------------------
(***************************************************************************)
(* Operators.                                                              *)
(***************************************************************************)
LEMMA VisitNullIInv == ASSUME IInv, VisitNull PROVE IInv'
<1>1. Running /\ pc = "visit" /\ node = 0 /\ Answer(FALSE)
      /\ UNCHANGED <<term, out, errCode, pix, loaded, refs, failed, last>>
  BY DEF VisitNull, Running
<1>2. Truth(term, pix)[node] = FALSE
  BY <1>1, RunningFacts, TruthOfNull
<1>3. Resolved'
  BY <1>1 DEF IInv, Resolved
<1>4. Conjunction(term) => ~failed
  BY <1>1, VisitClean
<1> QED BY <1>1, <1>2, <1>3, <1>4, AnswerIInv DEF IInv, TypeOK

LEMMA VisitOperatorIInv == ASSUME IInv, VisitOperator PROVE IInv'
<1>1. /\ Running /\ pc = "visit" /\ pc' = "visit" /\ node # 0 /\ term[node].op # "REF"
      /\ stack' = Append(stack, node) /\ node' = term[node].arg1
      /\ UNCHANGED <<term, out, errCode, val, pix, loaded, refs, failed, last>>
  BY DEF VisitOperator, Running
<1>2. /\ term \in Terms /\ pix \in Pixels /\ node \in DOMAIN term
      /\ Len(term) \in Nat \ {0} /\ DOMAIN term = 1 .. Len(term)
      /\ Len(stack) \in Nat /\ DOMAIN stack = 1 .. Len(stack) /\ stack \in Seq(Nat)
  BY <1>1, RunningFacts DEF IInv, Shape
<1>3. node' \in 0 .. node - 1 /\ node \in Nat
  BY <1>1, <1>2, TermFacts
<1>4. /\ stack' \in Seq(Nat) /\ Len(stack') = Len(stack) + 1 /\ DOMAIN stack' = 1 .. Len(stack) + 1
      /\ \A k \in 1 .. Len(stack) : stack'[k] = stack[k]
      /\ stack'[Len(stack) + 1] = node
  BY <1>1, <1>2, <1>3
<1>5. TypeOK'
  <2>1. \A k \in DOMAIN stack' : stack'[k] \in DOMAIN term /\ term[stack'[k]].op # "REF"
    BY <1>1, <1>2, <1>4 DEF IInv, TypeOK
  <2>2. \A j, k \in DOMAIN stack' : j < k => stack'[k] < stack'[j]
    BY <1>1, <1>2, <1>4 DEF IInv, TypeOK, Shape
  <2>3. node' \in 0 .. Len(term)
    BY <1>2, <1>3
  <2> QED BY <1>1, <2>1, <2>2, <2>3 DEF IInv, TypeOK
<1>6. Shape'
  <2>1. \A k \in DOMAIN stack' : node' < stack'[k]
    BY <1>1, <1>2, <1>3, <1>4 DEF IInv, Shape
  <2> QED BY <1>1, <1>4, <2>1 DEF IInv, Shape
<1>7. Evaluating'
  <2> SUFFICES ASSUME ~failed PROVE Evaluating'
    BY <1>1 DEF Evaluating
  <2> DEFINE M == Truth(term, pix)
             n == Len(stack)
  <2>1. AtHand = M[node] /\ AtHand' = M[term[node].arg1]
    BY <1>1 DEF AtHand
  <2>2. /\ n = 0 => M[node] = M[Len(term)]
        /\ n > 0 => M[node] = M[term[stack[n]].arg1] /\ M[stack[1]] = M[Len(term)]
        /\ \A j \in 1 .. n - 1 : M[stack[j + 1]] = M[term[stack[j]].arg1]
    BY <1>1, <2>1 DEF IInv, Evaluating
  <2> HIDE DEF M
  <2>3. M[stack'[1]] = M[Len(term)]
    BY <1>2, <1>4, <2>2
  <2>4. ASSUME NEW j \in 1 .. n PROVE M[stack'[j + 1]] = M[term[stack'[j]].arg1]
    <3>1. stack'[j] = stack[j]
      BY <1>4
    <3>2. CASE j = n
      BY <1>2, <1>4, <2>2, <3>1, <3>2
    <3>3. CASE j # n
      <4>1. n \in Nat
        BY <1>2
      <4>2. j \in 1 .. n - 1 /\ j + 1 \in 1 .. n
        BY <3>3, <4>1
      <4>3. stack'[j + 1] = stack[j + 1]
        BY <1>4, <4>2
      <4> QED BY <2>2, <3>1, <4>2, <4>3
    <3> QED BY <3>2, <3>3
  <2>5. AtHand' = M[term[stack'[n + 1]].arg1]
    BY <1>4, <2>1 DEF M
  <2> QED BY <1>1, <1>2, <1>4, <2>3, <2>4, <2>5 DEF Evaluating, M
<1>8. Resolved' /\ Painted' /\ ReadOnce'
  BY <1>1 DEF IInv, Resolved, Painted, ReadOnce, Running
<1>9. Returning'
  BY <1>1, VisitClean DEF Returning
<1> QED BY <1>1, <1>5, <1>6, <1>7, <1>8, <1>9, NotIdle DEF IInv

LEMMA FirstArgumentIInv == ASSUME IInv, FirstArgument PROVE IInv'
<1> DEFINE n   == Len(stack)
           top == stack[n]
           op  == term[top].op
<1>1. /\ Running /\ pc = "result" /\ stack # << >>
      /\ stack' = SubSeq(stack, 1, n - 1)
      /\ UNCHANGED <<term, out, errCode, pix, loaded, refs, failed, last>>
      /\ \/ /\ GoesOn(op, val) /\ node' = term[top].arg2 /\ pc' = "visit" /\ val' = val
         \/ /\ ~GoesOn(op, val) /\ val' = IF op = "NOT" THEN ~val ELSE val
            /\ UNCHANGED <<node, pc>>
  BY DEF FirstArgument, Running
<1>2. /\ term \in Terms /\ pix \in Pixels /\ Len(term) \in Nat \ {0}
      /\ DOMAIN term = 1 .. Len(term) /\ n \in Nat \ {0} /\ DOMAIN stack = 1 .. n
      /\ stack \in Seq(Nat) /\ top \in DOMAIN term /\ op # "REF" /\ val \in BOOLEAN
  <2>1. n \in Nat /\ n # 0
    BY <1>1 DEF IInv, Shape
  <2> QED BY <1>1, <2>1, RunningFacts DEF IInv, Shape, TypeOK
<1>3. term[top].arg2 \in 0 .. top - 1 /\ op \in {"AND", "OR", "NOT"}
  BY <1>2, TermFacts DEF NodeType
<1>4. /\ stack' \in Seq(Nat) /\ Len(stack') = n - 1 /\ DOMAIN stack' = 1 .. n - 1
      /\ \A k \in 1 .. n - 1 : stack'[k] = stack[k]
  BY <1>1, <1>2
<1> HIDE DEF n, top, op
<1>5. TypeOK'
  <2>1. \A k \in DOMAIN stack' : stack'[k] \in DOMAIN term /\ term[stack'[k]].op # "REF"
    BY <1>1, <1>2, <1>4 DEF IInv, TypeOK
  <2>2. \A j, k \in DOMAIN stack' : j < k => stack'[k] < stack'[j]
    BY <1>1, <1>2, <1>4 DEF IInv, TypeOK
  <2>3. node' \in 0 .. Len(term)
    BY <1>1, <1>2, <1>3 DEF IInv, TypeOK
  <2>4. val' \in BOOLEAN /\ pc' \in {"visit", "result"}
    BY <1>1, <1>2
  <2> QED BY <1>1, <2>1, <2>2, <2>3, <2>4 DEF IInv, TypeOK
<1>6. Shape'
  <2> SUFFICES ASSUME pc' = "visit", NEW k \in DOMAIN stack' PROVE node' < stack'[k]
    BY <1>1, <1>2, <1>4 DEF IInv, Shape
  <2>1. node' \in 0 .. top - 1
    BY <1>1, <1>3
  <2>2. top < stack[k]
    BY <1>2, <1>4 DEF IInv, TypeOK, top
  <2>3. stack[k] \in Nat /\ top \in Nat
    BY <1>2, <1>4
  <2> QED BY <1>4, <2>1, <2>2, <2>3
<1>7. Evaluating'
  <2> SUFFICES ASSUME ~failed PROVE Evaluating'
    BY <1>1 DEF Evaluating
  <2> DEFINE M == Truth(term, pix)
  <2>1. /\ val = M[term[top].arg1] /\ M[stack[1]] = M[Len(term)]
        /\ \A j \in 1 .. n - 1 : M[stack[j + 1]] = M[term[stack[j]].arg1]
    BY <1>1, <1>2 DEF IInv, Evaluating, AtHand, n, top
  \* The value at hand becomes that of the node itself.
  <2>2. AtHand' = M[top]
    <3>1. /\ op = "NOT" => M[top] = ~val
          /\ GoesOn(op, val) => M[top] = M[term[top].arg2]
          /\ op \in {"AND", "OR"} /\ ~GoesOn(op, val) => M[top] = val
      BY <1>2, <2>1, TruthOfNode DEF op
    <3>2. CASE GoesOn(op, val)
      BY <1>1, <3>1, <3>2 DEF AtHand
    <3>3. CASE ~GoesOn(op, val)
      BY <1>1, <1>3, <3>1, <3>3 DEF AtHand
    <3> QED BY <3>2, <3>3
  <2> HIDE DEF M
  <2>3. n = 1 => M[top] = M[Len(term)]
    BY <2>1 DEF top
  <2>4. n > 1 => M[top] = M[term[stack[n - 1]].arg1]
    <3> SUFFICES ASSUME n > 1 PROVE M[top] = M[term[stack[n - 1]].arg1]
      OBVIOUS
    <3>1. n - 1 \in 1 .. n - 1 /\ (n - 1) + 1 = n
      BY <1>2
    <3> QED BY <2>1, <3>1 DEF top
  <2>5. ASSUME NEW j \in 1 .. n - 2 PROVE M[stack'[j + 1]] = M[term[stack'[j]].arg1]
    <3>1. j \in 1 .. n - 1 /\ j + 1 \in 1 .. n - 1
      BY <1>2
    <3> QED BY <1>4, <2>1, <3>1
  <2>6. n > 1 => stack'[n - 1] = stack[n - 1] /\ stack'[1] = stack[1]
    BY <1>2, <1>4
  <2>7. n - 1 = 0 => AtHand' = M[Len(term)]
    BY <1>2, <2>2, <2>3
  <2>8. n - 1 > 0 => AtHand' = M[term[stack'[n - 1]].arg1] /\ M[stack'[1]] = M[Len(term)]
    BY <1>2, <2>1, <2>2, <2>4, <2>6
  <2>9. \A j \in 1 .. (n - 1) - 1 : M[stack'[j + 1]] = M[term[stack'[j]].arg1]
    <3>1. (n - 1) - 1 = n - 2
      BY <1>2
    <3> QED BY <2>5, <3>1
  <2> QED BY <1>1, <1>4, <2>7, <2>8, <2>9 DEF Evaluating, M
<1>8. Resolved' /\ Painted' /\ ReadOnce'
  BY <1>1 DEF IInv, Resolved, Painted, ReadOnce, Running
<1>9. Returning'
  <2> SUFFICES ASSUME failed, Conjunction(term) PROVE pc' = "result" /\ ~val' /\ errCode # "none"
    BY <1>1 DEF Returning
  <2>1. ~val /\ errCode # "none" /\ op = "AND"
    BY <1>1, <1>2, <1>3 DEF IInv, Returning, Conjunction, op
  <2> QED BY <1>1, <2>1 DEF GoesOn
<1> QED BY <1>1, <1>5, <1>6, <1>7, <1>8, <1>9, NotIdle DEF IInv

-----------------------------------------------------------------------------
(***************************************************************************)
(* References.                                                             *)
(***************************************************************************)

\* The states of references are told apart.
LEMMA RefStatesDiffer ==
  ASSUME NEW b
  PROVE  /\ New.state = "new" /\ Ready(b).state = "ready" /\ NoMask(b).state = "noMask"
         /\ Ready(b).band = b /\ NoMask(b).band = b
  BY DEF New, Ready, NoMask

LEMMA AtRefFacts ==
  ASSUME IInv, NEW state, AtRef(state)
  PROVE  /\ Running /\ pc = "visit" /\ node \in DOMAIN term /\ term[node].op = "REF"
         /\ refs[node].state = state /\ refs \in [DOMAIN term -> RefStates]
         /\ refs[node] \in RefStates
         /\ Truth(term, pix)[node] = (/\ term[node].band \in Bands
                                      /\ term[node].flag \in Coding[term[node].band]
                                      /\ IsSet(term[node].band, term[node].flag, pix))
<1>1. Running /\ pc = "visit" /\ node # 0 /\ term[node].op = "REF" /\ refs[node].state = state
  BY DEF AtRef, Running
<1>2. node \in DOMAIN term /\ term \in Terms /\ pix \in Pixels
  BY <1>1, RunningFacts
<1>3. refs \in [DOMAIN term -> RefStates]
  BY DEF IInv, TypeOK
<1> QED BY <1>1, <1>2, <1>3, TruthOfNode

\* A flag that cannot be found or read fails the call, and is FALSE.
LEMMA ResolveFailsIInv ==
  ASSUME IInv, pc = "visit", NEW error \in ErrCodes \ {"none"}, ResolveFails(error),
         UNCHANGED <<term, out, pix, loaded, last>>,
         refs' \in [DOMAIN term -> RefStates], Resolved'
  PROVE  IInv'
  BY AnswerIInv DEF ResolveFails

\* What was resolved stays so when something fails.
LEMMA SameRefsResolved ==
  ASSUME IInv, UNCHANGED <<term, refs>>, failed => failed'
  PROVE  Resolved' /\ refs' \in [DOMAIN term -> RefStates]
  BY DEF IInv, Resolved, TypeOK

LEMMA VisitReadyIInv == ASSUME IInv, VisitReady PROVE IInv'
<1>1. /\ AtRef("ready") /\ errCode' = "none"
      /\ Answer(IsSet(refs[node].band, term[node].flag, pix))
      /\ UNCHANGED <<term, out, pix, loaded, refs, failed, last>>
  BY DEF VisitReady
<1>2. pc = "visit" /\ node \in DOMAIN term /\ pix \in Pixels
  BY <1>1, AtRefFacts, RunningFacts
<1>3. /\ refs[node].band = term[node].band /\ term[node].band \in Bands
      /\ term[node].flag \in Coding[term[node].band]
  <2>1. refs[node].state = "ready"
    BY <1>1, AtRefFacts
  <2>2. refs[node] # New /\ refs[node] # NoMask(term[node].band)
    BY <2>1, RefStatesDiffer
  <2> QED BY <1>2, <2>2, RefStatesDiffer DEF IInv, Resolved
<1>4. IsSet(term[node].band, term[node].flag, pix) \in BOOLEAN
  BY <1>2, <1>3, CodingAssumption, IsSetAssumption
<1>5. Truth(term, pix)[node] = IsSet(term[node].band, term[node].flag, pix)
  BY <1>1, <1>3, <1>4, AtRefFacts
<1>6. Resolved' /\ refs' \in [DOMAIN term -> RefStates]
  BY <1>1, SameRefsResolved
<1>7. Conjunction(term) => ~failed
  BY <1>2, VisitClean
<1> QED BY <1>1, <1>2, <1>3, <1>4, <1>5, <1>6, <1>7, AnswerIInv DEF IInv, TypeOK, ErrCodes

\* The process ends, or what is not there is read as FALSE, after a failure.
LEMMA CrashIInv ==
  ASSUME IInv, Running, pc' = "crash",
         UNCHANGED <<term, out, errCode, node, val, stack, pix, loaded, refs, failed, last>>
  PROVE  IInv'
<1>1. TypeOK' /\ Shape' /\ Resolved' /\ ReadOnce'
  BY DEF IInv, TypeOK, Shape, Resolved, ReadOnce, Running
<1>2. Evaluating' /\ Painted' /\ Returning'
  BY DEF Evaluating, Painted, Returning, Running
<1> QED BY <1>1, <1>2, NotIdle DEF IInv

LEMMA VisitNoMaskIInv == ASSUME IInv, VisitNoMask PROVE IInv'
<1>1. AtRef("noMask") /\ UNCHANGED <<term, out, pix, loaded, refs, failed, last>>
  BY DEF VisitNoMask
<1>2. Running /\ pc = "visit"
  BY <1>1, AtRefFacts
<1>3. CASE pc' = "crash" /\ UNCHANGED <<errCode, node, val, stack>>
  BY <1>1, <1>2, <1>3, CrashIInv
<1>4. CASE errCode' = "none" /\ Answer(FALSE)
  <2>1. failed
    <3>1. refs[node].state = "noMask" /\ node \in DOMAIN term
      BY <1>1, AtRefFacts
    <3>2. refs[node] # New /\ refs[node] # Ready(term[node].band)
      BY <3>1, RefStatesDiffer
    <3> QED BY <3>1, <3>2 DEF IInv, Resolved
  <2>2. ~Conjunction(term)
    BY <1>2, <2>1, VisitClean
  <2>3. Resolved' /\ refs' \in [DOMAIN term -> RefStates]
    BY <1>1, SameRefsResolved
  <2> QED BY <1>1, <1>2, <1>4, <2>1, <2>2, <2>3, AnswerIInv DEF IInv, TypeOK, ErrCodes
<1> QED BY <1>3, <1>4 DEF VisitNoMask

LEMMA UnknownBandIInv == ASSUME IInv, UnknownBand PROVE IInv'
<1>1. /\ AtRef("new") /\ ResolveFails("flag_not_found")
      /\ UNCHANGED <<term, out, pix, loaded, refs, last>>
  BY DEF UnknownBand
<1>2. failed' /\ pc = "visit"
  BY <1>1, AtRefFacts DEF ResolveFails
<1>3. Resolved' /\ refs' \in [DOMAIN term -> RefStates]
  BY <1>1, <1>2, SameRefsResolved
<1> QED BY <1>1, <1>2, <1>3, ResolveFailsIInv DEF ErrCodes

LEMMA LoadBandIInv == ASSUME IInv, LoadBand PROVE IInv'
<1>1. /\ AtRef("new") /\ InContext(term[node].band) = {} /\ term[node].band \in Bands
      /\ UNCHANGED <<term, out, pix, refs, last>>
  BY DEF LoadBand
<1>2. Running /\ pc = "visit" /\ node \in DOMAIN term
  BY <1>1, AtRefFacts
<1>3. CASE (\E error \in ReadErrors : ResolveFails(error)) /\ UNCHANGED loaded
  <2>1. PICK error \in ErrCodes \ {"none"} : ResolveFails(error)
    BY <1>3 DEF ErrCodes, ReadErrors
  <2>2. failed'
    BY <2>1 DEF ResolveFails
  <2>3. Resolved' /\ refs' \in [DOMAIN term -> RefStates]
    BY <1>1, <2>2, SameRefsResolved
  <2> QED BY <1>1, <1>2, <1>3, <2>1, <2>3, ResolveFailsIInv
<1>4. CASE pc' = "crash" /\ UNCHANGED <<errCode, loaded, node, val, stack, failed>>
  BY <1>1, <1>2, <1>4, CrashIInv
<1>5. CASE /\ loaded' = Append(loaded, term[node].band) /\ errCode' = "none"
           /\ UNCHANGED <<pc, node, val, stack, failed>>
  <2>1. loaded \in Seq(Bands) /\ \A i \in DOMAIN loaded : loaded[i] # term[node].band
    BY <1>1 DEF IInv, Shape, InContext
  <2>2. /\ loaded' \in Seq(Bands) /\ DOMAIN loaded' = 1 .. Len(loaded) + 1
        /\ DOMAIN loaded = 1 .. Len(loaded) /\ Len(loaded) \in Nat
        /\ \A i \in 1 .. Len(loaded) : loaded'[i] = loaded[i]
        /\ loaded'[Len(loaded) + 1] = term[node].band
    BY <1>1, <1>5, <2>1
  <2>3. TypeOK'
    <3>1. \A i \in DOMAIN loaded' : loaded'[i] \in Bands
      BY <2>2
    <3> QED BY <1>1, <1>5, <3>1 DEF IInv, TypeOK, ErrCodes
  <2>4. ReadOnce'
    BY <2>1, <2>2 DEF IInv, ReadOnce
  <2>5. Shape' /\ Resolved' /\ Painted'
    BY <1>1, <1>5, <2>2 DEF IInv, Shape, Resolved, Painted, Running
  <2>6. Evaluating'
    BY <1>1, <1>5 DEF IInv, Evaluating, AtHand, Running
  <2>7. Returning'
    BY <1>1, <1>2, <1>5, VisitClean DEF Returning
  <2> QED BY <1>2, <1>5, <2>3, <2>4, <2>5, <2>6, <2>7, NotIdle DEF IInv
<1> QED BY <1>3, <1>4, <1>5 DEF LoadBand

LEMMA FindFlagIInv == ASSUME IInv, FindFlag PROVE IInv'
<1> DEFINE b == term[node].band
           f == term[node].flag
<1>1. /\ AtRef("new") /\ UNCHANGED <<term, out, pix, loaded, last>>
  BY DEF FindFlag
<1>2. Running /\ pc = "visit" /\ node \in DOMAIN term
  BY <1>1, AtRefFacts
<1>3. PICK i \in InContext(b) :
        \/ /\ f \in Coding[loaded[i]] /\ refs' = [refs EXCEPT ![node] = Ready(loaded[i])]
           /\ UNCHANGED <<errCode, failed, pc, node, val, stack>>
        \/ /\ f \notin Coding[loaded[i]] /\ refs' = [refs EXCEPT ![node] = NoMask(loaded[i])]
           /\ ResolveFails("flag_not_found")
  BY DEF FindFlag
<1>4. loaded[i] = b /\ b \in Bands
  BY DEF InContext, IInv, TypeOK
<1>5. refs \in [DOMAIN term -> RefStates]
  BY DEF IInv, TypeOK
<1> HIDE DEF b, f
<1>6. CASE /\ f \in Coding[b] /\ refs' = [refs EXCEPT ![node] = Ready(b)]
           /\ UNCHANGED <<errCode, failed, pc, node, val, stack>>
  <2>1. refs' \in [DOMAIN term -> RefStates]
    BY <1>2, <1>4, <1>5, <1>6 DEF RefStates
  <2>2. TypeOK' /\ Shape' /\ Painted' /\ ReadOnce'
    BY <1>1, <1>6, <2>1 DEF IInv, TypeOK, Shape, Painted, ReadOnce, Running
  <2>3. Resolved'
    BY <1>1, <1>2, <1>4, <1>5, <1>6 DEF IInv, Resolved, b, f
  <2>4. Evaluating'
    BY <1>1, <1>6 DEF IInv, Evaluating, AtHand, Running
  <2>5. Returning'
    BY <1>1, <1>2, <1>6, VisitClean DEF Returning
  <2> QED BY <1>2, <1>6, <2>2, <2>3, <2>4, <2>5, NotIdle DEF IInv
<1>7. CASE /\ refs' = [refs EXCEPT ![node] = NoMask(b)]
           /\ ResolveFails("flag_not_found")
  <2>1. refs' \in [DOMAIN term -> RefStates]
    BY <1>2, <1>4, <1>5, <1>7 DEF RefStates
  <2>2. failed'
    BY <1>7 DEF ResolveFails
  <2>3. Resolved'
    BY <1>1, <1>2, <1>5, <1>7, <2>2 DEF IInv, Resolved, b
  <2> QED BY <1>1, <1>2, <1>7, <2>1, <2>3, ResolveFailsIInv DEF ErrCodes
<1> QED BY <1>3, <1>4, <1>6, <1>7

LEMMA StutterIInv == ASSUME IInv, UNCHANGED vars PROVE IInv'
<1>1. TypeOK' /\ Shape' /\ Resolved' /\ ReadOnce'
  BY DEF vars, IInv, TypeOK, Shape, Resolved, ReadOnce
<1>2. Evaluating' /\ Painted' /\ Returning'
  BY DEF vars, IInv, Evaluating, AtHand, Painted, Returning, Running
<1>3. MaskCorrect' /\ ConjunctionsReport'
  BY DEF vars, IInv, MaskCorrect, ConjunctionsReport, Idle
<1> QED BY <1>1, <1>2, <1>3 DEF IInv

-----------------------------------------------------------------------------
\* The invariant is inductive.
THEOREM NextIInv == IInv /\ [Next]_vars => IInv'
<1> SUFFICES ASSUME IInv, [Next]_vars PROVE IInv'
  OBVIOUS
<1>1. CASE EvalStep
  BY <1>1, VisitNullIInv, VisitOperatorIInv, FirstArgumentIInv, VisitReadyIInv,
     VisitNoMaskIInv, UnknownBandIInv, LoadBandIInv, FindFlagIInv, PixelDoneIInv DEF EvalStep
<1>2. CASE ReadRefused
  BY <1>2, ReadRefusedIInv
<1>3. CASE \E t \in Terms : ReadBitmaskRaster(t)
  BY <1>3, ReadBitmaskRasterIInv
<1>4. CASE UNCHANGED vars
  BY <1>4, StutterIInv
<1> QED BY <1>1, <1>2, <1>3, <1>4 DEF Next

\* The invariant holds in every state of epr_read_bitmask_raster, for all terms
\* and rasters.
THEOREM Invariance == Spec => []IInv
  BY InitIInv, NextIInv, PTL DEF Spec

\* The variables keep their types; in particular the nodes on the stack of the
\* recursion are operators, each inside the one below it, so that the depth of
\* the recursion is bounded by the term.
THEOREM TypeCorrect == Spec => []TypeOK
<1>1. IInv => TypeOK
  BY DEF IInv
<1> QED BY <1>1, Invariance, PTL

\* epr_read_bitmask_raster gives the truth of the expression at every pixel if
\* it returns zero and met no reference that could not be resolved.
THEOREM MasksAreCorrect == Spec => []MaskCorrect
<1>1. IInv => MaskCorrect
  BY DEF IInv
<1> QED BY <1>1, Invariance, PTL

\* An error in an expression without OR and NOT is returned.
THEOREM ConjunctionsDoReport == Spec => []ConjunctionsReport
<1>1. IInv => ConjunctionsReport
  BY DEF IInv
<1> QED BY <1>1, Invariance, PTL

\* The context never holds a band twice.
THEOREM BandsAreReadOnce == Spec => []ReadOnce
<1>1. IInv => ReadOnce
  BY DEF IInv
<1> QED BY <1>1, Invariance, PTL

-----------------------------------------------------------------------------
(***************************************************************************)
(* Both modules together: from the tokens of an expression to the pixels   *)
(* of its bitmask raster.                                                  *)
(***************************************************************************)

\* A term has one meaning at a pixel: the value that EprBmParser gives it.
LEMMA OneMeaning ==
  ASSUME NEW t \in Seq(NodeType), Ordered(t), NEW i, NEW M, IsMeaning(t, i, M),
         NEW k \in 1 .. Len(t), M \in [0 .. Len(t) -> BOOLEAN]
  PROVE  M[k] = Values(t, FlagsAt(i))[k]
<1> DEFINE v == Values(t, FlagsAt(i))
           n == Len(t)
<1>1. v \in Seq(BOOLEAN) /\ Len(v) = n /\ n \in Nat
      /\ \A m \in 1 .. n : v[m] = NodeValue(t[m], v, FlagsAt(i))
  BY ValuesAre
<1> HIDE DEF v
<1>2. ASSUME NEW m \in 1 .. n PROVE v[m] \in BOOLEAN
  BY <1>1
<1> DEFINE S == {m \in Nat : m <= n => \A l \in 1 .. m : M[l] = v[l]}
<1>3. 0 \in S
  OBVIOUS
<1>4. ASSUME NEW m \in Nat, m \in S PROVE m + 1 \in S
  <2>1. ASSUME m + 1 <= n PROVE M[m + 1] = v[m + 1]
    <3> DEFINE x == t[m + 1]
    <3>1. /\ m + 1 \in 1 .. n /\ m + 1 \in DOMAIN t /\ m + 1 \in Nat
          /\ x \in NodeType /\ x.arg1 < m + 1 /\ x.arg2 < m + 1
      BY <1>1, <2>1 DEF Ordered
    <3>2. M[m + 1] = NodeMeans(x, i, M) /\ M[0] = FALSE
      BY <3>1 DEF IsMeaning, NodeMeans
    <3>3. v[m + 1] = NodeValue(x, v, FlagsAt(i))
      BY <1>1, <3>1
    <3> HIDE DEF x
    <3>4. \A l \in 1 .. (m + 1) - 1 : M[l] = v[l] /\ v[l] \in BOOLEAN
      BY <1>1, <1>2, <1>4, <2>1
    <3>5. NodeMeans(x, i, M) <=> NodeValue(x, v, FlagsAt(i))
      BY <3>1, <3>2, <3>4, NodeMeansValue
    <3>6. M[m + 1] \in BOOLEAN /\ v[m + 1] \in BOOLEAN
      BY <1>1, <1>2, <3>1
    <3> QED BY <3>2, <3>3, <3>5, <3>6
  <2>2. ASSUME m + 1 <= n, NEW l \in 1 .. m + 1 PROVE M[l] = v[l]
    <3>1. CASE l = m + 1
      BY <2>1, <2>2, <3>1
    <3>2. CASE l # m + 1
      <4>1. m <= n /\ l \in 1 .. m
        BY <1>1, <2>2, <3>2
      <4> QED BY <1>4, <4>1
    <3> QED BY <3>1, <3>2
  <2> QED BY <2>2
<1>5. n \in S
  <2> HIDE DEF S
  <2> QED BY <1>1, <1>3, <1>4, SetInduction
<1> QED BY <1>1, <1>5 DEF v

LEMMA MeaningIsValue ==
  ASSUME NEW t \in Terms, NEW i \in Pixels
  PROVE  Meaning(t, i) = Holds(t, FlagsAt(i))
<1>1. t \in Seq(NodeType) /\ Ordered(t)
  BY TermsAssumption DEF Ordered
<1>2. Len(t) \in 1 .. Len(t)
  BY TermFacts
<1>3. /\ Truth(t, i) \in [0 .. Len(t) -> BOOLEAN] /\ IsMeaning(t, i, Truth(t, i))
      /\ Meaning(t, i) = Truth(t, i)[Len(t)]
  BY TruthExists
<1>4. Truth(t, i)[Len(t)] = Values(t, FlagsAt(i))[Len(t)]
  BY <1>1, <1>2, <1>3, OneMeaning
<1> QED BY <1>3, <1>4 DEF Holds

\* What the parser makes of any tokens, an error or not, is a term as EprBitmask
\* assumes its terms to be: arguments stand before their node, so that the
\* recursion of epr_eval_bm_term ends.
THEOREM ParserMakesTerms ==
  ASSUME NEW e \in Seq(Token)
  PROVE  LET t == TermOf(epr_parse_bm_expr_str(e))
         IN  t \in Seq(NodeType) /\ \A k \in DOMAIN t : t[k].arg1 < k /\ t[k].arg2 < k
<1> DEFINE r == epr_parse_bm_expr_str(e)
           t == TermOf(r)
<1>1. Start(e) \in ParseInfo /\ Start(e).nodes = << >> /\ Len(e) \in Nat
  BY StartFacts, AtFacts
<1>2. r \in Results(Start(e))
  <2>1. Descent[Len(e)] \in Descents
    BY <1>1, DescentIs
  <2> QED BY <1>1, <2>1, OrType DEF epr_parse_bm_expr_str
<1> HIDE DEF r
<1>3. /\ r[1] \in Nat /\ r[1] <= Len(r[2].nodes) /\ r[2].nodes \in Seq(NodeType)
      /\ Ordered(r[2].nodes)
  <2>1. Ordered(<< >>)
    BY DEF Ordered
  <2>2. r[1] \in Nat /\ r[2] \in ParseInfo /\ r[1] <= Len(r[2].nodes) /\ Ordered(r[2].nodes)
    BY <1>1, <1>2, <2>1 DEF Results
  <2> QED BY <2>2, ParseInfoType
<1> DEFINE h == r[2].nodes
           m == r[1]
<1>4. t = SubSeq(h, 1, m)
  BY DEF TermOf
<1> HIDE DEF h, m, t
<1>5. m \in 0 .. Len(h) /\ h \in Seq(NodeType) /\ Ordered(h) /\ Len(h) \in Nat
  BY <1>3 DEF h, m
<1>6. t \in Seq(NodeType) /\ Len(t) = m /\ \A k \in 1 .. m : t[k] = h[k]
  BY <1>4, <1>5
<1>7. ASSUME NEW k \in DOMAIN t PROVE t[k].arg1 < k /\ t[k].arg2 < k
  <2>1. k \in 1 .. m /\ k \in DOMAIN h /\ t[k] = h[k]
    BY <1>5, <1>6
  <2> QED BY <1>5, <2>1 DEF Ordered
<1> QED BY <1>6, <1>7 DEF t, r

\* The bitmask raster of the expression e, after a call that returned zero and
\* resolved every reference it met.
ExpressionMask(e) ==
  LET all == {FlagsAt(i) : i \in Pixels}
  IN  \E n \in 1 .. Len(e) :
        /\ n < Len(e) => e[n + 1] \notin AndToken \cup OrToken
        /\ \E M \in Meanings(SubSeq(e, 1, n), all) :
             \A i \in Pixels : out[i] <=> FlagsAt(i) \in M

Expression(e) ==
  /\ e \in Seq(Token) /\ ~epr_parse_bm_expr_str(e)[2].error
  /\ last.term = TermOf(epr_parse_bm_expr_str(e)) /\ last.term # << >>

MaskIsExpression ==
  Idle /\ last.code = "none" /\ ~last.failed => \A e : Expression(e) => ExpressionMask(e)

LEMMA MaskOfExpression ==
  ASSUME TypeOK, MaskCorrect, Idle, last.code = "none", ~last.failed, NEW e, Expression(e)
  PROVE  ExpressionMask(e)
<1> DEFINE all == {FlagsAt(i) : i \in Pixels}
           r   == epr_parse_bm_expr_str(e)
           t   == last.term
<1>1. e \in Seq(Token) /\ ~r[2].error /\ t = TermOf(r) /\ t # << >>
  BY DEF Expression
<1>2. t \in Terms
  BY <1>1 DEF TypeOK
<1>3. \A i \in Pixels : out[i] = Holds(t, FlagsAt(i))
  BY <1>2, MeaningIsValue DEF MaskCorrect
<1> HIDE DEF all, t
<1>4. PICK n \in 1 .. Len(e) : ParsedTo(e, all, n, r)
  <2>1. r[1] = 0 => TermOf(r) = << >>
    BY DEF TermOf
  <2> QED BY <1>1, <2>1, ParsedMade
<1>5. MaskOf(all, t) \in OrAt(e, all, 0, n) /\ ~Follows(e, n, AndToken \cup OrToken)
  BY <1>1, <1>4 DEF ParsedTo, Tree
<1>6. OrAt(e, all, 0, n) = Meanings(SubSeq(e, 1, n), all)
  <2>1. Span(e, 0, n) = SubSeq(e, 1, n)
    BY DEF Span
  <2> QED BY <2>1 DEF Meanings, OrAt, OrOf
<1>7. ASSUME NEW i \in Pixels PROVE out[i] <=> FlagsAt(i) \in MaskOf(all, t)
  BY <1>3 DEF MaskOf, all
<1>8. n < Len(e) => e[n + 1] \notin AndToken \cup OrToken
  BY <1>5 DEF Follows
<1> DEFINE M == MaskOf(all, t)
<1>9. M \in Meanings(SubSeq(e, 1, n), all) /\ \A i \in Pixels : out[i] <=> FlagsAt(i) \in M
  BY <1>5, <1>6, <1>7
<1> HIDE DEF M
<1> QED BY <1>8, <1>9 DEF ExpressionMask, all

\* From text to raster: when epr_read_bitmask_raster returns zero for the term of an
\* expression that was parsed without an error, and every reference it met could be
\* resolved, a pixel is set exactly where the documented grammar says that the
\* sentence holds, given the flags that are set there.
THEOREM MasksAreOfExpressions == Spec => []MaskIsExpression
<1>1. TypeOK /\ MaskCorrect => MaskIsExpression
  BY MaskOfExpression DEF MaskIsExpression
<1> QED BY <1>1, TypeCorrect, MasksAreCorrect, PTL
=============================================================================
