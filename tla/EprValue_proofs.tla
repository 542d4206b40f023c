-------------------------- MODULE EprValue_proofs --------------------------
(***************************************************************************)
(* Proofs about EprValue, for bytes of any even number of values, fields   *)
(* of any length, and machines of both byte orders.                        *)
(*                                                                         *)
(* The inductive invariant says that the elements of a field are the words *)
(* that were written to the file: a word that is read in the other order   *)
(* and swapped is itself again (SwappedBack).  What remains is that the    *)
(* conversions a caller is offered keep the number (ElemKept, CopyKept,    *)
(* PixelKept).                                                             *)
(***************************************************************************)
EXTENDS EprValue, TLAPS

-----------------------------------------------------------------------------
(***************************************************************************)
(* Arithmetic.                                                             *)
(***************************************************************************)

LEMMA Products ==
  ASSUME NEW a \in Nat, NEW b \in Nat
  PROVE  a * b \in Nat
  OBVIOUS

LEMMA QuotientRemainder ==
  ASSUME NEW m \in Nat \ {0}, NEW q \in Int, NEW r \in 0 .. m - 1, NEW w, w = q * m + r
  PROVE  w \div m = q /\ w % m = r
<1> DEFINE d == w \div m
           e == w % m
<1>1. w \in Int
  OBVIOUS
<1>2. d \in Int /\ e \in 0 .. m - 1 /\ w = m * d + e
  <2>1. \A x \in Int : x \div m \in Int /\ x % m \in 0 .. m - 1 /\ x = (m * (x \div m)) + (x % m)
    OBVIOUS
  <2> QED BY <1>1, <2>1
<1> HIDE DEF d, e
<1>3. m * (q - d) = e - r
  BY <1>2
<1>4. \A n \in Int : (n >= 1 => m * n >= m) /\ (n <= -1 => m * n <= -m)
  OBVIOUS
<1>5. ~(q - d >= 1) /\ ~(q - d <= -1)
  <2> DEFINE n == q - d
  <2>1. n \in Int /\ m * n = e - r
    BY <1>2, <1>3
  <2> HIDE DEF n
  <2> QED BY <1>2, <1>4, <2>1 DEF n
<1>6. q = d
  BY <1>2, <1>5
<1>7. e = r
  BY <1>2, <1>3, <1>6
<1> QED BY <1>6, <1>7 DEF d, e

\* A number less than one range away is brought into the range.
LEMMA Wrapping ==
  ASSUME NEW m \in Nat \ {0}, NEW x \in Int
  PROVE  /\ x \in 0 .. m - 1 => x % m = x
         /\ x \in -m .. -1 => x % m = x + m
<1>1. ASSUME x \in 0 .. m - 1 PROVE x % m = x
  <2>1. x = 0 * m + x
    OBVIOUS
  <2> QED BY <1>1, <2>1, QuotientRemainder
<1>2. ASSUME x \in -m .. -1 PROVE x % m = x + m
  <2> DEFINE q == -1
             r == x + m
  <2>1. x = q * m + r /\ r \in 0 .. m - 1 /\ q \in Int
    BY <1>2
  <2> HIDE DEF q, r
  <2>2. x % m = r
    BY <2>1, QuotientRemainder
  <2> QED BY <2>2 DEF r
<1> QED BY <1>1, <1>2

-----------------------------------------------------------------------------
(***************************************************************************)
(* The ranges of words.                                                    *)
(***************************************************************************)

LEMMA BaseFacts == Base \in Nat /\ Base >= 2 /\ Base % 2 = 0
  BY BaseAssumption

\* Each range is even, and at least twice the one before.
LEMMA PowerFacts ==
  /\ Power(0) = 1 /\ Power(1) = Base /\ Power(2) = Base * Base
  /\ Power(3) = Power(2) * Base /\ Power(4) = Power(2) * Power(2)
  /\ Power(2) \in Nat /\ Power(3) \in Nat /\ Power(4) \in Nat
  /\ Power(2) >= 2 * Base /\ Power(3) >= 1 /\ Power(4) >= 2 * Power(2)
<1>1. /\ Power(0) = 1 /\ Power(1) = Base /\ Power(2) = Base * Base
      /\ Power(3) = Power(2) * Base /\ Power(4) = Power(2) * Power(2)
  BY DEF Power
<1>2. \A a, b \in Nat : a >= 2 /\ b >= 1 => a * b \in Nat /\ a * b >= 2 * b
  OBVIOUS
<1>3. Power(2) \in Nat /\ Power(2) >= 2 * Base
  BY <1>1, <1>2, BaseFacts
<1>4. Power(4) \in Nat /\ Power(4) >= 2 * Power(2)
  BY <1>1, <1>2, <1>3, BaseFacts
<1>5. Power(3) \in Nat /\ Power(3) >= 1
  BY <1>1, <1>2, <1>3, BaseFacts
<1> QED BY <1>1, <1>3, <1>4, <1>5

LEMMA EvenProduct ==
  ASSUME NEW a \in Nat, a % 2 = 0, NEW b \in Nat
  PROVE  (a * b) % 2 = 0
<1>1. PICK h \in Nat : a = 2 * h
  OBVIOUS
<1> DEFINE q == h * b
           w == a * b
<1>2. w = q * 2 + 0 /\ q \in Int
  BY <1>1
<1> HIDE DEF q, w
<1>3. w % 2 = 0
  BY <1>2, QuotientRemainder
<1> QED BY <1>3 DEF w

LEMMA CountFacts ==
  ASSUME NEW type \in Integer
  PROVE  /\ Count(type) = CASE type \in {"uchar", "char"} -> Base
                            [] type \in {"ushort", "short"} -> Power(2)
                            [] type \in {"uint", "int"} -> Power(4)
         /\ Count(type) \in Nat \ {0}
         /\ Count(type) \div 2 \in Nat
         /\ Count(type) = 2 * (Count(type) \div 2)
<1>1. Count(type) = CASE type \in {"uchar", "char"} -> Base
                      [] type \in {"ushort", "short"} -> Power(2)
                      [] type \in {"uint", "int"} -> Power(4)
  BY PowerFacts DEF Count, WordSize, Integer
<1>2. Power(2) % 2 = 0 /\ Power(4) % 2 = 0
  <2>1. Power(2) % 2 = 0
    BY BaseFacts, PowerFacts, EvenProduct
  <2> QED BY <2>1, PowerFacts, EvenProduct
<1>3. Count(type) \in Nat \ {0} /\ Count(type) % 2 = 0
  BY <1>1, <1>2, BaseFacts, PowerFacts DEF Integer
<1>4. \A n \in Nat : n % 2 = 0 => n \div 2 \in Nat /\ n = 2 * (n \div 2)
  OBVIOUS
<1> QED BY <1>1, <1>3, <1>4

-----------------------------------------------------------------------------
(***************************************************************************)
(* Words and their bytes.                                                  *)
(***************************************************************************)

Bytes == 0 .. Base - 1

\* A byte below a number that is not in the last place.
LEMMA Below ==
  ASSUME NEW m \in Nat, NEW n \in Nat, NEW a \in 0 .. m - 1, NEW b \in 0 .. n - 1
  PROVE  (a * n) + b \in 0 .. (m * n) - 1
<1>1. (a + 1) * n <= m * n /\ (a + 1) * n = a * n + n /\ a * n \in Nat /\ m * n \in Nat
  <2>1. \A x, y, z \in Nat : x <= y => x * z <= y * z
    OBVIOUS
  <2>2. a + 1 \in Nat /\ a + 1 <= m
    OBVIOUS
  <2> QED BY <2>1, <2>2
<1> QED BY <1>1

LEMMA TwoBytes ==
  ASSUME NEW a \in Bytes, NEW b \in Bytes
  PROVE  /\ Number2(a, b) \in 0 .. Power(2) - 1
         /\ Byte(Number2(a, b), 0) = b /\ Byte(Number2(a, b), 1) = a
<1> DEFINE w == (a * Base) + b
<1>1. w \in 0 .. (Base * Base) - 1
  BY BaseFacts, Below DEF Bytes
<1>2. w % Base = b /\ w \div Base = a
  BY BaseFacts, QuotientRemainder DEF Bytes
<1>3. a % Base = a
  BY BaseFacts, Wrapping DEF Bytes
<1>4. w \div 1 = w
  <2> HIDE DEF w
  <2> QED BY <1>1
<1> HIDE DEF w
<1>5. (w \div Power(0)) % Base = b /\ (w \div Power(1)) % Base = a
  BY <1>2, <1>3, <1>4, PowerFacts
<1> QED BY <1>1, <1>5, PowerFacts DEF w, Number2, Byte

LEMMA FourBytes ==
  ASSUME NEW a \in Bytes, NEW b \in Bytes, NEW c \in Bytes, NEW d \in Bytes
  PROVE  LET w == Number4(a, b, c, d)
         IN  /\ w \in 0 .. Power(4) - 1
             /\ Byte(w, 0) = d /\ Byte(w, 1) = c /\ Byte(w, 2) = b /\ Byte(w, 3) = a
<1> DEFINE w == Number4(a, b, c, d)
           p == Power(2)
           q == Power(3)
           x == (c * Base) + d
           y == (b * p) + x
           u == (a * Base) + b
           v == (u * Base) + c
<1>1. /\ Base \in Nat \ {0} /\ p \in Nat \ {0} /\ q \in Nat \ {0}
      /\ p = Base * Base /\ q = p * Base /\ Power(4) = p * p
      /\ a \in 0 .. Base - 1 /\ b \in 0 .. Base - 1 /\ c \in 0 .. Base - 1 /\ d \in 0 .. Base - 1
  BY BaseFacts, PowerFacts DEF Bytes
<1>2. w = (((a * q) + (b * p)) + (c * Base)) + d
  BY DEF Number4
<1> HIDE DEF p, q, w
<1>3. x \in 0 .. p - 1 /\ u \in 0 .. p - 1
  BY <1>1, Below
<1>4. y \in 0 .. q - 1
  <2>1. (b * p) + x \in 0 .. (Base * p) - 1
    BY <1>1, <1>3, Below
  <2>2. Base * p = p * Base
    BY <1>1
  <2> QED BY <1>1, <2>1, <2>2
<1>5. v \in Nat
  BY <1>1, <1>3
<1>6. w = (a * q) + y /\ w = (u * p) + x /\ w = (v * Base) + d
  <2>1. \A i, j, k, l, n \in Nat :
          /\ (((i * (n * n * n)) + (j * (n * n))) + (k * n)) + l = (i * (n * n * n)) + ((j * (n * n)) + ((k * n) + l))
          /\ (((i * (n * n * n)) + (j * (n * n))) + (k * n)) + l = (((i * n) + j) * (n * n)) + ((k * n) + l)
          /\ (((i * (n * n * n)) + (j * (n * n))) + (k * n)) + l = (((((i * n) + j) * n) + k) * n) + l
    OBVIOUS
  <2>2. p = Base * Base /\ q = Base * Base * Base /\ a \in Nat /\ b \in Nat /\ c \in Nat /\ d \in Nat /\ Base \in Nat
    BY <1>1
  <2> QED BY <1>2, <2>1, <2>2
<1>16. a \in Int /\ q \in Nat \ {0} /\ y \in 0 .. q - 1 /\ w = (a * q) + y
  BY <1>1, <1>4, <1>6
<1>17. u \in Int /\ p \in Nat \ {0} /\ x \in 0 .. p - 1 /\ w = (u * p) + x
  BY <1>1, <1>3, <1>6
<1>18. v \in Int /\ Base \in Nat \ {0} /\ d \in 0 .. Base - 1 /\ w = (v * Base) + d
  BY <1>1, <1>5, <1>6
<1>7. w \div q = a
  <2> HIDE DEF y
  <2> QED BY <1>16, QuotientRemainder
<1>8. w \div p = u
  <2> HIDE DEF x, u
  <2> QED BY <1>17, QuotientRemainder
<1>9. w \div Base = v /\ w % Base = d
  <2> HIDE DEF v
  <2> QED BY <1>18, QuotientRemainder
<1>10. u % Base = b
  <2>1. a \in Int /\ b \in 0 .. Base - 1 /\ Base \in Nat \ {0} /\ u = (a * Base) + b
    BY <1>1
  <2> HIDE DEF u
  <2> QED BY <2>1, QuotientRemainder
<1>11. v % Base = c
  <2>1. u \in Int /\ c \in 0 .. Base - 1 /\ Base \in Nat \ {0} /\ v = (u * Base) + c
    BY <1>1, <1>3
  <2> HIDE DEF u, v
  <2> QED BY <2>1, QuotientRemainder
<1>19. a % Base = a
  BY <1>1, Wrapping
<1>12. w \in 0 .. (p * p) - 1
  <2> HIDE DEF u, x
  <2> QED BY <1>1, <1>3, <1>6, Below
<1>13. w \div 1 = w
  BY <1>1, <1>12
<1> HIDE DEF u, v, x, y
<1>14. /\ (w \div Power(0)) % Base = d /\ (w \div Power(1)) % Base = c
       /\ (w \div Power(2)) % Base = b /\ (w \div Power(3)) % Base = a
  BY <1>7, <1>8, <1>9, <1>10, <1>11, <1>13, <1>19, PowerFacts DEF p, q
<1>15. w \in 0 .. Power(4) - 1
  BY <1>1, <1>12
<1> QED BY <1>14, <1>15 DEF w, Byte

\* Every word has its bytes.
LEMMA BytesOfTwo ==
  ASSUME NEW w \in 0 .. Power(2) - 1
  PROVE  \E a, b \in Bytes : w = Number2(a, b)
<1> DEFINE a == w \div Base
           b == w % Base
<1>1. /\ Base \in Nat \ {0} /\ Power(2) = Base * Base /\ Power(2) \in Nat
  BY BaseFacts, PowerFacts
<1>2. a \in Nat /\ b \in 0 .. Base - 1 /\ w = (Base * a) + b
  BY <1>1
<1> HIDE DEF a, b
<1>3. a < Base
  <2>1. \A i, n \in Nat : i >= n => n * i >= n * n
    OBVIOUS
  <2> QED BY <1>1, <1>2, <2>1
<1>4. Base * a = a * Base
  BY <1>1, <1>2
<1>5. w = (a * Base) + b /\ a \in Bytes /\ b \in Bytes
  BY <1>1, <1>2, <1>3, <1>4 DEF Bytes
<1> QED BY <1>5 DEF Number2

LEMMA BytesOfFour ==
  ASSUME NEW w \in 0 .. Power(4) - 1
  PROVE  \E a, b, c, d \in Bytes : w = Number4(a, b, c, d)
<1> DEFINE p == Power(2)
           u == w \div p
           x == w % p
<1>1. p \in Nat \ {0} /\ Power(4) = p * p /\ Power(4) \in Nat /\ Base \in Nat /\ p = Base * Base
      /\ Power(3) = p * Base
  BY BaseFacts, PowerFacts
<1> HIDE DEF p
<1>2. u \in Nat /\ x \in 0 .. p - 1 /\ w = (p * u) + x
  BY <1>1
<1> HIDE DEF u, x
<1>3. u < p
  <2>1. \A i, n \in Nat : i >= n => n * i >= n * n
    OBVIOUS
  <2> QED BY <1>1, <1>2, <2>1
<1>4. PICK a \in Bytes : \E b \in Bytes : u = Number2(a, b)
  BY <1>1, <1>2, <1>3, BytesOfTwo DEF p
<1>5. PICK b \in Bytes : u = (a * Base) + b
  BY <1>4 DEF Number2
<1>6. PICK c \in Bytes : \E d \in Bytes : x = Number2(c, d)
  BY <1>1, <1>2, BytesOfTwo DEF p
<1>7. PICK d \in Bytes : x = (c * Base) + d
  BY <1>6 DEF Number2
<1>8. w = (((a * Power(3)) + (b * Power(2))) + (c * Base)) + d
  <2>1. \A i, j, k, l, n \in Nat :
          ((n * n) * ((i * n) + j)) + ((k * n) + l) = (((i * ((n * n) * n)) + (j * (n * n))) + (k * n)) + l
    OBVIOUS
  <2>2. a \in Nat /\ b \in Nat /\ c \in Nat /\ d \in Nat
    BY <1>1 DEF Bytes
  <2>3. Power(2) = Base * Base /\ Power(3) = (Base * Base) * Base
    BY <1>1 DEF p
  <2> QED BY <1>1, <1>2, <1>5, <1>7, <2>1, <2>2, <2>3
<1> QED BY <1>8 DEF Number4

\* A word of the file that is read in the machine's order, and swapped if that is
\* the other one, is itself again.
LEMMA SwappedBack ==
  ASSUME NEW type \in Types \ {"double"}, NEW n \in Nat,
         NEW words \in [1 .. n -> 0 .. Count(type) - 1], type = "time" => n = 3,
         little_endian_order \in BOOLEAN
  PROVE  LET stored == [i \in DOMAIN words |-> Stored(words[i], WordSize(type))]
         IN  (IF little_endian_order THEN epr_swap_endian_order(type, stored) ELSE stored) = words
<1> DEFINE stored == [i \in DOMAIN words |-> Stored(words[i], WordSize(type))]
<1>1. CASE ~little_endian_order
  BY <1>1 DEF Stored
<1>2. CASE little_endian_order /\ WordSize(type) = 1
  <2>1. type \in {"uchar", "char", "string", "spare"}
    BY <1>2 DEF WordSize, Types, Numeric, Integer
  <2>2. epr_swap_endian_order(type, stored) = stored
    BY <2>1 DEF epr_swap_endian_order
  <2>3. stored = words
    BY <1>2 DEF Stored
  <2> QED BY <1>2, <2>2, <2>3
<1>3. CASE little_endian_order /\ WordSize(type) = 2
  <2>1. type \in {"ushort", "short"}
    BY <1>3 DEF WordSize, Types, Numeric, Integer
  <2>2. ASSUME NEW w \in 0 .. Power(2) - 1 PROVE byte_swap_short(Stored(w, 2)) = w
    <3>1. PICK a \in Bytes, b \in Bytes : w = Number2(a, b)
      BY BytesOfTwo
    <3>2. Stored(w, 2) = Number2(Byte(w, 0), Byte(w, 1))
      BY <1>3 DEF Stored
    <3>3. Stored(w, 2) = Number2(b, a)
      BY <3>1, <3>2, TwoBytes
    <3> QED BY <3>1, <3>3, TwoBytes DEF byte_swap_short
  <2>3. epr_swap_endian_order(type, stored) = [i \in DOMAIN stored |-> byte_swap_short(stored[i])]
    BY <2>1 DEF epr_swap_endian_order
  <2>4. Count(type) = Power(2)
    BY <1>3 DEF Count
  <2>5. \A i \in 1 .. n : stored[i] = Stored(words[i], 2)
    BY <1>3
  <2> HIDE DEF stored
  <2>6. DOMAIN stored = 1 .. n /\ DOMAIN words = 1 .. n
    BY DEF stored
  <2>7. [i \in DOMAIN stored |-> byte_swap_short(stored[i])] = words
    BY <2>2, <2>4, <2>5, <2>6
  <2> QED BY <1>3, <2>3, <2>7 DEF stored
<1>4. CASE little_endian_order /\ WordSize(type) = 4
  <2>1. type \in {"uint", "int", "float", "time"}
    BY <1>4 DEF WordSize, Types, Numeric, Integer
  <2>2. ASSUME NEW w \in 0 .. Power(4) - 1 PROVE byte_swap_int(Stored(w, 4)) = w
    <3>1. PICK a \in Bytes, b \in Bytes, c \in Bytes, d \in Bytes : w = Number4(a, b, c, d)
      BY BytesOfFour
    <3>2. Stored(w, 4) = Number4(Byte(w, 0), Byte(w, 1), Byte(w, 2), Byte(w, 3))
      BY <1>4 DEF Stored
    <3>3. Stored(w, 4) = Number4(d, c, b, a)
      BY <3>1, <3>2, FourBytes
    <3> QED BY <3>1, <3>3, FourBytes DEF byte_swap_int
  <2>3. epr_swap_endian_order(type, stored) = [i \in DOMAIN stored |-> byte_swap_int(stored[i])]
    <3>1. type = "time" => \A i \in DOMAIN stored : i <= 3
      OBVIOUS
    <3> HIDE DEF stored
    <3> QED BY <2>1, <3>1 DEF epr_swap_endian_order
  <2>4. Count(type) = Power(4)
    BY <1>4 DEF Count
  <2>5. \A i \in 1 .. n : stored[i] = Stored(words[i], 4)
    BY <1>4
  <2> HIDE DEF stored
  <2>6. DOMAIN stored = 1 .. n /\ DOMAIN words = 1 .. n
    BY DEF stored
  <2>7. [i \in DOMAIN stored |-> byte_swap_int(stored[i])] = words
    BY <2>2, <2>4, <2>5, <2>6
  <2> QED BY <1>4, <2>3, <2>7 DEF stored
<1>5. WordSize(type) \in {1, 2, 4}
  BY DEF WordSize, Types, Numeric, Integer
<1> QED BY <1>1, <1>2, <1>3, <1>4, <1>5

-----------------------------------------------------------------------------
(***************************************************************************)
(* Conversions.                                                            *)
(***************************************************************************)

Signed   == {"char", "short", "int"}
Unsigned == {"uchar", "ushort", "uint"}

Half(type) == Count(type) \div 2

\* What a word can be with a type.
Numbers(type) == IF type \in Signed THEN -Half(type) .. Half(type) - 1 ELSE 0 .. Count(type) - 1

LEMMA ViewFacts ==
  ASSUME NEW type \in Integer, NEW w \in 0 .. Count(type) - 1
  PROVE  \E x \in Numbers(type) :
           /\ View(type, w) = Whole(x)
           /\ IF type \in Signed /\ w >= Half(type) THEN x = w - Count(type) ELSE x = w
<1> DEFINE c == Count(type)
           h == Half(type)
<1>1. c \in Nat \ {0} /\ h \in Nat /\ c = 2 * h
  BY CountFacts DEF Half
<1>2. View(type, w) = IF type \in Signed /\ w >= h THEN Whole(w - (2 * h)) ELSE Whole(w)
  BY DEF View, Half, Signed, Integer
<1> HIDE DEF c, h
<1>3. w \in 0 .. c - 1 /\ w \in Int
  BY <1>1 DEF c
<1>4. CASE type \in Signed /\ w >= h
  <2>1. w - 2 * h \in -h .. h - 1 /\ w - 2 * h = w - c
    BY <1>1, <1>3, <1>4
  <2> QED BY <1>2, <1>4, <2>1 DEF Numbers, c, h
<1>5. CASE type \in Signed /\ ~(w >= h)
  <2>1. w \in -h .. h - 1
    BY <1>1, <1>3, <1>5
  <2> QED BY <1>2, <1>5, <2>1 DEF Numbers, c, h
<1>6. CASE type \notin Signed
  BY <1>2, <1>3, <1>6 DEF Numbers, c, h
<1> QED BY <1>4, <1>5, <1>6

\* A whole number that a type has is kept; one that is too small for an unsigned
\* type is wrapped.
LEMMA ConvertWhole ==
  ASSUME NEW target \in Integer, NEW x \in Int
  PROVE  /\ x \in Numbers(target) => Convert(Whole(x), target) = Whole(x)
         /\ target \in Unsigned /\ x \in -Count(target) .. -1 =>
              Convert(Whole(x), target) = Whole(x + Count(target))
<1> DEFINE c == Count(target)
           h == Half(target)
           y == x % c
<1>1. c \in Nat \ {0} /\ h \in Nat /\ c = 2 * h
  BY CountFacts DEF Half
<1>2. Convert(Whole(x), target) = View(target, y)
  <2>1. Whole(x)[1] = "whole" /\ Whole(x)[2] = x
    BY DEF Whole
  <2>2. target # "float"
    BY DEF Integer
  <2> QED BY <2>1, <2>2 DEF Convert
<1>3. /\ x \in 0 .. c - 1 => y = x
      /\ x \in -c .. -1 => y = x + c
  <2> HIDE DEF c
  <2> QED BY <1>1, Wrapping
<1> HIDE DEF c, h, y
<1>4. y \in 0 .. c - 1 =>
        View(target, y) = IF target \in Signed /\ y >= h THEN Whole(y - c) ELSE Whole(y)
  BY <1>1, ViewFacts DEF c, h
<1>5. ASSUME target \in Unsigned
      PROVE  /\ x \in 0 .. c - 1 => Convert(Whole(x), target) = Whole(x)
             /\ x \in -c .. -1 => Convert(Whole(x), target) = Whole(x + c)
  <2>1. target \notin Signed
    BY <1>5 DEF Signed, Unsigned
  <2>2. x \in -c .. -1 => x + c \in 0 .. c - 1
    BY <1>1
  <2> QED BY <1>2, <1>3, <1>4, <2>1, <2>2
<1>6. ASSUME target \in Signed, x \in -h .. h - 1 PROVE Convert(Whole(x), target) = Whole(x)
  <2>1. CASE x >= 0
    <3>1. x \in 0 .. c - 1 /\ ~(x >= h)
      BY <1>1, <1>6, <2>1
    <3> QED BY <1>2, <1>3, <1>4, <3>1
  <2>2. CASE x < 0
    <3>1. x \in -c .. -1 /\ x + c >= h /\ x + c \in 0 .. c - 1 /\ (x + c) - c = x
      BY <1>1, <1>6, <2>2
    <3> QED BY <1>2, <1>3, <1>4, <1>6, <3>1
  <2> QED BY <2>1, <2>2
<1>7. target \in Signed \/ target \in Unsigned
  BY DEF Integer, Signed, Unsigned
<1>8. Signed \cap Unsigned = {}
  BY DEF Signed, Unsigned
<1> QED BY <1>5, <1>6, <1>7, <1>8 DEF Numbers, c, h

\* What the ranges have to do with each other.
LEMMA RangeFacts ==
  /\ Count("uchar") = Base /\ Count("char") = Base
  /\ Count("ushort") = Power(2) /\ Count("short") = Power(2)
  /\ Count("uint") = Power(4) /\ Count("int") = Power(4)
  /\ Half("char") \in Nat /\ Base = 2 * Half("char")
  /\ Half("short") \in Nat /\ Power(2) = 2 * Half("short")
  /\ Half("int") \in Nat /\ Power(4) = 2 * Half("int")
  /\ Base \in Nat /\ Power(2) \in Nat /\ Power(4) \in Nat
  /\ Base >= 2 /\ Base <= Half("short") /\ Power(2) <= Half("int")
<1>1. /\ Count("uchar") = Base /\ Count("char") = Base
      /\ Count("ushort") = Power(2) /\ Count("short") = Power(2)
      /\ Count("uint") = Power(4) /\ Count("int") = Power(4)
  BY PowerFacts DEF Count, WordSize
<1>2. \A t \in {"char", "short", "int"} : Half(t) \in Nat /\ Count(t) = 2 * Half(t)
  BY CountFacts DEF Half, Integer
<1> QED BY <1>1, <1>2, BaseFacts, PowerFacts

\* The numbers of a type that epr_get_field_elem_as_<target> takes
\* are numbers of the target, or less than one range too small for it.
LEMMA Offered ==
  ASSUME NEW target \in Integer, NEW type \in ElemTypes(target), NEW x \in Numbers(type)
  PROVE  /\ x \in Numbers(target) \/ (target \in Unsigned /\ x \in -Count(target) .. -1)
         /\ x \in Int
<1> DEFINE hc == Half("char")
           hs == Half("short")
           hi == Half("int")
           p == Power(2)
           q == Power(4)
<1>1. /\ Numbers("uchar") = 0 .. Base - 1 /\ Numbers("char") = -hc .. hc - 1
      /\ Numbers("ushort") = 0 .. p - 1 /\ Numbers("short") = -hs .. hs - 1
      /\ Numbers("uint") = 0 .. q - 1 /\ Numbers("int") = -hi .. hi - 1
  BY RangeFacts DEF Numbers, Signed
<1>2. /\ hc \in Nat /\ Base = 2 * hc /\ hs \in Nat /\ p = 2 * hs /\ hi \in Nat /\ q = 2 * hi
      /\ Base >= 2 /\ Base <= hs /\ p <= hi
      /\ Base \in Int /\ p \in Int /\ q \in Int
  BY RangeFacts
<1>3. type \in Integer
  BY DEF ElemTypes, Integer
<1>4. /\ Count("uchar") = Base /\ Count("ushort") = p /\ Count("uint") = q
      /\ Unsigned = {"uchar", "ushort", "uint"}
  BY RangeFacts DEF Unsigned
<1> HIDE DEF hc, hs, hi, p, q
<1>5. x \in Int
  <2>1. \A t \in Integer : Numbers(t) \subseteq Int
    <3> SUFFICES ASSUME NEW t \in Integer PROVE Numbers(t) \subseteq Int
      OBVIOUS
    <3>1. CASE t \in {"uchar", "char", "ushort"}
      BY <1>1, <1>2, <3>1
    <3>2. CASE t \in {"short", "uint", "int"}
      BY <1>1, <1>2, <3>2
    <3> QED BY <3>1, <3>2 DEF Integer
  <2> QED BY <1>3, <2>1
<1>6. CASE target \in {"uchar", "char"}
  <2>1. type = target
    BY <1>6 DEF ElemTypes
  <2> QED BY <1>5, <2>1
<1>7. CASE target \in {"short", "int"}
  <2>1. type = target \/ x \in 0 .. Base - 1 \/ x \in -hc .. hc - 1
        \/ (target = "int" /\ (x \in 0 .. p - 1 \/ x \in -hs .. hs - 1))
    BY <1>1, <1>7 DEF ElemTypes
  <2>2. x \in Numbers(target)
    <3>1. CASE type = target
      BY <3>1
    <3>2. CASE type # target /\ target = "short"
      BY <1>1, <1>2, <1>5, <2>1, <3>2
    <3>3. CASE type # target /\ target = "int"
      BY <1>1, <1>2, <1>5, <2>1, <3>3
    <3> QED BY <1>7, <3>1, <3>2, <3>3
  <2> QED BY <1>5, <2>2
<1>8. CASE target \in {"ushort", "uint"}
  <2>1. type = target \/ x \in 0 .. Base - 1 \/ x \in -hc .. hc - 1
        \/ (target = "uint" /\ (x \in 0 .. p - 1 \/ x \in -hs .. hs - 1))
    BY <1>1, <1>8 DEF ElemTypes
  <2>2. CASE type = target
    BY <1>5, <2>2
  <2>3. CASE type # target /\ target = "ushort"
    <3>1. x \in 0 .. p - 1 \/ x \in -p .. -1
      BY <1>2, <1>5, <2>1, <2>3
    <3> QED BY <1>1, <1>4, <1>5, <2>3, <3>1
  <2>4. CASE type # target /\ target = "uint"
    <3>1. x \in 0 .. q - 1 \/ x \in -q .. -1
      BY <1>2, <1>5, <2>1, <2>4
    <3> QED BY <1>1, <1>4, <1>5, <2>4, <3>1
  <2> QED BY <1>8, <2>2, <2>3, <2>4
<1> QED BY <1>6, <1>7, <1>8 DEF Integer

\* The number a caller should get for word w of a type.
Kept(type, w, target, got) ==
  LET v == View(type, w)
  IN  IF v[1] = "whole" /\ v[2] < 0 /\ target \in Unsigned
      THEN got = Whole(v[2] + Count(target))
      ELSE IF target = "float" /\ ~HasFloat(v) THEN got = Rounded(v)
      ELSE got = v

LEMMA FloatingView ==
  ASSUME NEW type \in {"float", "double"}, NEW w
  PROVE  /\ View(type, w) = Floating(type, w) /\ Floating(type, w)[1] = type
         /\ type = "float" => HasFloat(Floating(type, w))
  BY DEF View, Floating, HasFloat

\* The types that are taken for a number.
LEMMA OfferedTypes ==
  ASSUME NEW target \in Numeric, NEW type \in ElemTypes(target)
  PROVE  type \in Numeric /\ (target \in Integer => type \in Integer)
  BY DEF ElemTypes, Numeric, Integer

LEMMA ElemKept ==
  ASSUME NEW target \in Numeric, NEW type \in ElemTypes(target), NEW w \in 0 .. Count(type) - 1
  PROVE  Kept(type, w, target, Convert(View(type, w), target))
<1> DEFINE v == View(type, w)
<1>1. type \in Numeric /\ (target \in Integer => type \in Integer)
  BY OfferedTypes
<1>2. CASE type \in Integer
  <2>1. PICK x \in Numbers(type) : v = Whole(x)
    BY <1>2, ViewFacts
  <2>2. Whole(x)[1] = "whole" /\ Whole(x)[2] = x
    BY DEF Whole
  <2> HIDE DEF v
  <2>3. CASE target \in Integer
    <3>1. /\ x \in Numbers(target) \/ (target \in Unsigned /\ x \in -Count(target) .. -1)
          /\ x \in Int
      BY <2>3, Offered
    <3>2. CASE x \in Numbers(target)
      <4>1. Convert(Whole(x), target) = Whole(x)
        BY <2>3, <3>1, <3>2, ConvertWhole
      <4>2. ~(x < 0 /\ target \in Unsigned)
        <5>1. target \in Unsigned => Numbers(target) = 0 .. Count(target) - 1 /\ Count(target) \in Nat
          BY <2>3, CountFacts DEF Numbers, Signed, Unsigned
        <5> QED BY <3>1, <3>2, <5>1
      <4>3. target # "float"
        BY <2>3 DEF Integer
      <4> QED BY <2>1, <2>2, <4>1, <4>2, <4>3 DEF Kept, v
    <3>3. CASE target \in Unsigned /\ x \in -Count(target) .. -1
      <4>1. Convert(Whole(x), target) = Whole(x + Count(target))
        BY <2>3, <3>1, <3>3, ConvertWhole
      <4>2. x < 0
        BY <2>3, <3>3, CountFacts
      <4> QED BY <2>1, <2>2, <3>3, <4>1, <4>2 DEF Kept, v
    <3> QED BY <3>1, <3>2, <3>3
  <2>4. CASE target \notin Integer
    <3>1. target \notin Unsigned
      BY <2>4 DEF Integer, Unsigned
    <3>2. Convert(Whole(x), target) =
            IF target = "float" /\ ~HasFloat(Whole(x)) THEN Rounded(Whole(x)) ELSE Whole(x)
      BY <2>2, <2>4 DEF Convert
    <3> QED BY <2>1, <3>1, <3>2 DEF Kept, v
  <2> QED BY <2>3, <2>4
<1>3. CASE type \notin Integer
  <2>1. type \in {"float", "double"} /\ target \notin Integer
    BY <1>1, <1>3 DEF Numeric
  <2>2. v = Floating(type, w) /\ Floating(type, w)[1] # "whole"
    BY <2>1, FloatingView
  <2>3. target = "float" => HasFloat(v)
    <3>1. target = "float" => type = "float"
      BY <2>1 DEF ElemTypes, Integer
    <3> QED BY <2>1, <3>1, FloatingView DEF v
  <2> HIDE DEF v
  <2>4. Convert(v, target) = v
    BY <2>1, <2>2, <2>3 DEF Convert
  <2> QED BY <2>2, <2>3, <2>4 DEF Kept, v
<1> QED BY <1>2, <1>3

\* Copying sees a field of type int as one of type uint for the type uint.
LEMMA CopyKept ==
  ASSUME NEW target \in {"double", "float", "int", "uint"}, NEW type \in CopyTypes(target),
         NEW w \in 0 .. Count(type) - 1
  PROVE  Kept(type, w, target, Convert(View(CopyView(type, target), w), target))
<1>1. CASE ~(target = "uint" /\ type = "int")
  <2>1. type \in ElemTypes(target) /\ target \in Numeric /\ CopyView(type, target) = type
    BY <1>1 DEF CopyTypes, ElemTypes, CopyView, Numeric, Integer
  <2> QED BY <2>1, ElemKept
<1>2. CASE target = "uint" /\ type = "int"
  <2> DEFINE c == Power(4)
             h == Half("int")
  <2>1. /\ Count("int") = c /\ Count("uint") = c /\ c \in Nat /\ h \in Nat /\ c = 2 * h /\ w \in 0 .. c - 1
    BY <1>2, RangeFacts
  <2>2. PICK x \in Numbers("int") : View("int", w) = Whole(x) /\ (IF w >= h THEN x = w - c ELSE x = w)
    BY <1>2, <2>1, ViewFacts DEF Signed, Integer
  <2>3. PICK y \in Numbers("uint") : View("uint", w) = Whole(y) /\ y = w
    BY <1>2, <2>1, ViewFacts DEF Signed, Integer
  <2>4. Whole(x)[1] = "whole" /\ Whole(x)[2] = x
    BY DEF Whole
  <2>5. Convert(Whole(w), "uint") = Whole(w)
    BY <2>1, <2>3, ConvertWhole DEF Integer
  <2> HIDE DEF c, h
  <2>6. IF x < 0 THEN w = x + c ELSE w = x
    BY <2>1, <2>2
  <2>7. CopyView(type, target) = "uint" /\ "uint" \in Unsigned
    BY <1>2 DEF CopyView, Unsigned
  <2> QED BY <1>2, <2>1, <2>2, <2>3, <2>4, <2>5, <2>6, <2>7 DEF Kept
<1> QED BY <1>1, <1>2

\* A pixel whose number the type asked for has.
LEMMA PixelKept ==
  ASSUME NEW target \in {"uint", "int", "float", "double"}, NEW type \in Numeric,
         NEW w \in 0 .. Count(type) - 1, InRange(View(type, w), target)
  PROVE  Convert(View(type, w), target) = View(type, w)
<1> DEFINE v == View(type, w)
<1>0. CASE target \notin Integer
  <2>1. target \in {"float", "double"} /\ (target = "float" => HasFloat(v))
    BY <1>0 DEF Integer, InRange
  <2> HIDE DEF v
  <2>2. Convert(v, target) = v
    BY <1>0, <2>1 DEF Convert
  <2> QED BY <2>2 DEF v
<1> HIDE DEF v
<1> SUFFICES ASSUME target \in Integer PROVE Convert(View(type, w), target) = View(type, w)
  BY <1>0
<1>1. type \in Integer
  <2>1. View(type, w)[1] = "whole"
    BY DEF InRange, Integer
  <2> QED BY <2>1, FloatingView DEF Numeric
<1>2. PICK x \in Numbers(type) : View(type, w) = Whole(x)
  BY <1>1, ViewFacts
<1>3. Whole(x)[1] = "whole" /\ Whole(x)[2] = x
  BY DEF Whole
<1>5. Convert(View(type, w), target) = View(type, w)
  <2> DEFINE h == Half("int")
             c == Power(4)
  <2>1. /\ h \in Nat /\ c = 2 * h /\ c \in Nat
        /\ Numbers("int") = -h .. h - 1 /\ Numbers("uint") = 0 .. c - 1
    BY RangeFacts DEF Numbers, Signed
  <2>2. x \in -h .. c - 1
    <3>1. type \in ElemTypes("int") => x \in Numbers("int")
      BY Offered DEF Unsigned, Integer
    <3>2. type \in ElemTypes("int") \/ type = "uint"
      BY <1>1 DEF ElemTypes, Integer
    <3> HIDE DEF h, c
    <3> QED BY <2>1, <3>1, <3>2
  <2>3. target = "int" => x < h
    BY <1>2, <1>3 DEF InRange, Half
  <2>4. target = "uint" => x >= 0
    BY <1>2, <1>3 DEF InRange
  <2>5. x \in Numbers(target) /\ x \in Int
    <3>1. target \in {"int", "uint"}
      BY DEF Integer
    <3> HIDE DEF h, c
    <3> QED BY <2>1, <2>2, <2>3, <2>4, <3>1
  <2> QED BY <1>2, <2>5, ConvertWhole
<1> QED BY <1>5

-----------------------------------------------------------------------------
(***************************************************************************)
(* The inductive invariant.                                                *)
(***************************************************************************)

\* The words of a field of a type.
Fields(type) == UNION {[1 .. n -> Words(type)] : n \in Lengths(type)}

\* A field has the words of the file, and a raster the elements of the field.
Held ==
  /\ little_endian_order \in BOOLEAN
  /\ \/ field = NULL /\ raster = NULL
     \/ /\ \E type \in Types : source \in Fields(type) /\ field = [type |-> type, elems |-> source]
        /\ raster = NULL \/ (raster = field /\ field.type \in Numeric)

LEMMA FieldsType ==
  ASSUME NEW type \in Types, NEW words \in Fields(type)
  PROVE  \E n \in Nat : words \in [1 .. n -> 0 .. Count(type) - 1] /\ (type = "time" => n = 3)
<1>1. PICK n \in Lengths(type) : words \in [1 .. n -> Words(type)]
  BY DEF Fields
<1>2. n \in Nat /\ (type = "time" => n = 3)
  BY MaxElemsAssumption DEF Lengths
<1>3. Words(type) \subseteq 0 .. Count(type) - 1
  BY TimeWordsAssumption DEF Words
<1> QED BY <1>1, <1>2, <1>3

\* What is there when a field of a type has been read.
LEMMA FieldFacts ==
  ASSUME Held, field.type \in Types
  PROVE  /\ field.elems = source
         /\ source \in Seq(0 .. Count(field.type) - 1)
         /\ Len(source) \in Nat /\ DOMAIN source = 1 .. Len(source)
         /\ \A i \in 1 .. Len(source) : source[i] \in 0 .. Count(field.type) - 1
         /\ field.type # "time" => NumElems = Len(source)
         /\ field.type = "time" => Len(source) = 3
<1>1. field # NULL
  BY DEF NULL, Types, Numeric, Integer
<1>2. PICK type \in Types : source \in Fields(type) /\ field = [type |-> type, elems |-> source]
  BY <1>1 DEF Held
<1>3. PICK n \in Nat : source \in [1 .. n -> 0 .. Count(type) - 1] /\ (type = "time" => n = 3)
  BY <1>2, FieldsType
<1>4. source \in Seq(0 .. Count(type) - 1) /\ Len(source) = n
  <2> DEFINE S == 0 .. Count(type) - 1
  <2>1. n \in Nat /\ source \in [1 .. n -> S]
    BY <1>3
  <2> HIDE DEF S
  <2>2. source \in Seq(S) /\ Len(source) = n
    BY <2>1
  <2> QED BY <2>2 DEF S
<1>5. field.type = type /\ field.elems = source
  BY <1>2
<1>6. type # "time" => Len(source) \div WordsPer(type) = Len(source)
  BY <1>4 DEF WordsPer
<1> QED BY <1>3, <1>4, <1>5, <1>6 DEF NumElems

LEMMA InitHeld == Init => Held
  BY DEF Init, Held

LEMMA ReturnHeld ==
  ASSUME Held, UNCHANGED <<little_endian_order, field, raster, source>>
  PROVE  Held'
  BY DEF Held

LEMMA ReadFieldHeld ==
  ASSUME Held, NEW type \in FileTypes, NEW words \in Fields(type), ReadField(type, words)
  PROVE  Held'
<1>1. type \in Types \ {"double"}
  BY FileTypesAssumption
<1>2. PICK n \in Nat : words \in [1 .. n -> 0 .. Count(type) - 1] /\ (type = "time" => n = 3)
  BY <1>1, FieldsType
<1> DEFINE stored == [i \in DOMAIN words |-> Stored(words[i], WordSize(type))]
           elems == IF little_endian_order THEN epr_swap_endian_order(type, stored) ELSE stored
<1>3. elems = words
  BY <1>1, <1>2, SwappedBack DEF Held
<1>4. field' = [type |-> type, elems |-> elems] /\ source' = words
      /\ field = NULL /\ UNCHANGED <<little_endian_order, raster>>
  BY DEF ReadField
<1> HIDE DEF elems
<1>5. raster = NULL
  BY <1>1, <1>4 DEF Held, NULL, Types, Numeric, Integer
<1> QED BY <1>1, <1>3, <1>4, <1>5 DEF Held

LEMMA ParseFieldHeld ==
  ASSUME Held, NEW w \in Words("double"), ParseField(<<w>>)
  PROVE  Held'
<1>1. <<w>> \in Fields("double")
  <2>1. 1 \in Lengths("double") /\ <<w>> \in [1 .. 1 -> Words("double")]
    BY DEF Lengths
  <2> QED BY <2>1 DEF Fields
<1>2. /\ field' = [type |-> "double", elems |-> <<w>>] /\ source' = <<w>>
      /\ field = NULL /\ UNCHANGED <<little_endian_order, raster>>
  BY DEF ParseField
<1>3. raster = NULL
  BY <1>2 DEF Held, NULL, Types, Numeric, Integer
<1> QED BY <1>1, <1>2, <1>3 DEF Held, Types, Numeric

LEMMA DecodeLineHeld == ASSUME Held, DecodeLine PROVE Held'
<1>1. field # NULL /\ raster' = field /\ field.type \in Numeric
      /\ UNCHANGED <<little_endian_order, field, source>>
  BY DEF DecodeLine, NULL, Numeric, Integer
<1> QED BY <1>1 DEF Held

-----------------------------------------------------------------------------
(***************************************************************************)
(* What a call returns.                                                    *)
(***************************************************************************)

\* The elements of a field are kept.
LEMMA FaithfulKept ==
  ASSUME NEW i, NEW target, NEW got, Kept(field.type, source[i], target, got)
  PROVE  Faithful(i, target, got)
  BY DEF Kept, Faithful, Unsigned

LEMMA GetElemFaithful ==
  ASSUME Held, NEW target \in Numeric, NEW i \in Nat, GetElem(target, i), ~err'
  PROVE  Faithful(i + 1, target, result'.values[1])
<1> DEFINE found == ElemAs(target, i)
           w == source[i + 1]
<1>1. found # << >> /\ result'.values = found
  BY DEF GetElem, Return
<1>2. /\ i < NumElems /\ field.type \in ElemTypes(target)
      /\ found = <<Convert(View(field.type, field.elems[i + 1]), target)>>
  BY <1>1 DEF ElemAs
<1>3. field.type \in Numeric
  BY <1>2, OfferedTypes
<1>4. field.elems = source /\ w \in 0 .. Count(field.type) - 1
  <2>1. field.type \in Types /\ field.type # "time"
    BY <1>3 DEF Types, Numeric, Integer
  <2> QED BY <1>2, <2>1, FieldFacts
<1>5. Kept(field.type, w, target, Convert(View(field.type, w), target))
  BY <1>2, <1>4, ElemKept
<1>6. result'.values[1] = Convert(View(field.type, w), target)
  BY <1>1, <1>2, <1>4
<1> QED BY <1>5, <1>6, FaithfulKept

LEMMA CopyFaithful ==
  ASSUME Held, NEW target \in {"double", "float", "int", "uint"}, NEW n \in Nat,
         CopyElems(target, n), ~err'
  PROVE  /\ Len(result'.values) = (IF NumElems < n THEN NumElems ELSE n)
         /\ \A i \in DOMAIN result'.values : Faithful(i, target, result'.values[i])
<1> DEFINE m == IF NumElems < n THEN NumElems ELSE n
<1>1. field.type \in CopyTypes(target) /\ result'.values = CopyAs(target, n)
  BY DEF CopyElems, Return
<1>2. field.type \in Types /\ field.type # "time"
  BY <1>1 DEF CopyTypes, Types, Numeric, Integer
<1>3. /\ field.elems = source /\ NumElems = Len(source) /\ Len(source) \in Nat
      /\ \A i \in 1 .. Len(source) : source[i] \in 0 .. Count(field.type) - 1
  BY <1>2, FieldFacts
<1>4. m \in Nat /\ m <= Len(source)
  BY <1>3
<1>5. CopyAs(target, n) = [i \in 1 .. m |-> Convert(View(CopyView(field.type, target), source[i]), target)]
  BY <1>1, <1>3 DEF CopyAs
<1> HIDE DEF m
<1>6. Len(CopyAs(target, n)) = m /\ DOMAIN CopyAs(target, n) = 1 .. m
  BY <1>4, <1>5
<1>7. ASSUME NEW i \in 1 .. m PROVE Faithful(i, target, CopyAs(target, n)[i])
  <2>1. source[i] \in 0 .. Count(field.type) - 1
    BY <1>3, <1>4
  <2>2. Kept(field.type, source[i], target, Convert(View(CopyView(field.type, target), source[i]), target))
    BY <1>1, <2>1, CopyKept
  <2>3. CopyAs(target, n)[i] = Convert(View(CopyView(field.type, target), source[i]), target)
    BY <1>5
  <2> QED BY <2>2, <2>3, FaithfulKept
<1> QED BY <1>1, <1>6, <1>7 DEF m

LEMMA PixelFaithful ==
  ASSUME Held, NEW target \in {"uint", "int", "float", "double"}, NEW x \in Nat, GetPixel(target, x)
  PROVE  LET v == View(field.type, source[x + 1])
         IN  InRange(v, target) => result'.values = <<v>>
<1> DEFINE w == source[x + 1]
           v == View(field.type, w)
<1>1. raster # NULL /\ x < Len(raster.elems) /\ result'.values = <<Convert(View(raster.type, raster.elems[x + 1]), target)>>
  BY DEF GetPixel, Return
<1>2. raster = field /\ field.type \in Numeric
  BY <1>1 DEF Held
<1>3. field.elems = source /\ w \in 0 .. Count(field.type) - 1
  <2>1. field.type \in Types
    BY <1>2 DEF Types
  <2>2. x + 1 \in 1 .. Len(source) /\ field.elems = source
    BY <1>1, <1>2, <2>1, FieldFacts
  <2> QED BY <2>1, <2>2, FieldFacts
<1>4. InRange(v, target) => Convert(v, target) = v
  BY <1>2, <1>3, PixelKept
<1>5. result'.values = <<Convert(v, target)>>
  BY <1>1, <1>2, <1>3
<1> QED BY <1>4, <1>5

LEMMA ViewsOfFile ==
  ASSUME Held, field.type \in Types
  PROVE  Views = [i \in DOMAIN source |-> View(field.type, source[i])]
  BY FieldFacts DEF Views

\* A step that is no call has nothing to say, and a call something about itself.
LEMMA NothingReturned ==
  ASSUME result' = Nothing
  PROVE  ValuesOfFile'
  BY DEF ValuesOfFile, Nothing

LEMMA FaithfulStays ==
  ASSUME UNCHANGED <<field, source>>, NEW i, NEW target, NEW got, Faithful(i, target, got)
  PROVE  Faithful(i, target, got)'
  BY DEF Faithful

LEMMA CallReturned ==
  ASSUME Held, NEW call, NEW target, NEW at, NEW failed, NEW values, Return(call, target, at, failed, values),
         call = "elem" /\ ~failed => Faithful(at + 1, target, values[1]),
         call = "copy" /\ ~failed => /\ Len(values) = (IF NumElems < at THEN NumElems ELSE at)
                                     /\ \A i \in DOMAIN values : Faithful(i, target, values[i]),
         call \in {"elems", "str"} /\ ~failed => values = [i \in DOMAIN source |-> View(field.type, source[i])],
         call = "mjd" /\ ~failed =>
           \A i \in 1 .. 3 : values[i] = View(IF i = 1 THEN "int" ELSE "uint", source[i]),
         call = "pixel" /\ ~failed =>
           LET v == View(field.type, source[at + 1])
           IN  InRange(v, target) => values = <<v>>
  PROVE  ValuesOfFile'
<1>1. /\ err' = failed /\ UNCHANGED <<field, source>>
      /\ result'.call = call /\ result'.target = target /\ result'.at = at /\ result'.values = values
  BY DEF Return
<1>2. NumElems' = NumElems
  BY <1>1 DEF NumElems
<1> SUFFICES ASSUME ~failed PROVE ValuesOfFile'
  BY <1>1 DEF ValuesOfFile
<1>3. CASE call = "elem"
  <2>1. Faithful(at + 1, target, values[1])'
    BY <1>1, <1>3, FaithfulStays
  <2> QED BY <1>1, <1>3, <2>1 DEF ValuesOfFile
<1>4. CASE call = "copy"
  <2>1. \A i \in DOMAIN values : Faithful(i, target, values[i])'
    BY <1>1, <1>4, FaithfulStays
  <2> QED BY <1>1, <1>2, <1>4, <2>1 DEF ValuesOfFile
<1>5. CASE call \in {"elems", "str"}
  BY <1>1, <1>5 DEF ValuesOfFile
<1>6. CASE call = "mjd"
  BY <1>1, <1>6 DEF ValuesOfFile
<1>7. CASE call = "pixel"
  BY <1>1, <1>7 DEF ValuesOfFile
<1>8. CASE call \notin {"elem", "copy", "elems", "str", "mjd", "pixel"}
  BY <1>1, <1>8 DEF ValuesOfFile
<1> QED BY <1>3, <1>4, <1>5, <1>6, <1>7, <1>8

LEMMA GetElemsValues == ASSUME Held, NEW target \in Numeric, GetElems(target) PROVE ValuesOfFile'
<1>1. field.type = target => Views = [i \in DOMAIN source |-> View(field.type, source[i])]
  BY ViewsOfFile DEF Types
<1> QED BY <1>1, CallReturned DEF GetElems

LEMMA GetStringValues == ASSUME Held, GetString PROVE ValuesOfFile'
<1>1. field.type = "string" => Views = [i \in DOMAIN source |-> View(field.type, source[i])]
  BY ViewsOfFile DEF Types
<1> QED BY <1>1, CallReturned DEF GetString

LEMMA GetTimeValues == ASSUME Held, GetTime PROVE ValuesOfFile'
<1>1. field.type = "time" => field.elems = source
  BY FieldFacts DEF Types
<1> QED BY <1>1, CallReturned DEF GetTime

LEMMA GetElemValues == ASSUME Held, NEW target \in Numeric, NEW i \in Nat, GetElem(target, i) PROVE ValuesOfFile'
<1> DEFINE found == ElemAs(target, i)
           values == IF found = << >> THEN <<Whole(0)>> ELSE found
           failed == found = << >>
<1>1. Return("elem", target, i, failed, values)
  BY DEF GetElem
<1>2. ~failed => Faithful(i + 1, target, values[1])
  <2>1. err' = failed /\ result'.values = values
    BY <1>1 DEF Return
  <2> QED BY <2>1, GetElemFaithful
<1> HIDE DEF values, failed
<1> QED BY <1>1, <1>2, CallReturned

LEMMA CopyElemsValues ==
  ASSUME Held, NEW target \in {"double", "float", "int", "uint"}, NEW n \in Nat, CopyElems(target, n)
  PROVE  ValuesOfFile'
<1> DEFINE values == CopyAs(target, n)
           failed == field.type \notin CopyTypes(target)
<1>1. Return("copy", target, n, failed, values)
  BY DEF CopyElems
<1>2. ~failed => /\ Len(values) = (IF NumElems < n THEN NumElems ELSE n)
                 /\ \A i \in DOMAIN values : Faithful(i, target, values[i])
  <2>1. err' = failed /\ result'.values = values
    BY <1>1 DEF Return
  <2> QED BY <2>1, CopyFaithful
<1> HIDE DEF values, failed
<1> QED BY <1>1, <1>2, CallReturned

LEMMA GetPixelValues ==
  ASSUME Held, NEW target \in {"uint", "int", "float", "double"}, NEW x \in Nat, GetPixel(target, x)
  PROVE  ValuesOfFile'
<1> DEFINE values == <<Convert(View(raster.type, raster.elems[x + 1]), target)>>
<1>1. Return("pixel", target, x, FALSE, values) /\ result'.values = values
  BY DEF GetPixel, Return
<1>2. LET v == View(field.type, source[x + 1])
      IN  InRange(v, target) => values = <<v>>
  BY <1>1, PixelFaithful
<1> HIDE DEF values
<1> QED BY <1>1, <1>2, CallReturned

-----------------------------------------------------------------------------
(***************************************************************************)
(* Theorems.                                                               *)
(***************************************************************************)

\* A field holds what is in the file, and so does a line of pixels.
LEMMA NextHeld == ASSUME Held, Next PROVE Held' /\ ValuesOfFile'
<1>1. ASSUME NEW type \in FileTypes, NEW n \in Lengths(type), NEW words \in [1 .. n -> Words(type)],
             ReadField(type, words)
      PROVE  Held' /\ ValuesOfFile'
  <2>1. words \in Fields(type)
    BY DEF Fields
  <2>2. result' = Nothing
    BY <1>1 DEF ReadField
  <2> QED BY <1>1, <2>1, <2>2, ReadFieldHeld, NothingReturned
<1>2. ASSUME NEW w \in Words("double"), ParseField(<<w>>) PROVE Held' /\ ValuesOfFile'
  <2>1. result' = Nothing
    BY <1>2 DEF ParseField
  <2> QED BY <1>2, <2>1, ParseFieldHeld, NothingReturned
<1>3. CASE DecodeLine
  <2>1. result' = Nothing
    BY <1>3 DEF DecodeLine
  <2> QED BY <1>3, <2>1, DecodeLineHeld, NothingReturned
<1>4. ASSUME NEW target \in Numeric, NEW i \in 0 .. MaxElems, GetElem(target, i) PROVE Held' /\ ValuesOfFile'
  <2>1. Held'
    BY <1>4, ReturnHeld DEF GetElem, Return
  <2>2. i \in Nat
    BY MaxElemsAssumption
  <2> QED BY <1>4, <2>1, <2>2, GetElemValues
<1>5. ASSUME NEW target \in Numeric, GetElems(target) PROVE Held' /\ ValuesOfFile'
  <2>1. Held'
    BY <1>5, ReturnHeld DEF GetElems, Return
  <2> QED BY <1>5, <2>1, GetElemsValues
<1>6. CASE GetTime
  <2>1. Held'
    BY <1>6, ReturnHeld DEF GetTime, Return
  <2> QED BY <1>6, <2>1, GetTimeValues
<1>7. CASE GetString
  <2>1. Held'
    BY <1>7, ReturnHeld DEF GetString, Return
  <2> QED BY <1>7, <2>1, GetStringValues
<1>8. ASSUME NEW target \in {"double", "float", "int", "uint"}, NEW n \in 1 .. MaxElems + 1, CopyElems(target, n)
      PROVE  Held' /\ ValuesOfFile'
  <2>1. Held'
    BY <1>8, ReturnHeld DEF CopyElems, Return
  <2>2. n \in Nat
    BY MaxElemsAssumption
  <2> QED BY <1>8, <2>1, <2>2, CopyElemsValues
<1>9. ASSUME NEW target \in {"uint", "int", "float", "double"}, NEW x \in 0 .. MaxElems - 1, GetPixel(target, x)
      PROVE  Held' /\ ValuesOfFile'
  <2>1. Held'
    BY <1>9, ReturnHeld DEF GetPixel, Return
  <2>2. x \in Nat
    BY MaxElemsAssumption
  <2> QED BY <1>9, <2>1, <2>2, GetPixelValues
<1> QED BY <1>1, <1>2, <1>3, <1>4, <1>5, <1>6, <1>7, <1>8, <1>9 DEF Next

LEMMA Invariance == Spec => [](Held /\ ValuesOfFile)
<1>1. Init => Held /\ ValuesOfFile
  BY InitHeld DEF Init, ValuesOfFile, Nothing
<1>2. ASSUME Held /\ ValuesOfFile, [Next]_vars PROVE (Held /\ ValuesOfFile)'
  <2>1. CASE UNCHANGED vars
    BY <1>2, <2>1 DEF vars, Held, ValuesOfFile, Faithful, NumElems
  <2> QED BY <1>2, <2>1, NextHeld
<1> QED BY <1>1, <1>2, PTL DEF Spec

\* On machines of both byte orders, whatever number of values a byte has, every
\* call that does not fail returns the numbers that are in the file
\* (epr_swap.c:43-229, epr_typconv.c:41-902, epr_bitmask.c:735-838).
THEOREM ValuesAreOfFile == Spec => []ValuesOfFile
  BY Invariance, PTL

\* Copying a field and asking for each of its elements give the same, for fields
\* of any type and length, but for the type uint and fields of type int or uint,
\* where one of them refuses what the other gives (epr_typconv.c:291-559, 657-902).
THEOREM CopiesDoAgree == Spec => []CopiesAgree
<1>1. Held => CopiesAgree
  <2> SUFFICES ASSUME Held, field # NULL, NEW target \in {"double", "float", "int", "uint"},
                      NEW i \in 1 .. NumElems
               PROVE  LET copied == CopyAs(target, NumElems)
                          asked  == ElemAs(target, i - 1)
                          word   == Whole(field.elems[i])
                      IN  CASE target = "uint" /\ field.type = "uint" -> copied = << >> /\ asked = <<word>>
                            [] target = "uint" /\ field.type = "int"  -> copied[i] = word /\ asked = << >>
                            [] OTHER -> asked = IF copied = << >> THEN << >> ELSE <<copied[i]>>
    BY DEF CopiesAgree
  <2> DEFINE copied == CopyAs(target, NumElems)
             asked  == ElemAs(target, i - 1)
             word   == Whole(field.elems[i])
  <2>1. field.type \notin CopyTypes(target) => copied = << >>
    BY DEF CopyAs
  <2>2. field.type \notin ElemTypes(target) => asked = << >>
    BY DEF ElemAs
  <2>3. ASSUME field.type \in Numeric
        PROVE  NumElems \in Nat /\ i \in Nat /\ i - 1 < NumElems /\ (i - 1) + 1 = i
               /\ field.elems[i] \in 0 .. Count(field.type) - 1
    <3>1. field.type \in Types /\ field.type # "time"
      BY <2>3 DEF Types, Numeric, Integer
    <3> QED BY <3>1, FieldFacts
  <2>4. field.type \in ElemTypes(target) =>
          field.type \in Numeric /\ asked = <<Convert(View(field.type, field.elems[i]), target)>>
    <3>1. field.type \in ElemTypes(target) => field.type \in Numeric
      <4>1. target \in Numeric
        BY DEF Numeric, Integer
      <4> QED BY <4>1, OfferedTypes
    <3> QED BY <2>3, <3>1 DEF ElemAs
  <2>5. ASSUME field.type \in CopyTypes(target)
        PROVE  copied # << >> /\ copied[i] = Convert(View(CopyView(field.type, target), field.elems[i]), target)
    <3>1. field.type \in Numeric
      BY <2>5 DEF CopyTypes, Numeric, Integer
    <3>2. copied = [j \in 1 .. NumElems |-> Convert(View(CopyView(field.type, target), field.elems[j]), target)]
      BY <2>3, <2>5, <3>1 DEF CopyAs
    <3>3. i \in DOMAIN copied
      BY <3>2
    <3>4. DOMAIN << >> = {}
      OBVIOUS
    <3> HIDE DEF copied
    <3> QED BY <3>2, <3>3, <3>4
  <2>6. ASSUME field.type \in {"int", "uint"}
        PROVE  Convert(View("uint", field.elems[i]), "uint") = word
    <3>1. field.elems[i] \in 0 .. Count("uint") - 1
      BY <2>3, <2>6, RangeFacts DEF Numeric, Integer
    <3>2. View("uint", field.elems[i]) = word /\ field.elems[i] \in Numbers("uint")
      BY <3>1, ViewFacts DEF Signed, Integer, Numbers
    <3>3. field.elems[i] \in Int
      BY <3>1, RangeFacts
    <3> QED BY <3>2, <3>3, ConvertWhole DEF Integer
  <2> HIDE DEF copied, asked, word
  <2>7. CASE target = "uint" /\ field.type = "uint"
    <3>1. field.type \in ElemTypes(target) /\ field.type \notin CopyTypes(target)
      BY <2>7 DEF ElemTypes, CopyTypes
    <3> QED BY <2>1, <2>4, <2>6, <2>7, <3>1 DEF copied, asked, word
  <2>8. CASE target = "uint" /\ field.type = "int"
    <3>1. field.type \notin ElemTypes(target) /\ field.type \in CopyTypes(target)
      BY <2>8 DEF ElemTypes, CopyTypes
    <3>2. CopyView(field.type, target) = "uint"
      BY <2>8 DEF CopyView
    <3> QED BY <2>2, <2>5, <2>6, <2>8, <3>1, <3>2 DEF copied, asked, word
  <2>9. CASE ~(target = "uint" /\ field.type \in {"int", "uint"})
    <3>1. field.type \in ElemTypes(target) <=> field.type \in CopyTypes(target)
      BY <2>9 DEF ElemTypes, CopyTypes, Numeric, Integer
    <3>2. CopyView(field.type, target) = field.type
      BY <2>9 DEF CopyView
    <3>3. asked = IF copied = << >> THEN << >> ELSE <<copied[i]>>
      BY <2>1, <2>2, <2>4, <2>5, <3>1, <3>2
    <3> QED BY <2>9, <3>3 DEF copied, asked
  <2> QED BY <2>7, <2>8, <2>9
<1> QED BY <1>1, Invariance, PTL

=============================================================================
