----------------------------- MODULE WireProofs -----------------------------
(***************************************************************************)
(* Theorems about Wire, for bytes of every size the code's fields fit in,  *)
(* frames of every number of fields, strings and blobs of every length     *)
(* below that of an absent one, and every hint and every damage.  The      *)
(* order is: numbers and their bytes; the bytes and the units of a string; *)
(* a buffer that doubles; what FrameWriter holds; what a frame is; what a  *)
(* reader makes of bytes that are there and of bytes that are not; where   *)
(* the fields of a frame lie; and the invariant, which says so of a frame  *)
(* as it is written, posted, damaged and read.                             *)
(***************************************************************************)
EXTENDS Wire, SequenceTheorems, FiniteSetTheorems, WellFoundedInduction, TLAPS

(* Division with remainder.                                                *)
LEMMA DivMod ==
    ASSUME NEW a \in Int, NEW b \in Nat \ {0}
    PROVE  /\ a \div b \in Int /\ a % b \in 0..(b - 1)
           /\ a = b * (a \div b) + (a % b)
OBVIOUS

(* A product is less than its factor only where the other is 0 or less.    *)
LEMMA ProductGrows ==
    ASSUME NEW b \in Nat \ {0}, NEW k \in Int
    PROVE  /\ b * k \in Int
           /\ k >= 1 => b * k >= b
           /\ k <= -1 => b * k <= -b
           /\ k = 0 => b * k = 0
OBVIOUS

(* There is one quotient.                                                  *)
LEMMA DivUnique ==
    ASSUME NEW a \in Int, NEW b \in Nat \ {0}, NEW q \in Int, NEW r \in 0..(b - 1),
           a = b * q + r
    PROVE  a \div b = q /\ a % b = r
<1> DEFINE p == a \div b
           s == a % b
<1>1. p \in Int /\ s \in 0..(b - 1) /\ a = b * p + s
  BY DivMod
<1> HIDE DEF p, s
<1>2. b * (p - q) = r - s
  <2>1. b * (p - q) = b * p - b * q
    BY <1>1
  <2> QED
    BY <2>1, <1>1
<1>3. p - q = 0
  <2> DEFINE k == p - q
  <2>1. k \in Int
    BY <1>1
  <2> HIDE DEF k
  <2>2. b * k \in -(b - 1)..(b - 1)
    BY <1>1, <1>2 DEF k
  <2>3. k = 0
    BY <2>1, <2>2, ProductGrows
  <2> QED
    BY <2>3 DEF k
<1> QED
  BY <1>1, <1>2, <1>3 DEF p, s

-----------------------------------------------------------------------------

(* Induction: a set that has 0, and with a number the next, has them all.  *)
LEMMA AllNumbers ==
    ASSUME NEW S, 0 \in S, \A n \in Nat : n \in S => n + 1 \in S
    PROVE  Nat \subseteq S
<1> DEFINE R == OpToRel(<, Nat)
<1>1. IsWellFoundedOn(R, Nat)
  BY NatLessThanWellFounded, Zenon
<1>2. R = {ss \in Nat \X Nat : ss[1] < ss[2]}
  BY DEF OpToRel
<1> HIDE DEF R
<1>3. SUFFICES ASSUME Nat \ S # {} PROVE FALSE
  OBVIOUS
<1>4. PICK outside : outside = Nat \ S
  OBVIOUS
<1>5. PICK x \in outside : \A y \in outside : ~ (<<y, x>> \in R)
  BY <1>1, <1>3, <1>4, WFMin
<1>6. x # 0 /\ x - 1 \in Nat
  BY <1>4
<1>7. x - 1 \notin S
  BY <1>4, <1>6
<1>8. <<x - 1, x>> \in R
  BY <1>2, <1>4, <1>6
<1> QED
  BY <1>4, <1>5, <1>6, <1>7, <1>8

(* The product of numbers that are not 0.                                  *)
LEMMA Positive ==
    ASSUME NEW a \in Nat \ {0}, NEW b \in Nat \ {0}
    PROVE  a * b \in Nat \ {0} /\ a * b >= a /\ a * b >= b
OBVIOUS

(* A number of two halves of a values each.                                *)
LEMMA TwoHalves ==
    ASSUME NEW a \in Nat \ {0}, NEW v \in Int
    PROVE  (v % a) + a * ((v \div a) % a) = v % (a * a)
<1> DEFINE q == v \div a
           lo == v % a
           hi == q % a
           r == q \div a
<1>1. q \in Int /\ lo \in 0..(a - 1) /\ v = a * q + lo
  BY DivMod
<1>2. r \in Int /\ hi \in 0..(a - 1) /\ q = a * r + hi
  BY <1>1, DivMod
<1> HIDE DEF q, lo, hi, r
<1>3. a * a \in Nat \ {0}
  BY Positive
<1>4. a * hi >= 0 /\ a * hi <= a * a - a /\ a * hi \in Int
  <2>1. a * (a - 1 - hi) = a * a - a - a * hi
    BY <1>2
  <2>2. a - 1 - hi = 0 \/ a - 1 - hi >= 1
    BY <1>2
  <2>3. a * (a - 1 - hi) >= 0
    BY <1>2, <2>2, ProductGrows
  <2> QED
    BY <1>2, <2>1, <2>3
<1>5. lo + a * hi \in 0..(a * a - 1)
  BY <1>1, <1>3, <1>4
<1>6. v = (a * a) * r + (lo + a * hi)
  <2>1. a * (a * r + hi) = (a * a) * r + a * hi
    BY <1>2
  <2> QED
    BY <1>1, <1>2, <2>1, <1>4
<1>7. v % (a * a) = lo + a * hi
  <2>1. PICK b \in Nat \ {0} : b = a * a
    BY <1>3
  <2>2. PICK s \in 0..(b - 1) : s = lo + a * hi
    BY <1>5, <2>1
  <2>3. v = b * r + s
    BY <1>6, <2>1, <2>2
  <2> QED
    BY <1>2, <2>1, <2>2, <2>3, DivUnique
<1> QED
  BY <1>7 DEF q, lo, hi

(* The number of values of a word.                                         *)
LEMMA Sizes ==
    /\ Base \in Nat \ {0} /\ Base > 5
    /\ Size2 \in Nat \ {0} /\ Size2 >= Base
    /\ Size4 \in Nat \ {0} /\ Size4 >= Size2
    /\ Size8 \in Nat \ {0}
<1>1. Base \in Nat \ {0} /\ Base > 5
  BY BaseAssumption
<1>2. Size2 \in Nat \ {0} /\ Size2 >= Base
  BY <1>1, Positive DEF Size2
<1>3. Size4 \in Nat \ {0} /\ Size4 >= Size2
  BY <1>2, Positive DEF Size4
<1>4. Size8 \in Nat \ {0}
  BY <1>3, Positive DEF Size8
<1> QED
  BY <1>1, <1>2, <1>3, <1>4

(* The bytes of a word of two.                                             *)
LEMMA TwoBytes ==
    ASSUME NEW v \in Int
    PROVE  /\ LE2(v) \in Seq(Byte) /\ Len(LE2(v)) = 2
           /\ LE2(v)[1] + Base * LE2(v)[2] = v % Size2
<1>1. v % Base \in 0..(Base - 1) /\ v \div Base \in Int /\ (v \div Base) % Base \in 0..(Base - 1)
  BY Sizes, DivMod
<1>2. LE2(v) = <<v % Base, (v \div Base) % Base>>
  BY DEF LE2
<1>3. (v % Base) + Base * ((v \div Base) % Base) = v % (Base * Base)
  BY Sizes, TwoHalves
<1>4. LE2(v) \in Seq(Byte) /\ Len(LE2(v)) = 2
  BY <1>1, <1>2 DEF Byte
<1>5. LE2(v)[1] = v % Base /\ LE2(v)[2] = (v \div Base) % Base
  BY <1>2
<1> QED
  BY <1>3, <1>4, <1>5 DEF Size2

(* The elements of s and then those of t.                                  *)
LEMMA Joined ==
    ASSUME NEW S, NEW s \in Seq(S), NEW t \in Seq(S)
    PROVE  /\ s \o t \in Seq(S) /\ Len(s \o t) = Len(s) + Len(t)
           /\ Len(s) \in Nat /\ Len(t) \in Nat
           /\ \A j \in 1..Len(s) : (s \o t)[j] = s[j]
           /\ \A j \in 1..Len(t) : (s \o t)[Len(s) + j] = t[j]
<1>1. PICK n \in Nat : n = Len(s)
  OBVIOUS
<1>2. PICK m \in Nat : m = Len(t)
  OBVIOUS
<1>3. /\ s \o t \in Seq(S) /\ Len(s \o t) = n + m
      /\ \A i \in 1..(n + m) : (s \o t)[i] = IF i <= n THEN s[i] ELSE t[i - n]
  BY <1>1, <1>2, ConcatProperties
<1>4. ASSUME NEW j \in 1..n PROVE (s \o t)[j] = s[j]
  BY <1>3
<1>5. ASSUME NEW j \in 1..m PROVE (s \o t)[n + j] = t[j]
  <2>1. n + j \in 1..(n + m) /\ ~ (n + j <= n) /\ (n + j) - n = j
    OBVIOUS
  <2> QED
    BY <1>3, <2>1
<1> QED
  BY <1>1, <1>2, <1>3, <1>4, <1>5

(* Of a word of four.                                                      *)
LEMMA FourBytes ==
    ASSUME NEW v \in Int
    PROVE  /\ LE4(v) \in Seq(Byte) /\ Len(LE4(v)) = 4
           /\ Word4(LE4(v), 1) = v % Size4
<1> DEFINE q == v \div Size2
           s == LE2(v)
           t == LE2(q)
<1>1. q \in Int /\ v % Size2 \in Int
  BY Sizes, DivMod
<1>2. s \in Seq(Byte) /\ Len(s) = 2 /\ s[1] + Base * s[2] = v % Size2
  BY TwoBytes
<1>3. t \in Seq(Byte) /\ Len(t) = 2 /\ t[1] + Base * t[2] = q % Size2
  BY <1>1, TwoBytes
<1>4. LE4(v) = s \o t
  BY DEF LE4
<1>5. (v % Size2) + Size2 * (q % Size2) = v % (Size2 * Size2)
  BY Sizes, TwoHalves
<1> HIDE DEF q, s, t
<1>6. PICK w : w = s \o t
  OBVIOUS
<1>7. /\ w \in Seq(Byte) /\ Len(w) = 4
      /\ w[1] = s[1] /\ w[2] = s[2] /\ w[3] = t[1] /\ w[4] = t[2]
  <2>1. s \in Seq(Byte) /\ t \in Seq(Byte) /\ Len(s) = 2 /\ Len(t) = 2
    BY <1>2, <1>3
  <2>2. PICK a, b : a = s /\ b = t
    OBVIOUS
  <2>3. a \in Seq(Byte) /\ b \in Seq(Byte)
    BY <2>1, <2>2
  <2>4. /\ a \o b \in Seq(Byte) /\ Len(a \o b) = Len(a) + Len(b)
        /\ \A j \in 1..Len(a) : (a \o b)[j] = a[j]
        /\ \A j \in 1..Len(b) : (a \o b)[Len(a) + j] = b[j]
    BY <2>3, Joined
  <2>5. w = a \o b /\ Len(a) = 2 /\ Len(b) = 2
    BY <1>6, <2>1, <2>2
  <2>6. /\ w \in Seq(Byte) /\ Len(w) = 4
        /\ \A j \in 1..2 : w[j] = a[j] /\ w[2 + j] = b[j]
    BY <2>4, <2>5
  <2> QED
    BY <2>2, <2>6
<1>8. Word2(w, 1) = v % Size2 /\ Word2(w, 3) = q % Size2
  BY <1>2, <1>3, <1>7, <1>6 DEF Word2
<1>9. Word4(w, 1) = Word2(w, 1) + Size2 * Word2(w, 3)
  BY DEF Word4
<1> QED
  BY <1>4, <1>5, <1>7, <1>6, <1>8, <1>9 DEF Size4

(* Of a word of eight.                                                     *)
LEMMA EightBytes ==
    ASSUME NEW v \in Int
    PROVE  /\ LE8(v) \in Seq(Byte) /\ Len(LE8(v)) = 8
           /\ Word8(LE8(v), 1) = v % Size8
<1> DEFINE q == v \div Size4
           s == LE4(v)
           t == LE4(q)
<1>1. q \in Int
  BY Sizes, DivMod
<1>2. s \in Seq(Byte) /\ Len(s) = 4 /\ Word4(s, 1) = v % Size4
  BY FourBytes
<1>3. t \in Seq(Byte) /\ Len(t) = 4 /\ Word4(t, 1) = q % Size4
  BY <1>1, FourBytes
<1>4. LE8(v) = s \o t
  BY DEF LE8
<1>5. (v % Size4) + Size4 * (q % Size4) = v % (Size4 * Size4)
  BY Sizes, TwoHalves
<1> HIDE DEF q, s, t
<1>6. PICK w : w = s \o t
  OBVIOUS
<1>7. w \in Seq(Byte) /\ Len(w) = 8 /\ \A j \in 1..4 : w[j] = s[j] /\ w[4 + j] = t[j]
  <2>1. s \in Seq(Byte) /\ t \in Seq(Byte) /\ Len(s) = 4 /\ Len(t) = 4
    BY <1>2, <1>3
  <2>2. PICK a, b : a = s /\ b = t
    OBVIOUS
  <2>3. a \in Seq(Byte) /\ b \in Seq(Byte)
    BY <2>1, <2>2
  <2>4. /\ a \o b \in Seq(Byte) /\ Len(a \o b) = Len(a) + Len(b)
        /\ \A j \in 1..Len(a) : (a \o b)[j] = a[j]
        /\ \A j \in 1..Len(b) : (a \o b)[Len(a) + j] = b[j]
    BY <2>3, Joined
  <2>5. w = a \o b /\ Len(a) = 4 /\ Len(b) = 4
    BY <1>6, <2>1, <2>2
  <2>6. /\ w \in Seq(Byte) /\ Len(w) = 8
        /\ \A j \in 1..4 : w[j] = a[j] /\ w[4 + j] = b[j]
    BY <2>4, <2>5
  <2> QED
    BY <2>2, <2>6
<1>8. /\ w[1] = s[1] /\ w[2] = s[2] /\ w[3] = s[3] /\ w[4] = s[4]
      /\ w[5] = t[1] /\ w[6] = t[2] /\ w[7] = t[3] /\ w[8] = t[4]
  BY <1>7
<1>9. Word4(w, 1) = Word4(s, 1) /\ Word4(w, 5) = Word4(t, 1)
  <2>1. Word2(w, 1) = Word2(s, 1) /\ Word2(w, 3) = Word2(s, 3)
        /\ Word2(w, 5) = Word2(t, 1) /\ Word2(w, 7) = Word2(t, 3)
    BY <1>8 DEF Word2
  <2> QED
    BY <2>1 DEF Word4
<1>10. Word8(w, 1) = Word4(w, 1) + Size4 * Word4(w, 5)
  BY DEF Word8
<1> QED
  BY <1>2, <1>3, <1>4, <1>5, <1>7, <1>6, <1>9, <1>10 DEF Size8

(* What a number is read as, from the bytes it was written in.             *)
LEMMA NumeralRead ==
    ASSUME NEW n \in {1, 2, 4, 8}, NEW v \in Int
    PROVE  /\ LE(n, v) \in Seq(Byte) /\ Len(LE(n, v)) = n
           /\ UInt(LE(n, v)) = v % Size(n)
<1>1. CASE n = 1
  <2>1. v % Base \in Byte
    BY Sizes, DivMod DEF Byte
  <2>2. LE(n, v) = <<v % Base>> /\ Size(n) = Base
    BY <1>1 DEF LE, Size
  <2>3. PICK s : s = <<v % Base>>
    OBVIOUS
  <2>4. s \in Seq(Byte) /\ Len(s) = 1 /\ s[1] = v % Base
    BY <2>1, <2>3
  <2>5. UInt(s) = s[1]
    BY <2>4 DEF UInt
  <2> QED
    BY <1>1, <2>2, <2>3, <2>4, <2>5
<1>2. CASE n = 2
  <2>1. LE(n, v) = LE2(v) /\ Size(n) = Size2
    BY <1>2 DEF LE, Size
  <2>2. LE2(v) \in Seq(Byte) /\ Len(LE2(v)) = 2 /\ LE2(v)[1] + Base * LE2(v)[2] = v % Size2
    BY TwoBytes
  <2>3. PICK s : s = LE2(v)
    OBVIOUS
  <2>4. Len(s) = 2
    BY <2>2, <2>3
  <2>5. UInt(s) = Word2(s, 1)
    BY <2>4 DEF UInt
  <2> QED
    BY <1>2, <2>1, <2>2, <2>3, <2>4, <2>5 DEF Word2
<1>3. CASE n = 4
  <2>1. LE(n, v) = LE4(v) /\ Size(n) = Size4
    BY <1>3 DEF LE, Size
  <2>2. PICK s : s = LE4(v)
    OBVIOUS
  <2>3. s \in Seq(Byte) /\ Len(s) = 4 /\ Word4(s, 1) = v % Size4
    BY <2>2, FourBytes
  <2>4. Len(s) = 4
    BY <2>3
  <2>5. UInt(s) = Word4(s, 1)
    BY <2>4 DEF UInt
  <2> QED
    BY <1>3, <2>1, <2>2, <2>3, <2>4, <2>5
<1>4. CASE n = 8
  <2>1. LE(n, v) = LE8(v) /\ Size(n) = Size8
    BY <1>4 DEF LE, Size
  <2>2. PICK s : s = LE8(v)
    OBVIOUS
  <2>3. s \in Seq(Byte) /\ Len(s) = 8 /\ Word8(s, 1) = v % Size8
    BY <2>2, EightBytes
  <2>4. Len(s) = 8
    BY <2>3
  <2>5. UInt(s) = Word8(s, 1)
    BY <2>4 DEF UInt
  <2> QED
    BY <1>4, <2>1, <2>2, <2>3, <2>4, <2>5
<1> QED
  BY <1>1, <1>2, <1>3, <1>4

(* A word is a natural number, whatever its bytes.                         *)
LEMMA WordType ==
    ASSUME NEW n \in {1, 2, 4, 8}, NEW s \in Seq(Byte), Len(s) = n
    PROVE  UInt(s) \in Nat
<1>1. Byte \subseteq Nat /\ Base \in Nat /\ Size2 \in Nat /\ Size4 \in Nat
  BY Sizes DEF Byte
<1>2. ASSUME NEW a \in Nat, NEW b \in Nat, NEW c \in Nat PROVE a + b * c \in Nat
  OBVIOUS
<1>3. ASSUME NEW i \in Nat, s[i] \in Byte, s[i + 1] \in Byte PROVE Word2(s, i) \in Nat
  BY <1>1, <1>2, <1>3 DEF Word2
<1>4. ASSUME NEW i \in Nat, \A j \in 0..3 : s[i + j] \in Byte PROVE Word4(s, i) \in Nat
  <2>1. s[i] \in Byte /\ s[i + 1] \in Byte /\ s[i + 2] \in Byte /\ s[(i + 2) + 1] \in Byte
    <3>1. i + 0 = i /\ (i + 2) + 1 = i + 3
      OBVIOUS
    <3> QED
      BY <1>4, <3>1
  <2>2. Word2(s, i) \in Nat /\ Word2(s, i + 2) \in Nat
    BY <1>3, <2>1
  <2> QED
    BY <1>1, <1>2, <2>2 DEF Word4
<1>5. Len(s) = n /\ \A j \in 1..n : s[j] \in Byte
  OBVIOUS
<1>6. CASE n = 1
  BY <1>1, <1>5, <1>6 DEF UInt
<1>7. CASE n = 2
  <2>1. s[1] \in Byte /\ s[1 + 1] \in Byte
    BY <1>7
  <2> QED
    BY <1>3, <1>5, <1>7, <2>1 DEF UInt
<1>8. CASE n = 4
  <2>1. \A j \in 0..3 : s[1 + j] \in Byte
    <3>1. \A j \in 0..3 : 1 + j \in 1..n
      BY <1>8
    <3> QED
      BY <1>5, <3>1
  <2> QED
    BY <1>4, <1>5, <1>8, <2>1 DEF UInt
<1>9. CASE n = 8
  <2>1. (\A j \in 0..3 : s[1 + j] \in Byte) /\ (\A j \in 0..3 : s[5 + j] \in Byte)
    BY <1>5, <1>9
  <2>2. Word4(s, 1) \in Nat /\ Word4(s, 1 + 4) \in Nat
    BY <1>4, <2>1
  <2>3. Word8(s, 1) \in Nat
    BY <1>1, <1>2, <2>2 DEF Word8
  <2> QED
    BY <1>5, <1>9, <2>3 DEF UInt
<1> QED
  BY <1>6, <1>7, <1>8, <1>9

(* The number of bytes of a number.                                        *)
LEMMA WidthType ==
    ASSUME NEW t \in DOMAIN Width
    PROVE  Width[t] \in {1, 2, 4, 8}
BY DEF Width

(* A number in the range of its type is what it was written as.            *)
LEMMA NumberRead ==
    ASSUME NEW t \in DOMAIN Width, NEW n, n = Width[t],
           NEW v \in IF t \in {"i32", "i64"} THEN Signeds(n) ELSE Unsigneds(n)
    PROVE  Number(t, LE(n, v)) = v
<1>1. n \in {1, 2, 4, 8}
  BY WidthType
<1>2. PICK size \in Nat \ {0} : size = Size(n)
  BY <1>1, Sizes DEF Size
<1>3. PICK half \in Int : half = size \div 2 /\ half <= size
  <2>1. size \div 2 \in Int /\ size \div 2 <= size
    OBVIOUS
  <2> QED
    BY <2>1
<1>4. v \in Int /\ (IF t \in {"i32", "i64"} THEN half - size <= v /\ v < half
                                         ELSE 0 <= v /\ v < size)
  BY <1>2, <1>3 DEF Signeds, Unsigneds
<1>5. PICK u : u = UInt(LE(n, v))
  OBVIOUS
<1>6. u = v % size
  BY <1>1, <1>2, <1>4, <1>5, NumeralRead
<1>7. Number(t, LE(n, v)) = IF t \in {"i32", "i64"} /\ u >= half THEN u - size ELSE u
  BY <1>2, <1>3, <1>5 DEF Number
<1>8. CASE v >= 0
  <2>1. v \in 0..(size - 1) /\ v = size * 0 + v
    BY <1>3, <1>4, <1>8
  <2>2. u = v
    BY <1>6, <2>1, DivUnique
  <2> QED
    BY <1>4, <1>7, <2>2
<1>9. CASE v < 0
  <2>1. v + size \in 0..(size - 1) /\ v = size * (-1) + (v + size) /\ v + size >= half
    <3>1. t \in {"i32", "i64"} /\ half - size <= v /\ v < 0
      BY <1>4, <1>9
    <3>2. half >= 0
      BY <1>3
    <3> QED
      BY <1>4, <3>1, <3>2
  <2>2. u = v + size
    <3>1. PICK r \in 0..(size - 1) : r = v + size
      BY <2>1
    <3>2. v = size * (-1) + r
      BY <2>1, <3>1
    <3> QED
      BY <1>4, <1>6, <3>1, <3>2, DivUnique
  <2> QED
    BY <1>4, <1>7, <1>9, <2>1, <2>2
<1> QED
  BY <1>4, <1>8, <1>9

-----------------------------------------------------------------------------

(* What the prefixes of a string are defined to be, up to character m.     *)
Longer(s, c) == s \o c
PrefixTo(chars, enc, m) ==
    enc = [n \in 0..m |-> IF n = 0 THEN <<>> ELSE Longer(enc[n - 1], chars[n])]

(* It exists.                                                              *)
LEMMA PrefixExists ==
    ASSUME NEW chars, NEW m \in Nat
    PROVE  \E enc : PrefixTo(chars, enc, m)
<1> DEFINE S == {n \in Nat : \E enc : PrefixTo(chars, enc, n)}
<1>1. 0 \in S
  <2>1. PICK enc : enc = [n \in 0..0 |-> <<>>]
    OBVIOUS
  <2>2. PrefixTo(chars, enc, 0)
    BY <2>1 DEF PrefixTo
  <2> QED
    BY <2>2
<1>2. ASSUME NEW n \in Nat, n \in S PROVE n + 1 \in S
  <2>1. PICK enc : PrefixTo(chars, enc, n)
    BY <1>2
  <2>2. PICK next : next = [j \in 0..(n + 1) |-> IF j = n + 1 THEN Longer(enc[n], chars[n + 1])
                                                 ELSE enc[j]]
    OBVIOUS
  <2>3. ASSUME NEW j \in 0..(n + 1)
        PROVE  next[j] = IF j = 0 THEN <<>> ELSE Longer(next[j - 1], chars[j])
    <3>1. CASE j = 0
      BY <2>1, <2>2, <3>1 DEF PrefixTo
    <3>2. CASE j \in 1..n
      <4>1. next[j] = enc[j] /\ next[j - 1] = enc[j - 1]
        BY <2>2, <3>2
      <4>2. enc[j] = Longer(enc[j - 1], chars[j])
        BY <2>1, <3>2 DEF PrefixTo
      <4> QED
        BY <3>2, <4>1, <4>2
    <3>3. CASE j = n + 1
      <4>1. next[j] = Longer(enc[n], chars[j]) /\ next[j - 1] = enc[n]
        BY <2>2, <3>3
      <4> QED
        BY <3>3, <4>1
    <3> QED
      BY <3>1, <3>2, <3>3
  <2>4. PrefixTo(chars, next, n + 1)
    BY <2>2, <2>3 DEF PrefixTo
  <2> QED
    BY <2>4
<1>3. Nat \subseteq S
  <2> HIDE DEF S
  <2> QED
    BY <1>1, <1>2, AllNumbers
<1> QED
  BY <1>3

(* Prefix is that function.                                                *)
LEMMA PrefixDef ==
    ASSUME NEW chars \in Seq(Char)
    PROVE  /\ Len(chars) \in Nat
           /\ Prefix(chars)[0] = <<>>
           /\ \A n \in 1..Len(chars) : Prefix(chars)[n] = Prefix(chars)[n - 1] \o chars[n]
<1>1. PICK m \in Nat : m = Len(chars)
  OBVIOUS
<1>2. \E enc : PrefixTo(chars, enc, m)
  BY PrefixExists
<1>3. Prefix(chars) = CHOOSE enc : PrefixTo(chars, enc, m)
  BY <1>1 DEF Prefix, PrefixTo, Longer
<1>4. PrefixTo(chars, Prefix(chars), m)
  BY <1>2, <1>3
<1> QED
  BY <1>1, <1>4 DEF PrefixTo, Longer

(* The same for the UTF-16 code units.                                     *)
UnitsOf(c) == IF Len(c) = 4 THEN 2 ELSE 1
CountTo(chars, count, m) ==
    count = [n \in 0..m |-> IF n = 0 THEN 0 ELSE count[n - 1] + UnitsOf(chars[n])]

(* It exists.                                                              *)
LEMMA CountExists ==
    ASSUME NEW chars, NEW m \in Nat
    PROVE  \E count : CountTo(chars, count, m)
<1> DEFINE S == {n \in Nat : \E count : CountTo(chars, count, n)}
<1>1. 0 \in S
  <2>1. PICK count : count = [n \in 0..0 |-> 0]
    OBVIOUS
  <2>2. CountTo(chars, count, 0)
    BY <2>1 DEF CountTo
  <2> QED
    BY <2>2
<1>2. ASSUME NEW n \in Nat, n \in S PROVE n + 1 \in S
  <2>1. PICK count : CountTo(chars, count, n)
    BY <1>2
  <2>2. PICK next : next = [j \in 0..(n + 1) |-> IF j = n + 1
                                                 THEN count[n] + UnitsOf(chars[n + 1])
                                                 ELSE count[j]]
    OBVIOUS
  <2>3. ASSUME NEW j \in 0..(n + 1)
        PROVE  next[j] = IF j = 0 THEN 0 ELSE next[j - 1] + UnitsOf(chars[j])
    <3>1. CASE j = 0
      BY <2>1, <2>2, <3>1 DEF CountTo
    <3>2. CASE j \in 1..n
      <4>1. next[j] = count[j] /\ next[j - 1] = count[j - 1]
        BY <2>2, <3>2
      <4>2. count[j] = count[j - 1] + UnitsOf(chars[j])
        BY <2>1, <3>2 DEF CountTo
      <4> QED
        BY <3>2, <4>1, <4>2
    <3>3. CASE j = n + 1
      <4>1. next[j] = count[n] + UnitsOf(chars[j]) /\ next[j - 1] = count[n]
        BY <2>2, <3>3
      <4> QED
        BY <3>3, <4>1
    <3> QED
      BY <3>1, <3>2, <3>3
  <2>4. CountTo(chars, next, n + 1)
    BY <2>2, <2>3 DEF CountTo
  <2> QED
    BY <2>4
<1>3. Nat \subseteq S
  <2> HIDE DEF S
  <2> QED
    BY <1>1, <1>2, AllNumbers
<1> QED
  BY <1>3

(* Counted is that function.                                               *)
LEMMA CountDef ==
    ASSUME NEW chars \in Seq(Char)
    PROVE  /\ Counted(chars)[0] = 0
           /\ \A n \in 1..Len(chars) :
                 Counted(chars)[n] = Counted(chars)[n - 1] + UnitsOf(chars[n])
<1>1. PICK m \in Nat : m = Len(chars)
  OBVIOUS
<1>2. \E count : CountTo(chars, count, m)
  BY CountExists
<1>3. Counted(chars) = CHOOSE count : CountTo(chars, count, m)
  BY <1>1 DEF Counted, CountTo, UnitsOf
<1>4. CountTo(chars, Counted(chars), m)
  BY <1>2, <1>3
<1> QED
  BY <1>1, <1>4 DEF CountTo

(* A character has one to four bytes, and at most three a unit.            *)
LEMMA CharBytes ==
    ASSUME NEW c \in Char
    PROVE  c \in Seq(Byte) /\ UnitsOf(c) \in Nat /\ Len(c) <= 3 * UnitsOf(c)
<1>1. PICK n \in 1..4 : c \in [1..n -> Byte]
  BY DEF Char
<1>2. c \in Seq(Byte) /\ Len(c) = n
  BY <1>1
<1> QED
  BY <1>2 DEF UnitsOf

(* Three bytes a unit are enough for every prefix.                         *)
LEMMA RoomForPrefix ==
    ASSUME NEW chars \in Seq(Char)
    PROVE  \A n \in 0..Len(chars) :
              /\ Prefix(chars)[n] \in Seq(Byte) /\ Counted(chars)[n] \in Nat
              /\ Len(Prefix(chars)[n]) <= 3 * Counted(chars)[n]
<1> DEFINE P(n) == /\ Prefix(chars)[n] \in Seq(Byte) /\ Counted(chars)[n] \in Nat
                   /\ Len(Prefix(chars)[n]) <= 3 * Counted(chars)[n]
           S == {n \in Nat : n <= Len(chars) => P(n)}
<1>1. 0 \in S
  <2>1. PICK s : s = Prefix(chars)[0]
    OBVIOUS
  <2>2. s = <<>> /\ Counted(chars)[0] = 0
    BY <2>1, PrefixDef, CountDef
  <2>3. s \in Seq(Byte) /\ Len(s) = 0
    BY <2>2
  <2>4. s \in Seq(Byte) /\ 0 \in Nat /\ Len(s) <= 3 * 0
    BY <2>3
  <2>5. P(0)
    BY <2>1, <2>2, <2>4, Zenon
  <2> QED
    BY <2>5
<1>2. ASSUME NEW n \in Nat, n \in S PROVE n + 1 \in S
  <2> SUFFICES ASSUME n + 1 <= Len(chars) PROVE P(n + 1)
    OBVIOUS
  <2>1. P(n) /\ n + 1 \in 1..Len(chars) /\ (n + 1) - 1 = n
    BY <1>2, PrefixDef
  <2>2. PICK s, u : s = Prefix(chars)[n] /\ u = Counted(chars)[n]
    OBVIOUS
  <2>3. PICK c \in Char : c = chars[n + 1]
    BY <2>1
  <2>4. Prefix(chars)[n + 1] = s \o c /\ Counted(chars)[n + 1] = u + UnitsOf(c)
    BY <2>1, <2>2, <2>3, PrefixDef, CountDef
  <2>5. s \in Seq(Byte) /\ u \in Nat /\ Len(s) <= 3 * u
    BY <2>1, <2>2
  <2>6. c \in Seq(Byte) /\ UnitsOf(c) \in Nat /\ Len(c) <= 3 * UnitsOf(c)
    BY CharBytes
  <2>7. /\ s \o c \in Seq(Byte) /\ Len(s \o c) = Len(s) + Len(c)
        /\ Len(s) \in Nat /\ Len(c) \in Nat
    BY <2>5, <2>6, Joined
  <2>8. Len(s \o c) <= 3 * (u + UnitsOf(c)) /\ u + UnitsOf(c) \in Nat
    BY <2>5, <2>6, <2>7
  <2> QED
    BY <2>4, <2>7, <2>8
<1>3. Nat \subseteq S
  <2> HIDE DEF S
  <2> QED
    BY <1>1, <1>2, AllNumbers
<1>4. ASSUME NEW n \in 0..Len(chars) PROVE P(n)
  <2>1. n \in Nat /\ n <= Len(chars)
    BY PrefixDef
  <2> QED
    BY <1>3, <2>1
<1> QED
  BY <1>4

(* And for a whole string.                                                 *)
LEMMA RoomForString ==
    ASSUME NEW chars \in Seq(Char)
    PROVE  /\ Utf8(chars) \in Seq(Byte) /\ Units(chars) \in Nat
           /\ Len(Utf8(chars)) <= 3 * Units(chars)
<1>1. Len(chars) \in 0..Len(chars)
  BY PrefixDef
<1> QED
  BY <1>1, RoomForPrefix DEF Utf8, Units

-----------------------------------------------------------------------------

(* What doubling a capacity until it is enough is defined to be.           *)
DoublesTo(need, cap) == cap = [c \in Nat |-> IF need <= c THEN c ELSE cap[2 * c]]

(* A function that is right from need down to a number.                    *)
RightFrom(need, cap, m) ==
    /\ cap \in [Nat -> Int]
    /\ \A c \in Nat : need <= c => cap[c] = c
    /\ \A c \in Nat \ {0} : c < need /\ need <= c + m => cap[c] = cap[2 * c]

(* The doubling ends, from any capacity but 0: such a function can be made *)
(* right for the next number down.                                         *)
LEMMA DoublingExists ==
    ASSUME NEW need \in Nat
    PROVE  \E cap : DoublesTo(need, cap)
<1> DEFINE S == {m \in Nat : \E cap : RightFrom(need, cap, m)}
<1>1. 0 \in S
  <2>1. PICK cap : cap = [c \in Nat |-> c]
    OBVIOUS
  <2>2. RightFrom(need, cap, 0)
    BY <2>1 DEF RightFrom
  <2> QED
    BY <2>2
<1>2. ASSUME NEW m \in Nat, m \in S PROVE m + 1 \in S
  <2>1. PICK cap : RightFrom(need, cap, m)
    BY <1>2
  <2>2. PICK d \in Int : d = need - (m + 1)
    OBVIOUS
  <2>3. CASE d <= 0
    <3>1. ASSUME NEW c \in Nat \ {0}, c < need, need <= c + (m + 1) PROVE cap[c] = cap[2 * c]
      BY <2>1, <2>2, <2>3, <3>1 DEF RightFrom
    <3>2. RightFrom(need, cap, m + 1)
      BY <2>1, <3>1 DEF RightFrom
    <3> QED
      BY <3>2
  <2>4. CASE d > 0
    <3>1. PICK next : next = [c \in Nat |-> IF c = d THEN cap[2 * d] ELSE cap[c]]
      OBVIOUS
    <3>2. next \in [Nat -> Int]
      BY <2>1, <2>4, <3>1 DEF RightFrom
    <3>3. ASSUME NEW c \in Nat, need <= c PROVE next[c] = c
      BY <2>1, <2>2, <3>1, <3>3 DEF RightFrom
    <3>4. ASSUME NEW c \in Nat \ {0}, c < need, need <= c + (m + 1)
          PROVE  next[c] = next[2 * c]
      <4>1. 2 * c # d /\ 2 * c \in Nat
        BY <2>2, <3>4
      <4>2. next[2 * c] = cap[2 * c]
        BY <3>1, <4>1
      <4>3. CASE c = d
        BY <3>1, <4>2, <4>3
      <4>4. CASE c # d
        <5>1. need <= c + m
          BY <2>2, <3>4, <4>4
        <5>2. cap[c] = cap[2 * c]
          BY <2>1, <3>4, <5>1 DEF RightFrom
        <5> QED
          BY <3>1, <4>2, <4>4, <5>2
      <4> QED
        BY <4>3, <4>4
    <3>5. RightFrom(need, next, m + 1)
      BY <3>2, <3>3, <3>4 DEF RightFrom
    <3> QED
      BY <3>5
  <2> QED
    BY <2>2, <2>3, <2>4
<1>3. Nat \subseteq S
  <2> HIDE DEF S
  <2> QED
    BY <1>1, <1>2, AllNumbers
<1>4. PICK cap : RightFrom(need, cap, need)
  BY <1>3
<1>5. ASSUME NEW c \in Nat PROVE cap[c] = IF need <= c THEN c ELSE cap[2 * c]
  <2>1. CASE need <= c
    BY <1>4, <2>1 DEF RightFrom
  <2>2. CASE ~ (need <= c) /\ c # 0
    BY <1>4, <2>2 DEF RightFrom
  <2>3. CASE ~ (need <= c) /\ c = 0
    BY <2>3
  <2> QED
    BY <2>1, <2>2, <2>3
<1>6. DoublesTo(need, cap)
  <2>1. cap = [c \in Nat |-> cap[c]]
    BY <1>4 DEF RightFrom
  <2> QED
    BY <1>5, <2>1 DEF DoublesTo
<1> QED
  BY <1>6

(* A capacity that is enough stays, another one is doubled.                *)
LEMMA DoubledDef ==
    ASSUME NEW need \in Nat, NEW c \in Nat
    PROVE  Doubled(need)[c] = IF need <= c THEN c ELSE Doubled(need)[2 * c]
<1>1. Doubled(need) = CHOOSE cap : DoublesTo(need, cap)
  BY DEF Doubled, DoublesTo
<1>2. DoublesTo(need, Doubled(need))
  BY <1>1, DoublingExists
<1> QED
  BY <1>2 DEF DoublesTo

(* What doubling ends with is enough.                                      *)
LEMMA DoublesEnough ==
    ASSUME NEW need \in Nat, NEW c \in Nat \ {0}
    PROVE  Doubled(need)[c] \in Nat /\ Doubled(need)[c] >= need /\ Doubled(need)[c] >= c
<1> DEFINE P(b) == /\ Doubled(need)[b] \in Nat /\ Doubled(need)[b] >= need
                   /\ Doubled(need)[b] >= b
           S == {m \in Nat : \A b \in Nat \ {0} : need <= b + m => P(b)}
<1>1. 0 \in S
  BY DoubledDef
<1>2. ASSUME NEW m \in Nat, m \in S PROVE m + 1 \in S
  <2> SUFFICES ASSUME NEW b \in Nat \ {0}, need <= b + (m + 1) PROVE P(b)
    OBVIOUS
  <2>1. CASE need <= b
    BY <2>1, DoubledDef
  <2>2. CASE ~ (need <= b)
    <3>1. 2 * b \in Nat \ {0} /\ need <= 2 * b + m /\ 2 * b >= b
      OBVIOUS
    <3>2. P(2 * b)
      BY <1>2, <3>1
    <3>3. Doubled(need)[b] = Doubled(need)[2 * b]
      BY <2>2, DoubledDef
    <3> HIDE DEF S
    <3> QED
      BY <3>1, <3>2, <3>3
  <2> QED
    BY <2>1, <2>2
<1>3. Nat \subseteq S
  <2> HIDE DEF S
  <2> QED
    BY <1>1, <1>2, AllNumbers
<1>4. need \in S /\ need <= c + need
  BY <1>3
<1> QED
  BY <1>4

(* A writer that holds the bytes s, in a buffer with room for them.        *)
Holds(w, s) ==
    /\ w \in [buf : Seq(Byte), n : Nat, threw : BOOLEAN]
    /\ s \in Seq(Byte)
    /\ w.n = Len(s) /\ ~w.threw
    /\ Len(w.buf) >= Len(s) /\ Len(w.buf) > 0
    /\ \A j \in 1..Len(s) : w.buf[j] = s[j]

(* What a sequence is that joins two of the lengths n and m.               *)
LEMMA JoinedAs ==
    ASSUME NEW S, NEW s \in Seq(S), NEW t \in Seq(S), NEW c, c = s \o t,
           NEW n, n = Len(s), NEW m, m = Len(t)
    PROVE  /\ c \in Seq(S) /\ Len(c) = n + m /\ n \in Nat /\ m \in Nat
           /\ \A j \in 1..n : c[j] = s[j]
           /\ \A j \in 1..m : c[n + j] = t[j]
BY Joined

(* Zeros are bytes.                                                        *)
LEMMA ZerosAreBytes ==
    ASSUME NEW n \in Nat
    PROVE  Zeros(n) \in Seq(Byte) /\ Len(Zeros(n)) = n
<1>1. 0 \in Byte
  BY Sizes DEF Byte
<1> QED
  BY <1>1 DEF Zeros

(* Growing leaves what is held and makes the room asked for.               *)
LEMMA GrownHolds ==
    ASSUME NEW w, NEW s, Holds(w, s), NEW need \in Nat
    PROVE  Holds(Grow(w, need), s) /\ Len(Grow(w, need).buf) >= Len(s) + need
<1>1. PICK b : b = w.buf
  OBVIOUS
<1>2. PICK l \in Nat \ {0} : l = Len(b)
  BY <1>1 DEF Holds
<1>3. PICK n \in Nat : n = Len(s)
  BY DEF Holds
<1>4. w.n = n /\ b \in Seq(Byte) /\ l >= n /\ s \in Seq(Byte)
  BY <1>1, <1>2, <1>3 DEF Holds
<1>5. n + need \in Nat
  OBVIOUS
<1>6. PICK cap \in Nat : cap = Doubled(n + need)[l] /\ cap >= n + need /\ cap >= l
  BY <1>5, DoublesEnough
<1>7. PICK z : z = Zeros(cap - l) /\ z \in Seq(Byte) /\ Len(z) = cap - l
  <2>1. PICK more \in Nat : more = cap - l
    BY <1>6
  <2>2. Zeros(more) \in Seq(Byte) /\ Len(Zeros(more)) = more
    BY ZerosAreBytes
  <2> QED
    BY <2>1, <2>2
<1>8. PICK c : c = b \o z /\ c \in Seq(Byte) /\ Len(c) = cap /\ \A j \in 1..l : c[j] = b[j]
  <2>1. PICK c : c = b \o z
    OBVIOUS
  <2>2. c \in Seq(Byte) /\ Len(c) = l + (cap - l) /\ \A j \in 1..l : c[j] = b[j]
    BY <1>2, <1>4, <1>7, <2>1, JoinedAs
  <2>3. Len(c) = cap
    BY <1>6, <2>2
  <2> QED
    BY <2>1, <2>2, <2>3
<1>9. Grow(w, need) = [w EXCEPT !.buf = c]
  BY <1>1, <1>2, <1>4, <1>6, <1>7, <1>8 DEF Grow
<1>10. Grow(w, need) = [buf |-> c, n |-> w.n, threw |-> w.threw]
  BY <1>9 DEF Holds
<1>11. \A j \in 1..n : c[j] = s[j]
  BY <1>1, <1>3, <1>4, <1>8 DEF Holds
<1>12. Holds(Grow(w, need), s)
  BY <1>3, <1>4, <1>6, <1>8, <1>10, <1>11 DEF Holds
<1> QED
  BY <1>3, <1>6, <1>8, <1>10, <1>12

(* The bytes s with those from at on replaced by t.                        *)
Over(s, at, t) ==
    [j \in 1..Len(s) |-> IF j \in (at + 1)..(at + Len(t)) THEN t[j - at] ELSE s[j]]

(* It is as long as s.                                                     *)
LEMMA OverBytes ==
    ASSUME NEW s \in Seq(Byte), NEW t \in Seq(Byte), NEW at \in Nat
    PROVE  Over(s, at, t) \in Seq(Byte) /\ Len(Over(s, at, t)) = Len(s)
<1>1. PICK n \in Nat : n = Len(s)
  OBVIOUS
<1>2. PICK m \in Nat : m = Len(t)
  OBVIOUS
<1>3. ASSUME NEW j \in 1..n
      PROVE  (IF j \in (at + 1)..(at + m) THEN t[j - at] ELSE s[j]) \in Byte
  <2>1. s[j] \in Byte
    BY <1>1
  <2>2. CASE j \in (at + 1)..(at + m)
    <3>1. j - at \in 1..m
      BY <2>2
    <3> QED
      BY <1>2, <2>2, <3>1
  <2> QED
    BY <2>1, <2>2
<1> QED
  BY <1>1, <1>2, <1>3 DEF Over

(* A poke within the buffer writes over it.                                *)
LEMMA Poked ==
    ASSUME NEW w \in [buf : Seq(Byte), n : Nat, threw : BOOLEAN], NEW t \in Seq(Byte),
           NEW at \in Nat, at + Len(t) <= Len(w.buf)
    PROVE  Poke(w, at, t) = [buf |-> Over(w.buf, at, t), n |-> w.n, threw |-> w.threw]
<1>1. DOMAIN w.buf = 1..Len(w.buf)
  OBVIOUS
<1>2. Poke(w, at, t) = [w EXCEPT !.buf = Over(w.buf, at, t)]
  <2>1. ~ (at + Len(t) > Len(w.buf))
    OBVIOUS
  <2> QED
    BY <1>1, <2>1 DEF Poke, Over
<1> QED
  BY <1>2

(* A patch within what is held is a patch of what is held.                 *)
LEMMA PokeHolds ==
    ASSUME NEW w, NEW s, Holds(w, s), NEW t \in Seq(Byte), NEW at \in Nat,
           at + Len(t) <= Len(s)
    PROVE  Holds(Poke(w, at, t), Over(s, at, t))
<1>1. PICK b : b = w.buf
  OBVIOUS
<1>2. PICK n \in Nat : n = Len(s)
  BY DEF Holds
<1>3. PICK m \in Nat : m = Len(t)
  OBVIOUS
<1>4. /\ b \in Seq(Byte) /\ s \in Seq(Byte) /\ Len(b) >= n /\ Len(b) > 0
      /\ \A j \in 1..n : b[j] = s[j]
      /\ w.n = n /\ w.threw = FALSE
  BY <1>1, <1>2 DEF Holds
<1>5. PICK o : o = Over(b, at, t) /\ o \in Seq(Byte) /\ Len(o) = Len(b)
  BY <1>4, OverBytes
<1>6. PICK p : p = Over(s, at, t) /\ p \in Seq(Byte) /\ Len(p) = n
  BY <1>2, <1>4, OverBytes
<1>7. Poke(w, at, t) = [buf |-> o, n |-> n, threw |-> FALSE]
  <2>1. at + Len(t) <= Len(w.buf) /\ w \in [buf : Seq(Byte), n : Nat, threw : BOOLEAN]
    BY <1>1, <1>2, <1>3, <1>4 DEF Holds
  <2> QED
    BY <1>1, <1>4, <1>5, <2>1, Poked
<1>8. ASSUME NEW j \in 1..n PROVE o[j] = p[j]
  <2>1. j \in 1..Len(b)
    BY <1>4
  <2>2. b[j] = s[j]
    BY <1>4
  <2> QED
    BY <1>2, <1>5, <1>6, <2>1, <2>2 DEF Over
<1> QED
  BY <1>2, <1>4, <1>5, <1>6, <1>7, <1>8 DEF Holds

(* What is put is held after what was.                                     *)
LEMMA PutHolds ==
    ASSUME NEW w, NEW s, Holds(w, s), NEW t \in Seq(Byte), Len(s) + Len(t) <= Len(w.buf)
    PROVE  Holds(Put(w, t), s \o t)
<1>1. PICK b : b = w.buf
  OBVIOUS
<1>2. PICK n \in Nat : n = Len(s)
  BY DEF Holds
<1>3. PICK m \in Nat : m = Len(t)
  OBVIOUS
<1>4. /\ b \in Seq(Byte) /\ s \in Seq(Byte) /\ Len(b) >= n + m /\ Len(b) > 0
      /\ \A j \in 1..n : b[j] = s[j]
      /\ w.n = n /\ w.threw = FALSE
  BY <1>1, <1>2, <1>3 DEF Holds
<1>5. PICK o : o = Over(b, n, t) /\ o \in Seq(Byte) /\ Len(o) = Len(b)
  BY <1>4, OverBytes
<1>6. PICK p : /\ p = s \o t /\ p \in Seq(Byte) /\ Len(p) = n + m
               /\ \A j \in 1..n : p[j] = s[j]
               /\ \A j \in 1..m : p[n + j] = t[j]
  <2>1. PICK p : p = s \o t
    OBVIOUS
  <2>2. s \in Seq(Byte) /\ t \in Seq(Byte)
    BY <1>4
  <2>3. /\ p \in Seq(Byte) /\ Len(p) = n + m
        /\ \A j \in 1..n : p[j] = s[j]
        /\ \A j \in 1..m : p[n + j] = t[j]
    BY <1>2, <1>3, <2>1, <2>2, JoinedAs
  <2> QED
    BY <2>1, <2>3
<1>7. Poke(w, w.n, t) = [buf |-> o, n |-> n, threw |-> FALSE]
  <2>1. n + Len(t) <= Len(w.buf) /\ w \in [buf : Seq(Byte), n : Nat, threw : BOOLEAN]
    BY <1>1, <1>3, <1>4 DEF Holds
  <2> QED
    BY <1>1, <1>4, <1>5, <2>1, Poked
<1>8. Put(w, t) = [buf |-> o, n |-> n + m, threw |-> FALSE]
  <2>1. PICK a : a = Poke(w, w.n, t)
    OBVIOUS
  <2>2. a = [buf |-> o, n |-> n, threw |-> FALSE]
    BY <1>7, <2>1
  <2>3. Put(w, t) = IF a.threw THEN a ELSE [a EXCEPT !.n = @ + m]
    BY <1>3, <2>1 DEF Put
  <2>4. a.n + m = n + m
    BY <2>2
  <2>5. [a EXCEPT !.n = @ + m] = [a EXCEPT !.n = n + m]
    BY <2>4
  <2>6. PICK k : k = n + m
    OBVIOUS
  <2>7. [a EXCEPT !.n = k] = [buf |-> o, n |-> k, threw |-> FALSE]
    <3>1. a \in [buf : Seq(Byte), n : Nat, threw : BOOLEAN]
      BY <1>5, <2>2
    <3>2. [a EXCEPT !.n = k] = [buf |-> a.buf, n |-> k, threw |-> a.threw]
      BY <3>1
    <3> QED
      BY <2>2, <3>2
  <2> QED
    <3>1. a.threw = FALSE
      BY <2>2
    <3>2. Put(w, t) = [a EXCEPT !.n = @ + m]
      BY <2>3, <3>1
    <3> QED
      BY <2>5, <2>6, <2>7, <3>2, Zenon
<1>9. ASSUME NEW j \in 1..(n + m) PROVE o[j] = p[j]
  <2>1. j \in 1..Len(b)
    BY <1>4
  <2>2. o[j] = IF j \in (n + 1)..(n + m) THEN t[j - n] ELSE b[j]
    BY <1>3, <1>5, <2>1 DEF Over
  <2>3. CASE j \in 1..n
    BY <1>4, <1>6, <2>2, <2>3
  <2>4. CASE j \in (n + 1)..(n + m)
    <3>1. PICK k \in 1..m : k = j - n /\ j = n + k
      BY <2>4
    <3> QED
      BY <1>6, <2>2, <2>4, <3>1
  <2> QED
    BY <2>3, <2>4
<1>10. PICK r : r = Put(w, t) /\ r = [buf |-> o, n |-> n + m, threw |-> FALSE]
  BY <1>8
<1>11. Len(o) >= n + m /\ Len(o) > 0 /\ n + m \in Nat
  BY <1>4, <1>5
<1>12. Holds(r, p)
  BY <1>5, <1>6, <1>9, <1>10, <1>11 DEF Holds
<1> QED
  BY <1>6, <1>10, <1>12

(* And with the room made first.                                           *)
LEMMA PutFixedHolds ==
    ASSUME NEW w, NEW s, Holds(w, s), NEW t \in Seq(Byte)
    PROVE  Holds(PutFixed(w, t), s \o t)
<1>1. PICK g : g = Grow(w, Len(t))
  OBVIOUS
<1>2. Len(t) \in Nat
  OBVIOUS
<1>3. Holds(g, s) /\ Len(g.buf) >= Len(s) + Len(t)
  BY <1>1, <1>2, GrownHolds
<1>4. Len(s) \in Nat /\ Len(g.buf) \in Nat
  BY <1>3 DEF Holds
<1>5. Holds(Put(g, t), s \o t)
  <2>1. Len(s) + Len(t) <= Len(g.buf)
    BY <1>2, <1>3, <1>4
  <2> QED
    BY <1>3, <2>1, PutHolds
<1> QED
  BY <1>1, <1>5 DEF PutFixed

(* The length before a string of bytes.                                    *)
LEMMA GoBytesBytes ==
    ASSUME NEW v \in Seq(Byte)
    PROVE  /\ GoBytes(v) \in Seq(Byte) /\ Len(GoBytes(v)) = 4 + Len(v)
           /\ LE(4, Len(v)) \in Seq(Byte) /\ Len(LE(4, Len(v))) = 4
<1>1. PICK h : h = LE(4, Len(v)) /\ h \in Seq(Byte) /\ Len(h) = 4
  <2>1. 4 \in {1, 2, 4, 8} /\ Len(v) \in Int
    OBVIOUS
  <2> QED
    BY <2>1, NumeralRead
<1>2. PICK c : c = h \o v
  OBVIOUS
<1>3. c \in Seq(Byte) /\ Len(c) = 4 + Len(v)
  <2>1. PICK m \in Nat : m = 4 /\ m = Len(h)
    BY <1>1
  <2>2. PICK n \in Nat : n = Len(v)
    OBVIOUS
  <2>3. h \in Seq(Byte) /\ m = Len(h)
    BY <1>1, <2>1
  <2>4. c \in Seq(Byte) /\ Len(c) = m + n
    BY <1>2, <2>2, <2>3, JoinedAs
  <2> QED
    BY <2>1, <2>2, <2>4
<1> QED
  BY <1>1, <1>2, <1>3 DEF GoBytes

(* Joining is associative.                                                 *)
LEMMA JoinedTwice ==
    ASSUME NEW S, NEW s \in Seq(S), NEW t \in Seq(S), NEW u \in Seq(S)
    PROVE  (s \o t) \o u = s \o (t \o u)
<1>1. PICK n \in Nat : n = Len(s)
  OBVIOUS
<1>2. PICK m \in Nat : m = Len(t)
  OBVIOUS
<1>3. PICK l \in Nat : l = Len(u)
  OBVIOUS
<1>4. PICK a : a = s \o t
  OBVIOUS
<1>5. PICK b : b = t \o u
  OBVIOUS
<1>6. PICK c : c = a \o u
  OBVIOUS
<1>7. PICK d : d = s \o b
  OBVIOUS
<1>8. /\ a \in Seq(S) /\ Len(a) = n + m
      /\ \A j \in 1..n : a[j] = s[j]
      /\ \A j \in 1..m : a[n + j] = t[j]
  BY <1>1, <1>2, <1>4, JoinedAs
<1>9. /\ b \in Seq(S) /\ Len(b) = m + l
      /\ \A j \in 1..m : b[j] = t[j]
      /\ \A j \in 1..l : b[m + j] = u[j]
  BY <1>2, <1>3, <1>5, JoinedAs
<1>10. /\ c \in Seq(S) /\ Len(c) = (n + m) + l
       /\ \A j \in 1..(n + m) : c[j] = a[j]
       /\ \A j \in 1..l : c[(n + m) + j] = u[j]
  <2>1. PICK k : k = n + m /\ k = Len(a)
    BY <1>8
  <2>0. a \in Seq(S) /\ k = Len(a)
    BY <1>8, <2>1
  <2>2. /\ c \in Seq(S) /\ Len(c) = k + l
        /\ \A j \in 1..k : c[j] = a[j]
        /\ \A j \in 1..l : c[k + j] = u[j]
    BY <1>3, <1>6, <2>0, JoinedAs
  <2> QED
    BY <2>1, <2>2
<1>11. /\ d \in Seq(S) /\ Len(d) = n + (m + l)
       /\ \A j \in 1..n : d[j] = s[j]
       /\ \A j \in 1..(m + l) : d[n + j] = b[j]
  <2>1. PICK k : k = m + l /\ k = Len(b)
    BY <1>9
  <2>0. b \in Seq(S) /\ k = Len(b)
    BY <1>9, <2>1
  <2>2. /\ d \in Seq(S) /\ Len(d) = n + k
        /\ \A j \in 1..n : d[j] = s[j]
        /\ \A j \in 1..k : d[n + j] = b[j]
    BY <1>1, <1>7, <2>0, JoinedAs
  <2> QED
    BY <2>1, <2>2
<1>12. PICK len \in Nat : len = Len(c) /\ len = Len(d) /\ len = n + m + l
  BY <1>10, <1>11
<1>13. ASSUME NEW j \in 1..len PROVE c[j] = d[j]
  <2>1. CASE j \in 1..n
    BY <1>8, <1>10, <1>11, <2>1
  <2>2. CASE j \in (n + 1)..(n + m)
    <3>1. PICK k \in 1..m : j = n + k
      <4>1. j - n \in 1..m /\ j = n + (j - n)
        BY <2>2
      <4> QED
        BY <4>1
    <3>2. a[n + k] = t[k] /\ b[k] = t[k]
      BY <1>8, <1>9
    <3>3. c[n + k] = a[n + k]
      BY <1>10
    <3>4. d[n + k] = b[k]
      BY <1>11
    <3> QED
      BY <3>1, <3>2, <3>3, <3>4
  <2>3. CASE j \in (n + m + 1)..len
    <3>1. PICK k \in 1..l : j = (n + m) + k
      <4>1. j - (n + m) \in 1..l /\ j = (n + m) + (j - (n + m))
        BY <1>12, <2>3
      <4> QED
        BY <4>1
    <3>2. c[(n + m) + k] = u[k]
      BY <1>10
    <3>3. b[m + k] = u[k]
      BY <1>9
    <3>4. d[n + (m + k)] = b[m + k] /\ n + (m + k) = (n + m) + k
      BY <1>11
    <3> QED
      BY <3>1, <3>2, <3>3, <3>4
  <2> QED
    BY <1>12, <2>1, <2>2, <2>3
<1>14. c = d
  BY <1>10, <1>11, <1>12, <1>13
<1> QED
  BY <1>4, <1>5, <1>6, <1>7, <1>14

(* Bytes with their length.                                                *)
LEMMA PutBytesHolds ==
    ASSUME NEW w, NEW s, Holds(w, s), NEW v \in Seq(Byte)
    PROVE  Holds(PutBytes(w, v), s \o GoBytes(v))
<1>1. PICK h : h = LE(4, Len(v)) /\ h \in Seq(Byte)
  BY GoBytesBytes
<1>2. PICK p : p = PutFixed(w, h)
  OBVIOUS
<1>3. PICK q : q = s \o h
  OBVIOUS
<1>4. Holds(p, q)
  BY <1>1, <1>2, <1>3, PutFixedHolds
<1>5. PutBytes(w, v) = PutFixed(p, v)
  BY <1>1, <1>2 DEF PutBytes, PutFixed
<1>6. Holds(PutFixed(p, v), q \o v)
  BY <1>4, PutFixedHolds
<1>7. q \o v = s \o (h \o v)
  <2>1. s \in Seq(Byte)
    BY DEF Holds
  <2> QED
    BY <1>1, <1>3, <2>1, JoinedTwice
<1>8. h \o v = GoBytes(v)
  BY <1>1 DEF GoBytes
<1> QED
  BY <1>5, <1>6, <1>7, <1>8

(* All the characters of a string fit in what is reserved for it.          *)
LEMMA PutStrHolds ==
    ASSUME NEW w, NEW s, Holds(w, s), NEW chars \in Seq(Char)
    PROVE  Holds(PutStr(w, chars), s \o GoBytes(Utf8(chars)))
<1>1. PICK u \in Nat : u = Units(chars)
  BY RoomForString
<1>2. PICK e \in Seq(Byte) : e = Utf8(chars) /\ Len(e) <= 3 * u
  BY <1>1, RoomForString
<1>3. PICK g : g = Grow(w, 4 + 3 * u)
  OBVIOUS
<1>4. Holds(g, s) /\ Len(g.buf) >= Len(s) + (4 + 3 * u)
  <2>1. 4 + 3 * u \in Nat
    OBVIOUS
  <2> QED
    BY <1>3, <2>1, GrownHolds
<1>5. PICK n \in Nat : n = Len(chars) /\ Prefix(chars)[n] = e
  BY <1>2, PrefixDef DEF Utf8
<1>6. PICK room : room = Len(g.buf) - (g.n + 4)
  OBVIOUS
<1>7. Len(e) <= room
  <2>1. g.n = Len(s) /\ Len(s) \in Nat /\ Len(g.buf) \in Nat /\ Len(e) \in Nat
    BY <1>4 DEF Holds
  <2> QED
    BY <1>2, <1>4, <1>6, <2>1
<1>8. PICK all : all = {j \in 0..n : Len(Prefix(chars)[j]) <= room} \cup {0}
  OBVIOUS
<1>9. n \in all /\ \A j \in all : j \in 0..n /\ n >= j
  BY <1>5, <1>7, <1>8
<1>10. Max(all) = n
  <2>1. \A m \in all : (\A j \in all : m >= j) => m = n
    BY <1>9
  <2>2. Max(all) = CHOOSE m \in all : \A j \in all : m >= j
    BY DEF Max
  <2> QED
    BY <1>9, <2>1, <2>2
<1>11. PutStr(w, chars) = Put(g, GoBytes(e))
  BY <1>1, <1>3, <1>5, <1>6, <1>8, <1>10 DEF PutStr, Reserve
<1>12. PICK b : b = GoBytes(e) /\ b \in Seq(Byte) /\ Len(b) = 4 + Len(e)
  BY GoBytesBytes
<1>13. Len(s) + Len(b) <= Len(g.buf)
  <2>1. Len(s) \in Nat /\ Len(g.buf) \in Nat /\ Len(e) \in Nat
    BY <1>4 DEF Holds
  <2> QED
    BY <1>2, <1>4, <1>12, <2>1
<1>14. Holds(Put(g, b), s \o b)
  BY <1>4, <1>12, <1>13, PutHolds
<1> QED
  BY <1>2, <1>11, <1>12, <1>14

(* The types of the numbers.                                               *)
Numbers == {"u8", "u16", "u32", "i32", "i64", "f64"}

(* The types of a field, and what each may hold.                           *)
LEMMA FieldTypes ==
    ASSUME NEW f, IsField(f)
    PROVE  /\ DOMAIN Width = Numbers
           /\ f.t \in Numbers \cup {"bool", "bytes", "str", "nstr"} \cup Values
           /\ f.t \in Numbers =>
                 f.v \in IF f.t \in {"i32", "i64"} THEN Signeds(Width[f.t])
                         ELSE Unsigneds(Width[f.t])
           /\ f.t = "int" => f.v \in Signeds(Width["i64"])
           /\ f.t = "real" => f.v \in Unsigneds(Width["f64"])
           /\ f.t = "bool" => f.v \in BOOLEAN
           /\ f.t \in {"bytes", "blob"} => IsBytes(f.v)
           /\ f.t \in {"str", "text"} => IsString(f.v)
           /\ f.t = "nstr" => f.v = Null \/ IsString(f.v)
           /\ f.t = "null" => f.v = Null
<1>1. DOMAIN Width = Numbers /\ Width["i64"] = 8 /\ Width["f64"] = 8
  BY DEF Width, Numbers
<1> QED
  BY <1>1 DEF IsField, Values, Numbers

(* The values of a number are integers.                                    *)
LEMMA RangesAreInts ==
    ASSUME NEW t \in Numbers
    PROVE  Width[t] \in {1, 2, 4, 8} /\ Signeds(Width[t]) \subseteq Int
           /\ Unsigneds(Width[t]) \subseteq Int
<1>1. PICK n : n = Width[t] /\ n \in {1, 2, 4, 8}
  BY DEF Width, Numbers
<1>2. PICK size \in Nat \ {0} : size = Size(n)
  BY <1>1, Sizes DEF Size
<1>3. PICK half \in Int : half = size \div 2
  OBVIOUS
<1>4. Signeds(n) = (half - size)..(half - 1) /\ Unsigneds(n) = 0..(size - 1)
  BY <1>2, <1>3 DEF Signeds, Unsigneds
<1> QED
  BY <1>1, <1>4

(* A number in its width.                                                  *)
LEMMA NumberBytes ==
    ASSUME NEW t \in Numbers, NEW v \in Int
    PROVE  LE(Width[t], v) \in Seq(Byte) /\ Len(LE(Width[t], v)) = Width[t]
BY RangesAreInts, NumeralRead

(* A tag is a byte.                                                        *)
LEMMA TagBytes ==
    ASSUME NEW tag \in 0..4
    PROVE  <<tag>> \in Seq(Byte) /\ Len(<<tag>>) = 1 /\ tag \in Byte
<1>1. tag \in Byte
  BY Sizes DEF Byte
<1> QED
  BY <1>1

(* What a writer has done that has put a tag before the bytes of a value.  *)
TaggedAs(w, s, tag, x, q, y) ==
    /\ Holds(PutFixed(w, <<tag>>), q) /\ q \o x = s \o y
    /\ y = <<tag>> \o x /\ y \in Seq(Byte) /\ Len(y) = 1 + Len(x)
    /\ y[1] = tag /\ \A j \in 1..Len(x) : y[1 + j] = x[j]

(* Any that held bytes does.                                               *)
LEMMA TaggedHolds ==
    ASSUME NEW w, NEW s, Holds(w, s), NEW tag \in 0..4, NEW x \in Seq(Byte)
    PROVE  \E q, y : TaggedAs(w, s, tag, x, q, y)
<1>1. PICK a : a = <<tag>>
  OBVIOUS
<1>2. a \in Seq(Byte) /\ Len(a) = 1 /\ s \in Seq(Byte) /\ a[1] = tag
  BY <1>1, TagBytes DEF Holds
<1>3. PICK q : q = s \o a
  OBVIOUS
<1>4. PICK y : y = a \o x
  OBVIOUS
<1>5. Holds(PutFixed(w, a), q)
  BY <1>2, <1>3, PutFixedHolds
<1>6. q \o x = s \o y
  BY <1>2, <1>3, <1>4, JoinedTwice
<1>7. /\ y \in Seq(Byte) /\ Len(y) = 1 + Len(x)
      /\ y[1] = a[1] /\ \A j \in 1..Len(x) : y[1 + j] = x[j]
  <2>1. PICK n \in Nat : n = 1 /\ n = Len(a)
    BY <1>2
  <2>2. PICK m \in Nat : m = Len(x)
    OBVIOUS
  <2>3. a \in Seq(Byte) /\ n = Len(a)
    BY <1>2, <2>1
  <2>4. /\ y \in Seq(Byte) /\ Len(y) = n + m
        /\ \A j \in 1..n : y[j] = a[j]
        /\ \A j \in 1..m : y[n + j] = x[j]
    BY <1>4, <2>2, <2>3, JoinedAs
  <2>5. y[1] = a[1]
    <3>1. 1 \in 1..n
      BY <2>1
    <3> QED
      BY <2>4, <3>1
  <2>6. \A j \in 1..m : y[1 + j] = x[j]
    BY <2>1, <2>4
  <2>7. Len(y) = 1 + m
    BY <2>1, <2>4
  <2> QED
    BY <2>2, <2>4, <2>5, <2>6, <2>7, Zenon
<1>8. TaggedAs(w, s, tag, x, q, y)
  BY <1>1, <1>2, <1>4, <1>5, <1>6, <1>7 DEF TaggedAs
<1> QED
  BY <1>8

(* The length of an absent string is a u32.                                *)
LEMMA AbsentIsLast ==
    /\ Absent \in Nat /\ Absent \in Unsigneds(4) /\ Absent > 5
    /\ LE(4, Absent) \in Seq(Byte) /\ Len(LE(4, Absent)) = 4
<1>1. Size(4) = Size4 /\ Absent = Size4 - 1 /\ Size4 \in Nat /\ Size4 > 6
  <2>1. Size2 >= Base /\ Size4 >= Size2 /\ Base >= 6 /\ Size2 \in Nat /\ Size4 \in Nat
    BY Sizes
  <2>2. Base * 2 <= Size2
    <3>1. PICK b \in Nat : b = Base /\ b >= 6
      BY Sizes
    <3>2. b * 2 <= b * b
      BY <3>1
    <3> QED
      BY <3>1, <3>2 DEF Size2
  <2> QED
    BY <2>1, <2>2, Sizes DEF Size, Absent
<1>2. Absent \in Nat /\ Absent \in Unsigneds(4) /\ Absent > 5
  BY <1>1 DEF Unsigneds
<1> QED
  BY <1>2, NumeralRead

(* What a writer appends of a field are bytes, and both append the same.   *)
LEMMA PutFieldHolds ==
    ASSUME NEW w, NEW s, Holds(w, s), NEW f, IsField(f)
    PROVE  Holds(PutField(w, f), s \o GoField(f)) /\ GoField(f) \in Seq(Byte)
<1>1. CASE f.t \in Numbers
  <2>1. f.v \in Int /\ f.t \in DOMAIN Width
    BY <1>1, FieldTypes, RangesAreInts
  <2>2. PICK x : x = LE(Width[f.t], f.v) /\ x \in Seq(Byte)
    BY <1>1, <2>1, NumberBytes
  <2>3. GoField(f) = LE(Width[f.t], f.v)
    BY <1>1, <2>1 DEF GoField, Width, Numbers
  <2>4. PutField(w, f) = PutFixed(w, LE(Width[f.t], f.v))
    BY <1>1, <2>1 DEF PutField, Width, Numbers
  <2>5. Holds(PutFixed(w, x), s \o x)
    BY <2>2, PutFixedHolds
  <2> QED
    BY <2>2, <2>3, <2>4, <2>5, Zenon
<1>2. CASE f.t = "bool"
  <2>1. PICK x : x = <<IF f.v THEN 1 ELSE 0>> /\ x \in Seq(Byte)
    <3>1. PICK k \in 0..4 : k = IF f.v THEN 1 ELSE 0
      OBVIOUS
    <3> QED
      BY <3>1, TagBytes
  <2>2. GoField(f) = x /\ PutField(w, f) = PutFixed(w, x)
    BY <1>2, <2>1 DEF GoField, PutField, Width
  <2> QED
    BY <2>1, <2>2, PutFixedHolds
<1>3. CASE f.t = "bytes"
  <2>1. f.v \in Seq(Byte)
    BY <1>3, FieldTypes DEF IsBytes
  <2>2. GoField(f) = GoBytes(f.v) /\ PutField(w, f) = PutBytes(w, f.v)
    BY <1>3 DEF GoField, PutField, Width
  <2> QED
    BY <2>1, <2>2, PutBytesHolds, GoBytesBytes
<1>4. CASE f.t = "str" \/ (f.t = "nstr" /\ f.v # Null)
  <2>1. f.v \in Seq(Char)
    BY <1>4, FieldTypes DEF IsString
  <2>2. GoField(f) = GoBytes(Utf8(f.v)) /\ PutField(w, f) = PutStr(w, f.v)
    BY <1>4 DEF GoField, PutField, Width
  <2>3. Utf8(f.v) \in Seq(Byte)
    BY <2>1, RoomForString
  <2>4. Holds(PutStr(w, f.v), s \o GoBytes(Utf8(f.v)))
    BY <2>1, PutStrHolds
  <2>5. GoBytes(Utf8(f.v)) \in Seq(Byte)
    BY <2>3, GoBytesBytes
  <2> QED
    BY <2>2, <2>4, <2>5, Zenon
<1>5. CASE f.t = "nstr" /\ f.v = Null
  <2>1. PICK x : x = LE(4, Absent) /\ x \in Seq(Byte)
    BY AbsentIsLast
  <2>2. GoField(f) = x /\ PutField(w, f) = PutFixed(w, x)
    BY <1>5, <2>1 DEF GoField, PutField, Width
  <2> QED
    BY <2>1, <2>2, PutFixedHolds
<1>6. CASE f.t = "null"
  <2>1. PICK x : x = <<TagNull>> /\ x \in Seq(Byte)
    <3>1. PICK k \in 0..4 : k = TagNull
      BY DEF TagNull
    <3> QED
      BY <3>1, TagBytes
  <2>2. GoField(f) = x /\ PutField(w, f) = PutFixed(w, x)
    BY <1>6, <2>1 DEF GoField, PutField, Width
  <2> QED
    BY <2>1, <2>2, PutFixedHolds
<1>7. ASSUME NEW tag \in 0..4, NEW x \in Seq(Byte),
             PutField(w, f) = PutFixed(PutFixed(w, <<tag>>), x), GoField(f) = <<tag>> \o x
      PROVE  Holds(PutField(w, f), s \o GoField(f)) /\ GoField(f) \in Seq(Byte)
  <2>1. PICK q, y : TaggedAs(w, s, tag, x, q, y)
    BY TaggedHolds
  <2>2. PICK p : p = PutFixed(w, <<tag>>)
    OBVIOUS
  <2>3. Holds(p, q) /\ q \o x = s \o (<<tag>> \o x) /\ <<tag>> \o x \in Seq(Byte)
    BY <2>1, <2>2, Zenon DEF TaggedAs
  <2>4. Holds(PutFixed(p, x), q \o x)
    BY <2>3, PutFixedHolds
  <2> QED
    BY <1>7, <2>2, <2>3, <2>4, Zenon
<1>8. CASE f.t = "int"
  <2>1. f.v \in Int /\ Width["i64"] = 8 /\ "i64" \in Numbers
    BY <1>8, FieldTypes, RangesAreInts DEF Width, Numbers
  <2>2. LE(8, f.v) \in Seq(Byte)
    BY <2>1, NumberBytes
  <2>3. GoField(f) = <<TagInt>> \o LE(8, f.v)
        /\ PutField(w, f) = PutFixed(PutFixed(w, <<TagInt>>), LE(8, f.v))
    BY <1>8 DEF GoField, PutField, Width
  <2>4. TagInt \in 0..4
    BY DEF TagInt
  <2> QED
    BY <1>7, <2>2, <2>3, <2>4
<1>9. CASE f.t = "real"
  <2>1. f.v \in Int /\ Width["f64"] = 8 /\ "f64" \in Numbers
    BY <1>9, FieldTypes, RangesAreInts DEF Width, Numbers
  <2>2. LE(8, f.v) \in Seq(Byte)
    BY <2>1, NumberBytes
  <2>3. GoField(f) = <<TagReal>> \o LE(8, f.v)
        /\ PutField(w, f) = PutFixed(PutFixed(w, <<TagReal>>), LE(8, f.v))
    BY <1>9 DEF GoField, PutField, Width
  <2>4. TagReal \in 0..4
    BY DEF TagReal
  <2> QED
    BY <1>7, <2>2, <2>3, <2>4
<1>10. CASE f.t = "text"
  <2>1. f.v \in Seq(Char) /\ Utf8(f.v) \in Seq(Byte)
    BY <1>10, FieldTypes, RoomForString DEF IsString
  <2>2. PICK x \in Seq(Byte) : x = GoBytes(Utf8(f.v))
    BY <2>1, GoBytesBytes
  <2>3. TagText \in 0..4
    BY DEF TagText
  <2>4. PICK p : p = PutFixed(w, <<TagText>>)
    OBVIOUS
  <2>5. PICK q, y : TaggedAs(w, s, TagText, x, q, y)
    BY <2>3, TaggedHolds
  <2>6. Holds(p, q) /\ q \o x = s \o (<<TagText>> \o x) /\ <<TagText>> \o x \in Seq(Byte)
    BY <2>4, <2>5, Zenon DEF TaggedAs
  <2>7. Holds(PutStr(p, f.v), q \o x)
    BY <2>1, <2>2, <2>6, PutStrHolds
  <2>8. GoField(f) = <<TagText>> \o x /\ PutField(w, f) = PutStr(p, f.v)
    BY <1>10, <2>2, <2>4 DEF GoField, PutField, Width
  <2> QED
    BY <2>6, <2>7, <2>8
<1>11. CASE f.t = "blob"
  <2>1. f.v \in Seq(Byte)
    BY <1>11, FieldTypes DEF IsBytes
  <2>2. PICK x \in Seq(Byte) : x = GoBytes(f.v)
    BY <2>1, GoBytesBytes
  <2>3. TagBlob \in 0..4
    BY DEF TagBlob
  <2>4. PICK p : p = PutFixed(w, <<TagBlob>>)
    OBVIOUS
  <2>5. PICK q, y : TaggedAs(w, s, TagBlob, x, q, y)
    BY <2>3, TaggedHolds
  <2>6. Holds(p, q) /\ q \o x = s \o (<<TagBlob>> \o x) /\ <<TagBlob>> \o x \in Seq(Byte)
    BY <2>4, <2>5, Zenon DEF TaggedAs
  <2>7. Holds(PutBytes(p, f.v), q \o x)
    BY <2>1, <2>2, <2>6, PutBytesHolds
  <2>8. GoField(f) = <<TagBlob>> \o x /\ PutField(w, f) = PutBytes(p, f.v)
    BY <1>11, <2>2, <2>4 DEF GoField, PutField, Width
  <2> QED
    BY <2>6, <2>7, <2>8
<1> QED
  BY <1>1, <1>2, <1>3, <1>4, <1>5, <1>6, <1>8, <1>9, <1>10, <1>11, FieldTypes DEF Values

-----------------------------------------------------------------------------

(* What the header of a frame is, byte by byte.                            *)
LEMMA HeaderBytes ==
    ASSUME NEW op \in Byte, NEW fl \in Int, NEW id \in Int, NEW h, h = GoHeader(op, fl, id)
    PROVE  /\ h \in Seq(Byte) /\ Len(h) = 8
           /\ h[1] = Version /\ h[2] = op
           /\ \A j \in 1..2 : h[2 + j] = LE(2, fl)[j]
           /\ \A j \in 1..4 : h[4 + j] = LE(4, id)[j]
<1>1. PICK a : a = <<Version, op>>
  OBVIOUS
<1>2. a \in Seq(Byte) /\ Len(a) = 2 /\ a[1] = Version /\ a[2] = op
  <2>1. Version \in Byte
    BY Sizes DEF Byte, Version
  <2> QED
    BY <1>1, <2>1
<1>3. PICK b : b = LE(2, fl) /\ b \in Seq(Byte) /\ Len(b) = 2
  BY NumeralRead
<1>4. PICK c : c = LE(4, id) /\ c \in Seq(Byte) /\ Len(c) = 4
  BY NumeralRead
<1>5. PICK d : d = a \o b
  OBVIOUS
<1>6. /\ d \in Seq(Byte) /\ Len(d) = 4
      /\ \A j \in 1..2 : d[j] = a[j]
      /\ \A j \in 1..2 : d[2 + j] = b[j]
  <2>1. PICK n \in Nat : n = 2
    OBVIOUS
  <2>2. PICK m \in Nat : m = 2
    OBVIOUS
  <2>3. a \in Seq(Byte) /\ b \in Seq(Byte) /\ n = Len(a) /\ m = Len(b)
    BY <1>2, <1>3, <2>1, <2>2
  <2>4. /\ d \in Seq(Byte) /\ Len(d) = n + m
        /\ \A j \in 1..n : d[j] = a[j]
        /\ \A j \in 1..m : d[n + j] = b[j]
    BY <1>5, <2>3, JoinedAs
  <2>5. n + m = 4
    BY <2>1, <2>2
  <2> QED
    BY <2>1, <2>2, <2>4, <2>5
<1>7. h = d \o c
  BY <1>1, <1>3, <1>4, <1>5 DEF GoHeader
<1>8. /\ h \in Seq(Byte) /\ Len(h) = 8
      /\ \A j \in 1..4 : h[j] = d[j]
      /\ \A j \in 1..4 : h[4 + j] = c[j]
  <2>1. PICK n \in Nat : n = 4
    OBVIOUS
  <2>2. PICK m \in Nat : m = 4
    OBVIOUS
  <2>3. d \in Seq(Byte) /\ c \in Seq(Byte) /\ n = Len(d) /\ m = Len(c)
    BY <1>4, <1>6, <2>1, <2>2
  <2>4. /\ h \in Seq(Byte) /\ Len(h) = n + m
        /\ \A j \in 1..n : h[j] = d[j]
        /\ \A j \in 1..m : h[n + j] = c[j]
    BY <1>7, <2>3, JoinedAs
  <2>5. n + m = 8
    BY <2>1, <2>2
  <2> QED
    BY <2>1, <2>2, <2>4, <2>5
<1>9. h[1] = Version /\ h[2] = op
  BY <1>2, <1>6, <1>8
<1>10. ASSUME NEW j \in 1..2 PROVE h[2 + j] = b[j]
  <2>1. 2 + j \in 1..4
    OBVIOUS
  <2>2. h[2 + j] = d[2 + j]
    BY <1>8, <2>1
  <2>3. d[2 + j] = b[j]
    BY <1>6
  <2> QED
    BY <2>2, <2>3
<1> QED
  BY <1>3, <1>4, <1>8, <1>9, <1>10

(* What a frame is, byte by byte.                                          *)
IsFrame(F, op, fl, id, count, b) ==
    /\ F \in Seq(Byte) /\ Len(F) = 12 + Len(b) /\ Len(b) \in Nat
    /\ F[1] = Version /\ F[2] = op
    /\ \A j \in 1..2 : F[2 + j] = LE(2, fl)[j]
    /\ \A j \in 1..4 : F[4 + j] = LE(4, id)[j]
    /\ \A j \in 1..4 : F[8 + j] = LE(4, count)[j]
    /\ \A j \in 1..Len(b) : F[12 + j] = b[j]

(* The frame that Go appends.                                              *)
LEMMA FrameBytes ==
    ASSUME NEW op \in Byte, NEW fl \in Int, NEW id \in Int, NEW count \in Int,
           NEW b \in Seq(Byte)
    PROVE  IsFrame(GoFrame(op, fl, id, count, b), op, fl, id, count, b)
<1>1. PICK h : h = GoHeader(op, fl, id)
  OBVIOUS
<1>2. /\ h \in Seq(Byte) /\ Len(h) = 8
      /\ h[1] = Version /\ h[2] = op
      /\ \A j \in 1..2 : h[2 + j] = LE(2, fl)[j]
      /\ \A j \in 1..4 : h[4 + j] = LE(4, id)[j]
  BY <1>1, HeaderBytes
<1>3. PICK c : c = LE(4, count) /\ c \in Seq(Byte) /\ Len(c) = 4
  BY NumeralRead
<1>4. PICK d : d = h \o c
  OBVIOUS
<1>5. PICK F : F = d \o b
  OBVIOUS
<1>6. GoFrame(op, fl, id, count, b) = F
  BY <1>1, <1>3, <1>4, <1>5 DEF GoFrame
<1>7. PICK l \in Nat : l = Len(b)
  OBVIOUS
<1>8. /\ d \in Seq(Byte) /\ Len(d) = 12
      /\ \A j \in 1..8 : d[j] = h[j]
      /\ \A j \in 1..4 : d[8 + j] = c[j]
  <2>1. PICK n \in Nat : n = 8
    OBVIOUS
  <2>2. PICK m \in Nat : m = 4
    OBVIOUS
  <2>3. h \in Seq(Byte) /\ c \in Seq(Byte) /\ n = Len(h) /\ m = Len(c)
    BY <1>2, <1>3, <2>1, <2>2
  <2>4. /\ d \in Seq(Byte) /\ Len(d) = n + m
        /\ \A j \in 1..n : d[j] = h[j]
        /\ \A j \in 1..m : d[n + j] = c[j]
    BY <1>4, <2>3, JoinedAs
  <2>5. n + m = 12
    BY <2>1, <2>2
  <2> QED
    BY <2>1, <2>2, <2>4, <2>5
<1>9. /\ F \in Seq(Byte) /\ Len(F) = 12 + l
      /\ \A j \in 1..12 : F[j] = d[j]
      /\ \A j \in 1..l : F[12 + j] = b[j]
  <2>1. PICK n \in Nat : n = 12
    OBVIOUS
  <2>2. d \in Seq(Byte) /\ n = Len(d)
    BY <1>8, <2>1
  <2>3. /\ F \in Seq(Byte) /\ Len(F) = n + l
        /\ \A j \in 1..n : F[j] = d[j]
        /\ \A j \in 1..l : F[n + j] = b[j]
    BY <1>5, <1>7, <2>2, JoinedAs
  <2> QED
    BY <2>1, <2>3
<1>10. \A j \in 1..8 : F[j] = h[j]
  BY <1>8, <1>9
<1>11. F[1] = Version /\ F[2] = op
  BY <1>2, <1>10
<1>12. \A j \in 1..2 : F[2 + j] = LE(2, fl)[j]
  BY <1>2, <1>10
<1>13. \A j \in 1..4 : F[4 + j] = LE(4, id)[j]
  BY <1>2, <1>10
<1>14. \A j \in 1..4 : F[8 + j] = c[j]
  BY <1>8, <1>9
<1>15. IsFrame(F, op, fl, id, count, b)
  BY <1>3, <1>7, <1>9, <1>11, <1>12, <1>13, <1>14 DEF IsFrame
<1> QED
  BY <1>6, <1>15

(* There is one such frame.                                                *)
LEMMA OneFrame ==
    ASSUME NEW op, NEW fl, NEW id, NEW count, NEW b, NEW F, NEW G,
           IsFrame(F, op, fl, id, count, b), IsFrame(G, op, fl, id, count, b)
    PROVE  F = G
<1>1. PICK l \in Nat : l = Len(b)
  BY DEF IsFrame
<1>2. F \in Seq(Byte) /\ G \in Seq(Byte) /\ Len(F) = 12 + l /\ Len(G) = 12 + l
  BY <1>1 DEF IsFrame
<1>3. ASSUME NEW j \in 1..(12 + l) PROVE F[j] = G[j]
  <2>1. CASE j \in 1..2
    BY <2>1 DEF IsFrame
  <2>2. CASE j \in 3..4
    <3>1. PICK k \in 1..2 : j = 2 + k
      <4>1. j - 2 \in 1..2 /\ j = 2 + (j - 2)
        BY <2>2
      <4> QED
        BY <4>1
    <3> QED
      BY <3>1 DEF IsFrame
  <2>3. CASE j \in 5..8
    <3>1. PICK k \in 1..4 : j = 4 + k
      <4>1. j - 4 \in 1..4 /\ j = 4 + (j - 4)
        BY <2>3
      <4> QED
        BY <4>1
    <3> QED
      BY <3>1 DEF IsFrame
  <2>4. CASE j \in 9..12
    <3>1. PICK k \in 1..4 : j = 8 + k
      <4>1. j - 8 \in 1..4 /\ j = 8 + (j - 8)
        BY <2>4
      <4> QED
        BY <4>1
    <3> QED
      BY <3>1 DEF IsFrame
  <2>5. CASE j \in 13..(12 + l)
    <3>1. PICK k \in 1..l : j = 12 + k
      <4>1. j - 12 \in 1..l /\ j = 12 + (j - 12)
        BY <2>5
      <4> QED
        BY <4>1
    <3> QED
      BY <1>1, <3>1 DEF IsFrame
  <2> QED
    BY <2>1, <2>2, <2>3, <2>4, <2>5
<1> QED
  BY <1>2, <1>3

(* The op and the request id of these frames.                              *)
LEMMA RowsAndId ==
    /\ Rows \in Byte /\ Id \in Int /\ Id % Size(4) = Id
    /\ HeaderSize = 8 /\ HeaderSize \in Nat
<1>1. PICK b \in Nat : b = Base /\ b > 5
  BY Sizes
<1>2. b + 2 < b * b
  <2>1. b * 2 <= b * b
    BY <1>1
  <2> QED
    BY <1>1, <2>1
<1>3. b * b = Size2 /\ Size2 <= Size4 /\ Size(4) = Size4 /\ Size4 \in Nat /\ Size2 \in Nat
  BY <1>1, Sizes DEF Size2, Size
<1>4. PICK size \in Nat : size = Size(4) /\ b + 2 < size
  BY <1>1, <1>2, <1>3
<1>5. Rows \in Byte /\ Id = b + 2
  BY <1>1 DEF Rows, Id, Byte
<1>6. (b + 2) % size = b + 2
  BY <1>1, <1>4
<1> QED
  BY <1>4, <1>5, <1>6 DEF HeaderSize

(* A new writer holds the header.                                          *)
LEMMA NewWriterHolds ==
    ASSUME NEW op \in Byte, NEW id \in Int
    PROVE  Holds(NewWriter(op, id), GoHeader(op, 0, id))
<1>1. PICK h : h = GoHeader(op, 0, id) /\ h \in Seq(Byte) /\ Len(h) = 8
  BY HeaderBytes
<1>2. PICK z : z = Zeros(Hint) /\ z \in Seq(Byte)
  BY BoundAssumption, ZerosAreBytes
<1>3. PICK b : b = h \o z
  OBVIOUS
<1>4. PICK m \in Nat : m = Len(z)
  BY <1>2
<1>5. PICK n \in Nat : n = 8 /\ n = Len(h)
  BY <1>1
<1>6. b \in Seq(Byte) /\ Len(b) = n + m /\ \A j \in 1..n : b[j] = h[j]
  <2>1. h \in Seq(Byte) /\ n = Len(h)
    BY <1>1, <1>5
  <2> QED
    BY <1>2, <1>3, <1>4, <2>1, JoinedAs
<1>7. PICK w : w = NewWriter(op, id) /\ w = [buf |-> b, n |-> n, threw |-> FALSE]
  <2>1. HeaderSize = n
    BY <1>5 DEF HeaderSize
  <2>2. NewWriter(op, id) = [buf |-> h \o z, n |-> HeaderSize, threw |-> FALSE]
    BY <1>1, <1>2, Zenon DEF NewWriter
  <2> QED
    BY <1>3, <2>1, <2>2, Zenon
<1>8. Len(b) >= n /\ Len(b) > 0
  <2>1. n = 8
    BY <1>5
  <2>2. PICK l : l = Len(b)
    OBVIOUS
  <2>3. l = n + m
    BY <1>6, <2>2
  <2>4. l >= n /\ l > 0
    BY <2>1, <2>3
  <2> QED
    BY <2>2, <2>4
<1>9. Holds(w, h)
  <2>1. w.buf = b /\ w.n = n /\ w.threw = FALSE
    BY <1>7
  <2>2. w \in [buf : Seq(Byte), n : Nat, threw : BOOLEAN]
    BY <1>6, <1>7
  <2>3. h \in Seq(Byte) /\ n = Len(h) /\ \A j \in 1..n : b[j] = h[j]
    BY <1>1, <1>5, <1>6
  <2> QED
    BY <1>8, <2>1, <2>2, <2>3 DEF Holds
<1> QED
  BY <1>1, <1>7, <1>9

(* And after its first write the count of a frame with no rows yet.        *)
LEMMA FirstFrameHolds ==
    Holds(PutFixed(NewWriter(Rows, Id), LE(4, 0)), GoFrame(Rows, 0, Id, 0, <<>>))
<1>1. PICK h : h = GoHeader(Rows, 0, Id)
  OBVIOUS
<1>2. PICK c : c = LE(4, 0) /\ c \in Seq(Byte)
  BY NumeralRead
<1>3. PICK w : w = NewWriter(Rows, Id) /\ Holds(w, h)
  BY <1>1, RowsAndId, NewWriterHolds
<1>4. PICK d : d = h \o c
  OBVIOUS
<1>5. Holds(PutFixed(w, c), d)
  BY <1>2, <1>3, <1>4, PutFixedHolds
<1>6. d \o <<>> = d
  <2>1. d \in Seq(Byte)
    BY <1>5 DEF Holds
  <2> QED
    BY <2>1, ConcatEmptySeq
<1>7. GoFrame(Rows, 0, Id, 0, <<>>) = d \o <<>>
  BY <1>1, <1>2, <1>4 DEF GoFrame
<1> QED
  BY <1>2, <1>3, <1>5, <1>6, <1>7, Zenon

(* A field more.                                                           *)
LEMMA NextFrameHolds ==
    ASSUME NEW w, NEW fl \in Int, NEW count \in Int, NEW b \in Seq(Byte),
           Holds(w, GoFrame(Rows, fl, Id, count, b)), NEW f, IsField(f)
    PROVE  /\ Holds(PutField(w, f), GoFrame(Rows, fl, Id, count, b \o GoField(f)))
           /\ b \o GoField(f) \in Seq(Byte)
<1>1. PICK h : h = GoHeader(Rows, fl, Id) /\ h \in Seq(Byte)
  BY HeaderBytes, RowsAndId
<1>2. PICK c : c = LE(4, count) /\ c \in Seq(Byte)
  BY NumeralRead
<1>3. PICK d : d = h \o c /\ d \in Seq(Byte)
  <2>1. PICK d : d = h \o c
    OBVIOUS
  <2>2. d \in Seq(Byte)
    BY <1>1, <1>2, <2>1, JoinedAs
  <2> QED
    BY <2>1, <2>2
<1>4. PICK s : s = d \o b
  OBVIOUS
<1>5. Holds(w, s)
  BY <1>1, <1>2, <1>3, <1>4 DEF GoFrame
<1>6. PICK g : g = GoField(f)
  OBVIOUS
<1>7. Holds(PutField(w, f), s \o g) /\ g \in Seq(Byte)
  BY <1>5, <1>6, PutFieldHolds
<1>8. s \o g = d \o (b \o g)
  <2>1. g \in Seq(Byte) /\ d \in Seq(Byte)
    BY <1>3, <1>7
  <2> QED
    BY <1>4, <2>1, JoinedTwice
<1>9. GoFrame(Rows, fl, Id, count, b \o g) = d \o (b \o g)
  BY <1>1, <1>2, <1>3 DEF GoFrame
<1>10. b \o g \in Seq(Byte)
  <2>1. PICK e : e = b \o g
    OBVIOUS
  <2>2. e \in Seq(Byte)
    BY <1>7, <2>1, JoinedAs
  <2> QED
    BY <2>1, <2>2
<1> QED
  BY <1>6, <1>7, <1>8, <1>9, <1>10, Zenon

(* The flags and the count patched into a frame.                           *)
LEMMA PatchedFrame ==
    ASSUME NEW fl \in Int, NEW count \in Int, NEW b \in Seq(Byte), NEW w,
           Holds(w, GoFrame(Rows, 0, Id, 0, b))
    PROVE  Holds(PatchU32(SetFlags(w, fl), HeaderSize, count), GoFrame(Rows, fl, Id, count, b))
<1>1. PICK F : F = GoFrame(Rows, 0, Id, 0, b) /\ IsFrame(F, Rows, 0, Id, 0, b)
  BY RowsAndId, FrameBytes
<1>2. PICK t : t = LE(2, fl) /\ t \in Seq(Byte) /\ Len(t) = 2
  BY NumeralRead
<1>3. PICK c : c = LE(4, count) /\ c \in Seq(Byte) /\ Len(c) = 4
  BY NumeralRead
<1>4. PICK l \in Nat : l = Len(b) /\ F \in Seq(Byte) /\ Len(F) = 12 + l
  BY <1>1 DEF IsFrame
<1>5. PICK G : G = Over(F, 2, t)
  OBVIOUS
<1>6. Holds(SetFlags(w, fl), G) /\ G \in Seq(Byte) /\ Len(G) = 12 + l
  <2>0. Holds(w, F)
    BY <1>1, Zenon
  <2>1. 2 \in Nat /\ 2 + Len(t) <= Len(F)
    <3>1. Len(t) = 2 /\ Len(F) = 12 + l
      BY <1>2, <1>4
    <3> QED
      BY <3>1
  <2>2. Holds(Poke(w, 2, t), Over(F, 2, t))
    BY <1>2, <2>0, <2>1, PokeHolds
  <2>3. Over(F, 2, t) \in Seq(Byte) /\ Len(Over(F, 2, t)) = Len(F)
    BY <1>2, <1>4, <2>1, OverBytes
  <2> QED
    BY <1>2, <1>4, <1>5, <2>2, <2>3 DEF SetFlags
<1>7. PICK H : H = Over(G, 8, c)
  OBVIOUS
<1>8. PICK v : v = SetFlags(w, fl)
  OBVIOUS
<1>9. Holds(PatchU32(v, HeaderSize, count), H) /\ H \in Seq(Byte) /\ Len(H) = 12 + l
  <2>0. Holds(v, G)
    BY <1>6, <1>8, Zenon
  <2>1. 8 \in Nat /\ 8 + Len(c) <= Len(G)
    <3>1. Len(c) = 4 /\ Len(G) = 12 + l
      BY <1>3, <1>6
    <3> QED
      BY <3>1
  <2>2. Holds(Poke(v, 8, c), Over(G, 8, c))
    BY <1>3, <2>0, <2>1, PokeHolds
  <2>3. Over(G, 8, c) \in Seq(Byte) /\ Len(Over(G, 8, c)) = Len(G)
    BY <1>3, <1>6, <2>1, OverBytes
  <2> QED
    BY <1>3, <1>6, <1>7, <2>2, <2>3 DEF PatchU32, HeaderSize
<1>10. ASSUME NEW j \in 1..(12 + l)
       PROVE  H[j] = IF j \in 9..12 THEN c[j - 8] ELSE IF j \in 3..4 THEN t[j - 2] ELSE F[j]
  <2>1. G[j] = IF j \in (2 + 1)..(2 + 2) THEN t[j - 2] ELSE F[j]
    BY <1>2, <1>4, <1>5 DEF Over
  <2>2. H[j] = IF j \in (8 + 1)..(8 + 4) THEN c[j - 8] ELSE G[j]
    BY <1>3, <1>6, <1>7 DEF Over
  <2> QED
    BY <2>1, <2>2
<1>11. IsFrame(H, Rows, fl, Id, count, b)
  <2>1. H[1] = Version /\ H[2] = Rows
    BY <1>1, <1>10 DEF IsFrame
  <2>2. ASSUME NEW j \in 1..2 PROVE H[2 + j] = LE(2, fl)[j]
    <3>1. PICK k \in 3..4 : k = 2 + j /\ k - 2 = j
      OBVIOUS
    <3>2. H[k] = t[k - 2]
      BY <1>10
    <3> QED
      BY <1>2, <3>1, <3>2
  <2>3. ASSUME NEW j \in 1..4 PROVE H[4 + j] = LE(4, Id)[j]
    <3>1. PICK k \in 5..8 : k = 4 + j
      OBVIOUS
    <3>2. H[k] = F[k]
      BY <1>10
    <3> QED
      BY <1>1, <3>1, <3>2 DEF IsFrame
  <2>4. ASSUME NEW j \in 1..4 PROVE H[8 + j] = LE(4, count)[j]
    <3>1. PICK k \in 9..12 : k = 8 + j /\ k - 8 = j
      OBVIOUS
    <3>2. H[k] = c[k - 8]
      BY <1>10
    <3> QED
      BY <1>3, <3>1, <3>2
  <2>5. ASSUME NEW j \in 1..l PROVE H[12 + j] = b[j]
    <3>1. PICK k \in 13..(12 + l) : k = 12 + j
      OBVIOUS
    <3>2. H[k] = F[k]
      BY <1>10
    <3> QED
      BY <1>1, <1>4, <3>1, <3>2 DEF IsFrame
  <2> QED
    BY <1>4, <1>9, <2>1, <2>2, <2>3, <2>4, <2>5 DEF IsFrame
<1>12. H = GoFrame(Rows, fl, Id, count, b)
  <2>1. PICK K : K = GoFrame(Rows, fl, Id, count, b) /\ IsFrame(K, Rows, fl, Id, count, b)
    BY RowsAndId, FrameBytes
  <2>2. H = K
    BY <1>11, <2>1, OneFrame
  <2> QED
    BY <2>1, <2>2
<1> QED
  BY <1>8, <1>9, <1>12

(* What a writer holds is what it has written.                             *)
LEMMA HeldIsWritten ==
    ASSUME NEW w, NEW s, Holds(w, s)
    PROVE  SubSeq(w.buf, 1, w.n) = s /\ ~w.threw /\ w.n \in 0..Len(w.buf)
<1>1. PICK b : b = w.buf /\ b \in Seq(Byte)
  BY DEF Holds
<1>2. PICK n \in Nat : n = Len(s) /\ n = w.n /\ n <= Len(b) /\ ~w.threw
  BY <1>1 DEF Holds
<1>3. \A j \in 1..n : b[j] = s[j] /\ b[j] \in Byte
  BY <1>1, <1>2 DEF Holds
<1>4. PICK t : t = SubSeq(b, 1, n)
  OBVIOUS
<1>5. t \in Seq(Byte) /\ Len(t) = n /\ \A j \in 1..n : t[j] = b[j]
  <2>1. 1 \in Int /\ n \in Int /\ \A j \in 1..n : b[j] \in Byte
    BY <1>3
  <2>2. t \in Seq(Byte) /\ Len(t) = IF 1 <= n THEN n - 1 + 1 ELSE 0
    BY <1>4, <2>1, SubSeqProperties
  <2>3. \A j \in 1..(n - 1 + 1) : t[j] = b[1 + j - 1]
    BY <1>4, <2>1, SubSeqProperties
  <2>4. n - 1 + 1 = n /\ \A j \in 1..n : 1 + j - 1 = j
    OBVIOUS
  <2> QED
    BY <2>2, <2>3, <2>4
<1>6. t = s
  <2>1. s \in Seq(Byte)
    BY DEF Holds
  <2>2. Len(s) = n /\ Len(t) = n /\ t \in Seq(Byte)
    BY <1>2, <1>5
  <2>3. ASSUME NEW j \in 1..n PROVE t[j] = s[j]
    BY <1>3, <1>5
  <2> QED
    BY <2>1, <2>2, <2>3
<1> QED
  BY <1>1, <1>2, <1>4, <1>6

-----------------------------------------------------------------------------

(* A reader.                                                               *)
Rec(i, e, v) == [i |-> i, err |-> e, v |-> v]

(* Its fields.                                                             *)
LEMMA Fields ==
    ASSUME NEW i, NEW e, NEW v
    PROVE  Rec(i, e, v).i = i /\ Rec(i, e, v).err = e /\ Rec(i, e, v).v = v
BY DEF Rec

(* One with a field set.                                                   *)
SetI(r, x) == [r EXCEPT !.i = x]
SetErr(r, x) == [r EXCEPT !.err = x]
SetV(r, x) == [r EXCEPT !.v = x]

(* What that makes of it.                                                  *)
LEMMA SetFields ==
    ASSUME NEW i, NEW e, NEW v, NEW x
    PROVE  /\ SetI(Rec(i, e, v), x) = Rec(x, e, v)
           /\ SetErr(Rec(i, e, v), x) = Rec(i, x, v)
           /\ SetV(Rec(i, e, v), x) = Rec(i, e, x)
<1>1. SetI(Rec(i, e, v), x) = Rec(x, e, v)
  BY DEF Rec, SetI
<1>2. SetErr(Rec(i, e, v), x) = Rec(i, x, v)
  BY DEF Rec, SetErr
<1>3. SetV(Rec(i, e, v), x) = Rec(i, e, x)
  BY DEF Rec, SetV
<1> QED
  BY <1>1, <1>2, <1>3

(* A reader is at i and has read v, or it has failed within b.             *)
Good(r, i, v) == r = Rec(i, "none", v)
Errors == {"short", "version", "absent", "tag", "threw"}
Bad(r, b) == \E i \in 0..Len(b), e \in Errors : \E v : r = Rec(i, e, v)

(* The n bytes of b after the first i.                                     *)
Part(b, i, n) == SubSeq(b, i + 1, i + n)

(* There are that many.                                                    *)
LEMMA PartBytes ==
    ASSUME NEW b \in Seq(Byte), NEW i \in Nat, NEW n \in Nat, i + n <= Len(b)
    PROVE  /\ Part(b, i, n) \in Seq(Byte) /\ Len(Part(b, i, n)) = n
           /\ \A j \in 1..n : Part(b, i, n)[j] = b[i + j]
<1>1. PICK l \in Nat : l = Len(b) /\ i + n <= l
  OBVIOUS
<1>2. PICK first \in Int : first = i + 1
  OBVIOUS
<1>3. PICK last \in Int : last = i + n
  OBVIOUS
<1>4. \A j \in first..last : b[j] \in Byte
  BY <1>1, <1>2, <1>3
<1>5. PICK s : s = SubSeq(b, first, last)
  OBVIOUS
<1>6. /\ s \in Seq(Byte) /\ Len(s) = IF first <= last THEN last - first + 1 ELSE 0
      /\ \A j \in 1..(last - first + 1) : s[j] = b[first + j - 1]
  BY <1>4, <1>5, SubSeqProperties
<1>7. last - first + 1 = n /\ (~ (first <= last) => n = 0)
  BY <1>2, <1>3
<1>8. \A j \in 1..n : first + j - 1 = i + j
  BY <1>2
<1>9. Part(b, i, n) = s
  BY <1>2, <1>3, <1>5 DEF Part
<1> QED
  BY <1>6, <1>7, <1>8, <1>9

(* What Number makes of an unsigned type.                                  *)
LEMMA UnsignedNumber ==
    ASSUME NEW t \in {"u8", "u16", "u32", "f64"}, NEW s \in Seq(Byte), Len(s) = Width[t]
    PROVE  Number(t, s) = UInt(s) /\ Number(t, s) \in Nat
<1>1. Number(t, s) = UInt(s)
  BY DEF Number
<1>2. PICK n : n = Width[t] /\ n \in {1, 2, 4, 8}
  BY DEF Width
<1>3. UInt(s) \in Nat
  BY <1>2, WordType
<1> QED
  BY <1>1, <1>3

(* What is at i of b, were it read: whether it is there whole, where it    *)
(* ends, and its value.                                                    *)
NumAt(b, i, t) == Number(t, Part(b, i, Width[t]))
NumParse(b, i, t) ==
    [ok |-> i + Width[t] <= Len(b), end |-> i + Width[t], v |-> NumAt(b, i, t)]
BlockParse(b, i) ==
    LET n == NumAt(b, i, "u32")
    IN  [ok |-> i + 4 <= Len(b) /\ n # Absent /\ (i + 4) + n <= Len(b),
         end |-> (i + 4) + n, v |-> Part(b, i + 4, n)]
NstrParse(b, i) ==
    IF i + 4 <= Len(b) /\ NumAt(b, i, "u32") = Absent
    THEN [ok |-> TRUE, end |-> i + 4, v |-> Null]
    ELSE BlockParse(b, i)
ValueParse(b, i) ==
    LET tag == NumAt(b, i, "u8")
    IN  IF ~ (i + 1 <= Len(b)) \/ tag > TagBlob THEN [ok |-> FALSE, end |-> i, v |-> Null]
        ELSE CASE tag = TagInt  -> NumParse(b, i + 1, "i64")
               [] tag = TagReal -> NumParse(b, i + 1, "f64")
               [] tag \in {TagText, TagBlob} -> BlockParse(b, i + 1)
               [] OTHER -> [ok |-> TRUE, end |-> i + 1, v |-> Null]
BoolParse(b, i) ==
    [ok |-> i + 1 <= Len(b), end |-> i + 1, v |-> NumAt(b, i, "u8") # 0]
Parse(b, i, t) ==
    CASE t \in Numbers -> NumParse(b, i, t)
      [] t = "bool"    -> BoolParse(b, i)
      [] t \in {"bytes", "str"} -> BlockParse(b, i)
      [] t = "nstr"    -> NstrParse(b, i)
      [] t \in Values  -> ValueParse(b, i)

(* What a reader does with it, when it takes the value for v.              *)
Does(r, b, p, v) == IF p.ok THEN Good(r, p.end, v) ELSE Bad(r, b)

(* A number that is there whole is of its type.                            *)
LEMMA NumThere ==
    ASSUME NEW b \in Seq(Byte), NEW i \in Nat, NEW t \in {"u8", "u16", "u32", "f64"},
           i + Width[t] <= Len(b)
    PROVE  NumAt(b, i, t) \in Nat
<1>1. PICK n \in Nat : n = Width[t]
  BY DEF Width
<1>2. PICK s : s = Part(b, i, n) /\ s \in Seq(Byte) /\ Len(s) = Width[t]
  BY <1>1, PartBytes
<1> QED
  BY <1>1, <1>2, UnsignedNumber DEF NumAt

(* Go's reader takes the bytes or fails.                                   *)
LEMMA Takes ==
    ASSUME NEW b \in Seq(Byte), NEW i \in 0..Len(b), NEW n \in Nat, NEW r, NEW u, Good(r, i, u)
    PROVE  IF i + n <= Len(b) THEN Good(Take(b, r, n), i + n, Part(b, i, n))
           ELSE Bad(Take(b, r, n), b)
<1>1. r = Rec(i, "none", u) /\ r.i = i /\ r.err = "none"
  BY Fields DEF Good
<1>2. PICK l \in Nat : l = Len(b)
  OBVIOUS
<1>3. CASE i + n <= l
  <2>1. ~ (l - i < n)
    BY <1>3
  <2>2. Take(b, r, n) = SetV(SetI(r, i + n), Part(b, i, n))
    BY <1>1, <1>2, <2>1 DEF Take, Part, SetI, SetV
  <2>3. Take(b, r, n) = Rec(i + n, "none", Part(b, i, n))
    BY <1>1, <2>2, SetFields
  <2> QED
    BY <1>2, <1>3, <2>3 DEF Good
<1>4. CASE ~ (i + n <= l)
  <2>1. l - i < n
    BY <1>4
  <2>2. Take(b, r, n) = SetV(SetErr(r, "short"), <<>>)
    BY <1>1, <1>2, <2>1 DEF Take, GoFail, SetErr, SetV
  <2>3. PICK q : q = Take(b, r, n) /\ q = Rec(i, "short", <<>>)
    BY <1>1, <2>2, SetFields
  <2>4. Bad(q, b)
    <3>1. "short" \in Errors
      BY DEF Errors
    <3> QED
      BY <2>3, <3>1, Zenon DEF Bad
  <2> QED
    BY <1>2, <1>4, <2>3, <2>4
<1> QED
  BY <1>3, <1>4

(* So does the worker's.                                                   *)
LEMMA Needs ==
    ASSUME NEW b \in Seq(Byte), NEW i \in 0..Len(b), NEW n \in Nat, NEW r, NEW u, Good(r, i, u)
    PROVE  IF i + n <= Len(b) THEN Good(Need(b, r, n), i + n, Part(b, i, n))
           ELSE Bad(Need(b, r, n), b)
<1>1. r = Rec(i, "none", u) /\ r.i = i /\ r.err = "none"
  BY Fields DEF Good
<1>2. PICK l \in Nat : l = Len(b)
  OBVIOUS
<1>3. CASE i + n <= l
  <2>1. ~ (l - i < n)
    BY <1>3
  <2>2. Need(b, r, n) = SetV(SetI(r, i + n), Part(b, i, n))
    BY <1>1, <1>2, <2>1 DEF Need, Part, SetI, SetV
  <2>3. Need(b, r, n) = Rec(i + n, "none", Part(b, i, n))
    BY <1>1, <2>2, SetFields
  <2> QED
    BY <1>2, <1>3, <2>3 DEF Good
<1>4. CASE ~ (i + n <= l)
  <2>1. l - i < n
    BY <1>4
  <2>2. Need(b, r, n) = SetV(SetErr(r, "threw"), <<>>)
    BY <1>1, <1>2, <2>1 DEF Need, Threw, SetErr, SetV
  <2>3. PICK q : q = Need(b, r, n) /\ q = Rec(i, "threw", <<>>)
    BY <1>1, <2>2, SetFields
  <2>4. Bad(q, b)
    <3>1. "threw" \in Errors
      BY DEF Errors
    <3> QED
      BY <2>3, <3>1, Zenon DEF Bad
  <2> QED
    BY <1>2, <1>4, <2>3, <2>4
<1> QED
  BY <1>3, <1>4

(* What has failed is no reader that has not, and stays so.                *)
LEMMA GoodOrBad ==
    ASSUME NEW r, NEW i, NEW v, NEW b
    PROVE  /\ Good(r, i, v) => r.err = "none" /\ r.i = i /\ r.v = v
           /\ Bad(r, b) => r.err # "none" /\ r.i \in 0..Len(b) /\ r.err \in Errors
           /\ Good(r, i, v) => \A x : Good(SetV(r, x), i, x)
           /\ Bad(r, b) => \A x : Bad(SetV(r, x), b)
           /\ Bad(r, b) \/ (Good(r, i, v) /\ i \in 0..Len(b)) =>
                 \A x : \A e \in Errors : Bad(SetV(SetErr(r, e), x), b)
                                          /\ Bad(SetErr(r, e), b)
<1>1. ASSUME Good(r, i, v), NEW x
      PROVE  r.err = "none" /\ r.i = i /\ r.v = v /\ Good(SetV(r, x), i, x)
  BY <1>1, Fields, SetFields DEF Good
<1>2. ASSUME Bad(r, b), NEW x
      PROVE  /\ r.err # "none" /\ r.i \in 0..Len(b) /\ r.err \in Errors
             /\ Bad(SetV(r, x), b)
  <2>0. PICK k \in 0..Len(b), e \in Errors : \E u : r = Rec(k, e, u)
    BY <1>2 DEF Bad
  <2>1. PICK u : r = Rec(k, e, u)
    BY <2>0
  <2>2. r.i = k /\ r.err = e /\ SetV(r, x) = Rec(k, e, x)
    BY <2>1, Fields, SetFields
  <2>3. e # "none"
    BY DEF Errors
  <2>4. Bad(Rec(k, e, x), b)
    BY Zenon DEF Bad
  <2> QED
    BY <2>2, <2>3, <2>4, Zenon
<1>3. ASSUME NEW x, NEW e \in Errors, NEW k \in 0..Len(b), NEW d, NEW u, r = Rec(k, d, u)
      PROVE  Bad(SetV(SetErr(r, e), x), b) /\ Bad(SetErr(r, e), b)
  <2>1. SetV(SetErr(r, e), x) = Rec(k, e, x) /\ SetErr(r, e) = Rec(k, e, u)
    BY <1>3, SetFields
  <2>2. Bad(Rec(k, e, x), b) /\ Bad(Rec(k, e, u), b)
    BY Zenon DEF Bad
  <2> QED
    BY <2>1, <2>2, Zenon
<1>4. ASSUME Bad(r, b) \/ (Good(r, i, v) /\ i \in 0..Len(b)), NEW x, NEW e \in Errors
      PROVE  Bad(SetV(SetErr(r, e), x), b) /\ Bad(SetErr(r, e), b)
  <2>0. PICK k \in 0..Len(b) : \E d : \E u : r = Rec(k, d, u)
    BY <1>4, Zenon DEF Good, Bad
  <2>1. PICK d, u : r = Rec(k, d, u)
    BY <2>0
  <2> QED
    BY <1>3, <2>1
<1> QED
  BY <1>1, <1>2, <1>4

(* What one that has not failed says.                                      *)
LEMMA GoodSays ==
    ASSUME NEW r, NEW i, NEW v, Good(r, i, v)
    PROVE  r.err = "none" /\ r.i = i /\ r.v = v
BY GoodOrBad

(* It may be made to say another value.                                    *)
LEMMA GoodSet ==
    ASSUME NEW r, NEW i, NEW v, Good(r, i, v), NEW x
    PROVE  Good(SetV(r, x), i, x)
BY GoodOrBad

(* It may fail.                                                            *)
LEMMA Fails ==
    ASSUME NEW r, NEW b, NEW i \in 0..Len(b), NEW v, Good(r, i, v), NEW x, NEW e \in Errors
    PROVE  Bad(SetV(SetErr(r, e), x), b) /\ Bad(SetErr(r, e), b)
BY GoodOrBad

(* And what has failed may fail again.                                     *)
LEMMA FailsAgain ==
    ASSUME NEW r, NEW b, Bad(r, b), NEW x, NEW e \in Errors
    PROVE  Bad(SetV(SetErr(r, e), x), b) /\ Bad(SetErr(r, e), b)
BY GoodOrBad

(* A number, by Go's reader.                                               *)
LEMMA GoNumReads ==
    ASSUME NEW b \in Seq(Byte), NEW i \in 0..Len(b), NEW t \in Numbers, NEW r, NEW u,
           Good(r, i, u), NEW p, p = NumParse(b, i, t)
    PROVE  Does(GoNum(b, r, t), b, p, p.v)
<1>1. PICK n \in Nat : n = Width[t]
  BY RangesAreInts
<1>2. p.ok = (i + n <= Len(b)) /\ p.end = i + n /\ p.v = Number(t, Part(b, i, n))
  BY <1>1 DEF NumParse, NumAt
<1>3. PICK s : s = Take(b, r, n)
  OBVIOUS
<1>4. IF i + n <= Len(b) THEN Good(s, i + n, Part(b, i, n)) ELSE Bad(s, b)
  BY <1>3, Takes
<1>5. GoNum(b, r, t) = SetV(s, Number(t, s.v))
  BY <1>1, <1>3 DEF GoNum, SetV
<1>6. CASE i + n <= Len(b)
  <2>1. PICK e, w : e = i + n /\ w = Part(b, i, n) /\ Good(s, e, w)
    BY <1>4, <1>6
  <2>2. s.v = w
    BY <2>1, GoodOrBad
  <2>3. Good(SetV(s, Number(t, w)), e, Number(t, w))
    BY <2>1, GoodOrBad
  <2> QED
    BY <1>2, <1>5, <1>6, <2>1, <2>2, <2>3 DEF Does
<1>7. CASE ~ (i + n <= Len(b))
  <2>1. Bad(s, b)
    BY <1>4, <1>7
  <2>2. PICK w : w = Number(t, s.v)
    OBVIOUS
  <2>3. Bad(SetV(s, w), b)
    BY <2>1, GoodOrBad
  <2> QED
    BY <1>2, <1>5, <1>7, <2>2, <2>3 DEF Does
<1> QED
  BY <1>6, <1>7

(* And by the worker's.                                                    *)
LEMMA JsNumReads ==
    ASSUME NEW b \in Seq(Byte), NEW i \in 0..Len(b), NEW t \in Numbers, NEW r, NEW u,
           Good(r, i, u), NEW p, p = NumParse(b, i, t)
    PROVE  Does(JsNum(b, r, t), b, p, p.v)
<1>1. PICK n \in Nat : n = Width[t]
  BY RangesAreInts
<1>2. p.ok = (i + n <= Len(b)) /\ p.end = i + n /\ p.v = Number(t, Part(b, i, n))
  BY <1>1 DEF NumParse, NumAt
<1>3. PICK s : s = Need(b, r, n)
  OBVIOUS
<1>4. IF i + n <= Len(b) THEN Good(s, i + n, Part(b, i, n)) ELSE Bad(s, b)
  BY <1>3, Needs
<1>5. JsNum(b, r, t) = IF s.err = "none" THEN SetV(s, Number(t, s.v)) ELSE s
  BY <1>1, <1>3 DEF JsNum, SetV
<1>6. CASE i + n <= Len(b)
  <2>1. PICK e, w : e = i + n /\ w = Part(b, i, n) /\ Good(s, e, w)
    BY <1>4, <1>6
  <2>2. s.v = w /\ s.err = "none"
    BY <2>1, GoodOrBad
  <2>3. Good(SetV(s, Number(t, w)), e, Number(t, w))
    BY <2>1, GoodOrBad
  <2> QED
    BY <1>2, <1>5, <1>6, <2>1, <2>2, <2>3 DEF Does
<1>7. CASE ~ (i + n <= Len(b))
  <2>1. Bad(s, b) /\ s.err # "none"
    BY <1>4, <1>7, GoodOrBad
  <2> QED
    BY <1>2, <1>5, <1>7, <2>1 DEF Does
<1> QED
  BY <1>6, <1>7

(* A block: its length, then that many bytes.  The length once read is a   *)
(* number, and absent or not there are so many bytes or not.               *)
LEMMA BlockCases ==
    ASSUME NEW b \in Seq(Byte), NEW i \in 0..Len(b), NEW p, p = BlockParse(b, i),
           NEW q, q = NumParse(b, i, "u32")
    PROVE  /\ q.ok = (i + 4 <= Len(b)) /\ q.end = i + 4
           /\ q.ok => q.v \in Nat /\ i + 4 \in 0..Len(b)
           /\ p.ok = (q.ok /\ q.v # Absent /\ (i + 4) + q.v <= Len(b))
           /\ p.end = (i + 4) + q.v /\ p.v = Part(b, i + 4, q.v)
<1>1. Width["u32"] = 4
  BY DEF Width
<1>2. q.ok = (i + 4 <= Len(b)) /\ q.end = i + 4 /\ q.v = NumAt(b, i, "u32")
  BY <1>1 DEF NumParse
<1>3. ASSUME i + 4 <= Len(b) PROVE NumAt(b, i, "u32") \in Nat
  <2>1. i \in Nat /\ i + Width["u32"] <= Len(b)
    BY <1>1, <1>3
  <2> QED
    BY <2>1, NumThere
<1>4. PICK n : n = NumAt(b, i, "u32")
  OBVIOUS
<1>5. p = [ok |-> i + 4 <= Len(b) /\ n # Absent /\ (i + 4) + n <= Len(b),
           end |-> (i + 4) + n, v |-> Part(b, i + 4, n)]
  BY <1>4 DEF BlockParse
<1>6. /\ p.ok = (i + 4 <= Len(b) /\ n # Absent /\ (i + 4) + n <= Len(b))
      /\ p.end = (i + 4) + n /\ p.v = Part(b, i + 4, n)
  BY <1>5
<1>7. i + 4 <= Len(b) => i + 4 \in 0..Len(b)
  OBVIOUS
<1> QED
  BY <1>2, <1>3, <1>4, <1>6, <1>7

(* A block, by Go's reader.                                                *)
LEMMA GoBlockReads ==
    ASSUME NEW b \in Seq(Byte), NEW i \in 0..Len(b), NEW r, NEW u,
           Good(r, i, u), NEW p, p = BlockParse(b, i)
    PROVE  Does(Bytes(b, r), b, p, p.v)
<1>1. PICK q : q = NumParse(b, i, "u32")
  OBVIOUS
<1>2. /\ q.ok = (i + 4 <= Len(b)) /\ q.end = i + 4
      /\ q.ok => q.v \in Nat /\ i + 4 \in 0..Len(b)
      /\ p.ok = (q.ok /\ q.v # Absent /\ (i + 4) + q.v <= Len(b))
      /\ p.end = (i + 4) + q.v /\ p.v = Part(b, i + 4, q.v)
  BY <1>1, BlockCases
<1>3. PICK s : s = GoNum(b, r, "u32")
  OBVIOUS
<1>4. IF q.ok THEN Good(s, i + 4, q.v) ELSE Bad(s, b)
  <2>1. "u32" \in Numbers
    BY DEF Numbers
  <2>2. Does(s, b, q, q.v)
    BY <1>1, <1>3, <2>1, GoNumReads
  <2> QED
    BY <1>2, <2>2 DEF Does
<1>5. Bytes(b, r) = IF s.err # "none" THEN SetV(s, <<>>)
                    ELSE IF s.v = Absent THEN SetV(SetErr(s, "absent"), <<>>)
                    ELSE Take(b, s, s.v)
  BY <1>3 DEF Bytes, GoFail, SetV, SetErr
<1>6. CASE ~q.ok
  <2>1. Bad(s, b) /\ s.err # "none"
    BY <1>4, <1>6, GoodOrBad
  <2>2. Bad(SetV(s, <<>>), b)
    BY <2>1, GoodOrBad
  <2> QED
    BY <1>2, <1>5, <1>6, <2>1, <2>2 DEF Does
<1>7. ASSUME q.ok PROVE Does(Bytes(b, r), b, p, p.v)
  <2>1. PICK k : k = i + 4 /\ k \in 0..Len(b) /\ Good(s, k, q.v)
    BY <1>2, <1>4, <1>7
  <2>2. s.err = "none" /\ s.v = q.v
    BY <2>1, GoodSays
  <2>3. CASE q.v = Absent
    <3>1. "absent" \in Errors
      BY DEF Errors
    <3>2. Bad(SetV(SetErr(s, "absent"), <<>>), b)
      BY <2>1, <3>1, Fails
    <3> QED
      BY <1>2, <1>5, <2>2, <2>3, <3>2 DEF Does
  <2>4. CASE q.v # Absent
    <3>1. PICK n \in Nat : n = q.v
      BY <1>2, <1>7
    <3>2. IF k + n <= Len(b) THEN Good(Take(b, s, n), k + n, Part(b, k, n))
          ELSE Bad(Take(b, s, n), b)
      BY <2>1, Takes
    <3>3. Bytes(b, r) = Take(b, s, n)
      BY <1>5, <2>2, <2>4, <3>1
    <3>4. p.ok = (k + n <= Len(b)) /\ p.end = k + n /\ p.v = Part(b, k, n)
      BY <1>2, <1>7, <2>1, <2>4, <3>1
    <3> QED
      BY <3>2, <3>3, <3>4 DEF Does
  <2> QED
    BY <2>3, <2>4
<1> QED
  BY <1>6, <1>7

(* And by the worker's.                                                    *)
LEMMA JsBlockReads ==
    ASSUME NEW b \in Seq(Byte), NEW i \in 0..Len(b), NEW r, NEW u,
           Good(r, i, u), NEW p, p = BlockParse(b, i)
    PROVE  Does(JsBytes(b, r), b, p, p.v)
<1>1. PICK q : q = NumParse(b, i, "u32")
  OBVIOUS
<1>2. /\ q.ok = (i + 4 <= Len(b)) /\ q.end = i + 4
      /\ q.ok => q.v \in Nat /\ i + 4 \in 0..Len(b)
      /\ p.ok = (q.ok /\ q.v # Absent /\ (i + 4) + q.v <= Len(b))
      /\ p.end = (i + 4) + q.v /\ p.v = Part(b, i + 4, q.v)
  BY <1>1, BlockCases
<1>3. PICK s : s = JsNum(b, r, "u32")
  OBVIOUS
<1>4. IF q.ok THEN Good(s, i + 4, q.v) ELSE Bad(s, b)
  <2>1. "u32" \in Numbers
    BY DEF Numbers
  <2>2. Does(s, b, q, q.v)
    BY <1>1, <1>3, <2>1, JsNumReads
  <2> QED
    BY <1>2, <2>2 DEF Does
<1>5. JsBytes(b, r) = IF s.err = "none" /\ s.v = Absent THEN SetV(SetErr(s, "threw"), <<>>)
                      ELSE IF s.err = "none" THEN Need(b, s, s.v) ELSE s
  BY <1>3 DEF JsBytes, Threw, SetV, SetErr
<1>6. CASE ~q.ok
  <2>1. Bad(s, b) /\ s.err # "none"
    BY <1>4, <1>6, GoodOrBad
  <2> QED
    BY <1>2, <1>5, <1>6, <2>1 DEF Does
<1>7. ASSUME q.ok PROVE Does(JsBytes(b, r), b, p, p.v)
  <2>1. PICK k : k = i + 4 /\ k \in 0..Len(b) /\ Good(s, k, q.v)
    BY <1>2, <1>4, <1>7
  <2>2. s.err = "none" /\ s.v = q.v
    BY <2>1, GoodSays
  <2>3. CASE q.v = Absent
    <3>1. "threw" \in Errors
      BY DEF Errors
    <3>2. Bad(SetV(SetErr(s, "threw"), <<>>), b)
      BY <2>1, <3>1, Fails
    <3> QED
      BY <1>2, <1>5, <2>2, <2>3, <3>2 DEF Does
  <2>4. CASE q.v # Absent
    <3>1. PICK n \in Nat : n = q.v
      BY <1>2, <1>7
    <3>2. IF k + n <= Len(b) THEN Good(Need(b, s, n), k + n, Part(b, k, n))
          ELSE Bad(Need(b, s, n), b)
      BY <2>1, Needs
    <3>3. JsBytes(b, r) = Need(b, s, n)
      BY <1>5, <2>2, <2>4, <3>1
    <3>4. p.ok = (k + n <= Len(b)) /\ p.end = k + n /\ p.v = Part(b, k, n)
      BY <1>2, <1>7, <2>1, <2>4, <3>1
    <3> QED
      BY <3>2, <3>3, <3>4 DEF Does
  <2> QED
    BY <2>3, <2>4
<1> QED
  BY <1>6, <1>7

(* A block that is there is bytes, and ends within b; so does a number.    *)
LEMMA BlockThere ==
    ASSUME NEW b \in Seq(Byte), NEW i \in 0..Len(b), NEW p, p = BlockParse(b, i), p.ok
    PROVE  p.v \in Seq(Byte) /\ p.v # Null /\ p.end \in 0..Len(b)
<1>1. PICK q : q = NumParse(b, i, "u32")
  OBVIOUS
<1>2. /\ q.v \in Nat /\ i + 4 \in 0..Len(b) /\ (i + 4) + q.v <= Len(b)
      /\ p.end = (i + 4) + q.v /\ p.v = Part(b, i + 4, q.v)
  BY <1>1, BlockCases
<1>3. PICK k \in Nat : k = i + 4
  OBVIOUS
<1>4. PICK n \in Nat : n = q.v
  BY <1>2
<1>5. k + n <= Len(b) /\ p.end = k + n /\ p.v = Part(b, k, n)
  BY <1>2, <1>3, <1>4
<1>6. p.v \in Seq(Byte)
  BY <1>5, PartBytes
<1>7. p.end \in 0..Len(b)
  BY <1>5
<1> QED
  BY <1>6, <1>7, NullAssumption

(* What has failed stays so.                                               *)
LEMMA GoStays ==
    ASSUME NEW b, NEW r, Bad(r, b)
    PROVE  /\ \A t : Bad(GoNum(b, r, t), b) /\ GoNum(b, r, t).err # "none"
           /\ Bad(Bytes(b, r), b) /\ Bad(NullString(b, r), b)
<1>1. r.err # "none"
  BY GoodOrBad
<1>2. ASSUME NEW n PROVE Bad(Take(b, r, n), b)
  <2>1. Take(b, r, n) = SetV(r, <<>>)
    BY <1>1 DEF Take, SetV
  <2> QED
    BY <2>1, GoodOrBad
<1>3. ASSUME NEW t PROVE Bad(GoNum(b, r, t), b) /\ GoNum(b, r, t).err # "none"
  <2>1. PICK s : s = Take(b, r, Width[t])
    OBVIOUS
  <2>2. PICK w : w = Number(t, s.v)
    OBVIOUS
  <2>3. GoNum(b, r, t) = SetV(s, w)
    BY <2>1, <2>2 DEF GoNum, SetV
  <2>4. Bad(SetV(s, w), b)
    BY <1>2, <2>1, GoodOrBad
  <2>5. SetV(s, w).err # "none"
    BY <2>4, GoodOrBad
  <2> QED
    BY <2>3, <2>4, <2>5
<1>4. PICK s : s = GoNum(b, r, "u32")
  OBVIOUS
<1>5. Bad(s, b) /\ s.err # "none"
  BY <1>3, <1>4
<1>6. Bytes(b, r) = SetV(s, <<>>)
  BY <1>4, <1>5 DEF Bytes, SetV
<1>7. NullString(b, r) = SetV(s, Null)
  BY <1>4, <1>5 DEF NullString, SetV
<1>8. Bad(SetV(s, <<>>), b) /\ Bad(SetV(s, Null), b)
  BY <1>5, GoodOrBad
<1> QED
  BY <1>3, <1>6, <1>7, <1>8

(* A nullable string, by Go's reader.                                      *)
LEMMA GoNstrReads ==
    ASSUME NEW b \in Seq(Byte), NEW i \in 0..Len(b), NEW r, NEW u,
           Good(r, i, u), NEW p, p = NstrParse(b, i)
    PROVE  Does(NullString(b, r), b, p, p.v)
<1>1. PICK q : q = NumParse(b, i, "u32")
  OBVIOUS
<1>2. PICK d : d = BlockParse(b, i)
  OBVIOUS
<1>3. /\ q.ok = (i + 4 <= Len(b)) /\ q.end = i + 4
      /\ q.ok => q.v \in Nat /\ i + 4 \in 0..Len(b)
      /\ d.ok = (q.ok /\ q.v # Absent /\ (i + 4) + q.v <= Len(b))
      /\ d.end = (i + 4) + q.v /\ d.v = Part(b, i + 4, q.v)
  BY <1>1, <1>2, BlockCases
<1>4. q.v = NumAt(b, i, "u32")
  BY <1>1 DEF NumParse
<1>5. PICK s : s = GoNum(b, r, "u32")
  OBVIOUS
<1>6. IF q.ok THEN Good(s, i + 4, q.v) ELSE Bad(s, b)
  <2>1. "u32" \in Numbers
    BY DEF Numbers
  <2>2. Does(s, b, q, q.v)
    BY <1>1, <1>5, <2>1, GoNumReads
  <2> QED
    BY <1>3, <2>2 DEF Does
<1>7. NullString(b, r) = IF s.err # "none" \/ s.v = Absent THEN SetV(s, Null)
                         ELSE Take(b, s, s.v)
  BY <1>5 DEF NullString, SetV
<1>8. CASE ~q.ok
  <2>1. Bad(s, b) /\ s.err # "none"
    BY <1>6, <1>8, GoodOrBad
  <2>2. Bad(SetV(s, Null), b)
    BY <2>1, GoodOrBad
  <2>3. p = d
    BY <1>2, <1>3, <1>8 DEF NstrParse
  <2> QED
    BY <1>3, <1>7, <1>8, <2>1, <2>2, <2>3 DEF Does
<1>9. CASE q.ok /\ q.v = Absent
  <2>1. PICK k : k = i + 4 /\ Good(s, k, q.v)
    BY <1>6, <1>9
  <2>2. s.err = "none" /\ s.v = q.v
    BY <2>1, GoodSays
  <2>3. Good(SetV(s, Null), k, Null)
    BY <2>1, GoodSet
  <2>4. p = [ok |-> TRUE, end |-> k, v |-> Null]
    BY <1>3, <1>4, <1>9, <2>1 DEF NstrParse
  <2>5. p.ok = TRUE /\ p.end = k /\ p.v = Null
    BY <2>4
  <2> QED
    BY <1>7, <1>9, <2>2, <2>3, <2>5 DEF Does
<1>10. CASE q.ok /\ q.v # Absent
  <2>1. PICK k : k = i + 4 /\ k \in 0..Len(b) /\ Good(s, k, q.v)
    BY <1>3, <1>6, <1>10
  <2>2. s.err = "none" /\ s.v = q.v
    BY <2>1, GoodSays
  <2>3. PICK n \in Nat : n = q.v
    BY <1>3, <1>10
  <2>4. IF k + n <= Len(b) THEN Good(Take(b, s, n), k + n, Part(b, k, n))
        ELSE Bad(Take(b, s, n), b)
    BY <2>1, <2>3, Takes
  <2>5. NullString(b, r) = Take(b, s, n)
    BY <1>7, <1>10, <2>2, <2>3
  <2>6. p = d
    BY <1>2, <1>4, <1>10 DEF NstrParse
  <2>7. p.ok = (k + n <= Len(b)) /\ p.end = k + n /\ p.v = Part(b, k, n)
    BY <1>3, <1>10, <2>1, <2>3, <2>6
  <2> QED
    BY <2>4, <2>5, <2>7 DEF Does
<1>11. q.ok \in BOOLEAN
  BY <1>1 DEF NumParse
<1> QED
  BY <1>8, <1>9, <1>10, <1>11

(* A text that is read, decoded.                                           *)
LEMMA JsStrReads ==
    ASSUME NEW b, NEW s, NEW p, Does(s, b, p, p.v), p.ok \in BOOLEAN
    PROVE  Does(JsStr(s), b, p, Decode(p.v))
<1>1. JsStr(s) = IF s.err = "none" THEN SetV(s, Decode(s.v)) ELSE s
  BY DEF JsStr, SetV
<1>2. CASE p.ok
  <2>1. PICK e, w : e = p.end /\ w = p.v /\ Good(s, e, w)
    BY <1>2 DEF Does
  <2>2. s.err = "none" /\ s.v = w
    BY <2>1, GoodSays
  <2>3. PICK d : d = Decode(w)
    OBVIOUS
  <2>4. Good(SetV(s, d), e, d)
    BY <2>1, GoodOrBad
  <2>5. JsStr(s) = SetV(s, d)
    BY <1>1, <2>2, <2>3
  <2> QED
    BY <1>2, <2>1, <2>3, <2>4, <2>5 DEF Does
<1>3. CASE ~p.ok
  <2>1. Bad(s, b)
    BY <1>3 DEF Does
  <2>2. s.err # "none"
    BY <2>1, GoodOrBad
  <2> QED
    BY <1>1, <1>3, <2>1, <2>2 DEF Does
<1> QED
  BY <1>2, <1>3

(* What the worker takes the value of a field for.                         *)
HeardAs(t, v) == IF t \in {"str", "nstr"} /\ v # Null THEN Decode(v) ELSE v

(* A nullable string, by the worker's reader.                              *)
LEMMA JsNstrReads ==
    ASSUME NEW b \in Seq(Byte), NEW i \in 0..Len(b), NEW r, NEW u,
           Good(r, i, u), NEW p, p = NstrParse(b, i)
    PROVE  Does(JsNstr(b, r), b, p, HeardAs("nstr", p.v))
<1>1. PICK q : q = NumParse(b, i, "u32")
  OBVIOUS
<1>2. PICK d : d = BlockParse(b, i)
  OBVIOUS
<1>3. /\ q.ok = (i + 4 <= Len(b)) /\ q.end = i + 4
      /\ q.ok => q.v \in Nat /\ i + 4 \in 0..Len(b)
      /\ d.ok = (q.ok /\ q.v # Absent /\ (i + 4) + q.v <= Len(b))
      /\ d.end = (i + 4) + q.v /\ d.v = Part(b, i + 4, q.v)
  BY <1>1, <1>2, BlockCases
<1>4. q.v = NumAt(b, i, "u32")
  BY <1>1 DEF NumParse
<1>5. PICK s : s = JsNum(b, r, "u32")
  OBVIOUS
<1>6. IF q.ok THEN Good(s, i + 4, q.v) ELSE Bad(s, b)
  <2>1. "u32" \in Numbers
    BY DEF Numbers
  <2>2. Does(s, b, q, q.v)
    BY <1>1, <1>5, <2>1, JsNumReads
  <2> QED
    BY <1>3, <2>2 DEF Does
<1>7. JsNstr(b, r) = IF s.err # "none" THEN s ELSE IF s.v = Absent THEN SetV(s, Null)
                     ELSE JsStr(Need(b, s, s.v))
  BY <1>5 DEF JsNstr, SetV
<1>8. CASE ~q.ok
  <2>1. Bad(s, b) /\ s.err # "none"
    BY <1>6, <1>8, GoodOrBad
  <2>2. p = d
    BY <1>2, <1>3, <1>8 DEF NstrParse
  <2> QED
    BY <1>3, <1>7, <1>8, <2>1, <2>2 DEF Does
<1>9. CASE q.ok /\ q.v = Absent
  <2>1. PICK k : k = i + 4 /\ Good(s, k, q.v)
    BY <1>6, <1>9
  <2>2. s.err = "none" /\ s.v = q.v
    BY <2>1, GoodSays
  <2>3. Good(SetV(s, Null), k, Null)
    BY <2>1, GoodSet
  <2>4. p = [ok |-> TRUE, end |-> k, v |-> Null]
    BY <1>3, <1>4, <1>9, <2>1 DEF NstrParse
  <2>5. p.ok = TRUE /\ p.end = k /\ HeardAs("nstr", p.v) = Null
    BY <2>4 DEF HeardAs
  <2> QED
    BY <1>7, <1>9, <2>2, <2>3, <2>5 DEF Does
<1>10. CASE q.ok /\ q.v # Absent
  <2>1. PICK k : k = i + 4 /\ k \in 0..Len(b) /\ Good(s, k, q.v)
    BY <1>3, <1>6, <1>10
  <2>2. s.err = "none" /\ s.v = q.v
    BY <2>1, GoodSays
  <2>3. PICK n \in Nat : n = q.v
    BY <1>3, <1>10
  <2>4. PICK m : m = Need(b, s, n)
    OBVIOUS
  <2>5. IF k + n <= Len(b) THEN Good(m, k + n, Part(b, k, n)) ELSE Bad(m, b)
    BY <2>1, <2>3, <2>4, Needs
  <2>6. JsNstr(b, r) = JsStr(m)
    BY <1>7, <1>10, <2>2, <2>3, <2>4
  <2>7. p = d
    BY <1>2, <1>4, <1>10 DEF NstrParse
  <2>8. p.ok = (k + n <= Len(b)) /\ p.end = k + n /\ p.v = Part(b, k, n)
    BY <1>3, <1>10, <2>1, <2>3, <2>7
  <2>9. Does(m, b, p, p.v) /\ p.ok \in BOOLEAN
    <3>1. Does(m, b, p, p.v)
      BY <2>5, <2>8 DEF Does
    <3>2. p.ok \in BOOLEAN
      BY <2>8
    <3> QED
      BY <3>1, <3>2
  <2>10. Does(JsStr(m), b, p, Decode(p.v))
    BY <2>9, JsStrReads
  <2>11. p.ok => HeardAs("nstr", p.v) = Decode(p.v)
    BY <1>2, <2>7, BlockThere DEF HeardAs
  <2> QED
    BY <2>6, <2>10, <2>11 DEF Does
<1>11. q.ok \in BOOLEAN
  BY <1>1 DEF NumParse
<1> QED
  BY <1>8, <1>9, <1>10, <1>11

(* A tag and a value, in its five cases.                                   *)
LEMMA ValueCases ==
    ASSUME NEW b \in Seq(Byte), NEW i \in 0..Len(b), NEW p, p = ValueParse(b, i),
           NEW q, q = NumParse(b, i, "u8")
    PROVE  /\ q.ok = (i + 1 <= Len(b)) /\ q.end = i + 1
           /\ q.ok => q.v \in Nat /\ i + 1 \in 0..Len(b)
           /\ ~q.ok \/ q.v > 4 => ~p.ok
           /\ q.ok /\ q.v = 0 => p.ok /\ p.end = i + 1 /\ p.v = Null
           /\ q.ok /\ q.v = 1 => p = NumParse(b, i + 1, "i64")
           /\ q.ok /\ q.v = 2 => p = NumParse(b, i + 1, "f64")
           /\ q.ok /\ q.v \in {3, 4} => p = BlockParse(b, i + 1)
<1>1. Width["u8"] = 1
  BY DEF Width
<1>2. q.ok = (i + 1 <= Len(b)) /\ q.end = i + 1 /\ q.v = NumAt(b, i, "u8")
  BY <1>1 DEF NumParse
<1>3. ASSUME i + 1 <= Len(b) PROVE NumAt(b, i, "u8") \in Nat
  <2>1. i \in Nat /\ i + Width["u8"] <= Len(b)
    BY <1>1, <1>3
  <2> QED
    BY <2>1, NumThere
<1>4. PICK tag : tag = NumAt(b, i, "u8")
  OBVIOUS
<1>5. p = IF ~ (i + 1 <= Len(b)) \/ tag > 4 THEN [ok |-> FALSE, end |-> i, v |-> Null]
          ELSE CASE tag = 1 -> NumParse(b, i + 1, "i64")
                 [] tag = 2 -> NumParse(b, i + 1, "f64")
                 [] tag \in {3, 4} -> BlockParse(b, i + 1)
                 [] OTHER -> [ok |-> TRUE, end |-> i + 1, v |-> Null]
  BY <1>4 DEF ValueParse, TagInt, TagReal, TagText, TagBlob
<1>6. ASSUME ~q.ok \/ q.v > 4 PROVE ~p.ok
  <2>1. p = [ok |-> FALSE, end |-> i, v |-> Null]
    BY <1>2, <1>4, <1>5, <1>6
  <2> QED
    BY <2>1
<1>7. ASSUME q.ok, q.v \in 0..4
      PROVE  p = CASE tag = 1 -> NumParse(b, i + 1, "i64")
                   [] tag = 2 -> NumParse(b, i + 1, "f64")
                   [] tag \in {3, 4} -> BlockParse(b, i + 1)
                   [] OTHER -> [ok |-> TRUE, end |-> i + 1, v |-> Null]
  <2>1. tag = q.v /\ i + 1 <= Len(b)
    BY <1>2, <1>4, <1>7
  <2>2. tag \in 0..4
    BY <1>7, <2>1
  <2>3. ~ (~ (i + 1 <= Len(b)) \/ tag > 4)
    BY <2>1, <2>2
  <2> QED
    BY <1>5, <2>3
<1>8. q.ok /\ q.v = 1 => p = NumParse(b, i + 1, "i64")
  BY <1>2, <1>4, <1>7
<1>9. q.ok /\ q.v = 2 => p = NumParse(b, i + 1, "f64")
  BY <1>2, <1>4, <1>7
<1>10. q.ok /\ q.v \in {3, 4} => p = BlockParse(b, i + 1)
  BY <1>2, <1>4, <1>7
<1>11. ASSUME q.ok, q.v = 0 PROVE p.ok /\ p.end = i + 1 /\ p.v = Null
  <2>1. p = [ok |-> TRUE, end |-> i + 1, v |-> Null]
    BY <1>2, <1>4, <1>7, <1>11
  <2> QED
    BY <2>1
<1>12. i + 1 <= Len(b) => i + 1 \in 0..Len(b)
  OBVIOUS
<1> QED
  BY <1>2, <1>3, <1>6, <1>8, <1>9, <1>10, <1>11, <1>12

(* A value, by Go's reader.                                                *)
LEMMA GoValueReads ==
    ASSUME NEW b \in Seq(Byte), NEW i \in 0..Len(b), NEW r, NEW u,
           Good(r, i, u), NEW p, p = ValueParse(b, i)
    PROVE  Does(GoValue(b, r), b, p, p.v)
<1>1. PICK q : q = NumParse(b, i, "u8")
  OBVIOUS
<1>2. /\ q.ok = (i + 1 <= Len(b)) /\ q.end = i + 1
      /\ q.ok => q.v \in Nat /\ i + 1 \in 0..Len(b)
      /\ ~q.ok \/ q.v > 4 => ~p.ok
      /\ q.ok /\ q.v = 0 => p.ok /\ p.end = i + 1 /\ p.v = Null
      /\ q.ok /\ q.v = 1 => p = NumParse(b, i + 1, "i64")
      /\ q.ok /\ q.v = 2 => p = NumParse(b, i + 1, "f64")
      /\ q.ok /\ q.v \in {3, 4} => p = BlockParse(b, i + 1)
  BY <1>1, ValueCases
<1>3. PICK s : s = GoNum(b, r, "u8")
  OBVIOUS
<1>4. IF q.ok THEN Good(s, i + 1, q.v) ELSE Bad(s, b)
  <2>1. "u8" \in Numbers
    BY DEF Numbers
  <2>2. Does(s, b, q, q.v)
    BY <1>1, <1>3, <2>1, GoNumReads
  <2> QED
    BY <1>2, <2>2 DEF Does
<1>5. PICK t : t = GoTag(b, r) /\ t = IF s.err = "none" /\ s.v > 4 THEN SetErr(s, "tag") ELSE s
  BY <1>3 DEF GoTag, TagBlob, SetErr
<1>6. GoValue(b, r) = CASE t.v = 1 -> GoNum(b, t, "i64")
                        [] t.v = 2 -> GoNum(b, t, "f64")
                        [] t.v \in {3, 4} -> Bytes(b, t)
                        [] OTHER -> SetV(t, Null)
  BY <1>5 DEF GoValue, TagInt, TagReal, TagText, TagBlob, SetV
<1>7. ASSUME ~q.ok \/ q.v > 4 PROVE Does(GoValue(b, r), b, p, p.v)
  <2>1. Bad(t, b)
    <3>1. CASE ~q.ok
      <4>1. Bad(s, b) /\ s.err # "none"
        BY <1>4, <3>1, GoodOrBad
      <4> QED
        BY <1>5, <4>1
    <3>2. CASE q.ok /\ q.v > 4
      <4>1. PICK k : k = i + 1 /\ k \in 0..Len(b) /\ Good(s, k, q.v)
        BY <1>2, <1>4, <3>2
      <4>2. s.err = "none" /\ s.v = q.v
        BY <4>1, GoodSays
      <4>3. t = SetErr(s, "tag") /\ "tag" \in Errors
        BY <1>5, <3>2, <4>2 DEF Errors
      <4> QED
        BY <4>1, <4>3, Fails
    <3> QED
      BY <1>7, <3>1, <3>2
  <2>2. Bad(GoNum(b, t, "i64"), b) /\ Bad(GoNum(b, t, "f64"), b) /\ Bad(Bytes(b, t), b)
    BY <2>1, GoStays
  <2>3. Bad(SetV(t, Null), b)
    BY <2>1, GoodOrBad
  <2>4. Bad(GoValue(b, r), b)
    BY <1>6, <2>2, <2>3
  <2> QED
    BY <1>2, <1>7, <2>4 DEF Does
<1>8. ASSUME q.ok, q.v \in 0..4 PROVE Does(GoValue(b, r), b, p, p.v)
  <2>1. PICK k : k = i + 1 /\ k \in 0..Len(b) /\ Good(s, k, q.v)
    BY <1>2, <1>4, <1>8
  <2>2. s.err = "none" /\ s.v = q.v
    BY <2>1, GoodSays
  <2>3. t = s /\ t.v = q.v /\ Good(t, k, q.v)
    BY <1>5, <1>8, <2>1, <2>2
  <2>4. CASE q.v = 0
    <3>1. GoValue(b, r) = SetV(t, Null)
      BY <1>6, <2>3, <2>4
    <3>2. Good(SetV(t, Null), k, Null)
      BY <2>3, GoodOrBad
    <3> QED
      BY <1>2, <1>8, <2>1, <2>4, <3>1, <3>2 DEF Does
  <2>5. CASE q.v = 1
    <3>1. GoValue(b, r) = GoNum(b, t, "i64") /\ p = NumParse(b, k, "i64")
      BY <1>2, <1>6, <1>8, <2>1, <2>3, <2>5
    <3>2. "i64" \in Numbers
      BY DEF Numbers
    <3> QED
      BY <2>1, <2>3, <3>1, <3>2, GoNumReads
  <2>6. CASE q.v = 2
    <3>1. GoValue(b, r) = GoNum(b, t, "f64") /\ p = NumParse(b, k, "f64")
      BY <1>2, <1>6, <1>8, <2>1, <2>3, <2>6
    <3>2. "f64" \in Numbers
      BY DEF Numbers
    <3> QED
      BY <2>1, <2>3, <3>1, <3>2, GoNumReads
  <2>7. CASE q.v \in {3, 4}
    <3>1. GoValue(b, r) = Bytes(b, t) /\ p = BlockParse(b, k)
      BY <1>2, <1>6, <1>8, <2>1, <2>3, <2>7
    <3> QED
      BY <2>1, <2>3, <3>1, GoBlockReads
  <2> QED
    BY <1>8, <2>4, <2>5, <2>6, <2>7
<1>9. q.ok \in BOOLEAN /\ (q.ok => q.v > 4 \/ q.v \in 0..4)
  BY <1>2
<1> QED
  BY <1>7, <1>8, <1>9

(* And by the worker's.                                                    *)
LEMMA JsValueReads ==
    ASSUME NEW b \in Seq(Byte), NEW i \in 0..Len(b), NEW r, NEW u,
           Good(r, i, u), NEW p, p = ValueParse(b, i)
    PROVE  Does(JsValue(b, r), b, p, p.v)
<1>1. PICK q : q = NumParse(b, i, "u8")
  OBVIOUS
<1>2. /\ q.ok = (i + 1 <= Len(b)) /\ q.end = i + 1
      /\ q.ok => q.v \in Nat /\ i + 1 \in 0..Len(b)
      /\ ~q.ok \/ q.v > 4 => ~p.ok
      /\ q.ok /\ q.v = 0 => p.ok /\ p.end = i + 1 /\ p.v = Null
      /\ q.ok /\ q.v = 1 => p = NumParse(b, i + 1, "i64")
      /\ q.ok /\ q.v = 2 => p = NumParse(b, i + 1, "f64")
      /\ q.ok /\ q.v \in {3, 4} => p = BlockParse(b, i + 1)
  BY <1>1, ValueCases
<1>3. PICK s : s = JsNum(b, r, "u8")
  OBVIOUS
<1>4. IF q.ok THEN Good(s, i + 1, q.v) ELSE Bad(s, b)
  <2>1. "u8" \in Numbers
    BY DEF Numbers
  <2>2. Does(s, b, q, q.v)
    BY <1>1, <1>3, <2>1, JsNumReads
  <2> QED
    BY <1>2, <2>2 DEF Does
<1>5. JsValue(b, r) = IF s.err # "none" \/ s.v > 4 THEN SetV(SetErr(s, "threw"), <<>>)
                      ELSE CASE s.v = 1 -> JsNum(b, s, "i64")
                             [] s.v = 2 -> JsNum(b, s, "f64")
                             [] s.v \in {3, 4} -> JsBytes(b, s)
                             [] s.v = 0 -> SetV(s, Null)
  BY <1>3 DEF JsValue, Threw, TagNull, TagInt, TagReal, TagText, TagBlob, SetV, SetErr
<1>6. "threw" \in Errors
  BY DEF Errors
<1>7. ASSUME ~q.ok \/ q.v > 4 PROVE Does(JsValue(b, r), b, p, p.v)
  <2>1. PICK x : x = SetV(SetErr(s, "threw"), <<>>)
    OBVIOUS
  <2>2. JsValue(b, r) = x /\ Bad(x, b)
    <3>1. CASE ~q.ok
      <4>1. Bad(s, b) /\ s.err # "none"
        BY <1>4, <3>1, GoodOrBad
      <4>2. Bad(x, b)
        BY <1>6, <2>1, <4>1, FailsAgain
      <4> QED
        BY <1>5, <2>1, <4>1, <4>2
    <3>2. CASE q.ok /\ q.v > 4
      <4>1. PICK k : k = i + 1 /\ k \in 0..Len(b) /\ Good(s, k, q.v)
        BY <1>2, <1>4, <3>2
      <4>2. s.err = "none" /\ s.v = q.v
        BY <4>1, GoodSays
      <4>3. Bad(x, b)
        BY <1>6, <2>1, <4>1, Fails
      <4> QED
        BY <1>5, <2>1, <3>2, <4>2, <4>3
    <3> QED
      BY <1>7, <3>1, <3>2
  <2> QED
    BY <1>2, <1>7, <2>2 DEF Does
<1>8. ASSUME q.ok, q.v \in 0..4 PROVE Does(JsValue(b, r), b, p, p.v)
  <2>1. PICK k : k = i + 1 /\ k \in 0..Len(b) /\ Good(s, k, q.v)
    BY <1>2, <1>4, <1>8
  <2>2. s.err = "none" /\ s.v = q.v /\ ~ (s.v > 4)
    BY <1>8, <2>1, GoodSays
  <2>3. JsValue(b, r) = CASE s.v = 1 -> JsNum(b, s, "i64")
                          [] s.v = 2 -> JsNum(b, s, "f64")
                          [] s.v \in {3, 4} -> JsBytes(b, s)
                          [] s.v = 0 -> SetV(s, Null)
    BY <1>5, <2>2
  <2>4. CASE q.v = 0
    <3>1. JsValue(b, r) = SetV(s, Null)
      BY <2>2, <2>3, <2>4
    <3>2. Good(SetV(s, Null), k, Null)
      BY <2>1, GoodOrBad
    <3> QED
      BY <1>2, <1>8, <2>1, <2>4, <3>1, <3>2 DEF Does
  <2>5. CASE q.v = 1
    <3>1. JsValue(b, r) = JsNum(b, s, "i64") /\ p = NumParse(b, k, "i64")
      BY <1>2, <1>8, <2>1, <2>2, <2>3, <2>5
    <3>2. "i64" \in Numbers
      BY DEF Numbers
    <3> QED
      BY <2>1, <3>1, <3>2, JsNumReads
  <2>6. CASE q.v = 2
    <3>1. JsValue(b, r) = JsNum(b, s, "f64") /\ p = NumParse(b, k, "f64")
      BY <1>2, <1>8, <2>1, <2>2, <2>3, <2>6
    <3>2. "f64" \in Numbers
      BY DEF Numbers
    <3> QED
      BY <2>1, <3>1, <3>2, JsNumReads
  <2>7. CASE q.v \in {3, 4}
    <3>1. JsValue(b, r) = JsBytes(b, s) /\ p = BlockParse(b, k)
      BY <1>2, <1>8, <2>1, <2>2, <2>3, <2>7
    <3> QED
      BY <2>1, <3>1, JsBlockReads
  <2> QED
    BY <1>8, <2>4, <2>5, <2>6, <2>7
<1>9. q.ok \in BOOLEAN /\ (q.ok => q.v > 4 \/ q.v \in 0..4)
  BY <1>2
<1> QED
  BY <1>7, <1>8, <1>9

(* The types a reader is asked for.                                        *)
Types == Numbers \cup {"bool", "bytes", "str", "nstr"} \cup Values

(* How each is parsed and read.                                            *)
LEMMA ReadCases ==
    ASSUME NEW b, NEW r, NEW i, NEW t \in Types
    PROVE  /\ t \in Numbers => /\ Parse(b, i, t) = NumParse(b, i, t)
                               /\ GoRead(b, r, t) = GoNum(b, r, t)
                               /\ JsRead(b, r, t) = JsNum(b, r, t)
           /\ t = "bool" =>
                 /\ Parse(b, i, t) = BoolParse(b, i)
                 /\ GoRead(b, r, t) = SetV(GoNum(b, r, "u8"), GoNum(b, r, "u8").v # 0)
                 /\ JsRead(b, r, t) = IF JsNum(b, r, "u8").err = "none"
                                      THEN SetV(JsNum(b, r, "u8"), JsNum(b, r, "u8").v # 0)
                                      ELSE JsNum(b, r, "u8")
           /\ t \in {"bytes", "str"} => /\ Parse(b, i, t) = BlockParse(b, i)
                                        /\ GoRead(b, r, t) = Bytes(b, r)
           /\ t = "bytes" => JsRead(b, r, t) = JsBytes(b, r)
           /\ t = "str" => JsRead(b, r, t) = JsStr(JsBytes(b, r))
           /\ t = "nstr" => /\ Parse(b, i, t) = NstrParse(b, i)
                            /\ GoRead(b, r, t) = NullString(b, r)
                            /\ JsRead(b, r, t) = JsNstr(b, r)
           /\ t \in Values => /\ Parse(b, i, t) = ValueParse(b, i)
                              /\ GoRead(b, r, t) = GoValue(b, r)
                              /\ JsRead(b, r, t) = JsValue(b, r)
<1>1. DOMAIN Width = Numbers
  BY DEF Width, Numbers
<1>2. CASE t \in Numbers
  BY <1>1, <1>2 DEF Parse, GoRead, JsRead, Numbers, Values
<1>3. CASE t = "bool"
  BY <1>1, <1>3 DEF Parse, GoRead, JsRead, Numbers, Values, SetV
<1>4. CASE t \in {"bytes", "str", "nstr"}
  BY <1>1, <1>4 DEF Parse, GoRead, JsRead, Numbers, Values
<1>5. CASE t \in Values
  BY <1>1, <1>5 DEF Parse, GoRead, JsRead, Numbers, Values
<1> QED
  BY <1>2, <1>3, <1>4, <1>5 DEF Types, Values, Numbers

(* A field that is there ends within the frame.                            *)
LEMMA ParseThere ==
    ASSUME NEW b \in Seq(Byte), NEW i \in 0..Len(b), NEW t \in Types, NEW p, p = Parse(b, i, t)
    PROVE  p.ok \in BOOLEAN /\ (p.ok => p.end \in 0..Len(b))
<1>1. ASSUME NEW k \in 0..Len(b), NEW n \in Numbers, NEW q, q = NumParse(b, k, n)
      PROVE  q.ok \in BOOLEAN /\ (q.ok => q.end \in 0..Len(b))
  <2>1. PICK w \in Nat : w = Width[n]
    BY RangesAreInts
  <2>2. q.ok = (k + w <= Len(b)) /\ q.end = k + w
    BY <1>1, <2>1 DEF NumParse
  <2>3. q.ok \in BOOLEAN
    BY <2>2
  <2>4. ASSUME q.ok PROVE q.end \in 0..Len(b)
    <3>1. PICK e : e = q.end
      OBVIOUS
    <3>2. k + w <= Len(b) /\ e = k + w
      BY <2>2, <2>4, <3>1
    <3> QED
      BY <3>1, <3>2
  <2> QED
    BY <2>3, <2>4
<1>2. ASSUME NEW k \in 0..Len(b), NEW q, q = BlockParse(b, k)
      PROVE  q.ok \in BOOLEAN /\ (q.ok => q.end \in 0..Len(b))
  <2>1. q.ok => q.end \in 0..Len(b)
    BY <1>2, BlockThere
  <2>2. q.ok \in BOOLEAN
    BY <1>2 DEF BlockParse
  <2> QED
    BY <2>1, <2>2
<1>3. CASE t \in Numbers
  <2>1. p = NumParse(b, i, t)
    BY <1>3, ReadCases
  <2> QED
    BY <1>1, <1>3, <2>1
<1>4. CASE t = "bool"
  <2>1. p = BoolParse(b, i)
    BY <1>4, ReadCases
  <2>2. p.ok = (i + 1 <= Len(b)) /\ p.end = i + 1
    BY <2>1 DEF BoolParse
  <2>3. p.ok \in BOOLEAN
    BY <2>2
  <2>4. ASSUME p.ok PROVE p.end \in 0..Len(b)
    <3>1. PICK e : e = p.end
      OBVIOUS
    <3>2. i + 1 <= Len(b) /\ e = i + 1
      BY <2>2, <2>4, <3>1
    <3> QED
      BY <3>1, <3>2
  <2> QED
    BY <2>3, <2>4
<1>5. CASE t \in {"bytes", "str"}
  <2>1. p = BlockParse(b, i)
    BY <1>5, ReadCases
  <2> QED
    BY <1>2, <2>1
<1>6. CASE t = "nstr"
  <2>1. p = NstrParse(b, i)
    BY <1>6, ReadCases
  <2>2. CASE i + 4 <= Len(b) /\ NumAt(b, i, "u32") = Absent
    <3>1. p = [ok |-> TRUE, end |-> i + 4, v |-> Null]
      BY <2>1, <2>2 DEF NstrParse
    <3>2. p.ok = TRUE /\ p.end = i + 4
      BY <3>1
    <3>3. i + 4 \in 0..Len(b)
      BY <2>2
    <3> QED
      BY <3>2, <3>3
  <2>3. CASE ~ (i + 4 <= Len(b) /\ NumAt(b, i, "u32") = Absent)
    <3>1. p = BlockParse(b, i)
      BY <2>1, <2>3 DEF NstrParse
    <3> QED
      BY <1>2, <3>1
  <2> QED
    BY <2>2, <2>3
<1>7. CASE t \in Values
  <2>1. p = ValueParse(b, i)
    BY <1>7, ReadCases
  <2>2. PICK q : q = NumParse(b, i, "u8")
    OBVIOUS
  <2>3. /\ q.ok = (i + 1 <= Len(b))
        /\ q.ok => q.v \in Nat /\ i + 1 \in 0..Len(b)
        /\ ~q.ok \/ q.v > 4 => ~p.ok
        /\ q.ok /\ q.v = 0 => p.ok /\ p.end = i + 1
        /\ q.ok /\ q.v = 1 => p = NumParse(b, i + 1, "i64")
        /\ q.ok /\ q.v = 2 => p = NumParse(b, i + 1, "f64")
        /\ q.ok /\ q.v \in {3, 4} => p = BlockParse(b, i + 1)
    BY <2>1, <2>2, ValueCases
  <2>4. p.ok \in BOOLEAN
    <3>1. PICK x : x = BlockParse(b, i + 1)
      OBVIOUS
    <3>2. PICK y : y = NumParse(b, i + 1, "i64")
      OBVIOUS
    <3>3. PICK z : z = NumParse(b, i + 1, "f64")
      OBVIOUS
    <3>4. PICK v : v = [ok |-> TRUE, end |-> i + 1, v |-> Null]
      OBVIOUS
    <3>5. PICK w : w = [ok |-> FALSE, end |-> i, v |-> Null]
      OBVIOUS
    <3>6. p = x \/ p = y \/ p = z \/ p = v \/ p = w
      BY <2>1, <3>1, <3>2, <3>3, <3>4, <3>5 DEF ValueParse
    <3>7. x.ok \in BOOLEAN
      BY <3>1 DEF BlockParse
    <3>8. y.ok \in BOOLEAN
      BY <3>2 DEF NumParse
    <3>9. z.ok \in BOOLEAN
      BY <3>3 DEF NumParse
    <3>10. v.ok \in BOOLEAN
      BY <3>4
    <3>11. w.ok \in BOOLEAN
      BY <3>5
    <3> QED
      BY <3>6, <3>7, <3>8, <3>9, <3>10, <3>11
  <2>5. ASSUME q.ok, q.v \in 0..4 PROVE p.ok => p.end \in 0..Len(b)
    <3>1. PICK k \in 0..Len(b) : k = i + 1
      BY <2>3, <2>5
    <3>2. CASE q.v = 0
      BY <2>3, <2>5, <3>1, <3>2
    <3>3. CASE q.v \in {1, 2}
      <4>1. "i64" \in Numbers /\ "f64" \in Numbers
        BY DEF Numbers
      <4>2. p = NumParse(b, k, "i64") \/ p = NumParse(b, k, "f64")
        BY <2>3, <2>5, <3>1, <3>3
      <4> QED
        BY <1>1, <4>1, <4>2
    <3>4. CASE q.v \in {3, 4}
      <4>1. p = BlockParse(b, k)
        BY <2>3, <2>5, <3>1, <3>4
      <4> QED
        BY <1>2, <4>1
    <3> QED
      BY <2>5, <3>2, <3>3, <3>4
  <2>6. q.ok => q.v > 4 \/ q.v \in 0..4
    BY <2>3
  <2> QED
    BY <2>3, <2>4, <2>5, <2>6
<1> QED
  BY <1>3, <1>4, <1>5, <1>6, <1>7 DEF Types

(* Go's reader reads what is there, or fails.                              *)
LEMMA GoReads ==
    ASSUME NEW b \in Seq(Byte), NEW i \in 0..Len(b), NEW r, NEW u, NEW t \in Types,
           Good(r, i, u), NEW p, p = Parse(b, i, t)
    PROVE  Does(GoRead(b, r, t), b, p, p.v)
<1>1. CASE t \in Numbers
  <2>1. p = NumParse(b, i, t) /\ GoRead(b, r, t) = GoNum(b, r, t)
    BY <1>1, ReadCases
  <2> QED
    BY <1>1, <2>1, GoNumReads
<1>2. CASE t = "bool"
  <2>1. PICK s : s = GoNum(b, r, "u8")
    OBVIOUS
  <2>2. PICK x : x = (s.v # 0)
    OBVIOUS
  <2>3. p = BoolParse(b, i) /\ GoRead(b, r, t) = SetV(s, x)
    BY <1>2, <2>1, <2>2, ReadCases
  <2>4. PICK q : q = NumParse(b, i, "u8")
    OBVIOUS
  <2>5. "u8" \in Numbers /\ Width["u8"] = 1
    BY DEF Numbers, Width
  <2>6. Does(s, b, q, q.v)
    BY <2>1, <2>4, <2>5, GoNumReads
  <2>7. q.ok = (i + 1 <= Len(b)) /\ q.end = i + 1 /\ q.v = NumAt(b, i, "u8")
    BY <2>4, <2>5 DEF NumParse
  <2>8. p.ok = q.ok /\ p.end = q.end /\ p.v = (q.v # 0)
    BY <2>3, <2>7 DEF BoolParse
  <2>9. CASE q.ok
    <3>1. PICK e, w : e = q.end /\ w = q.v /\ Good(s, e, w)
      BY <2>6, <2>9 DEF Does
    <3>2. s.v = w
      BY <3>1, GoodSays
    <3>3. Good(SetV(s, x), e, x)
      BY <3>1, GoodOrBad
    <3>4. p.v = x
      BY <2>2, <2>8, <3>1, <3>2
    <3> QED
      BY <2>3, <2>8, <2>9, <3>1, <3>3, <3>4 DEF Does
  <2>10. CASE ~q.ok
    <3>1. Bad(s, b)
      BY <2>6, <2>10 DEF Does
    <3>2. Bad(SetV(s, x), b)
      BY <3>1, GoodOrBad
    <3> QED
      BY <2>3, <2>8, <2>10, <3>2 DEF Does
  <2> QED
    BY <2>9, <2>10
<1>3. CASE t \in {"bytes", "str"}
  <2>1. p = BlockParse(b, i) /\ GoRead(b, r, t) = Bytes(b, r)
    BY <1>3, ReadCases
  <2> QED
    BY <2>1, GoBlockReads
<1>4. CASE t = "nstr"
  <2>1. p = NstrParse(b, i) /\ GoRead(b, r, t) = NullString(b, r)
    BY <1>4, ReadCases
  <2> QED
    BY <2>1, GoNstrReads
<1>5. CASE t \in Values
  <2>1. p = ValueParse(b, i) /\ GoRead(b, r, t) = GoValue(b, r)
    BY <1>5, ReadCases
  <2> QED
    BY <2>1, GoValueReads
<1> QED
  BY <1>1, <1>2, <1>3, <1>4, <1>5 DEF Types

(* So does the worker's, but for the byte order mark of a text.            *)
LEMMA JsReads ==
    ASSUME NEW b \in Seq(Byte), NEW i \in 0..Len(b), NEW r, NEW u, NEW t \in Types,
           Good(r, i, u), NEW p, p = Parse(b, i, t)
    PROVE  Does(JsRead(b, r, t), b, p, HeardAs(t, p.v))
<1>0. t \notin {"str", "nstr"} => HeardAs(t, p.v) = p.v
  BY DEF HeardAs
<1>1. CASE t \in Numbers
  <2>1. p = NumParse(b, i, t) /\ JsRead(b, r, t) = JsNum(b, r, t)
    BY <1>1, ReadCases
  <2>2. Does(JsNum(b, r, t), b, p, p.v)
    BY <1>1, <2>1, JsNumReads
  <2>3. t \notin {"str", "nstr"}
    BY <1>1 DEF Numbers
  <2> QED
    BY <1>0, <2>1, <2>2, <2>3
<1>2. CASE t = "bool"
  <2>1. PICK s : s = JsNum(b, r, "u8")
    OBVIOUS
  <2>2. PICK x : x = (s.v # 0)
    OBVIOUS
  <2>3. p = BoolParse(b, i) /\ JsRead(b, r, t) = IF s.err = "none" THEN SetV(s, x) ELSE s
    BY <1>2, <2>1, <2>2, ReadCases
  <2>4. PICK q : q = NumParse(b, i, "u8")
    OBVIOUS
  <2>5. "u8" \in Numbers /\ Width["u8"] = 1
    BY DEF Numbers, Width
  <2>6. Does(s, b, q, q.v)
    BY <2>1, <2>4, <2>5, JsNumReads
  <2>7. q.ok = (i + 1 <= Len(b)) /\ q.end = i + 1 /\ q.v = NumAt(b, i, "u8")
    BY <2>4, <2>5 DEF NumParse
  <2>8. p.ok = q.ok /\ p.end = q.end /\ p.v = (q.v # 0)
    BY <2>3, <2>7 DEF BoolParse
  <2>9. CASE q.ok
    <3>1. PICK e, w : e = q.end /\ w = q.v /\ Good(s, e, w)
      BY <2>6, <2>9 DEF Does
    <3>2. s.v = w /\ s.err = "none"
      BY <3>1, GoodSays
    <3>3. Good(SetV(s, x), e, x)
      BY <3>1, GoodOrBad
    <3>4. p.v = x
      BY <2>2, <2>8, <3>1, <3>2
    <3>5. Does(JsRead(b, r, t), b, p, p.v)
      BY <2>3, <2>8, <2>9, <3>1, <3>2, <3>3, <3>4 DEF Does
    <3> QED
      BY <1>0, <1>2, <3>5
  <2>10. CASE ~q.ok
    <3>1. Bad(s, b) /\ s.err # "none"
      BY <2>6, <2>10, GoodOrBad DEF Does
    <3> QED
      BY <2>3, <2>8, <2>10, <3>1 DEF Does
  <2> QED
    BY <2>9, <2>10
<1>3. CASE t = "bytes"
  <2>1. p = BlockParse(b, i) /\ JsRead(b, r, t) = JsBytes(b, r)
    BY <1>3, ReadCases
  <2>2. Does(JsBytes(b, r), b, p, p.v)
    BY <2>1, JsBlockReads
  <2> QED
    BY <1>0, <1>3, <2>1, <2>2
<1>4. CASE t = "str"
  <2>1. PICK s : s = JsBytes(b, r)
    OBVIOUS
  <2>2. p = BlockParse(b, i) /\ JsRead(b, r, t) = JsStr(s)
    BY <1>4, <2>1, ReadCases
  <2>3. Does(s, b, p, p.v)
    BY <2>1, <2>2, JsBlockReads
  <2>4. p.ok \in BOOLEAN
    BY ParseThere
  <2>5. Does(JsStr(s), b, p, Decode(p.v))
    BY <2>3, <2>4, JsStrReads
  <2>6. p.ok => HeardAs(t, p.v) = Decode(p.v)
    BY <1>4, <2>2, BlockThere DEF HeardAs
  <2> QED
    BY <2>2, <2>5, <2>6 DEF Does
<1>5. CASE t = "nstr"
  <2>1. p = NstrParse(b, i) /\ JsRead(b, r, t) = JsNstr(b, r)
    BY <1>5, ReadCases
  <2> QED
    BY <1>5, <2>1, JsNstrReads
<1>6. CASE t \in Values
  <2>1. p = ValueParse(b, i) /\ JsRead(b, r, t) = JsValue(b, r)
    BY <1>6, ReadCases
  <2>2. Does(JsValue(b, r), b, p, p.v)
    BY <2>1, JsValueReads
  <2>3. t \notin {"str", "nstr"}
    BY <1>6 DEF Values
  <2> QED
    BY <1>0, <2>1, <2>2, <2>3
<1> QED
  BY <1>1, <1>2, <1>3, <1>4, <1>5, <1>6 DEF Types

(* A failure of Go's reader is sticky.                                     *)
LEMMA GoReadStays ==
    ASSUME NEW b, NEW r, Bad(r, b), NEW t \in Types
    PROVE  Bad(GoRead(b, r, t), b)
<1>1. CASE t \in Numbers
  BY <1>1, ReadCases, GoStays
<1>2. CASE t = "bool"
  <2>1. PICK s : s = GoNum(b, r, "u8")
    OBVIOUS
  <2>2. PICK x : x = (s.v # 0)
    OBVIOUS
  <2>3. GoRead(b, r, t) = SetV(s, x) /\ Bad(s, b)
    BY <1>2, <2>1, <2>2, ReadCases, GoStays
  <2>4. Bad(SetV(s, x), b)
    BY <2>3, GoodOrBad
  <2> QED
    BY <2>3, <2>4
<1>3. CASE t \in {"bytes", "str", "nstr"}
  BY <1>3, ReadCases, GoStays
<1>4. CASE t \in Values
  <2>1. PICK s : s = GoTag(b, r)
    OBVIOUS
  <2>2. s = GoNum(b, r, "u8") /\ Bad(s, b)
    <3>1. GoNum(b, r, "u8").err # "none" /\ Bad(GoNum(b, r, "u8"), b)
      BY GoStays
    <3> QED
      BY <2>1, <3>1 DEF GoTag
  <2>3. Bad(GoNum(b, s, "i64"), b) /\ Bad(GoNum(b, s, "f64"), b) /\ Bad(Bytes(b, s), b)
    BY <2>2, GoStays
  <2>4. Bad(SetV(s, Null), b)
    BY <2>2, GoodOrBad
  <2>5. GoValue(b, r) = CASE s.v = 1 -> GoNum(b, s, "i64")
                          [] s.v = 2 -> GoNum(b, s, "f64")
                          [] s.v \in {3, 4} -> Bytes(b, s)
                          [] OTHER -> SetV(s, Null)
    BY <2>1 DEF GoValue, TagInt, TagReal, TagText, TagBlob, SetV
  <2>6. Bad(GoValue(b, r), b)
    BY <2>3, <2>4, <2>5
  <2> QED
    BY <1>4, <2>6, ReadCases
<1> QED
  BY <1>1, <1>2, <1>3, <1>4 DEF Types

(* The bytes g are at i of b, as far as b goes.                            *)
Has(b, i, g) == \A j \in 1..Len(g) : i + j <= Len(b) => b[i + j] = g[j]

(* What is parsed there is v, when all of g is in b.                       *)
Reads(p, b, i, n, v) ==
    /\ p.ok = (i + n <= Len(b))
    /\ p.ok => p.end = i + n /\ p.v = v

(* A byte; and a value behind its tag.                                     *)
Single(x) == <<x>>
Behind(y, tag, x) == y = Single(tag) \o x

(* All of g.                                                               *)
LEMMA PartIs ==
    ASSUME NEW b \in Seq(Byte), NEW i \in Nat, NEW g \in Seq(Byte), Has(b, i, g),
           NEW n, n = Len(g), i + n <= Len(b)
    PROVE  Part(b, i, n) = g
<1>1. n \in Nat
  OBVIOUS
<1>2. PICK s : s = Part(b, i, n)
  OBVIOUS
<1>3. s \in Seq(Byte) /\ Len(s) = n /\ \A j \in 1..n : s[j] = b[i + j]
  BY <1>1, <1>2, PartBytes
<1>4. ASSUME NEW j \in 1..n PROVE s[j] = g[j]
  <2>1. i + j <= Len(b) /\ j \in 1..Len(g)
    BY <1>1
  <2>2. b[i + j] = g[j]
    BY <2>1 DEF Has
  <2> QED
    BY <1>3, <2>2
<1>5. s = g
  BY <1>1, <1>3, <1>4
<1> QED
  BY <1>2, <1>5

(* Two parts, one after the other.                                         *)
LEMMA HasParts ==
    ASSUME NEW b \in Seq(Byte), NEW i \in Nat, NEW s \in Seq(Byte), NEW t \in Seq(Byte),
           NEW c, c = s \o t, Has(b, i, c), NEW n, n = Len(s)
    PROVE  Has(b, i, s) /\ Has(b, i + n, t)
<1>1. PICK m : m = Len(t)
  OBVIOUS
<1>2. /\ c \in Seq(Byte) /\ Len(c) = n + m /\ n \in Nat /\ m \in Nat
      /\ \A j \in 1..n : c[j] = s[j]
      /\ \A j \in 1..m : c[n + j] = t[j]
  BY <1>1, JoinedAs
<1>3. PICK l \in Nat : l = Len(b)
  OBVIOUS
<1>4. \A j \in 1..(n + m) : i + j <= l => b[i + j] = c[j]
  BY <1>2, <1>3 DEF Has
<1>5. ASSUME NEW j \in 1..n, i + j <= l PROVE b[i + j] = s[j]
  <2>1. j \in 1..(n + m)
    BY <1>2
  <2>2. b[i + j] = c[j]
    BY <1>4, <1>5, <2>1
  <2> QED
    BY <1>2, <2>2
<1>6. ASSUME NEW j \in 1..m, (i + n) + j <= l PROVE b[(i + n) + j] = t[j]
  <2>0. n \in Nat /\ m \in Nat
    BY <1>2
  <2>1. PICK k \in 1..(n + m) : k = n + j /\ i + k = (i + n) + j
    <3>1. n + j \in 1..(n + m) /\ i + (n + j) = (i + n) + j
      BY <2>0
    <3> QED
      BY <3>1
  <2>2. b[i + k] = c[k]
    BY <1>4, <1>6, <2>1
  <2>3. c[k] = t[j]
    BY <1>2, <2>1
  <2> QED
    BY <2>1, <2>2, <2>3
<1>7. Has(b, i, s)
  BY <1>3, <1>5 DEF Has
<1>8. Has(b, i + n, t)
  BY <1>1, <1>3, <1>6 DEF Has
<1> QED
  BY <1>7, <1>8

(* A number.                                                               *)
LEMMA NumIs ==
    ASSUME NEW b \in Seq(Byte), NEW i \in 0..Len(b), NEW t \in Numbers,
           NEW v \in IF t \in {"i32", "i64"} THEN Signeds(Width[t]) ELSE Unsigneds(Width[t]),
           Has(b, i, LE(Width[t], v)), NEW p, p = NumParse(b, i, t)
    PROVE  Reads(p, b, i, Width[t], v)
<1>1. PICK n \in Nat : n = Width[t]
  BY RangesAreInts
<1>2. v \in Int
  BY RangesAreInts
<1>3. PICK g : g = LE(n, v) /\ g \in Seq(Byte) /\ Len(g) = n
  BY <1>1, <1>2, NumberBytes
<1>4. p.ok = (i + n <= Len(b)) /\ p.end = i + n /\ p.v = Number(t, Part(b, i, n))
  BY <1>1 DEF NumParse, NumAt
<1>5. ASSUME i + n <= Len(b) PROVE p.v = v
  <2>1. Has(b, i, g) /\ i \in Nat /\ n = Len(g)
    BY <1>1, <1>3
  <2>2. Part(b, i, n) = g
    BY <1>3, <1>5, <2>1, PartIs
  <2>3. t \in DOMAIN Width
    BY DEF Width, Numbers
  <2>4. Number(t, LE(n, v)) = v
    BY <1>1, <2>3, NumberRead
  <2> QED
    BY <1>3, <1>4, <2>2, <2>4
<1> QED
  BY <1>1, <1>4, <1>5 DEF Reads

(* A block.                                                                *)
LEMMA BlockIs ==
    ASSUME NEW b \in Seq(Byte), NEW i \in 0..Len(b), NEW v \in Seq(Byte), Len(v) < Absent,
           Has(b, i, GoBytes(v)), NEW p, p = BlockParse(b, i)
    PROVE  /\ Reads(p, b, i, 4 + Len(v), v)
           /\ i + 4 <= Len(b) => NumAt(b, i, "u32") = Len(v)
<1>1. PICK m \in Nat : m = Len(v) /\ m < Absent
  OBVIOUS
<1>2. PICK h : h = LE(4, m)
  OBVIOUS
<1>3. h \in Seq(Byte) /\ Len(h) = 4
  BY <1>1, <1>2, GoBytesBytes
<1>4. Has(b, i, h) /\ Has(b, i + 4, v)
  <2>1. PICK c : c = h \o v
    OBVIOUS
  <2>2. Has(b, i, c)
    BY <1>1, <1>2, <2>1 DEF GoBytes
  <2>3. PICK n : n = 4
    OBVIOUS
  <2>4. n = Len(h) /\ i \in Nat
    BY <1>3, <2>3
  <2>5. Has(b, i, h) /\ Has(b, i + n, v)
    BY <1>3, <2>1, <2>2, <2>4, HasParts
  <2> QED
    BY <2>3, <2>5
<1>5. PICK q : q = NumParse(b, i, "u32")
  OBVIOUS
<1>6. Reads(q, b, i, 4, m)
  <2>1. "u32" \in Numbers /\ Width["u32"] = 4 /\ "u32" \notin {"i32", "i64"}
    BY DEF Numbers, Width
  <2>2. m \in Unsigneds(4)
    <3>1. PICK a : a = Absent /\ a \in Nat
      BY AbsentIsLast
    <3>2. PICK size : size = Size(4) /\ size = Size4 /\ size \in Nat
      BY Sizes DEF Size
    <3>3. a = size - 1
      BY <3>1, <3>2 DEF Absent
    <3>4. m \in 0..(size - 1)
      BY <1>1, <3>1, <3>3
    <3> QED
      BY <3>2, <3>4 DEF Unsigneds
  <2>3. Has(b, i, LE(Width["u32"], m))
    BY <1>2, <1>4, <2>1
  <2> QED
    BY <1>5, <2>1, <2>2, <2>3, NumIs
<1>7. /\ q.ok = (i + 4 <= Len(b)) /\ q.end = i + 4
      /\ p.ok = (q.ok /\ q.v # Absent /\ (i + 4) + q.v <= Len(b))
      /\ p.end = (i + 4) + q.v /\ p.v = Part(b, i + 4, q.v)
  BY <1>5, BlockCases
<1>8. q.ok => q.v = m
  BY <1>6 DEF Reads
<1>9. PICK l \in Nat : l = Len(b)
  OBVIOUS
<1>10. ASSUME i + 4 <= l PROVE Reads(p, b, i, 4 + Len(v), v)
  <2>0. q.ok = (i + 4 <= l) /\ m # Absent
    <3>1. PICK a : a = Absent /\ a \in Nat
      BY AbsentIsLast
    <3>2. m # a
      BY <1>1, <3>1
    <3> QED
      BY <1>7, <1>9, <3>1, <3>2
  <2>1. q.ok /\ q.v = m /\ m # Absent
    BY <1>8, <1>10, <2>0
  <2>2. p.ok = ((i + 4) + m <= l) /\ p.end = (i + 4) + m /\ p.v = Part(b, i + 4, m)
    BY <1>7, <1>9, <2>1
  <2>3. (i + 4) + m = i + (4 + m)
    OBVIOUS
  <2>4. ASSUME (i + 4) + m <= l PROVE Part(b, i + 4, m) = v
    <3>1. PICK k \in Nat : k = i + 4
      OBVIOUS
    <3>2. Has(b, k, v) /\ m = Len(v) /\ k + m <= Len(b)
      BY <1>1, <1>4, <1>9, <2>4, <3>1
    <3>3. Part(b, k, m) = v
      BY <3>2, PartIs
    <3> QED
      BY <3>1, <3>3
  <2> QED
    BY <1>1, <1>9, <2>2, <2>3, <2>4 DEF Reads
<1>11. ASSUME ~ (i + 4 <= l) PROVE Reads(p, b, i, 4 + Len(v), v)
  <2>1. ~q.ok
    BY <1>7, <1>9, <1>11
  <2>2. p.ok = FALSE
    BY <1>7, <2>1
  <2>3. ~ (i + (4 + m) <= l)
    BY <1>11
  <2>4. PICK k : k = 4 + m
    OBVIOUS
  <2>5. Reads(p, b, i, k, v)
    <3>1. ~ (i + k <= Len(b))
      BY <1>9, <2>3, <2>4
    <3>2. (i + k <= Len(b)) = FALSE
      BY <3>1
    <3> QED
      BY <2>2, <3>2 DEF Reads
  <2> QED
    BY <1>1, <2>4, <2>5
<1>12. i + 4 <= Len(b) => NumAt(b, i, "u32") = m
  BY <1>5, <1>7, <1>8 DEF NumParse
<1>13. Reads(p, b, i, 4 + Len(v), v)
  BY <1>10, <1>11
<1> QED
  BY <1>1, <1>12, <1>13

(* A small number in a byte of its own.                                    *)
LEMMA OneByte ==
    ASSUME NEW x \in 0..4
    PROVE  /\ LE(1, x) = <<x>> /\ x \in Unsigneds(1)
           /\ "u8" \in Numbers /\ Width["u8"] = 1 /\ "u8" \notin {"i32", "i64"}
<1>1. PICK b \in Nat : b = Base /\ b > 5
  BY Sizes
<1>2. x % b = x /\ x \in 0..(b - 1)
  BY <1>1
<1>3. LE(1, x) = <<x>>
  BY <1>1, <1>2 DEF LE
<1>4. x \in Unsigneds(1)
  BY <1>1, <1>2 DEF Unsigneds, Size
<1> QED
  BY <1>3, <1>4 DEF Numbers, Width

(* Read back.                                                              *)
LEMMA OneByteIs ==
    ASSUME NEW b \in Seq(Byte), NEW i \in 0..Len(b), NEW x \in 0..4, Has(b, i, Single(x)),
           NEW q, q = NumParse(b, i, "u8")
    PROVE  q.ok = (i + 1 <= Len(b)) /\ q.end = i + 1 /\ (q.ok => q.v = x)
<1>1. Has(b, i, LE(Width["u8"], x)) /\ x \in Unsigneds(Width["u8"])
  BY OneByte DEF Single
<1>2. Reads(q, b, i, Width["u8"], x)
  BY <1>1, OneByte, NumIs
<1>3. q.end = i + 1
  BY OneByte DEF NumParse
<1> QED
  BY <1>2, <1>3, OneByte DEF Reads

(* A tag in a byte before the others: as long as both.                     *)
LEMMA TagLength ==
    ASSUME NEW tag \in 0..4, NEW x \in Seq(Byte), NEW y, Behind(y, tag, x)
    PROVE  y \in Seq(Byte) /\ Len(y) = 1 + Len(x)
<1>1. PICK a : a = Single(tag) /\ a \in Seq(Byte) /\ Len(a) = 1
  BY TagBytes DEF Single
<1>2. PICK n \in Nat : n = 1
  OBVIOUS
<1>3. PICK m \in Nat : m = Len(x)
  OBVIOUS
<1>4. y = a \o x
  BY <1>1 DEF Behind
<1>5. n = Len(a) /\ a \in Seq(Byte)
  BY <1>1, <1>2
<1>6. y \in Seq(Byte) /\ Len(y) = n + m
  BY <1>3, <1>4, <1>5, JoinedAs
<1> QED
  BY <1>2, <1>3, <1>6

(* And each where it is.                                                   *)
LEMMA TagBefore ==
    ASSUME NEW tag \in 0..4, NEW x \in Seq(Byte), NEW y, Behind(y, tag, x),
           NEW b \in Seq(Byte), NEW i \in Nat, Has(b, i, y)
    PROVE  Has(b, i, Single(tag)) /\ Has(b, i + 1, x)
<1>1. PICK a : a = Single(tag) /\ a \in Seq(Byte) /\ Len(a) = 1
  BY TagBytes DEF Single
<1>2. PICK n : n = Len(a)
  OBVIOUS
<1>3. y = a \o x
  BY <1>1 DEF Behind
<1>4. Has(b, i, a) /\ Has(b, i + n, x)
  BY <1>1, <1>2, <1>3, HasParts
<1>5. n = 1
  BY <1>1, <1>2
<1> QED
  BY <1>1, <1>4, <1>5

(* A value behind its tag: what follows the tag is parsed on its own.      *)
LEMMA ValueIs ==
    ASSUME NEW b \in Seq(Byte), NEW i \in 0..Len(b), NEW tag \in 0..4, NEW x \in Seq(Byte),
           NEW v, NEW y, Behind(y, tag, x), Has(b, i, y), NEW p, p = ValueParse(b, i),
           tag = 0 => Len(x) = 0 /\ v = Null,
           NEW d, tag = 1 => d = NumParse(b, i + 1, "i64"),
           tag = 2 => d = NumParse(b, i + 1, "f64"),
           tag \in {3, 4} => d = BlockParse(b, i + 1),
           tag # 0 /\ i + 1 <= Len(b) => Reads(d, b, i + 1, Len(x), v)
    PROVE  Reads(p, b, i, Len(y), v)
<1>1. PICK m \in Nat : m = Len(x) /\ Len(y) = 1 + m
  BY TagLength
<1>2. Has(b, i, Single(tag))
  <2>1. i \in Nat
    OBVIOUS
  <2> QED
    BY <2>1, TagBefore
<1>3. PICK q : q = NumParse(b, i, "u8")
  OBVIOUS
<1>4. q.ok = (i + 1 <= Len(b)) /\ (q.ok => q.v = tag)
  BY <1>2, <1>3, OneByteIs
<1>5. /\ ~q.ok \/ q.v > 4 => ~p.ok
      /\ q.ok /\ q.v = 0 => p.ok /\ p.end = i + 1 /\ p.v = Null
      /\ q.ok /\ q.v = 1 => p = NumParse(b, i + 1, "i64")
      /\ q.ok /\ q.v = 2 => p = NumParse(b, i + 1, "f64")
      /\ q.ok /\ q.v \in {3, 4} => p = BlockParse(b, i + 1)
  BY <1>3, ValueCases
<1>6. p.ok \in BOOLEAN
  <2>1. "int" \in Types /\ "int" \in Values
    BY DEF Types, Values
  <2>2. p = Parse(b, i, "int")
    BY <2>1, ReadCases
  <2> QED
    BY <2>1, <2>2, ParseThere
<1>7. PICK l \in Nat : l = Len(b)
  OBVIOUS
<1>8. CASE ~ (i + 1 <= l)
  <2>1. p.ok = FALSE
    BY <1>4, <1>5, <1>6, <1>7, <1>8
  <2>2. (i + (1 + m) <= l) = FALSE
    BY <1>8
  <2> QED
    BY <1>1, <1>7, <2>1, <2>2 DEF Reads
<1>9. CASE i + 1 <= l /\ tag = 0
  <2>1. p.ok = TRUE /\ p.end = i + 1 /\ p.v = v
    BY <1>4, <1>5, <1>6, <1>7, <1>9
  <2>2. 1 + m = 1
    BY <1>1, <1>9
  <2>3. (i + 1 <= l) = TRUE
    BY <1>9
  <2> QED
    BY <1>1, <1>7, <2>1, <2>2, <2>3 DEF Reads
<1>10. CASE i + 1 <= l /\ tag # 0
  <2>1. p = d
    <3>1. q.ok /\ q.v = tag
      BY <1>4, <1>7, <1>10
    <3>2. CASE tag = 1
      BY <1>5, <3>1, <3>2
    <3>3. CASE tag = 2
      BY <1>5, <3>1, <3>3
    <3>4. CASE tag \in {3, 4}
      BY <1>5, <3>1, <3>4
    <3>5. tag \in {1, 2, 3, 4}
      BY <1>10
    <3> QED
      BY <3>2, <3>3, <3>4, <3>5
  <2>2. Reads(d, b, i + 1, m, v)
    BY <1>1, <1>7, <1>10
  <2>3. (i + 1) + m = i + (1 + m)
    OBVIOUS
  <2> QED
    BY <1>1, <2>1, <2>2, <2>3 DEF Reads
<1> QED
  BY <1>8, <1>9, <1>10

(* Both halves mean by a field what was written.                           *)
LEMMA FieldIs ==
    ASSUME NEW b \in Seq(Byte), NEW i \in 0..Len(b), NEW f, IsField(f),
           NEW g, g = GoField(f), Has(b, i, g), NEW p, p = Parse(b, i, f.t)
    PROVE  Reads(p, b, i, Len(g), Meant(f)) /\ f.t \in Types
<1>0. f.t \in Types
  BY FieldTypes DEF Types
<1>1. CASE f.t \in Numbers
  <2>1. PICK t \in Numbers : t = f.t
    BY <1>1
  <2>2. PICK v : v = f.v /\ v \in IF t \in {"i32", "i64"} THEN Signeds(Width[t])
                                  ELSE Unsigneds(Width[t])
    BY <2>1, FieldTypes
  <2>3. v \in Int
    BY <2>2, RangesAreInts
  <2>4. g = LE(Width[t], v) /\ Len(g) = Width[t]
    <3>1. GoField(f) = LE(Width[t], v)
      BY <2>1, <2>2, FieldTypes DEF GoField, Numbers
    <3> QED
      BY <2>3, <3>1, NumberBytes
  <2>5. p = NumParse(b, i, t)
    BY <1>0, <2>1, ReadCases
  <2>6. Reads(p, b, i, Width[t], v)
    BY <2>2, <2>4, <2>5, NumIs
  <2>7. Meant(f) = v
    BY <2>1, <2>2 DEF Meant, Numbers
  <2> QED
    BY <1>0, <2>4, <2>6, <2>7
<1>2. CASE f.t = "bool"
  <2>1. PICK x \in 0..4 : x = IF f.v THEN 1 ELSE 0
    OBVIOUS
  <2>2. g = <<x>> /\ Len(g) = 1
    BY <1>2, <2>1 DEF GoField, Width
  <2>3. PICK q : q = NumParse(b, i, "u8")
    OBVIOUS
  <2>4. q.ok = (i + 1 <= Len(b)) /\ (q.ok => q.v = x)
    <3>1. Has(b, i, Single(x))
      BY <2>2 DEF Single
    <3> QED
      BY <2>3, <3>1, OneByteIs
  <2>5. p = BoolParse(b, i)
    BY <1>0, <1>2, ReadCases
  <2>6. p.ok = (i + 1 <= Len(b)) /\ p.end = i + 1 /\ p.v = (NumAt(b, i, "u8") # 0)
    BY <2>5 DEF BoolParse
  <2>7. q.v = NumAt(b, i, "u8")
    BY <2>3 DEF NumParse
  <2>8. (x # 0) = f.v
    <3>1. f.v \in BOOLEAN
      BY <1>2, FieldTypes
    <3> QED
      BY <2>1, <3>1
  <2>9. Meant(f) = f.v
    BY <1>2 DEF Meant
  <2>10. ASSUME p.ok PROVE p.v = f.v
    <3>1. q.v = x
      BY <2>4, <2>6, <2>10
    <3>2. NumAt(b, i, "u8") = x
      BY <2>7, <3>1
    <3> QED
      BY <2>6, <2>8, <3>2
  <2> QED
    BY <1>0, <2>2, <2>6, <2>9, <2>10 DEF Reads
<1>3. CASE f.t = "bytes"
  <2>1. f.v \in Seq(Byte) /\ Len(f.v) < Absent
    BY <1>3, FieldTypes DEF IsBytes
  <2>2. g = GoBytes(f.v) /\ Meant(f) = f.v
    BY <1>3 DEF GoField, Width, Meant
  <2>3. Len(g) = 4 + Len(f.v)
    BY <2>1, <2>2, GoBytesBytes
  <2>4. p = BlockParse(b, i)
    BY <1>0, <1>3, ReadCases
  <2>5. Reads(p, b, i, 4 + Len(f.v), f.v)
    BY <2>1, <2>2, <2>4, BlockIs
  <2> QED
    BY <1>0, <2>2, <2>3, <2>5
<1>4. CASE f.t = "str" \/ (f.t = "nstr" /\ f.v # Null)
  <2>1. PICK e : e = Utf8(f.v) /\ e \in Seq(Byte) /\ Len(e) < Absent
    <3>1. IsString(f.v)
      BY <1>4, FieldTypes
    <3> QED
      BY <3>1, RoomForString DEF IsString
  <2>2. g = GoBytes(e) /\ Meant(f) = e
    BY <1>4, <2>1 DEF GoField, Width, Meant
  <2>3. Len(g) = 4 + Len(e)
    BY <2>1, <2>2, GoBytesBytes
  <2>4. PICK d : d = BlockParse(b, i)
    OBVIOUS
  <2>5. Reads(d, b, i, 4 + Len(e), e) /\ (i + 4 <= Len(b) => NumAt(b, i, "u32") = Len(e))
    BY <2>1, <2>2, <2>4, BlockIs
  <2>6. p = d
    <3>1. CASE f.t = "str"
      BY <1>0, <2>4, <3>1, ReadCases
    <3>2. CASE f.t = "nstr"
      <4>1. p = NstrParse(b, i)
        BY <1>0, <3>2, ReadCases
      <4>2. Len(e) # Absent
        <5>1. PICK n \in Nat : n = Len(e)
          BY <2>1
        <5>2. PICK a \in Nat : a = Absent
          BY AbsentIsLast
        <5> QED
          BY <2>1, <5>1, <5>2
      <4> QED
        BY <2>4, <2>5, <4>1, <4>2 DEF NstrParse
    <3> QED
      BY <1>4, <3>1, <3>2
  <2> QED
    BY <1>0, <2>2, <2>3, <2>5, <2>6
<1>5. CASE f.t = "nstr" /\ f.v = Null
  <2>1. g = LE(4, Absent) /\ Len(g) = 4 /\ Meant(f) = Null
    BY <1>5, AbsentIsLast DEF GoField, Width, Meant
  <2>2. "u32" \in Numbers /\ Width["u32"] = 4 /\ "u32" \notin {"i32", "i64"}
    BY DEF Numbers, Width
  <2>3. PICK q : q = NumParse(b, i, "u32")
    OBVIOUS
  <2>4. Reads(q, b, i, 4, Absent)
    <3>1. Has(b, i, LE(Width["u32"], Absent)) /\ Absent \in Unsigneds(Width["u32"])
      BY <2>1, <2>2, AbsentIsLast
    <3>2. Reads(q, b, i, Width["u32"], Absent)
      BY <2>2, <2>3, <3>1, NumIs
    <3> QED
      BY <2>2, <3>2
  <2>5. q.v = NumAt(b, i, "u32")
    BY <2>3 DEF NumParse
  <2>6. p = NstrParse(b, i)
    BY <1>0, <1>5, ReadCases
  <2>7. CASE i + 4 <= Len(b)
    <3>1. NumAt(b, i, "u32") = Absent
      BY <2>4, <2>5, <2>7 DEF Reads
    <3>2. p = [ok |-> TRUE, end |-> i + 4, v |-> Null]
      BY <2>6, <2>7, <3>1 DEF NstrParse
    <3>3. p.ok = TRUE /\ p.end = i + 4 /\ p.v = Null
      BY <3>2
    <3>4. (i + 4 <= Len(b)) = TRUE
      BY <2>7
    <3>5. Reads(p, b, i, 4, Null)
      BY <3>3, <3>4 DEF Reads
    <3> QED
      BY <1>0, <2>1, <3>5
  <2>8. CASE ~ (i + 4 <= Len(b))
    <3>1. p = BlockParse(b, i)
      BY <2>6, <2>8 DEF NstrParse
    <3>2. p.ok = FALSE
      <4>1. q.ok = (i + 4 <= Len(b)) /\ p.ok = (q.ok /\ q.v # Absent /\ (i + 4) + q.v <= Len(b))
        BY <2>3, <3>1, BlockCases
      <4>2. ~q.ok
        BY <2>8, <4>1
      <4> QED
        BY <4>1, <4>2
    <3>3. (i + 4 <= Len(b)) = FALSE
      BY <2>8
    <3>4. Reads(p, b, i, 4, Null)
      BY <3>2, <3>3 DEF Reads
    <3> QED
      BY <1>0, <2>1, <3>4
  <2> QED
    BY <2>7, <2>8
<1>6. CASE f.t = "null"
  <2>1. PICK x : x = <<>> /\ x \in Seq(Byte) /\ Len(x) = 0
    BY EmptySeq
  <2>2. PICK tag \in 0..4 : tag = 0
    OBVIOUS
  <2>3. Behind(g, tag, x)
    <3>1. g = <<tag>>
      BY <1>6, <2>2 DEF GoField, Width, TagNull
    <3>2. <<tag>> \in Seq(Byte)
      BY TagBytes
    <3>3. <<tag>> \o <<>> = <<tag>>
      BY <3>2, ConcatEmptySeq
    <3> QED
      BY <2>1, <3>1, <3>3 DEF Behind, Single
  <2>4. Meant(f) = Null
    BY <1>6 DEF Meant
  <2>5. p = ValueParse(b, i)
    BY <1>0, <1>6, ReadCases DEF Values
  <2>6. Reads(p, b, i, Len(g), Null)
    <3>1. PICK v, d : v = Null /\ d = p
      OBVIOUS
    <3>2. /\ tag = 0 => Len(x) = 0 /\ v = Null
          /\ tag = 1 => d = NumParse(b, i + 1, "i64")
          /\ tag = 2 => d = NumParse(b, i + 1, "f64")
          /\ tag \in {3, 4} => d = BlockParse(b, i + 1)
          /\ tag # 0 /\ i + 1 <= Len(b) => Reads(d, b, i + 1, Len(x), v)
      BY <2>1, <2>2, <3>1
    <3>3. Reads(p, b, i, Len(g), v)
      BY <2>1, <2>3, <2>5, <3>2, ValueIs
    <3> QED
      BY <3>1, <3>3
  <2> QED
    BY <1>0, <2>4, <2>6
<1>7. ASSUME NEW k \in 0..Len(b), k = i + 1, NEW x \in Seq(Byte), Has(b, k, x),
             NEW t \in {"i64", "f64"}, NEW v \in IF t = "i64" THEN Signeds(8) ELSE Unsigneds(8),
             x = LE(8, v)
      PROVE  Reads(NumParse(b, i + 1, t), b, i + 1, Len(x), v)
  <2>1. t \in Numbers /\ Width[t] = 8 /\ t # "i32"
    BY <1>7 DEF Numbers, Width
  <2>2. v \in IF t \in {"i32", "i64"} THEN Signeds(Width[t]) ELSE Unsigneds(Width[t])
    BY <1>7, <2>1
  <2>3. v \in Int
    BY <2>1, <2>2, RangesAreInts
  <2>4. Len(x) = Width[t]
    BY <1>7, <2>1, <2>3, NumberBytes
  <2>5. PICK q : q = NumParse(b, k, t)
    OBVIOUS
  <2>6. Has(b, k, LE(Width[t], v))
    BY <1>7, <2>1
  <2>7. Reads(q, b, k, Width[t], v)
    BY <2>1, <2>2, <2>5, <2>6, NumIs
  <2> QED
    BY <1>7, <2>4, <2>5, <2>7
<1>8. i + 1 <= Len(b) => i + 1 \in 0..Len(b)
  OBVIOUS
<1>9. CASE f.t \in {"int", "real"}
  <2>1. PICK t \in {"i64", "f64"}, tag \in {1, 2} :
           IF f.t = "int" THEN t = "i64" /\ tag = 1 ELSE t = "f64" /\ tag = 2
    <3>1. CASE f.t = "int"
      BY <3>1
    <3>2. CASE f.t # "int"
      BY <3>2
    <3> QED
      BY <3>1, <3>2
  <2>2. PICK v : v = f.v /\ v \in IF t = "i64" THEN Signeds(8) ELSE Unsigneds(8)
    BY <1>9, <2>1, FieldTypes DEF Width
  <2>3. t \in Numbers /\ Width[t] = 8 /\ t # "i32"
    BY DEF Numbers, Width
  <2>4. v \in Int
    BY <2>2, <2>3, RangesAreInts
  <2>5. PICK x : x = LE(8, v) /\ x \in Seq(Byte)
    BY <2>3, <2>4, NumberBytes
  <2>6. Behind(g, tag, x)
    <3>1. CASE f.t = "int"
      BY <2>1, <2>2, <2>5, <3>1 DEF GoField, Width, TagInt, Behind, Single
    <3>2. CASE f.t = "real"
      BY <2>1, <2>2, <2>5, <3>2 DEF GoField, Width, TagReal, Behind, Single
    <3> QED
      BY <1>9, <3>1, <3>2
  <2>7. Meant(f) = v
    BY <1>9, <2>2 DEF Meant
  <2>8. p = ValueParse(b, i)
    BY <1>0, <1>9, ReadCases DEF Values
  <2>9. PICK d : d = NumParse(b, i + 1, t)
    OBVIOUS
  <2>10. Has(b, i + 1, x)
    <3>1. tag \in 0..4 /\ i \in Nat
      OBVIOUS
    <3> QED
      BY <2>5, <2>6, <3>1, TagBefore
  <2>11. i + 1 <= Len(b) => Reads(d, b, i + 1, Len(x), v)
    BY <1>7, <1>8, <2>2, <2>5, <2>9, <2>10
  <2>12. /\ tag = 0 => Len(x) = 0 /\ v = Null
         /\ tag = 1 => d = NumParse(b, i + 1, "i64")
         /\ tag = 2 => d = NumParse(b, i + 1, "f64")
         /\ tag \in {3, 4} => d = BlockParse(b, i + 1)
    BY <2>1, <2>9
  <2>13. Reads(p, b, i, Len(g), v)
    <3>1. tag \in 0..4
      OBVIOUS
    <3>2. tag # 0 /\ i + 1 <= Len(b) => Reads(d, b, i + 1, Len(x), v)
      BY <2>11
    <3> QED
      BY <2>5, <2>6, <2>8, <2>12, <3>1, <3>2, ValueIs
  <2> QED
    BY <1>0, <2>7, <2>13
<1>10. CASE f.t \in {"text", "blob"}
  <2>1. PICK tag \in {3, 4} : tag = IF f.t = "text" THEN 3 ELSE 4
    OBVIOUS
  <2>2. PICK v : /\ v = IF f.t = "text" THEN Utf8(f.v) ELSE f.v
                 /\ v \in Seq(Byte) /\ Len(v) < Absent
    <3>1. CASE f.t = "text"
      <4>1. IsString(f.v)
        BY <3>1, FieldTypes
      <4> QED
        BY <3>1, <4>1, RoomForString DEF IsString
    <3>2. CASE f.t = "blob"
      <4>1. IsBytes(f.v)
        BY <3>2, FieldTypes
      <4> QED
        BY <3>2, <4>1 DEF IsBytes
    <3> QED
      BY <1>10, <3>1, <3>2
  <2>3. PICK x : x = GoBytes(v) /\ x \in Seq(Byte) /\ Len(x) = 4 + Len(v)
    BY <2>2, GoBytesBytes
  <2>4. Behind(g, tag, x)
    <3>1. CASE f.t = "text"
      BY <2>1, <2>2, <2>3, <3>1 DEF GoField, Width, TagText, Behind, Single
    <3>2. CASE f.t = "blob"
      BY <2>1, <2>2, <2>3, <3>2 DEF GoField, Width, TagBlob, Behind, Single
    <3> QED
      BY <1>10, <3>1, <3>2
  <2>5. Meant(f) = v
    BY <1>10, <2>2 DEF Meant
  <2>6. p = ValueParse(b, i)
    BY <1>0, <1>10, ReadCases DEF Values
  <2>7. PICK d : d = BlockParse(b, i + 1)
    OBVIOUS
  <2>8. Has(b, i + 1, x)
    <3>1. tag \in 0..4 /\ i \in Nat
      OBVIOUS
    <3> QED
      BY <2>3, <2>4, <3>1, TagBefore
  <2>9. ASSUME i + 1 <= Len(b) PROVE Reads(d, b, i + 1, Len(x), v)
    <3>1. PICK k \in 0..Len(b) : k = i + 1
      BY <1>8, <2>9
    <3>2. Has(b, k, GoBytes(v)) /\ d = BlockParse(b, k)
      BY <2>3, <2>7, <2>8, <3>1
    <3>3. Reads(d, b, k, 4 + Len(v), v)
      BY <2>2, <3>2, BlockIs
    <3> QED
      BY <2>3, <3>1, <3>3
  <2>10. /\ tag = 0 => Len(x) = 0 /\ v = Null
         /\ tag = 1 => d = NumParse(b, i + 1, "i64")
         /\ tag = 2 => d = NumParse(b, i + 1, "f64")
         /\ tag \in {3, 4} => d = BlockParse(b, i + 1)
    BY <2>1, <2>7
  <2>11. Reads(p, b, i, Len(g), v)
    <3>1. tag \in 0..4
      OBVIOUS
    <3>2. tag # 0 /\ i + 1 <= Len(b) => Reads(d, b, i + 1, Len(x), v)
      BY <2>9
    <3> QED
      BY <2>3, <2>4, <2>6, <2>10, <3>1, <3>2, ValueIs
  <2> QED
    BY <1>0, <2>5, <2>11
<1> QED
  BY <1>1, <1>2, <1>3, <1>4, <1>5, <1>6, <1>9, <1>10, FieldTypes DEF Values

-----------------------------------------------------------------------------

(* The header, by both halves: the same of any frame.                      *)
LEMMA Headers ==
    ASSUME NEW b \in Seq(Byte)
    PROVE  \/ /\ 8 \in 0..Len(b)
              /\ Good(ReadHeader(b), 8, HeaderOf(b)) /\ Good(JsHeader(b), 8, HeaderOf(b))
           \/ Bad(ReadHeader(b), b) /\ Bad(JsHeader(b), b)
<1>1. NewReader = Rec(0, "none", <<>>) /\ 0 \in 0..Len(b)
  BY DEF NewReader, Rec
<1>2. PICK r : r = NewReader /\ Good(r, 0, <<>>)
  BY <1>1 DEF Good
<1>3. Threw(r) = SetV(SetErr(r, "threw"), <<>>) /\ "threw" \in Errors
  <2>1. Threw(r) = [[r EXCEPT !.err = "threw"] EXCEPT !.v = <<>>]
    BY DEF Threw
  <2> QED
    BY <2>1 DEF SetV, SetErr, Errors
<1>4. \A e : GoFail(r, e) = SetV(SetErr(r, e), <<>>)
  <2>1. ASSUME NEW e PROVE GoFail(r, e) = SetV(SetErr(r, e), <<>>)
    <3>1. GoFail(r, e) = [[r EXCEPT !.err = e] EXCEPT !.v = <<>>]
      BY DEF GoFail
    <3> QED
      BY <3>1 DEF SetV, SetErr
  <2> QED
    BY <2>1
<1>5. Bad(Threw(r), b)
  <2>1. Bad(SetV(SetErr(r, "threw"), <<>>), b)
    BY <1>1, <1>2, <1>3, Fails
  <2> QED
    BY <1>3, <2>1
<1>6. ASSUME NEW e \in {"short", "version"} PROVE Bad(GoFail(r, e), b)
  <2>1. e \in Errors
    BY DEF Errors
  <2>2. Bad(SetV(SetErr(r, e), <<>>), b)
    BY <1>1, <1>2, <2>1, Fails
  <2> QED
    BY <1>4, <2>2
<1>7. PICK h : h = HeaderOf(b)
  OBVIOUS
<1>8. PICK g : g = [NewReader EXCEPT !.i = HeaderSize, !.v = HeaderOf(b)]
  OBVIOUS
<1>9. Good(g, 8, h)
  <2>1. g = [i |-> 8, err |-> "none", v |-> h]
    BY <1>7, <1>8 DEF NewReader, HeaderSize
  <2> QED
    BY <2>1 DEF Good, Rec
<1>10. CASE Len(b) < HeaderSize
  <2>1. ReadHeader(b) = GoFail(r, "short") /\ JsHeader(b) = Threw(r)
    BY <1>2, <1>10 DEF ReadHeader, JsHeader
  <2> QED
    BY <1>5, <1>6, <2>1
<1>11. CASE ~ (Len(b) < HeaderSize) /\ b[1] # Version
  <2>1. ReadHeader(b) = GoFail(r, "version") /\ JsHeader(b) = Threw(r)
    BY <1>2, <1>11 DEF ReadHeader, JsHeader
  <2> QED
    BY <1>5, <1>6, <2>1
<1>12. CASE ~ (Len(b) < HeaderSize) /\ b[1] = Version
  <2>1. ReadHeader(b) = g /\ JsHeader(b) = g
    BY <1>8, <1>12 DEF ReadHeader, JsHeader
  <2>2. 8 \in 0..Len(b)
    BY <1>12 DEF HeaderSize
  <2> QED
    BY <1>7, <1>9, <2>1, <2>2
<1> QED
  BY <1>10, <1>11, <1>12

(* A header that is whole is accepted, and it is what was written.         *)
LEMMA WholeHeader ==
    ASSUME NEW fl \in 0..3, NEW count \in Int, NEW g \in Seq(Byte),
           NEW b, b = GoFrame(Rows, fl, Id, count, g)
    PROVE  /\ 8 \in 0..Len(b)
           /\ Good(ReadHeader(b), 8, [flags |-> fl, id |-> Id])
           /\ Good(JsHeader(b), 8, [flags |-> fl, id |-> Id])
<1>1. IsFrame(b, Rows, fl, Id, count, g)
  BY RowsAndId, FrameBytes
<1>2. PICK x : x = LE(2, fl) /\ x \in Seq(Byte) /\ Len(x) = 2 /\ UInt(x) = fl % Size(2)
  BY NumeralRead
<1>3. PICK y : y = LE(4, Id) /\ y \in Seq(Byte) /\ Len(y) = 4 /\ UInt(y) = Id % Size(4)
  BY RowsAndId, NumeralRead
<1>4. b \in Seq(Byte) /\ Len(b) >= 12 /\ b[1] = Version
  BY <1>1 DEF IsFrame
<1>5. fl % Size(2) = fl
  <2>1. PICK m \in Nat : m = Size(2) /\ m > 5
    BY Sizes DEF Size
  <2>2. fl % m = fl
    BY <2>1
  <2> QED
    BY <2>1, <2>2
<1>6. SubSeq(b, 3, 4) = x
  <2>1. ASSUME NEW j \in 1..Len(x), 2 + j <= Len(b) PROVE b[2 + j] = x[j]
    <3>1. j \in 1..2
      BY <1>2
    <3> QED
      BY <1>1, <1>2, <3>1 DEF IsFrame
  <2>2. Has(b, 2, x)
    BY <2>1 DEF Has
  <2>3. PICK n : n = 2
    OBVIOUS
  <2>4. n = Len(x) /\ 2 + n <= Len(b) /\ 2 \in Nat
    BY <1>2, <1>4, <2>3
  <2>5. Part(b, 2, n) = x
    BY <1>2, <1>4, <2>2, <2>4, PartIs
  <2>6. Part(b, 2, n) = SubSeq(b, 3, 4)
    BY <2>3 DEF Part
  <2> QED
    BY <2>5, <2>6
<1>7. SubSeq(b, 5, 8) = y
  <2>1. ASSUME NEW j \in 1..Len(y), 4 + j <= Len(b) PROVE b[4 + j] = y[j]
    <3>1. j \in 1..4
      BY <1>3
    <3> QED
      BY <1>1, <1>3, <3>1 DEF IsFrame
  <2>2. Has(b, 4, y)
    BY <2>1 DEF Has
  <2>3. PICK n : n = 4
    OBVIOUS
  <2>4. n = Len(y) /\ 4 + n <= Len(b) /\ 4 \in Nat
    BY <1>3, <1>4, <2>3
  <2>5. Part(b, 4, n) = y
    BY <1>3, <1>4, <2>2, <2>4, PartIs
  <2>6. Part(b, 4, n) = SubSeq(b, 5, 8)
    BY <2>3 DEF Part
  <2> QED
    BY <2>5, <2>6
<1>8. HeaderOf(b) = [flags |-> fl, id |-> Id]
  BY <1>2, <1>3, <1>5, <1>6, <1>7, RowsAndId DEF HeaderOf
<1>9. PICK g2 : g2 = [NewReader EXCEPT !.i = HeaderSize, !.v = HeaderOf(b)]
  OBVIOUS
<1>10. ReadHeader(b) = g2 /\ JsHeader(b) = g2
  <2>1. ~ (Len(b) < HeaderSize)
    BY <1>4 DEF HeaderSize
  <2> QED
    BY <1>4, <1>9, <2>1 DEF ReadHeader, JsHeader
<1>11. Good(g2, 8, HeaderOf(b))
  <2>1. PICK h : h = HeaderOf(b)
    OBVIOUS
  <2>2. g2 = [i |-> 8, err |-> "none", v |-> h]
    BY <1>9, <2>1 DEF NewReader, HeaderSize
  <2> QED
    BY <2>1, <2>2 DEF Good, Rec
<1>12. 8 \in 0..Len(b)
  BY <1>4
<1> QED
  BY <1>8, <1>10, <1>11, <1>12

(* The two readers at the same place, the same read there but for a byte   *)
(* order mark; or both failed.                                             *)
Same(r, s, b, i, v, u) ==
    /\ i \in 0..Len(b) /\ Good(r, i, v) /\ Good(s, i, u)
    /\ u = v \/ u = Decode(v)
Alike(r, s, b) ==
    \/ Bad(r, b) /\ Bad(s, b)
    \/ \E i, v, u : Same(r, s, b, i, v, u)

(* What they read of any frame is alike, and fails alike.                  *)
LEMMA ReadAlike ==
    ASSUME NEW b \in Seq(Byte), NEW r, NEW s, Alike(r, s, b), NEW t \in Types,
           NEW x, x = GoRead(b, r, t),
           NEW y, y = IF s.err = "none" THEN JsRead(b, s, t) ELSE s
    PROVE  Alike(x, y, b)
<1>1. CASE Bad(r, b) /\ Bad(s, b)
  <2>1. Bad(x, b)
    BY <1>1, GoReadStays
  <2>2. y = s
    BY <1>1, GoodOrBad
  <2> QED
    BY <1>1, <2>1, <2>2 DEF Alike
<1>2. ASSUME NEW i, NEW v, NEW u, Same(r, s, b, i, v, u)
      PROVE  Alike(x, y, b)
  <2>1. i \in 0..Len(b) /\ Good(r, i, v) /\ Good(s, i, u)
    BY <1>2 DEF Same
  <2>2. s.err = "none"
    BY <2>1, GoodSays
  <2>3. y = JsRead(b, s, t)
    BY <2>2
  <2>4. PICK p : p = Parse(b, i, t)
    OBVIOUS
  <2>5. Does(x, b, p, p.v) /\ Does(y, b, p, HeardAs(t, p.v))
    BY <2>1, <2>3, <2>4, GoReads, JsReads
  <2>6. p.ok \in BOOLEAN /\ (p.ok => p.end \in 0..Len(b))
    BY <2>1, <2>4, ParseThere
  <2>7. CASE p.ok
    <3>1. Good(x, p.end, p.v) /\ Good(y, p.end, HeardAs(t, p.v)) /\ p.end \in 0..Len(b)
      BY <2>5, <2>6, <2>7 DEF Does
    <3>2. HeardAs(t, p.v) = p.v \/ HeardAs(t, p.v) = Decode(p.v)
      BY DEF HeardAs
    <3>3. Same(x, y, b, p.end, p.v, HeardAs(t, p.v))
      BY <3>1, <3>2 DEF Same
    <3> QED
      BY <3>3 DEF Alike
  <2>8. CASE ~p.ok
    <3>1. Bad(x, b) /\ Bad(y, b)
      BY <2>5, <2>8 DEF Does
    <3> QED
      BY <3>1 DEF Alike
  <2> QED
    BY <2>7, <2>8
<1> QED
  BY <1>1, <1>2 DEF Alike

(* What they read where a field was written: it, if it is there whole.     *)
LEMMA ReadWritten ==
    ASSUME NEW b \in Seq(Byte), NEW i \in 0..Len(b), NEW f, IsField(f),
           NEW g, g = GoField(f), Has(b, i, g),
           NEW r, NEW s, NEW v, NEW u, Good(r, i, v), Good(s, i, u)
    PROVE  /\ i + Len(g) <= Len(b) =>
                 /\ Good(GoRead(b, r, f.t), i + Len(g), Meant(f))
                 /\ Good(JsRead(b, s, f.t), i + Len(g), Heard(f))
           /\ ~ (i + Len(g) <= Len(b)) => Bad(GoRead(b, r, f.t), b)
<1>1. PICK p : p = Parse(b, i, f.t)
  OBVIOUS
<1>2. Reads(p, b, i, Len(g), Meant(f)) /\ f.t \in Types
  BY <1>1, FieldIs
<1>3. PICK t \in Types : t = f.t
  BY <1>2
<1>4. p = Parse(b, i, t)
  BY <1>1, <1>3
<1>5. Does(GoRead(b, r, t), b, p, p.v) /\ Does(JsRead(b, s, t), b, p, HeardAs(t, p.v))
  BY <1>4, GoReads, JsReads
<1>6. HeardAs(t, Meant(f)) = Heard(f)
  BY <1>3 DEF HeardAs, Heard
<1>7. ASSUME i + Len(g) <= Len(b)
      PROVE  /\ Good(GoRead(b, r, t), i + Len(g), Meant(f))
             /\ Good(JsRead(b, s, t), i + Len(g), Heard(f))
  <2>1. p.ok /\ p.end = i + Len(g) /\ p.v = Meant(f)
    BY <1>2, <1>7 DEF Reads
  <2>2. Good(GoRead(b, r, t), p.end, p.v) /\ Good(JsRead(b, s, t), p.end, HeardAs(t, p.v))
    BY <1>5, <2>1 DEF Does
  <2> QED
    BY <1>6, <2>1, <2>2
<1>8. ASSUME ~ (i + Len(g) <= Len(b)) PROVE Bad(GoRead(b, r, t), b)
  <2>1. ~p.ok
    BY <1>2, <1>8 DEF Reads
  <2> QED
    BY <1>5, <2>1 DEF Does
<1> QED
  BY <1>3, <1>7, <1>8

-----------------------------------------------------------------------------

(* Where the fields fs end in their bytes g.                               *)
Piece(fs, g, e, k) ==
    /\ e[k] = e[k - 1] + Len(GoField(fs[k]))
    /\ Has(g, e[k - 1], GoField(fs[k]))
Laid(fs, g, e) ==
    /\ e \in [0..Len(fs) -> 0..Len(g)] /\ e[0] = 0 /\ e[Len(fs)] = Len(g)
    /\ \A k \in 1..Len(fs) : Piece(fs, g, e, k)

(* A field is written in bytes.                                            *)
LEMMA FieldBytes ==
    ASSUME NEW f, IsField(f)
    PROVE  GoField(f) \in Seq(Byte)
BY FirstFrameHolds, PutFieldHolds

(* What is at i stays there when more is appended.                         *)
LEMMA HasStill ==
    ASSUME NEW g \in Seq(Byte), NEW x \in Seq(Byte), NEW h, h = g \o x,
           NEW i \in Nat, NEW s \in Seq(Byte), Has(g, i, s), i + Len(s) <= Len(g)
    PROVE  Has(h, i, s)
<1>1. PICK n \in Nat : n = Len(g)
  OBVIOUS
<1>2. PICK m \in Nat : m = Len(x)
  OBVIOUS
<1>3. \A j \in 1..n : h[j] = g[j]
  BY <1>1, <1>2, JoinedAs
<1>4. ASSUME NEW j \in 1..Len(s) PROVE h[i + j] = s[j]
  <2>1. i + j \in 1..n /\ i + j <= Len(g)
    BY <1>1
  <2>2. g[i + j] = s[j]
    BY <2>1 DEF Has
  <2> QED
    BY <1>3, <2>1, <2>2
<1> QED
  BY <1>4 DEF Has

(* And what is appended is behind it.                                      *)
LEMMA HasLast ==
    ASSUME NEW g \in Seq(Byte), NEW x \in Seq(Byte), NEW h, h = g \o x, NEW n, n = Len(g)
    PROVE  Has(h, n, x)
<1>1. PICK m \in Nat : m = Len(x)
  OBVIOUS
<1>2. \A j \in 1..m : h[n + j] = x[j]
  BY <1>1, JoinedAs
<1> QED
  BY <1>1, <1>2 DEF Has

(* Nothing is laid in nothing.                                             *)
LEMMA LaidFirst == Laid(<<>>, <<>>, [k \in 0..0 |-> 0])
<1>1. PICK e : e = [k \in 0..0 |-> 0]
  OBVIOUS
<1>2. PICK s : s = <<>> /\ Len(s) = 0
  OBVIOUS
<1>3. e \in [0..0 -> 0..0] /\ e[0] = 0
  BY <1>1
<1>4. Laid(s, s, e)
  BY <1>2, <1>3 DEF Laid
<1> QED
  BY <1>1, <1>2, <1>4

(* And one field more behind the others.                                   *)
LEMMA LaidNext ==
    ASSUME NEW S, \A f \in S : IsField(f), NEW fs \in Seq(S), NEW g \in Seq(Byte), NEW e,
           Laid(fs, g, e), NEW f \in S
    PROVE  \E d : Laid(Append(fs, f), g \o GoField(f), d)
<1>1. PICK x : x = GoField(f) /\ x \in Seq(Byte)
  BY FieldBytes
<1>2. PICK n \in Nat : n = Len(fs)
  OBVIOUS
<1>3. PICK l \in Nat : l = Len(g)
  OBVIOUS
<1>4. PICK m \in Nat : m = Len(x)
  BY <1>1
<1>5. PICK h : h = g \o x
  OBVIOUS
<1>6. h \in Seq(Byte) /\ Len(h) = l + m
  BY <1>1, <1>3, <1>4, <1>5, JoinedAs
<1>7. PICK gs2 : gs2 = Append(fs, f)
  OBVIOUS
<1>8. gs2 \in Seq(S) /\ Len(gs2) = n + 1 /\ gs2[n + 1] = f /\ \A k \in 1..n : gs2[k] = fs[k]
  BY <1>2, <1>7, AppendProperties
<1>9. /\ e \in [0..n -> 0..l] /\ e[0] = 0 /\ e[n] = l
      /\ \A k \in 1..n : Piece(fs, g, e, k)
  BY <1>2, <1>3 DEF Laid
<1>10. PICK d : d = [k \in 0..(n + 1) |-> IF k = n + 1 THEN l + m ELSE e[k]]
  OBVIOUS
<1>11. d[n + 1] = l + m /\ \A k \in 0..n : d[k] = e[k] /\ d[k] \in 0..l
  <2>1. \A k \in 0..n : k \in 0..(n + 1) /\ k # n + 1
    OBVIOUS
  <2>2. n + 1 \in 0..(n + 1)
    OBVIOUS
  <2>3. d[n + 1] = l + m
    BY <1>10, <2>2
  <2>4. \A k \in 0..n : d[k] = e[k]
    BY <1>10, <2>1
  <2> QED
    BY <1>9, <2>3, <2>4
<1>12. d \in [0..(n + 1) -> 0..(l + m)]
  <2>1. \A k \in 0..(n + 1) : d[k] \in 0..(l + m)
    <3>1. ASSUME NEW k \in 0..(n + 1) PROVE d[k] \in 0..(l + m)
      <4>1. k \in 0..n \/ k = n + 1
        OBVIOUS
      <4>2. CASE k \in 0..n
        BY <1>11, <4>2
      <4>3. CASE k = n + 1
        BY <1>11, <4>3
      <4> QED
        BY <4>1, <4>2, <4>3
    <3> QED
      BY <3>1
  <2>2. d = [k \in 0..(n + 1) |-> d[k]]
    BY <1>10
  <2> QED
    BY <2>1, <2>2
<1>13. d[0] = 0
  BY <1>9, <1>11
<1>14. ASSUME NEW k \in 1..(n + 1) PROVE Piece(gs2, h, d, k)
  <2>1. CASE k \in 1..n
    <3>1. Piece(fs, g, e, k) /\ gs2[k] = fs[k] /\ k \in 0..n /\ k - 1 \in 0..n
      BY <1>8, <1>9, <2>1
    <3>2. d[k] = e[k] /\ d[k - 1] = e[k - 1] /\ d[k] \in 0..l /\ d[k - 1] \in 0..l
      BY <1>11, <3>1
    <3>3. PICK y : y = GoField(fs[k]) /\ y \in Seq(Byte)
      <4>1. fs[k] \in S
        BY <1>2, <2>1
      <4> QED
        BY <4>1, FieldBytes
    <3>4. e[k] = e[k - 1] + Len(y) /\ Has(g, e[k - 1], y)
      BY <3>1, <3>3 DEF Piece
    <3>5. PICK a \in Nat : a = d[k - 1]
      BY <3>2
    <3>6. a + Len(y) <= Len(g) /\ Has(g, a, y) /\ d[k] = a + Len(y)
      BY <1>3, <3>2, <3>4, <3>5
    <3>7. Has(h, a, y)
      BY <1>1, <1>5, <3>3, <3>6, HasStill
    <3> QED
      BY <3>1, <3>3, <3>5, <3>6, <3>7 DEF Piece
  <2>2. CASE k = n + 1
    <3>1. gs2[k] = f /\ d[k] = l + m /\ k - 1 = n
      BY <1>8, <1>11, <2>2
    <3>2. d[n] = l
      BY <1>9, <1>11
    <3>3. Has(h, l, x)
      BY <1>1, <1>3, <1>5, HasLast
    <3>4. d[k] = d[k - 1] + Len(x) /\ Has(h, d[k - 1], x)
      BY <1>4, <3>1, <3>2, <3>3
    <3> QED
      BY <1>1, <3>1, <3>4 DEF Piece
  <2> QED
    BY <2>1, <2>2
<1>15. Laid(gs2, h, d)
  BY <1>6, <1>8, <1>11, <1>12, <1>13, <1>14 DEF Laid
<1> QED
  BY <1>1, <1>5, <1>7, <1>15

(* Where they are in the frame, behind its header and their count.         *)
At(e, k) == IF k = 0 THEN 8 ELSE 12 + e[k - 1]
Counting(fs) == <<[t |-> "u32", v |-> Len(fs)]>> \o fs
Placed(F, f, i, j) ==
    /\ IsField(f) /\ i \in Nat /\ j = i + Len(GoField(f)) /\ j <= Len(F)
    /\ Has(F, i, GoField(f))

(* The count is a field like the others.                                   *)
LEMMA CountField ==
    ASSUME NEW n \in 0..(Size4 - 1), NEW c, c = [t |-> "u32", v |-> n]
    PROVE  IsField(c) /\ GoField(c) = LE(4, n) /\ Len(LE(4, n)) = 4 /\ LE(4, n) \in Seq(Byte)
<1>1. c.t = "u32" /\ c.v = n
  OBVIOUS
<1>2. Width["u32"] = 4 /\ "u32" \in DOMAIN Width
  BY DEF Width
<1>3. n \in Unsigneds(4) /\ n \in Int
  <2>1. PICK size \in Nat : size = Size4 /\ size = Size(4)
    BY Sizes DEF Size
  <2>2. n \in 0..(size - 1)
    BY <2>1
  <2> QED
    BY <2>1, <2>2 DEF Unsigneds
<1>4. IsField(c)
  BY <1>1, <1>2, <1>3 DEF IsField
<1>5. GoField(c) = LE(4, n)
  BY <1>1, <1>2 DEF GoField
<1> QED
  BY <1>3, <1>4, <1>5, NumeralRead

(* All of them are.                                                        *)
LEMMA PayloadLaid ==
    ASSUME NEW S, \A f \in S : IsField(f), NEW fs \in Seq(S), NEW g \in Seq(Byte), NEW e,
           Laid(fs, g, e), Len(fs) \in 0..(Size4 - 1), NEW fl \in Int,
           NEW F, F = GoFrame(Rows, fl, Id, Len(fs), g)
    PROVE  /\ F \in Seq(Byte) /\ At(e, 0) = 8 /\ Len(Counting(fs)) = 1 + Len(fs)
           /\ \A k \in 1..(1 + Len(fs)) : Placed(F, Counting(fs)[k], At(e, k - 1), At(e, k))
           /\ At(e, 1 + Len(fs)) = Len(F)
<1>1. PICK n \in Nat : n = Len(fs)
  OBVIOUS
<1>2. PICK l \in Nat : l = Len(g)
  OBVIOUS
<1>3. IsFrame(F, Rows, fl, Id, n, g)
  BY <1>1, RowsAndId, FrameBytes
<1>4. /\ F \in Seq(Byte) /\ Len(F) = 12 + l
      /\ \A j \in 1..4 : F[8 + j] = LE(4, n)[j]
      /\ \A j \in 1..l : F[12 + j] = g[j]
  BY <1>2, <1>3 DEF IsFrame
<1>5. PICK c : c = [t |-> "u32", v |-> n]
  OBVIOUS
<1>6. IsField(c) /\ GoField(c) = LE(4, n) /\ Len(LE(4, n)) = 4
  BY <1>1, <1>5, CountField
<1>7. PICK P : P = Counting(fs)
  OBVIOUS
<1>8. Len(P) = 1 + n /\ P[1] = c /\ \A k \in 1..n : P[1 + k] = fs[k]
  <2>1. PICK T : T = S \cup {c}
    OBVIOUS
  <2>0. c \in T
    BY <2>1
  <2>10. PICK a : a = <<c>>
    OBVIOUS
  <2>2. a = <<c>> /\ a \in Seq(T) /\ Len(a) = 1 /\ a[1] = c
    BY <2>0, <2>10
  <2>3. fs \in Seq(T)
    BY <2>1
  <2>4. P = a \o fs
    BY <1>1, <1>5, <1>7, <2>2 DEF Counting
  <2>5. PICK o \in Nat : o = 1
    OBVIOUS
  <2>6. o = Len(a)
    BY <2>2, <2>5
  <2>7. /\ Len(P) = o + n
        /\ \A j \in 1..o : P[j] = a[j]
        /\ \A j \in 1..n : P[o + j] = fs[j]
    BY <1>1, <2>2, <2>3, <2>4, <2>6, JoinedAs
  <2>8. 1 \in 1..o
    BY <2>5
  <2>9. P[1] = c
    BY <2>2, <2>7, <2>8
  <2> QED
    BY <2>5, <2>7, <2>9
<1>9. /\ e \in [0..n -> 0..l] /\ e[0] = 0 /\ e[n] = l
      /\ \A k \in 1..n : Piece(fs, g, e, k)
  BY <1>1, <1>2 DEF Laid
<1>10. At(e, 0) = 8
  BY DEF At
<1>11. At(e, 1 + n) = 12 + l
  <2>1. (1 + n) - 1 = n /\ 1 + n # 0
    OBVIOUS
  <2> QED
    BY <1>9, <2>1 DEF At
<1>12. Placed(F, P[1], At(e, 0), At(e, 1))
  <2>1. At(e, 1) = 12
    <3>1. 1 - 1 = 0
      OBVIOUS
    <3> QED
      BY <1>9, <3>1 DEF At
  <2>2. Has(F, 8, LE(4, n))
    BY <1>4, <1>6 DEF Has
  <2>3. 12 = 8 + Len(LE(4, n)) /\ 12 <= Len(F)
    <3>1. PICK m \in Nat : m = 4
      OBVIOUS
    <3>2. Len(F) = 12 + l /\ Len(LE(4, n)) = m
      BY <1>4, <1>6, <3>1
    <3>4. 12 = 8 + m
      BY <3>1
    <3>3. 12 = 8 + Len(LE(4, n))
      BY <3>2, <3>4, Zenon
    <3> QED
      BY <3>2, <3>3
  <2> QED
    BY <1>6, <1>8, <1>10, <2>1, <2>2, <2>3 DEF Placed
<1>13. ASSUME NEW k \in 1..n PROVE Placed(F, P[1 + k], At(e, k), At(e, 1 + k))
  <2>1. P[1 + k] = fs[k] /\ IsField(fs[k])
    BY <1>1, <1>8
  <2>2. PICK y : y = GoField(fs[k]) /\ y \in Seq(Byte)
    BY <2>1, FieldBytes
  <2>3. PICK m \in Nat : m = Len(y)
    BY <2>2
  <2>4. k \in 0..n /\ k - 1 \in 0..n
    OBVIOUS
  <2>5. PICK a \in 0..l : a = e[k - 1]
    BY <1>9, <2>4
  <2>6. PICK z \in 0..l : z = e[k]
    BY <1>9, <2>4
  <2>7. z = a + m /\ Has(g, a, y)
    BY <1>9, <2>2, <2>3, <2>5, <2>6 DEF Piece
  <2>8. At(e, k) = 12 + a
    BY <2>5 DEF At
  <2>9. At(e, 1 + k) = 12 + z
    <3>1. (1 + k) - 1 = k /\ 1 + k # 0
      OBVIOUS
    <3> QED
      BY <2>6, <3>1 DEF At
  <2>10. Has(F, 12 + a, y)
    <3>1. ASSUME NEW j \in 1..m PROVE F[(12 + a) + j] = y[j]
      <4>1. PICK q \in 1..l : q = a + j
        BY <2>7
      <4>2. q <= Len(g) /\ j \in 1..Len(y)
        BY <1>2, <2>3
      <4>3. g[q] = y[j]
        BY <2>7, <4>1, <4>2 DEF Has
      <4>4. F[12 + q] = g[q]
        BY <1>4
      <4>5. 12 + q = (12 + a) + j
        BY <4>1
      <4> QED
        BY <4>3, <4>4, <4>5
    <3> QED
      BY <2>3, <3>1 DEF Has
  <2>11. PICK i \in Nat : i = 12 + a
    OBVIOUS
  <2>12. PICK j \in Nat : j = 12 + z
    OBVIOUS
  <2>13. j = i + m /\ j <= Len(F)
    BY <1>4, <2>7, <2>11, <2>12
  <2>14. Placed(F, fs[k], i, j)
    BY <2>1, <2>2, <2>3, <2>10, <2>11, <2>13 DEF Placed
  <2> QED
    BY <2>1, <2>8, <2>9, <2>11, <2>12, <2>14
<1>14. ASSUME NEW k \in 1..(1 + n) PROVE Placed(F, P[k], At(e, k - 1), At(e, k))
  <2>1. CASE k = 1
    BY <1>12, <2>1
  <2>2. CASE k # 1
    <3>1. PICK q \in 1..n : k = 1 + q /\ k - 1 = q
      <4>1. k - 1 \in 1..n /\ k = 1 + (k - 1)
        BY <2>2
      <4> QED
        BY <4>1
    <3> QED
      BY <1>13, <3>1
  <2> QED
    BY <2>1, <2>2
<1> QED
  BY <1>1, <1>4, <1>7, <1>8, <1>10, <1>11, <1>14

-----------------------------------------------------------------------------

(* c is the beginning of F.                                                *)
Begins(c, F) ==
    c \in Seq(Byte) /\ Len(c) < Len(F) /\ \A j \in 1..Len(c) : c[j] = F[j]

(* A frame cut short is.                                                   *)
LEMMA CutBytes ==
    ASSUME NEW b \in Seq(Byte), NEW c \in Cut(b)
    PROVE  Begins(c, b)
<1>1. PICK l \in Nat : l = Len(b)
  OBVIOUS
<1>2. PICK n \in 0..(l - 1) : c = SubSeq(b, 1, n)
  BY <1>1 DEF Cut
<1>3. n \in Nat /\ 0 + n <= Len(b) /\ 0 + 1 = 1 /\ 0 + n = n
  BY <1>1
<1>4. Part(b, 0, n) = c
  BY <1>2, <1>3 DEF Part
<1>5. c \in Seq(Byte) /\ Len(c) = n /\ \A j \in 1..n : c[j] = b[0 + j]
  BY <1>3, <1>4, PartBytes
<1>6. \A j \in 1..n : c[j] = b[j]
  BY <1>5
<1> QED
  BY <1>1, <1>5, <1>6 DEF Begins

(* One with a byte replaced is bytes still.                                *)
LEMMA SpoilBytes ==
    ASSUME NEW b \in Seq(Byte), NEW c \in Spoil(b)
    PROVE  c \in Seq(Byte)
<1>1. PICK j \in DOMAIN b, x \in Spoils : c = [b EXCEPT ![j] = x]
  BY DEF Spoil
<1>2. x \in Byte
  BY SpoilsAssumption
<1> QED
  BY <1>1, <1>2

(* What a field is in the frame it is in the beginning of it.              *)
LEMMA HasInCut ==
    ASSUME NEW F \in Seq(Byte), NEW c, Begins(c, F), NEW i \in Nat, NEW g \in Seq(Byte),
           Has(F, i, g)
    PROVE  Has(c, i, g)
<1>1. PICK n \in Nat : n = Len(c) /\ n < Len(F) /\ \A j \in 1..n : c[j] = F[j]
  BY DEF Begins
<1>2. ASSUME NEW j \in 1..Len(g), i + j <= n PROVE c[i + j] = g[j]
  <2>1. i + j \in 1..n /\ i + j <= Len(F)
    BY <1>1, <1>2
  <2>2. F[i + j] = g[j]
    BY <2>1 DEF Has
  <2> QED
    BY <1>1, <2>1, <2>2
<1> QED
  BY <1>1, <1>2 DEF Has

(* A field of the frame is read as it was meant.                           *)
LEMMA ReadWhole ==
    ASSUME NEW F \in Seq(Byte), NEW f, NEW i, NEW j, Placed(F, f, i, j),
           NEW r, NEW s, NEW v, NEW u, Good(r, i, v), Good(s, i, u)
    PROVE  Good(GoRead(F, r, f.t), j, Meant(f)) /\ Good(JsRead(F, s, f.t), j, Heard(f))
<1>1. PICK g : g = GoField(f) /\ g \in Seq(Byte)
  BY FieldBytes DEF Placed
<1>2. IsField(f) /\ Has(F, i, g) /\ i \in Nat /\ j = i + Len(g) /\ j <= Len(F)
  BY <1>1 DEF Placed
<1>3. i \in 0..Len(F) /\ i + Len(g) <= Len(F)
  BY <1>1, <1>2
<1>4. /\ Good(GoRead(F, r, f.t), i + Len(g), Meant(f))
      /\ Good(JsRead(F, s, f.t), i + Len(g), Heard(f))
  BY <1>1, <1>2, <1>3, ReadWritten
<1> QED
  BY <1>2, <1>4

(* And of its beginning, or not at all.                                    *)
LEMMA ReadCut ==
    ASSUME NEW F \in Seq(Byte), NEW f, NEW i, NEW j, Placed(F, f, i, j),
           NEW c \in Seq(Byte), Begins(c, F), i <= Len(c),
           NEW r, NEW s, NEW v, NEW u, Good(r, i, v), Good(s, i, u)
    PROVE  Bad(GoRead(c, r, f.t), c) \/ Good(GoRead(c, r, f.t), j, Meant(f))
<1>1. PICK g : g = GoField(f) /\ g \in Seq(Byte)
  BY FieldBytes DEF Placed
<1>2. IsField(f) /\ Has(F, i, g) /\ i \in Nat /\ j = i + Len(g)
  BY <1>1 DEF Placed
<1>3. Has(c, i, g)
  BY <1>1, <1>2, HasInCut
<1>4. i \in 0..Len(c)
  BY <1>2
<1>5. CASE i + Len(g) <= Len(c)
  <2>1. Good(GoRead(c, r, f.t), i + Len(g), Meant(f))
    BY <1>1, <1>2, <1>3, <1>4, <1>5, ReadWritten
  <2> QED
    BY <1>2, <2>1
<1>6. CASE ~ (i + Len(g) <= Len(c))
  BY <1>1, <1>2, <1>3, <1>4, <1>6, ReadWritten
<1> QED
  BY <1>5, <1>6

-----------------------------------------------------------------------------

(* The inductive invariant.  What is written: the fields, the bytes the Go *)
(* writer appended of them, and that the worker's writer holds the same,   *)
(* with the count and the flags still to be patched, and then patched.     *)
WriterInv ==
    /\ phase \in {"write", "full", "sent", "read", "refused"}
    /\ fields \in Seq(Inputs) /\ Len(fields) <= MaxFields
    /\ gs \in Seq(Byte) /\ flags \in 0..3
    /\ phase = "write" => flags = 0 /\ Holds(ts, GoFrame(Rows, 0, Id, 0, gs))
    /\ phase = "full" => Holds(ts, Appended)
    /\ phase \notin {"write", "full"} => ts = Detached

(* The frame is that, cut, or has a byte replaced.                         *)
FrameInv ==
    /\ frame \in Seq(Byte) /\ damage \in {"none", "cut", "spoilt"}
    /\ phase \in {"write", "full"} => damage = "none"
    /\ phase \notin {"write", "full"} /\ damage = "none" => frame = Appended
    /\ damage = "cut" => Begins(frame, Appended)

(* The readers are alike.                                                  *)
ReaderInv ==
    /\ phase \in {"write", "full", "sent"} => got = 0 /\ go = NewReader /\ js = NewReader
    /\ phase = "refused" => got = 0 /\ Bad(go, frame) /\ Bad(js, frame)
    /\ phase = "read" => got \in 0..(1 + Len(fields)) /\ Alike(go, js, frame)

(* And where they are in a frame that is not spoilt is where the fields    *)
(* read so far end, in one that is whole with the last of them read.       *)
Opened == [flags |-> flags, id |-> Id]
Along(e) ==
    /\ Laid(fields, gs, e)
    /\ phase = "read" /\ damage = "none" =>
          /\ Good(go, At(e, got), IF got = 0 THEN Opened ELSE Meant(Payload[got]))
          /\ Good(js, At(e, got), IF got = 0 THEN Opened ELSE Heard(Payload[got]))
    /\ phase = "read" /\ damage = "cut" =>
          Bad(go, frame) \/ \E v : Good(go, At(e, got), v)

WireIInv == WriterInv /\ FrameInv /\ ReaderInv /\ \E e : Along(e)

(* It holds when a writer is made.                                         *)
LEMMA WireInit ==
    ASSUME Init
    PROVE  WireIInv
<1>1. /\ phase = "write" /\ fields = <<>> /\ flags = 0
      /\ gs = <<>> /\ ts = PutFixed(NewWriter(Rows, Id), LE(4, 0))
      /\ frame = <<>> /\ damage = "none"
      /\ got = 0 /\ go = NewReader /\ js = NewReader
  BY DEF Init
<1>2. WriterInv
  <2>1. Len(fields) = 0 /\ fields \in Seq(Inputs) /\ gs \in Seq(Byte) /\ frame \in Seq(Byte)
    BY <1>1
  <2>2. Len(fields) <= MaxFields
    BY <2>1, BoundAssumption
  <2>3. Holds(ts, GoFrame(Rows, 0, Id, 0, gs))
    BY <1>1, FirstFrameHolds, Zenon
  <2> QED
    BY <1>1, <2>1, <2>2, <2>3 DEF WriterInv
<1>3. FrameInv
  BY <1>1 DEF FrameInv
<1>4. ReaderInv
  BY <1>1 DEF ReaderInv
<1>5. \E e : Along(e)
  <2>1. Laid(fields, gs, [k \in 0..0 |-> 0])
    BY <1>1, LaidFirst, Zenon
  <2>2. phase # "read"
    BY <1>1
  <2> QED
    BY <2>1, <2>2 DEF Along
<1> QED
  BY <1>2, <1>3, <1>4, <1>5 DEF WireIInv

-----------------------------------------------------------------------------

(* A field written.                                                        *)
LEMMA WriteKeeps ==
    ASSUME WireIInv, NEW f \in Inputs, Write(f)
    PROVE  WireIInv'
<1>1. /\ phase = "write" /\ Len(fields) < MaxFields
      /\ fields' = Append(fields, f) /\ gs' = gs \o GoField(f) /\ ts' = PutField(ts, f)
      /\ phase' = "write" /\ flags' = flags /\ frame' = frame /\ damage' = damage
      /\ got' = got /\ go' = go /\ js' = js
  BY DEF Write
<1>2. IsField(f) /\ \A x \in Inputs : IsField(x)
  BY InputsAssumption
<1>3. /\ fields \in Seq(Inputs) /\ gs \in Seq(Byte) /\ flags = 0
      /\ Holds(ts, GoFrame(Rows, 0, Id, 0, gs))
  BY <1>1 DEF WireIInv, WriterInv
<1>4. /\ gs \o GoField(f) \in Seq(Byte)
      /\ Holds(PutField(ts, f), GoFrame(Rows, 0, Id, 0, gs \o GoField(f)))
  <2>1. PICK w : w = ts
    OBVIOUS
  <2>2. PICK g : g = gs /\ g \in Seq(Byte)
    BY <1>3
  <2>3. Holds(w, GoFrame(Rows, 0, Id, 0, g))
    BY <1>3, <2>1, <2>2, Zenon
  <2>4. 0 \in Int
    OBVIOUS
  <2>5. /\ Holds(PutField(w, f), GoFrame(Rows, 0, Id, 0, g \o GoField(f)))
        /\ g \o GoField(f) \in Seq(Byte)
    BY <1>2, <2>2, <2>3, <2>4, NextFrameHolds
  <2> QED
    BY <2>1, <2>2, <2>5, Zenon
<1>5. WriterInv'
  <2>1. Holds(ts', GoFrame(Rows, 0, Id, 0, gs'))
    BY <1>1, <1>4, Zenon
  <2>2. fields' \in Seq(Inputs) /\ Len(fields') = Len(fields) + 1
    BY <1>1, <1>3
  <2>3. Len(fields') <= MaxFields
    BY <1>1, <1>3, <2>2, BoundAssumption
  <2>4. gs' \in Seq(Byte)
    BY <1>1, <1>4
  <2> QED
    BY <1>1, <1>3, <2>1, <2>2, <2>3, <2>4 DEF WriterInv
<1>6. FrameInv'
  BY <1>1 DEF WireIInv, FrameInv
<1>7. ReaderInv'
  BY <1>1 DEF WireIInv, ReaderInv
<1>8. (\E e : Along(e))'
  <2>1. PICK e : Laid(fields, gs, e)
    BY DEF WireIInv, Along
  <2>2. \E d : Laid(Append(fields, f), gs \o GoField(f), d)
    BY <1>2, <1>3, <2>1, LaidNext
  <2>3. PICK d : Laid(fields', gs', d)
    BY <1>1, <2>2, Zenon
  <2>4. phase' # "read"
    BY <1>1
  <2> QED
    BY <2>3, <2>4 DEF Along
<1> QED
  BY <1>5, <1>6, <1>7, <1>8 DEF WireIInv

(* The batch is full.                                                      *)
LEMMA FlushKeeps ==
    ASSUME WireIInv, NEW fl \in {0, 1, 2, 3}, Flush(fl)
    PROVE  WireIInv'
<1>1. /\ phase = "write" /\ phase' = "full" /\ flags' = fl
      /\ ts' = PatchU32(SetFlags(ts, fl), HeaderSize, Len(fields))
      /\ fields' = fields /\ gs' = gs /\ frame' = frame /\ damage' = damage
      /\ got' = got /\ go' = go /\ js' = js
  BY DEF Flush
<1>2. /\ fields \in Seq(Inputs) /\ gs \in Seq(Byte) /\ Len(fields) <= MaxFields
      /\ Holds(ts, GoFrame(Rows, 0, Id, 0, gs))
  BY <1>1 DEF WireIInv, WriterInv
<1>3. Holds(ts', Appended')
  <2>1. PICK w : w = ts
    OBVIOUS
  <2>2. PICK g : g = gs /\ g \in Seq(Byte)
    BY <1>2
  <2>3. PICK count \in Int : count = Len(fields)
    BY <1>2
  <2>4. Holds(w, GoFrame(Rows, 0, Id, 0, g)) /\ fl \in Int
    BY <1>2, <2>1, <2>2
  <2>5. Holds(PatchU32(SetFlags(w, fl), HeaderSize, count), GoFrame(Rows, fl, Id, count, g))
    BY <2>2, <2>4, PatchedFrame
  <2>6. Appended' = GoFrame(Rows, fl, Id, count, g)
    BY <1>1, <2>2, <2>3 DEF Appended
  <2> QED
    BY <1>1, <2>1, <2>3, <2>5, <2>6, Zenon
<1>4. WriterInv'
  <2>1. flags' \in 0..3 /\ phase' = "full"
    BY <1>1
  <2> QED
    BY <1>1, <1>2, <1>3, <2>1 DEF WriterInv
<1>5. FrameInv'
  BY <1>1 DEF WireIInv, FrameInv
<1>6. ReaderInv'
  BY <1>1 DEF WireIInv, ReaderInv
<1>7. (\E e : Along(e))'
  <2>1. PICK e : Laid(fields, gs, e)
    BY DEF WireIInv, Along
  <2>2. Laid(fields', gs', e)
    BY <1>1, <2>1, Zenon
  <2>3. phase' # "read"
    BY <1>1
  <2> QED
    BY <2>2, <2>3 DEF Along
<1> QED
  BY <1>4, <1>5, <1>6, <1>7 DEF WireIInv

(* What is appended does not change once it is whole.                      *)
LEMMA AppendedStays ==
    ASSUME flags' = flags, fields' = fields, gs' = gs
    PROVE  Appended' = Appended /\ Payload' = Payload /\ Opened' = Opened
BY DEF Appended, Payload, Opened

(* It is bytes.                                                            *)
LEMMA AppendedBytes ==
    ASSUME WriterInv
    PROVE  Appended \in Seq(Byte)
<1>1. PICK g : g = gs /\ g \in Seq(Byte)
  BY DEF WriterInv
<1>2. PICK fl \in Int : fl = flags
  BY DEF WriterInv
<1>3. PICK count \in Int : count = Len(fields)
  BY DEF WriterInv
<1>4. IsFrame(GoFrame(Rows, fl, Id, count, g), Rows, fl, Id, count, g)
  BY <1>1, RowsAndId, FrameBytes
<1>5. Appended = GoFrame(Rows, fl, Id, count, g)
  BY <1>1, <1>2, <1>3 DEF Appended
<1> QED
  BY <1>4, <1>5 DEF IsFrame

(* A frame is posted, and damaged.                                         *)
LEMMA PostKeeps ==
    ASSUME WireIInv, Post
    PROVE  WireIInv'
<1>1. /\ phase = "full" /\ phase' = "sent" /\ ts' = Detached
      /\ fields' = fields /\ flags' = flags /\ gs' = gs
      /\ got' = got /\ go' = go /\ js' = js
  BY DEF Post
<1>2. PICK F : F = Appended /\ F \in Seq(Byte)
  BY AppendedBytes DEF WireIInv
<1>3. SubSeq(ts.buf, 1, ts.n) = F
  <2>1. PICK w : w = ts
    OBVIOUS
  <2>2. Holds(w, F)
    BY <1>1, <1>2, <2>1 DEF WireIInv, WriterInv
  <2>3. SubSeq(w.buf, 1, w.n) = F
    BY <2>2, HeldIsWritten
  <2> QED
    BY <2>1, <2>3, Zenon
<1>4. \/ damage' = "none" /\ frame' = F
      \/ damage' = "cut" /\ frame' \in Cut(F)
      \/ damage' = "spoilt" /\ frame' \in Spoil(F)
  <2>1. Written = {F}
    BY <1>2, <1>3 DEF Written
  <2> QED
    BY <2>1 DEF Post
<1>5. Appended' = F
  BY <1>1, <1>2, AppendedStays
<1>6. WriterInv'
  BY <1>1 DEF WireIInv, WriterInv
<1>7. FrameInv'
  <2>1. ASSUME damage' = "none", frame' = F PROVE FrameInv'
    BY <1>1, <1>2, <1>5, <2>1 DEF FrameInv
  <2>2. ASSUME damage' = "cut", frame' \in Cut(F) PROVE FrameInv'
    <3>1. Begins(frame', F)
      BY <1>2, <2>2, CutBytes
    <3>2. frame' \in Seq(Byte)
      BY <3>1 DEF Begins
    <3>3. Begins(frame', Appended')
      BY <1>5, <3>1, Zenon
    <3> QED
      BY <1>1, <2>2, <3>2, <3>3 DEF FrameInv
  <2>3. ASSUME damage' = "spoilt", frame' \in Spoil(F) PROVE FrameInv'
    <3>1. frame' \in Seq(Byte)
      BY <1>2, <2>3, SpoilBytes
    <3> QED
      BY <1>1, <2>3, <3>1 DEF FrameInv
  <2> QED
    BY <1>4, <2>1, <2>2, <2>3
<1>8. ReaderInv'
  BY <1>1 DEF WireIInv, ReaderInv
<1>9. (\E e : Along(e))'
  <2>1. PICK e : Laid(fields, gs, e)
    BY DEF WireIInv, Along
  <2>2. Laid(fields', gs', e)
    BY <1>1, <2>1, Zenon
  <2>3. phase' # "read"
    BY <1>1
  <2> QED
    BY <2>2, <2>3 DEF Along
<1> QED
  BY <1>6, <1>7, <1>8, <1>9 DEF WireIInv

(* Its header is read.                                                     *)
LEMMA OpenKeeps ==
    ASSUME WireIInv, Open
    PROVE  WireIInv'
<1>1. /\ phase = "sent" /\ go' = ReadHeader(frame) /\ js' = JsHeader(frame)
      /\ phase' = (IF go'.err = "none" THEN "read" ELSE "refused")
      /\ fields' = fields /\ flags' = flags /\ gs' = gs /\ ts' = ts /\ frame' = frame
      /\ damage' = damage /\ got' = got
  BY DEF Open
<1>2. PICK b : b = frame /\ b \in Seq(Byte)
  BY DEF WireIInv, FrameInv
<1>3. PICK r : r = ReadHeader(b)
  OBVIOUS
<1>4. PICK s : s = JsHeader(b)
  OBVIOUS
<1>5. go' = r /\ js' = s /\ frame' = b
  BY <1>1, <1>2, <1>3, <1>4
<1>6. PICK h : h = HeaderOf(b)
  OBVIOUS
<1>7. \/ 8 \in 0..Len(b) /\ Good(r, 8, h) /\ Good(s, 8, h)
      \/ Bad(r, b) /\ Bad(s, b)
  BY <1>2, <1>3, <1>4, <1>6, Headers
<1>8. \/ phase' = "read" /\ 8 \in 0..Len(b) /\ Good(r, 8, h) /\ Good(s, 8, h)
      \/ phase' = "refused" /\ Bad(r, b) /\ Bad(s, b)
  <2>1. ASSUME Good(r, 8, h) PROVE r.err = "none"
    BY <2>1, GoodSays
  <2>2. ASSUME Bad(r, b) PROVE r.err # "none"
    BY <2>2, GoodOrBad
  <2>3. phase' = IF r.err = "none" THEN "read" ELSE "refused"
    BY <1>1, <1>5
  <2> QED
    BY <1>7, <2>1, <2>2, <2>3
<1>9. WriterInv'
  <2>1. Appended' = Appended
    BY <1>1, AppendedStays
  <2>2. phase' \in {"read", "refused"}
    BY <1>8
  <2> QED
    BY <1>1, <2>1, <2>2 DEF WireIInv, WriterInv
<1>10. FrameInv'
  <2>1. Appended' = Appended
    BY <1>1, AppendedStays
  <2>2. phase' \in {"read", "refused"}
    BY <1>8
  <2> QED
    BY <1>1, <2>1, <2>2 DEF WireIInv, FrameInv
<1>11. got' = 0
  BY <1>1 DEF WireIInv, ReaderInv
<1>12. ReaderInv'
  <2>1. ASSUME phase' = "read", 8 \in 0..Len(b), Good(r, 8, h), Good(s, 8, h) PROVE ReaderInv'
    <3>1. Same(r, s, b, 8, h, h)
      BY <2>1 DEF Same
    <3>2. Alike(r, s, b)
      BY <3>1 DEF Alike
    <3>3. Alike(go', js', frame')
      BY <1>5, <3>2, Zenon
    <3>4. 0 \in 0..(1 + Len(fields'))
      <4>1. fields' \in Seq(Inputs)
        BY <1>9 DEF WriterInv
      <4>2. PICK n \in Nat : n = Len(fields')
        BY <4>1
      <4> QED
        BY <4>2
    <3> QED
      BY <1>11, <2>1, <3>3, <3>4 DEF ReaderInv
  <2>2. ASSUME phase' = "refused", Bad(r, b), Bad(s, b) PROVE ReaderInv'
    <3>1. Bad(go', frame') /\ Bad(js', frame')
      BY <1>5, <2>2, Zenon
    <3> QED
      BY <1>11, <2>2, <3>1 DEF ReaderInv
  <2> QED
    BY <1>8, <2>1, <2>2
<1>13. (\E e : Along(e))'
  <2>1. PICK e : Laid(fields, gs, e)
    BY DEF WireIInv, Along
  <2>2. Laid(fields', gs', e)
    BY <1>1, <2>1, Zenon
  <2>3. At(e, got') = 8
    BY <1>11 DEF At
  <2>4. ASSUME damage' = "none"
        PROVE  Good(go', At(e, got'), Opened') /\ Good(js', At(e, got'), Opened')
    <3>1. b = Appended
      BY <1>1, <1>2, <2>4 DEF WireIInv, FrameInv
    <3>2. PICK g : g = gs /\ g \in Seq(Byte)
      BY DEF WireIInv, WriterInv
    <3>3. PICK fl \in 0..3 : fl = flags
      BY DEF WireIInv, WriterInv
    <3>4. PICK count \in Int : count = Len(fields)
      BY DEF WireIInv, WriterInv
    <3>5. b = GoFrame(Rows, fl, Id, count, g)
      BY <3>1, <3>2, <3>3, <3>4 DEF Appended
    <3>6. PICK o : o = [flags |-> fl, id |-> Id]
      OBVIOUS
    <3>7. Good(r, 8, o) /\ Good(s, 8, o)
      BY <1>3, <1>4, <3>2, <3>5, <3>6, WholeHeader
    <3>8. Opened' = o
      BY <1>1, <3>3, <3>6 DEF Opened
    <3> QED
      BY <1>5, <2>3, <3>7, <3>8, Zenon
  <2>5. ASSUME phase' = "read" PROVE Good(go', At(e, got'), h)
    <3>1. ~Bad(r, b)
      <4>1. phase' # "refused"
        BY <2>5
      <4> QED
        BY <1>8, <4>1, GoodOrBad
    <3>2. Good(r, 8, h)
      BY <1>7, <3>1
    <3> QED
      BY <1>5, <2>3, <3>2, Zenon
  <2> QED
    BY <1>11, <2>2, <2>4, <2>5 DEF Along
<1> QED
  BY <1>9, <1>10, <1>12, <1>13 DEF WireIInv

-----------------------------------------------------------------------------

(* Where a field is in what was appended.                                  *)
LEMMA Places ==
    ASSUME WriterInv, NEW e, Laid(fields, gs, e)
    PROVE  /\ Appended \in Seq(Byte) /\ At(e, 0) = 8
           /\ Payload = Counting(fields) /\ Len(Payload) = 1 + Len(fields)
           /\ \A k \in 1..(1 + Len(fields)) : Placed(Appended, Payload[k], At(e, k - 1), At(e, k))
           /\ At(e, 1 + Len(fields)) = Len(Appended)
<1>1. PICK g : g = gs /\ g \in Seq(Byte)
  BY DEF WriterInv
<1>2. PICK fl \in Int : fl = flags
  BY DEF WriterInv
<1>3. PICK fs : fs = fields /\ fs \in Seq(Inputs)
  BY DEF WriterInv
<1>4. Len(fs) \in 0..(Size4 - 1)
  <2>1. PICK size \in Nat : size = Size4
    BY Sizes
  <2>2. MaxFields \in 0..(size - 1)
    BY <2>1, BoundAssumption
  <2>3. Len(fs) <= MaxFields
    BY <1>3 DEF WriterInv
  <2> QED
    BY <1>3, <2>1, <2>2, <2>3
<1>5. PICK F : F = GoFrame(Rows, fl, Id, Len(fs), g)
  OBVIOUS
<1>6. Laid(fs, g, e)
  BY <1>1, <1>3, Zenon
<1>7. \A x \in Inputs : IsField(x)
  BY InputsAssumption
<1>8. /\ F \in Seq(Byte) /\ At(e, 0) = 8 /\ Len(Counting(fs)) = 1 + Len(fs)
      /\ \A k \in 1..(1 + Len(fs)) : Placed(F, Counting(fs)[k], At(e, k - 1), At(e, k))
      /\ At(e, 1 + Len(fs)) = Len(F)
  BY <1>1, <1>2, <1>3, <1>4, <1>5, <1>6, <1>7, PayloadLaid
<1>9. Appended = F
  BY <1>1, <1>2, <1>3, <1>5 DEF Appended
<1>10. Payload = Counting(fs)
  BY <1>3 DEF Payload, Counting
<1> QED
  BY <1>3, <1>8, <1>9, <1>10

(* A field is read.                                                        *)
LEMMA ReadKeeps ==
    ASSUME WireIInv, Read
    PROVE  WireIInv'
<1>1. /\ phase = "read" /\ phase' = "read" /\ got < Len(Payload) /\ got' = got + 1
      /\ go' = GoRead(frame, go, Payload[got'].t)
      /\ js' = IF js.err = "none" THEN JsRead(frame, js, Payload[got'].t) ELSE js
      /\ fields' = fields /\ flags' = flags /\ gs' = gs /\ ts' = ts /\ frame' = frame
      /\ damage' = damage
  BY DEF Read
<1>2. PICK e : Along(e)
  BY DEF WireIInv
<1>3. Laid(fields, gs, e) /\ WriterInv
  BY <1>2 DEF Along, WireIInv
<1>4. PICK F : F = Appended /\ F \in Seq(Byte)
  BY <1>3, AppendedBytes
<1>5. PICK b : b = frame /\ b \in Seq(Byte)
  BY DEF WireIInv, FrameInv
<1>6. PICK n \in Nat : n = Len(fields)
  BY <1>3 DEF WriterInv
<1>7. got \in 0..(1 + n) /\ Alike(go, js, b)
  BY <1>1, <1>5, <1>6 DEF WireIInv, ReaderInv
<1>8. PICK k \in 1..(1 + n) : k = got + 1 /\ got = k - 1
  <2>1. Len(Payload) = 1 + n
    BY <1>3, <1>6, Places
  <2>2. got + 1 \in 1..(1 + n) /\ got = (got + 1) - 1
    BY <1>1, <1>7, <2>1
  <2> QED
    BY <2>2
<1>9. PICK f : f = Payload[k]
  OBVIOUS
<1>10. PICK i : i = At(e, k - 1)
  OBVIOUS
<1>11. PICK j : j = At(e, k)
  OBVIOUS
<1>12. Placed(F, f, i, j)
  BY <1>3, <1>4, <1>6, <1>9, <1>10, <1>11, Places
<1>13. f.t \in Types
  BY <1>12, FieldTypes DEF Placed, Types
<1>14. PICK r : r = go
  OBVIOUS
<1>15. PICK s : s = js
  OBVIOUS
<1>16. PICK x : x = GoRead(b, r, f.t)
  OBVIOUS
<1>17. PICK y : y = IF s.err = "none" THEN JsRead(b, s, f.t) ELSE s
  OBVIOUS
<1>18. got' = k /\ go' = x /\ js' = y
  BY <1>1, <1>5, <1>8, <1>9, <1>14, <1>15, <1>16, <1>17
<1>19. Appended' = Appended /\ Payload' = Payload /\ Opened' = Opened
  BY <1>1, AppendedStays
<1>20. WriterInv'
  BY <1>1, <1>3, <1>19 DEF WriterInv
<1>21. FrameInv'
  BY <1>1, <1>19 DEF WireIInv, FrameInv
<1>22. ReaderInv'
  <2>1. Alike(r, s, b)
    BY <1>7, <1>14, <1>15, Zenon
  <2>2. PICK t \in Types : t = f.t
    BY <1>13
  <2>3. x = GoRead(b, r, t) /\ y = IF s.err = "none" THEN JsRead(b, s, t) ELSE s
    BY <1>16, <1>17, <2>2
  <2>4. Alike(x, y, b)
    BY <1>5, <2>1, <2>3, ReadAlike
  <2>5. Alike(go', js', frame')
    BY <1>1, <1>5, <1>18, <2>4, Zenon
  <2>6. got' \in 0..(1 + Len(fields'))
    BY <1>1, <1>6, <1>18
  <2> QED
    BY <1>1, <2>5, <2>6 DEF ReaderInv
<1>23. (\E d : Along(d))'
  <2>1. Laid(fields', gs', e)
    BY <1>1, <1>3, Zenon
  <2>2. At(e, got') = j /\ At(e, got) = i /\ got' # 0 /\ Payload'[got'] = f
    BY <1>8, <1>9, <1>10, <1>11, <1>18, <1>19
  <2>3. ASSUME damage' = "none"
        PROVE  Good(go', At(e, got'), Meant(f)) /\ Good(js', At(e, got'), Heard(f))
    <3>1. b = F
      BY <1>1, <1>4, <1>5, <2>3 DEF WireIInv, FrameInv
    <3>2. PICK v : Good(r, i, v)
      BY <1>1, <1>2, <1>14, <2>2, <2>3, Zenon DEF Along
    <3>3. PICK u : Good(s, i, u)
      BY <1>1, <1>2, <1>15, <2>2, <2>3, Zenon DEF Along
    <3>4. Good(GoRead(F, r, f.t), j, Meant(f)) /\ Good(JsRead(F, s, f.t), j, Heard(f))
      BY <1>4, <1>12, <3>2, <3>3, ReadWhole
    <3>5. s.err = "none"
      BY <3>3, GoodSays
    <3>6. x = GoRead(F, r, f.t) /\ y = JsRead(F, s, f.t)
      BY <1>16, <1>17, <3>1, <3>5
    <3> QED
      BY <1>18, <2>2, <3>4, <3>6, Zenon
  <2>4. ASSUME damage' = "cut"
        PROVE  Bad(go', frame') \/ \E v : Good(go', At(e, got'), v)
    <3>1. Begins(b, F)
      BY <1>1, <1>4, <1>5, <2>4 DEF WireIInv, FrameInv
    <3>2. CASE Bad(r, b)
      <4>1. Bad(x, b)
        BY <1>13, <1>16, <3>2, GoReadStays
      <4> QED
        BY <1>1, <1>5, <1>18, <4>1, Zenon
    <3>3. CASE ~Bad(r, b)
      <4>1. PICK v : Good(r, i, v)
        <5>1. Bad(r, b) \/ \E v : Good(r, i, v)
          BY <1>1, <1>2, <1>5, <1>14, <2>2, <2>4, Zenon DEF Along
        <5> QED
          BY <3>3, <5>1
      <4>2. PICK i2, v2, u2 : Same(r, s, b, i2, v2, u2)
        BY <1>7, <1>14, <1>15, <3>3 DEF Alike
      <4>3. Good(r, i2, v2) /\ Good(s, i2, u2) /\ i2 \in 0..Len(b)
        BY <4>2 DEF Same
      <4>4. i2 = i
        <5>1. r.i = i
          BY <4>1, GoodSays
        <5>2. r.i = i2
          BY <4>3, GoodSays
        <5> QED
          BY <5>1, <5>2
      <4>5. Good(s, i, u2) /\ i <= Len(b)
        BY <4>3, <4>4
      <4>6. Bad(GoRead(b, r, f.t), b) \/ Good(GoRead(b, r, f.t), j, Meant(f))
        BY <1>4, <1>5, <1>12, <3>1, <4>1, <4>5, ReadCut
      <4>7. Bad(go', frame') \/ Good(go', At(e, got'), Meant(f))
        BY <1>1, <1>5, <1>16, <1>18, <2>2, <4>6, Zenon
      <4> QED
        BY <4>7
    <3> QED
      BY <3>2, <3>3
  <2>5. Along(e)'
    BY <2>1, <2>2, <2>3, <2>4 DEF Along
  <2> QED
    BY <2>5
<1> QED
  BY <1>20, <1>21, <1>22, <1>23 DEF WireIInv

(* Nothing happens.                                                        *)
LEMMA NothingKeeps ==
    ASSUME WireIInv, UNCHANGED vars
    PROVE  WireIInv'
<1>1. /\ phase' = phase /\ fields' = fields /\ flags' = flags /\ gs' = gs /\ ts' = ts
      /\ frame' = frame /\ damage' = damage /\ got' = got /\ go' = go /\ js' = js
  BY DEF vars
<1>2. Appended' = Appended /\ Payload' = Payload /\ Opened' = Opened
  BY <1>1, AppendedStays
<1>3. WriterInv'
  BY <1>1, <1>2 DEF WireIInv, WriterInv
<1>4. FrameInv'
  BY <1>1, <1>2 DEF WireIInv, FrameInv
<1>5. ReaderInv'
  BY <1>1 DEF WireIInv, ReaderInv
<1>6. (\E e : Along(e))'
  BY <1>1, <1>2 DEF WireIInv, Along
<1> QED
  BY <1>3, <1>4, <1>5, <1>6 DEF WireIInv

(* The invariant is inductive.                                             *)
LEMMA WireInvariant == Spec => []WireIInv
<1>1. Init => WireIInv
  BY WireInit
<1>2. WireIInv /\ [Next]_vars => WireIInv'
  <2> SUFFICES ASSUME WireIInv, [Next]_vars
               PROVE  WireIInv'
    OBVIOUS
  <2>1. ASSUME NEW f \in Inputs, Write(f) PROVE WireIInv'
    BY <2>1, WriteKeeps
  <2>2. ASSUME NEW fl \in {0, 1, 2, 3}, Flush(fl) PROVE WireIInv'
    BY <2>2, FlushKeeps
  <2>3. CASE Post
    BY <2>3, PostKeeps
  <2>4. CASE Open
    BY <2>4, OpenKeeps
  <2>5. CASE Read
    BY <2>5, ReadKeeps
  <2>6. CASE UNCHANGED vars
    BY <2>6, NothingKeeps
  <2> QED
    BY <2>1, <2>2, <2>3, <2>4, <2>5, <2>6 DEF Next
<1> QED
  BY <1>1, <1>2, PTL DEF Spec

-----------------------------------------------------------------------------

(* A reader that has failed, or has not, is inside its frame.              *)
LEMMA ReaderInside ==
    ASSUME NEW r, NEW b, Bad(r, b) \/ \E i \in 0..Len(b) : \E v : Good(r, i, v)
    PROVE  r.i \in 0..Len(b) /\ r.err \in {"none", "short", "version", "absent", "tag", "threw"}
<1>1. CASE Bad(r, b)
  BY <1>1, GoodOrBad DEF Errors
<1>2. ASSUME NEW i \in 0..Len(b), NEW v, Good(r, i, v)
      PROVE  r.i \in 0..Len(b) /\ r.err = "none"
  BY <1>2, GoodSays
<1> QED
  BY <1>1, <1>2

(* What the invariant says of the readers of any frame.                    *)
LEMMA ReadersAlike ==
    ASSUME WireIInv
    PROVE  /\ Reader(go) /\ Reader(js) /\ got \in 0..(1 + Len(fields))
           /\ (go.err = "none") = (js.err = "none")
           /\ go.err = "none" => go.i = js.i /\ (go.v = js.v \/ Decode(go.v) = js.v)
<1>1. PICK b : b = frame /\ b \in Seq(Byte)
  BY DEF WireIInv, FrameInv
<1>2. PICK n \in Nat : n = Len(fields)
  BY DEF WireIInv, WriterInv
<1>3. CASE phase \in {"write", "full", "sent"}
  <2>1. go = NewReader /\ js = NewReader /\ got = 0
    BY <1>3 DEF WireIInv, ReaderInv
  <2>2. NewReader.i = 0 /\ NewReader.err = "none"
    BY DEF NewReader
  <2>3. 0 \in 0..Len(b) /\ 0 \in 0..(1 + n)
    BY <1>1, <1>2
  <2> QED
    BY <1>1, <1>2, <2>1, <2>2, <2>3 DEF Reader
<1>4. ASSUME Alike(go, js, b)
      PROVE  /\ Reader(go) /\ Reader(js)
             /\ (go.err = "none") = (js.err = "none")
             /\ go.err = "none" => go.i = js.i /\ (go.v = js.v \/ Decode(go.v) = js.v)
  <2>1. CASE Bad(go, b) /\ Bad(js, b)
    <3>1. go.err # "none" /\ js.err # "none"
      BY <2>1, GoodOrBad
    <3> QED
      BY <1>1, <2>1, <3>1, ReaderInside DEF Reader
  <2>2. ASSUME NEW i, NEW v, NEW u, Same(go, js, b, i, v, u)
        PROVE  /\ Reader(go) /\ Reader(js)
               /\ go.err = "none" /\ js.err = "none"
               /\ go.i = js.i /\ (go.v = js.v \/ Decode(go.v) = js.v)
    <3>1. i \in 0..Len(b) /\ Good(go, i, v) /\ Good(js, i, u) /\ (u = v \/ u = Decode(v))
      BY <2>2 DEF Same
    <3>2. /\ go.err = "none" /\ go.i = i /\ go.v = v
          /\ js.err = "none" /\ js.i = i /\ js.v = u
      BY <3>1, GoodSays
    <3>3. Reader(go) /\ Reader(js)
      BY <1>1, <3>1, <3>2 DEF Reader
    <3> QED
      BY <3>1, <3>2, <3>3
  <2> QED
    BY <1>4, <2>1, <2>2 DEF Alike
<1>5. CASE phase = "read"
  BY <1>1, <1>4, <1>5 DEF WireIInv, ReaderInv
<1>6. CASE phase = "refused"
  <2>1. Alike(go, js, b) /\ got = 0
    BY <1>1, <1>6 DEF WireIInv, ReaderInv, Alike
  <2>2. 0 \in 0..(1 + n)
    BY <1>2
  <2> QED
    BY <1>2, <1>4, <2>1, <2>2
<1> QED
  BY <1>3, <1>5, <1>6 DEF WireIInv, WriterInv

(* Of what was written.                                                    *)
LEMMA WrittenSafe ==
    ASSUME WireIInv
    PROVE  WrittenAlike /\ ts.n \in 0..Len(ts.buf)
<1>1. PICK w : w = ts
  OBVIOUS
<1>2. ASSUME NEW s, Holds(w, s)
      PROVE  SubSeq(w.buf, 1, w.n) = s /\ ~w.threw /\ w.n \in 0..Len(w.buf)
  BY <1>2, HeldIsWritten
<1>3. CASE phase = "write"
  <2>1. \E s : Holds(w, s)
    BY <1>1, <1>3 DEF WireIInv, WriterInv
  <2>2. ~w.threw /\ w.n \in 0..Len(w.buf)
    BY <1>2, <2>1
  <2> QED
    BY <1>1, <1>3, <2>2 DEF WrittenAlike
<1>4. CASE phase = "full"
  <2>1. Holds(w, Appended)
    BY <1>1, <1>4 DEF WireIInv, WriterInv
  <2>2. SubSeq(w.buf, 1, w.n) = Appended /\ ~w.threw /\ w.n \in 0..Len(w.buf)
    BY <1>2, <2>1
  <2> QED
    BY <1>1, <1>4, <2>2 DEF WrittenAlike
<1>5. CASE phase \notin {"write", "full"}
  <2>1. ts = Detached
    BY <1>5 DEF WireIInv, WriterInv
  <2>2. Detached.n = 0 /\ Detached.threw = FALSE /\ Detached.buf = <<>>
    BY DEF Detached
  <2>3. 0 \in 0..Len(<<>>)
    OBVIOUS
  <2> QED
    BY <1>5, <2>1, <2>2, <2>3 DEF WrittenAlike
<1> QED
  BY <1>3, <1>4, <1>5

(* Of a frame that arrived whole.                                          *)
LEMMA WholeRead ==
    ASSUME WireIInv
    PROVE  ReadBack
<1> SUFFICES ASSUME damage = "none", phase = "read" PROVE ReadBack
  BY DEF ReadBack
<1>1. PICK e : Along(e)
  BY DEF WireIInv
<1>2. Laid(fields, gs, e) /\ WriterInv
  BY <1>1 DEF Along, WireIInv
<1>3. PICK a : a = At(e, got)
  OBVIOUS
<1>4. /\ Good(go, a, IF got = 0 THEN Opened ELSE Meant(Payload[got]))
      /\ Good(js, a, IF got = 0 THEN Opened ELSE Heard(Payload[got]))
  BY <1>1, <1>3 DEF Along
<1>5. go.err = "none" /\ go.i = a /\ go.v = IF got = 0 THEN Opened ELSE Meant(Payload[got])
  <2>1. PICK v : v = IF got = 0 THEN Opened ELSE Meant(Payload[got])
    OBVIOUS
  <2>2. Good(go, a, v)
    BY <1>4, <2>1
  <2>3. go.err = "none" /\ go.i = a /\ go.v = v
    BY <2>2, GoodSays
  <2> QED
    BY <2>1, <2>3
<1>6. js.err = "none" /\ js.i = a /\ js.v = IF got = 0 THEN Opened ELSE Heard(Payload[got])
  <2>1. PICK v : v = IF got = 0 THEN Opened ELSE Heard(Payload[got])
    OBVIOUS
  <2>2. Good(js, a, v)
    BY <1>4, <2>1
  <2>3. js.err = "none" /\ js.i = a /\ js.v = v
    BY <2>2, GoodSays
  <2> QED
    BY <2>1, <2>3
<1>7. frame = Appended
  BY DEF WireIInv, FrameInv
<1>8. got = Len(Payload) => a = Len(frame)
  BY <1>2, <1>3, <1>7, Places
<1> QED
  BY <1>5, <1>6, <1>8 DEF ReadBack, Opened

(* Of one that was cut.                                                    *)
LEMMA CutFails ==
    ASSUME WireIInv, damage = "cut", phase = "read", got = Len(Payload)
    PROVE  go.err # "none"
<1>1. PICK e : Along(e)
  BY DEF WireIInv
<1>2. Laid(fields, gs, e) /\ WriterInv
  BY <1>1 DEF Along, WireIInv
<1>3. SUFFICES ASSUME go.err = "none" PROVE FALSE
  OBVIOUS
<1>4. ~Bad(go, frame)
  BY <1>3, GoodOrBad
<1>5. PICK v : Good(go, At(e, got), v)
  BY <1>1, <1>4 DEF Along
<1>6. go.i = At(e, got)
  BY <1>5, GoodSays
<1>7. At(e, got) = Len(Appended)
  BY <1>2, Places
<1>8. PICK l \in Nat : l = Len(frame) /\ l < Len(Appended)
  BY DEF WireIInv, FrameInv, Begins
<1>9. PICK m \in Nat : m = Len(Appended)
  BY <1>2, AppendedBytes
<1>10. go.i \in 0..l
  BY <1>8, ReadersAlike DEF Reader
<1> QED
  BY <1>6, <1>7, <1>8, <1>9, <1>10

(* The types of the codec, whatever a byte can hold and however long the   *)
(* fields are: FrameWriter stays inside its buffer, and both readers stay  *)
(* inside a frame that is whole, cut or spoilt.                            *)
THEOREM WireTypes == Spec => []TypeOK
<1>1. WireIInv => TypeOK
  <2> SUFFICES ASSUME WireIInv PROVE TypeOK
    OBVIOUS
  <2>1. PICK e : Laid(fields, gs, e) /\ WriterInv
    BY DEF Along, WireIInv
  <2>2. Len(Payload) = 1 + Len(fields)
    BY <2>1, Places
  <2>3. got \in 0..Len(Payload)
    BY <2>2, ReadersAlike
  <2> QED
    BY <2>3, ReadersAlike, WrittenSafe DEF TypeOK, WireIInv, WriterInv, FrameInv
<1> QED
  BY <1>1, WireInvariant, PTL

(* FrameWriter, which doubles its buffer, reserves room for a string       *)
(* before it knows the length and patches the count and the flags, never   *)
(* throws, and what it posts is what Writer appends for the same fields.   *)
THEOREM FramesWrittenAlike == Spec => []WrittenAlike
<1>1. WireIInv => WrittenAlike
  BY WrittenSafe
<1> QED
  BY <1>1, WireInvariant, PTL

(* Reader and FrameReader read every field of a frame that arrived whole   *)
(* as it was written, and end where the frame does.                        *)
THEOREM FramesReadBack == Spec => []ReadBack
<1>1. WireIInv => ReadBack
  BY WholeRead
<1> QED
  BY <1>1, WireInvariant, PTL

(* They fail at the same field of a frame that did not, read the same      *)
(* before it, and never take a frame that was cut for a whole one.         *)
THEOREM FramesFailAlike == Spec => []DamageSeenAlike
<1>1. WireIInv => DamageSeenAlike
  BY ReadersAlike, CutFails DEF DamageSeenAlike
<1> QED
  BY <1>1, WireInvariant, PTL
=============================================================================
