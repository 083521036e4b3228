---------------------------- MODULE CodecProofs -----------------------------
(***************************************************************************)
(* Theorems about Values and Script.                                       *)
(*                                                                         *)
(* Values: for any clock, zones, configurations and values, a time that is *)
(* bound and scanned from a column is the same instant, to the precision   *)
(* of what was stored, for every reader whose configuration can tell;      *)
(* every other value is itself; and the texts of times sort as the         *)
(* instants do.  The clock of a text and its fraction are both the         *)
(* numerals of a number (High, Middle, Low); that these give back the      *)
(* number, and sort as it does, is what both theorems rest on.             *)
(*                                                                         *)
(* Script: for any scripts and arguments, each statement that runs sees    *)
(* its own share of the arguments.  That named arguments leave out no      *)
(* parameter of a script's statement is the pigeonhole principle.          *)
(***************************************************************************)
EXTENDS Values, Script, SequenceTheorems, FiniteSetTheorems, TLAPS

(* Division with remainder.                                                *)
LEMMA DivMod ==
    ASSUME NEW a \in Int, NEW b \in Nat \ {0}
    PROVE  /\ a \div b \in Int /\ a % b \in 0..(b - 1)
           /\ a = b * (a \div b) + (a % b)
OBVIOUS

(* A product is less than its factor only where the other is 0 or less.    *)
LEMMA ProductGrows ==
    ASSUME NEW b \in Nat \ {0}, NEW k \in Int
    PROVE  /\ b * k \in Int
           /\ k >= 1 => b * k >= b
           /\ k <= -1 => b * k <= -b
           /\ k = 0 => b * k = 0
OBVIOUS

(* There is one quotient.                                                  *)
LEMMA DivUnique ==
    ASSUME NEW a \in Int, NEW b \in Nat \ {0}, NEW q \in Int, NEW r \in 0..(b - 1),
           a = b * q + r
    PROVE  a \div b = q /\ a % b = r
<1> DEFINE p == a \div b
           s == a % b
<1>1. p \in Int /\ s \in 0..(b - 1) /\ a = b * p + s
  BY DivMod
<1> HIDE DEF p, s
<1>2. b * (p - q) = r - s
  <2>1. b * (p - q) = b * p - b * q
    BY <1>1
  <2> QED
    BY <2>1, <1>1
<1>3. p - q = 0
  <2> DEFINE k == p - q
  <2>1. k \in Int
    BY <1>1
  <2> HIDE DEF k
  <2>2. b * k \in -(b - 1)..(b - 1)
    BY <1>1, <1>2 DEF k
  <2>3. k = 0
    BY <2>1, <2>2, ProductGrows
  <2> QED
    BY <2>3 DEF k
<1> QED
  BY <1>1, <1>2, <1>3 DEF p, s

(* A greater number has a quotient as great, or greater.                   *)
LEMMA DivMono ==
    ASSUME NEW a \in Int, NEW c \in Int, a <= c, NEW b \in Nat \ {0}
    PROVE  a \div b <= c \div b
<1> DEFINE p == a \div b
           q == c \div b
<1>1. p \in Int /\ q \in Int /\ b * p <= a /\ c < b * q + b
  BY DivMod
<1> HIDE DEF p, q
<1>2. b * (p - q) < b
  <2>1. b * (p - q) = b * p - b * q
    BY <1>1
  <2> QED
    BY <2>1, <1>1
<1> DEFINE k == p - q
<1>3. k \in Int
  BY <1>1
<1>4. ~ (k >= 1)
  BY <1>2, <1>3, ProductGrows
<1> QED
  BY <1>1, <1>4 DEF p, q

(* The numerals of a number: how many b * c, how many b, and the rest.     *)
High(a, b, c) == a \div (b * c)
Middle(a, b, c) == (a \div b) % c
Low(a, b) == a % b

(* Dividing twice is dividing by the product: the two higher numerals are  *)
(* those of the quotient.                                                  *)
LEMMA DivTwice ==
    ASSUME NEW a \in Int, NEW b \in Nat \ {0}, NEW c \in Nat \ {0}
    PROVE  High(a, b, c) = (a \div b) \div c /\ Middle(a, b, c) = (a \div b) % c
<1> DEFINE q == a \div b
           r == a % b
           p == q \div c
           s == q % c
<1>1. q \in Int /\ r \in 0..(b - 1) /\ a = b * q + r
  BY DivMod
<1>2. p \in Int /\ s \in 0..(c - 1) /\ q = c * p + s
  BY <1>1, DivMod
<1> HIDE DEF q, r, p, s
<1>3. b * c \in Nat \ {0}
  OBVIOUS
<1>4. a = (b * c) * p + (b * s + r)
  <2>1. b * (c * p + s) = (b * c) * p + b * s
    BY <1>2
  <2> QED
    BY <2>1, <1>1, <1>2
<1>5. b * s + r \in 0..(b * c - 1)
  <2>1. b * s >= 0 /\ b * s \in Int
    BY <1>2
  <2>2. b * s <= b * (c - 1)
    BY <1>2
  <2>3. b * (c - 1) = b * c - b
    OBVIOUS
  <2> QED
    BY <1>1, <1>3, <2>1, <2>2, <2>3
<1>6. a \div (b * c) = p
  <2> DEFINE m == b * c
             x == b * s + r
  <2>1. m \in Nat \ {0} /\ x \in 0..(m - 1) /\ a = m * p + x
    BY <1>3, <1>4, <1>5
  <2> HIDE DEF m, x
  <2>2. a \div m = p
    BY <2>1, <1>2, DivUnique
  <2> QED
    BY <2>2 DEF m
<1>7. High(a, b, c) = p
  BY <1>6 DEF High
<1> QED
  BY <1>7 DEF p, q, Middle

(* They are the number ...                                                 *)
LEMMA NumeralsRead ==
    ASSUME NEW a \in Int, NEW b \in Nat \ {0}, NEW c \in Nat \ {0}
    PROVE  /\ High(a, b, c) \in Int /\ Middle(a, b, c) \in 0..(c - 1)
           /\ Low(a, b) \in 0..(b - 1)
           /\ a = High(a, b, c) * (b * c) + Middle(a, b, c) * b + Low(a, b)
<1> DEFINE q == a \div b
           p == High(a, b, c)
           m == Middle(a, b, c)
           l == Low(a, b)
<1>1. q \in Int /\ l \in 0..(b - 1) /\ a = b * q + l
  BY DivMod DEF Low
<1>2. p = q \div c /\ m = q % c
  BY DivTwice
<1>3. p \in Int /\ m \in 0..(c - 1) /\ q = c * p + m
  BY <1>1, <1>2, DivMod
<1> HIDE DEF q, p, m, l
<1>4. b * (c * p + m) = p * (b * c) + m * b
  BY <1>3
<1> QED
  BY <1>1, <1>3, <1>4 DEF p, m, l

(* ... and sort as it does.                                                *)
LEMMA RemainderLess ==
    ASSUME NEW a \in Int, NEW c \in Int, a < c, NEW b \in Nat \ {0}
    PROVE  a \div b < c \div b \/ (a \div b = c \div b /\ a % b < c % b)
<1> DEFINE p == a \div b
           q == c \div b
<1>1. p \in Int /\ q \in Int /\ p <= q
  BY DivMod, DivMono
<1>2. a = b * p + (a % b) /\ c = b * q + (c % b) /\ a % b \in Int /\ c % b \in Int
  BY DivMod
<1> HIDE DEF p, q
<1>3. CASE p = q
  BY <1>1, <1>2, <1>3 DEF p, q
<1> QED
  BY <1>1, <1>3 DEF p, q

(* The numerals of two numbers, compared from the highest down.            *)
LEMMA NumeralsSort ==
    ASSUME NEW a \in Int, NEW e \in Int, a < e, NEW b \in Nat \ {0}, NEW c \in Nat \ {0}
    PROVE  \/ High(a, b, c) < High(e, b, c)
           \/ /\ High(a, b, c) = High(e, b, c)
              /\ \/ Middle(a, b, c) < Middle(e, b, c)
                 \/ Middle(a, b, c) = Middle(e, b, c) /\ Low(a, b) < Low(e, b)
<1> DEFINE p == a \div b
           q == e \div b
<1>1. p \in Int /\ q \in Int /\ (p < q \/ (p = q /\ a % b < e % b))
  BY DivMod, RemainderLess
<1>2. /\ High(a, b, c) = p \div c /\ High(e, b, c) = q \div c
      /\ Middle(a, b, c) = p % c /\ Middle(e, b, c) = q % c
  BY DivTwice
<1> HIDE DEF p, q
<1>3. CASE p < q
  <2>1. p \div c < q \div c \/ (p \div c = q \div c /\ p % c < q % c)
    BY <1>1, <1>3, RemainderLess
  <2> QED
    BY <2>1, <1>2
<1>4. CASE p = q /\ a % b < e % b
  BY <1>2, <1>4 DEF Low
<1> QED
  BY <1>1, <1>3, <1>4

-----------------------------------------------------------------------------
(* The texts.                                                              *)

(* The clock and the fraction of a second are numerals of these.           *)
LEMMA Scales ==
    /\ Minute \in Nat \ {0} /\ Minute <= 60 /\ Day \in Nat \ {0} /\ Kilo \in Nat \ {0}
    /\ Kilo * Kilo \in Nat \ {0} /\ Nano \in Nat \ {0}
<1>1. Minute \in Nat \ {0} /\ Minute <= 60 /\ Day \in Nat \ {0} /\ Kilo \in Nat \ {0}
  BY ClockAssumption
<1>2. Kilo * Kilo \in Nat \ {0}
  BY <1>1
<1>3. Kilo * Kilo * Kilo \in Nat \ {0}
  <2> DEFINE m == Kilo * Kilo
  <2>1. m \in Nat \ {0}
    BY <1>2
  <2> HIDE DEF m
  <2>2. m * Kilo \in Nat \ {0}
    BY <2>1, <1>1
  <2> QED
    BY <2>2 DEF m
<1> QED
  BY <1>1, <1>2, <1>3 DEF Nano

(* One text after another.                                                *)
LEMMA After ==
    ASSUME NEW u \in Seq(Int), NEW v \in Seq(Int)
    PROVE  /\ u \o v \in Seq(Int) /\ Len(u \o v) = Len(u) + Len(v)
           /\ Len(u) \in Nat /\ Len(v) \in Nat
           /\ \A i \in 1..Len(u) : (u \o v)[i] = u[i]
           /\ \A i \in 1..Len(v) : (u \o v)[i + Len(u)] = v[i]
BY ConcatProperties

(* A clock and a fraction, one after the other.                            *)
LEMMA Joined ==
    ASSUME NEW a \in Int, NEW b \in Int, NEW c \in Int, NEW d \in Int,
           NEW e \in Int, NEW f \in Int, NEW g \in Int, NEW h \in Int
    PROVE  LET s == <<a, b, c, d>> \o (<<e>> \o <<f, g, h>>)
           IN  /\ s \in Seq(Int) /\ Len(s) = 8
               /\ s[1] = a /\ s[2] = b /\ s[3] = c /\ s[4] = d
               /\ s[5] = e /\ s[6] = f /\ s[7] = g /\ s[8] = h
<1> DEFINE u == <<a, b, c, d>>
           v == <<e>>
           w == <<f, g, h>>
           x == v \o w
<1>1. /\ u \in Seq(Int) /\ Len(u) = 4
      /\ u[1] = a /\ u[2] = b /\ u[3] = c /\ u[4] = d
  OBVIOUS
<1>2. v \in Seq(Int) /\ Len(v) = 1 /\ v[1] = e
  OBVIOUS
<1>3. w \in Seq(Int) /\ Len(w) = 3 /\ w[1] = f /\ w[2] = g /\ w[3] = h
  OBVIOUS
<1> HIDE DEF u, v, w
<1>4. /\ x \in Seq(Int) /\ Len(x) = 4
      /\ x[1] = e /\ x[2] = f /\ x[3] = g /\ x[4] = h
  <2>1. /\ x \in Seq(Int) /\ Len(x) = Len(v) + Len(w)
        /\ \A i \in 1..Len(v) : x[i] = v[i]
        /\ \A i \in 1..Len(w) : x[i + Len(v)] = w[i]
    BY <1>2, <1>3, After
  <2> HIDE DEF x
  <2>2. x[1] = v[1] /\ x[1 + 1] = w[1] /\ x[2 + 1] = w[2] /\ x[3 + 1] = w[3]
    BY <2>1, <1>2, <1>3
  <2> QED
    BY <1>2, <1>3, <2>1, <2>2
<1> HIDE DEF x
<1> DEFINE y == u \o x
<1>5. /\ y \in Seq(Int) /\ Len(y) = 8
      /\ y[1] = a /\ y[2] = b /\ y[3] = c /\ y[4] = d
      /\ y[5] = e /\ y[6] = f /\ y[7] = g /\ y[8] = h
  <2>1. /\ y \in Seq(Int) /\ Len(y) = Len(u) + Len(x)
        /\ \A i \in 1..Len(u) : y[i] = u[i]
        /\ \A i \in 1..Len(x) : y[i + Len(u)] = x[i]
    BY <1>1, <1>4, After
  <2> HIDE DEF y
  <2>2. /\ y[1] = u[1] /\ y[2] = u[2] /\ y[3] = u[3] /\ y[4] = u[4]
        /\ y[1 + 4] = x[1] /\ y[2 + 4] = x[2] /\ y[3 + 4] = x[3] /\ y[4 + 4] = x[4]
    BY <2>1, <1>1, <1>4
  <2> QED
    BY <1>1, <1>4, <2>1, <2>2
<1> QED
  BY <1>5 DEF u, v, w, x

(* A text with one more code at its end.                                   *)
LEMMA Ended ==
    ASSUME NEW s \in Seq(Int), NEW e \in Int
    PROVE  /\ s \o <<e>> \in Seq(Int) /\ Len(s \o <<e>>) = Len(s) + 1
           /\ (s \o <<e>>)[Len(s) + 1] = e
           /\ \A i \in 1..Len(s) : (s \o <<e>>)[i] = s[i]
OBVIOUS

(* A second and what is left of it, as text.                               *)
Stamp(w, f) == Clock(w) \o Fraction(f)

(* The clock is three numerals and a T ...                                 *)
LEMMA ClockText ==
    ASSUME NEW w \in Int
    PROVE  /\ Clock(w) = <<High(w, Minute, Day), T, Middle(w, Minute, Day), Low(w, Minute)>>
           /\ High(w, Minute, Day) \in Int
           /\ Middle(w, Minute, Day) \in Int /\ Middle(w, Minute, Day) >= 0
           /\ Low(w, Minute) \in 0..(Minute - 1)
           /\ High(w, Minute, Day) * Day * Minute + Middle(w, Minute, Day) * Minute
                 + Low(w, Minute) = w
<1>1. Clock(w) = <<High(w, Minute, Day), T, Middle(w, Minute, Day), Low(w, Minute)>>
  BY DEF Clock, High, Middle, Low
<1>2. Minute \in Nat \ {0} /\ Day \in Nat \ {0}
  BY Scales
<1>3. /\ High(w, Minute, Day) \in Int /\ Middle(w, Minute, Day) \in 0..(Day - 1)
      /\ Low(w, Minute) \in 0..(Minute - 1)
      /\ w = High(w, Minute, Day) * (Minute * Day) + Middle(w, Minute, Day) * Minute
               + Low(w, Minute)
  BY <1>2, NumeralsRead
<1> DEFINE h == High(w, Minute, Day)
           m == Middle(w, Minute, Day)
           l == Low(w, Minute)
<1>4. h \in Int /\ m \in 0..(Day - 1) /\ l \in 0..(Minute - 1)
      /\ w = h * (Minute * Day) + m * Minute + l
  BY <1>3
<1> HIDE DEF h, m, l
<1>5. h * Day * Minute + m * Minute + l = w
  <2>1. h * (Minute * Day) = h * Day * Minute
    BY <1>2, <1>4
  <2> QED
    BY <2>1, <1>2, <1>4
<1> QED
  BY <1>1, <1>2, <1>4, <1>5 DEF h, m, l

(* ... the fraction three numerals after a dot ...                         *)
LEMMA FractionText ==
    ASSUME NEW f \in 0..(Nano - 1)
    PROVE  /\ Fraction(f) = <<Dot>> \o <<Zero + High(f, Kilo, Kilo),
                                 Zero + Middle(f, Kilo, Kilo), Zero + Low(f, Kilo)>>
           /\ High(f, Kilo, Kilo) \in 0..(Kilo - 1)
           /\ Middle(f, Kilo, Kilo) \in 0..(Kilo - 1)
           /\ Low(f, Kilo) \in 0..(Kilo - 1)
           /\ High(f, Kilo, Kilo) * (Kilo * Kilo) + Middle(f, Kilo, Kilo) * Kilo
                 + Low(f, Kilo) = f
<1> DEFINE h == High(f, Kilo, Kilo)
           m == Middle(f, Kilo, Kilo)
           l == Low(f, Kilo)
           k == Kilo * Kilo
<1>1. Fraction(f) = <<Dot>> \o <<Zero + h, Zero + m, Zero + l>>
  BY DEF Fraction, Digits, High, Middle, Low
<1>2. /\ Kilo \in Nat \ {0} /\ k \in Nat \ {0} /\ f \in Int /\ f >= 0 /\ f < k * Kilo
  BY Scales DEF Nano
<1>3. /\ h \in Int /\ m \in 0..(Kilo - 1) /\ l \in 0..(Kilo - 1)
      /\ f = h * k + m * Kilo + l
  BY <1>2, NumeralsRead
<1>4. h = f \div k
  BY DEF High
<1> HIDE DEF h, m, l, k
<1>5. k * h <= f /\ f < k * h + k
  <2>1. f = k * (f \div k) + (f % k) /\ f % k \in 0..(k - 1)
    BY <1>2, DivMod
  <2>2. f = k * h + (f % k)
    BY <2>1, <1>4
  <2> QED
    BY <1>2, <1>3, <2>1, <2>2
<1>6. h >= 0
  <2>1. ~ (h <= -1)
    BY <1>2, <1>3, <1>5, ProductGrows
  <2> QED
    BY <2>1, <1>3
<1>7. h < Kilo
  <2>1. k * (h - Kilo) < 0
    <3>1. k * (h - Kilo) = k * h - k * Kilo
      BY <1>2, <1>3
    <3> QED
      BY <3>1, <1>2, <1>3, <1>5
  <2> DEFINE x == h - Kilo
  <2>2. x \in Int /\ k * x < 0
    BY <2>1, <1>2, <1>3
  <2> HIDE DEF x
  <2>3. ~ (x >= 1) /\ x # 0
    BY <2>2, <1>2, ProductGrows
  <2> QED
    BY <2>2, <2>3, <1>2, <1>3 DEF x
<1> QED
  BY <1>1, <1>2, <1>3, <1>6, <1>7 DEF h, m, l, k

(* ... and the two together are eight codes.                               *)
LEMMA StampText ==
    ASSUME NEW w \in Int, NEW f \in 0..(Nano - 1)
    PROVE  /\ Stamp(w, f) \in Seq(Int) /\ Len(Stamp(w, f)) = 8
           /\ Stamp(w, f)[1] = High(w, Minute, Day) /\ Stamp(w, f)[2] = T
           /\ Stamp(w, f)[3] = Middle(w, Minute, Day) /\ Stamp(w, f)[4] = Low(w, Minute)
           /\ Stamp(w, f)[5] = Dot
           /\ Stamp(w, f)[6] = Zero + High(f, Kilo, Kilo)
           /\ Stamp(w, f)[7] = Zero + Middle(f, Kilo, Kilo)
           /\ Stamp(w, f)[8] = Zero + Low(f, Kilo)
<1>1. PICK h, m, l : /\ h = High(w, Minute, Day) /\ m = Middle(w, Minute, Day)
                     /\ l = Low(w, Minute)
  OBVIOUS
<1>2. PICK x, y, z : /\ x = Zero + High(f, Kilo, Kilo) /\ y = Zero + Middle(f, Kilo, Kilo)
                     /\ z = Zero + Low(f, Kilo)
  OBVIOUS
<1>3. h \in Int /\ m \in Int /\ l \in Int /\ Clock(w) = <<h, T, m, l>>
  BY <1>1, ClockText, Scales
<1>4. x \in Int /\ y \in Int /\ z \in Int /\ Fraction(f) = <<Dot>> \o <<x, y, z>>
  BY <1>2, FractionText, Scales DEF Zero
<1>5. T \in Int /\ Dot \in Int
  BY DEF T, Dot
<1>6. Stamp(w, f) = <<h, T, m, l>> \o (<<Dot>> \o <<x, y, z>>)
  BY <1>3, <1>4 DEF Stamp
<1> QED
  BY <1>1, <1>2, <1>3, <1>4, <1>5, <1>6, Joined

-----------------------------------------------------------------------------
(* Reading a text back.                                                    *)

(* What is left of a text that is cut.                                     *)
LEMMA Prefix ==
    ASSUME NEW s \in Seq(Int), NEW n \in Nat, n <= Len(s)
    PROVE  /\ SubSeq(s, 1, n) \in Seq(Int) /\ Len(SubSeq(s, 1, n)) = n
           /\ \A i \in 1..n : SubSeq(s, 1, n)[i] = s[i]
OBVIOUS

(* Eight codes of two texts, one by one.                                   *)
LEMMA FirstEight ==
    ASSUME NEW s, NEW u, \A i \in 1..8 : s[i] = u[i]
    PROVE  /\ s[1] = u[1] /\ s[2] = u[2] /\ s[3] = u[3] /\ s[4] = u[4]
           /\ s[5] = u[5] /\ s[6] = u[6] /\ s[7] = u[7] /\ s[8] = u[8]
OBVIOUS

(* What is read of a text whose first eight are a stamp's.                 *)
LEMMA StampRead ==
    ASSUME NEW w \in Int, NEW f \in 0..(Nano - 1), NEW s \in Seq(Int),
           Len(s) >= 8, \A i \in 1..8 : s[i] = Stamp(w, f)[i],
           Len(s) = 8 \/ (Len(s) = 10 /\ s[9] \in {Plus, Minus})
    PROVE  /\ Zoned(s) <=> Len(s) = 10
           /\ Layout(s) /\ WallClock(s) = w /\ Ticks(s) = f
<1>1. PICK h, m, l : /\ h = High(w, Minute, Day) /\ m = Middle(w, Minute, Day)
                     /\ l = Low(w, Minute)
  OBVIOUS
<1>2. PICK x, y, z : /\ x = High(f, Kilo, Kilo) /\ y = Middle(f, Kilo, Kilo)
                     /\ z = Low(f, Kilo)
  OBVIOUS
<1>3. /\ s[1] = h /\ s[2] = T /\ s[3] = m /\ s[4] = l /\ s[5] = Dot
      /\ s[6] = Zero + x /\ s[7] = Zero + y /\ s[8] = Zero + z
  <2>1. PICK u : u = Stamp(w, f)
    OBVIOUS
  <2>2. /\ s[1] = u[1] /\ s[2] = u[2] /\ s[3] = u[3] /\ s[4] = u[4]
        /\ s[5] = u[5] /\ s[6] = u[6] /\ s[7] = u[7] /\ s[8] = u[8]
    BY <2>1, FirstEight
  <2>3. /\ u[1] = h /\ u[2] = T /\ u[3] = m /\ u[4] = l /\ u[5] = Dot
        /\ u[6] = Zero + x /\ u[7] = Zero + y /\ u[8] = Zero + z
    BY <2>1, <1>1, <1>2, StampText
  <2> QED
    BY <2>2, <2>3
<1>4. /\ h \in Int /\ m \in Int /\ l \in Int
      /\ h * Day * Minute + m * Minute + l = w
  BY <1>1, ClockText, Scales
<1>5. /\ x \in 0..(Kilo - 1) /\ y \in 0..(Kilo - 1) /\ z \in 0..(Kilo - 1)
      /\ x * (Kilo * Kilo) + y * Kilo + z = f
  BY <1>2, FractionText
<1>6. Zoned(s) <=> Len(s) = 10
  <2>1. CASE Len(s) = 10
    <3>1. Len(s) >= 6 /\ Len(s) - 1 = 9
      BY <2>1
    <3> QED
      BY <3>1, <2>1 DEF Zoned
  <2>2. CASE Len(s) = 8
    <3>1. Len(s) - 1 = 7 /\ y \in Nat
      BY <2>2, <1>5, Scales
    <3>2. s[Len(s) - 1] = Zero + y
      BY <3>1, <1>3
    <3>3. PICK k : k = Zero + y
      OBVIOUS
    <3>4. k # Plus /\ k # Minus
      BY <3>1, <3>3 DEF Zero, Plus, Minus
    <3>5. s[Len(s) - 1] \notin {Plus, Minus}
      BY <3>2, <3>3, <3>4, Zenon
    <3>6. Len(s) # 10 /\ ~ Zoned(s)
      BY <3>5, <2>2 DEF Zoned
    <3> QED
      BY <3>6
  <2> QED
    BY <2>1, <2>2
<1>7. PICK b : b = Untimed(s)
  OBVIOUS
<1>8. b \in Seq(Int) /\ Len(b) = 8 /\ \A i \in 1..8 : b[i] = s[i]
  <2>1. CASE Len(s) = 10
    <3>1. b = SubSeq(s, 1, 10 - 2)
      BY <2>1, <1>6, <1>7 DEF Untimed
    <3>2. b = SubSeq(s, 1, 8) /\ 8 \in Nat /\ 8 <= Len(s)
      BY <3>1, <2>1
    <3> QED
      BY <3>2, Prefix
  <2>2. CASE Len(s) = 8
    BY <2>2, <1>6, <1>7 DEF Untimed
  <2> QED
    BY <2>1, <2>2
<1>9. Layout(s)
  <2>1. /\ b[2] = s[2] /\ b[5] = s[5]
        /\ b[6] = s[6] /\ b[7] = s[7] /\ b[8] = s[8]
    BY <1>8, FirstEight
  <2>2. \A j \in 6..Len(b) : b[j] - Zero \in 0..(Kilo - 1)
    <3> SUFFICES ASSUME NEW j \in 6..8 PROVE b[j] - Zero \in 0..(Kilo - 1)
      BY <1>8
    <3>1. j = 6 \/ j = 7 \/ j = 8
      OBVIOUS
    <3>2. b[6] = Zero + x /\ b[7] = Zero + y /\ b[8] = Zero + z
      BY <1>3, <2>1
    <3>3. /\ b[6] - Zero = x /\ b[7] - Zero = y /\ b[8] - Zero = z
      BY <3>2, <1>5, Scales DEF Zero
    <3>4. b[j] - Zero \in {x, y, z}
      BY <3>1, <3>3
    <3> QED
      BY <3>4, <1>5
  <2>3. b[2] = T /\ b[5] = Dot /\ Len(b) >= 4
    BY <2>1, <1>3, <1>8
  <2> QED
    BY <2>2, <2>3, <1>7 DEF Layout
<1>10. WallClock(s) = w
  BY <1>3, <1>4 DEF WallClock
<1>11. Ticks(s) = f
  <2>1. s[6] - Zero = x /\ s[7] - Zero = y /\ s[8] - Zero = z
    BY <1>3, <1>5, Scales DEF Zero
  <2>2. Len(Untimed(s)) >= 6 /\ Len(Untimed(s)) >= 7 /\ Len(Untimed(s)) >= 8
    BY <1>7, <1>8
  <2>3. Group(s, 6) = x /\ Group(s, 7) = y /\ Group(s, 8) = z
    BY <2>1, <2>2 DEF Group
  <2> QED
    BY <2>3, <1>5 DEF Ticks
<1> QED
  BY <1>6, <1>9, <1>10, <1>11

(* A wall clock without an offset, to the second.                          *)
LEMMA ClockRead ==
    ASSUME NEW w \in Int
    PROVE  /\ Clock(w) \in Seq(Int) /\ Len(Clock(w)) = 4
           /\ Clock(w)[4] # Z /\ ~ Zoned(Clock(w))
           /\ Layout(Clock(w)) /\ WallClock(Clock(w)) = w /\ Ticks(Clock(w)) = 0
<1>1. PICK h, m, l : /\ h = High(w, Minute, Day) /\ m = Middle(w, Minute, Day)
                     /\ l = Low(w, Minute)
  OBVIOUS
<1>2. PICK s : s = Clock(w)
  OBVIOUS
<1>3. /\ h \in Int /\ m \in Int /\ l \in 0..(Minute - 1) /\ T \in Int
      /\ s = <<h, T, m, l>> /\ h * Day * Minute + m * Minute + l = w
  BY <1>1, <1>2, ClockText, Scales DEF T
<1>4. /\ s \in Seq(Int) /\ Len(s) = 4 /\ s[1] = h /\ s[2] = T /\ s[3] = m /\ s[4] = l
  BY <1>3
<1>5. s[4] # Z
  BY <1>3, <1>4, Scales DEF Z
<1>6. ~ Zoned(s) /\ Untimed(s) = s
  BY <1>4 DEF Zoned, Untimed
<1>7. Layout(s)
  <2>1. PICK b : b = Untimed(s)
    OBVIOUS
  <2>2. b = s
    BY <2>1, <1>6, Zenon
  <2>3. Len(b) >= 4 /\ ~ (Len(b) > 4) /\ b[2] = T
    BY <2>2, <1>4
  <2> QED
    BY <2>1, <2>3 DEF Layout
<1>8. WallClock(s) = w
  BY <1>3, <1>4 DEF WallClock
<1>9. Ticks(s) = 0
  <2>1. Len(Untimed(s)) = 4
    BY <1>4, <1>6, Zenon
  <2>2. ~ (Len(Untimed(s)) >= 6) /\ ~ (Len(Untimed(s)) >= 7) /\ ~ (Len(Untimed(s)) >= 8)
    BY <2>1
  <2>3. Group(s, 6) = 0 /\ Group(s, 7) = 0 /\ Group(s, 8) = 0
    BY <2>2 DEF Group
  <2> QED
    BY <2>3, Scales DEF Ticks
<1> QED
  BY <1>2, <1>4, <1>5, <1>6, <1>7, <1>8, <1>9

(* In UTC every wall clock is one instant.                                 *)
LEMMA InUTC == ASSUME NEW w \in Int PROVE InLocation(w, UTC) = {w}
<1>1. UTC.before = 0 /\ UTC.after = 0
  BY DEF UTC
<1>2. \A s : Offset(UTC, s) = 0
  BY <1>1 DEF Offset
<1>3. {w - UTC.before, w - UTC.after} = {w}
  BY <1>1
<1>4. {s \in {w - UTC.before, w - UTC.after} : s + Offset(UTC, s) = w} = {w}
  <2>1. {s \in {w} : s + Offset(UTC, s) = w} = {w}
    BY <1>2
  <2> QED
    BY <2>1, <1>3
<1> QED
  BY <1>3, <1>4 DEF InLocation

(* A stamp with a Z is that instant, for every reader.                     *)
LEMMA ReadWithZ ==
    ASSUME NEW w \in Int, NEW f \in 0..(Nano - 1), NEW loc
    PROVE  ParseTime(Stamp(w, f) \o <<Z>>, loc) = {w * Nano + f}
<1>1. PICK u : u = Stamp(w, f)
  OBVIOUS
<1>2. PICK x : x = Stamp(w, f) \o <<Z>>
  OBVIOUS
<1>3. u \in Seq(Int) /\ Len(u) = 8 /\ u[8] = Zero + Low(f, Kilo)
  BY <1>1, StampText
<1>4. x \in Seq(Int) /\ Len(x) = 9 /\ x[9] = Z /\ \A i \in 1..8 : x[i] = u[i]
  <2>1. Z \in Int
    BY DEF Z
  <2>2. x = u \o <<Z>>
    BY <1>1, <1>2
  <2>3. /\ x \in Seq(Int) /\ Len(x) = Len(u) + 1 /\ x[Len(u) + 1] = Z
        /\ \A i \in 1..Len(u) : x[i] = u[i]
    BY <2>1, <2>2, <1>3, Ended
  <2>4. Len(u) + 1 = 9 /\ 1..Len(u) = 1..8
    BY <1>3
  <2> QED
    BY <2>3, <2>4
<1>5. ~ Zoned(x)
  <2>1. x[8] = u[8]
    <3>1. 8 \in 1..8
      OBVIOUS
    <3> QED
      BY <3>1, <1>4
  <2>2. Low(f, Kilo) \in Nat
    <3>1. Low(f, Kilo) \in 0..(Kilo - 1)
      BY FractionText
    <3> QED
      BY <3>1, Scales
  <2>3. x[8] \notin {Plus, Minus}
    BY <2>1, <2>2, <1>3 DEF Zero, Plus, Minus
  <2>4. Len(x) - 1 = 8
    BY <1>4
  <2> QED
    BY <2>3, <2>4 DEF Zoned
<1>6. PICK s : s = SubSeq(x, 1, Len(x) - 1)
  OBVIOUS
<1>7. s \in Seq(Int) /\ Len(s) = 8 /\ \A i \in 1..8 : s[i] = Stamp(w, f)[i]
  <2>1. s = SubSeq(x, 1, 8) /\ 8 \in Nat /\ 8 <= Len(x)
    BY <1>4, <1>6
  <2>2. s \in Seq(Int) /\ Len(s) = 8 /\ \A i \in 1..8 : s[i] = x[i]
    BY <2>1, <1>4, Prefix
  <2> QED
    BY <2>2, <1>1, <1>4
<1>8. ~ Zoned(s) /\ Layout(s) /\ WallClock(s) = w /\ Ticks(s) = f
  <2>1. Len(s) >= 8 /\ Len(s) # 10
    BY <1>7
  <2> QED
    BY <2>1, <1>7, StampRead
<1>9. InLocation(WallClock(s), UTC) = {w}
  BY <1>8, InUTC
<1>10. x # <<>> /\ x[Len(x)] = Z
  <2>1. Len(x) = 9 /\ x[9] = Z
    BY <1>4
  <2>2. Len(x) # 0
    BY <2>1
  <2>3. x # <<>>
    BY <2>2, EmptySeq
  <2> QED
    BY <2>1, <2>3
<1>11. ParseTime(x, loc) = {y * Nano + Ticks(s) : y \in {w}}
  BY <1>5, <1>6, <1>8, <1>9, <1>10 DEF ParseTime
<1> QED
  BY <1>2, <1>8, <1>11

(* A stamp with an offset is that instant, for every reader.               *)
LEMMA ReadWithOffset ==
    ASSUME NEW w \in Int, NEW f \in 0..(Nano - 1), NEW loc, NEW m \in Nat,
           NEW sign, NEW z,
           \/ sign = Plus /\ z = w - m * Minute
           \/ sign = Minus /\ z = w + m * Minute
    PROVE  ParseTime(Stamp(w, f) \o <<sign, m>>, loc) = {z * Nano + f}
<1>1. PICK u : u = Stamp(w, f)
  OBVIOUS
<1>2. PICK x : x = Stamp(w, f) \o <<sign, m>>
  OBVIOUS
<1>3. u \in Seq(Int) /\ Len(u) = 8
  BY <1>1, StampText
<1>4. /\ x \in Seq(Int) /\ Len(x) = 10 /\ x[9] = sign /\ x[10] = m
      /\ \A i \in 1..8 : x[i] = u[i]
  <2>1. sign \in Int /\ m \in Int
    BY DEF Plus, Minus
  <2>2. x = u \o <<sign, m>>
    BY <1>1, <1>2
  <2>3. PICK v : v = <<sign, m>>
    OBVIOUS
  <2>4. v \in Seq(Int) /\ Len(v) = 2 /\ v[1] = sign /\ v[2] = m /\ x = u \o v
    BY <2>1, <2>2, <2>3
  <2>5. /\ x \in Seq(Int) /\ Len(x) = Len(u) + Len(v)
        /\ \A i \in 1..Len(u) : x[i] = u[i]
        /\ \A i \in 1..Len(v) : x[i + Len(u)] = v[i]
    BY <2>4, <1>3, After
  <2>6. x[1 + 8] = v[1] /\ x[2 + 8] = v[2]
    <3>1. Len(u) = 8 /\ 1 \in 1..Len(v) /\ 2 \in 1..Len(v)
      BY <2>4, <1>3
    <3>2. \A i \in 1..Len(v) : x[i + 8] = v[i]
      BY <2>5, <3>1, Zenon
    <3> QED
      BY <3>1, <3>2, Zenon
  <2>7. \A i \in 1..8 : x[i] = u[i]
    BY <2>5, <1>3
  <2>8. Len(x) = 10
    <3>1. Len(v) = 2 /\ Len(x) = Len(u) + Len(v)
      BY <2>4, <2>5
    <3> QED
      BY <3>1, <1>3
  <2>9. x[9] = v[1] /\ x[10] = v[2]
    BY <2>6
  <2>10. v[1] = sign /\ v[2] = m /\ x \in Seq(Int)
    BY <2>4, <2>5
  <2> QED
    BY <2>7, <2>8, <2>9, <2>10
<1>5. Zoned(x) /\ Layout(x) /\ WallClock(x) = w /\ Ticks(x) = f
  <2>1. Len(x) >= 8 /\ Len(x) = 10 /\ x[9] \in {Plus, Minus}
    BY <1>4
  <2>2. \A i \in 1..8 : x[i] = Stamp(w, f)[i]
    BY <1>1, <1>4
  <2> QED
    BY <2>1, <2>2, <1>4, StampRead
<1>6. x[Len(x) - 1] = sign /\ x[Len(x)] = m
  BY <1>4
<1>7. PICK y : y = WallClock(x) - (IF sign = Plus THEN 1 ELSE -1) * m * Minute
  OBVIOUS
<1>8. ParseTime(x, loc) = {e * Nano + Ticks(x) : e \in {y}}
  BY <1>5, <1>6, <1>7 DEF ParseTime
<1>9. y = z
  BY <1>5, <1>7, Scales DEF Plus, Minus
<1> QED
  BY <1>2, <1>5, <1>8, <1>9

(* An offset east of UTC is taken off ...                                  *)
LEMMA ReadEast ==
    ASSUME NEW w \in Int, NEW f \in 0..(Nano - 1), NEW loc, NEW m \in Nat
    PROVE  ParseTime(Stamp(w, f) \o <<Plus, m>>, loc) = {(w - m * Minute) * Nano + f}
<1>1. PICK sign, z : sign = Plus /\ z = w - m * Minute
  OBVIOUS
<1>2. \/ sign = Plus /\ z = w - m * Minute
      \/ sign = Minus /\ z = w + m * Minute
  BY <1>1
<1>3. ParseTime(Stamp(w, f) \o <<sign, m>>, loc) = {z * Nano + f}
  BY <1>2, ReadWithOffset
<1> QED
  BY <1>1, <1>3, Zenon

(* ... and one west of it added.                                           *)
LEMMA ReadWest ==
    ASSUME NEW w \in Int, NEW f \in 0..(Nano - 1), NEW loc, NEW m \in Nat
    PROVE  ParseTime(Stamp(w, f) \o <<Minus, m>>, loc) = {(w + m * Minute) * Nano + f}
<1>1. PICK sign, z : sign = Minus /\ z = w + m * Minute
  OBVIOUS
<1>2. \/ sign = Plus /\ z = w - m * Minute
      \/ sign = Minus /\ z = w + m * Minute
  BY <1>1
<1>3. ParseTime(Stamp(w, f) \o <<sign, m>>, loc) = {z * Nano + f}
  BY <1>2, ReadWithOffset
<1> QED
  BY <1>1, <1>3, Zenon

(* A wall clock is what its location makes of it.                          *)
LEMMA ReadInLocation ==
    ASSUME NEW w \in Int, NEW loc
    PROVE  ParseTime(Clock(w), loc) = {y * Nano + 0 : y \in InLocation(w, loc)}
<1>1. PICK x : x = Clock(w)
  OBVIOUS
<1>2. /\ x \in Seq(Int) /\ Len(x) = 4 /\ x[4] # Z /\ ~ Zoned(x)
      /\ Layout(x) /\ WallClock(x) = w /\ Ticks(x) = 0
  BY <1>1, ClockRead
<1>3. x[Len(x)] # Z
  BY <1>2
<1>4. ParseTime(x, loc) = {y * Nano + Ticks(x) : y \in InLocation(WallClock(x), loc)}
  BY <1>2, <1>3 DEF ParseTime
<1> QED
  BY <1>1, <1>2, <1>4

-----------------------------------------------------------------------------
(* An instant, written and read.                                           *)

(* An instant is its second and the rest of it.                            *)
LEMMA Instant ==
    ASSUME NEW t \in Int
    PROVE  /\ t \div Nano \in Int /\ t % Nano \in 0..(Nano - 1)
           /\ (t \div Nano) * Nano + (t % Nano) = t
<1>1. Nano \in Nat \ {0}
  BY Scales
<1>2. PICK n : n = Nano
  OBVIOUS
<1>3. n \in Nat \ {0}
  BY <1>1, <1>2
<1>4. t \div n \in Int /\ t % n \in 0..(n - 1) /\ t = n * (t \div n) + (t % n)
  BY <1>3, DivMod
<1>5. n * (t \div n) = (t \div n) * n
  BY <1>3, <1>4
<1> QED
  BY <1>2, <1>4, <1>5

(* An offset of whole minutes is what its numeral says.                    *)
LEMMA WholeMinutes ==
    ASSUME NEW off \in Int, off % Minute = 0
    PROVE  /\ (off \div Minute) * Minute = off
           /\ ((-off) \div Minute) * Minute = -off
           /\ off < 0 => off <= -Minute
<1>1. PICK b \in Nat \ {0} : b = Minute
  BY Scales
<1>2. PICK q \in Int : q = off \div b
  BY DivMod
<1>3. off = b * q
  <2>1. off = b * (off \div b) + (off % b)
    BY DivMod
  <2>2. off % b = 0
    BY <1>1
  <2> QED
    BY <1>2, <2>1, <2>2
<1>4. (-off) \div b = -q
  <2>1. -off = b * (-q) + 0
    BY <1>3
  <2>2. -off \in Int /\ -q \in Int /\ 0 \in 0..(b - 1)
    OBVIOUS
  <2> QED
    BY <2>1, <2>2, DivUnique
<1>5. q * b = off /\ (-q) * b = -off
  BY <1>3
<1>6. off < 0 => off <= -b
  BY <1>3, ProductGrows
<1> QED
  BY <1>1, <1>2, <1>4, <1>5, <1>6

(* The offset of a connection's zone is a number.                          *)
LEMMA Rezoned ==
    ASSUME NEW cfg \in Configs, NEW s \in Int
    PROVE  Offset(cfg.loc, s) \in Int
<1>1. cfg.loc \in [before : Int, at : Int, after : Int]
  BY ConfigsAssumption
<1>2. cfg.loc.before \in Int /\ cfg.loc.after \in Int
  BY <1>1
<1> QED
  BY <1>2 DEF Offset

(* The text of an instant.                                                 *)
LEMMA UTCText ==
    ASSUME NEW t \in Int, NEW cfg, cfg.text = "utc"
    PROVE  FormatTime(t, cfg) = Stamp(t \div Nano, t % Nano) \o <<Z>>
BY DEF FormatTime, Stamp, Literal

(* With an offset: the clock there, and the offset.                        *)
LEMMA OffsetText ==
    ASSUME NEW t \in Int, NEW cfg, cfg.text = "offset",
           NEW off, off = Offset(cfg.loc, t \div Nano)
    PROVE  FormatTime(t, cfg) = Stamp(t \div Nano + off, t % Nano) \o Zone(off)
BY DEF FormatTime, Stamp

(* A wall clock: the clock there, and nothing else.                        *)
LEMMA DatetimeText ==
    ASSUME NEW t \in Int, NEW cfg, cfg.text = "datetime",
           NEW off, off = Offset(cfg.loc, t \div Nano)
    PROVE  FormatTime(t, cfg) = Clock(t \div Nano + off)
BY DEF FormatTime

(* An offset is a Z, or a sign and a number of minutes.                    *)
LEMMA ZoneText ==
    ASSUME NEW off \in Int
    PROVE  \/ off = 0 /\ Zone(off) = <<Z>>
           \/ \E m \in Nat : /\ off <= -Minute /\ m = (-off) \div Minute
                             /\ Zone(off) = <<Minus, m>>
           \/ \E m \in Nat : /\ off > 0 /\ m = off \div Minute
                             /\ Zone(off) = <<Plus, m>>
           \/ \E m \in Nat : /\ off < 0 /\ off > -Minute
                             /\ Zone(off) = <<Plus, m>>
<1>1. Minute \in Nat \ {0}
  BY Scales
<1>2. \A n \in Nat : n \div Minute \in Nat
  <2> SUFFICES ASSUME NEW n \in Nat PROVE n \div Minute \in Nat
    OBVIOUS
  <2>1. PICK b \in Nat \ {0} : b = Minute
    BY <1>1
  <2>2. n \div b \in Int /\ 0 \div b <= n \div b
    BY DivMod, DivMono
  <2>3. 0 \div b = 0
    <3>1. 0 = b * 0 + 0 /\ 0 \in 0..(b - 1) /\ 0 \in Int
      OBVIOUS
    <3> QED
      BY <3>1, DivUnique
  <2> QED
    BY <2>1, <2>2, <2>3
<1>3. CASE off = 0
  BY <1>3 DEF Zone
<1>4. CASE off <= -Minute
  <2>1. off # 0 /\ -off \in Nat
    BY <1>1, <1>4
  <2>2. Zone(off) = <<Minus, (-off) \div Minute>>
    BY <2>1, <1>4 DEF Zone
  <2> QED
    BY <2>1, <2>2, <1>2, <1>4
<1>5. CASE off > 0
  <2>1. off # 0 /\ off \in Nat /\ ~ (off <= -Minute) /\ ~ (off < 0)
    BY <1>1, <1>5
  <2>2. Zone(off) = <<Plus, off \div Minute>>
    BY <2>1 DEF Zone
  <2> QED
    BY <2>1, <2>2, <1>2, <1>5
<1>6. CASE off < 0 /\ off > -Minute
  <2>1. off # 0 /\ -off \in Nat /\ ~ (off <= -Minute)
    BY <1>1, <1>6
  <2>2. Zone(off) = <<Plus, (-off) \div Minute>>
    BY <2>1, <1>6 DEF Zone
  <2> QED
    BY <2>1, <2>2, <1>2, <1>6
<1> QED
  BY <1>1, <1>3, <1>4, <1>5, <1>6

(* A text in UTC is its instant for every reader.                          *)
LEMMA UTCReadsBack ==
    ASSUME NEW t \in Int, NEW cfg, cfg.text = "utc", NEW loc
    PROVE  ParseTime(FormatTime(t, cfg), loc) = {t}
<1>1. PICK s \in Int, f \in 0..(Nano - 1) : s = t \div Nano /\ f = t % Nano
  BY Instant
<1>2. s * Nano + f = t
  BY <1>1, Instant
<1>3. FormatTime(t, cfg) = Stamp(s, f) \o <<Z>>
  BY <1>1, UTCText
<1>4. ParseTime(Stamp(s, f) \o <<Z>>, loc) = {s * Nano + f}
  BY ReadWithZ
<1> QED
  BY <1>2, <1>3, <1>4, Zenon

(* So is a text with an offset of whole minutes.                           *)
LEMMA OffsetReadsBack ==
    ASSUME NEW t \in Int, NEW cfg \in Configs, cfg.text = "offset", NEW loc,
           Offset(cfg.loc, t \div Nano) % Minute = 0
    PROVE  ParseTime(FormatTime(t, cfg), loc) = {t}
<1>1. PICK s \in Int, f \in 0..(Nano - 1) : s = t \div Nano /\ f = t % Nano
  BY Instant
<1>2. s * Nano + f = t
  BY <1>1, Instant
<1>3. PICK off \in Int : off = Offset(cfg.loc, s)
  BY Rezoned
<1>4. off % Minute = 0
  BY <1>1, <1>3
<1>5. FormatTime(t, cfg) = Stamp(s + off, f) \o Zone(off)
  BY <1>1, <1>3, OffsetText
<1>6. PICK w \in Int : w = s + off
  OBVIOUS
<1>7. /\ (off \div Minute) * Minute = off
      /\ ((-off) \div Minute) * Minute = -off
      /\ off < 0 => off <= -Minute
  BY <1>4, WholeMinutes
<1>8. CASE off = 0 /\ Zone(off) = <<Z>>
  <2>1. ParseTime(Stamp(w, f) \o <<Z>>, loc) = {w * Nano + f}
    BY ReadWithZ
  <2>2. w = s
    BY <1>6, <1>8
  <2> QED
    BY <1>2, <1>5, <1>6, <1>8, <2>1, <2>2, Zenon
<1>9. ASSUME NEW m \in Nat, off <= -Minute, m = (-off) \div Minute, Zone(off) = <<Minus, m>>
      PROVE  ParseTime(FormatTime(t, cfg), loc) = {t}
  <2>1. ParseTime(Stamp(w, f) \o <<Minus, m>>, loc) = {(w + m * Minute) * Nano + f}
    BY ReadWest
  <2>2. m * Minute = -off
    BY <1>7, <1>9
  <2>3. w + m * Minute = s
    BY <2>2, <1>6
  <2> QED
    BY <1>2, <1>5, <1>6, <1>9, <2>1, <2>3, Zenon
<1>10. ASSUME NEW m \in Nat, off > 0, m = off \div Minute, Zone(off) = <<Plus, m>>
       PROVE  ParseTime(FormatTime(t, cfg), loc) = {t}
  <2>1. ParseTime(Stamp(w, f) \o <<Plus, m>>, loc) = {(w - m * Minute) * Nano + f}
    BY ReadEast
  <2>2. m * Minute = off
    BY <1>7, <1>10
  <2>3. w - m * Minute = s
    BY <2>2, <1>6
  <2> QED
    BY <1>2, <1>5, <1>6, <1>10, <2>1, <2>3, Zenon
<1>11. \/ off = 0 /\ Zone(off) = <<Z>>
       \/ \E m \in Nat : /\ off <= -Minute /\ m = (-off) \div Minute
                         /\ Zone(off) = <<Minus, m>>
       \/ \E m \in Nat : /\ off > 0 /\ m = off \div Minute
                         /\ Zone(off) = <<Plus, m>>
  <2>1. ~ (off < 0 /\ off > -Minute)
    BY <1>7, Scales
  <2> QED
    BY <2>1, ZoneText
<1> QED
  BY <1>8, <1>9, <1>10, <1>11

(* A set of at most one element, one of which is known.                    *)
LEMMA OneElement ==
    ASSUME NEW S, IsFiniteSet(S), NEW x \in S, ~ (Cardinality(S) > 1)
    PROVE  S = {x}
<1>1. Cardinality(S) \in Nat /\ IsFiniteSet({x}) /\ Cardinality({x}) = 1
  BY FS_CardinalityType, FS_Singleton
<1>2. {x} \in SUBSET S
  OBVIOUS
<1>3. Cardinality({x}) <= Cardinality(S) /\ (Cardinality(S) = Cardinality({x}) => S = {x})
  BY <1>2, FS_Subset
<1> QED
  BY <1>1, <1>3

(* A wall clock is its second where that is the only one there.            *)
LEMMA DatetimeReadsBack ==
    ASSUME NEW t \in Int, NEW cfg \in Configs, cfg.text = "datetime",
           ~ Ambiguous(t, cfg.loc)
    PROVE  ParseTime(FormatTime(t, cfg), cfg.loc) = {Floor(t, Nano)}
<1>1. PICK s \in Int : s = t \div Nano
  BY Instant
<1>2. PICK loc : loc = cfg.loc
  OBVIOUS
<1>3. PICK off \in Int : off = Offset(loc, s)
  BY <1>2, Rezoned
<1>4. PICK w \in Int : w = s + off
  OBVIOUS
<1>5. FormatTime(t, cfg) = Clock(w)
  BY <1>1, <1>2, <1>3, <1>4, DatetimeText
<1>6. loc.before \in Int /\ loc.after \in Int
  <2>1. loc \in [before : Int, at : Int, after : Int]
    BY <1>2, ConfigsAssumption
  <2> QED
    BY <2>1
<1>7. PICK both : both = {w - loc.before, w - loc.after}
  OBVIOUS
<1>8. PICK right : right = {y \in both : y + Offset(loc, y) = w}
  OBVIOUS
<1>9. s \in right
  <2>1. off = loc.before \/ off = loc.after
    BY <1>3 DEF Offset
  <2>2. s = w - off
    BY <1>4
  <2>3. s \in both
    BY <2>1, <2>2, <1>7
  <2> QED
    BY <2>3, <1>3, <1>4, <1>8
<1>10. InLocation(w, loc) = right
  <2>1. right # {}
    BY <1>9
  <2> QED
    BY <2>1, <1>7, <1>8 DEF InLocation
<1>11. IsFiniteSet(right)
  <2>1. IsFiniteSet(both)
    <3>1. both = {w - loc.before} \cup {w - loc.after}
      BY <1>7
    <3>2. IsFiniteSet({w - loc.before})
      BY FS_Singleton
    <3> QED
      BY <3>1, <3>2, FS_AddElement
  <2>2. right \in SUBSET both
    BY <1>8
  <2> QED
    BY <2>1, <2>2, FS_Subset
<1>12. ~ (Cardinality(right) > 1)
  BY <1>1, <1>2, <1>3, <1>4, <1>10 DEF Ambiguous
<1>13. InLocation(w, loc) = {s}
  BY <1>9, <1>10, <1>11, <1>12, OneElement
<1>14. ParseTime(Clock(w), loc) = {y * Nano + 0 : y \in {s}}
  BY <1>13, ReadInLocation
<1>15. {y * Nano + 0 : y \in {s}} = {s * Nano}
  <2>1. s * Nano + 0 = s * Nano
    BY Scales
  <2> QED
    BY <2>1
<1>16. Floor(t, Nano) = s * Nano
  BY <1>1 DEF Floor
<1> QED
  BY <1>2, <1>5, <1>14, <1>15, <1>16, Zenon

-----------------------------------------------------------------------------
(* Any value, written and read.                                            *)

(* An int64 that holds a number gives that number.                         *)
LEMMA Int64Holds ==
    ASSUME NEW v \in (-MaxInt - 1)..MaxInt
    PROVE  Int64(v) = v
<1>1. PICK m \in Nat : m = MaxInt
  BY ClockAssumption
<1>2. v \in Int /\ -m - 1 <= v /\ v <= m
  BY <1>1
<1>3. PICK b \in Nat \ {0} : b = 2 * (m + 1)
  OBVIOUS
<1>4. PICK r \in 0..(b - 1) : r = v + m + 1
  BY <1>2, <1>3
<1>5. r = b * 0 + r /\ r \in Int /\ 0 \in Int
  BY <1>3
<1>6. r % b = r
  BY <1>5, DivUnique
<1>7. Int64(v) = (r % b) - (m + 1)
  BY <1>1, <1>3, <1>4, <1>2 DEF Int64
<1> QED
  BY <1>2, <1>4, <1>6, <1>7

(* What DecodeValue makes of each kind of cell.                            *)
LEMMA Decoded ==
    ASSUME NEW v, NEW class, NEW cfg, NEW w
    PROVE  /\ w = [tag |-> "null", v |-> v] =>
                 DecodeValue(w, class, cfg) = {[t |-> "nil", v |-> 0]}
           /\ w = [tag |-> "int", v |-> v] =>
                 DecodeValue(w, class, cfg) = {DecodeInt(v, class, cfg)}
           /\ w = [tag |-> "text", v |-> v] =>
                 DecodeValue(w, class, cfg) = DecodeText(v, class, cfg)
           /\ w = [tag |-> "real", v |-> v] =>
                 DecodeValue(w, class, cfg) = {[t |-> "real", v |-> v]}
           /\ w = [tag |-> "blob", v |-> v] =>
                 DecodeValue(w, class, cfg) = {[t |-> "bytes", v |-> v]}
BY DEF DecodeValue

(* An integer, by the class of its column ...                              *)
LEMMA DecodedInt ==
    ASSUME NEW v, NEW cfg
    PROVE  /\ DecodeInt(v, "time", cfg) = [t |-> "time", v |-> TimeFromInteger(v, cfg.int)]
           /\ DecodeInt(v, "bool", cfg) = [t |-> "bool", v |-> NonZero(v)]
           /\ DecodeInt(v, "other", cfg) = [t |-> "int", v |-> v]
BY DEF DecodeInt

(* ... and a text.                                                         *)
LEMMA DecodedText ==
    ASSUME NEW s, NEW cfg
    PROVE  /\ DecodeText(s, "bool", cfg) = {[t |-> "string", v |-> s]}
           /\ DecodeText(s, "other", cfg) = {[t |-> "string", v |-> s]}
           /\ \A t : ParseTime(s, cfg.loc) = {t} =>
                        DecodeText(s, "time", cfg) = {[t |-> "time", v |-> t]}
BY DEF DecodeText

(* The set of one time.                                                    *)
LEMMA OneTime ==
    ASSUME NEW u
    PROVE  [t : {"time"}, v : {u}] = {[t |-> "time", v |-> u]}
<1>1. ASSUME NEW r \in [t : {"time"}, v : {u}]
      PROVE  r = [t |-> "time", v |-> u]
  <2>1. r = [t |-> r.t, v |-> r.v] /\ r.t = "time" /\ r.v = u
    OBVIOUS
  <2> QED
    BY <2>1
<1>2. [t |-> "time", v |-> u] \in [t : {"time"}, v : {u}]
  OBVIOUS
<1> QED
  BY <1>1, <1>2, Zenon

(* A time is what Kept says of it.                                         *)
LEMMA TimeReadsBack ==
    ASSUME NEW t \in Int, writer \in Configs, NEW reader \in Configs,
           Kept(t, reader) # {}
    PROVE  DecodeValue(EncodeTime(t, writer), "time", reader) =
              [t : {"time"}, v : Kept(t, reader)]
<1>1. ASSUME NEW back, Kept(t, reader) = {back},
             DecodeValue(EncodeTime(t, writer), "time", reader) = {[t |-> "time", v |-> back]}
      PROVE  DecodeValue(EncodeTime(t, writer), "time", reader) =
                [t : {"time"}, v : Kept(t, reader)]
  BY <1>1, OneTime, Zenon
<1>2. CASE writer.int # "none"
  <2>1. PICK f : f = writer.int
    OBVIOUS
  <2>2. PICK unit : unit = Nano \div PerSecond[f]
    OBVIOUS
  <2>3. PICK q : q = t \div unit
    OBVIOUS
  <2>4. /\ reader.int = f /\ q \in (-MaxInt - 1)..MaxInt
        /\ Kept(t, reader) = {Floor(t, unit)}
    BY <1>2, <2>1, <2>2, <2>3 DEF Kept
  <2>5. Int64(q) = q
    BY <2>4, Int64Holds
  <2>6. EncodeTime(t, writer) = [tag |-> "int", v |-> q]
    BY <1>2, <2>1, <2>2, <2>3, <2>5 DEF EncodeTime, IntegerFromTime
  <2>7. TimeFromInteger(q, f) = Floor(t, unit)
    BY <1>2, <2>1, <2>2, <2>3 DEF TimeFromInteger, Floor
  <2>8. DecodeValue(EncodeTime(t, writer), "time", reader) =
           {[t |-> "time", v |-> Floor(t, unit)]}
    <3>1. PICK cell : cell = [tag |-> "int", v |-> q]
      OBVIOUS
    <3>2. DecodeValue(cell, "time", reader) = {DecodeInt(q, "time", reader)}
      BY <3>1, Decoded
    <3>3. DecodeInt(q, "time", reader) = [t |-> "time", v |-> TimeFromInteger(q, f)]
      BY <2>4, DecodedInt
    <3> QED
      BY <2>6, <2>7, <3>1, <3>2, <3>3, Zenon
  <2> QED
    BY <1>1, <2>4, <2>8, Zenon
<1>3. ASSUME writer.int = "none", NEW back,
             ParseTime(FormatTime(t, writer), reader.loc) = {back}
      PROVE  DecodeValue(EncodeTime(t, writer), "time", reader) = {[t |-> "time", v |-> back]}
  <2>1. EncodeTime(t, writer) = [tag |-> "text", v |-> FormatTime(t, writer)]
    BY <1>3 DEF EncodeTime
  <2> QED
    <3>1. PICK s, loc : s = FormatTime(t, writer) /\ loc = reader.loc
      OBVIOUS
    <3>2. PICK cell : cell = [tag |-> "text", v |-> s]
      OBVIOUS
    <3>3. DecodeValue(cell, "time", reader) = DecodeText(s, "time", reader)
      BY <3>2, Decoded
    <3>4. ParseTime(s, reader.loc) = {back}
      BY <1>3, <3>1
    <3>5. DecodeText(s, "time", reader) = {[t |-> "time", v |-> back]}
      BY <3>4, DecodedText
    <3> QED
      BY <2>1, <3>1, <3>2, <3>3, <3>5, Zenon
<1>4. CASE writer.int = "none" /\ writer.text = "utc"
  <2>1. Kept(t, reader) = {t}
    BY <1>4 DEF Kept
  <2>2. ParseTime(FormatTime(t, writer), reader.loc) = {t}
    <3>1. PICK cfg, loc : cfg = writer /\ loc = reader.loc
      OBVIOUS
    <3>2. cfg.text = "utc"
      BY <1>4, <3>1
    <3>3. ParseTime(FormatTime(t, cfg), loc) = {t}
      BY <3>2, UTCReadsBack
    <3> QED
      BY <3>1, <3>3, Zenon
  <2> QED
    BY <1>1, <1>3, <1>4, <2>1, <2>2, Zenon
<1>5. CASE writer.int = "none" /\ writer.text = "offset"
  <2>1. Offset(writer.loc, t \div Nano) % Minute = 0 /\ Kept(t, reader) = {t}
    BY <1>5 DEF Kept
  <2>2. ParseTime(FormatTime(t, writer), reader.loc) = {t}
    <3>1. PICK cfg \in Configs : cfg = writer
      OBVIOUS
    <3>2. PICK loc : loc = reader.loc
      OBVIOUS
    <3>3. cfg.text = "offset" /\ Offset(cfg.loc, t \div Nano) % Minute = 0
      BY <1>5, <2>1, <3>1
    <3>4. ParseTime(FormatTime(t, cfg), loc) = {t}
      BY <3>3, OffsetReadsBack
    <3> QED
      BY <3>1, <3>2, <3>4, Zenon
  <2> QED
    BY <1>1, <1>3, <1>5, <2>1, <2>2, Zenon
<1>6. CASE writer.int = "none" /\ writer.text = "datetime"
  <2>1. /\ reader.loc = writer.loc /\ ~ Ambiguous(t, writer.loc)
        /\ Kept(t, reader) = {Floor(t, Nano)}
    BY <1>6 DEF Kept
  <2>2. ParseTime(FormatTime(t, writer), reader.loc) = {Floor(t, Nano)}
    <3>1. PICK cfg \in Configs : cfg = writer
      OBVIOUS
    <3>2. cfg.text = "datetime" /\ ~ Ambiguous(t, cfg.loc) /\ reader.loc = cfg.loc
      BY <1>6, <2>1, <3>1
    <3>3. ParseTime(FormatTime(t, cfg), cfg.loc) = {Floor(t, Nano)}
      BY <3>2, DatetimeReadsBack
    <3> QED
      BY <3>1, <3>2, <3>3, Zenon
  <2> QED
    BY <1>1, <1>3, <1>6, <2>1, <2>2, Zenon
<1>7. writer.text \in {"offset", "utc", "datetime"}
  BY ConfigsAssumption
<1> QED
  BY <1>2, <1>4, <1>5, <1>6, <1>7, Zenon

(* What CheckNamedValue and EncodeValue make of each kind of value.        *)
LEMMA Encoded ==
    ASSUME NEW x, NEW cfg, NEW w, w = EncodeValue(CheckNamedValue(x), cfg)
    PROVE  /\ x.t = "nil" \/ x = NilBytes => w = [tag |-> "null", v |-> 0]
           /\ x.t = "int" => w = [tag |-> "int", v |-> x.v]
           /\ x.t = "uint64" => w = [tag |-> "int", v |-> x.v]
           /\ x.t = "bool" => w = [tag |-> "int", v |-> IF x.v THEN 1 ELSE 0]
           /\ x.t = "real" => w = [tag |-> "real", v |-> x.v]
           /\ x.t = "string" => w = [tag |-> "text", v |-> x.v]
           /\ x.t = "time" => w = EncodeTime(x.v, cfg)
           /\ x.t = "bytes" => w = [tag |-> "blob", v |-> x.v]
           /\ x.t = "nilbytes" /\ x # NilBytes => w = [tag |-> "blob", v |-> x.v]
<1>1. NilBytes.t = "nilbytes"
  BY DEF NilBytes
<1>2. CASE x.t = "uint64"
  <2>1. CheckNamedValue(x) = [t |-> "int", v |-> x.v]
    BY <1>2 DEF CheckNamedValue
  <2>2. PICK y : y = CheckNamedValue(x)
    OBVIOUS
  <2>3. y.t = "int" /\ y.v = x.v
    BY <2>1, <2>2
  <2>4. EncodeValue(y, cfg) = [tag |-> "int", v |-> y.v]
    BY <1>1, <2>3 DEF EncodeValue
  <2> QED
    BY <1>1, <1>2, <2>2, <2>3, <2>4
<1>3. CASE x.t # "uint64"
  <2>1. CheckNamedValue(x) = x
    BY <1>3 DEF CheckNamedValue
  <2>2. w = EncodeValue(x, cfg)
    BY <2>1
  <2>3. x.t = "nil" \/ x = NilBytes => w = [tag |-> "null", v |-> 0]
    BY <1>1, <2>2 DEF EncodeValue
  <2>4. x.t = "int" => w = [tag |-> "int", v |-> x.v]
    BY <1>1, <2>2 DEF EncodeValue
  <2>5. x.t = "bool" => w = [tag |-> "int", v |-> IF x.v THEN 1 ELSE 0]
    BY <1>1, <2>2 DEF EncodeValue
  <2>6. x.t = "real" => w = [tag |-> "real", v |-> x.v]
    BY <1>1, <2>2 DEF EncodeValue
  <2>7. x.t = "string" => w = [tag |-> "text", v |-> x.v]
    BY <1>1, <2>2 DEF EncodeValue
  <2>8. x.t = "time" => w = EncodeTime(x.v, cfg)
    BY <1>1, <2>2 DEF EncodeValue
  <2>9. x.t = "bytes" => w = [tag |-> "blob", v |-> x.v]
    BY <1>1, <2>2 DEF EncodeValue
  <2>10. x.t = "nilbytes" /\ x # NilBytes => w = [tag |-> "blob", v |-> x.v]
    BY <1>1, <2>2 DEF EncodeValue
  <2> QED
    BY <1>3, <2>3, <2>4, <2>5, <2>6, <2>7, <2>8, <2>9, <2>10, Zenon
<1> QED
  BY <1>2, <1>3

(* A cell is a time only in a time column.                                 *)
LEMMA NoTime ==
    ASSUME NEW w, w.tag \in {"null", "int", "text", "real", "blob"},
           NEW class \in {"bool", "other"}, NEW cfg
    PROVE  \A y \in DecodeValue(w, class, cfg) : y.t # "time"
<1>1. PICK v : v = w.v
  OBVIOUS
<1>2. DecodeInt(v, class, cfg).t # "time"
  BY DEF DecodeInt
<1>3. \A y \in DecodeText(v, class, cfg) : y.t # "time"
  BY DEF DecodeText
<1> QED
  BY <1>1, <1>2, <1>3 DEF DecodeValue

(* The tags of the cells.                                                  *)
LEMMA Tags ==
    ASSUME NEW x \in Bindable, NEW cfg, NEW w, w = EncodeValue(CheckNamedValue(x), cfg)
    PROVE  w.tag \in {"null", "int", "text", "real", "blob"}
<1>1. x.t \in {"nil", "nilbytes", "bytes", "bool", "int", "uint64", "real", "string", "time"}
  BY OthersAssumption DEF Bindable
<1>2. EncodeTime(x.v, cfg).tag \in {"int", "text"}
  BY DEF EncodeTime
<1> QED
  BY <1>1, <1>2, Encoded

(* Every other value is itself.                                            *)
LEMMA OthersReadBack ==
    ASSUME NEW x \in Others, NEW cfg, NEW w, w = EncodeValue(CheckNamedValue(x), cfg),
           NEW class \in {"time", "bool", "other"}, NEW reader,
           NEW back, back = DecodeValue(w, class, reader)
    PROVE  /\ x.t = "nil" \/ x = NilBytes => back = {[t |-> "nil", v |-> 0]}
           /\ x.t = "bool" /\ class = "bool" => back = {x}
           /\ x.t \in {"int", "uint64"} /\ class = "bool" =>
                 back = {[t |-> "bool", v |-> x.v # 0]}
           /\ x.t \in {"int", "uint64"} /\ class = "other" =>
                 back = {[t |-> "int", v |-> x.v]}
           /\ \/ x.t \in {"bytes", "real"}
              \/ x.t = "string" /\ class # "time"
              => back = {x}
<1>1. x = [t |-> x.t, v |-> x.v] /\ (x.t = "bool" => x.v \in BOOLEAN)
  BY OthersAssumption
<1>2. PICK v : v = x.v
  OBVIOUS
<1>3. x.t = "nil" \/ x = NilBytes => back = {[t |-> "nil", v |-> 0]}
  BY Encoded, Decoded
<1>4. ASSUME x.t = "bool", class = "bool" PROVE back = {x}
  <2>1. PICK n : n = IF x.v THEN 1 ELSE 0
    OBVIOUS
  <2>2. w = [tag |-> "int", v |-> n]
    BY <1>4, <2>1, Encoded
  <2>3. back = {[t |-> "bool", v |-> NonZero(n)]}
    BY <1>4, <2>2, Decoded, DecodedInt
  <2>4. NonZero(n) = v
    <3>1. ASSUME x.v = TRUE PROVE NonZero(n) = v
      <4>1. n = 1
        BY <2>1, <3>1
      <4>2. (n # 0) = TRUE
        BY <4>1
      <4> QED
        BY <1>2, <3>1, <4>2, Zenon DEF NonZero
    <3>2. ASSUME x.v = FALSE PROVE NonZero(n) = v
      <4>1. n = 0
        BY <2>1, <3>2
      <4>2. (n # 0) = FALSE
        BY <4>1
      <4> QED
        BY <1>2, <3>2, <4>2, Zenon DEF NonZero
    <3> QED
      BY <1>1, <1>4, <3>1, <3>2, Zenon
  <2> QED
    BY <1>1, <1>2, <1>4, <2>3, <2>4
<1>5. ASSUME x.t \in {"int", "uint64"} PROVE w = [tag |-> "int", v |-> v]
  BY <1>2, <1>5, Encoded
<1>6. ASSUME x.t \in {"int", "uint64"}, class = "bool"
      PROVE  back = {[t |-> "bool", v |-> x.v # 0]}
  <2>1. back = {[t |-> "bool", v |-> NonZero(v)]}
    BY <1>5, <1>6, Decoded, DecodedInt
  <2> QED
    BY <1>2, <2>1 DEF NonZero
<1>7. ASSUME x.t \in {"int", "uint64"}, class = "other"
      PROVE  back = {[t |-> "int", v |-> x.v]}
  BY <1>2, <1>5, <1>7, Decoded, DecodedInt
<1>8. ASSUME x.t = "bytes" PROVE back = {x}
  <2>1. w = [tag |-> "blob", v |-> v]
    BY <1>2, <1>8, Encoded
  <2>2. back = {[t |-> "bytes", v |-> v]}
    BY <2>1, Decoded
  <2> QED
    BY <1>1, <1>2, <1>8, <2>2
<1>9. ASSUME x.t = "real" PROVE back = {x}
  <2>1. w = [tag |-> "real", v |-> v]
    BY <1>2, <1>9, Encoded
  <2>2. back = {[t |-> "real", v |-> v]}
    BY <2>1, Decoded
  <2> QED
    BY <1>1, <1>2, <1>9, <2>2
<1>10. ASSUME x.t = "string", class # "time" PROVE back = {x}
  <2>1. w = [tag |-> "text", v |-> v]
    BY <1>2, <1>10, Encoded
  <2>2. back = DecodeText(v, class, reader)
    BY <2>1, Decoded
  <2>3. class = "bool" \/ class = "other"
    BY <1>10
  <2>4. back = {[t |-> "string", v |-> v]}
    BY <2>2, <2>3, DecodedText
  <2> QED
    BY <1>1, <1>2, <1>10, <2>4
<1> QED
  BY <1>3, <1>4, <1>6, <1>7, <1>8, <1>9, <1>10

-----------------------------------------------------------------------------
(* The order of texts.                                                     *)

(* Of two texts the one that is less where they first differ is before     *)
(* the other.                                                              *)
LEMMA BeforeAt ==
    ASSUME NEW a, NEW b, Len(a) \in Nat, Len(b) \in Nat, Len(a) >= 8, Len(b) >= 8,
           NEW n \in 1..8, \A i \in 1..8 : i < n => a[i] = b[i], a[n] < b[n]
    PROVE  Before(a, b)
<1>1. n \in 1..Len(b) /\ n <= Len(a) + 1
  OBVIOUS
<1>2. ASSUME NEW i \in 1..(n - 1) PROVE a[i] = b[i]
  <2>1. i \in 1..8 /\ i < n
    OBVIOUS
  <2> QED
    BY <2>1
<1>3. n <= Len(a) => a[n] < b[n]
  OBVIOUS
<1> QED
  BY <1>1, <1>2, <1>3, Zenon DEF Before

(* Two stamps differ first in a numeral.                                   *)
LEMMA EightSort ==
    ASSUME NEW a, NEW b, Len(a) \in Nat, Len(b) \in Nat, Len(a) >= 8, Len(b) >= 8,
           a[2] = b[2], a[5] = b[5],
           \/ a[1] < b[1]
           \/ a[1] = b[1] /\ a[3] < b[3]
           \/ a[1] = b[1] /\ a[3] = b[3] /\ a[4] < b[4]
           \/ /\ a[1] = b[1] /\ a[3] = b[3] /\ a[4] = b[4]
              /\ \/ a[6] < b[6]
                 \/ a[6] = b[6] /\ a[7] < b[7]
                 \/ a[6] = b[6] /\ a[7] = b[7] /\ a[8] < b[8]
    PROVE  Before(a, b)
<1>1. PICK n \in 1..8 : /\ a[n] < b[n]
                        /\ 1 < n => a[1] = b[1]
                        /\ 3 < n => a[3] = b[3]
                        /\ 4 < n => a[4] = b[4]
                        /\ 6 < n => a[6] = b[6]
                        /\ 7 < n => a[7] = b[7]
                        /\ n <= 8
  <2>1. CASE a[1] < b[1]
    BY <2>1
  <2>2. CASE a[1] = b[1] /\ a[3] < b[3]
    BY <2>2
  <2>3. CASE a[1] = b[1] /\ a[3] = b[3] /\ a[4] < b[4]
    BY <2>3
  <2>4. CASE a[1] = b[1] /\ a[3] = b[3] /\ a[4] = b[4] /\ a[6] < b[6]
    BY <2>4
  <2>5. CASE a[1] = b[1] /\ a[3] = b[3] /\ a[4] = b[4] /\ a[6] = b[6] /\ a[7] < b[7]
    BY <2>5
  <2>6. CASE /\ a[1] = b[1] /\ a[3] = b[3] /\ a[4] = b[4] /\ a[6] = b[6]
             /\ a[7] = b[7] /\ a[8] < b[8]
    BY <2>6
  <2> QED
    BY <2>1, <2>2, <2>3, <2>4, <2>5, <2>6
<1>2. \A i \in 1..8 : i < n => a[i] = b[i]
  BY <1>1
<1> QED
  BY <1>1, <1>2, BeforeAt

(* The numerals of a fraction are numbers.                                 *)
LEMMA FractionNumbers ==
    ASSUME NEW f \in 0..(Nano - 1)
    PROVE  /\ High(f, Kilo, Kilo) \in Int /\ Middle(f, Kilo, Kilo) \in Int
           /\ Low(f, Kilo) \in Int
<1>1. 0..(Kilo - 1) \subseteq Int
  BY Scales
<1> QED
  BY <1>1, FractionText

(* The texts of two instants with ends of their own.                       *)
LEMMA StampsSort ==
    ASSUME NEW v \in Int, NEW w \in Int, NEW f \in 0..(Nano - 1), NEW g \in 0..(Nano - 1),
           v < w \/ (v = w /\ f < g),
           NEW a, NEW b, Len(a) \in Nat, Len(b) \in Nat, Len(a) >= 8, Len(b) >= 8,
           \A i \in 1..8 : a[i] = Stamp(v, f)[i],
           \A i \in 1..8 : b[i] = Stamp(w, g)[i]
    PROVE  Before(a, b)
<1>1. PICK h, m, l : /\ h = High(v, Minute, Day) /\ m = Middle(v, Minute, Day)
                     /\ l = Low(v, Minute)
  OBVIOUS
<1>2. PICK hh, mm, ll : /\ hh = High(w, Minute, Day) /\ mm = Middle(w, Minute, Day)
                        /\ ll = Low(w, Minute)
  OBVIOUS
<1>3. PICK p, q, r : /\ p = High(f, Kilo, Kilo) /\ q = Middle(f, Kilo, Kilo)
                     /\ r = Low(f, Kilo)
  OBVIOUS
<1>4. PICK pp, qq, rr : /\ pp = High(g, Kilo, Kilo) /\ qq = Middle(g, Kilo, Kilo)
                        /\ rr = Low(g, Kilo)
  OBVIOUS
<1>5. /\ a[1] = h /\ a[2] = T /\ a[3] = m /\ a[4] = l /\ a[5] = Dot
      /\ a[6] = Zero + p /\ a[7] = Zero + q /\ a[8] = Zero + r
  <2>1. PICK u : u = Stamp(v, f)
    OBVIOUS
  <2>2. \A i \in 1..8 : a[i] = u[i]
    BY <2>1
  <2>3. /\ a[1] = u[1] /\ a[2] = u[2] /\ a[3] = u[3] /\ a[4] = u[4]
        /\ a[5] = u[5] /\ a[6] = u[6] /\ a[7] = u[7] /\ a[8] = u[8]
    BY <2>2, FirstEight
  <2> QED
    BY <1>1, <1>3, <2>1, <2>3, StampText
<1>6. /\ b[1] = hh /\ b[2] = T /\ b[3] = mm /\ b[4] = ll /\ b[5] = Dot
      /\ b[6] = Zero + pp /\ b[7] = Zero + qq /\ b[8] = Zero + rr
  <2>1. PICK u : u = Stamp(w, g)
    OBVIOUS
  <2>2. \A i \in 1..8 : b[i] = u[i]
    BY <2>1
  <2>3. /\ b[1] = u[1] /\ b[2] = u[2] /\ b[3] = u[3] /\ b[4] = u[4]
        /\ b[5] = u[5] /\ b[6] = u[6] /\ b[7] = u[7] /\ b[8] = u[8]
    BY <2>2, FirstEight
  <2> QED
    BY <1>2, <1>4, <2>1, <2>3, StampText
<1>7. /\ p \in Int /\ q \in Int /\ r \in Int /\ pp \in Int /\ qq \in Int /\ rr \in Int
  BY <1>3, <1>4, FractionNumbers, Zenon
<1>8. ASSUME v < w
      PROVE  h < hh \/ (h = hh /\ (m < mm \/ (m = mm /\ l < ll)))
  BY <1>1, <1>2, <1>8, Scales, NumeralsSort
<1>9. ASSUME v = w, f < g
      PROVE  /\ h = hh /\ m = mm /\ l = ll
             /\ p < pp \/ (p = pp /\ (q < qq \/ (q = qq /\ r < rr)))
  <2>1. f \in Int /\ g \in Int
    BY Scales
  <2>2. p < pp \/ (p = pp /\ (q < qq \/ (q = qq /\ r < rr)))
    BY <1>3, <1>4, <1>9, <2>1, Scales, NumeralsSort
  <2> QED
    BY <1>1, <1>2, <1>9, <2>2
<1>10. CASE v < w
  <2>1. CASE h < hh
    BY <1>5, <1>6, <2>1, EightSort
  <2>2. CASE h = hh /\ m < mm
    BY <1>5, <1>6, <2>2, EightSort
  <2>3. CASE h = hh /\ m = mm /\ l < ll
    BY <1>5, <1>6, <2>3, EightSort
  <2> QED
    BY <1>8, <1>10, <2>1, <2>2, <2>3
<1>11. CASE v = w /\ f < g
  <2>1. a[1] = b[1] /\ a[3] = b[3] /\ a[4] = b[4]
    BY <1>5, <1>6, <1>9, <1>11
  <2>2. CASE p < pp
    <3>1. a[6] < b[6]
      BY <1>5, <1>6, <1>7, <2>2 DEF Zero
    <3> QED
      BY <1>5, <1>6, <2>1, <3>1, EightSort
  <2>3. CASE p = pp /\ q < qq
    <3>1. a[7] < b[7] /\ a[6] = b[6]
      BY <1>5, <1>6, <1>7, <2>3 DEF Zero
    <3> QED
      BY <1>5, <1>6, <2>1, <3>1, EightSort
  <2>4. CASE p = pp /\ q = qq /\ r < rr
    <3>1. a[8] < b[8] /\ a[6] = b[6] /\ a[7] = b[7]
      BY <1>5, <1>6, <1>7, <2>4 DEF Zero
    <3> QED
      BY <1>5, <1>6, <2>1, <3>1, EightSort
  <2> QED
    BY <1>9, <1>11, <2>2, <2>3, <2>4
<1> QED
  BY <1>10, <1>11

(* A text that starts with the eight codes of a stamp.                     *)
Starts(x, u) == Len(x) \in Nat /\ Len(x) >= 8 /\ \A i \in 1..8 : x[i] = u[i]

(* A stamp is first in what is written after it.                           *)
LEMMA StampFirst ==
    ASSUME NEW w \in Int, NEW f \in 0..(Nano - 1), NEW z \in Seq(Int),
           NEW x, x = Stamp(w, f) \o z
    PROVE  Starts(x, Stamp(w, f))
<1>1. PICK u : u = Stamp(w, f)
  OBVIOUS
<1>2. u \in Seq(Int) /\ Len(u) = 8
  BY <1>1, StampText
<1>3. x = u \o z
  BY <1>1
<1>4. /\ x \in Seq(Int) /\ Len(x) = Len(u) + Len(z) /\ Len(z) \in Nat
      /\ \A i \in 1..Len(u) : x[i] = u[i]
  <2>1. /\ u \o z \in Seq(Int) /\ Len(u \o z) = Len(u) + Len(z) /\ Len(z) \in Nat
        /\ \A i \in 1..Len(u) : (u \o z)[i] = u[i]
    BY <1>2, After
  <2> QED
    BY <1>3, <2>1, Zenon
<1>5. Len(x) \in Nat /\ Len(x) >= 8
  BY <1>2, <1>4
<1>6. \A i \in 1..8 : x[i] = u[i]
  BY <1>2, <1>4, Zenon
<1>7. Starts(x, u)
  BY <1>5, <1>6, Zenon DEF Starts
<1> QED
  BY <1>1, <1>7, Zenon

(* The texts of two instants sort as they do: in UTC, and with an offset   *)
(* where both have the same.                                               *)
LEMMA TextsSort ==
    ASSUME NEW t \in Int, NEW u \in Int, t < u, NEW cfg \in Configs,
           \/ cfg.text = "utc"
           \/ /\ cfg.text = "offset"
              /\ Offset(cfg.loc, t \div Nano) = Offset(cfg.loc, u \div Nano)
    PROVE  Before(FormatTime(t, cfg), FormatTime(u, cfg))
<1>1. PICK s \in Int, f \in 0..(Nano - 1) : s = t \div Nano /\ f = t % Nano
  BY Instant
<1>2. PICK v \in Int, g \in 0..(Nano - 1) : v = u \div Nano /\ g = u % Nano
  BY Instant
<1>3. s < v \/ (s = v /\ f < g)
  <2>1. PICK n \in Nat \ {0} : n = Nano
    BY Scales
  <2>2. t \div n < u \div n \/ (t \div n = u \div n /\ t % n < u % n)
    BY RemainderLess
  <2> QED
    BY <1>1, <1>2, <2>1, <2>2, Zenon
<1>4. ASSUME NEW off \in Int, NEW z \in Seq(Int),
             FormatTime(t, cfg) = Stamp(s + off, f) \o z,
             FormatTime(u, cfg) = Stamp(v + off, g) \o z
      PROVE  Before(FormatTime(t, cfg), FormatTime(u, cfg))
  <2>1. PICK p \in Int, q \in Int : p = s + off /\ q = v + off
    OBVIOUS
  <2>2. PICK a, b : a = FormatTime(t, cfg) /\ b = FormatTime(u, cfg)
    OBVIOUS
  <2>3. /\ a = Stamp(p, f) \o z
        /\ b = Stamp(q, g) \o z
    BY <1>4, <2>1, <2>2, Zenon
  <2>4. /\ Len(a) \in Nat /\ Len(a) >= 8 /\ \A i \in 1..8 : a[i] = Stamp(p, f)[i]
    <3>1. a = Stamp(p, f) \o z
      BY <2>3
    <3>2. Starts(a, Stamp(p, f))
      BY <3>1, StampFirst
    <3> QED
      BY <3>2, Zenon DEF Starts
  <2>5. /\ Len(b) \in Nat /\ Len(b) >= 8 /\ \A i \in 1..8 : b[i] = Stamp(q, g)[i]
    <3>1. b = Stamp(q, g) \o z
      BY <2>3
    <3>2. Starts(b, Stamp(q, g))
      BY <3>1, StampFirst
    <3> QED
      BY <3>2, Zenon DEF Starts
  <2>6. p < q \/ (p = q /\ f < g)
    BY <1>3, <2>1
  <2>7. Before(a, b)
    BY <2>4, <2>5, <2>6, StampsSort
  <2> QED
    BY <2>2, <2>7, Zenon
<1>5. CASE cfg.text = "utc"
  <2>1. PICK z \in Seq(Int) : z = <<Z>>
    <3>1. Z \in Int
      BY DEF Z
    <3>2. <<Z>> \in Seq(Int)
      BY <3>1
    <3> QED
      BY <3>2, Zenon
  <2>2. PICK zero \in Int : s + zero = s /\ v + zero = v
    <3>1. s + 0 = s /\ v + 0 = v /\ 0 \in Int
      OBVIOUS
    <3> QED
      BY <3>1, Zenon
  <2>3. FormatTime(t, cfg) = Stamp(s, f) \o z /\ FormatTime(u, cfg) = Stamp(v, g) \o z
    BY <1>1, <1>2, <1>5, <2>1, UTCText
  <2>4. /\ FormatTime(t, cfg) = Stamp(s + zero, f) \o z
        /\ FormatTime(u, cfg) = Stamp(v + zero, g) \o z
    BY <2>2, <2>3, Zenon
  <2> QED
    BY <1>4, <2>4
<1>6. CASE /\ cfg.text = "offset"
           /\ Offset(cfg.loc, t \div Nano) = Offset(cfg.loc, u \div Nano)
  <2>1. PICK off \in Int : off = Offset(cfg.loc, s)
    BY Rezoned
  <2>2. PICK z \in Seq(Int) : z = Zone(off)
    <3>1. Z \in Int /\ Plus \in Int /\ Minus \in Int
      BY DEF Z, Plus, Minus
    <3>2. <<Z>> \in Seq(Int)
      BY <3>1
    <3>3. \A m \in Nat : <<Plus, m>> \in Seq(Int) /\ <<Minus, m>> \in Seq(Int)
      BY <3>1
    <3>4. Zone(off) \in Seq(Int)
      BY <3>2, <3>3, ZoneText, Zenon
    <3> QED
      BY <3>4, Zenon
  <2>3. off = Offset(cfg.loc, t \div Nano) /\ off = Offset(cfg.loc, u \div Nano)
    BY <1>1, <1>6, <2>1
  <2>4. /\ FormatTime(t, cfg) = Stamp(s + off, f) \o z
        /\ FormatTime(u, cfg) = Stamp(v + off, g) \o z
    BY <1>1, <1>2, <1>6, <2>2, <2>3, OffsetText
  <2> QED
    BY <1>4, <2>4
<1> QED
  BY <1>5, <1>6

-----------------------------------------------------------------------------
(* The column.                                                             *)

Cells == [x : Bindable,
          w : {EncodeValue(CheckNamedValue(x), cfg) : x \in Bindable, cfg \in Configs}]

(* Every cell is what its value was encoded to by the one connection that  *)
(* writes the column, and there is none before the column is declared.     *)
ColumnInv ==
    /\ column \in Seq(Cells)
    /\ \A i \in DOMAIN column :
          column[i].w = EncodeValue(CheckNamedValue(column[i].x), writer)
    /\ decl = Undeclared => column = <<>>
    /\ decl # Undeclared => writer \in Configs

(* The invariant holds in every state of every instance.                   *)
THEOREM ColumnInvariant == ColumnInit /\ [][ColumnNext]_columnVars => []ColumnInv
<1>1. ColumnInit => ColumnInv
  BY DEF ColumnInit, ColumnInv
<1>2. ColumnInv /\ [ColumnNext]_columnVars => ColumnInv'
  <2> SUFFICES ASSUME ColumnInv, [ColumnNext]_columnVars PROVE ColumnInv'
    OBVIOUS
  <2>1. ASSUME decl = Undeclared, NEW d \in DeclTypes, NEW cfg \in Configs, Declare(d, cfg)
        PROVE  ColumnInv'
    BY <2>1 DEF ColumnInv, Declare
  <2>2. ASSUME NEW x \in Bindable, Insert(x)
        PROVE  ColumnInv'
    <3>1. writer \in Configs /\ column \in Seq(Cells) /\ decl' = decl /\ writer' = writer
      BY <2>2 DEF ColumnInv, Insert
    <3>2. PICK w : w = EncodeValue(CheckNamedValue(x), writer)
      OBVIOUS
    <3>3. PICK cell : cell = [x |-> x, w |-> w]
      OBVIOUS
    <3>4. cell \in Cells /\ cell.x = x /\ cell.w = w
      BY <3>1, <3>2, <3>3 DEF Cells
    <3>5. column' = Append(column, cell)
      BY <2>2, <3>2, <3>3 DEF Insert
    <3>6. /\ column' \in Seq(Cells) /\ DOMAIN column' = 1..(Len(column) + 1)
          /\ column'[Len(column) + 1] = cell
          /\ \A i \in 1..Len(column) : column'[i] = column[i]
      BY <3>1, <3>4, <3>5
    <3>7. ASSUME NEW i \in DOMAIN column'
          PROVE  column'[i].w = EncodeValue(CheckNamedValue(column'[i].x), writer')
      <4>1. CASE i = Len(column) + 1
        BY <3>1, <3>2, <3>4, <3>6, <4>1
      <4>2. CASE i \in DOMAIN column
        <5>1. column[i].w = EncodeValue(CheckNamedValue(column[i].x), writer)
          BY <4>2 DEF ColumnInv
        <5>2. column'[i] = column[i]
          BY <3>1, <3>6, <4>2
        <5> QED
          BY <3>1, <5>1, <5>2, Zenon
      <4> QED
        BY <3>1, <3>6, <4>1, <4>2
    <3>8. decl # Undeclared
      BY <2>2 DEF Insert
    <3> QED
      BY <3>1, <3>6, <3>7, <3>8 DEF ColumnInv
  <2>3. CASE UNCHANGED columnVars
    BY <2>3 DEF ColumnInv, columnVars
  <2> QED
    BY <2>1, <2>2, <2>3 DEF ColumnNext
<1> QED
  BY <1>1, <1>2, PTL

(* A cell of a column.                                                     *)
LEMMA Cell ==
    ASSUME ColumnInv, NEW i \in DOMAIN column
    PROVE  /\ writer \in Configs /\ column[i].x \in Bindable
           /\ column[i].w = EncodeValue(CheckNamedValue(column[i].x), writer)
<1>1. column \in Seq(Cells) /\ column # <<>>
  BY DEF ColumnInv
<1>2. column[i] \in Cells
  BY <1>1
<1>3. column[i].x \in Bindable
  BY <1>2 DEF Cells
<1> QED
  BY <1>1, <1>3 DEF ColumnInv

(* A time that is bound is an instant, and no other value is a time.       *)
LEMMA Bound ==
    ASSUME NEW x \in Bindable
    PROVE  IF x.t = "time" THEN x.v \in Int ELSE x \in Others
<1>1. \A y \in Others : y.t # "time"
  BY OthersAssumption
<1>2. Instants \subseteq Int
  BY ClockAssumption
<1> QED
  BY <1>1, <1>2 DEF Bindable

(* TimesSort: the texts of two times in a column sort as the instants do,  *)
(* in UTC and where both have the same offset, whatever their fractions.   *)
THEOREM TimesSorted == ColumnInit /\ [][ColumnNext]_columnVars => []TimesSort
<1>1. ColumnInv => TimesSort
  <2> SUFFICES ASSUME ColumnInv, NEW i \in DOMAIN column, NEW j \in DOMAIN column,
                      column[i].x.t = "time", column[j].x.t = "time", writer.int = "none",
                      column[i].x.v < column[j].x.v,
                      \/ writer.text = "utc"
                      \/ /\ writer.text = "offset"
                         /\ Offset(writer.loc, column[i].x.v \div Nano) =
                               Offset(writer.loc, column[j].x.v \div Nano)
               PROVE  Before(column[i].w.v, column[j].w.v)
    BY Zenon DEF TimesSort
  <2>1. PICK cfg \in Configs : cfg = writer
    BY Cell
  <2>2. ASSUME NEW k \in DOMAIN column, column[k].x.t = "time"
        PROVE  column[k].x.v \in Int /\ column[k].w.v = FormatTime(column[k].x.v, cfg)
    <3>1. PICK x \in Bindable : x = column[k].x
      BY Cell
    <3>2. PICK w : w = column[k].w
      OBVIOUS
    <3>3. w = EncodeValue(CheckNamedValue(x), cfg) /\ x.t = "time"
      BY <2>1, <2>2, <3>1, <3>2, Cell
    <3>4. w = EncodeTime(x.v, cfg) /\ x.v \in Int
      BY <3>3, Encoded, Bound
    <3>5. w.v = FormatTime(x.v, cfg)
      BY <2>1, <3>4 DEF EncodeTime
    <3> QED
      BY <3>1, <3>2, <3>4, <3>5, Zenon
  <2>3. PICK t \in Int, u \in Int : t = column[i].x.v /\ u = column[j].x.v
    BY <2>2
  <2>4. Before(FormatTime(t, cfg), FormatTime(u, cfg))
    <3>1. t < u
      BY <2>3
    <3>2. \/ cfg.text = "utc"
          \/ /\ cfg.text = "offset"
             /\ Offset(cfg.loc, t \div Nano) = Offset(cfg.loc, u \div Nano)
      BY <2>1, <2>3, Zenon
    <3> QED
      BY <3>1, <3>2, TextsSort
  <2>5. column[i].w.v = FormatTime(t, cfg) /\ column[j].w.v = FormatTime(u, cfg)
    BY <2>2, <2>3, Zenon
  <2> QED
    BY <2>4, <2>5, Zenon
<1> QED
  BY <1>1, ColumnInvariant, PTL

(* What a value of the column reads back as, ValuesReadBack for one cell.  *)
ReadsAs(x, class, reader, back) ==
    CASE x.t = "time" /\ class = "time" ->
            Kept(x.v, reader) = {} \/ back = [t : {"time"}, v : Kept(x.v, reader)]
      [] x.t = "nil" \/ x = NilBytes -> back = {[t |-> "nil", v |-> 0]}
      [] x.t = "bool" /\ class = "bool" -> back = {x}
      [] x.t \in {"int", "uint64"} /\ class # "time" ->
            back = {IF class = "bool" THEN [t |-> "bool", v |-> x.v # 0]
                                      ELSE [t |-> "int", v |-> x.v]}
      [] x.t \in {"bytes", "real"} \/ (x.t = "string" /\ class # "time") -> back = {x}
      [] OTHER -> class = "time" \/ \A y \in back : y.t # "time"

(* ValuesReadBack: a time is the same instant, to the precision of what    *)
(* was stored, for every reader whose configuration can tell, and every    *)
(* other value is itself.                                                  *)
THEOREM CellsReadBack == ColumnInit /\ [][ColumnNext]_columnVars => []ValuesReadBack
<1>1. ColumnInv => ValuesReadBack
  <2> SUFFICES ASSUME ColumnInv, column # <<>> PROVE ValuesReadBack
    BY DEF ValuesReadBack
  <2>1. Len(column) \in DOMAIN column
    BY DEF ColumnInv
  <2>2. PICK x \in Bindable : x = column[Len(column)].x
    BY <2>1, Cell
  <2>3. PICK w : w = column[Len(column)].w
    OBVIOUS
  <2>4. PICK cfg \in Configs : cfg = writer
    BY <2>1, Cell
  <2>5. w = EncodeValue(CheckNamedValue(x), cfg)
    BY <2>1, <2>2, <2>3, <2>4, Cell
  <2>6. PICK class \in {"time", "bool", "other"} : class = Class(Normalize(decl))
    BY DEF Class
  <2>7. ASSUME NEW reader \in Configs, NEW back, back = DecodeValue(w, class, reader)
        PROVE  ReadsAs(x, class, reader, back)
    <3>1. NilBytes.t = "nilbytes"
      BY DEF NilBytes
    <3>2. class # "time" => \A y \in back : y.t # "time"
      BY <2>5, <2>7, Tags, NoTime
    <3>3. CASE x.t = "time"
      <4>1. x # NilBytes
        BY <3>1, <3>3
      <4>2. w = EncodeTime(x.v, writer) /\ x.v \in Int
        BY <2>4, <2>5, <3>3, Encoded, Bound
      <4>3. class = "time" => \/ Kept(x.v, reader) = {}
                              \/ back = [t : {"time"}, v : Kept(x.v, reader)]
        <5> SUFFICES ASSUME class = "time", Kept(x.v, reader) # {}
                     PROVE  back = [t : {"time"}, v : Kept(x.v, reader)]
          OBVIOUS
        <5>1. PICK t \in Int : t = x.v
          BY <4>2
        <5>2. writer \in Configs /\ Kept(t, reader) # {}
          BY <2>4, <5>1
        <5>3. DecodeValue(EncodeTime(t, writer), "time", reader) =
                 [t : {"time"}, v : Kept(t, reader)]
          BY <5>2, TimeReadsBack
        <5> QED
          BY <2>7, <4>2, <5>1, <5>3
      <4> QED
        BY <3>2, <3>3, <4>1, <4>3 DEF ReadsAs
    <3>4. CASE x.t # "time"
      <4>1. x \in Others
        BY <3>4, Bound
      <4>2. /\ x.t = "nil" \/ x = NilBytes => back = {[t |-> "nil", v |-> 0]}
            /\ x.t = "bool" /\ class = "bool" => back = {x}
            /\ x.t \in {"int", "uint64"} /\ class = "bool" =>
                  back = {[t |-> "bool", v |-> x.v # 0]}
            /\ x.t \in {"int", "uint64"} /\ class = "other" =>
                  back = {[t |-> "int", v |-> x.v]}
            /\ \/ x.t \in {"bytes", "real"}
               \/ x.t = "string" /\ class # "time"
               => back = {x}
        BY <2>5, <2>7, <4>1, OthersReadBack
      <4> QED
        BY <3>1, <3>2, <3>4, <4>2 DEF ReadsAs
    <3> QED
      BY <3>3, <3>4
  <2>8. ASSUME NEW reader \in Configs
        PROVE  ReadsAs(column[Len(column)].x, Class(Normalize(decl)), reader,
                       DecodeValue(column[Len(column)].w, Class(Normalize(decl)), reader))
    <3>1. ReadsAs(x, class, reader, DecodeValue(w, class, reader))
      BY <2>7
    <3> QED
      BY <3>1, <2>2, <2>3, <2>6, Zenon
  <2> QED
    BY <2>8 DEF ValuesReadBack, ReadsAs
<1> QED
  BY <1>1, ColumnInvariant, PTL

-----------------------------------------------------------------------------

(* The maximum of one number.                                              *)
LEMMA MaxOfOne == ASSUME NEW k \in Int PROVE Max({k}) = k
BY DEF Max

(* A parameter that paramIndex finds has the name, and the first sigil.    *)
LEMMA ParamFound ==
    ASSUME NEW stmt \in Statements, NEW name, NEW i, i = ParamIndex(stmt, name),
           i \in DOMAIN stmt.params
    PROVE  stmt.params[i].name = name /\ First(stmt.params, i)
<1> DEFINE found == {j \in DOMAIN stmt.params :
                        stmt.params[j].name = name /\ First(stmt.params, j)}
<1>1. i = IF found = {} THEN 0 ELSE CHOOSE j \in found : TRUE
  BY DEF ParamIndex
<1>2. i # 0
  BY DEF Statements
<1>3. i \in found
  BY <1>1, <1>2
<1> QED
  BY <1>3

(* There is one with a name and the first sigil, so that paramIndex finds  *)
(* it.                                                                     *)
LEMMA ParamOfName ==
    ASSUME NEW stmt \in Statements, NEW i \in DOMAIN stmt.params, First(stmt.params, i),
           stmt.params[i].name # Anonymous
    PROVE  ParamIndex(stmt, stmt.params[i].name) = i
<1> DEFINE found == {j \in DOMAIN stmt.params :
                        stmt.params[j].name = stmt.params[i].name /\ First(stmt.params, j)}
<1>1. ASSUME NEW j \in found PROVE j = i
  <2>1. stmt.params \in Seq(Params)
    BY DEF Statements
  <2>2. stmt.params[i] \in Params /\ stmt.params[j] \in Params
    BY <2>1
  <2>3. stmt.params[j].name = stmt.params[i].name
    OBVIOUS
  <2>4. stmt.params[i].sigil = stmt.params[j].sigil
    <3>1. /\ stmt.params[i].sigil <= stmt.params[j].sigil
          /\ stmt.params[j].sigil <= stmt.params[i].sigil
      BY <2>3 DEF First
    <3> QED
      BY <3>1, <2>2 DEF Params
  <2>5. stmt.params[i] = stmt.params[j]
    BY <2>2, <2>3, <2>4 DEF Params
  <2> QED
    BY <2>5 DEF Statements
<1>2. found = {i}
  BY <1>1
<1>3. (CHOOSE j \in found : TRUE) = i
  BY <1>2
<1> QED
  BY <1>2, <1>3 DEF ParamIndex

(* The arguments that BindDecoded binds to a parameter.                    *)
For(stmt, from, count, i) == {k \in 1..count : Target(stmt, from + k, k) = i}

(* What is bound, where nothing fails.                                     *)
LEMMA Assigned ==
    ASSUME NEW stmt \in Statements, NEW from, NEW count,
           BindDecoded(stmt, from, count) # Failed
    PROVE  /\ \A k \in 1..count : Target(stmt, from + k, k) \in DOMAIN stmt.params
           /\ BindDecoded(stmt, from, count) =
                 [i \in DOMAIN stmt.params |->
                     IF For(stmt, from, count, i) = {} THEN 0
                     ELSE from + Max(For(stmt, from, count, i))]
BY DEF BindDecoded, For

(* No two numbers up to n have the same image; some one has the image i.   *)
OneToOne(f, n) == \A k, l \in 1..n : f[k] = f[l] => k = l
Reached(f, n, i) == \E k \in 1..n : f[k] = i

(* A function that sends no two numbers up to n to one up to n reaches all *)
(* of them.                                                                *)
LEMMA AllReached ==
    ASSUME NEW n \in Nat, NEW f \in [1..n -> 1..n], OneToOne(f, n), NEW i \in 1..n
    PROVE  Reached(f, n, i)
<1> SUFFICES ASSUME \A k \in 1..n : f[k] # i PROVE FALSE
  BY DEF Reached
<1>1. IsFiniteSet(1..n) /\ Cardinality(1..n) = n
  BY FS_Interval
<1>2. IsFiniteSet((1..n) \ {i}) /\ Cardinality((1..n) \ {i}) = n - 1
  BY <1>1, FS_RemoveElement
<1>3. f \in [1..n -> (1..n) \ {i}]
  OBVIOUS
<1>4. Cardinality((1..n) \ {i}) < Cardinality(1..n)
  BY <1>1, <1>2
<1>5. \E k, l \in 1..n : k # l /\ f[k] = f[l]
  <2>1. PICK S : S = 1..n
    OBVIOUS
  <2>2. PICK U : U = (1..n) \ {i}
    OBVIOUS
  <2>3. IsFiniteSet(S) /\ IsFiniteSet(U) /\ Cardinality(U) < Cardinality(S) /\ f \in [S -> U]
    BY <1>1, <1>2, <1>3, <1>4, <2>1, <2>2
  <2>4. \E k, l \in S : k # l /\ f[k] = f[l]
    BY <2>3, FS_PigeonHole
  <2> QED
    BY <2>1, <2>4
<1> QED
  BY <1>5 DEF OneToOne

(* Arguments without names are bound in their places.                      *)
LEMMA BoundInPlace ==
    ASSUME NEW stmt \in Statements, NEW from \in Nat, NEW count \in Nat,
           Positional((from + 1)..(from + count)),
           BindDecoded(stmt, from, count) # Failed
    PROVE  /\ count <= Len(stmt.params)
           /\ count = Len(stmt.params) =>
                 BindDecoded(stmt, from, count) = [i \in DOMAIN stmt.params |-> from + i]
<1>1. Len(stmt.params) \in Nat /\ DOMAIN stmt.params = 1..Len(stmt.params)
  BY DEF Statements
<1>2. \A k \in 1..count : Target(stmt, from + k, k) = k
  BY DEF Positional, Target
<1>3. \A k \in 1..count : k \in DOMAIN stmt.params
  BY <1>2, Assigned
<1>4. count <= Len(stmt.params)
  <2>1. count = 0 \/ count \in 1..count
    OBVIOUS
  <2> QED
    BY <2>1, <1>1, <1>3
<1>5. ASSUME NEW i \in 1..count PROVE For(stmt, from, count, i) = {i}
  BY <1>2 DEF For
<1>6. ASSUME NEW i \in 1..count
      PROVE  /\ For(stmt, from, count, i) # {}
             /\ from + Max(For(stmt, from, count, i)) = from + i
  BY <1>5, MaxOfOne
<1>7. ASSUME count = Len(stmt.params)
      PROVE  BindDecoded(stmt, from, count) = [i \in DOMAIN stmt.params |-> from + i]
  <2>1. ASSUME NEW i \in DOMAIN stmt.params
        PROVE  from + i = IF For(stmt, from, count, i) = {} THEN 0
                          ELSE from + Max(For(stmt, from, count, i))
    BY <1>1, <1>6, <1>7
  <2> DEFINE value(i) == IF For(stmt, from, count, i) = {} THEN 0
                         ELSE from + Max(For(stmt, from, count, i))
  <2>2. BindDecoded(stmt, from, count) = [i \in DOMAIN stmt.params |-> value(i)]
    BY Assigned
  <2>3. \A i \in DOMAIN stmt.params : value(i) = from + i
    BY <2>1
  <2> HIDE DEF value
  <2> QED
    BY <2>2, <2>3
<1> QED
  BY <1>4, <1>7

(* Parameter i has the argument of its name, or there is none for it.      *)
ByName(stmt, bound, i, from, count) ==
    LET mine == (from + 1)..(from + count)
    IN  IF First(stmt.params, i) /\ \E n \in mine : args[n] = stmt.params[i].name
        THEN bound[i] \in mine /\ args[bound[i]] = stmt.params[i].name
        ELSE bound[i] = 0 /\ count # Len(stmt.params)

(* Arguments with names of their own are bound under their names, and a    *)
(* parameter is left out only where there are fewer arguments.             *)
LEMMA BoundByName ==
    ASSUME NEW stmt \in Statements, NEW from \in Nat, NEW count \in Nat,
           Named((from + 1)..(from + count)),
           NEW bound, bound = BindDecoded(stmt, from, count), bound # Failed,
           NEW i \in DOMAIN stmt.params
    PROVE  ByName(stmt, bound, i, from, count)
<1> DEFINE mine == (from + 1)..(from + count)
<1>1. Len(stmt.params) \in Nat /\ DOMAIN stmt.params = 1..Len(stmt.params)
  BY DEF Statements
<1>2. ASSUME NEW k \in 1..count
      PROVE  /\ from + k \in mine /\ args[from + k] # Anonymous
             /\ Target(stmt, from + k, k) = ParamIndex(stmt, args[from + k])
             /\ Target(stmt, from + k, k) \in DOMAIN stmt.params
  <2>1. from + k \in mine
    OBVIOUS
  <2>2. args[from + k] # Anonymous
    BY <2>1 DEF Named
  <2>3. Target(stmt, from + k, k) = ParamIndex(stmt, args[from + k])
    BY <2>2 DEF Target
  <2> QED
    BY <2>1, <2>2, <2>3, Assigned
<1>3. ASSUME NEW k \in 1..count, NEW j, j = Target(stmt, from + k, k)
      PROVE  stmt.params[j].name = args[from + k] /\ First(stmt.params, j)
  BY <1>2, <1>3, ParamFound
<1>4. ASSUME NEW k \in 1..count, NEW l \in 1..count,
             Target(stmt, from + k, k) = Target(stmt, from + l, l)
      PROVE  k = l
  <2>1. args[from + k] = args[from + l]
    BY <1>3, <1>4
  <2>2. from + k \in mine /\ from + l \in mine
    BY <1>2
  <2>3. from + k = from + l
    BY <2>1, <2>2 DEF Named
  <2> QED
    BY <2>3
<1>5. bound[i] = IF For(stmt, from, count, i) = {} THEN 0
                 ELSE from + Max(For(stmt, from, count, i))
  BY Assigned
<1>6. CASE First(stmt.params, i) /\ \E n \in mine : args[n] = stmt.params[i].name
  <2>1. PICK n \in mine : args[n] = stmt.params[i].name
    BY <1>6
  <2>2. PICK k \in 1..count : n = from + k
    <3>1. n - from \in 1..count /\ n = from + (n - from)
      OBVIOUS
    <3> QED
      BY <3>1
  <2>3. Target(stmt, from + k, k) = i
    BY <1>2, <1>6, <2>1, <2>2, ParamOfName
  <2>4. For(stmt, from, count, i) = {k}
    BY <1>4, <2>3 DEF For
  <2>5. bound[i] = n
    BY <1>5, <2>2, <2>4, MaxOfOne
  <2>6. bound[i] \in mine /\ args[bound[i]] = stmt.params[i].name
    BY <2>1, <2>5
  <2> HIDE DEF mine
  <2>7. ByName(stmt, bound, i, from, count) <=>
           IF First(stmt.params, i) /\ \E m \in mine : args[m] = stmt.params[i].name
           THEN bound[i] \in mine /\ args[bound[i]] = stmt.params[i].name
           ELSE bound[i] = 0 /\ count # Len(stmt.params)
    BY Zenon DEF ByName, mine
  <2> QED
    BY <1>6, <2>6, <2>7, Zenon
<1>7. CASE ~ (First(stmt.params, i) /\ \E n \in mine : args[n] = stmt.params[i].name)
  <2>1. ASSUME NEW k \in 1..count PROVE Target(stmt, from + k, k) # i
    BY <1>2, <1>3, <1>7
  <2>2. bound[i] = 0
    BY <1>5, <2>1 DEF For
  <2>3. ASSUME count = Len(stmt.params) PROVE FALSE
    <3> DEFINE targets == [k \in 1..count |-> Target(stmt, from + k, k)]
    <3>1. PICK f : f = targets
      OBVIOUS
    <3>2. f \in [1..count -> 1..count]
      BY <1>1, <1>2, <2>3, <3>1
    <3>3. OneToOne(f, count)
      BY <1>4, <3>1 DEF OneToOne
    <3>4. i \in 1..count
      BY <1>1, <2>3
    <3>5. ~ Reached(f, count, i)
      BY <2>1, <3>1 DEF Reached
    <3>6. Reached(f, count, i)
      BY <3>2, <3>3, <3>4, AllReached
    <3> QED
      BY <3>5, <3>6
  <2> QED
    BY <1>7, <2>2, <2>3 DEF ByName
<1> QED
  BY <1>6, <1>7

(* What ran is a sequence, of the values of no more statements than the    *)
(* script has; a request finds nothing left of one before it.              *)
ScriptTyped ==
    /\ op \in {"exec", "one"} /\ script \in Seq(Statements) /\ args \in Seq(Names)
    /\ at \in 0..Len(args)
    /\ ran \in Seq({ran[j] : j \in DOMAIN ran}) /\ Len(ran) <= Len(script)
    /\ op = "one" => Len(script) = 1 /\ (outcome = "running" => ran = <<>>)
    /\ outcome = "none" => op = "exec" /\ script = <<>> /\ args = <<>>

(* ScriptBinds, and that a script has consumed the shares of what ran.     *)
Shared(cut) ==
    /\ Consecutive(cut)
    /\ \A j \in DOMAIN ran : Meets(script[j].params, ran[j], cut[j], cut[j + 1])
    /\ op = "exec" => cut[Len(ran) + 1] = at
    /\ outcome = "ok" => /\ Len(ran) = Len(script)
                         /\ script # <<>> => cut[Len(ran) + 1] = Len(args)
ScriptInv == ScriptTyped /\ \E cut \in Cuts : Shared(cut)

(* What a statement sees is a matter of the arguments alone.               *)
LEMMA MeetsStill ==
    ASSUME NEW params, NEW bound, NEW from, NEW to, Meets(params, bound, from, to),
           UNCHANGED <<op, args>>
    PROVE  Meets(params, bound, from, to)'
BY DEF Meets, Positional, Named

(* A statement of a script meets its share.                                *)
LEMMA StatementMeets ==
    ASSUME NEW stmt \in Statements, NEW from \in Nat, NEW bound,
           bound = BindDecoded(stmt, from, Needs(stmt)), bound # Failed
    PROVE  Meets(stmt.params, bound, from, from + Needs(stmt))
<1>1. PICK count \in Nat : count = Needs(stmt) /\ count = Len(stmt.params)
  BY DEF Needs, Statements
<1>2. ASSUME Positional((from + 1)..(from + count))
      PROVE  bound = [i \in DOMAIN stmt.params |-> from + i]
  BY <1>1, <1>2, BoundInPlace
<1>3. ASSUME Named((from + 1)..(from + count)), NEW i \in DOMAIN stmt.params
      PROVE  /\ First(stmt.params, i)
             /\ \E n \in (from + 1)..(from + count) : args[n] = stmt.params[i].name
             /\ bound[i] \in (from + 1)..(from + count)
             /\ args[bound[i]] = stmt.params[i].name
  <2>1. ByName(stmt, bound, i, from, count)
    <3>1. bound = BindDecoded(stmt, from, count)
      BY <1>1
    <3> QED
      BY <1>3, <3>1, BoundByName
  <2> QED
    BY <1>1, <2>1 DEF ByName
<1> QED
  BY <1>1, <1>2, <1>3 DEF Meets

(* A statement of its own meets all the arguments.                         *)
LEMMA OneMeets ==
    ASSUME ScriptTyped, NEW stmt \in Statements, NEW bound, bound = BindArgs(stmt),
           bound # Failed, op = "one"
    PROVE  Meets(stmt.params, bound, 0, Len(args))
<1>1. PICK count \in Nat : count = Len(args)
  BY DEF ScriptTyped
<1>2. bound = BindDecoded(stmt, 0, count)
  BY <1>1 DEF BindArgs, BindAll
<1>3. DOMAIN args = 1..count /\ (0 + 1)..(0 + count) = 1..count
  BY <1>1 DEF ScriptTyped
<1>4. ASSUME Positional(1..count)
      PROVE  /\ count - 0 = Len(stmt.params)
             /\ bound = [i \in DOMAIN stmt.params |-> 0 + i]
  <2>1. {k \in DOMAIN args : args[k] = Anonymous} = 1..count
    BY <1>3, <1>4 DEF Positional
  <2>2. Cardinality(1..count) = count
    BY FS_Interval
  <2>3. ~ (count < Len(stmt.params))
    BY <1>1, <2>1, <2>2 DEF BindArgs
  <2>4. /\ count <= Len(stmt.params)
        /\ count = Len(stmt.params) => bound = [i \in DOMAIN stmt.params |-> 0 + i]
    BY <1>2, <1>3, <1>4, BoundInPlace
  <2>5. Len(stmt.params) \in Nat
    BY DEF Statements
  <2> QED
    BY <2>3, <2>4, <2>5
<1>5. ASSUME Named(1..count), NEW i \in DOMAIN stmt.params
      PROVE  IF First(stmt.params, i) /\ \E n \in 1..count : args[n] = stmt.params[i].name
             THEN bound[i] \in 1..count /\ args[bound[i]] = stmt.params[i].name
             ELSE bound[i] = 0
  <2>1. 0 \in Nat /\ Named((0 + 1)..(0 + count))
    BY <1>3, <1>5
  <2>2. ByName(stmt, bound, i, 0, count)
    BY <1>2, <2>1, BoundByName
  <2> QED
    BY <1>3, <2>2 DEF ByName
<1> QED
  BY <1>1, <1>3, <1>4, <1>5 DEF Meets

(* The shares of cut, and one more that ends at to.                        *)
CutAfter(next, cut, n, to) == next[n + 2] = to /\ \A j \in 1..(n + 1) : next[j] = cut[j]

(* Where the shares are cut after another one of to arguments.             *)
LEMMA CutAgain ==
    ASSUME NEW n \in Nat, NEW m \in Nat, NEW cut \in [1..(n + 1) -> 0..m], NEW to \in 0..m
    PROVE  \E next \in [1..(n + 2) -> 0..m] : CutAfter(next, cut, n, to)
<1> DEFINE next == [j \in 1..(n + 2) |-> IF j = n + 2 THEN to ELSE cut[j]]
<1>1. next \in [1..(n + 2) -> 0..m]
  OBVIOUS
<1>2. next[n + 2] = to /\ \A j \in 1..(n + 1) : next[j] = cut[j]
  OBVIOUS
<1> HIDE DEF next
<1> QED
  BY <1>1, <1>2 DEF CutAfter

(* The values of one more statement are the values of what ran, and its.   *)
LEMMA RanMore ==
    ASSUME ScriptTyped, NEW bound, ran' = Append(ran, bound)
    PROVE  /\ ran' \in Seq({ran'[j] : j \in DOMAIN ran'})
           /\ Len(ran) \in Nat /\ Len(ran') = Len(ran) + 1
           /\ \A j \in DOMAIN ran : ran'[j] = ran[j]
           /\ DOMAIN ran = 1..Len(ran) /\ DOMAIN ran' = 1..(Len(ran) + 1)
           /\ ran'[Len(ran) + 1] = bound
<1>1. PICK S : S = {ran[j] : j \in DOMAIN ran} \cup {bound}
  OBVIOUS
<1>2. ran \in Seq(S)
  <2>1. ran \in Seq({ran[j] : j \in DOMAIN ran}) /\ {ran[j] : j \in DOMAIN ran} \subseteq S
    BY <1>1 DEF ScriptTyped
  <2>2. PICK s, U : s = ran /\ U = {ran[j] : j \in DOMAIN ran}
    OBVIOUS
  <2>3. s \in Seq(U) /\ U \subseteq S
    BY <2>1, <2>2
  <2> QED
    BY <2>2, <2>3, SeqMonotonic
<1>3. bound \in S
  BY <1>1
<1>4. /\ ran' \in Seq(S) /\ Len(ran) \in Nat /\ Len(ran') = Len(ran) + 1
      /\ DOMAIN ran = 1..Len(ran) /\ DOMAIN ran' = 1..(Len(ran) + 1)
      /\ \A j \in DOMAIN ran : ran'[j] = ran[j]
      /\ ran'[Len(ran) + 1] = bound
  BY <1>2, <1>3
<1>5. ran' \in Seq({ran'[j] : j \in DOMAIN ran'})
  <2>1. PICK s, U : s = ran' /\ U = {ran'[j] : j \in DOMAIN ran'}
    OBVIOUS
  <2>2. s \in [1..Len(s) -> U] /\ Len(s) \in Nat
    <3>1. s \in Seq(S) /\ U = {s[j] : j \in DOMAIN s}
      BY <1>4, <2>1
    <3>2. Len(s) \in Nat /\ s \in [1..Len(s) -> S] /\ DOMAIN s = 1..Len(s)
      BY <3>1
    <3>3. \A j \in 1..Len(s) : s[j] \in U
      BY <3>1, <3>2
    <3> QED
      BY <3>2, <3>3
  <2>3. s \in Seq(U)
    BY <2>2
  <2> QED
    BY <2>1, <2>3
<1> QED
  BY <1>4, <1>5

(* An answer leaves the shares as they are; "ok" needs all of them.        *)
LEMMA SharedStill ==
    ASSUME NEW cut, Shared(cut), UNCHANGED <<op, script, args, at, ran>>,
           outcome' = "ok" => /\ Len(ran) = Len(script)
                              /\ script # <<>> => cut[Len(ran) + 1] = Len(args)
    PROVE  Shared(cut)'
<1>1. Consecutive(cut)'
  BY DEF Shared, Consecutive
<1>2. ASSUME NEW j \in DOMAIN ran'
      PROVE  Meets(script[j].params, ran[j], cut[j], cut[j + 1])'
  <2>1. PICK params, bound, from, to :
           params = script[j].params /\ bound = ran[j] /\ from = cut[j] /\ to = cut[j + 1]
    OBVIOUS
  <2>2. Meets(params, bound, from, to)
    BY <1>2, <2>1 DEF Shared
  <2>3. Meets(params, bound, from, to)'
    BY <2>2, MeetsStill
  <2> QED
    BY <2>1, <2>3
<1>3. op' = "exec" => cut[Len(ran') + 1] = at'
  BY DEF Shared
<1> QED
  BY <1>1, <1>2, <1>3 DEF Shared

(* The share of one more statement follows those of the others.            *)
LEMMA SharedMore ==
    ASSUME ScriptTyped, NEW cut \in Cuts, Shared(cut), UNCHANGED <<op, script, args>>,
           NEW bound, ran' = Append(ran, bound),
           NEW stmt \in Statements, stmt = script[Len(ran) + 1], NEW from, NEW to \in Nat,
           from = cut[Len(ran) + 1], to <= Len(args),
           to = from + (IF op = "one" THEN Len(args) ELSE Len(stmt.params)),
           Meets(stmt.params, bound, from, to),
           op = "exec" => at' = to,
           outcome' = "ok" => Len(script) = Len(ran) + 1 /\ to = Len(args)
    PROVE  \E next \in Cuts' : Shared(next)'
<1> DEFINE n == Len(ran)
<1>1. /\ n \in Nat /\ Len(ran') = n + 1 /\ ran'[n + 1] = bound
      /\ \A j \in DOMAIN ran : ran'[j] = ran[j]
      /\ DOMAIN ran = 1..n /\ DOMAIN ran' = 1..(n + 1)
  BY RanMore
<1>2. PICK m \in Nat : m = Len(args)
  BY DEF ScriptTyped
<1>3. PICK k \in Nat : k = n
  BY <1>1
<1>4. cut \in [1..(k + 1) -> 0..m] /\ to \in 0..m
  BY <1>2, <1>3 DEF Cuts
<1>5. PICK next \in [1..(k + 2) -> 0..m] :
         next[k + 2] = to /\ \A j \in 1..(k + 1) : next[j] = cut[j]
  <2>1. PICK next \in [1..(k + 2) -> 0..m] : CutAfter(next, cut, k, to)
    BY <1>4, CutAgain
  <2> QED
    BY <2>1 DEF CutAfter
<1>6. next \in Cuts'
  BY <1>1, <1>2, <1>3, <1>5 DEF Cuts
<1>7. ASSUME NEW j \in 1..k
      PROVE  /\ next[j] = cut[j] /\ next[j + 1] = cut[j + 1]
             /\ cut[j + 1] = cut[j] + (IF op = "one" THEN Len(args) ELSE Len(script[j].params))
  <2>1. next[j] = cut[j] /\ next[j + 1] = cut[j + 1]
    <3>1. j \in 1..(k + 1) /\ j + 1 \in 1..(k + 1)
      OBVIOUS
    <3> QED
      BY <3>1, <1>5
  <2>2. j \in DOMAIN ran
    BY <1>1, <1>3
  <2> QED
    BY <2>1, <2>2 DEF Shared, Consecutive
<1>8. next[k + 1] = from /\ next[k + 2] = to /\ k + 1 + 1 = k + 2
  BY <1>3, <1>5
<1>9. Consecutive(next)'
  <2>1. next[1] = 0
    BY <1>5 DEF Shared, Consecutive
  <2>2. ASSUME NEW j \in 1..(k + 1)
        PROVE  next[j + 1] = next[j] + (IF op = "one" THEN Len(args) ELSE Len(script[j].params))
    <3>1. CASE j = k + 1
      BY <1>3, <1>8, <3>1
    <3>2. CASE j # k + 1
      <4>1. j \in 1..k
        BY <3>2
      <4> QED
        BY <1>7, <4>1
    <3> QED
      BY <3>1, <3>2
  <2> QED
    BY <1>1, <1>3, <2>1, <2>2 DEF Consecutive
<1>10. ASSUME NEW j \in 1..(k + 1)
       PROVE  Meets(script[j].params, ran[j], next[j], next[j + 1])'
  <2>1. PICK params, b, f, t : params = script[j].params /\ b = ran'[j]
                                /\ f = next[j] /\ t = next[j + 1]
    OBVIOUS
  <2>2. Meets(params, b, f, t)
    <3>1. CASE j = k + 1
      BY <1>1, <1>3, <1>8, <2>1, <3>1
    <3>2. CASE j # k + 1
      <4>1. j \in 1..k /\ j \in DOMAIN ran /\ ran'[j] = ran[j]
        BY <1>1, <1>3, <3>2
      <4>2. Meets(script[j].params, ran[j], cut[j], cut[j + 1])
        BY <4>1 DEF Shared
      <4> QED
        BY <1>7, <2>1, <4>1, <4>2
    <3> QED
      BY <3>1, <3>2
  <2>3. Meets(params, b, f, t)'
    BY <2>2, MeetsStill
  <2> QED
    BY <2>1, <2>3
<1>11. op' = "exec" => next[Len(ran') + 1] = at'
  BY <1>1, <1>3, <1>8
<1>12. outcome' = "ok" => /\ Len(ran') = Len(script')
                          /\ script' # <<>> => next[Len(ran') + 1] = Len(args')
  BY <1>1, <1>3, <1>8
<1> QED
  BY <1>1, <1>3, <1>6, <1>9, <1>10, <1>11, <1>12 DEF Shared

(* A statement of a script either ran, with its share, or fails the call.  *)
LEMMA StatementKeeps == ScriptInv /\ Statement => ScriptInv'
<1> SUFFICES ASSUME ScriptInv, Statement PROVE ScriptInv'
  OBVIOUS
<1>1. PICK cut \in Cuts : Shared(cut)
  BY DEF ScriptInv
<1>2. /\ ScriptTyped /\ op = "exec" /\ outcome = "running" /\ Len(ran) < Len(script)
      /\ UNCHANGED <<op, script, args>>
  BY DEF ScriptInv, Statement
<1>3. PICK stmt \in Statements : stmt = script[Len(ran) + 1]
  BY <1>2 DEF ScriptTyped
<1>4. PICK bound : bound = BindDecoded(stmt, at, Needs(stmt))
  OBVIOUS
<1>5. CASE outcome' = "error" /\ UNCHANGED <<at, ran>>
  <2>1. Shared(cut)'
    BY <1>1, <1>2, <1>5, SharedStill
  <2>2. cut \in Cuts' /\ ScriptTyped'
    BY <1>2, <1>5 DEF Cuts, ScriptTyped
  <2> QED
    BY <2>1, <2>2 DEF ScriptInv
<1>6. CASE /\ at + Needs(stmt) <= Len(args) /\ bound # Failed
           /\ at' = at + Needs(stmt) /\ ran' = Append(ran, bound) /\ outcome' = outcome
  <2>1. PICK from, to : from = at /\ to = at + Needs(stmt)
    OBVIOUS
  <2>2. from \in Nat /\ Len(args) \in Nat /\ Needs(stmt) = Len(stmt.params)
        /\ Len(stmt.params) \in Nat
    BY <1>2, <2>1 DEF ScriptTyped, Needs, Statements
  <2>3. to \in Nat /\ to <= Len(args) /\ to = from + Len(stmt.params)
    BY <1>6, <2>1, <2>2
  <2>4. Meets(stmt.params, bound, from, to)
    <3>1. bound = BindDecoded(stmt, from, Needs(stmt)) /\ bound # Failed
      BY <1>4, <1>6, <2>1
    <3>2. Meets(stmt.params, bound, from, from + Needs(stmt))
      BY <2>2, <3>1, StatementMeets
    <3> QED
      BY <2>1, <3>2
  <2>5. from = cut[Len(ran) + 1]
    BY <1>1, <1>2, <2>1 DEF Shared
  <2>6. \E next \in Cuts' : Shared(next)'
    <3>1. to = from + (IF op = "one" THEN Len(args) ELSE Len(stmt.params))
      BY <1>2, <2>3
    <3>2. outcome' = "ok" => Len(script) = Len(ran) + 1 /\ to = Len(args)
      BY <1>2, <1>6
    <3>3. (op = "exec" => at' = to) /\ ran' = Append(ran, bound)
      BY <1>6, <2>1
    <3> QED
      BY <1>1, <1>2, <1>3, <2>3, <2>4, <2>5, <3>1, <3>2, <3>3, SharedMore
  <2>7. ScriptTyped'
    <3>1. /\ ran' \in Seq({ran'[j] : j \in DOMAIN ran'})
          /\ Len(ran) \in Nat /\ Len(ran') = Len(ran) + 1
      BY <1>2, <1>6, RanMore
    <3>2. Len(ran') <= Len(script')
      BY <1>2, <3>1 DEF ScriptTyped
    <3>3. at' \in 0..Len(args')
      BY <1>2, <1>6, <2>1, <2>3
    <3> QED
      BY <1>2, <1>6, <3>1, <3>2, <3>3 DEF ScriptTyped
  <2> QED
    BY <2>6, <2>7 DEF ScriptInv
<1>7. at + Needs(stmt) > Len(args) \/ at + Needs(stmt) <= Len(args)
  BY <1>2 DEF ScriptTyped, Needs, Statements
<1> QED
  BY <1>3, <1>4, <1>5, <1>6, <1>7 DEF Statement, Answer

(* A statement of its own runs with all the arguments.                     *)
LEMMA OneKeeps == ScriptInv /\ One => ScriptInv'
<1> SUFFICES ASSUME ScriptInv, One PROVE ScriptInv'
  OBVIOUS
<1>1. PICK cut \in Cuts : Shared(cut)
  BY DEF ScriptInv
<1>2. /\ ScriptTyped /\ op = "one" /\ outcome = "running"
      /\ UNCHANGED <<op, script, args, at>>
  BY DEF ScriptInv, One
<1>3. ran = <<>> /\ Len(ran) = 0 /\ Len(script) = 1
  BY <1>2 DEF ScriptTyped
<1>4. PICK stmt \in Statements : stmt = script[1]
  <2>1. script \in Seq(Statements) /\ 1 \in 1..Len(script)
    BY <1>2, <1>3 DEF ScriptTyped
  <2>2. script[1] \in Statements
    BY <2>1
  <2> QED
    BY <2>2
<1>5. PICK bound : bound = BindArgs(stmt)
  OBVIOUS
<1>6. CASE outcome' = "error" /\ UNCHANGED ran
  <2>1. Shared(cut)'
    BY <1>1, <1>2, <1>6, SharedStill
  <2>2. cut \in Cuts' /\ ScriptTyped'
    BY <1>2, <1>6 DEF Cuts, ScriptTyped
  <2> QED
    BY <2>1, <2>2 DEF ScriptInv
<1>7. CASE bound # Failed /\ outcome' = "ok" /\ ran' = <<bound>>
  <2>1. PICK to \in Nat : to = Len(args)
    BY <1>2 DEF ScriptTyped
  <2>2. Meets(stmt.params, bound, 0, to)
    BY <1>2, <1>5, <1>7, <2>1, OneMeets
  <2>3. cut[Len(ran) + 1] = 0
    BY <1>1, <1>3 DEF Shared, Consecutive
  <2>4. ran' = Append(ran, bound)
    BY <1>3, <1>7
  <2>5. \E next \in Cuts' : Shared(next)'
    <3>1. to <= Len(args) /\ to = 0 + (IF op = "one" THEN Len(args) ELSE Len(stmt.params))
      BY <1>2, <2>1
    <3>2. outcome' = "ok" => Len(script) = Len(ran) + 1 /\ to = Len(args)
      BY <1>3, <2>1
    <3>3. (op = "exec" => at' = to) /\ stmt = script[Len(ran) + 1]
      BY <1>2, <1>3, <1>4
    <3>4. PICK from : from = 0
      OBVIOUS
    <3> QED
      BY <1>1, <1>2, <2>2, <2>3, <2>4, <3>1, <3>2, <3>3, <3>4, SharedMore
  <2>6. ScriptTyped'
    <3>1. /\ ran' \in Seq({ran'[j] : j \in DOMAIN ran'}) /\ Len(ran') = Len(ran) + 1
      BY <1>2, <2>4, RanMore
    <3> QED
      BY <1>2, <1>3, <1>7, <3>1 DEF ScriptTyped
  <2> QED
    BY <2>5, <2>6 DEF ScriptInv
<1> QED
  BY <1>4, <1>5, <1>6, <1>7 DEF One, Answer

(* Every step keeps the shares.                                            *)
LEMMA ScriptStep == ScriptInv /\ [ScriptNext]_scriptVars => ScriptInv'
<1> SUFFICES ASSUME ScriptInv, [ScriptNext]_scriptVars PROVE ScriptInv'
  OBVIOUS
<1>1. PICK cut \in Cuts : Shared(cut)
  BY DEF ScriptInv
<1>2. ScriptTyped
  BY DEF ScriptInv
<1>3. ASSUME outcome = "none", NEW s \in Scripts, NEW a \in ArgLists, Request(s, a)
      PROVE  ScriptInv'
  <2>1. s \in Seq(Statements) /\ a \in Seq(Names)
    BY CallsAssumption
  <2>2. ran = <<>> /\ Len(ran) = 0 /\ at = 0
    BY <1>2, <1>3 DEF ScriptTyped
  <2>3. ran' = <<>> /\ Len(ran') = 0 /\ DOMAIN ran' = {} /\ at' = 0 /\ outcome' = "running"
        /\ script' = s /\ args' = a
    BY <1>3, <2>2 DEF Request
  <2>4. cut[1] = 0 /\ cut \in [1..1 -> 0..Len(args)]
    BY <1>1, <2>2 DEF Shared, Consecutive, Cuts
  <2>5. cut \in Cuts'
    <3>1. Len(a) \in Nat
      BY <2>1
    <3>2. cut \in [1..1 -> 0..Len(a)]
      BY <2>4, <3>1
    <3>3. Cuts' = [1..1 -> 0..Len(a)]
      <4>1. Cuts' = [1..(Len(ran') + 1) -> 0..Len(args')]
        BY DEF Cuts
      <4>2. Len(ran') + 1 = 1
        BY <2>3
      <4> QED
        BY <2>3, <4>1, <4>2, Zenon
    <3> QED
      BY <3>2, <3>3
  <2>6. Shared(cut)'
    BY <2>3, <2>4 DEF Shared, Consecutive
  <2>7. ScriptTyped'
    BY <1>2, <1>3, <2>1, <2>3 DEF ScriptTyped, Request
  <2> QED
    BY <2>5, <2>6, <2>7 DEF ScriptInv
<1>4. CASE End
  <2>1. /\ op = "exec" /\ outcome = "running" /\ Len(ran) = Len(script)
        /\ outcome' = IF script # <<>> /\ at < Len(args) THEN "error" ELSE "ok"
        /\ UNCHANGED <<op, script, args, at, ran>>
    BY <1>4 DEF End, Answer
  <2>2. cut[Len(ran) + 1] = at /\ at \in 0..Len(args) /\ Len(args) \in Nat
    BY <1>1, <1>2, <2>1 DEF Shared, ScriptTyped
  <2>3. Shared(cut)'
    BY <1>1, <2>1, <2>2, SharedStill
  <2>4. cut \in Cuts' /\ ScriptTyped'
    BY <1>2, <2>1 DEF Cuts, ScriptTyped
  <2> QED
    BY <2>3, <2>4 DEF ScriptInv
<1>5. CASE UNCHANGED scriptVars
  <2>1. UNCHANGED <<op, script, args, at, ran, outcome>>
    BY <1>5 DEF scriptVars
  <2>2. Shared(cut)'
    BY <1>1, <2>1, SharedStill DEF Shared
  <2>3. cut \in Cuts' /\ ScriptTyped'
    BY <1>2, <2>1 DEF Cuts, ScriptTyped
  <2> QED
    BY <2>2, <2>3 DEF ScriptInv
<1> QED
  BY <1>3, <1>4, <1>5, StatementKeeps, OneKeeps DEF ScriptNext

(* ScriptBinds: every statement that ran saw its own share of the          *)
(* arguments in its parameters, each in its place or under its name, and a *)
(* call that succeeded ran all its statements and used all its arguments.  *)
THEOREM ArgumentsReach == ScriptInit /\ [][ScriptNext]_scriptVars => []ScriptBinds
<1>1. ScriptInit => ScriptInv
  <2> SUFFICES ASSUME ScriptInit PROVE ScriptInv
    OBVIOUS
  <2>1. PICK cut : cut = [j \in 1..1 |-> 0]
    OBVIOUS
  <2>2. Len(ran) = 0 /\ DOMAIN ran = {} /\ Len(args) = 0
    BY DEF ScriptInit
  <2>3. cut \in Cuts /\ Shared(cut)
    BY <2>1, <2>2 DEF Cuts, Shared, Consecutive, ScriptInit
  <2>4. ScriptTyped
    BY <2>2 DEF ScriptInit, ScriptTyped
  <2> QED
    BY <2>3, <2>4 DEF ScriptInv
<1>2. ScriptInv => ScriptBinds
  BY DEF ScriptInv, ScriptBinds, Shared
<1> QED
  BY <1>1, <1>2, ScriptStep, PTL
=============================================================================
