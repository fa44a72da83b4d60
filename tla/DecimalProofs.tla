---------------------------- MODULE DecimalProofs ----------------------------
(***************************************************************************)
(* CompareNumbers against what numerals denote, for numerals of any length *)
(* and any exponent: it tells which number is larger, except between zero  *)
(* and a positive number below one.                                        *)
(***************************************************************************)
EXTENDS Decimal, WellFoundedInduction, TLAPS

\* A set of natural numbers has a least one: what induction rests on here.
LEMMA LeastNumber ==
  ASSUME NEW S, S \subseteq Nat, S # {}
  PROVE  \E n \in S : \A m \in S : n <= m
<1> DEFINE R == {ss \in Nat \X Nat : ss[1] < ss[2]}
<1>0. R = OpToRel(<, Nat)
  BY Zenon DEF OpToRel
<1>1. IsWellFoundedOn(R, Nat)
  BY <1>0, NatLessThanWellFounded, Zenon
<1>2. \A x, y \in Nat : y < x => <<y, x>> \in R
  OBVIOUS
<1> HIDE DEF R
<1>3. PICK x \in S : \A y \in S : ~ (<<y, x>> \in R)
  BY <1>1, WFMin
<1>4. \A y \in S : x <= y
  <2>1. \A y \in S : ~ (y < x)
    BY <1>2, <1>3
  <2> QED BY <2>1
<1> QED BY <1>4

------------------------------------------------------------------------------
(* The number that digits make                                             *)

Solves(f, s, w) == f = [i \in 0 .. w |-> IF i = 0 THEN 0 ELSE 10 * f[i - 1] + DigitAt(s, i)]

\* Each place of a sequence of digits, or beyond it, holds a digit.
LEMMA DigitAtType ==
  ASSUME NEW s \in Seq(Digit), NEW i
  PROVE  DigitAt(s, i) \in 0 .. 9
BY DEF DigitAt, Digit

\* The recursion that defines Leading has a solution.
LEMMA LeadingExists ==
  ASSUME NEW s, NEW w \in Nat
  PROVE  \E f : Solves(f, s, w)
<1> DEFINE Bad == {n \in Nat : ~ \E f : Solves(f, s, n)}
<1> SUFFICES ASSUME Bad # {} PROVE FALSE
  OBVIOUS
<1>1. PICK n \in Bad : \A m \in Bad : n <= m
  BY LeastNumber
<1>2. CASE n = 0
  <2>1. Solves([i \in 0 .. 0 |-> 0], s, 0)
    BY DEF Solves
  <2> QED BY <1>2, <2>1
<1>3. CASE n # 0
  <2>1. n - 1 \in Nat /\ n - 1 \notin Bad
    BY <1>1, <1>3
  <2>2. PICK f : Solves(f, s, n - 1)
    BY <2>1
  <2> DEFINE g == [i \in 0 .. n |-> IF i = n THEN 10 * f[n - 1] + DigitAt(s, n) ELSE f[i]]
  <2>3. \A i \in 0 .. n - 1 : g[i] = f[i]
    BY <2>1
  <2>4. \A i \in 0 .. n - 1 : f[i] = IF i = 0 THEN 0 ELSE 10 * f[i - 1] + DigitAt(s, i)
    BY <2>2 DEF Solves
  <2>5. g[n] = 10 * g[n - 1] + DigitAt(s, n)
    BY <2>1, <2>3
  <2>6. \A i \in 0 .. n : g[i] = IF i = 0 THEN 0 ELSE 10 * g[i - 1] + DigitAt(s, i)
    <3> TAKE i \in 0 .. n
    <3>1. CASE i = n
      BY <1>3, <2>5, <3>1
    <3>2. CASE i # n
      <4>1. i \in 0 .. n - 1 /\ (i # 0 => i - 1 \in 0 .. n - 1)
        BY <1>1, <3>2
      <4> HIDE DEF g
      <4> QED BY <2>3, <2>4, <4>1
    <3> QED BY <3>1, <3>2
  <2>7. Solves(g, s, n)
    <3>1. g = [i \in 0 .. n |-> g[i]]
      OBVIOUS
    <3> HIDE DEF g
    <3> QED BY <2>6, <3>1 DEF Solves
  <2> HIDE DEF g
  <2> QED BY <2>7
<1> QED BY <1>2, <1>3

\* It has only one, also when it is asked for fewer places.
LEMMA LeadingUnique ==
  ASSUME NEW s, NEW v \in Nat, NEW w \in Nat, NEW f, NEW g, Solves(f, s, v), Solves(g, s, w)
  PROVE  \A i \in 0 .. v : i <= w => f[i] = g[i]
<1> DEFINE Bad == {i \in 0 .. v : i <= w /\ f[i] # g[i]}
<1> SUFFICES ASSUME Bad # {} PROVE FALSE
  OBVIOUS
<1>0. Bad \subseteq Nat
  OBVIOUS
<1>1. PICK n \in Bad : \A m \in Bad : n <= m
  BY <1>0, LeastNumber
<1>2. /\ f[n] = IF n = 0 THEN 0 ELSE 10 * f[n - 1] + DigitAt(s, n)
      /\ g[n] = IF n = 0 THEN 0 ELSE 10 * g[n - 1] + DigitAt(s, n)
  BY <1>1 DEF Solves
<1>3. n # 0
  BY <1>1, <1>2
<1>4. n - 1 \in 0 .. v /\ n - 1 <= w /\ n - 1 \notin Bad
  BY <1>1, <1>3
<1> QED BY <1>1, <1>2, <1>3, <1>4

\* What Leading computes, place by place.
LEMMA LeadingStep ==
  ASSUME NEW s, NEW w \in Nat
  PROVE  /\ Leading(s, 0) = 0
         /\ Leading(s, w + 1) = 10 * Leading(s, w) + DigitAt(s, w + 1)
<1>1. \A n \in Nat : \E f : Solves(f, s, n) /\ Leading(s, n) = f[n]
  <2> TAKE n \in Nat
  <2> DEFINE f == CHOOSE f : Solves(f, s, n)
  <2>1. Solves(f, s, n)
    BY LeadingExists
  <2>2. Leading(s, n) = f[n]
    BY DEF Leading, Solves
  <2> QED BY <2>1, <2>2
<1>2. PICK f : Solves(f, s, w) /\ Leading(s, w) = f[w]
  BY <1>1
<1>3. PICK g : Solves(g, s, w + 1) /\ Leading(s, w + 1) = g[w + 1]
  BY <1>1
<1>4. f[w] = g[w]
  BY <1>2, <1>3, LeadingUnique
<1>5. g[w + 1] = 10 * g[w] + DigitAt(s, w + 1)
  BY <1>3 DEF Solves
<1>6. PICK h : Solves(h, s, 0) /\ Leading(s, 0) = h[0]
  BY <1>1
<1>7. h[0] = 0
  BY <1>6 DEF Solves
<1> QED BY <1>2, <1>3, <1>4, <1>5, <1>6, <1>7

\* Induction over a set of natural numbers.
LEMMA NaturalNumbers ==
  ASSUME NEW S, 0 \in S, \A n \in Nat : n \in S => n + 1 \in S
  PROVE  \A n \in Nat : n \in S
<1> DEFINE Bad == {n \in Nat : n \notin S}
<1> SUFFICES ASSUME Bad # {} PROVE FALSE
  OBVIOUS
<1>1. PICK n \in Bad : \A m \in Bad : n <= m
  BY LeastNumber
<1>2. n # 0
  BY <1>1
<1>3. n - 1 \in Nat /\ n - 1 \notin Bad
  BY <1>1, <1>2
<1>4. n - 1 + 1 \in S
  BY <1>3
<1> QED BY <1>1, <1>4

\* One more digit keeps the order of two numbers, and decides between equal ones.
LEMMA DigitsAppended ==
  ASSUME NEW a \in Nat, NEW b \in Nat, NEW d \in 0 .. 9, NEW e \in 0 .. 9,
         a < b \/ (a = b /\ d < e)
  PROVE  10 * a + d < 10 * b + e
OBVIOUS

\* Leading is a natural number.
LEMMA LeadingType ==
  ASSUME NEW s \in Seq(Digit), NEW w \in Nat
  PROVE  Leading(s, w) \in Nat
<1> DEFINE S == {n \in Nat : Leading(s, n) \in Nat}
<1>1. 0 \in S
  BY LeadingStep
<1>2. ASSUME NEW n \in Nat, n \in S PROVE n + 1 \in S
  <2>1. DigitAt(s, n + 1) \in 0 .. 9 /\ Leading(s, n) \in Nat
    BY <1>2, DigitAtType
  <2>2. Leading(s, n + 1) = 10 * Leading(s, n) + DigitAt(s, n + 1)
    BY LeadingStep
  <2> QED BY <2>1, <2>2
<1> HIDE DEF S
<1>3. \A n \in Nat : n \in S
  BY <1>1, <1>2, NaturalNumbers
<1> QED BY <1>3 DEF S

\* Digits that agree make the same number.
LEMMA SameDigits ==
  ASSUME NEW s \in Seq(Digit), NEW t \in Seq(Digit), NEW w \in Nat,
         \A i \in 1 .. w : DigitAt(s, i) = DigitAt(t, i)
  PROVE  Leading(s, w) = Leading(t, w)
<1> DEFINE S == {n \in Nat : n <= w => Leading(s, n) = Leading(t, n)}
<1>1. 0 \in S
  BY LeadingStep
<1>2. ASSUME NEW n \in Nat, n \in S PROVE n + 1 \in S
  <2> SUFFICES ASSUME n + 1 <= w PROVE Leading(s, n + 1) = Leading(t, n + 1)
    OBVIOUS
  <2>1. DigitAt(s, n + 1) = DigitAt(t, n + 1) /\ Leading(s, n) = Leading(t, n)
    BY <1>2
  <2> QED BY <2>1, LeadingStep
<1> HIDE DEF S
<1>3. w \in S
  BY <1>1, <1>2, NaturalNumbers
<1> QED BY <1>3 DEF S

\* Zeros make nothing.
LEMMA ZeroDigits ==
  ASSUME NEW s \in Seq(Digit), NEW w \in Nat, \A i \in 1 .. w : DigitAt(s, i) = 0
  PROVE  Leading(s, w) = 0
<1> DEFINE S == {n \in Nat : n <= w => Leading(s, n) = 0}
<1>1. 0 \in S
  BY LeadingStep
<1>2. ASSUME NEW n \in Nat, n \in S PROVE n + 1 \in S
  <2> SUFFICES ASSUME n + 1 <= w PROVE Leading(s, n + 1) = 0
    OBVIOUS
  <2>1. DigitAt(s, n + 1) = 0 /\ Leading(s, n) = 0
    BY <1>2
  <2> QED BY <2>1, LeadingStep
<1> HIDE DEF S
<1>3. w \in S
  BY <1>1, <1>2, NaturalNumbers
<1> QED BY <1>3 DEF S

\* More digits make more, whatever the digits, unless the first is a zero.
LEMMA MoreDigits ==
  ASSUME NEW s \in Seq(Digit), NEW t \in Seq(Digit), NEW w \in Nat, DigitAt(s, 1) # 0
  PROVE  \A v \in Nat : v < w => Leading(t, v) < Leading(s, w)
<1> DEFINE S == {n \in Nat : \A v \in Nat : v < n => Leading(t, v) < Leading(s, n)}
<1>1. 0 \in S
  OBVIOUS
<1>2. ASSUME NEW n \in Nat, n \in S PROVE n + 1 \in S
  <2> SUFFICES ASSUME NEW v \in Nat, v < n + 1 PROVE Leading(t, v) < Leading(s, n + 1)
    OBVIOUS
  <2>1. /\ Leading(s, n + 1) = 10 * Leading(s, n) + DigitAt(s, n + 1)
        /\ DigitAt(s, n + 1) \in 0 .. 9 /\ Leading(s, n) \in Nat
    BY LeadingStep, LeadingType, DigitAtType
  <2>2. CASE v = 0
    <3>1. Leading(t, 0) = 0
      BY LeadingStep
    <3>2. CASE n = 0
      <4>1. DigitAt(s, 1) \in 1 .. 9
        BY DigitAtType
      <4> QED BY <2>1, <2>2, <3>1, <3>2, <4>1
    <3>3. CASE n # 0
      <4>1. Leading(t, 0) < Leading(s, n)
        BY <1>2, <3>3
      <4> QED BY <2>1, <2>2, <3>1, <4>1
    <3> QED BY <3>2, <3>3
  <2>3. CASE v # 0
    <3>1. v - 1 \in Nat /\ v - 1 < n /\ (v - 1) + 1 = v
      BY <2>3
    <3>2. Leading(t, v - 1) < Leading(s, n)
      BY <1>2, <3>1
    <3>3. Leading(t, v) = 10 * Leading(t, v - 1) + DigitAt(t, v)
      BY <3>1, LeadingStep
    <3>4. Leading(t, v - 1) \in Nat /\ DigitAt(t, v) \in 0 .. 9
      BY <3>1, LeadingType, DigitAtType
    <3> QED BY <2>1, <3>2, <3>3, <3>4, DigitsAppended
  <2> QED BY <2>2, <2>3
<1> HIDE DEF S
<1>3. w \in S
  BY <1>1, <1>2, NaturalNumbers
<1> QED BY <1>3 DEF S

\* The first digit at which two sequences differ decides.
LEMMA FirstDifference ==
  ASSUME NEW s \in Seq(Digit), NEW t \in Seq(Digit), NEW w \in Nat, NEW f \in 1 .. w,
         \A i \in 1 .. f - 1 : DigitAt(s, i) = DigitAt(t, i),
         DigitAt(s, f) < DigitAt(t, f)
  PROVE  Leading(s, w) < Leading(t, w)
<1> DEFINE S == {n \in Nat : Leading(s, f + n) < Leading(t, f + n)}
<1>1. 0 \in S
  <2>1. f - 1 \in Nat /\ (f - 1) + 1 = f
    OBVIOUS
  <2>2. Leading(s, f - 1) = Leading(t, f - 1)
    BY <2>1, SameDigits
  <2>3. /\ Leading(s, f) = 10 * Leading(s, f - 1) + DigitAt(s, f)
        /\ Leading(t, f) = 10 * Leading(t, f - 1) + DigitAt(t, f)
    BY <2>1, LeadingStep
  <2>4. Leading(s, f - 1) \in Nat /\ DigitAt(s, f) \in 0 .. 9 /\ DigitAt(t, f) \in 0 .. 9
    BY <2>1, LeadingType, DigitAtType
  <2>5. Leading(s, f) < Leading(t, f)
    BY <2>2, <2>3, <2>4, DigitsAppended
  <2> QED BY <2>5
<1>2. ASSUME NEW n \in Nat, n \in S PROVE n + 1 \in S
  <2>1. f + n \in Nat /\ (f + n) + 1 = f + (n + 1)
    OBVIOUS
  <2>2. /\ Leading(s, f + (n + 1)) = 10 * Leading(s, f + n) + DigitAt(s, f + (n + 1))
        /\ Leading(t, f + (n + 1)) = 10 * Leading(t, f + n) + DigitAt(t, f + (n + 1))
    BY <2>1, LeadingStep
  <2>3. /\ Leading(s, f + n) \in Nat /\ Leading(t, f + n) \in Nat
        /\ DigitAt(s, f + (n + 1)) \in 0 .. 9 /\ DigitAt(t, f + (n + 1)) \in 0 .. 9
    BY <2>1, LeadingType, DigitAtType
  <2>4. Leading(s, f + n) < Leading(t, f + n)
    BY <1>2
  <2>5. Leading(s, f + (n + 1)) < Leading(t, f + (n + 1))
    BY <2>2, <2>3, <2>4, DigitsAppended
  <2> QED BY <2>5
<1> HIDE DEF S
<1>3. w - f \in S
  BY <1>1, <1>2, NaturalNumbers
<1>4. f + (w - f) = w
  OBVIOUS
<1> QED BY <1>3, <1>4 DEF S

------------------------------------------------------------------------------
(* Stripping zeros                                                         *)

\* Outer(s, t, z): t is s without the zeros on both sides, of which z are on the left.
Outer(s, t, z) ==
  \E last \in NonZero(s) : /\ z + 1 \in NonZero(s)
                           /\ \A j \in NonZero(s) : z + 1 <= j /\ last >= j
                           /\ t = SubSeq(s, z + 1, last)

\* The first and the last digit that is no zero.
LEMMA OuterDigits ==
  ASSUME NEW s \in Seq(Digit), NonZero(s) # {}
  PROVE  /\ \E i \in NonZero(s) : \A j \in NonZero(s) : i <= j
         /\ \E i \in NonZero(s) : \A j \in NonZero(s) : i >= j
<1>1. NonZero(s) \subseteq 1 .. Len(s) /\ Len(s) \in Nat
  BY DEF NonZero
<1>2. \E i \in NonZero(s) : \A j \in NonZero(s) : i <= j
  BY <1>1, LeastNumber
<1> DEFINE Rest == {Len(s) - i : i \in NonZero(s)}
<1>3. PICK m \in Rest : \A k \in Rest : m <= k
  <2>1. Rest \subseteq Nat /\ Rest # {}
    BY <1>1
  <2> HIDE DEF Rest
  <2> QED BY <2>1, LeastNumber
<1>4. PICK i \in NonZero(s) : m = Len(s) - i
  BY <1>3
<1>5. \A j \in NonZero(s) : i >= j
  <2> TAKE j \in NonZero(s)
  <2>1. Len(s) - i <= Len(s) - j
    BY <1>3, <1>4
  <2> QED BY <1>1, <2>1
<1> QED BY <1>2, <1>5

\* The digits from the first to the last that is no zero make the same number, at
\* their place.
LEMMA StrippedDigits ==
  ASSUME NEW s \in Seq(Digit), NEW t, NEW z \in Nat, Outer(s, t, z)
  PROVE  /\ t \in Seq(Digit) /\ Len(t) \in Nat /\ z + Len(t) <= Len(s) /\ Len(t) > 0
         /\ DigitAt(t, 1) # 0 /\ 1 \in DOMAIN t /\ t[1] # 0
         /\ \A m, n \in Nat : m = z + n => Leading(s, m) = Leading(t, n)
<1>1. PICK last : /\ last \in NonZero(s) /\ z + 1 \in NonZero(s)
                  /\ \A j \in NonZero(s) : z + 1 <= j /\ last >= j
                  /\ t = SubSeq(s, z + 1, last)
  BY DEF Outer
<1>2. /\ NonZero(s) \subseteq 1 .. Len(s) /\ DOMAIN s = 1 .. Len(s) /\ Len(s) \in Nat
      /\ \A i \in NonZero(s) : s[i] # 0
  BY DEF NonZero
<1>3. last \in 1 .. Len(s) /\ z + 1 <= last
  BY <1>1, <1>2
<1>4. /\ t \in Seq(Digit) /\ Len(t) = last - z
      /\ \A i \in 1 .. last - z : t[i] = s[z + i]
  BY <1>1, <1>2, <1>3
<1>5. DOMAIN t = 1 .. last - z
  BY <1>4
<1>6. 1 \in DOMAIN t /\ t[1] # 0
  BY <1>1, <1>2, <1>3, <1>4, <1>5
<1>7. DigitAt(t, 1) # 0
  BY <1>6 DEF DigitAt
<1>8. ASSUME NEW i \in Nat \ {0} PROVE DigitAt(s, z + i) = DigitAt(t, i)
  <2>1. CASE i <= last - z
    <3>1. i \in DOMAIN t /\ z + i \in DOMAIN s
      BY <1>2, <1>3, <1>5, <2>1
    <3> QED BY <1>4, <1>5, <3>1 DEF DigitAt
  <2>2. CASE ~(i <= last - z)
    <3>1. i \notin DOMAIN t /\ z + i > last /\ z + i \in Nat
      BY <1>2, <1>3, <1>5, <2>2
    <3>2. z + i \notin NonZero(s)
      BY <1>1, <1>2, <1>3, <3>1
    <3> QED BY <3>1, <3>2 DEF DigitAt, NonZero
  <2> QED BY <2>1, <2>2
<1> DEFINE S == {n \in Nat : Leading(s, z + n) = Leading(t, n)}
<1>9. 0 \in S
  <2>1. \A i \in 1 .. z : i \notin NonZero(s)
    BY <1>1, <1>2
  <2>2. \A i \in 1 .. z : DigitAt(s, i) = 0
    BY <2>1 DEF DigitAt, NonZero
  <2>3. Leading(s, z) = 0
    BY <2>2, ZeroDigits
  <2> QED BY <2>3, LeadingStep
<1>10. ASSUME NEW n \in Nat, n \in S PROVE n + 1 \in S
  <2>1. z + n \in Nat /\ z + n + 1 = z + (n + 1)
    OBVIOUS
  <2>2. DigitAt(s, z + (n + 1)) = DigitAt(t, n + 1)
    BY <1>8
  <2>3. Leading(s, z + (n + 1)) = 10 * Leading(s, z + n) + DigitAt(s, z + (n + 1))
    BY <2>1, LeadingStep
  <2>4. Leading(t, n + 1) = 10 * Leading(t, n) + DigitAt(t, n + 1)
    BY LeadingStep
  <2> QED BY <1>10, <2>2, <2>3, <2>4
<1> HIDE DEF S
<1>11. \A n \in Nat : n \in S
  BY <1>9, <1>10, NaturalNumbers
<1>12. \A m, n \in Nat : m = z + n => Leading(s, m) = Leading(t, n)
  BY <1>11 DEF S
<1>13. Len(t) \in Nat /\ z + Len(t) <= Len(s) /\ Len(t) > 0
  BY <1>2, <1>3, <1>4
<1> QED BY <1>4, <1>6, <1>7, <1>12, <1>13

------------------------------------------------------------------------------
(* Parsed numerals                                                         *)

\* The digits of a numeral.
LEMMA NumeralType ==
  ASSUME NEW n \in Numerals
  PROVE  /\ n.int \o n.frac \in Seq(Digit) /\ Len(n.int \o n.frac) = Len(n.int) + Len(n.frac)
         /\ Len(n.int) \in Nat /\ Len(n.frac) \in Nat /\ n.exp \in Int /\ n.neg \in BOOLEAN
         /\ Unit(n) \in Int /\ Unit(n) = n.exp - Len(n.frac)
<1>1. n.int \in Seq(Digit) /\ n.frac \in Seq(Digit) /\ n.exp \in Int /\ n.neg \in BOOLEAN
  BY DEF Numerals
<1>2. n.int \o n.frac \in Seq(Digit) /\ Len(n.int \o n.frac) = Len(n.int) + Len(n.frac)
  BY <1>1
<1> QED BY <1>1, <1>2 DEF Unit

\* Zero parsed, and the amount of it.
LEMMA ParsedZero ==
  ASSUME NEW n \in Numerals, IsZero(n), NEW unit \in Int, unit <= Unit(n)
  PROVE  Parse(n) = [neg |-> FALSE, digits |-> <<0>>, exp |-> 0] /\ Amount(n, unit) = 0
<1> DEFINE s == n.int \o n.frac
           w == Len(n.int) + n.exp - unit
<1>1. s \in Seq(Digit) /\ w \in Nat
  BY NumeralType
<1>2. Parse(n) = [neg |-> FALSE, digits |-> <<0>>, exp |-> 0]
  BY DEF Parse, IsZero
<1>3. \A i \in 1 .. w : DigitAt(s, i) = 0
  BY DEF IsZero, NonZero, DigitAt
<1> HIDE DEF s, w
<1>4. Leading(s, w) = 0
  BY <1>1, <1>3, ZeroDigits
<1>5. Amount(n, unit) = 0
  BY <1>4 DEF Amount, s, w
<1> QED BY <1>2, <1>5

\* A number that is not zero parsed: its stripped digits, at the position of the
\* first, make its amount.
LEMMA ParsedNumber ==
  ASSUME NEW n \in Numerals, ~IsZero(n), NEW unit \in Int, unit <= Unit(n)
  PROVE  LET p == Parse(n)
             left == p.exp + Len(p.digits)
         IN  /\ p.digits \in Seq(Digit) /\ p.exp \in Int /\ p.neg = n.neg
             /\ 1 \in DOMAIN p.digits /\ p.digits[1] # 0 /\ DigitAt(p.digits, 1) # 0
             /\ left \in Int /\ left - unit \in Nat /\ left - unit >= Len(p.digits)
             /\ Amount(n, unit) = IF n.neg THEN -Leading(p.digits, left - unit)
                                           ELSE Leading(p.digits, left - unit)
             /\ Fraction(n) <=> ~n.neg /\ left < 1
<1>1. PICK s : s = n.int \o n.frac
  OBVIOUS
<1>2. s \in Seq(Digit) /\ NonZero(s) # {}
  BY <1>1, NumeralType DEF IsZero
<1>3. /\ Len(s) = Len(n.int) + Len(n.frac) /\ Len(n.int) \in Nat
      /\ Len(n.frac) \in Nat /\ n.exp \in Int /\ unit <= n.exp - Len(n.frac)
  BY <1>1, NumeralType
<1>4. PICK first : /\ first = CHOOSE i \in NonZero(s) : \A j \in NonZero(s) : i <= j
                   /\ first \in NonZero(s) /\ \A j \in NonZero(s) : first <= j
  <2>1. \E i \in NonZero(s) : \A j \in NonZero(s) : i <= j
    BY <1>2, OuterDigits
  <2> QED BY <2>1
<1>5. PICK last : /\ last = CHOOSE i \in NonZero(s) : \A j \in NonZero(s) : i >= j
                  /\ last \in NonZero(s) /\ \A j \in NonZero(s) : last >= j
  <2>1. \E i \in NonZero(s) : \A j \in NonZero(s) : i >= j
    BY <1>2, OuterDigits
  <2> QED BY <2>1
<1>6. first \in 1 .. Len(s) /\ last \in 1 .. Len(s) /\ Len(s) \in Nat
  <2>1. NonZero(s) \subseteq 1 .. Len(s) /\ Len(s) \in Nat
    BY <1>2 DEF NonZero
  <2> QED BY <1>4, <1>5, <2>1
<1>7. PICK z \in Nat : first = z + 1
  BY <1>6
<1>8. PICK t : t = SubSeq(s, first, last)
  OBVIOUS
<1>9. Outer(s, t, z)
  BY <1>4, <1>5, <1>7, <1>8 DEF Outer
<1>10. /\ t \in Seq(Digit) /\ Len(t) \in Nat /\ Len(t) = last - z /\ Len(t) > 0
       /\ DigitAt(t, 1) # 0 /\ 1 \in DOMAIN t /\ t[1] # 0
       /\ \A m, k \in Nat : m = z + k => Leading(s, m) = Leading(t, k)
  <2>1. z \in Nat /\ Outer(s, t, z)
    BY <1>9
  <2>2. Len(t) = last - z
    BY <1>2, <1>4, <1>5, <1>6, <1>7, <1>8
  <2> QED BY <1>2, <2>1, <2>2, StrippedDigits
<1>11. PICK e : e = n.exp - Len(n.frac) + (Len(s) - last)
  OBVIOUS
<1>12. Parse(n).digits = t /\ Parse(n).exp = e /\ Parse(n).neg = n.neg
  BY <1>1, <1>2, <1>4, <1>5, <1>8, <1>11 DEF Parse
<1>13. PICK int \in Nat, frac \in Nat : int = Len(n.int) /\ frac = Len(n.frac)
  BY <1>3
<1>14. n.exp \in Int /\ unit <= n.exp - frac /\ Len(s) = int + frac /\ last <= int + frac
  <2>1. n.exp \in Int /\ unit <= n.exp - frac /\ Len(s) = int + frac
    BY <1>3, <1>13
  <2>2. last <= Len(s)
    BY <1>6
  <2> QED BY <2>1, <2>2
<1>15. PICK left : left = e + Len(t)
  OBVIOUS
<1>16. e \in Int /\ left = int + n.exp - z /\ left \in Int
  <2>1. e = n.exp - frac + ((int + frac) - last)
    BY <1>11, <1>13, <1>14
  <2>2. Len(t) = last - z
    BY <1>10
  <2>3. left = e + (last - z)
    BY <1>15, <2>2
  <2> QED BY <1>6, <1>14, <2>1, <2>3
<1>17. left - unit \in Nat /\ left - unit >= Len(t)
  <2>1. Len(t) = last - z /\ last - z > 0
    BY <1>10
  <2>2. left - unit >= last - z
    BY <1>6, <1>14, <1>16
  <2> QED BY <1>6, <1>16, <2>1, <2>2
<1>18. int + n.exp - unit \in Nat /\ int + n.exp - unit = z + (left - unit)
  <2>1. left = int + n.exp - z /\ left - unit \in Nat /\ left \in Int
    BY <1>16, <1>17
  <2>2. n.exp \in Int
    BY <1>14
  <2>3. int + n.exp - unit = z + (left - unit)
    BY <2>1, <2>2
  <2> QED BY <2>1, <2>3
<1>19. Leading(s, Len(n.int) + n.exp - unit) = Leading(t, left - unit)
  BY <1>10, <1>13, <1>17, <1>18
<1>20. Amount(n, unit) = IF n.neg THEN -Leading(t, left - unit) ELSE Leading(t, left - unit)
  BY <1>1, <1>19 DEF Amount
<1>21. Fraction(n) <=> ~n.neg /\ left < 1
  <2>1. Fraction(n) <=> ~n.neg /\ \A i \in NonZero(s) : i > Len(n.int) + n.exp
    BY <1>1 DEF Fraction
  <2>2. (\A i \in NonZero(s) : i > Len(n.int) + n.exp) <=> first > Len(n.int) + n.exp
    <3>1. NonZero(s) \subseteq Int
      BY <1>2 DEF NonZero
    <3> QED BY <1>3, <1>4, <3>1
  <2>3. z + 1 > int + n.exp <=> left < 1
    BY <1>14, <1>16
  <2> QED BY <1>7, <1>13, <2>1, <2>2, <2>3
<1> QED BY <1>10, <1>12, <1>15, <1>16, <1>17, <1>20, <1>21

------------------------------------------------------------------------------
(* The comparison                                                          *)

\* The sign of a difference.
LEMMA SignOfDifference ==
  ASSUME NEW a \in Int, NEW b \in Int
  PROVE  /\ Sign(a - b) \in {-1, 0, 1}
         /\ a < b <=> Sign(a - b) = -1
         /\ a = b <=> Sign(a - b) = 0
         /\ a > b <=> Sign(a - b) = 1
BY DEF Sign

\* Digits at the same position are compared as the numbers they make.
LEMMA ComparedDigits ==
  ASSUME NEW s \in Seq(Digit), NEW t \in Seq(Digit), NEW w \in Nat, Len(s) <= w, Len(t) <= w
  PROVE  CompareDigits(s, t) = Sign(Leading(s, w) - Leading(t, w))
<1>1. PICK width \in Nat : /\ width = (IF Len(s) > Len(t) THEN Len(s) ELSE Len(t))
                           /\ width <= w /\ width >= Len(s) /\ width >= Len(t)
  OBVIOUS
<1>2. PICK diff : diff = {i \in 1 .. width : DigitAt(s, i) # DigitAt(t, i)}
  OBVIOUS
<1>3. CASE diff = {}
  <2>1. CompareDigits(s, t) = 0
    BY <1>1, <1>2, <1>3 DEF CompareDigits
  <2>2. DOMAIN s = 1 .. Len(s) /\ DOMAIN t = 1 .. Len(t) /\ Len(s) \in Nat /\ Len(t) \in Nat
    OBVIOUS
  <2>3. \A i \in 1 .. w : DigitAt(s, i) = DigitAt(t, i)
    <3> TAKE i \in 1 .. w
    <3>1. CASE i <= width
      BY <1>2, <1>3, <3>1
    <3>2. CASE i > width
      <4>1. i \notin DOMAIN s /\ i \notin DOMAIN t
        <5>1. width >= Len(s) /\ width >= Len(t)
          BY <1>1
        <5>2. i > Len(s) /\ i > Len(t)
          BY <2>2, <3>2, <5>1
        <5> QED BY <2>2, <5>2
      <4> QED BY <4>1 DEF DigitAt
    <3> QED BY <3>1, <3>2
  <2>4. Leading(s, w) = Leading(t, w) /\ Leading(s, w) \in Nat
    BY <2>3, SameDigits, LeadingType
  <2> QED BY <2>1, <2>4, SignOfDifference
<1>4. CASE diff # {}
  <2>1. PICK f : /\ f = CHOOSE i \in diff : \A j \in diff : i <= j
                 /\ f \in diff /\ \A j \in diff : f <= j
    <3>1. diff \subseteq Nat
      BY <1>2
    <3>2. \E i \in diff : \A j \in diff : i <= j
      BY <1>4, <3>1, LeastNumber
    <3> QED BY <3>2
  <2>2. CompareDigits(s, t) = Sign(DigitAt(s, f) - DigitAt(t, f))
    BY <1>1, <1>2, <1>4, <2>1 DEF CompareDigits
  <2>3. f \in 1 .. w /\ DigitAt(s, f) # DigitAt(t, f)
    BY <1>1, <1>2, <2>1
  <2>4. \A i \in 1 .. f - 1 : DigitAt(s, i) = DigitAt(t, i)
    <3> SUFFICES ASSUME NEW i \in 1 .. f - 1, DigitAt(s, i) # DigitAt(t, i) PROVE FALSE
      OBVIOUS
    <3>1. f \in 1 .. width
      BY <1>2, <2>1
    <3>2. i \in 1 .. width /\ ~(f <= i)
      BY <3>1
    <3>3. i \in diff
      BY <1>2, <3>2
    <3> QED BY <2>1, <3>2, <3>3
  <2>5. PICK d \in 0 .. 9, e \in 0 .. 9 : d = DigitAt(s, f) /\ e = DigitAt(t, f)
    BY DigitAtType
  <2>6. PICK a \in Nat, b \in Nat : a = Leading(s, w) /\ b = Leading(t, w)
    BY LeadingType
  <2>7. CASE DigitAt(s, f) < DigitAt(t, f)
    <3>1. Leading(s, w) < Leading(t, w)
      BY <2>3, <2>4, <2>7, FirstDifference
    <3>2. d < e /\ a < b
      BY <2>5, <2>6, <2>7, <3>1
    <3>3. Sign(d - e) = Sign(a - b)
      BY <3>2 DEF Sign
    <3> QED BY <2>2, <2>5, <2>6, <3>3
  <2>8. CASE DigitAt(t, f) < DigitAt(s, f)
    <3>1. \A i \in 1 .. f - 1 : DigitAt(t, i) = DigitAt(s, i)
      BY <2>4
    <3>2. Leading(t, w) < Leading(s, w)
      BY <2>3, <2>8, <3>1, FirstDifference
    <3>3. d > e /\ a > b
      BY <2>5, <2>6, <2>8, <3>2
    <3>4. Sign(d - e) = Sign(a - b)
      BY <3>3 DEF Sign
    <3> QED BY <2>2, <2>5, <2>6, <3>4
  <2> QED BY <2>3, <2>5, <2>7, <2>8
<1> QED BY <1>3, <1>4

\* Zero's digit against digits whose first is no zero.
LEMMA ZeroBeforeDigits ==
  ASSUME NEW s \in Seq(Digit), DigitAt(s, 1) # 0
  PROVE  CompareDigits(<<0>>, s) = -1 /\ CompareDigits(s, <<0>>) = 1
<1>1. PICK z : z = <<0>>
  OBVIOUS
<1>2. z \in Seq(Digit) /\ Len(z) = 1 /\ DOMAIN z = {1} /\ z[1] = 0
  BY <1>1 DEF Digit
<1>3. PICK w \in Nat : w = Len(s) /\ w >= 1
  <2>1. PICK w \in Nat : w = Len(s) /\ DOMAIN s = 1 .. w
    OBVIOUS
  <2>2. 1 \in 1 .. w
    BY <2>1 DEF DigitAt
  <2> QED BY <2>1, <2>2
<1>4. PICK a \in Nat, b \in Nat : a = Leading(z, w) /\ b = Leading(s, w)
  BY <1>2, LeadingType
<1>5. CompareDigits(z, s) = Sign(a - b) /\ CompareDigits(s, z) = Sign(b - a)
  <2>1. Len(z) <= w /\ Len(s) <= w
    BY <1>2, <1>3
  <2>2. /\ CompareDigits(z, s) = Sign(Leading(z, w) - Leading(s, w))
        /\ CompareDigits(s, z) = Sign(Leading(s, w) - Leading(z, w))
    BY <1>2, <2>1, ComparedDigits
  <2> QED BY <1>4, <2>2
<1>6. a < b
  <2>1. \A i \in 1 .. 1 - 1 : DigitAt(z, i) = DigitAt(s, i)
    OBVIOUS
  <2>2. DigitAt(z, 1) < DigitAt(s, 1)
    <3>1. DigitAt(z, 1) = 0
      BY <1>2 DEF DigitAt
    <3>2. DigitAt(s, 1) \in 1 .. 9
      BY DigitAtType
    <3> QED BY <3>1, <3>2
  <2>3. 1 \in 1 .. w
    BY <1>3
  <2>4. Leading(z, w) < Leading(s, w)
    BY <1>2, <2>1, <2>2, <2>3, FirstDifference
  <2> QED BY <1>4, <2>4
<1>7. Sign(a - b) = -1 /\ Sign(b - a) = 1
  BY <1>6 DEF Sign
<1> QED BY <1>1, <1>5, <1>7

\* A parsed number whose first digit, no zero, has the position left; in the given
\* unit it has w places.
Stands(p, unit, left, w) ==
  /\ p.digits \in Seq(Digit) /\ DigitAt(p.digits, 1) # 0
  /\ left = p.exp + Len(p.digits)
  /\ w = left - unit /\ Len(p.digits) <= w

\* So are digits at any positions: the sizes of two parsed numbers.
LEMMA ComparedMagnitudes ==
  ASSUME NEW l, NEW r, NEW unit \in Int, NEW left \in Int, NEW right \in Int,
         NEW v \in Nat, NEW w \in Nat, Stands(l, unit, left, v), Stands(r, unit, right, w)
  PROVE  CompareMagnitude(l, r) = Sign(Leading(l.digits, v) - Leading(r.digits, w))
<1> USE DEF Stands
<1>1. CompareMagnitude(l, r) = IF left # right THEN Sign(left - right)
                                               ELSE CompareDigits(l.digits, r.digits)
  BY DEF CompareMagnitude
<1>2. PICK a \in Nat, b \in Nat : a = Leading(l.digits, v) /\ b = Leading(r.digits, w)
  BY LeadingType
<1>3. CASE left = right
  <2>1. v = w
    BY <1>3
  <2>2. /\ l.digits \in Seq(Digit) /\ r.digits \in Seq(Digit)
        /\ Len(l.digits) <= v /\ Len(r.digits) <= v
    BY <2>1
  <2>3. CompareDigits(l.digits, r.digits) = Sign(Leading(l.digits, v) - Leading(r.digits, v))
    BY <2>2, ComparedDigits
  <2> QED BY <1>1, <1>2, <1>3, <2>1, <2>3
<1>4. CASE left < right
  <2>1. v < w
    BY <1>4
  <2>2. a < b
    BY <1>2, <2>1, MoreDigits
  <2>3. Sign(left - right) = -1 /\ Sign(a - b) = -1
    BY <1>4, <2>2 DEF Sign
  <2> QED BY <1>1, <1>2, <1>4, <2>3
<1>5. CASE left > right
  <2>1. w < v
    BY <1>5
  <2>2. b < a
    BY <1>2, <2>1, MoreDigits
  <2>3. Sign(left - right) = 1 /\ Sign(a - b) = 1
    BY <1>5, <2>2 DEF Sign
  <2> QED BY <1>1, <1>2, <1>5, <2>3
<1> QED BY <1>3, <1>4, <1>5

\* What is parsed of a number that is not zero: no zero, of a size above zero at the
\* position of its first digit.
LEMMA NumberHasSize ==
  ASSUME NEW n \in Numerals, ~IsZero(n), NEW unit \in Int, unit <= Unit(n)
  PROVE  \E left \in Int, w \in Nat, size \in Nat :
           /\ Stands(Parse(n), unit, left, w) /\ Parse(n).digits # <<0>>
           /\ Parse(n).neg = n.neg /\ n.neg \in BOOLEAN
           /\ size = Leading(Parse(n).digits, w) /\ size > 0
           /\ Amount(n, unit) = IF n.neg THEN -size ELSE size
           /\ Fraction(n) <=> ~n.neg /\ left < 1
<1>1. PICK t, left : t = Parse(n).digits /\ left = Parse(n).exp + Len(t)
  OBVIOUS
<1>2. /\ t \in Seq(Digit) /\ Parse(n).neg = n.neg /\ 1 \in DOMAIN t /\ t[1] # 0
      /\ DigitAt(t, 1) # 0 /\ left \in Int /\ left - unit \in Nat /\ left - unit >= Len(t)
      /\ Amount(n, unit) = IF n.neg THEN -Leading(t, left - unit) ELSE Leading(t, left - unit)
      /\ Fraction(n) <=> ~n.neg /\ left < 1
  BY <1>1, ParsedNumber
<1>3. PICK w \in Nat : w = left - unit
  BY <1>2
<1>4. t # <<0>>
  BY <1>2
<1>5. Len(t) <= w /\ w > 0
  <2>1. Len(t) \in Nat /\ Len(t) > 0
    BY <1>2
  <2> QED BY <1>2, <1>3, <2>1
<1>6. PICK size \in Nat : size = Leading(t, w)
  BY <1>2, LeadingType
<1>7. size > 0
  <2>1. Leading(t, 0) < Leading(t, w) /\ Leading(t, 0) = 0
    BY <1>2, <1>5, MoreDigits, LeadingStep
  <2> QED BY <1>6, <2>1
<1>8. n.neg \in BOOLEAN
  BY NumeralType
<1> QED BY <1>1, <1>2, <1>3, <1>4, <1>5, <1>6, <1>7, <1>8 DEF Stands

\* A numeral's amount in the common unit of two is an integer.
LEMMA AmountType ==
  ASSUME NEW n \in Numerals, NEW unit \in Int, unit <= Unit(n)
  PROVE  Amount(n, unit) \in Int
<1>1. CASE IsZero(n)
  BY <1>1, ParsedZero
<1>2. CASE ~IsZero(n)
  <2>1. PICK size \in Nat : Amount(n, unit) = IF n.neg THEN -size ELSE size
    BY <1>2, NumberHasSize
  <2>2. n.neg \in BOOLEAN
    BY NumeralType
  <2> QED BY <2>1, <2>2
<1> QED BY <1>1, <1>2

\* Two numerals are whole in their common unit.
LEMMA CommonUnitType ==
  ASSUME NEW a \in Numerals, NEW b \in Numerals
  PROVE  /\ CommonUnit(a, b) \in Int
         /\ CommonUnit(a, b) <= Unit(a) /\ CommonUnit(a, b) <= Unit(b)
         /\ Amount(a, CommonUnit(a, b)) \in Int /\ Amount(b, CommonUnit(a, b)) \in Int
<1>1. PICK u \in Int, v \in Int : u = Unit(a) /\ v = Unit(b)
  BY NumeralType
<1>2. CommonUnit(a, b) \in Int /\ CommonUnit(a, b) <= u /\ CommonUnit(a, b) <= v
  BY <1>1 DEF CommonUnit
<1> QED BY <1>1, <1>2, AmountType

\* Two numbers that are not zero are compared as numbers.
LEMMA ComparedNumbers ==
  ASSUME NEW a \in Numerals, NEW b \in Numerals, ~IsZero(a), ~IsZero(b)
  PROVE  CompareNumbers(a, b) = Sign(Difference(a, b))
<1>1. PICK unit \in Int : unit = CommonUnit(a, b) /\ unit <= Unit(a) /\ unit <= Unit(b)
  BY CommonUnitType
<1>2. PICK l, r : l = Parse(a) /\ r = Parse(b)
  OBVIOUS
<1>3. PICK left \in Int, v \in Nat, c \in Nat :
        /\ Stands(l, unit, left, v) /\ l.digits # <<0>> /\ l.neg = a.neg /\ a.neg \in BOOLEAN
        /\ c = Leading(l.digits, v) /\ c > 0
        /\ Amount(a, unit) = IF a.neg THEN -c ELSE c
  BY <1>1, <1>2, NumberHasSize
<1>4. PICK right \in Int, w \in Nat, d \in Nat :
        /\ Stands(r, unit, right, w) /\ r.digits # <<0>> /\ r.neg = b.neg /\ b.neg \in BOOLEAN
        /\ d = Leading(r.digits, w) /\ d > 0
        /\ Amount(b, unit) = IF b.neg THEN -d ELSE d
  BY <1>1, <1>2, NumberHasSize
<1>5. CompareMagnitude(l, r) = Sign(c - d)
  <2>1. CompareMagnitude(l, r) = Sign(Leading(l.digits, v) - Leading(r.digits, w))
    BY <1>3, <1>4, ComparedMagnitudes
  <2> QED BY <1>3, <1>4, <2>1
<1>6. Difference(a, b) = (IF a.neg THEN -c ELSE c) - (IF b.neg THEN -d ELSE d)
  BY <1>1, <1>3, <1>4 DEF Difference
<1>7. CompareNumbers(a, b) =
        IF a.neg # b.neg THEN (IF a.neg THEN -1 ELSE 1)
        ELSE IF a.neg THEN -CompareMagnitude(l, r) ELSE CompareMagnitude(l, r)
  BY <1>2, <1>3, <1>4 DEF CompareNumbers
<1>8. c > 0 /\ d > 0
  BY <1>3, <1>4
<1>9. CASE a.neg /\ b.neg
  <2>1. Difference(a, b) = d - c
    BY <1>6, <1>9
  <2>2. -Sign(c - d) = Sign(d - c)
    BY DEF Sign
  <2> QED BY <1>5, <1>7, <1>9, <2>1, <2>2
<1>10. CASE a.neg /\ ~b.neg
  <2>1. Difference(a, b) = -c - d
    BY <1>6, <1>10
  <2>2. Sign(-c - d) = -1
    BY <1>8 DEF Sign
  <2> QED BY <1>7, <1>10, <2>1, <2>2
<1>11. CASE ~a.neg /\ b.neg
  <2>1. Difference(a, b) = c - (-d)
    BY <1>6, <1>11
  <2>2. Sign(c - (-d)) = 1
    BY <1>8 DEF Sign
  <2> QED BY <1>7, <1>11, <2>1, <2>2
<1>12. CASE ~a.neg /\ ~b.neg
  <2>1. Difference(a, b) = c - d
    BY <1>6, <1>12
  <2>2. a.neg = b.neg
    BY <1>3, <1>4, <1>12
  <2>3. CompareNumbers(a, b) = CompareMagnitude(l, r)
    BY <1>7, <1>12, <2>2
  <2> QED BY <1>5, <2>1, <2>3
<1> QED BY <1>3, <1>4, <1>9, <1>10, <1>11, <1>12

\* Zero against a number that is not: which is larger is told by the other's sign, but
\* a positive number below one counts as less than zero.
LEMMA ComparedWithZero ==
  ASSUME NEW a \in Numerals, NEW b \in Numerals, IsZero(a), ~IsZero(b)
  PROVE  /\ CompareNumbers(a, b) = IF b.neg \/ Fraction(b) THEN 1 ELSE -1
         /\ CompareNumbers(b, a) = IF b.neg \/ Fraction(b) THEN -1 ELSE 1
         /\ Sign(Difference(a, b)) = IF b.neg THEN 1 ELSE -1
         /\ Sign(Difference(b, a)) = IF b.neg THEN -1 ELSE 1
         /\ Difference(a, b) \in Int \ {0} /\ Difference(b, a) \in Int \ {0}
<1>1. PICK unit \in Int : unit = CommonUnit(a, b) /\ unit <= Unit(a) /\ unit <= Unit(b)
  BY CommonUnitType
<1>2. CommonUnit(b, a) = unit
  <2>1. PICK u \in Int, v \in Int : u = Unit(a) /\ v = Unit(b)
    BY NumeralType
  <2> QED BY <1>1, <2>1 DEF CommonUnit
<1>3. Parse(a) = [neg |-> FALSE, digits |-> <<0>>, exp |-> 0] /\ Amount(a, unit) = 0
  BY <1>1, ParsedZero
<1>4. PICK r : r = Parse(b)
  OBVIOUS
<1>5. PICK right \in Int, w \in Nat, d \in Nat :
        /\ Stands(r, unit, right, w) /\ r.digits # <<0>> /\ r.neg = b.neg /\ b.neg \in BOOLEAN
        /\ d > 0 /\ Amount(b, unit) = IF b.neg THEN -d ELSE d
        /\ Fraction(b) <=> ~b.neg /\ right < 1
  BY <1>1, <1>4, NumberHasSize
<1>6. PICK z : z = [neg |-> FALSE, digits |-> <<0>>, exp |-> 0]
  OBVIOUS
<1>7. CompareNumbers(a, b) = IF b.neg THEN 1 ELSE CompareMagnitude(z, r)
  <2>1. Parse(a) = z /\ Parse(b) = r /\ z.digits = <<0>> /\ z.neg = FALSE
    BY <1>3, <1>4, <1>6
  <2>2. r.digits # <<0>> /\ r.neg = b.neg /\ b.neg \in BOOLEAN
    BY <1>5
  <2>3. CASE b.neg
    BY <2>1, <2>2, <2>3 DEF CompareNumbers
  <2>4. CASE ~b.neg
    BY <2>1, <2>2, <2>4 DEF CompareNumbers
  <2> QED BY <2>3, <2>4
<1>8. CompareNumbers(b, a) = IF b.neg THEN -1 ELSE CompareMagnitude(r, z)
  <2>1. Parse(a) = z /\ Parse(b) = r /\ z.digits = <<0>> /\ z.neg = FALSE
    BY <1>3, <1>4, <1>6
  <2>2. r.digits # <<0>> /\ r.neg = b.neg /\ b.neg \in BOOLEAN
    BY <1>5
  <2>3. CASE b.neg
    BY <2>1, <2>2, <2>3 DEF CompareNumbers
  <2>4. CASE ~b.neg
    BY <2>1, <2>2, <2>4 DEF CompareNumbers
  <2> QED BY <2>3, <2>4
<1>9. z.exp + Len(z.digits) = 1 /\ z.digits = <<0>>
  BY <1>6
<1>10. right = r.exp + Len(r.digits) /\ r.digits \in Seq(Digit) /\ DigitAt(r.digits, 1) # 0
  BY <1>5 DEF Stands
<1>11. CompareMagnitude(z, r) = IF right < 1 THEN 1 ELSE -1
  <2>1. CASE right # 1
    <3>1. CompareMagnitude(z, r) = Sign(1 - right)
      BY <1>9, <1>10, <2>1 DEF CompareMagnitude
    <3>2. Sign(1 - right) = IF right < 1 THEN 1 ELSE -1
      BY <2>1 DEF Sign
    <3> QED BY <3>1, <3>2
  <2>2. CASE right = 1
    <3>1. CompareMagnitude(z, r) = CompareDigits(<<0>>, r.digits)
      BY <1>9, <1>10, <2>2 DEF CompareMagnitude
    <3>2. CompareDigits(<<0>>, r.digits) = -1
      BY <1>10, ZeroBeforeDigits
    <3> QED BY <2>2, <3>1, <3>2
  <2> QED BY <2>1, <2>2
<1>12. CompareMagnitude(r, z) = IF right < 1 THEN -1 ELSE 1
  <2>1. CASE right # 1
    <3>1. CompareMagnitude(r, z) = Sign(right - 1)
      BY <1>9, <1>10, <2>1 DEF CompareMagnitude
    <3>2. Sign(right - 1) = IF right < 1 THEN -1 ELSE 1
      BY <2>1 DEF Sign
    <3> QED BY <3>1, <3>2
  <2>2. CASE right = 1
    <3>1. CompareMagnitude(r, z) = CompareDigits(r.digits, <<0>>)
      BY <1>9, <1>10, <2>2 DEF CompareMagnitude
    <3>2. CompareDigits(r.digits, <<0>>) = 1
      BY <1>10, ZeroBeforeDigits
    <3> QED BY <2>2, <3>1, <3>2
  <2> QED BY <2>1, <2>2
<1>13. Difference(a, b) = 0 - (IF b.neg THEN -d ELSE d)
  BY <1>1, <1>3, <1>5 DEF Difference
<1>14. Difference(b, a) = (IF b.neg THEN -d ELSE d) - 0
  BY <1>2, <1>3, <1>5 DEF Difference
<1>15. /\ Difference(a, b) \in Int \ {0} /\ Difference(b, a) \in Int \ {0}
       /\ Sign(Difference(a, b)) = IF b.neg THEN 1 ELSE -1
       /\ Sign(Difference(b, a)) = IF b.neg THEN -1 ELSE 1
  <2>1. d > 0
    BY <1>5
  <2>2. CASE b.neg
    <3>1. Difference(a, b) = d /\ Difference(b, a) = -d
      BY <1>13, <1>14, <2>2
    <3> QED BY <2>1, <2>2, <3>1 DEF Sign
  <2>3. CASE ~b.neg
    <3>1. Difference(a, b) = -d /\ Difference(b, a) = d
      BY <1>13, <1>14, <2>3
    <3> QED BY <2>1, <2>3, <3>1 DEF Sign
  <2> QED BY <2>2, <2>3
<1> QED BY <1>5, <1>7, <1>8, <1>11, <1>12, <1>15

\* CompareNumbers says which of two numbers is larger, by the difference of what they
\* denote, for any digits and exponents, zero against a positive number below one
\* aside; and it always says whether they are equal (compareJSONNumbers).
THEOREM ComparisonIsNumeric ==
  ASSUME NEW a \in Numerals, NEW b \in Numerals
  PROVE  /\ ~ZeroAgainstFraction(a, b) => CompareNumbers(a, b) = Sign(Difference(a, b))
         /\ CompareNumbers(a, b) = 0 <=> Difference(a, b) = 0
         /\ Difference(a, b) \in Int
<1>1. Difference(a, b) \in Int
  BY CommonUnitType DEF Difference
<1>2. CASE IsZero(a) /\ IsZero(b)
  <2>1. CompareNumbers(a, b) = 0
    <3>1. Parse(a).digits = <<0>> /\ Parse(b).digits = <<0>>
      BY <1>2, ParsedZero, CommonUnitType
    <3> QED BY <3>1 DEF CompareNumbers
  <2>2. Difference(a, b) = 0
    <3>1. Amount(a, CommonUnit(a, b)) = 0 /\ Amount(b, CommonUnit(a, b)) = 0
      BY <1>2, ParsedZero, CommonUnitType
    <3> QED BY <3>1 DEF Difference
  <2> QED BY <2>1, <2>2 DEF Sign
<1>3. CASE IsZero(a) /\ ~IsZero(b)
  <2>1. Fraction(b) => ~b.neg /\ ZeroAgainstFraction(a, b)
    BY <1>3 DEF Fraction, ZeroAgainstFraction
  <2> QED BY <1>3, <2>1, ComparedWithZero
<1>4. CASE ~IsZero(a) /\ IsZero(b)
  <2>1. Fraction(a) => ~a.neg /\ ZeroAgainstFraction(a, b)
    BY <1>4 DEF Fraction, ZeroAgainstFraction
  <2> QED BY <1>4, <2>1, ComparedWithZero
<1>5. CASE ~IsZero(a) /\ ~IsZero(b)
  <2>1. CompareNumbers(a, b) = Sign(Difference(a, b))
    BY <1>5, ComparedNumbers
  <2> QED BY <1>1, <2>1 DEF Sign
<1> QED BY <1>1, <1>2, <1>3, <1>4, <1>5

------------------------------------------------------------------------------
(* The digits of a count                                                   *)

Written(f, n) ==
  f = [k \in 0 .. n |-> IF k < 10 THEN <<k>> ELSE Append(f[k \div 10], k % 10)]

\* Division by ten.
LEMMA DivisionByTen ==
  ASSUME NEW n \in Nat
  PROVE  \E q \in Nat, d \in 0 .. 9 : /\ q = n \div 10 /\ d = n % 10 /\ n = 10 * q + d
                                      /\ n >= 10 => q < n
<1>1. PICK q \in Nat, d \in 0 .. 9 : q = n \div 10 /\ d = n % 10
  OBVIOUS
<1>2. n = 10 * q + d
  BY <1>1
<1> QED BY <1>1, <1>2

\* The recursion that defines Digits has a solution.
LEMMA DigitsExist ==
  ASSUME NEW n \in Nat
  PROVE  \E f : Written(f, n)
<1> DEFINE S == {m \in Nat : \E f : Written(f, m)}
<1>1. 0 \in S
  <2>1. Written([k \in 0 .. 0 |-> <<k>>], 0)
    BY DEF Written
  <2> QED BY <2>1
<1>2. ASSUME NEW m \in Nat, m \in S PROVE m + 1 \in S
  <2>1. PICK f : Written(f, m)
    BY <1>2
  <2> DEFINE new == IF m + 1 < 10 THEN <<m + 1>> ELSE Append(f[(m + 1) \div 10], (m + 1) % 10)
             g == [k \in 0 .. m + 1 |-> IF k = m + 1 THEN new ELSE f[k]]
  <2>2. \A k \in 0 .. m : f[k] = IF k < 10 THEN <<k>> ELSE Append(f[k \div 10], k % 10)
    BY <2>1 DEF Written
  <2>3. \A k \in 0 .. m : g[k] = f[k]
    OBVIOUS
  <2>4. g[m + 1] = new
    OBVIOUS
  <2>5. g = [k \in 0 .. m + 1 |-> g[k]]
    OBVIOUS
  <2> HIDE DEF g
  <2>6. \A k \in 0 .. m + 1 : g[k] = IF k < 10 THEN <<k>> ELSE Append(g[k \div 10], k % 10)
    <3> TAKE k \in 0 .. m + 1
    <3>1. CASE k < 10
      <4>1. CASE k = m + 1
        BY <2>4, <3>1, <4>1
      <4>2. CASE k # m + 1
        <5>1. k \in 0 .. m
          BY <4>2
        <5> QED BY <2>2, <2>3, <3>1, <5>1
      <4> QED BY <4>1, <4>2
    <3>2. CASE ~(k < 10)
      <4>1. k \div 10 \in 0 .. m
        BY <3>2, DivisionByTen
      <4>2. CASE k = m + 1
        BY <2>3, <2>4, <3>2, <4>1, <4>2
      <4>3. CASE k # m + 1
        <5>1. k \in 0 .. m
          BY <4>3
        <5> QED BY <2>2, <2>3, <3>2, <4>1, <5>1
      <4> QED BY <4>2, <4>3
    <3> QED BY <3>1, <3>2
  <2>7. Written(g, m + 1)
    BY <2>5, <2>6 DEF Written
  <2> QED BY <2>7
<1> HIDE DEF S
<1>3. n \in S
  BY <1>1, <1>2, NaturalNumbers
<1> QED BY <1>3 DEF S

\* The digits of a number are those of its tenth and the last one, and they make the
\* number (json.Marshal of a count).
LEMMA DigitsOfCount ==
  ASSUME NEW n \in Nat
  PROVE  /\ Digits(n) \in Seq(Digit)
         /\ Len(Digits(n)) \in Nat /\ Leading(Digits(n), Len(Digits(n))) = n
<1> DEFINE Good(s, m) == /\ s \in Seq(Digit) /\ Len(s) \in Nat
                         /\ Leading(s, Len(s)) = m
<1>1. ASSUME NEW d \in 0 .. 9 PROVE Good(<<d>>, d)
  <2>1. PICK s : s = <<d>>
    OBVIOUS
  <2>2. s \in Seq(Digit) /\ Len(s) = 1 /\ DOMAIN s = {1} /\ s[1] = d
    BY <2>1 DEF Digit
  <2>3. DigitAt(s, 1) = d
    BY <2>2 DEF DigitAt
  <2>4. Leading(s, 0) = 0 /\ Leading(s, 0 + 1) = 10 * Leading(s, 0) + DigitAt(s, 0 + 1)
    BY LeadingStep
  <2> QED BY <2>1, <2>2, <2>3, <2>4
<1>2. ASSUME NEW s, NEW m \in Nat, NEW d \in 0 .. 9, Good(s, m)
      PROVE  Good(Append(s, d), 10 * m + d)
  <2>1. PICK w, t : w \in Nat /\ w = Len(s) /\ t = Append(s, d)
    BY <1>2
  <2>2. /\ t \in Seq(Digit) /\ Len(t) = w + 1 /\ t[w + 1] = d
        /\ DOMAIN t = 1 .. w + 1 /\ DOMAIN s = 1 .. w /\ \A i \in 1 .. w : t[i] = s[i]
    BY <1>2, <2>1 DEF Digit
  <2>3. \A i \in 1 .. w : DigitAt(t, i) = DigitAt(s, i)
    BY <2>1, <2>2 DEF DigitAt
  <2>4. DigitAt(t, w + 1) = d
    BY <2>1, <2>2 DEF DigitAt
  <2>5. Leading(t, w) = Leading(s, w)
    BY <1>2, <2>1, <2>2, <2>3, SameDigits
  <2>6. Leading(t, w + 1) = 10 * Leading(t, w) + DigitAt(t, w + 1)
    BY <2>1, LeadingStep
  <2> QED BY <1>2, <2>1, <2>2, <2>4, <2>5, <2>6
<1>3. PICK f : Written(f, n) /\ Digits(n) = f[n]
  <2> DEFINE f == CHOOSE f : Written(f, n)
  <2>1. Written(f, n)
    BY DigitsExist
  <2>2. Digits(n) = f[n]
    BY DEF Digits, Written
  <2> QED BY <2>1, <2>2
<1> DEFINE Bad == {k \in 0 .. n : ~Good(f[k], k)}
<1>4. Bad = {}
  <2> SUFFICES ASSUME Bad # {} PROVE FALSE
    OBVIOUS
  <2>1. PICK k \in Bad : \A j \in Bad : k <= j
    <3>1. Bad \subseteq Nat
      OBVIOUS
    <3> HIDE DEF Bad
    <3> QED BY <3>1, LeastNumber
  <2>2. f[k] = IF k < 10 THEN <<k>> ELSE Append(f[k \div 10], k % 10)
    BY <1>3, <2>1 DEF Written
  <2> HIDE DEF Good
  <2>3. CASE k < 10
    <3>1. k \in 0 .. 9
      BY <2>1, <2>3
    <3> QED BY <1>1, <2>1, <2>2, <2>3, <3>1
  <2>4. CASE ~(k < 10)
    <3>1. PICK q \in Nat, d \in 0 .. 9 : q = k \div 10 /\ d = k % 10 /\ k = 10 * q + d /\ q < k
      <4>1. k \in Nat /\ k >= 10
        BY <2>1, <2>4
      <4> QED BY <4>1, DivisionByTen
    <3>2. q \in 0 .. n /\ q \notin Bad
      BY <2>1, <3>1
    <3>3. Good(f[q], q)
      BY <3>2
    <3>4. Good(Append(f[q], d), 10 * q + d)
      BY <1>2, <3>1, <3>3
    <3> QED BY <2>1, <2>2, <2>4, <3>1, <3>4
  <2> QED BY <2>3, <2>4
<1>5. Good(f[n], n)
  BY <1>4
<1> QED BY <1>3, <1>5
=============================================================================
