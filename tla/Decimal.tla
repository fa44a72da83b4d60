------------------------------- MODULE Decimal -------------------------------
(***************************************************************************)
(* Exact comparison of JSON numbers (internal/posturepolicy/number.go).    *)
(* A JSON number is a record of its sign, the digits before and after the  *)
(* point and its exponent; the digits are sequences of 0 .. 9.             *)
(***************************************************************************)
EXTENDS Integers, Sequences

Digit == 0 .. 9
Numerals == [neg : BOOLEAN, int : Seq(Digit), frac : Seq(Digit), exp : Int]
Numeral(neg, int, frac, exp) == [neg |-> neg, int |-> int, frac |-> frac, exp |-> exp]

\* The decimal digits of a natural number, as json.Marshal writes it.
Digits(n) ==
  LET of[k \in 0 .. n] == IF k < 10 THEN <<k>> ELSE Append(of[k \div 10], k % 10)
  IN  of[n]

NonZero(s) == {i \in DOMAIN s : s[i] # 0}

\* parseDecimalNumber: leading and trailing zeros go, into the exponent; every
\* zero is the same number.
Parse(n) ==
  LET digits == n.int \o n.frac
      first == CHOOSE i \in NonZero(digits) : \A j \in NonZero(digits) : i <= j
      last == CHOOSE i \in NonZero(digits) : \A j \in NonZero(digits) : i >= j
  IN  IF NonZero(digits) = {}
      THEN [neg |-> FALSE, digits |-> <<0>>, exp |-> 0]
      ELSE [neg |-> n.neg, digits |-> SubSeq(digits, first, last),
            exp |-> n.exp - Len(n.frac) + (Len(digits) - last)]

Sign(x) == IF x < 0 THEN -1 ELSE IF x > 0 THEN 1 ELSE 0

\* The digit at a place of a sequence, padded with zeros.
DigitAt(s, i) == IF i \in DOMAIN s THEN s[i] ELSE 0

\* The first digit at which two sequences, padded with zeros, differ.
CompareDigits(a, b) ==
  LET width == IF Len(a) > Len(b) THEN Len(a) ELSE Len(b)
      diff == {i \in 1 .. width : DigitAt(a, i) # DigitAt(b, i)}
      first == CHOOSE i \in diff : \A j \in diff : i <= j
  IN  IF diff = {} THEN 0 ELSE Sign(DigitAt(a, first) - DigitAt(b, first))

\* Mutant: the digits alone, whatever their position.
CompareMagnitudeOfDigits(l, r) == CompareDigits(l.digits, r.digits)

\* compareDecimalMagnitude: by the position of the first digit, then digit by
\* digit.
CompareMagnitude(l, r) ==
  LET left == l.exp + Len(l.digits)
      right == r.exp + Len(r.digits)
  IN  IF left # right THEN Sign(left - right) ELSE CompareDigits(l.digits, r.digits)

CompareNumbers(a, b) ==
  LET l == Parse(a)
      r == Parse(b)
  IN  CASE l.digits = <<0>> /\ r.digits = <<0>> -> 0
        [] ~(l.digits = <<0>> /\ r.digits = <<0>>) /\ l.neg # r.neg -> IF l.neg THEN -1 ELSE 1
        [] ~(l.digits = <<0>> /\ r.digits = <<0>>) /\ l.neg = r.neg ->
             IF l.neg THEN -CompareMagnitude(l, r) ELSE CompareMagnitude(l, r)

------------------------------------------------------------------------------
(* What a numeral denotes, the reference of the comparison.                *)

\* The number that the first w digits make, zeros being added to a shorter s.
Leading(s, w) ==
  LET of[i \in 0 .. w] == IF i = 0 THEN 0 ELSE 10 * of[i - 1] + DigitAt(s, i)
  IN  of[w]

\* The power of ten that the last digit of a numeral stands for, and a unit in
\* which two numerals both are whole.
Unit(n) == n.exp - Len(n.frac)
CommonUnit(a, b) == IF Unit(a) < Unit(b) THEN Unit(a) ELSE Unit(b)

\* A numeral as a multiple of ten to the power of unit, which is at most its own.
Amount(n, unit) ==
  LET size == Leading(n.int \o n.frac, Len(n.int) + n.exp - unit)
  IN  IF n.neg THEN -size ELSE size

\* Zero against a positive number below one.
IsZero(n) == NonZero(n.int \o n.frac) = {}
Fraction(n) ==
  /\ ~n.neg /\ ~IsZero(n)
  /\ \A i \in NonZero(n.int \o n.frac) : i > Len(n.int) + n.exp
ZeroAgainstFraction(a, b) == (IsZero(a) /\ Fraction(b)) \/ (Fraction(a) /\ IsZero(b))

\* By how much a exceeds b, in their common unit.
Difference(a, b) == Amount(a, CommonUnit(a, b)) - Amount(b, CommonUnit(a, b))
=============================================================================
