------------------------------- MODULE Money -------------------------------
(***************************************************************************)
(* internal/model/money.go: an amount of minor units in one currency, held *)
(* in a signed machine integer.  The width of the integer is a parameter:  *)
(* MaxInt is math.MaxInt64 in the program and a small number in the runs.  *)
(*                                                                         *)
(* An operation of the program returns (Money, error); here it returns a   *)
(* record whose field err is "" when the field money is meaningful.        *)
(***************************************************************************)
EXTENDS Integers, Sequences

CONSTANTS MaxInt,       \* math.MaxInt64
          Currencies    \* the ISO codes validCurrency accepts

ASSUME MaxIntAssumption == MaxInt \in Nat \ {0}

MinInt == -MaxInt - 1
Int64 == MinInt..MaxInt

\* Money values that satisfy Money.Valid().
Money == [minor: Int64, currency: Currencies]

Ok(m) == [err |-> "", money |-> m]
Err(e) == [err |-> e]

InCurrency(c, minor) == [minor |-> minor, currency |-> c]
IsPositive(m) == m.minor > 0
IsZero(m) == m.minor = 0

\* What the machine integer holds after the sum or the difference of two
\* members of Int64: at most one wrap around its 2 * MaxInt + 2 values.
Wrap(x) == IF x > MaxInt THEN x - (2 * MaxInt + 2)
           ELSE IF x < MinInt THEN x + (2 * MaxInt + 2)
           ELSE x

-----------------------------------------------------------------------------
\* The overflow tests, computed in the machine integer itself.

AddOverflows(m, n) ==
  \/ n > 0 /\ m > Wrap(MaxInt - n)
  \/ n < 0 /\ m < Wrap(MinInt - n)

\* SubOverflows without the case of a negative subtrahend.
SubOverflowsPositiveOnly(m, n) == n > 0 /\ m < Wrap(MinInt + n)

SubOverflows(m, n) ==
  \/ n > 0 /\ m < Wrap(MinInt + n)
  \/ n < 0 /\ m > Wrap(MaxInt + n)

Add(m, n) ==
  IF m.currency # n.currency THEN Err("CURRENCY_MISMATCH")
  ELSE IF AddOverflows(m.minor, n.minor) THEN Err("OVERFLOW")
  ELSE Ok(InCurrency(m.currency, Wrap(m.minor + n.minor)))

Sub(m, n) ==
  IF m.currency # n.currency THEN Err("CURRENCY_MISMATCH")
  ELSE IF SubOverflows(m.minor, n.minor) THEN Err("OVERFLOW")
  ELSE Ok(InCurrency(m.currency, Wrap(m.minor - n.minor)))

Negate(m) ==
  IF m.minor = MinInt THEN Err("OVERFLOW")
  ELSE Ok(InCurrency(m.currency, -m.minor))

Order(a, b) ==
  CASE a < b -> -1
    [] a > b -> 1
    [] a = b -> 0

Compare(m, n) ==
  IF m.currency # n.currency THEN Err("CURRENCY_MISMATCH")
  ELSE [err |-> "", order |-> Order(m.minor, n.minor)]

-----------------------------------------------------------------------------
\* Go's integer division truncates towards zero.
Quo(a, b) == IF a < 0 THEN -((-a) \div b) ELSE a \div b
Rem(a, b) == a - b * Quo(a, b)

\* A decimal amount as text: its sign, its whole part and the digits after the
\* point ("7", "7.5" and "7.50" have none, one and two).
Amount(m) ==
  IF m.minor < 0
  THEN [negative |-> TRUE, whole |-> -Quo(m.minor, 100), cents |-> -Rem(m.minor, 100)]
  ELSE [negative |-> FALSE, whole |-> Quo(m.minor, 100), cents |-> Rem(m.minor, 100)]

\* One digit after the point means tenths: the code pads it with a zero.
CentsOf(digits) ==
  CASE Len(digits) = 0 -> 0
    [] Len(digits) = 1 -> 10 * digits[1]
    [] Len(digits) = 2 -> 10 * digits[1] + digits[2]

\* ParseMoney comparing the whole part only.
ParseMoneyWholeOnly(whole, digits, c) ==
  IF whole > MaxInt \div 100 THEN Err("OVERFLOW")
  ELSE Ok(InCurrency(c, Wrap(whole * 100 + CentsOf(digits))))

ParseMoney(whole, digits, c) ==
  IF \/ whole > MaxInt \div 100
     \/ whole = MaxInt \div 100 /\ CentsOf(digits) > MaxInt % 100
  THEN Err("OVERFLOW")
  ELSE Ok(InCurrency(c, Wrap(whole * 100 + CentsOf(digits))))
=============================================================================
