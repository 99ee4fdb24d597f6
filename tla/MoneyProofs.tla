---------------------------- MODULE MoneyProofs ----------------------------
(***************************************************************************)
(* The arithmetic and the decimals of Money, which the sweep compares on a *)
(* narrow integer, proved for machine integers of every width.             *)
(***************************************************************************)
EXTENDS MoneySweep, TLAPS

\* A result that fits is left as it is: nothing wraps.
LEMMA WrapInside ==
  ASSUME NEW x \in Int64
  PROVE  Wrap(x) = x
BY MaxIntAssumption DEF Int64, MinInt, Wrap

\* The test Add makes in the machine integer is exact: it finds an overflow if and
\* only if the sum does not fit (money.go:78).
THEOREM AddTestIsExact ==
  ASSUME NEW m \in Int64, NEW n \in Int64
  PROVE  AddOverflows(m, n) <=> m + n \notin Int64
<1>1. CASE n > 0
  <2>1. Wrap(MaxInt - n) = MaxInt - n
    BY <1>1, MaxIntAssumption DEF Int64, MinInt, Wrap
  <2> QED BY <1>1, <2>1, MaxIntAssumption DEF Int64, MinInt, AddOverflows
<1>2. CASE n < 0
  <2>1. Wrap(MinInt - n) = MinInt - n
    BY <1>2, MaxIntAssumption DEF Int64, MinInt, Wrap
  <2> QED BY <1>2, <2>1, MaxIntAssumption DEF Int64, MinInt, AddOverflows
<1>3. CASE n = 0
  BY <1>3, MaxIntAssumption DEF Int64, MinInt, AddOverflows
<1> QED BY <1>1, <1>2, <1>3 DEF Int64, MinInt

\* The same of Sub (money.go:98).
THEOREM SubTestIsExact ==
  ASSUME NEW m \in Int64, NEW n \in Int64
  PROVE  SubOverflows(m, n) <=> m - n \notin Int64
<1>1. CASE n > 0
  <2>1. Wrap(MinInt + n) = MinInt + n
    BY <1>1, MaxIntAssumption DEF Int64, MinInt, Wrap
  <2> QED BY <1>1, <2>1, MaxIntAssumption DEF Int64, MinInt, SubOverflows
<1>2. CASE n < 0
  <2>1. Wrap(MaxInt + n) = MaxInt + n
    BY <1>2, MaxIntAssumption DEF Int64, MinInt, Wrap
  <2> QED BY <1>2, <2>1, MaxIntAssumption DEF Int64, MinInt, SubOverflows
<1>3. CASE n = 0
  BY <1>3, MaxIntAssumption DEF Int64, MinInt, SubOverflows
<1> QED BY <1>1, <1>2, <1>3 DEF Int64, MinInt

\* Both integers of the sweep are machine integers.
LEMMA SweepTypes == Spec => [](left \in Int64 /\ right \in Int64)
<1>1. Init => left \in Int64 /\ right \in Int64
  BY MaxIntAssumption DEF Init, Int64, MinInt
<1>2. (left \in Int64 /\ right \in Int64) /\ [NextPair]_vars
        => (left \in Int64 /\ right \in Int64)'
  BY MaxIntAssumption DEF NextPair, vars, Int64, MinInt
<1> QED BY <1>1, <1>2, PTL DEF Spec

\* Add, Sub, Negate and Compare agree with the unbounded integers on every pair of
\* machine integers, whatever their width, and refuse every pair of currencies that
\* differ (money.go:75, 95, 105).
THEOREM ArithmeticCorrect == Spec => []ArithmeticIsExact
<1>1. ASSUME left \in Int64 /\ right \in Int64
      PROVE  ArithmeticIsExact
  <2> SUFFICES ASSUME NEW c \in Currencies, NEW d \in Currencies
               PROVE
                 LET m == InCurrency(c, left)
                     n == InCurrency(d, right) IN
                 IF c = d
                 THEN /\ Exactly(Add(m, n), c, left + right)
                      /\ Exactly(Sub(m, n), c, left - right)
                      /\ Exactly(Negate(m), c, -left)
                      /\ ComparesExactly(Compare(m, n))
                 ELSE {Add(m, n), Sub(m, n), Compare(m, n)} = {Err("CURRENCY_MISMATCH")}
    BY DEF ArithmeticIsExact
  <2> DEFINE m == InCurrency(c, left)
             n == InCurrency(d, right)
  <2>1. /\ m.minor = left /\ n.minor = right
        /\ m.currency = c /\ n.currency = d
    BY DEF InCurrency
  <2>2. CASE c # d
    BY <2>1, <2>2 DEF Add, Sub, Compare
  <2> SUFFICES ASSUME c = d
               PROVE  /\ Exactly(Add(m, n), c, left + right)
                      /\ Exactly(Sub(m, n), c, left - right)
                      /\ Exactly(Negate(m), c, -left)
                      /\ ComparesExactly(Compare(m, n))
    BY <2>2
  <2>3. Exactly(Add(m, n), c, left + right)
    <3>1. left + right \in Int64 => Wrap(left + right) = left + right
      BY WrapInside
    <3> QED BY <1>1, <2>1, <3>1, AddTestIsExact DEF Exactly, Add
  <2>4. Exactly(Sub(m, n), c, left - right)
    <3>1. left - right \in Int64 => Wrap(left - right) = left - right
      BY WrapInside
    <3> QED BY <1>1, <2>1, <3>1, SubTestIsExact DEF Exactly, Sub
  <2>5. Exactly(Negate(m), c, -left)
    <3>1. left = MinInt <=> -left \notin Int64
      BY <1>1, MaxIntAssumption DEF Int64, MinInt
    <3> QED BY <2>1, <3>1 DEF Exactly, Negate
  <2>6. ComparesExactly(Compare(m, n))
    <3> DEFINE r == [err |-> "", order |-> Order(left, right)]
    <3>1. Compare(m, n) = r
      BY <2>1 DEF Compare
    <3>2. r.err = "" /\ r.order = Order(left, right)
      OBVIOUS
    <3> HIDE DEF r
    <3>3. /\ Order(left, right) < 0 <=> left < right
          /\ Order(left, right) > 0 <=> left > right
      BY <1>1, MaxIntAssumption DEF Order, Int64, MinInt
    <3> QED BY <3>1, <3>2, <3>3 DEF ComparesExactly
  <2> QED BY <2>3, <2>4, <2>5, <2>6
<1> QED BY <1>1, SweepTypes, PTL

-----------------------------------------------------------------------------
\* Decimals.

\* Quotient and remainder by a hundred and by ten, as the provers know them.
LEMMA Hundreds ==
  ASSUME NEW x \in Nat
  PROVE  /\ x \div 100 \in Nat /\ x % 100 \in 0..99
         /\ x % 100 = x - 100 * (x \div 100)
         /\ x = 100 * (x \div 100) + (x % 100)
OBVIOUS

\* The same by ten.
LEMMA Tens ==
  ASSUME NEW x \in Nat
  PROVE  /\ x \div 10 \in Nat /\ x % 10 \in 0..9
         /\ x = 10 * (x \div 10) + (x % 10)
OBVIOUS

\* The digits after the point, two of them.
LEMMA TwoDigits ==
  ASSUME NEW a \in 0..9, NEW b \in 0..9
  PROVE  CentsOf(<<a, b>>) = 10 * a + b /\ CentsOf(<<a, b>>) \in 0..99
<1>1. Len(<<a, b>>) = 2 /\ <<a, b>>[1] = a /\ <<a, b>>[2] = b
  OBVIOUS
<1>2. CentsOf(<<a, b>>) = 10 * a + b
  BY <1>1 DEF CentsOf
<1> QED BY <1>2

\* The test of ParseMoney is exact, and what passes it does not wrap (money.go:46, 53).
LEMMA ParseIsExact ==
  ASSUME NEW whole \in Nat, NEW digits, CentsOf(digits) \in 0..99, NEW c
  PROVE  Exactly(ParseMoney(whole, digits, c), c, 100 * whole + CentsOf(digits))
<1> DEFINE cents == CentsOf(digits)
           exact == 100 * whole + cents
           max == MaxInt \div 100
           rest == MaxInt % 100
<1>1. max \in Nat /\ rest \in 0..99 /\ MaxInt = 100 * max + rest
  BY MaxIntAssumption, Hundreds
<1> HIDE DEF cents, max, rest
<1>2. cents \in 0..99
  BY DEF cents
<1>3. whole * 100 + cents = exact
  BY <1>2
<1>4. exact \in Int64 <=> exact <= MaxInt
  BY <1>2, MaxIntAssumption DEF Int64, MinInt
<1>5. exact > MaxInt <=> (whole > max \/ (whole = max /\ cents > rest))
  BY <1>1, <1>2, MaxIntAssumption
<1>6. exact \in Int64 => Wrap(exact) = exact
  BY WrapInside
<1> HIDE DEF exact
<1>7. exact \in Int
  BY <1>2 DEF exact
<1> QED BY <1>3, <1>4, <1>5, <1>6, <1>7, MaxIntAssumption DEF Exactly, ParseMoney, exact, cents,
        max, rest

\* What can be written with two decimals is read back, and what does not fit is refused
\* and does not wrap (money.go:28, 117), whatever the width of the integer.
THEOREM DecimalsAreRead == Spec => []DecimalsRoundTrip
<1>1. ASSUME left \in Int64 /\ right \in Int64
      PROVE  DecimalsRoundTrip
  <2> SUFFICES ASSUME NEW c \in Currencies
               PROVE
    LET text == Amount(InCurrency(c, left))
        digits == <<text.cents \div 10, text.cents % 10>>
        tail == <<(right - MinInt) \div 10 % 10, (right - MinInt) % 10>>
        exact == 100 * left + CentsOf(tail) IN
    /\ ~text.negative =>
         ParseMoney(text.whole, digits, c) = Ok(InCurrency(c, left))
    /\ text.cents \in 0..99 /\ text.whole \in 0..MaxInt
    /\ left >= 0 => Exactly(ParseMoney(left, tail, c), c, exact)
    BY DEF DecimalsRoundTrip
  <2> DEFINE text == Amount(InCurrency(c, left))
             digits == <<text.cents \div 10, text.cents % 10>>
             tail == <<(right - MinInt) \div 10 % 10, (right - MinInt) % 10>>
  <2>1. left \in Int /\ MinInt <= left /\ left <= MaxInt /\ right - MinInt \in Nat
    BY <1>1, MaxIntAssumption DEF Int64, MinInt
  <2>2. CASE left >= 0
    <3>1. /\ text.negative = FALSE /\ text.whole = left \div 100
          /\ text.cents = left - 100 * (left \div 100)
      BY <2>1, <2>2 DEF Amount, InCurrency, Quo, Rem
    <3>2. text.whole \in Nat /\ text.cents \in 0..99 /\ left = 100 * text.whole + text.cents
      BY <2>1, <2>2, <3>1, Hundreds
    <3> HIDE DEF text
    <3>3. /\ text.cents \div 10 \in 0..9 /\ text.cents % 10 \in 0..9
          /\ text.cents = 10 * (text.cents \div 10) + (text.cents % 10)
      BY <3>2
    <3>4. CentsOf(digits) = text.cents
      BY <3>3, TwoDigits
    <3> HIDE DEF digits
    <3>5. ParseMoney(text.whole, digits, c) = Ok(InCurrency(c, left))
      BY <1>1, <3>2, <3>4, ParseIsExact DEF Exactly
    <3>6. CentsOf(tail) \in 0..99
      <4> DEFINE n == right - MinInt
      <4>1. n \in Nat
        BY <2>1
      <4> HIDE DEF n
      <4>2. n \div 10 % 10 \in 0..9 /\ n % 10 \in 0..9
        BY <4>1
      <4>3. CentsOf(<<n \div 10 % 10, n % 10>>) \in 0..99
        BY <4>2, TwoDigits
      <4> QED BY <4>3 DEF n
    <3> HIDE DEF tail
    <3>7. Exactly(ParseMoney(left, tail, c), c, 100 * left + CentsOf(tail))
      BY <2>1, <2>2, <3>6, ParseIsExact
    <3>8. text.whole \in 0..MaxInt
      BY <2>1, <3>2, MaxIntAssumption
    <3> QED BY <3>2, <3>5, <3>7, <3>8 DEF text, digits, tail
  <2>3. CASE left < 0
    <3> DEFINE x == -left
    <3>1. x \in Nat /\ x <= MaxInt + 1
      BY <2>1, <2>3, MaxIntAssumption DEF MinInt
    <3>2. /\ text.negative = TRUE /\ text.whole = x \div 100
          /\ text.cents = x - 100 * (x \div 100)
      BY <2>1, <2>3 DEF Amount, InCurrency, Quo, Rem
    <3> HIDE DEF x
    <3>3. text.cents \in 0..99 /\ text.whole \in 0..MaxInt
      <4>1. x \div 100 \in Nat /\ x - 100 * (x \div 100) \in 0..99
        BY <3>1, Hundreds
      <4>2. x \div 100 <= MaxInt
        BY <3>1, <4>1, MaxIntAssumption
      <4> QED BY <3>2, <4>1, <4>2, MaxIntAssumption
    <3> QED BY <2>1, <2>3, <3>2, <3>3
  <2> QED BY <2>1, <2>2, <2>3
<1> QED BY <1>1, SweepTypes, PTL
=============================================================================
