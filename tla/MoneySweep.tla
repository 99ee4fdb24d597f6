----------------------------- MODULE MoneySweep -----------------------------
(***************************************************************************)
(* Every pair of machine integers, visited one after the other, so that    *)
(* the operators of Money are compared with arithmetic on the unbounded    *)
(* integers on all of them.                                                *)
(***************************************************************************)
EXTENDS Money

VARIABLES left, right

vars == <<left, right>>

Init == left \in Int64 /\ right = MinInt

NextPair == right < MaxInt /\ right' = right + 1 /\ UNCHANGED left

Spec == Init /\ [][NextPair]_vars

-----------------------------------------------------------------------------
\* r is the answer exact if it fits the machine integer, and an overflow else.
Exactly(r, c, exact) ==
  r = IF exact \in Int64 THEN Ok(InCurrency(c, exact)) ELSE Err("OVERFLOW")

\* Compare answers which of the two is the smaller one.
ComparesExactly(r) ==
  /\ r.err = ""
  /\ r.order < 0 <=> left < right
  /\ r.order > 0 <=> left > right

\* Add, Sub and Negate answer the exact result when it fits and an overflow when
\* it does not, although the overflow tests themselves run in the same integer; and
\* what is in different currencies is neither added nor subtracted nor compared,
\* whether or not it would overflow.
ArithmeticIsExact ==
  \A c, d \in Currencies :
    LET m == InCurrency(c, left)
        n == InCurrency(d, right) IN
    IF c = d
    THEN /\ Exactly(Add(m, n), c, left + right)
         /\ Exactly(Sub(m, n), c, left - right)
         /\ Exactly(Negate(m), c, -left)
         /\ ComparesExactly(Compare(m, n))
    ELSE {Add(m, n), Sub(m, n), Compare(m, n)} = {Err("CURRENCY_MISMATCH")}

\* What can be written with two decimals is read back to the same amount, and a
\* decimal just beyond the largest amount is refused instead of wrapping: the
\* whole part is left, the digits after the point are those of right.
DecimalsRoundTrip ==
  \A c \in Currencies :
    LET text == Amount(InCurrency(c, left))
        digits == <<text.cents \div 10, text.cents % 10>>
        tail == <<(right - MinInt) \div 10 % 10, (right - MinInt) % 10>>
        exact == 100 * left + CentsOf(tail) IN
    /\ ~text.negative =>
         ParseMoney(text.whole, digits, c) = Ok(InCurrency(c, left))
    /\ text.cents \in 0..99 /\ text.whole \in 0..MaxInt
    /\ left >= 0 => Exactly(ParseMoney(left, tail, c), c, exact)
=============================================================================
