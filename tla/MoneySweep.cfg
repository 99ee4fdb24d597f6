CONSTANTS
  MaxInt = 250
  Currencies = {"BRL", "USD"}
SPECIFICATION Spec
INVARIANTS ArithmeticIsExact DecimalsRoundTrip
CHECK_DEADLOCK FALSE
