CONSTANTS
  Bits <- ReducedBits
  MaxDecimal = 16
SPECIFICATION Spec
INVARIANTS ArithmeticExact NullKeepsType ComparisonLaws EqualHashesAlike CastsKeepNumbers TupleRoundTrip
CHECK_DEADLOCK FALSE
