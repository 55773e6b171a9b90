CONSTANTS
  Bits <- ReducedBits
  MaxDecimal = 16
SPECIFICATION Spec
INVARIANT ArithmeticStaysInRange
CHECK_DEADLOCK FALSE
