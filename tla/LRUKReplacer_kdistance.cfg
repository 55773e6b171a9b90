CONSTANTS
  replacer_size = 1
  k = 2
  MaxClock = 4
SPECIFICATION Spec
PROPERTY MaxBackwardKDistance
