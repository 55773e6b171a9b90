CONSTANTS
  replacer_size = 2
  k = 2
  MaxClock = 5
SPECIFICATION Spec
INVARIANTS
  TypeOK
  ListsInv
  SizeInv
  OrderInv
PROPERTIES
  EvictionOrder
  EvictTotal
