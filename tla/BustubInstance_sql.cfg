CONSTANTS
  s1 = s1
  s2 = s2
  Sessions = {s1, s2}
  Bits <- MCBits
  MaxRows = 3
  Draws <- MCDraws
  LowerCase <- MCLowerCase
  InternalNames <- MCInternalNames
  Requests <- MCRequests
  MaxRequests <- MCMaxRequests
SPECIFICATION Spec
INVARIANTS
  PlanMeansStatement
  OptimizerKeepsMeaning
  ResultsAreMeaning
  CatalogConsistent
CHECK_DEADLOCK FALSE
