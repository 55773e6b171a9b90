\* Two threads that insert and remove; the tree grows and shrinks by a level.
SPECIFICATION Spec
CONSTANTS
  Keys = {1, 2, 3, 4, 5}
  leaf_max_size = 3
  internal_max_size = 3
  MaxPages = 14
  Finders = {}
  Inserters = {t1, t2}
  Removers = {t1, t2}
  Scanners = {}
  KeyScanners = {}
  Prefill = {1, 3, 4, 5}
  PrefillLate = {}
  MaxOps = 2
INVARIANTS TreeWellFormed NoPageLeaks
PROPERTIES ChangesAreLatched ImplementsIndex OperationsEnd
\* The calls are bounded: when all are done nothing moves.
CHECK_DEADLOCK FALSE
