\* A scan from left to right beside a Remove that takes the left sibling.
SPECIFICATION Spec
CONSTANTS
  Keys = {1, 2, 3}
  leaf_max_size = 2
  internal_max_size = 3
  MaxPages = 8
  Finders = {}
  Inserters = {}
  Removers = {t1}
  Scanners = {t2}
  KeyScanners = {}
  Prefill = {1, 2, 3}
  PrefillLate = {}
  MaxOps = 1
INVARIANTS SomeoneCanMove
\* The calls are bounded: when all are done nothing moves.
CHECK_DEADLOCK FALSE
