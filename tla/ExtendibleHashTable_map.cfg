CONSTANTS
  Keys = {0, 1, 3, 4, 5}
  Values = {a, b}
  NotFound = NotFound
  bucket_size = 2
  MaxDepth = 3
SPECIFICATION Spec
INVARIANTS
  DirectoryIntegrity
  NumBucketsExact
PROPERTIES
  Implements
  InsertTerminates
