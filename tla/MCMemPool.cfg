CONSTANTS
  Ptr = 8
  BucketSize = 64
  Requests <- MCRequests
  MaxBuckets = 3
SPECIFICATION Spec
INVARIANTS
  BlocksInside
  BlocksApart

