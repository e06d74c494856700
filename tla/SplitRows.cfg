CONSTANTS
  shared = shared
  Keys = {k1, k2, k3}
  Buckets = {shared}
  BucketOf <- MCBucketOf
  BUCKETS_ASSOCIATIVITY = 2
  BUFFER_LENGTH = 1
  MaxSamples = 6
  Fault = "none"
  TempFileFails = TRUE
SPECIFICATION CycleSpec
INVARIANTS
  OneRowPerBacktrace
CHECK_DEADLOCK FALSE
