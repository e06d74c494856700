CONSTANTS
  shared = shared
  Keys = {k1, k2, k3}
  Buckets = {shared}
  BucketOf <- MCBucketOf
  BUCKETS_ASSOCIATIVITY = 2
  BUFFER_LENGTH = 1
  MaxSamples = 7
  Fault = "write"
  TempFileFails = TRUE
SPECIFICATION CycleSpec
INVARIANTS
  NoSampleLost
  UnresolvedExact
  ReportExact
PROPERTIES
  DeliveredOnce
CHECK_DEADLOCK FALSE
