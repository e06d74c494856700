CONSTANTS
  k1 = k1
  k2 = k2
  k3 = k3
  k4 = k4
  shared = shared
  own = own
  Keys = {k1, k2, k3, k4}
  Buckets = {shared, own}
  BucketOf <- MCBucketOf
  BUCKETS_ASSOCIATIVITY = 2
  BUFFER_LENGTH = 2
  MaxSamples = 8
  Fault = "write"
SPECIFICATION CollectorSpec
INVARIANTS
  CollectorTypeOK
  OneEntryPerKey
  NoSampleTwice
PROPERTIES
  HotEntriesStay
  StoreImplemented
CHECK_DEADLOCK FALSE
