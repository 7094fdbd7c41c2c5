CONSTANTS
  MAX_THROTTLE_ENTRIES = 2
  THROTTLE_MIN_BUCKET_CAPACITY = 2
  SECOND = 2
  U64 = 8
  Pids = {0, 5}
  Rates = {0, 3}
  Sizes = {2}
  MaxAge = 3
SPECIFICATION RateSpec
INVARIANTS TableConsistent OverdraftBounded
