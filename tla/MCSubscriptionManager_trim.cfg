SPECIFICATION FairSpec
CONSTANTS
  a = a
  b = b
  c = c
  Signatures = {a, b, c}
  Accepted = {a, b, c}
  Copies <- Once
  RingSize = 2
  CacheSize = 1
  Shard <- TwoShards
  MayExpire = FALSE
PROPERTY OversizeCacheIsTrimmed
CHECK_DEADLOCK FALSE
