SPECIFICATION FairSpec
CONSTANTS
  a = a
  b = b
  c = c
  Signatures = {a, b, c}
  Accepted = {a, b}
  Copies <- TwiceA
  RingSize = 2
  CacheSize = 1
  Shard <- TwoShards
  MayExpire = TRUE
INVARIANTS TypeOK SubmittedOnce PassedIsHandled
PROPERTIES HeardIsSubmitted
CHECK_DEADLOCK FALSE
