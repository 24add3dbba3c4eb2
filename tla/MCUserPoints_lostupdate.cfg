SPECIFICATION PointsSpec
CONSTANTS
  s1 = s1
  s2 = s2
  s3 = s3
  c1 = c1
  c2 = c2
  alice = alice
  bob = bob
  carol = carol
  None = None
  Wallets = {alice, bob, carol}
  Swaps = {s1, s2, s3}
  Claims = {}
  Payer <- SwapsPayer
  Claimer <- NoClaim
  Upper <- NoClaim
  MaxRestarts = 0
  CallsMayFail = FALSE
INVARIANT TransactionPointsExact
CHECK_DEADLOCK FALSE
