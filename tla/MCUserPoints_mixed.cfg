SPECIFICATION PointsFairSpec
CONSTANTS
  s1 = s1
  s2 = s2
  s3 = s3
  c1 = c1
  c2 = c2
  alice = alice
  bob = bob
  carol = carol
  None = None
  Wallets = {alice, bob, carol}
  Swaps = {s1, s2}
  Claims = {c1, c2}
  Payer <- MixedPayer
  Claimer <- MixedClaimer
  Upper <- MixedUpper
  MaxRestarts = 1
  CallsMayFail = TRUE
INVARIANTS NeverOverpaid SummaryBackedByDetails ClaimRewarded
PROPERTY PayerGetsAccount
CHECK_DEADLOCK FALSE
