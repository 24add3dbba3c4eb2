SPECIFICATION Spec
CONSTANTS
  None = None
  alice = alice
  bob = bob
  nft = nft
  nft2 = nft2
  Wallets <- TwoWallets
  Mints <- TwoMints
  FirstMint = nft
  MaxMinted = 1
  LockedLp = 1
  Denominator = 10
  Configs <- TwoConfigs
  Permitted <- TwoWallets
  InitAmounts <- SmallPools
  Amounts = {2, 4}
  Minimums = {1}
  Maximums = {12}
  WideMax = 4095
  RootSlack = {0, 1}
  Statuses <- NoneOrSwap
  Exact = 8
  Scales <- Powers
  Slippages = {0, 2}
  MaxSteps = 5
INVARIANT Solvent
INVARIANT QuotesKeepConstant
INVARIANT ClaimsAccounted
INVARIANT QuotesHonoured
PROPERTY ShareNeverFalls
SYMMETRY Wallet
CHECK_DEADLOCK FALSE
