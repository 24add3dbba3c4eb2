SPECIFICATION FairSpec
CONSTANTS
  Totals = {1}
  Writers <- LoopAndFlush
  Pushes <- OnePush
  MaxHandIns <- HandIns
  MigrationMayFail = TRUE
  Faults = {"storage", "api"}
  MaxFaults = 1
  MaxCrashes = 1
  None = None
  loop = loop
  flush = flush
  p1 = p1
INVARIANT TypeOK
INVARIANT MigratedOnce
INVARIANT RaisedIsBacked
INVARIANT SameBatchFindsToken
PROPERTY CreationRepairs
CHECK_DEADLOCK FALSE
