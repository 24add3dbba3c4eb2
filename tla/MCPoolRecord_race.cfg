SPECIFICATION FairSpec
CONSTANTS
  Mode = "Upsert"
  InsertEnabled = TRUE
  Builders <- OneBuilder
  Launches = TRUE
  Outside = TRUE
  ApiSlots = {0, 2}
  Readable = {TRUE, FALSE}
  Writers <- LoopAndFlush
  MaxSlot = 2
  MaxDeliveries = 2
  Faults = {"storage", "api", "sync"}
  MaxFaults = 1
  MaxCrashes = 1
  None = None
  loop = loop
  flush = flush
  b1 = b1
  b2 = b2
INVARIANT SyncedHasMint
PROPERTY SlotForward
PROPERTY EventConfirms
PROPERTY SyncEnds
CHECK_DEADLOCK FALSE
