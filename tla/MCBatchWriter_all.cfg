SPECIFICATION FairSpec
CONSTANTS
  MaxItems = 3
  BatchSize = 2
  BufferSize = 2
  MaxRetries = 1
  StorageErrors = {"Retryable", "Permanent"}
  StorageMaySkip = TRUE
  MaxFailures = 1
  ShutdownModes = {"flush", "stop"}
INVARIANTS BufferBounded SubmissionOrder OnePlace
PROPERTY ImplementsSink
CHECK_DEADLOCK FALSE
