SPECIFICATION BackfillFairSpec
CONSTANTS
  Chain <- SwapsAndDeposit
  Types = {swap, deposit}
  Loops = {swap}
  Reverted = {}
  Blind = {}
  Limit = 2
  UpdateEvery = 2
  Faults = {"rpc", "database", "transaction"}
  MaxFaults = 1
  MaxCrashes = 1
  None = None
  swap = swap
  deposit = deposit
INVARIANT BackfillTypeOK
INVARIANT CheckpointCovers
PROPERTY CheckpointForward
PROPERTY Repaired
