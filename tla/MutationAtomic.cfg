SPECIFICATION FairSpec
CONSTANTS
  a = a
  b = b
  old = old
  new = new
  pretty = pretty
  Absent = Absent
  Files = {a, b}
  Contents = {old, new}
  Batches <- MCBatches
  Tools <- AllTools
  Format <- AsIs
  StuckPools = FALSE
  MaxOps = 1
  MaxCrashes = 2
  MaxFaults = 2
  MaxEdits = 0
INVARIANT MixedBatchIsOwned
PROPERTIES ImplementsAtomicBatch RecoveryCompletes
