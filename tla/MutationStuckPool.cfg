SPECIFICATION Spec
CONSTANTS
  a = a
  b = b
  old = old
  new = new
  pretty = pretty
  Absent = Absent
  Files = {a, b}
  Contents = {old, new}
  Batches <- MCBatches
  Tools <- AllTools
  Format <- AsIs
  StuckPools = TRUE
  MaxOps = 1
  MaxCrashes = 1
  MaxFaults = 1
  MaxEdits = 0
INVARIANT MixedBatchIsOwned
