SPECIFICATION Spec
CONSTANTS
  a = a
  b = b
  old = old
  new = new
  pretty = pretty
  Absent = Absent
  Files = {a, b}
  Contents = {old, new, pretty}
  Batches <- MCBatches
  Tools <- Patching
  Format <- Prettifying
  StuckPools = FALSE
  MaxOps = 1
  MaxCrashes = 1
  MaxFaults = 0
  MaxEdits = 0
INVARIANT RecoverableUnlessTouched
