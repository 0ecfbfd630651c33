SPECIFICATION FairSpec
CHECK_DEADLOCK FALSE
CONSTANTS
  c1 = c1
  c2 = c2
  c3 = c3
  c4 = c4
  p1 = p1
  p2 = p2
  a1 = a1
  a2 = a2
  Calls <- CrossedCalls
  Files <- MCFiles
  Procs = {p1, p2}
  ProcOf <- CrossedProcOf
  AccountOf <- MCAccountOf
  Requested <- CrossedRequested
  LegacyFile = 1
  Nobody = Nobody
INVARIANT GuardsProtectTheLease
PROPERTY EveryCallEnds
