SPECIFICATION Spec
CONSTANTS
  home = home
  away = away
  h1 = h1
  h2 = h2
  w1 = w1
  Proc = {home, away}
  Store = {h1, h2, w1}
  ProcOf <- MCProcOf
  Nobody = Nobody
  LeaseTicks = 2
  MaxOwners = 3
  MaxEpoch = 2
INVARIANTS TypeOK SharedWhileUsed BodyOwnsTheRow
PROPERTIES EpochsNameOwners RenewedUnderGuard ShutdownsEnd
\* The bound on coordinators stops a system that has closed them all.
CHECK_DEADLOCK FALSE
