SPECIFICATION Spec
CHECK_DEADLOCK FALSE
CONSTANTS
  c1 = c1
  c2 = c2
  c3 = c3
  c4 = c4
  p1 = p1
  p2 = p2
  a1 = a1
  a2 = a2
  Calls <- TurnsCalls
  Files = {1}
  Procs = {p1, p2}
  ProcOf <- TurnsProcOf
  AccountOf <- MCAccountOf
  Requested <- TurnsRequested
  LegacyFile = 1
  Nobody = Nobody
INVARIANTS TypeOK TurnsInOrder OneWriter
PROPERTIES LeaseHonoured
