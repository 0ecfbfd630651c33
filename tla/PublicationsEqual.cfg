SPECIFICATION Spec
CONSTANTS
  c1 = c1
  c2 = c2
  c3 = c3
  A = A
  B = B
  s = s
  x = x
  y = y
  Nobody = Nobody
  Calls = {c1, c2, c3}
  InputOf <- MCInputOf
  Inputs = {A, B}
  Tables = {1, 2}
  Needs <- MCNeeds
  Attempts <- MCAttempts
  Keep = 1
  MaxDeletes = 4
  MaxFaults = 1
PROPERTY PublishedStays
