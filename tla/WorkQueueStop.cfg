CONSTANTS
  a = a
  b = b
  c = c
  d = d
  Nodes = {a, b, c}
  Requires <- Chain
  Manual = {}
  MaxAttempts = 3
  ClaimLimit = 8
  MaxFaults = 0
SPECIFICATION Spec
PROPERTIES
  CancelledSessionStays
