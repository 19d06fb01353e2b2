CONSTANTS
  a = a
  b = b
  c = c
  d = d
  Nodes = {a, b, c}
  Requires <- Join
  Manual = {}
  MaxAttempts = 2
  ClaimLimit = 2
  MaxFaults = 1
SPECIFICATION FairSpec
PROPERTIES
  ExecutionSettles
  FailureReachesDependents
