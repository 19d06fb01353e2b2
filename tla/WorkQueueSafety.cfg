CONSTANTS
  a = a
  b = b
  c = c
  d = d
  Nodes = {a, b, c, d}
  Requires <- Diamond
  Manual = {}
  MaxAttempts = 2
  ClaimLimit = 2
  MaxFaults = 2
SPECIFICATION Spec
INVARIANTS
  TypeOK
  DependenciesPassed
  NoLostWakeup
  SkipsAreExact
  CompletedIsSettled
PROPERTIES
  ImplementsDagExecution
