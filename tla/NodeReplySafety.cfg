CONSTANTS
  a = a
  b = b
  c = c
  Nodes = {a, b, c}
  Requires <- Join
  Manual = {}
  MaxAttempts = 2
  ClaimLimit = 2
  MaxFaults = 1
  Replies = {r1, r2}
  NoNode = NoNode
SPECIFICATION MCSpec
ACTION_CONSTRAINTS
  FewCalls
  UpToTrampling
INVARIANTS
  ReplyTypeOK
  SingleRunnerUnlessTrampled
  DependenciesPassedUnlessTrampled
  WakeupsWithReplies
PROPERTIES
  ExecutionSettlesWithReplies
