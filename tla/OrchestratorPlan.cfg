SPECIFICATION FairSpec
CONSTANTS
  r1 = r1
  r2 = r2
  Planned = 2
  MaxRow = 4
  Agents = {"agent", "nobody"}
  Catalog = {"agent"}
  MaxAttempts = 2
  Replies = {r1, r2}
  MaxFaults = 1
ACTION_CONSTRAINTS
  UpToTrampling
  FewCalls
  FailuresSave
  TwoDisturbances
  InTurn
INVARIANTS
  TypeOK
  RowsAreTheSteps
  PausedMasterHasPausedChild
PROPERTIES
  
  NoRowStaysRunning
  PlanSettles
