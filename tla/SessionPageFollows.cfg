CONSTANTS
  Slots <- TwoSlots
  MaxStatus = 1
  MaxRow = 1
  MaxEntries = 1
  MaxFaults = 1
SPECIFICATION FairPageSpec
INVARIANTS
  PageTypeOK
PROPERTIES
  SessionCatchesUp
  MasterCatchesUp
CHECK_DEADLOCK FALSE
