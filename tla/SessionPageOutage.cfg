CONSTANTS
  Slots <- TwoSlots
  MaxStatus = 1
  MaxRow = 1
  MaxEntries = 1
  MaxFaults = 2
SPECIFICATION FairPageSpec
PROPERTY
  PollingSurvives
CHECK_DEADLOCK FALSE
