CONSTANTS
  Stoppers <- TwoStops
  MaxEvents = 2
  MaxSessions = 2
  MaxFaults = 1
SPECIFICATION FairRecorderSpec
INVARIANTS
  RecorderTypeOK
  
  FinalFlushFirst
PROPERTIES
  EventsGetOut
CHECK_DEADLOCK FALSE
