CONSTANTS
  w1 = w1
  w2 = w2
  Workers = {w1, w2}
  Slots = {1, 2}
  FilesIn = 1
  MaxDocs = 2
  MaxVisits = 1
  MaxReprocess = 1
  MaxFaults = 1
SPECIFICATION FairKnowledgeSpec
INVARIANTS
  
  
  OnePlanPerVisit

  
CHECK_DEADLOCK FALSE
