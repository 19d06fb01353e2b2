CONSTANTS
  b1 = b1
  b2 = b2
  p = p
  q = q
  t1 = t1
  t2 = t2
  t3 = t3
  Browsers = {b1}
  Ids = {p, q}
  Linked = {p}
  Tasks = {t1, t2}
  MaxDecisions = 3
  MaxVisits = 3
  MaxFaults = 2
SPECIFICATION SwipeSpec
INVARIANTS
  SwipeTypeOK
  
  KeptIsQueuedOrPushed

  
CHECK_DEADLOCK FALSE
