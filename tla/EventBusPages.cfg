CONSTANTS
  Senders = {s1, s2}
  Browsers = {b1}
  Capacity = 2
  Channels = {1, 2, 3, 4, 5}
  MaxWrites = 3
  MaxDrops = 1
SPECIFICATION FairBusSpec
INVARIANTS
  BusTypeOK
  

  
